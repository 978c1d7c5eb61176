--------------------------- MODULE CatalogDesktop ---------------------------
(***************************************************************************)
(* The modules of docker.py, dev_hygiene.py, voxtype.py, gnome.py,          *)
(* _cask.py and macos_apps.py, macos_system.py, macos_defaults.py, ios.py   *)
(* and android_emulator.py.  Each definition has the name of its class.     *)
(***************************************************************************)
EXTENDS Recipes, TLC

(* --- docker.py ------------------------------------------------------------ *)
Docker(os) ==
    After({"rosetta"}, IF Mac(os)
        THEN Mod({"homebrew"}, {"docker", "docker.engine", "docker.context"},
                 << Pkg(os, "docker"), Do({"docker"}, {"docker.configured"}),
                    Do({"docker.configured"}, {"docker.engine"}),
                    Do({"docker.engine"}, {"docker.context"}) >>)
        ELSE Mod({"homebrew"}, {"docker", "docker.engine", "docker.group"},
                 UnlessAll({"docker"}, IF os = "debian" THEN FromRepo("docker")
                                       ELSE IF os = "fedora" THEN << Script("docker") >>
                                       ELSE << Pkg(os, "docker") >>)
                 \o << Try({"docker"}, {"docker.engine"}), Try({"docker"}, {"docker.group"}) >>))

(* Only a missing cap is written; the engine is restarted after it.         *)
DockerBuildCacheGc(os) ==
    Mod({"docker"}, {"docker.gc"},
        UnlessAll({"docker.gc"},
            << Do({}, {"docker.gc"}),
               IF Mac(os) THEN Do({"docker"}, {"docker.gc-loaded"})
                          ELSE Try({"docker"}, {"docker.gc-loaded"}) >>))

(* --- dev_hygiene.py ------------------------------------------------------- *)
AspireGc(os) ==
    Mod({"docker"}, {"gc.timer"},
        << Do({}, {"gc.timer"}) >>
        \o IF Mac(os) THEN << >> ELSE << Try({"gc.timer"}, {"gc.timer-enabled"}) >>)

(* --- voxtype.py ------------------------------------------------------------ *)
Voxtype(os) ==
    After({"dotfiles"}, Gui(ProvidedBy({"omarchy"}, IF Mac(os)
        THEN Mod({}, {"voxtype", "voxtype.model", "voxtype.app"},
                 << Unless({"voxtype"}, Do({}, {"voxtype"})), Do({"voxtype"}, {"voxtype.model"}),
                    Unless({"voxtype.app"}, Ask({"user:interactive"})),
                    Do({"voxtype"}, {"voxtype.app"}) >>)
        ELSE Mod({}, {"voxtype", "voxtype.model", "voxtype.service"},
                 << IF os = "arch" THEN Aur("voxtype") ELSE Do({}, {"voxtype"}),
                    Do({}, {"wtype"}), Do({}, {"input-group"}),
                    Do({"voxtype"}, {"voxtype.model"}), Do({"voxtype"}, {"voxtype.service"}) >>))))

(* A marker says that the running daemon has not read the new configuration *)
(* (`arabic.settled`: there is none); it is set after the configuration is  *)
(* written and removed after the restart.                                   *)
VoxtypeArabic(os) ==
    After({"dotfiles"}, Gui(
        Mod({"voxtype"}, {"arabic.marker", "arabic.model", "arabic.config", "arabic.settled"},
            << Ask({"voxtype"}), Do({"voxtype"}, {"arabic.model"}), Do({}, {"arabic.marker"}) >>
            \o IF os = "omarchy" THEN << Ask({"arabic.config"}) >>
               ELSE << Do({"chezmoi"}, {"arabic.config"}), Taking(Do({}, {}), {"arabic.settled"}) >>
                    \o (IF Mac(os) THEN << Ask({"user:interactive"}) >> ELSE << >>)
                    \o << Do({"voxtype"}, {"arabic.loaded", "arabic.settled"}) >>)))

(* --- gnome.py -------------------------------------------------------------- *)
Gnome(mod) == Gui(Only({"fedora", "debian"}, mod))
GnomeSettings(os) == Gnome(Mod({}, {"gnome.settings"}, << Try({}, {"gnome.settings"}) >>))
GnomeExtensions(os) ==
    Gnome(Mod({"gnome-settings"}, {"gnome.extensions"},
        UnlessAll({"gext"}, << Do({}, {"pipx"}), Try({"pipx"}, {"gext"}) >>)
        \o << Try({"gext"}, {"gnome.extensions"}) >>))
GnomeManagerApps(os) ==
    Gnome(Mod({"gnome-settings", "flatpak"}, {"gnome-tweaks", "gnome.managers"},
        << Do({}, {"gnome-tweaks"}), Try({"flatpak"}, {"flathub"}),
           Do({"flatpak", "flathub"}, {"gnome.managers"}) >>))
GnomeThemeBundle(os) == Gnome(Mod({}, {"gnome.theme"}, << Do({}, {"gnome.theme"}) >>))
GnomeAestheticsBundle(os) == Gnome(Mod({}, {"gnome.user-theme"}, << Do({}, {"gnome.user-theme"}) >>))

(* --- _cask.py and macos_apps.py -------------------------------------------- *)
(* The first time only: seeds fill in missing settings, and an app that     *)
(* needs permissions is opened for the user to grant them, or waits for the *)
(* user.                                                                    *)
CaskApp(app, tap, seeds, first) ==
    Gui(Only({"macos"}, Mod({"homebrew"}, {app},
        UnlessAll({app},
            (IF tap THEN << Do({"brew"}, {app \o ".tap"}), Do({app \o ".tap"}, {app}) >>
                    ELSE << Do({"brew"}, {app}) >>)
            \o (IF seeds THEN << Unless({app \o ".seeded"}, Do({}, {app \o ".seeded"})) >> ELSE << >>)
            \o first))))
Opening(app)  == Try({app}, {app \o ".opened"})
Granting(app) == << Ask({"user:interactive"}), Opening(app) >>

Stats(os)          == CaskApp("stats", FALSE, TRUE, << Opening("stats") >>)
Raycast(os)        == CaskApp("raycast", FALSE, FALSE, Granting("raycast"))
Aerospace(os)      == After({"dotfiles"}, CaskApp("aerospace", TRUE, FALSE, Granting("aerospace")))
AltTab(os)         == CaskApp("alt-tab", FALSE, FALSE, Granting("alt-tab"))
Thaw(os)           == CaskApp("thaw", FALSE, FALSE, Granting("thaw"))
MonitorControl(os) == CaskApp("monitorcontrol", FALSE, FALSE, Granting("monitorcontrol"))
Keka(os)           == CaskApp("keka", FALSE, FALSE, << >>)
Maccy(os)          == CaskApp("maccy", FALSE, FALSE, Granting("maccy"))
OllamaApp(os)      == CaskApp("ollama-app", FALSE, FALSE, << >>)
LmStudio(os)       == CaskApp("lm-studio", FALSE, FALSE, << >>)
Pearcleaner(os)    == CaskApp("pearcleaner", FALSE, FALSE, << >>)
Keycastr(os)       == CaskApp("keycastr", FALSE, FALSE, << >>)
Linearmouse(os)    == CaskApp("linearmouse", FALSE, FALSE, Granting("linearmouse"))
AndroidStudio(os)  == CaskApp("android-studio", FALSE, FALSE, << >>)
ExpoOrbit(os)      == CaskApp("expo-orbit", FALSE, FALSE, << >>)
Herd(os)           == CaskApp("herd", FALSE, FALSE, << >>)
Quicklook(os) ==
    Gui(Only({"macos"}, Mod({"homebrew"}, {"qlmarkdown", "syntax-highlight"},
        << Pkg(os, "qlmarkdown"), Pkg(os, "syntax-highlight") >>)))

(* --- macos_system.py and macos_defaults.py (detailed in MacDefaults) ------- *)
MacosLimits(os) ==
    Only({"macos"}, Mod({}, {"maxfiles.daemon", "maxfiles"},
        << Do({}, {"maxfiles.daemon"}), Do({}, {"maxfiles"}) >>))
MacosFirewall(os) ==
    Only({"macos"}, Mod({}, {"alf"}, << Do({}, {"alf"}), Try({}, {"alf.marker"}) >>))
TimemachineExclusions(os) ==
    After({"docker"}, Only({"macos"}, Mod({}, {"tm.agent", "tm.excluded"},
        << Do({}, {"tm.agent"}), Do({}, {"tm.excluded"}) >>)))
MacosDefaults(os) ==
    Only({"macos"}, Mod({}, {"macos-defaults"}, << Do({}, {"macos-defaults"}) >>))

(* --- ios.py ----------------------------------------------------------------- *)
Xcodes(os) == Only({"macos"}, PackageModule(os, "xcodes"))
Xcode(os) ==
    Gui(Only({"macos"}, Mod({"homebrew", "xcodes"}, {"xcode", "xcode.license"},
        << Ask({"user:apple-id"}), Ask({"user:disk"}), Do({"xcodes"}, {"xcode"}),
           Do({"xcode"}, {"xcode.license"}), Do({"xcode"}, {"xcode.launched"}) >>)))
IosTooling(os) ==
    Only({"macos"}, Mod({"xcode"}, {"cocoapods", "ios.runtime"},
        << Do({"brew"}, {"cocoapods"}), Ask({"user:apple-id"}),
           Do({"xcodes", "xcode"}, {"ios.runtime"}) >>))

(* --- android_emulator.py ------------------------------------------------------ *)
AndroidEmulator(os) ==
    Gui(Mod({"android-sdk"}, {"emulator", "avd"},
        << Do({"sdkmanager", "java"}, {"emulator"}), Unless({"avd"}, Do({"emulator"}, {"avd"})) >>))

-----------------------------------------------------------------------------
DesktopCatalog(os) ==
       ("docker" :> Docker(os)) @@ ("docker-build-gc" :> DockerBuildCacheGc(os))
    @@ ("aspire-gc" :> AspireGc(os)) @@ ("voxtype" :> Voxtype(os))
    @@ ("voxtype-arabic" :> VoxtypeArabic(os)) @@ ("gnome-settings" :> GnomeSettings(os))
    @@ ("gnome-extensions" :> GnomeExtensions(os))
    @@ ("gnome-manager-apps" :> GnomeManagerApps(os))
    @@ ("gnome-theme-bundle" :> GnomeThemeBundle(os))
    @@ ("gnome-aesthetics-bundle" :> GnomeAestheticsBundle(os))
    @@ ("stats" :> Stats(os)) @@ ("raycast" :> Raycast(os)) @@ ("aerospace" :> Aerospace(os))
    @@ ("alt-tab" :> AltTab(os)) @@ ("thaw" :> Thaw(os))
    @@ ("monitorcontrol" :> MonitorControl(os)) @@ ("keka" :> Keka(os)) @@ ("maccy" :> Maccy(os))
    @@ ("ollama-app" :> OllamaApp(os)) @@ ("lm-studio" :> LmStudio(os))
    @@ ("pearcleaner" :> Pearcleaner(os)) @@ ("keycastr" :> Keycastr(os))
    @@ ("linearmouse" :> Linearmouse(os)) @@ ("android-studio" :> AndroidStudio(os))
    @@ ("expo-orbit" :> ExpoOrbit(os)) @@ ("herd" :> Herd(os)) @@ ("quicklook" :> Quicklook(os))
    @@ ("macos-limits" :> MacosLimits(os)) @@ ("macos-firewall" :> MacosFirewall(os))
    @@ ("timemachine-exclusions" :> TimemachineExclusions(os))
    @@ ("macos-defaults" :> MacosDefaults(os)) @@ ("xcodes" :> Xcodes(os))
    @@ ("xcode" :> Xcode(os)) @@ ("ios-tooling" :> IosTooling(os))
    @@ ("android-emulator" :> AndroidEmulator(os))
=============================================================================
