----------------------------- MODULE CatalogDev -----------------------------
(***************************************************************************)
(* The modules of editors.py, dev_stacks.py, ddev.py, apps.py, server.py,   *)
(* caddy.py, multimedia.py and hardware.py.  Each definition has the name   *)
(* of its class.                                                            *)
(***************************************************************************)
EXTENDS Recipes, TLC

(* --- editors.py and _zed.py --------------------------------------------- *)
Vscode(os) ==
    Gui(BrewOr(os, "code",
        IF Family(os) = "arch" THEN << Aur("code") >>
        ELSE IF os = "fedora" THEN << Try({}, {"code.key"}) >> \o FromRepo("code")
        ELSE FromRepo("code")))

(* The settings are seeded, or merged with the user's own. On a Mac the     *)
(* user confirms Zed as the default application.                            *)
Zed(os) ==
    Gui(Mod({"homebrew", "utiluti"},
        {"zed", "zed.settings"} \cup (IF Mac(os) THEN {"zed.default-apps"} ELSE {}),
        << IF Mac(os) THEN Pkg(os, "zed") ELSE Unless({"zed"}, Do({}, {"zed"})),
           Do({}, {"zed.settings"}) >>
        \o IF Mac(os)
           THEN << Unless({"zed.default-apps"}, Ask({"utiluti", "user:confirmed-zed"})),
                   Do({"utiluti"}, {"zed.default-apps"}) >>
           ELSE << >>))

Fresh(os) ==
    Mod({"homebrew"}, {"fresh"},
        << IF Mac(os) THEN Pkg(os, "fresh") ELSE Script("fresh"),
           Unless({"fresh.config"}, Rewriting("fresh", Do({}, {"fresh.config"}))) >>)

(* --- _lsp.py: the servers of one data file, each through a mise backend   *)
(* that needs its own tool (`npm:` node, `pipx:` uv, `aqua:` nothing).  The *)
(* merge raises on a configuration that does not parse.                     *)
LspModule(requires, backends, servers) ==
    Mod(requires, {"fresh.config", servers},
        << Unless({"fresh.config"}, Rewriting("fresh", Do({}, {"fresh.config"}))),
           Try({"mise"} \cup backends, {servers}),
           Rewriting("fresh", Do({"fresh.config", "fresh.valid"}, {servers \o ".merged"})) >>)

FreshLsp(os)   == LspModule({"fresh", "mise"}, {"node"}, "fresh-lsp")
PythonLsp(os)  == LspModule({"fresh", "mise", "uv"}, {"uv"}, "python-lsp")
(* Mutant of WebLsp: what brings node is not required.                      *)
WebLspBare(os) == LspModule({"fresh", "mise"}, {"node"}, "web-lsp")
WebLsp(os) == LspModule({"fresh", "mise", "web-runtimes"}, {"node"}, "web-lsp")
LaravelLsp(os) == LspModule({"fresh", "mise", "ddev"}, {"node"}, "laravel-lsp")
DevopsLsp(os)  == LspModule({"fresh", "mise", "devops-tools"}, {}, "devops-lsp")

(* --- dev_stacks.py ------------------------------------------------------ *)
Uv(os)          == ScriptOffArch(os, "uv")
WebRuntimes(os) == Mod({"mise"}, {"node"}, << Try({"mise"}, {"node"}) >>)

(* None of the commands is checked, and verify reads the marker that ends   *)
(* install.                                                                 *)
Playwright(os) ==
    Mod({"web-runtimes"}, {"playwright.marker"},
        << Try({"node"}, {"playwright"}),
           IF os = "debian" THEN Try({"node"}, {"chromium-libs"})
           ELSE IF Mac(os) THEN Try({}, {}) ELSE Try({"dnf"}, {"chromium-libs"}),
           Try({"node"}, {"chromium"}),
           Try({"claude"}, {"mcp:playwright"}),
           Do({}, {"playwright.marker"}) >>)

DotnetSdk(os) ==
    Mod({"homebrew"}, {"dotnet"},
        IF os = "debian"
        THEN << Try({}, {"dotnet.deb"}), Try({"dotnet.deb"}, {"dotnet.repo"}), Try({}, {}),
                Do({"dotnet.repo"}, {"dotnet"}) >>
        ELSE << Do({}, {"dotnet"}) >>)
Aspire(os) == Mod({"dotnet-sdk"}, {"aspire"}, << Try({"dotnet"}, {"aspire"}) >>)
DotnetLsp(os) ==
    Mod({"fresh", "dotnet-sdk"}, {"csharp-ls"},
        << Try({"dotnet"}, {"csharp-ls"}), Try({"dotnet"}, {"csharpier"}) >>)

(* Templates that come with dev-boost: nothing to install.                  *)
DataServices(os) == Mod({"docker"}, {}, << >>)
Expo(os)         == Mod({"web-runtimes"}, {}, << >>)
DevopsTools(os)  == Mod({"mise"}, {"tofu"}, << Try({"mise"}, {"tofu"}) >>)

AndroidSdk(os) ==
    Mod({"mise", "homebrew"}, {"adb"},
        << Try({"mise"}, {"java"}) >>
        \o IF Mac(os) THEN << Pkg(os, "sdkmanager"), Do({"sdkmanager", "java"}, {"adb"}) >>
           ELSE (IF os = "debian" THEN << Do({}, {"libfuse2"}) >> ELSE << >>)
                \o UnlessAll({"sdkmanager"},
                       << Try({"curl"}, {"sdk.zip"}), Try({"sdk.zip", "unzip"}, {"sdkmanager"}) >>)
                \o << Try({"sdkmanager", "java"}, {"adb"}), Try({}, {"android.profile"}) >>)

(* --- ddev.py ------------------------------------------------------------ *)
(* On a Mac trusting the local CA needs the user at a terminal.             *)
Ddev(os) ==
    Mod({"docker", "homebrew"}, {"ddev"} \cup (IF Mac(os) THEN {"mkcert.ca"} ELSE {}),
        IF Mac(os)
        THEN UnlessAll({"ddev"}, << Do({"brew"}, {"ddev.tap"}), Do({"ddev.tap"}, {"ddev"}) >>) \o
             << Unless({"mkcert"}, Pkg(os, "mkcert")),
                Unless({"mkcert.ca"}, Ask({"user:interactive"})), Do({"mkcert"}, {"mkcert.ca"}) >>
        ELSE (IF Family(os) = "arch" THEN << Aur("ddev") >>
              ELSE IF os = "debian" THEN << Try({}, {"ddev.repo"}), Do({"ddev.repo"}, {"ddev"}) >>
              ELSE FromRepo("ddev"))
             \o << Unless({"mkcert"}, Do({}, {"mkcert"})), Try({"mkcert"}, {"mkcert.ca"}) >>)

(* Off a headless host there is nothing to do, and verify says so.          *)
DdevRemote(os) ==
    Mod({"ddev"}, {"ddev.bound"}, << OnlyIf({"headless"}), Try({"ddev"}, {"ddev.bound"}) >>)

(* --- apps.py ------------------------------------------------------------ *)
(* Cask, Arch package or Flatpak (which brings flatpak and Flathub along).  *)
FlatpakApp(os, app) ==
    Gui(Mod({"flatpak", "homebrew"}, {app},
        IF Mac(os) \/ Family(os) = "arch" THEN << Pkg(os, app) >>
        ELSE << Unless({"flatpak"}, Do({}, {"flatpak"})),
                Unless({"flathub"}, Try({"flatpak"}, {"flathub"})),
                Do({"flathub"}, {app}) >>))
FromAur(os, app) ==
    [FlatpakApp(os, app) EXCEPT !.steps = IF Family(os) = "arch" THEN << Aur(app) >> ELSE @]

Obsidian(os)  == FlatpakApp(os, "obsidian")
Bruno(os)     == FromAur(os, "bruno")
Bitwarden(os) == FlatpakApp(os, "bitwarden")
Flameshot(os) ==
    ProvidedBy({"omarchy", "macos"}, [FlatpakApp(os, "flameshot") EXCEPT !.requires = {"flatpak"}])
Localsend(os) == FlatpakApp(os, "localsend")
Vlc(os)       == FlatpakApp(os, "vlc")
Gearlever(os) == Only(LinuxFamilies, [FromAur(os, "gearlever") EXCEPT !.requires = {"flatpak"}])

(* The daily job comes after the clone verify looks for (on a Mac verify    *)
(* looks for both).                                                         *)
ObsidianSync(os) ==
    Mod({"obsidian", "secrets", "ssh-setup"},
        {"vault"} \cup (IF Mac(os) THEN {"vault.job"} ELSE {}),
        << Ask({"user:vault-repo"}), Ask({"github-credentials"}),
           Unless({"vault.key"}, Try({}, {"vault.key"})),
           Do({}, {"vault.alias"}),
           Ask({"vault.key", "user:deploy-keys"}),
           Unless({"vault"}, Try({"vault.key", "vault.alias"}, {"vault"})),
           IF Mac(os) THEN Do({}, {"vault.job"}) ELSE Try({}, {"vault.job"}) >>)

(* --- server.py ---------------------------------------------------------- *)
Tailscale(os) ==
    Mod({"homebrew"}, IF Mac(os) THEN {"tailscale", "tailscale.cli", "tailnet"} ELSE {"tailscale"},
        IF Mac(os)
        THEN << Pkg(os, "tailscale"), Do({}, {"tailscale.cli"}),
                Unless({"tailnet"}, Ask({"user:tailnet-approved"})), Do({"tailscale"}, {"tailnet"}) >>
        ELSE << Unless({"tailscale"}, Script("tailscale")),
                OnlyIf({"user:tailscale-key"}), Try({"tailscale"}, {"tailnet"}) >>)

(* Mutant of ServerFirewall: the firewall is enabled before ssh is let in.  *)
FirewallFirst(os) ==
    Only({"debian"}, Mod({}, {"ufw", "ufw.active"},
        << Do({}, {"ufw"}), Try({"ufw"}, {"ufw.deny-incoming"}),
           Try({"ufw"}, {"ufw.active"}), Try({"ufw"}, {"ufw.allow-ssh"}) >>))

(* Denying comes before allowing, and none of the rules is checked.  verify *)
(* is content with an active firewall; rpcbind is turned off after it.      *)
ServerFirewall(os) ==
    Only({"debian"}, Mod({}, {"ufw", "ufw.active"},
        << Do({}, {"ufw"}),
           Try({"ufw"}, {"ufw.deny-incoming"}), Try({"ufw"}, {"ufw.allow-outgoing"}),
           Try({"ufw"}, {"ufw.allow-ssh"}), Try({"ufw"}, {"ufw.allow-tailnet"}),
           Try({"ufw"}, {"ufw.active"}),
           Try({}, {"rpcbind.disabled"}), Try({}, {"rpcbind.masked"}) >>))

(* verify reads the configuration; the device is started after it.          *)
Zram(os) ==
    Only(LinuxFamilies, Mod({}, {"zram.conf"},
        << Do({}, {"zram"}), Try({}, {"zram.conf"}), Try({"zram", "zram.conf"}, {"zram.swap"}) >>))
AgentSudo(os) == Only(LinuxFamilies, Mod({}, {"sudoers"}, << Do({}, {"sudoers"}) >>))

ResticB2(os) ==
    Mod({"homebrew"}, {"b2.timer"} \cup (IF Mac(os) THEN {"restic", "b2.env"} ELSE {}),
        << Unless({"restic"}, Pkg(os, "restic")), Ask({"user:b2-secrets"}),
           Unless({"b2.include"}, Do({}, {"b2.include"})), Do({}, {"b2.env"}),
           IF Mac(os) THEN Do({"b2.env"}, {"b2.timer"}) ELSE Try({"b2.env"}, {"b2.timer"}) >>)

(* --- caddy.py ----------------------------------------------------------- *)
Caddy(os) ==
    Only(LinuxFamilies, Mod({}, {"caddy"},
        (IF os = "debian" THEN FromRepo("caddy")
         ELSE IF os = "fedora" THEN << Try({"dnf"}, {"caddy"}) >> ELSE << Pkg(os, "caddy") >>)
        \o << Unless({"Caddyfile"}, Do({}, {"Caddyfile"})) >>))

(* --- multimedia.py ------------------------------------------------------ *)
FfmpegFull(os) ==
    Only({"fedora", "macos"}, Mod({"rpmfusion", "homebrew"}, {"ffmpeg"},
        << IF Mac(os) THEN Pkg(os, "ffmpeg") ELSE Try({"rpmfusion"}, {"ffmpeg"}) >>))
FfmpegUbuntu(os) == Only({"debian"}, Mod({}, {"ffmpeg"}, << Pkg(os, "ffmpeg") >>))
Codecs(os) == Only({"fedora"}, Mod({"rpmfusion"}, {"codecs"}, << Try({"rpmfusion"}, {"codecs"}) >>))
CodecsUbuntu(os) == Only({"debian"}, Mod({}, {"codecs"}, << Pkg(os, "codecs") >>))
VaHwaccel(os) ==
    ProvidedBy({"omarchy", "macos"}, Mod({"homebrew"}, {"vainfo", "va-driver"},
        << Do({}, {"vainfo"}), Do({"hw:gpu"}, {"va-driver"}) >>))
Openh264(os) ==
    Only({"fedora"}, Mod({}, {"openh264"},
        << Try({"dnf"}, {"openh264.repo"}), Do({"openh264.repo"}, {"openh264"}) >>))

(* --- hardware.py -------------------------------------------------------- *)
(* From RPM Fusion, on Fedora only.                                         *)
Nvidia(requires, needs, f) == Only({"fedora"}, Mod(requires, {f}, << Do(needs, {f}) >>))
NvidiaAkmod(os) ==
    Only({"fedora"}, Mod({"rpmfusion"}, {"akmod-nvidia"},
        << Do({"rpmfusion"}, {"akmod-nvidia", "nvidia-cuda"}) >>))
Cuda(os)              == Nvidia({"nvidia-akmod"}, {"rpmfusion"}, "nvidia-cuda")
LibvaNvidiaDriver(os) == Nvidia({"nvidia-akmod"}, {"rpmfusion"}, "libva-nvidia-driver")
NvidiaContainerToolkit(os) ==
    Only({"fedora"}, Mod({"docker", "nvidia-akmod"}, {"nvidia-ctk"},
        << Do({}, {"nvidia-ctk"}), Try({"nvidia-ctk", "docker"}, {"docker.nvidia"}) >>))

(* The key appears when the akmod is built; the user enrolls it at a boot.  *)
SecurebootMok(os) ==
    Only({"fedora"}, Mod({"nvidia-akmod"}, {"mok.enrolled"},
        << OnlyIf({"akmods.key"}), Try({"user:reboot"}, {"mok.enrolled"}) >>))
NvidiaResignService(os) ==
    Only({"fedora"}, Mod({"secureboot-mok"}, {"resign.unit"},
        << Try({}, {"resign.unit"}), Try({"resign.unit"}, {"resign.service"}) >>))
NvidiaDriverUbuntu(os) ==
    Only({"debian"}, Mod({}, {"nvidia-smi"},
        << Do({}, {"ubuntu-drivers"}), Try({"ubuntu-drivers", "hw:nvidia"}, {"nvidia-smi"}) >>))

-----------------------------------------------------------------------------
DevCatalog(os) ==
       ("vscode" :> Vscode(os)) @@ ("zed" :> Zed(os)) @@ ("fresh" :> Fresh(os))
    @@ ("fresh-lsp" :> FreshLsp(os)) @@ ("python-lsp" :> PythonLsp(os))
    @@ ("web-lsp" :> WebLsp(os)) @@ ("laravel-lsp" :> LaravelLsp(os))
    @@ ("devops-lsp" :> DevopsLsp(os)) @@ ("uv" :> Uv(os)) @@ ("web-runtimes" :> WebRuntimes(os))
    @@ ("playwright" :> Playwright(os)) @@ ("dotnet-sdk" :> DotnetSdk(os))
    @@ ("aspire" :> Aspire(os)) @@ ("dotnet-lsp" :> DotnetLsp(os))
    @@ ("data-services" :> DataServices(os)) @@ ("expo" :> Expo(os))
    @@ ("devops-tools" :> DevopsTools(os)) @@ ("android-sdk" :> AndroidSdk(os))
    @@ ("ddev" :> Ddev(os)) @@ ("ddev-remote" :> DdevRemote(os)) @@ ("obsidian" :> Obsidian(os))
    @@ ("bruno" :> Bruno(os)) @@ ("bitwarden" :> Bitwarden(os)) @@ ("flameshot" :> Flameshot(os))
    @@ ("localsend" :> Localsend(os)) @@ ("vlc" :> Vlc(os)) @@ ("gearlever" :> Gearlever(os))
    @@ ("obsidian-sync" :> ObsidianSync(os)) @@ ("tailscale" :> Tailscale(os))
    @@ ("server-firewall" :> ServerFirewall(os)) @@ ("zram" :> Zram(os))
    @@ ("agent-sudo" :> AgentSudo(os)) @@ ("restic-b2" :> ResticB2(os)) @@ ("caddy" :> Caddy(os))
    @@ ("ffmpeg-full" :> FfmpegFull(os)) @@ ("ffmpeg-ubuntu" :> FfmpegUbuntu(os))
    @@ ("codecs" :> Codecs(os)) @@ ("codecs-ubuntu" :> CodecsUbuntu(os))
    @@ ("va-hwaccel" :> VaHwaccel(os)) @@ ("openh264" :> Openh264(os))
    @@ ("nvidia-akmod" :> NvidiaAkmod(os)) @@ ("cuda" :> Cuda(os))
    @@ ("libva-nvidia-driver" :> LibvaNvidiaDriver(os))
    @@ ("nvidia-container-toolkit" :> NvidiaContainerToolkit(os))
    @@ ("secureboot-mok" :> SecurebootMok(os))
    @@ ("nvidia-resign-service" :> NvidiaResignService(os))
    @@ ("nvidia-driver-ubuntu" :> NvidiaDriverUbuntu(os))
=============================================================================
