---------------------------- MODULE CatalogBase ----------------------------
(***************************************************************************)
(* The modules of modules/base.py, cli_tools.py, ripgrep.py, shell.py,      *)
(* mise.py, optional.py, omarchy.py, macos.py and system.py.                *)
(* Each definition has the name of its class.                               *)
(***************************************************************************)
EXTENDS Recipes, TLC

(* --- macos.py: what everything else on a Mac stands on ----------------- *)
XcodeClt(os) ==
    Only({"macos"}, Mod({}, {"clt"},
        UnlessAll({"clt"}, << Ask({"user:clt-offered"}), Do({"softwareupdate"}, {"clt", "git"}) >>)))

(* The installer script needs the Command Line Tools' git.                  *)
Homebrew(os) ==
    Only({"macos"}, Mod({"xcode-clt"}, {"brew", "brew.analytics-off"},
        << Unless({"brew"}, Do({"clt"}, {"brew"})),
           Do({"brew"}, {"brew.analytics-off"}) >>))

Rosetta(os) ==
    Only({"macos"}, Mod({}, {"rosetta"},
        << Unless({"rosetta"}, Do({"softwareupdate"}, {"rosetta"})) >>))

(* --- base.py ----------------------------------------------------------- *)
Rpmfusion(os) ==
    Only({"fedora"}, Mod({}, {"rpmfusion"},
        << Do({}, {"rpmfusion"}),
           Try({"rpmfusion"}, {"upgraded"}),
           Do({"rpmfusion"}, {"appstream-data"}) >>))

DnfTune(os) ==
    Only({"fedora"}, Mod({}, {"dnf.conf"}, << Do({}, {"dnf.conf"}) >>))

FedoraThirdParty(os) ==
    Only({"fedora"}, Mod({}, {"third-party"}, << Try({}, {"third-party"}) >>))

Flatpak(os) ==
    Only({"fedora", "debian"}, Mod({}, {"flathub"},
        << Unless({"flatpak"}, Do({}, {"flatpak"})),
           Unless({"flathub"}, Try({"flatpak"}, {"flathub"})),
           Try({"flathub"}, {"flathub.unfiltered"}) >>))

(* On Linux one package list with gcc, make and cmake, which verify looks   *)
(* for, and more; apt installs all or nothing, and the Debian list names    *)
(* fastfetch, which Fastfetch's own install says apt may not have.          *)
BuildTools(os) ==
    Mod({"xcode-clt", "homebrew"}, {"cmake"},
        << IF Mac(os) THEN Pkg(os, "cmake")
           ELSE Do(IF os = "debian" THEN {"apt:fastfetch"} ELSE {},
                   {"cmake", "git", "wget", "unzip", "ripgrep", "fastfetch"}) >>)

Chezmoi(os) == BrewOr(os, "chezmoi", << Script("chezmoi") >>)

(* The user's own dotfiles repository.  What it puts in the shared rc files *)
(* is modelled in RcFiles; a failed clone is not an error.                  *)
ChezmoiRepo(os) ==
    Mod({"chezmoi", "secrets"}, {"dotfiles-repo"},
        << Ask({"user:dotfiles-repo"}), Try({"chezmoi"}, {"dotfiles-repo"}) >>)

(* --- cli_tools.py and ripgrep.py: one package each --------------------- *)
Coreutils(os)  == PackageModule(os, "coreutils")
Git(os)        == PackageModule(os, "git")
Curl(os)       == ProvidedBy({"macos"}, PackageModule(os, "curl"))
Wget(os)       == PackageModule(os, "wget")
Unzip(os)      == ProvidedBy({"macos"}, PackageModule(os, "unzip"))
Jq(os)         == PackageModule(os, "jq")
Htop(os)       == PackageModule(os, "htop")
Fd(os)         == PackageModule(os, "fd")
Fzf(os)        == PackageModule(os, "fzf")
Tmux(os)       == PackageModule(os, "tmux")
Eza(os)        == ScriptOnDebian(os, "eza")
Bat(os)        == PackageModule(os, "bat")
Btop(os)       == PackageModule(os, "btop")
Zoxide(os)     == PackageModule(os, "zoxide")
Atuin(os)      == ScriptOnDebian(os, "atuin")
Direnv(os)     == PackageModule(os, "direnv")
Glow(os)       == BrewOr(os, "glow",
                      IF os = "debian" THEN FromRepo("glow") ELSE << Pkg(os, "glow") >>)
Utiluti(os)    == Only({"macos"}, PackageModule(os, "utiluti"))
Bash(os)       == Only({"macos"}, PackageModule(os, "bash"))
WlClipboard(os) == Gui(ProvidedBy({"macos"}, PackageModule(os, "wl-clipboard")))
Delta(os)      == PackageModule(os, "delta")

(* copr.enable runs on Arch too, where it fails unseen.                     *)
Lazygit(os) ==
    BrewOr(os, "lazygit",
        IF os = "debian" THEN << Script("lazygit") >>
        ELSE << Try({"dnf"}, {"lazygit.copr"}),
                Do(IF os = "fedora" THEN {"lazygit.copr"} ELSE {}, {"lazygit"}) >>)

Lazydocker(os) == ScriptOffArch(os, "lazydocker")
Dust(os)       == ScriptOnDebian(os, "dust")
Duf(os)        == PackageModule(os, "duf")
Sd(os)         == ScriptOffArch(os, "sd")
Yq(os)         == ScriptOnDebian(os, "yq")
Tealdeer(os)   == PackageModule(os, "tealdeer")
Fastfetch(os)  == ScriptOnDebian(os, "fastfetch")
Gh(os)         == ScriptOnDebian(os, "gh")
Superfile(os)  == ScriptOffArch(os, "superfile")
Ripgrep(os)    == PackageModule(os, "ripgrep")
Neovim(os)     == PackageModule(os, "neovim")
JetbrainsToolbox(os) == Gui(BrewOr(os, "jetbrains-toolbox", << Script("jetbrains-toolbox") >>))

(* --- mise.py ------------------------------------------------------------ *)
(* verify sees the binary only: credential and migrations follow it.        *)
Mise(os) ==
    Mod({"homebrew"}, {"mise"},
        << IF Mac(os) THEN Pkg(os, "mise") ELSE Unless({"mise"}, Script("mise")),
           Taking(Try({}, {}), IF os = "debian" THEN {"mise.apt-source"} ELSE {}),
           Unless({"mise.credential"}, Try({"mise"}, {"mise.credential"})),
           Unless({"mise.migrated"}, Do({}, {"mise.migrated"})),
           Try({"mise", "mise.migrated"}, {"mise.versions"}) >>)

(* --- shell.py ----------------------------------------------------------- *)
Starship(os) == BrewOr(os, "starship", << Script("starship") >>)
Wezterm(os)  == Gui(ProvidedBy({"omarchy"}, BrewOr(os, "wezterm", << Try({}, {"wezterm"}) >>)))

Ghostty(os) ==
    Gui(ProvidedBy({"omarchy"}, BrewOr(os, "ghostty",
        IF os = "debian" THEN << Unless({"snap"}, Do({}, {"snap"})), Do({"snap"}, {"ghostty"}) >>
        ELSE << Try({"dnf"}, {"ghostty.copr"}),
                Do(IF os = "fedora" THEN {"ghostty.copr"} ELSE {}, {"ghostty"}) >>)))

(* Mutant of NerdFonts: not unpacked again when the archive is there.       *)
FontsOnce(os) ==
    Gui(ProvidedBy({"omarchy"}, BrewOr(os, "nerd-font",
        UnlessAll({"font.zip"}, << Try({}, {"font.zip"}),
                                   Try({"font.zip", "unzip"}, {"nerd-font"}) >>))))

NerdFonts(os) ==
    Gui(ProvidedBy({"omarchy"}, BrewOr(os, "nerd-font",
        << Try({}, {"font.zip"}), Try({"font.zip", "unzip"}, {"nerd-font"}),
           Try({"nerd-font"}, {"font-cache"}) >>)))

(* The files `chezmoi apply` writes, by platform (.chezmoiignore).          *)
DotfilesContent(os) ==
    {"statusline.sh", "notify.sh", "codex-hooks", "fleet", "browser-mcp.sh", "resources.sh",
     "zed.seed"}
        \cup (IF Mac(os) THEN {"shell.zsh", "zshrc"} ELSE {"shell.bash", "systemd-units"})
        \cup (IF os \in {"omarchy", "macos"} THEN {} ELSE {"bashrc"})
        \cup (IF os = "omarchy" THEN {} ELSE {"tmux.conf", "voxtype.toml"})

(* verify compares the stamp.  A tmux server that is up already reads the   *)
(* new configuration only when told to, which install does after the stamp. *)
Dotfiles(os) ==
    Mod({"chezmoi", "starship", "atuin", "zoxide", "direnv"}, {"dotfiles.stamp"},
        << Do({}, {"rc.backup"}),
           Do({"chezmoi"}, DotfilesContent(os)),
           Try({}, {"rc.digests"}),
           Do({}, {"dotfiles.stamp"}),
           Try({"tmux.server"}, {"tmux.reloaded"}) >>)

(* Where dev-boost owns ~/.bashrc, dotfiles wrote it; on Omarchy the block  *)
(* is appended.                                                             *)
BashConfig(os) ==
    ProvidedBy({"macos"}, IF os = "omarchy"
        THEN Mod({"dotfiles"}, {"shell.bash", "bashrc.block"},
                 << Unless({"bashrc.block"}, Do({}, {"bashrc.block"})) >>)
        ELSE Mod({"dotfiles"}, {"bashrc"}, << >>))

ZshPlugins(os) == Only({"macos"}, PackageModule(os, "zsh-plugins"))
ZshConfig(os)  == Only({"macos"}, Mod({"dotfiles", "zsh-plugins"}, {"zshrc", "shell.zsh"}, << >>))

(* ~/.claude/settings.json is merged key by key.  A file that is not JSON   *)
(* is left as it is: install returns without having done anything.          *)
SettingsJson(requires, key) ==
    Mod(requires, {key, "settings.valid"},
        << OnlyIf({"settings.valid"}), Rewriting("settings", Do({}, {key})) >>)
ClaudeStatusline(os) == SettingsJson({"dotfiles"}, "settings.statusLine")
ClaudeNotify(os)     == SettingsJson({"dotfiles"}, "settings.hooks")

(* --- omarchy.py --------------------------------------------------------- *)
OmarchyUpdateHook(os) ==
    Only({"arch"}, Mod({}, IF os = "omarchy" THEN {"update-hook"} ELSE {},
        << OnlyIf({"omarchy-hook-install"}), Do({}, {"update-hook"}) >>))

(* --- system.py ---------------------------------------------------------- *)
GrubBtrfs(os) ==
    Only({"fedora"}, Mod({}, {"grub-btrfs.service"},
        FromCopr("grub-btrfs") \o << Try({"grub-btrfs"}, {"grub-btrfs.service"}) >>))
Fwupd(os) == ProvidedBy({"macos"}, SystemService(os, "fwupd"))

(* Fedora's tuned-ppd provides the API already.                             *)
PowerProfilesDaemon(os) ==
    ProvidedBy({"omarchy", "macos"}, IF os = "fedora"
        THEN Mod({}, {"ppd"}, UnlessAll({"ppd"},
                 << Pkg(os, "power-profiles-daemon"), Try({"power-profiles-daemon"}, {"ppd"}) >>))
        ELSE SystemService(os, "power-profiles-daemon"))
Thermald(os) == ProvidedBy({"omarchy", "macos"}, SystemService(os, "thermald"))
Smartmontools(os) ==
    IF Mac(os) THEN PackageModule(os, "smartmontools")
    ELSE [SystemService(os, "smartmontools") EXCEPT !.requires = {"homebrew"}]

(* create-config and set-config are not checked; verify asks snapper.       *)
Snapper(os) ==
    Only({"fedora"}, Mod({}, {"snapper.policy"},
        << Do({}, {"snapper", "snapper-dnf"}),
           Try({"snapper"}, {"snapper.root"}),
           Try({"snapper.root"}, {"snapper.policy"}) >>))
SnapperDnfHook(os) ==
    Only({"fedora"}, Mod({}, {"snapper-dnf"}, << Pkg(os, "snapper-dnf") >>))
BtrfsAssistant(os) ==
    Gui(Only({"fedora"}, Mod({}, {"btrfs-assistant"}, << Pkg(os, "btrfs-assistant") >>)))
Btrfsmaintenance(os) ==
    Only({"fedora"}, Mod({}, {"btrfsmaintenance"}, << Pkg(os, "btrfsmaintenance") >>))

(* The configuration is what verify reads; the unit is enabled after it.    *)
DnfAutomaticSecurity(os) ==
    Only({"fedora"}, Mod({}, {"automatic.conf"},
        << Do({}, {"dnf-automatic"}), Do({}, {"automatic.conf"}),
           Try({"dnf-automatic"}, {"dnf-automatic.timer"}) >>))
Earlyoom(os) ==
    Only(LinuxFamilies, Mod({}, {"earlyoom.conf"},
        << Pkg(os, "earlyoom"), Do({}, {"earlyoom.conf"}),
           Try({"earlyoom"}, {"earlyoom.service"}) >>))

(* Off btrfs: a file that is there is neither made nor formatted again.     *)
Swapfile(os) ==
    Only({"fedora"}, Mod({}, {"swap.on", "swap.fstab"},
        UnlessAll({"swap.file"}, << Try({}, {"swap.file"}), Try({"swap.file"}, {"swap.formatted"}) >>)
        \o << Try({"swap.formatted"}, {"swap.on"}),
              Unless({"swap.fstab"}, Do({}, {"swap.fstab"})) >>))

ResticBackup(os) ==
    Mod({"homebrew"}, {"restic.timer"},
        << Unless({"restic"}, Pkg(os, "restic")),
           IF Mac(os) THEN Do({"restic"}, {"restic.timer"})
                      ELSE Try({}, {"restic.timer"}) >>)

GpuDetect(os) == Only(LinuxFamilies, Mod({}, {"gpu-vendor"}, << Do({}, {"gpu-vendor"}) >>))

-----------------------------------------------------------------------------
BaseCatalog(os) ==
       ("xcode-clt" :> XcodeClt(os)) @@ ("homebrew" :> Homebrew(os)) @@ ("rosetta" :> Rosetta(os))
    @@ ("rpmfusion" :> Rpmfusion(os)) @@ ("dnf-tune" :> DnfTune(os))
    @@ ("fedora-third-party" :> FedoraThirdParty(os)) @@ ("flatpak" :> Flatpak(os))
    @@ ("build-tools" :> BuildTools(os)) @@ ("chezmoi" :> Chezmoi(os))
    @@ ("chezmoi-repo" :> ChezmoiRepo(os)) @@ ("coreutils" :> Coreutils(os)) @@ ("git" :> Git(os))
    @@ ("curl" :> Curl(os)) @@ ("wget" :> Wget(os)) @@ ("unzip" :> Unzip(os)) @@ ("jq" :> Jq(os))
    @@ ("htop" :> Htop(os)) @@ ("fd" :> Fd(os)) @@ ("fzf" :> Fzf(os)) @@ ("tmux" :> Tmux(os))
    @@ ("eza" :> Eza(os)) @@ ("bat" :> Bat(os)) @@ ("btop" :> Btop(os)) @@ ("zoxide" :> Zoxide(os))
    @@ ("atuin" :> Atuin(os)) @@ ("direnv" :> Direnv(os)) @@ ("glow" :> Glow(os))
    @@ ("utiluti" :> Utiluti(os)) @@ ("bash" :> Bash(os)) @@ ("wl-clipboard" :> WlClipboard(os))
    @@ ("delta" :> Delta(os)) @@ ("lazygit" :> Lazygit(os)) @@ ("lazydocker" :> Lazydocker(os))
    @@ ("dust" :> Dust(os)) @@ ("duf" :> Duf(os)) @@ ("sd" :> Sd(os)) @@ ("yq" :> Yq(os))
    @@ ("tealdeer" :> Tealdeer(os)) @@ ("fastfetch" :> Fastfetch(os)) @@ ("gh" :> Gh(os))
    @@ ("superfile" :> Superfile(os)) @@ ("ripgrep" :> Ripgrep(os)) @@ ("neovim" :> Neovim(os))
    @@ ("jetbrains-toolbox" :> JetbrainsToolbox(os)) @@ ("mise" :> Mise(os))
    @@ ("starship" :> Starship(os)) @@ ("wezterm" :> Wezterm(os)) @@ ("ghostty" :> Ghostty(os))
    @@ ("nerd-fonts" :> NerdFonts(os)) @@ ("dotfiles" :> Dotfiles(os))
    @@ ("bash-config" :> BashConfig(os)) @@ ("zsh-plugins" :> ZshPlugins(os))
    @@ ("zsh-config" :> ZshConfig(os)) @@ ("claude-statusline" :> ClaudeStatusline(os))
    @@ ("claude-notify" :> ClaudeNotify(os)) @@ ("omarchy-update-hook" :> OmarchyUpdateHook(os))
    @@ ("grub-btrfs" :> GrubBtrfs(os)) @@ ("fwupd" :> Fwupd(os))
    @@ ("power-profiles-daemon" :> PowerProfilesDaemon(os)) @@ ("thermald" :> Thermald(os))
    @@ ("smartmontools" :> Smartmontools(os)) @@ ("snapper" :> Snapper(os))
    @@ ("snapper-dnf-hook" :> SnapperDnfHook(os)) @@ ("btrfs-assistant" :> BtrfsAssistant(os))
    @@ ("btrfsmaintenance" :> Btrfsmaintenance(os))
    @@ ("dnf-automatic-security" :> DnfAutomaticSecurity(os)) @@ ("earlyoom" :> Earlyoom(os))
    @@ ("swapfile" :> Swapfile(os)) @@ ("restic-backup" :> ResticBackup(os))
    @@ ("gpu-detect" :> GpuDetect(os))
=============================================================================
