--------------------------- MODULE CatalogAgents ---------------------------
(***************************************************************************)
(* The modules of secrets.py, ssh_setup.py, pass_store.py, tpm.py,          *)
(* herdr.py, mosh.py, orca.py, browser_mcp.py, browser_view.py,             *)
(* code_server.py, crossarch_build.py, claude_*.py, codex_*.py and          *)
(* pi_harness.py.  Each definition has the name of its class.               *)
(***************************************************************************)
EXTENDS Recipes, TLC

(* --- secrets.py and _credentials.py ------------------------------------- *)
(* The credentials come from the bundle, from a signed-in gh or from the    *)
(* user; without any of them the module waits for the user.                 *)
Secrets(os) ==
    Mod({"homebrew"}, {"git.email", "github-credentials"},
        << Ask({"user:credentials"}),
           Try({"git"}, {"git.name"}), Try({"git"}, {"git.email"}),
           Try({"git"}, {"git.helper"}), Do({}, {"github-credentials"}) >>)

(* --- ssh_setup.py ------------------------------------------------------- *)
(* Never in the way: without a key, credentials or GitHub it ends early and *)
(* the next run tries again.  The marker is written once GitHub has the key.*)
SshSetup(os) ==
    Mod({"secrets"}, {"ssh.key", "ssh.registered"},
        << Unless({"ssh.key"}, Try({}, {"ssh.key"})),
           Unless({"known_hosts"}, Try({}, {"known_hosts"})),
           Do({}, {"ssh.config"}),
           OnlyIf({"ssh.key"}), OnlyIf({"github-credentials"}),
           Try({}, {"ssh.uploaded"}), OnlyIf({"ssh.uploaded"}), Do({}, {"ssh.registered"}) >>)

(* --- pass_store.py: the modules; the store is PassStore and PassSync ----- *)
Pass(os) ==
    Mod({"homebrew"}, {"pass", "gpg-agent.conf"},
        << Unless({"pass"}, Pkg(os, "pass")), Do({}, {"gpg-agent.conf"}),
           Try({"pass"}, {"gpg-agent.reloaded"}) >>)
PassStoreModule(os) ==
    Mod({"pass", "secrets", "git"}, {"store", "store.hook", "store.timer", "store.access"},
        << Unless({"store"}, Ask({"user:pass-repo", "github-credentials"})),
           Unless({"store"}, Do({"git"}, {"store"})),
           Do({"store"}, {"store.hook"}), Do({}, {"store.timer"}),
           Unless({"store.access"}, Ask({"user:enrols"})),
           Do({"pass", "store"}, {"store.access"}) >>)

(* --- tpm.py, herdr.py, mosh.py ------------------------------------------ *)
GitClone(f) == Mod({"xcode-clt"}, {f}, << Unless({f}, Try({"git"}, {f})) >>)
Tpm(os)         == GitClone("tpm")
TmuxPersist(os) == GitClone("tmux-persist")
Mosh(os)        == PackageModule(os, "mosh")
Herdr(os)       == ProvidedBy({"omarchy"}, Mod({}, {"herdr"}, << Do({}, {"herdr"}) >>))
HerdrPlugins(os) ==
    After({"pass-store"}, Mod({"herdr", "xcode-clt"}, {"herdr.plugins"},
        << Try({"herdr"}, {"herdr.plugins"}), OnlyIf({"user:telegram"}), Do({}, {"herdr.notify"}) >>))

(* --- orca.py, code_server.py, crossarch_build.py ------------------------ *)
OrcaIde(os) ==
    Only(LinuxFamilies, Mod({}, {"orca"},
        << IF Family(os) = "arch" THEN Aur("orca") ELSE Do({}, {"orca"}) >>))
OrcaServe(os) ==
    Only({"fedora", "debian"}, Mod({"orca-ide"}, {"orca.service"},
        << Do({"user:tailnet-approved"}, {}), Do({}, {"xvfb"}), Do({}, {"orca.unit"}),
           Try({}, {"linger"}), Try({"orca.unit"}, {"orca.service"}) >>))
CodeServer(os) ==
    Only(LinuxFamilies, Mod({}, {"code-server"},
        << Unless({"code-server"}, Script("code-server")),
           Try({"code-server"}, {"code-server.service"}) >>))
CrossArchBuild(os) ==
    Only(LinuxFamilies, Mod({}, {"podman", "binfmt"},
        << Do({}, {"podman", "binfmt"}) >>
        \o IF os = "debian" THEN << Do({}, {"binfmt-support"}) >> ELSE << >>))

(* --- browser_view.py and browser_mcp.py --------------------------------- *)
BrowserView(os) ==
    Only(LinuxFamilies, Mod({}, {"xvfb", "x11vnc", "browser-view"},
        << Do({}, {"xvfb", "x11vnc"}) >>
        \o (IF Family(os) = "arch" THEN << Aur("novnc") >> ELSE << >>)
        \o << Do({}, {"browser-view"}) >>))

(* The launcher and the unit come with the dotfiles.                        *)
BrowserMcp(os) ==
    Gui(Mod({"dotfiles"}, {"browser-mcp.sh", "browser-mcp.service"},
        << Do({"browser-mcp.sh"}, {}) >>
        \o IF Mac(os) THEN << Do({}, {"browser-mcp.service"}) >>
           ELSE << Do({"systemd-units"}, {}), Try({}, {}),
                   Try({"systemd-units"}, {"browser-mcp.service"}) >>))

(* --- claude_*.py --------------------------------------------------------- *)
NodeIfMissing == Unless({"node"}, Try({"mise"}, {"node"}))

ClaudeCode(os) == Mod({"mise"}, {"claude"}, << NodeIfMissing, Try({"node"}, {"claude"}) >>)
ClaudeMcp(os) ==
    Mod({"claude-code", "dotfiles"}, {"claude.mcp"},
        << OnlyIf({"claude"}), Try({"claude"}, {"claude.mcp"}) >>)

(* The plugins are enabled in settings.json (unless it does not parse)      *)
(* before they are installed, and verify reads settings.json.               *)
ClaudePlugins(os) ==
    After({"pass-store"}, Mod({"claude-code", "dotfiles", "secrets"},
        {"settings.plugins", "settings.valid"},
        << Rewriting("settings", Try({"settings.valid"}, {"settings.plugins"})),
           Try({"claude"}, {"claude.plugins"}) >>))

(* Skills the lockfile names; a vendored copy first, npx else.              *)
HydrateSkills(requires, f) ==
    Mod(requires, {f}, << Try({"chezmoi"}, {f}), Ask({f}) >>)
ClaudeSkills(os) == HydrateSkills({"claude-code", "dotfiles"}, "claude.skills")

(* --- codex_*.py ---------------------------------------------------------- *)
CodexCode(os) == Mod({"mise"}, {"codex"}, << NodeIfMissing, Try({}, {"codex"}) >>)
CodexConfig(os) ==
    After({"pass-store"}, Mod({"codex-code", "dotfiles"}, {"codex.config", "codex.valid"},
        << OnlyIf({"codex.valid"}), Rewriting("codex", Do({}, {"codex.config"})) >>))
CodexMcp(os) ==
    Mod({"codex-code"}, {"codex.mcp"}, << OnlyIf({"codex"}), Try({"codex"}, {"codex.mcp"}) >>)
CodexPlugins(os) ==
    Mod({"codex-code", "secrets"}, {"codex.plugins"},
        << OnlyIf({"codex"}), Try({"codex"}, {"codex.marketplaces"}),
           Try({"codex.marketplaces"}, {"codex.plugins"}) >>)
CodexSkills(os) == HydrateSkills({"codex-code", "dotfiles"}, "codex.skills")

(* --- pi_harness.py ------------------------------------------------------- *)
(* Mutant of PiHarness: not ordered after the store its secrets come from.  *)
PiHarnessAnywhen(os) ==
    Mod({"mise", "secrets"}, {"harness"},
        << NodeIfMissing, Ask({"user:harness-repo"}),
           Do({"git", "github-credentials"}, {"harness"}),
           Try({"harness", "store"}, {"harness.secrets"}) >>)

(* The harness's own installer; provisioning its secrets is best effort.    *)
PiHarness(os) ==
    After({"pass-store"}, Mod({"mise", "secrets"}, {"harness"},
        << NodeIfMissing, Ask({"user:harness-repo"}),
           Do({"git", "github-credentials"}, {"harness"}),
           Try({"harness", "store"}, {"harness.secrets"}),
           Try({"harness"}, {"harness.tools"}) >>))

-----------------------------------------------------------------------------
AgentCatalog(os) ==
       ("secrets" :> Secrets(os)) @@ ("ssh-setup" :> SshSetup(os)) @@ ("pass" :> Pass(os))
    @@ ("pass-store" :> PassStoreModule(os)) @@ ("tpm" :> Tpm(os))
    @@ ("tmux-persist" :> TmuxPersist(os)) @@ ("mosh" :> Mosh(os)) @@ ("herdr" :> Herdr(os))
    @@ ("herdr-plugins" :> HerdrPlugins(os)) @@ ("orca-ide" :> OrcaIde(os))
    @@ ("orca-serve" :> OrcaServe(os)) @@ ("code-server" :> CodeServer(os))
    @@ ("crossarch-build" :> CrossArchBuild(os)) @@ ("browser-view" :> BrowserView(os))
    @@ ("browser-mcp" :> BrowserMcp(os)) @@ ("claude-code" :> ClaudeCode(os))
    @@ ("claude-mcp" :> ClaudeMcp(os)) @@ ("claude-plugins" :> ClaudePlugins(os))
    @@ ("claude-skills" :> ClaudeSkills(os)) @@ ("codex-code" :> CodexCode(os))
    @@ ("codex-config" :> CodexConfig(os)) @@ ("codex-mcp" :> CodexMcp(os))
    @@ ("codex-plugins" :> CodexPlugins(os)) @@ ("codex-skills" :> CodexSkills(os))
    @@ ("pi-harness" :> PiHarness(os))
=============================================================================
