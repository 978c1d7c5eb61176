------------------------------- MODULE Catalog -------------------------------
(***************************************************************************)
(* The whole catalog on every platform, the plans made of it, and what the *)
(* machines and their users bring. It is given values before the modules   *)
(* that reason about them, which TLC then works out from ready tables.     *)
(***************************************************************************)
EXTENDS Naturals, Sequences, CatalogBase, CatalogDev, CatalogAgents, CatalogDesktop

Platforms == {"fedora", "debian", "arch", "omarchy", "macos"}
Catalog ==
  [os \in Platforms |-> BaseCatalog(os) @@ DevCatalog(os) @@ AgentCatalog(os) @@ DesktopCatalog(os)]

Desktop(os) == [os |-> os, headless |-> FALSE]
Server      == [os |-> "debian", headless |-> TRUE]
Everywhere  == {Desktop(os) : os \in Platforms} \cup {Server}

(* graphlib's static_order: the modules nothing keeps back, then the ones   *)
(* only those keep back, and so on; within a level one order, or its reverse.*)
(* What requires what and comes after what is the same on every platform.   *)
Order(each, back) ==
  LET names == DOMAIN each
      upto[k \in 0..12] ==
        IF k = 0 THEN {}
        ELSE LET placed == upto[k - 1]
             IN {n \in names : each[n].requires \cup each[n].soft \subseteq placed}
      listed[S \in SUBSET names] ==
        IF S = {} THEN <<>>
        ELSE LET n == CHOOSE m \in S : TRUE
             IN IF back THEN Append(listed[S \ {n}], n) ELSE <<n>> \o listed[S \ {n}]
      level[k \in 0..12] ==
        IF k = 0 THEN <<>> ELSE level[k - 1] \o listed[upto[k] \ upto[k - 1]]
  IN level[12]

(* A module with everything it requires.                                    *)
Required(each, n) ==
  LET upto[k \in 0..8] ==
        IF k = 0 THEN {n}
        ELSE LET S == upto[k - 1] IN S \cup UNION {each[m].requires : m \in S}
  IN upto[8]

InFamily(os, mod) == mod.families = {} \/ Family(os) \in mod.families

(* Every module with what it requires, and with what it comes after too;    *)
(* and the whole catalog at once.                                           *)
PlansOn(each, forth, back, os) ==
  LET wanted == {{n} : n \in DOMAIN each} \cup {{n} \cup each[n].soft : n \in DOMAIN each}
      kept(S, order) == SelectSeq(order, LAMBDA n : n \in S /\ InFamily(os, each[n]))
      closed(W) == UNION {Required(each, n) : n \in W}
  IN {kept(closed(W), order) : W \in wanted \cup {DOMAIN each}, order \in {forth, back}} \ {<<>>}

PlanTable ==
  LET each == Catalog["fedora"]
      forth == Order(each, FALSE)
      back == Order(each, TRUE)
  IN [os \in Platforms |-> PlansOn(each, forth, back, os)]

UserSupplies ==
  {"user:apple-id", "user:b2-secrets", "user:clt-offered", "user:confirmed-zed", "user:credentials",
   "user:deploy-keys", "user:disk", "user:dotfiles-repo", "user:enrols", "user:harness-repo",
   "user:interactive", "user:pass-repo", "user:reboot", "user:tailnet-approved",
   "user:tailscale-key", "user:telegram", "user:vault-repo"}

Ships(m) ==
  LET preset == {n \in DOMAIN Catalog[m.os] : m.os \in Catalog[m.os][n].provided} IN
  {"curl", "settings.valid", "codex.valid", "fresh.valid", "arabic.settled", "hw:gpu", "hw:nvidia"}
  \cup (IF m.headless THEN {"headless", "tmux", "tmux.server"} ELSE {"unzip", "ddev.bound"})
  \cup CASE m.os = "macos" -> {"softwareupdate"}
         [] m.os = "fedora" -> {"dnf", "akmods.key"}
         [] m.os = "debian" -> {}
         [] m.os = "arch" -> {"aur-helper"}
         [] m.os = "omarchy" -> {"git", "aur-helper", "omarchy-hook-install"}
  \cup UNION {Catalog[m.os][n].reads : n \in preset}
ShipTable == [m \in Everywhere |-> Ships(m)]

-----------------------------------------------------------------------------
(* What the catalog does not get right; README.md says of each why.         *)

(* git, node, chezmoi, unzip, and a package that noble's apt does not have. *)
KnownGaps ==
  [os \in Platforms |->
    {"fresh-lsp", "laravel-lsp", "voxtype-arabic"}
      \cup (IF os \in {"macos", "omarchy"} THEN {}
            ELSE {"secrets", "tpm", "tmux-persist", "pi-harness"})
      \cup (IF os = "debian" THEN {"build-tools", "android-sdk"} ELSE {})]

(* A file of the user's cut off in the middle of a write, and a swap file   *)
(* that is there but was never formatted.                                   *)
KnownFragile ==
  {"claude-statusline", "claude-notify", "claude-plugins", "codex-config", "fresh-lsp",
   "python-lsp", "web-lsp", "laravel-lsp", "devops-lsp", "swapfile"}

(* verify reads something that is there before the last step is done.       *)
KnownUnresumed ==
  {"aerospace", "alt-tab", "android-sdk", "aspire-gc", "caddy", "claude-plugins", "code-server",
   "crossarch-build", "ddev", "devops-lsp", "dnf-automatic-security", "docker-build-gc",
   "dotfiles", "dotnet-lsp", "earlyoom", "flatpak", "fresh", "herdr-plugins", "linearmouse",
   "maccy", "macos-firewall", "mise", "monitorcontrol", "nerd-fonts",
   "nvidia-container-toolkit", "nvidia-resign-service", "obsidian-sync", "pass", "pi-harness",
   "python-lsp", "raycast", "rpmfusion", "secrets", "server-firewall", "stats", "tailscale",
   "thaw", "voxtype-arabic", "web-lsp", "xcode", "zram"}

-----------------------------------------------------------------------------
(* Small machines for what a single module does.                            *)
Dictation == [os \in {"fedora"} |-> {<<"chezmoi", "voxtype", "voxtype-arabic">>}]
AtHome    == {Desktop("fedora")}
NoGaps    == [os \in {"fedora"} |-> {}]
=============================================================================
