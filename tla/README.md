# Formal verification of dev-boost

dev-boost (`engine/src/devboost`) provisions developer machines: it turns
profiles into a plan of modules and installs them, keeps a `pass` password store
in sync between a user's devices, switches Docker runtimes, manages server
accounts, updates itself and builds USB installers. This directory holds TLA+
models of its stateful parts, the TLC configurations that check them, and TLAPS
proofs of the properties that matter most.

| file | what it is |
|---|---|
| `PassStore.tla` | the shared password store over several devices |
| `PassSync.tla` | `pass sync` on one device, step by step, beside `pass approve` |
| `InstallRun.tla` | from the wanted modules to a plan and through it |
| `Recipes.tla` | the vocabulary the module catalog is written in |
| `CatalogBase`, `CatalogDev`, `CatalogAgents`, `CatalogDesktop` | the catalog: every module's recipe |
| `Catalog.tla` | all of it, its plans, and the machines they are for |
| `Provision.tla` | installing a plan command by command, with failures, kills and reruns |
| `Coverage.tla` | what makes a plan good, said of its recipes before anything runs |
| `MacDefaults.tla` | applying and reverting macOS settings |
| `Snapshot.tla` | what that promises, which `MacDefaults` implements |
| `DockerSwitch.tla` | a Mac's Docker runtimes |
| `RcFiles.tla` | the files in `$HOME` that the dotfiles take over |
| `SelfUpdate.tla` | replacing the binary and its archive from a feed that moves |
| `Accounts.tla` | a managed user's entry and account |
| `MediaBuild.tla` | a USB stick, its images and the cache |
| `MC*.tla`, `MC*.cfg` | small instances for TLC |
| `PassStore_proofs`, `PassSync_proofs`, `InstallRun_proofs`, `Provision_proofs`, `MacDefaults_proofs`, `DockerSwitch_proofs`, `Accounts_proofs` | the theorems about the module of that name |
| `Machine_proofs.tla` | the theorems about `SelfUpdate`, `MediaBuild` and `RcFiles`, and about all six parts in `MCMachine` |
| `PROJECT.json` | runs, mutants, code map, findings, hazards, theorems |

## Inventory

Paths are under `engine/src/devboost/`.

**Pass store** (`passstore/`). State: a git repository shared by all devices
(`.gpg-id` per folder, `.devboost/{devices,pending,revoked}/*.json` and `.asc`,
`.devboost/rotation.json`, `*.gpg` entries), one clone per device, the GPG
keyring, and per device `pass-sync.json`. Operations: `ensure_access` (create,
adopt, request), `approve`, `revoke`, `pass insert`/`edit`, `pass sync` from a
timer and from a commit hook, `sync --resolve`. Devices interact only through
git. Hard: every command pulls, prompts, rewrites several files, commits in
pieces (`pass init` commits for itself) and pushes, on a clone that is stale the
moment the pull returns; a command can die anywhere; the timer runs beside it.
Correct when nobody gains access without a yes, a revoked key is out of every
list for good, what it could read is tracked, every entry is encrypted to exactly
its list, and a device is told of every new key and failure.

**Install run** (`core/`, `cli/app.py`, `cli/host.py`, `cli/permissions.py`,
`exec/primitives/tcc.py`). State: what is installed (seen through `verify`), the
plan, the results of the run, the sudo session, `tcc.json`. Operations: resolve
and sort, filter (OS family, headless, offline, update), pre-check sudo, run the
plan, confirm permissions. Hard: failures cascade through a set that only some
results enter; decisions taken before the run are used in it; `--force` meets
dependencies; apps change under their recorded permissions.

**Module catalog** (`modules/`, with `exec/primitives/` and `exec/executor.py`).
About 180 classes, each with `requires`, `after`, `verify` and `install`. State:
everything on the machine a module makes or needs. Hard: what one module's
`install` uses, another must have brought, on five platforms and in every order
`toposort` allows; some results are checked and some dropped; a kill between two
commands must leave something `verify` notices. Correct when one run installs
what was asked for and a further run repairs what a bad one left.

**Docker runtimes** (`modules/_docker_*.py`, `docker.py`, `cli/docker_cmd.py`).
State: which runtimes are installed, running, started at login, who owns the
socket, the CLI's context, the cap of the build cache in each engine's config,
`config.toml`. `switch_runtime` stops every other runtime, starts the target and
records it last. Hard: every step may fail, and the `docker` module, an
environment variable, a restart and the user start runtimes too. Correct when a
finished switch leaves exactly the chosen one.

**macOS defaults** (`modules/macos_defaults.py`, `cli/revert.py`). State: the
machine's preferences and a snapshot of what they were before. Correct when,
through crashes and partial reverts, no value of the user's is overwritten that
is not on record.

**Taken-over dotfiles** (`modules/shell.py`, `base.py`, `voxtype.py`). State:
the files, their `.pre-devboost` copies, `rc-digests.json` and the stamp. Hard:
three modules apply them with `--force`, releases change them, and the user and
other installers append to them. Correct when no such line is lost.

**Self-update** (`core/selfupdate.py`). State: binary and Ventoy archive on disk.
Reads a release feed that moves between requests. Correct when the two are of
one release, once no update was cut off between them, and never older than before.

**Managed accounts** (`accounts/`, `cli/accounts.py`,
`exec/primitives/usermgmt.py`). State: `users.toml`, OS users, admin group,
sudoers drop-ins, slices. Converges a user to its entry by privileged commands,
most of them unchecked. Correct when an account never has more rights than its
entry, and is as declared once a command succeeded.

**USB media** (`media/`, `cli/installer.py`). State: the stick, its marker and
images, the download cache. Destructive steps and the marker come before the
download. Correct when only verified images are written and a finished run
leaves a stick that boots.

**Background jobs** (`launchd.py`, `systemd.py`), **config merge**
(`exec/primitives/config.py`), **credentials** (`modules/_credentials.py`),
**package managers and executors** (`pkg.py`, `executor.py`): helpers without
state of their own; they are the steps recipes are made of. **Doctor and front
ends, shell scripts, skills, docs, templates**: reports, thin wrappers, or no
program at all.

The components meet in few places. The runner calls the catalog; the catalog's
`docker`, `dotfiles`, `macos-defaults` and `pass-store` modules are the
components of those names, one step each in the catalog's model and a model of
their own beside it. The pass store's background sync runs beside its commands.
The others share no state.

## What is modelled

### PassStore

A device is its key is its name (the code keeps the two together with
`_name_free` and `_checked_request`; a device that changes names is out). A tree
is a record: `ids` (each folder's `.gpg-id`), `rec` (record files by kind and
device, holding the scope), `rot` (`rotation.json`), `blob` (each entry's
recipients with a version no two encryptions share, because GPG output never
repeats). Each device has `base`, `head` and `work`: the origin tree its commits
sit on, its HEAD and its files.

Git is its three-way merge, path by path. `git pull --rebase --autostash`
replays `head - base` on the origin and is refused when both changed a path
differently (or renamed a record to two places); `rotation.json` is one path.
`Publish` commits and pushes: the push lands only on an unmoved origin, and may
fail. A rebase is taken to see the net change, not each commit.

One action per step between which another device, the timer or a crash can act:

| code | actions |
|---|---|
| `enroll.ensure_access` | `Genesis`, `Adopt`, `Request` |
| `approve.approve` | `StartApprove`, `Decline`, `ConfirmApprove`, `ApproveFolder` (each `pass init` commits), `FinishApprove` |
| `approve.revoke` | `StartRevoke`, `ConfirmRevoke`, `RevokeFolder`, `MoveToRevoked`, `RecordRotation` |
| any of them refused, failing or killed | `Abandon` (`Failures`: after the typed yes as well; `Crashes`: between two file writes) |
| `pass insert`, `pass edit` | `Insert`, `Edit` |
| `sync.run` | `PushOnly`, `SyncPullOnly`, `Sync` |
| `sync.resolve_guidance`, followed | `FollowGuidance` |

`pass init` steps over entries the device cannot decrypt, as pass does, and is one
step: list and entries change together. `consented`
is a history variable: the keys a user typed yes for or created the store with.
Not modelled: the keyring, email ids in a `.gpg-id` (revoke refuses them), a
push by somebody outside devboost (docs/pass.md names write access as the trust
root), a rebase left in progress by a failed pull of approve, an autostash that
conflicts (git reports success and leaves markers; the model refuses the pull).
The model refuses by path what git merges line by line: two changes of one `.gpg-id`
or JSON file that lie apart merge in git, and what comes of that is left to the
audit and not in the model, but for lists and entries of different folders.

### PassSync

One device's sync with everything it remembers. Commits are numbers, content is
cut down to listed keys and pending requests, other devices are `Elsewhere`. The
sync goes `pull → push → notify → tripwire → audit → save`, with `retry` for the
push after a failed pull; `run.mem` is the `_State` in memory and `disk` the
file. At most one sync runs (the flock); `approve` runs beside it and takes no
lock, so `remember_devices` is two steps. A behaviour starts with a clone, or on the
device that set the store up and whose first push failed, where no pull works before
a push has (`FirstDevice`, `Unborn`). `Conflicted` is what stops a rebase: `touched` says
that an unpushed commit rewrote files that a change of a list rewrites too (a list, or
an entry it covers), `relisted` that the origin did since the last pull. A commit that
only adds an entry is replayed. `fault` selects, once per behaviour,
what may go wrong: nothing, the sync killed (`crash`), killed inside the
non-atomic write (`torn`), or approve's steps falling inside a sync (`race`).
The audit is cut down to which HEAD it covered last.

### InstallRun

`Begin` is `_run` up to the first module: closure of `requires`, the GPU modules,
a topological order (any order `graphlib` may give), the family, update, headless
and offline filters and the sudo pre-check. Then one action per way `_run_one`
can end for the module whose turn it is. `host` is the machine together with the
catalog's edges, chosen in Init, so that one run of TLC covers several catalogs.
Module code is external: `install` may work, raise, ask for the user or stop half
way, `verify` answers from `installed`. Whatever an install did, it may change what the
`verify` of any module answers and what any probe sees (`Changed`). `NeedsSudo` is
`sudo_needed`: the default, and for the modules that override it (`OwnProbe`: the command
line tools, Homebrew, Rosetta, Docker, Tailscale) an answer of its own in `probe`. A probe
that raises makes the run ask (`Asks`) or blocks its module ("no-probe"). `run.late` is
history: the modules that an install of this run made need root. `build` is an app's signature, 0 when it
cannot be read; `Resign` is an app updating itself and `Confirm` is `devboost
permissions`. `Abort` is a killed run, or a `verify` that raises (it is called
outside the `try`). One permission per module: a module with several is the
conjunction.

`Selection` and `Before` are smallest closed sets rather than recursions, which is
what lets the proofs use them without induction.

### Recipes, the catalogs and Provision

`InstallRun` takes a module's `install` for one external step. Here it is what
it does. A *fact* is something on the machine that a command needs, makes or
takes away: a command on PATH, a package, a file with dev-boost's content, a
service. A module's recipe has

* `requires`, `soft` (`after`), `families`, `provided` and `gui`, as in its class;
* `reads`: the facts its `verify` looks at;
* `steps`: its `install`, one step per command or file written, in order. `Do` is
  checked (a failure raises), `Try` is not (`Executor.run`'s result is dropped),
  `Ask` is a `NeedsUser`, `OnlyIf` an early return, `Unless` a check that leaves a
  step out, `Rewriting` a file of the user's written in place, which a kill tears.

`CatalogBase`, `CatalogDev`, `CatalogAgents` and `CatalogDesktop` hold every
registered module on Fedora, Debian, Arch, Omarchy and macOS, each definition
named after its class. Helpers like `PackageModule` or `CaskApp` stand for the
base classes of the code.

`Provision` runs a plan over this: `Skip`, `Cascade`, `AlreadyInstalled` and
`Install` are the branches of `runner._run_one`; then one action per step
(`StepLeftOut`, `StepWorks`, `StepLacks` when a need is missing, `StepFails`) and
`Verify` at the end. `Kill` ends a run before or in the middle of a step;
`Supply` is the user doing what modules ask for between runs. `Catalog` has the
plans: each module with what it requires, with what it comes after as well, and all
modules at once, in two opposite topological orders.

`Coverage` states, of a plan and a machine and without running anything, that whatever
a command needs is brought by an earlier step (`Suffices`) and that bringing more,
earlier, would leave no step in a worse place (`Ordered`). `GoodPlan` checks it of
every plan of the catalog; the theorems (below) say that such a plan keeps `Complete`,
`Converges` and `WellOrdered` through any number of runs and mishaps.

What the properties except is listed in `Catalog`, and is what they show:

* `KnownGaps`, a module that fails on a fresh machine because nothing it requires
  brings what it uses. `fresh-lsp` and `laravel-lsp` install `npm:` servers without
  node; `voxtype-arabic` calls chezmoi; `secrets`, `tpm`, `tmux-persist` and
  `pi-harness` call git on Linux (Omarchy ships it; on a Mac the Command Line
  Tools do); `build-tools` asks Debian's apt for fastfetch (base.py:26), which
  cli_tools.py says it may not have; `android-sdk` unzips on a headless Debian.
* `KnownFragile`, a module that a mishap can leave in a state no further run
  repairs: `claude-statusline`, `claude-notify`, `claude-plugins`, `codex-config`
  and the `*-lsp` modules rewrite a JSON or TOML file in place and step aside (or
  raise) once it no longer parses; `swapfile` formats only a file it has just made.
* `KnownUnresumed`, a module whose `verify` is content before its last step is
  done, so that a killed run is never taken up: a unit or timer enabled, a daemon
  restarted or a group joined after the file that `verify` reads (`aspire-gc`,
  `caddy`, `code-server`, `earlyoom`, `dnf-automatic-security`, `zram`,
  `nvidia-*`, `pass`, `crossarch-build`, `docker-build-gc`, docker.py:274-275), a tmux
  server that is not told of the new configuration (`dotfiles`, shell.py:515-521),
  rpcbind left exposed behind an active firewall (`server-firewall`,
  server.py:268-273), best-effort extras after the program itself (`mise`, `ddev`,
  `fresh`, `tailscale`, `android-sdk`, `dotnet-lsp`, `pi-harness`, `herdr-plugins`,
  `nerd-fonts`, `xcode`), apps that are opened once, after their cask (with
  nobody at the terminal a message sends the user there; `stats`, `raycast`, `aerospace`, `alt-tab`,
  `thaw`, `monitorcontrol`, `maccy`, `linearmouse`; _cask.py:125-139), settings after
  the first one verify reads (`secrets`, `flatpak`, `rpmfusion`, `macos-firewall`,
  `claude-plugins`, `obsidian-sync`, the `*-lsp` modules) and `voxtype-arabic`.

A property excepts a module by name; the run shows that every other module of the
catalog, as modelled, satisfies it, and a module that starts to need something new
makes the run fail. `KnownUnresumed` is exact: without any one of its names `Resumes`
fails. What `Resumes` can see is what a step gives: commands that only refresh (apt's
lists, `systemctl daemon-reload`) give nothing. The server of the model is logged in
to through tmux, so that a live server is there from the start; on the other machines
none is, and the reload is passed over as in the code.

### MacDefaults and Snapshot

`Probe` reads one key (or cannot), `Save` writes the snapshot, `Write` one key;
`Restore`, `PassOver`, `DeleteInVain` and `Finally` are revert. `Stop` ends either
command anywhere. The user changes keys at any time (`User`). `Snapshot` says what
a user may rely on: a key is overwritten only while a value it had is on record, a
record never changes and is dropped only once given back. `MacDefaults` implements
it with `kept <- file`; the history variables `own` and `taken` are the same in
both. `Snapshot` models no code, so it is not in the code map. Two commands at
once are not modelled (the module takes no lock), nor restarting Dock and Finder.

### DockerSwitch

`drive`, `target` and `phase` are the command under way: `Use` walks through
`stop`, `disable` and `release` for each runtime of `to_stop`, then `install`,
`configure`, `start`, `point`, `merge`, `restart` and `save`; `Install` is the
docker module with docker-build-gc after it, on the runtime an environment
variable or `config.toml` selects. `Abort` ends it anywhere; `StopInVain`,
`DisableInVain` and `ReleaseInVain` are commands that fail while nobody looks at
their result, remembered in `deaf`; `Reboot` and `ByHand` are what the machine and
its user do in between. `installed` is what the code's `installed` says, which
counts a Colima only with all four of its formulae. `loaded` are the engines that run with the cap, `capped` those
whose config has it. `torn` remembers the two ways the code leaves them apart:
a kill between the two, and a Colima not started as a service
(`_docker_colima.py:267`). Left out: the ddev snapshots, a `DOCKER_CONTEXT` of the
user's, VM sizes.

### RcFiles

A file is the release it was written from (0: not ours) and the lines added
since. An apply copies each of its files that is not exactly what dev-boost wrote
(`Unchanged`, by the source's bytes or the recorded digest), lets chezmoi write
them one by one, records digests (or fails to) and stamps the release. `ApplyAll`
is the dotfiles module, `ApplyOwn` voxtype-arabic, `ApplyRepo` chezmoi-repo with
the user's own repository. `Edit` appends a line at any time, `Update` brings a new
release, `Cut` ends an apply anywhere.

### SelfUpdate

`self_update` of the frozen binary on Linux: `UpToDate` is its early return when the
redirect names the running version (`cli/app.py:552-555`), `Begin` the other case.
Then `update_frozen` request by request: the version from the redirect, then checksums,
binary and archive, each from what is the latest release at that moment, then the
comparison and the two replacements. `Publish` publishes a release or withdraws
the latest. `cached_latest` is left out: it only fills its own cache file.

### Accounts

One user, and so one entry of `users.toml`. The file is one for all users, loaded
before the form and written whole after it, in place by `tee` (`reconcile.py:78-81`):
two commands at once about two users, or a write cut off half way, can lose an entry
of another user's. Neither is in the model. `steps` is what is left of the command, in the
order of `reconcile.py`; each call into `usermgmt.py` is an action. `InVain` is one
of the calls whose result is dropped, failing; `Abort` one that raises, or a kill;
`Login` happens whenever the account lets it. `owed` remembers the rights of
entries that no apply has replaced yet. Left out: passwords, keys, linger, quotas,
purging; `bootstrap.py`.

### MediaBuild

`Begin` probes the stick (`Ours`: a Ventoy partition with our marker) and builds
or updates; `InstallVentoy`, `StageConfig` and `WriteMarker` are the payload;
`Fetch`, `StartCopy` and `EndCopy` the image, from the user's file, the cache or a
download. `Change` is a new pin, a cached file that rots, a local file replaced.
Left out: the autoinstall ISO, mounts, eviction.

`MCMachine` puts these six parts side by side for one run of TLC. They share no
variables; each behaviour is about one of them, the others stay as they began.

## Runs

| run | instance | shows |
|---|---|---|
| `pass_store` | 3 devices (two enrolled), a scoped folder, 2 entries, 3 commands, 1 write | all promises of approve and revoke when no command is overlapped by a sync or cut off after its yes, and entries encrypted to their list |
| `pass_enroll` | 3 devices, empty store, no entries, 2 commands, failures, kills, overlapping syncs, manual resolution | no revoked record is lost |
| `pass_guidance` | 3 enrolled, 1 entry | **violation**: `--resolve` guidance brings a revoked key back |
| `pass_scoped_race` | 3 enrolled and a newcomer, one folder | **violation**: a scoped approve merges cleanly over a revoke |
| `pass_sync` | own key and 2 others, 2 commits, 1 kill; faults none, crash, race | nothing seen silently, failures told |
| `pass_sync_live` | own key and 1 other, 2 commits; faults none, crash, torn | liveness under fairness |
| `pass_sync_torn` | the torn write alone | **violation**: a key learnt silently |
| `install_run` | 3 modules, 4 catalogs and hosts, 2 builds, any number of runs and kills | cascade, password, force, permissions |
| `install_gap` | a chain with its middle skipped | **violation**: the cascade stops at a skipped module |
| `provision` | the catalog on 5 platforms and a server, 3 runs, 1 command that fails or 1 kill | what is missing in requires and after, what reruns repair, and that every plan meets the local criterion |
| `provision_resume` | voxtype-arabic on Fedora, 2 runs, 1 kill | **violation**: a killed install that verify takes for done |
| `machine` | six parts, 3 or 4 commands each, 1 or 2 outside events | recovery, refinement, convergence, no loss |

Why the bounds are enough: two commands on three devices give every pair of
concurrent approve and revoke steps, which is what the merge of two histories
needs. A third one matters where one command meets what another left half done, or
where a key is enrolled, revoked and asked for again; it is what showed that a
revoke cut off half way can be undone (see the findings), so `pass_store` allows
three. That no number of commands or devices finds more is what the theorems are for.
One write is what a stale clone needs to bring an old recipient back; two entries
separate root from scoped folder. In PassSync two commits let the origin move while the clone is
ahead, and one kill between any two steps followed by clean syncs shows what the
file remembers; on the first device one of the two is the store's own first commit. In
InstallRun three modules give a chain, a fork, soft edges
against the alphabetical order and a skipped or dropped middle; more modules only
lengthen chains, which the theorems cover.

In `provision` facts are monotone but for the few a step takes, so one mishap and
two more runs show what the mishap left; a second mishap would have to meet what
the first left, in the same module, before a rerun got to it. Plans of more than
`LongPlan` modules (the whole catalog) meet no mishap: they are there for the
orders, and each module's mishaps are covered in the plan of its own closure. In
`machine` two settings give a revert that stops between two keys, three commands an
apply, a bad revert and what repairs it; three runtimes are all there are, three
commands give a switch after a failed switch after a foreign start; one file that
only the dotfiles apply and one that voxtype-arabic applies too, over two releases,
give every way a digest can be stale; two moves of the feed during an update
separate all three files; four orders give create, two changes that are cut off
and what comes after; two images and three runs give a stick that was cut off, a
new pin and its update.

`CHECK_DEADLOCK FALSE` is set where commands are bounded and the system comes to
rest: the PassStore runs, `provision` and `machine`.

Symmetry: devices that are enrolled alike are interchangeable (`Twins`, `Alike`,
`Others`), in safety runs only.

Properties, and what each would catch:

* `AccessByConsent`: every key listed or encrypted to, anywhere, was agreed to.
* `RevokedStaysOut`, `RevokedIsTracked`, `NeverReopened`, `RevokedForGood`: the
  guarantees of docs/pass.md "Trust root". The last holds whatever happens. The
  others have conditions, each of which TLC shows to be needed:
  `RevokedStaysOut` fails when a scoped approve meets a revoke (`pass_scoped_race`: a
  folder that holds an entry is re-encrypted by both sides, and git refuses the
  merge; an empty one is not), when a conflict is resolved as the guidance says
  (`pass_guidance`), when a sync runs during a prompt, and when a command is cut off
  after its yes; `RevokedIsTracked` when a sync runs during a prompt or a process
  dies before `rotation.json` is written. `NeverReopened` says that no merge and no
  command gives a revoked key an entry that was closed to it; a user who edits, on
  a stale clone, an entry the key could not read (or that the revoke could not
  re-encrypt) still does, and the property names that case.
* `EncryptedToList`: an entry that every clone knew is, at the origin, encrypted to
  exactly its list, which is what the audit compares (audit.py:102): nobody on the
  list is shut out, nobody off it let in. It fails when a sync runs during a prompt,
  when a conflict is resolved by hand, and, where devices have parts of the store, when
  a command is cut off after its yes (below). An entry inserted on a stale clone is
  outside it: new to the others, it meets no conflict (docs/pass.md:147).
* `NoSilentDevice`, `NoSilentRequest`, `AnnouncedOnce`, `FailureTold`,
  `OwnApprovalsSilentInTurn`: what the state file says was announced was.
  `AnnouncedOnce`, `FailureTold` and the last are about behaviours without a
  fault: a killed sync announces again, by design (sync.py:384).
* `DeviceNoticed`, `RequestNoticed`, `ApprovalLands`, `HeadAudited`: liveness, unless the
  clone is in a conflict its user was told of; a clone that is ahead by new entries only
  has none.
* `CascadeHolds`, `PasswordUpFront`, `NothingUnasked`, `GrantsCurrent`: what the
  runner promises of a plan. A need for root that an install of the same run brings up
  cannot be probed up front and is excepted; none was found in the catalog.
* `Complete`, `WellOrdered`: `requires` and `after` are complete. `Converges`:
  another run repairs. `GoodPlan`: the criterion that makes the three hold of plans
  and mishaps the run does not try. `Resumes`: nothing is left undone after a kill,
  nor half of a group of steps that are left out together (`HalfDone`).
  `SshStaysOpen`: server-firewall (server.py:250) cannot lock its user out by being
  killed.
* `Recoverable`, `ImplementsSnapshot`: the user's macOS settings are on record and come
  back; a record of a kind that cannot be written stays on record (macos_defaults.py:311).
* `OnlyChosen`, `CapInForce`: after a finished switch, and through restarts, one
  of the runtimes that `installed` counts runs, starts at login and is used, with the
  cap loaded.
* `NothingLost`: a line added to a taken-over file is in it or in a copy.
* `Matched`, `NeverOlder`: binary and archive are of one release unless an update was
  cut off between the two and none has replaced both since; no older binary.
* `LeastPrivilege`: no right without an entry; `Converged`: the account is as
  declared after a command that did all its steps.
* `VerifiedOnly`, `Bootable`: the stick.

Several of these name an exception in their statement (a stop that failed unheard,
a login between two steps, a release withdrawn during the update). Each is a way
the code really goes wrong, written down where it limits the promise.

Every property of a passing run has a mutant of the model (a plausible bug in the
mapped code, defined next to the action it replaces) that TLC finds.

### Fairness

`PassSync!Fairness`. The timer is weakly fair: systemd and launchd fire it for
ever. The steps of a sync are weakly fair: each git or gpg command returns.
A pull that gets through (to its end or to a conflict), a push and an audit are
strongly fair: a network that is up
again and again lets through what is retried every 15 minutes, and it would be
vacuous to assume less. `approve` past its prompt finishes; nobody is assumed to
request, approve or answer, and no conflict is assumed to be resolved, so every
liveness property exempts a clone in a conflict, once its user was told of it.

## Findings

Each violation run shows one disagreement between a promise and the code; the
quotes are in `PROJECT.json`.

1. `resolve_guidance` (sync.py:391) lists the registry of the aborted clone, so
   following it can list a revoked key again.
2. A scoped approve (approve.py:166-168) copies the root list; a concurrent
   revoke merges cleanly and misses the copy.
3. `_save` (sync.py:162-165) is not atomic, and an unreadable state re-seeds the
   tripwire silently, which costs more than "a repeated notice" (sync.py:159).
4. A skipped module hides a failure from what requires it through it
   (runner.py:95-101), against the comment there.
5. `voxtype-arabic` writes its config before the marker that says the daemon has
   still to read it (voxtype.py:437-457): killed in between, it counts as installed.

Seen while modelling, and written into a property as its exception or into
`Catalog`'s lists, without a run of their own:

* `revoke` reads `rotation.json` before its prompt (approve.py:225) and writes it
  after (242): a sync in between loses another device's entry.
* A revoke that dies after its `pass init` of the root (approve.py:232-241) has unlisted
  the key and moved no record. Its device, listed nowhere and barred by nothing,
  requests again; one workstation approves it while another completes the revoke, the
  two touch different files, and the key ends up listed and revoked ("A revoked key
  never comes back", docs/pass.md:193). It takes three commands and is why `pass_store`
  has `Failures = FALSE`.
* An approve of the whole store cut off after its root `pass init` leaves its target on
  the root list. A second approve of the same key, for a folder this time, copies that
  list to the folder and finds nothing to encrypt anew. A concurrent revoke, on a clone
  that has no such list yet, encrypts the folder's entries to what is left of the
  root's; the two merge cleanly, and the entries are not encrypted to their own list.
* "Entries written from now on are unreadable to it" (docs/pass.md:206) holds for
  clones that have pulled: an edit on a stale clone encrypts to the revoked key, and
  where the revoke left that entry as it was (its clone could not decrypt it) nothing
  conflicts. docs/pass.md:147 knows the case and leaves it to the audit.
* A key approved on this device before the first sync looked, revoked elsewhere and
  listed again is announced as new (sync.py:198), which is why
  `OwnApprovalsSilentInTurn` is about keys that are still listed.
* `remember_devices` (sync.py:194) takes no lock: a sync that loaded its state
  before it announces, as a stranger, a device this device approved itself.
* docs/docker-runtimes.md:46 says `docker use <current>` repairs the current
  runtime; a cap that was written but not loaded is not repaired by it.
* docs/accounts.md:234 says apply converges an account to its entry; an `enable`
  killed before its unlock leaves a lock that apply never takes away, and limits
  once set are never taken away by an entry without them. `disable` ends sessions
  before it locks the account (docs/accounts.md:190 locks first), so a login may
  slip in between.
* After a self-update cut off between binary and archive the next one does not repair
  it: the binary is the latest, so `self-update` returns at once (`cli/app.py:553`), and
  sticks are built from the old archive until a newer release is out.
* A Docker runtime may come back beside the chosen one: `stop`, OrbStack's and Colima's
  `disable_autostart` and the `rm` of the socket drop their results
  (`_docker_orbstack.py:65-69`, `_docker_colima.py:224-237`), and a Colima without
  compose or buildx, running or not, is not in `to_stop` (`_docker_colima.py:150`).
* A release withdrawn between the version check and the downloads makes
  self-update downgrade (selfupdate.py:189-205).
* `ufw allow OpenSSH` (server.py:254) is not checked: "a baseline that CANNOT lock
  you out" holds through kills, not if that command fails.
* A stick that lost its image to a run cut off after the marker is offered an
  update, which brings no image unless `--refresh-iso` is given (stages.py:332).

## Proofs

Every theorem is for every value of the constants under the named assumptions of its
module, which TLC evaluates on each run: any number of devices, folders, entries,
modules, keys, settings, releases, and any bound on commands, commits, kills and
events. A theorem that needs more says so in an `ASSUME` of its own. The pattern is
`Init => Inv`, `Inv /\ [Next]_vars => Inv'`, `Inv => P`; what follows is the `Inv`,
and why `P` alone is not enough.

**PassStore.**
* `TypeCorrect`. Lemmas give the type of every tree operation (`Merge`, `PassInit`,
  `Move`, `WriteRecord`).
* `RevokedRecordsStay`: `RevokedForGood`, whatever fails or overlaps. A push replaces
  the origin by a device's head, so `RevokedInv` says that along each clone revoked
  records only grow, `base ⊆ head ⊆ work`. Then a merge of `base`, `head` and
  origin keeps the revoked records of both, because a record in `revoked/` on the
  base is unchanged on our side and one added by either side survives.
* `ApprovalByHand`: `AccessByConsent`, whatever fails or overlaps. It speaks of lists
  and ciphertexts only, but `FollowGuidance` and a later approve turn device
  records into lists. The strengthening `ConsentInv` therefore asks consent for
  everybody a tree vouches for, in a list, a ciphertext or `devices/`, and for the
  target of an approve past its prompt. A merge takes each path whole from one of
  its sides, so it vouches for nobody new.
* `NothingReopened`: `NeverReopened`, for `ManualResolve = FALSE` (a resolution by hand
  writes what it likes). The step that pushes publishes a merge or a head; each entry
  of it is the origin's or one that this clone moved, so what the origin closed is
  opened only by a clone that opened it itself. `CommittedInv`, that files and HEAD
  differ in no list and no entry, makes a push of the files one of the head.
* `RevokedAreTracked`: `RevokedIsTracked`, for `Crashes = Overlap = ManualResolve = FALSE`.
  `TrackedInv` is the property in every tree that can be published, and `Unbroken`: a
  clone between `MoveToRevoked` and `RecordRotation` differs from its head by that one
  record, and what it read of `rotation.json` is still what the file says. The merge
  is where it could break: `rotation.json` is one path, taken from the side that
  changed it, and a revoked record never arrives without it.
* `RevokedKeysStayOut`: `RevokedStaysOut`, for
  `Failures = Crashes = Overlap = ManualResolve = FALSE` and behaviours in which nobody
  asks for or is given a part of the store (`WholeStore`; `OneFolderIsWhole`: always so
  where `Folder = {}`). Each of the conditions is needed, the last where a folder may
  hold no entry (see the properties above and the theorems on parts below).
  Without scopes no folder ever gets a list of its own (`RootOnlyInv`). Lists and records are different files that merge
  independently, so the invariant `StagedInv` has to say what ties them together. In
  every published tree each key is at one stage (unknown, waiting, enrolled and
  listed, or revoked and unlisted: `Tidy`) and the stage only rises along
  `base → head → work` and from any base to the origin (`Later`). Only its own device
  makes a key known (`OwnNews`), so a stage two sides reached differently is one where
  both moved the record, and git refuses that or one of the two did not move. A clone
  half way through a command is the exception (`HalfWay`): its list is ahead of its
  record by the one key the command is about.
* `EntriesFollowTheList`: `EncryptedToList`, for `Overlap = ManualResolve = FALSE` and
  `WholeStore`, whatever fails, dies or is cut off between two steps. `SealedInv` is the
  property of origin, bases and heads (`Sealed`), and that a device with a command under
  way is on the list and its revoke is about another (`Seated`): it can decrypt, and so
  encrypts anew, every entry. In the merge a side that changed the list changed the
  entries, so when both changed it git refuses, and when one did its entries come with
  its list. `CipherAssumption`: an absent file is no ciphertext.
* `RevokedKeysStayOutOfParts` and `EntriesFollowTheirLists`: the same two properties
  in stores that are given away in parts, for
  `Failures = Crashes = Overlap = ManualResolve = FALSE` and `InUse`: the store has
  members, and each folder that may get a list of its own holds an entry every clone
  began with. `pass_store` is such an instance; `pass_scoped_race` shows what happens in
  a folder without an entry, where two lists can change unseen by git. `SettledInv` is
  the invariant. A tree is `Settled` when every key has one record (`Alone`), an entry is
  encrypted to its list (`InStep`), a folder's own list holds the workstations' keys
  (`Covers`) and the lists over an entry name a key exactly as its record says (`Tied`).
  A clone past the yes of an approve or a revoke is settled but for its target, and
  `Admitting` or `Expelling` says which lists name that one by now. The merge needs more:
  no list changes without its entries being encrypted anew, each time under a
  higher number and by the clone that did it (`OwnSeals`, `OthersSeals`), so when both
  sides changed a list git sees two different ciphertexts and refuses. What merges takes
  each entry with the lists over it from one side (`MergedSeal`) and each key's records from one side
  (`MergedRecords`), while the other has left them alone or moved them alike; and then
  every tie between a list and a record is one that a side already had. Only while a
  folder of an approve or revoke is still to do may its list lag behind (`Forked`), and
  a clone in that state does not pull.

**PassSync.** `SyncInv` is `TypeOK ∧ LoadedInv ∧ RequestInv ∧ SavedInv ∧ InTurnInv`.
* `TypeCorrect`, which the other invariants start from and no run repeats; `relisted`
  and `touched` need a lemma of their own, for Zenon.
* `NoRequestSilenced`, under every fault: `RequestInv` says of the file, of the sync's
  memory and of approve's memory alike that what they call announced was, for each
  of them may be the next file.
* `NoDeviceSilenced`, for `"torn" ∉ Faults` (`pass_sync_torn` refutes it with): `SavedInv`
  says the same of known keys, relative to what was there when the file was first
  written.
* `EachAnnouncedOnce`, `EachFailureTold`, `OwnApprovalsSilent`: about behaviours without
  a fault, where syncs and approves take turns. `InTurnInv` speaks of `Current`, which
  is the file between syncs and the sync's memory during one.

**InstallRun** (`AcyclicAssumption` is what `registry._check_cycles` enforces). `RunInv` is
`Types ∧ PlanInv ∧ DoneInv ∧ PassedInv ∧ SudoInv ∧ ForceInv ∧ IdleInv`: the plan
is one of the filtered topological orders (so what a module requires is earlier),
exactly the modules behind the cursor have results, a module that was tried has no
failed requirement, a module still ahead needs root only if the probe saw it or an
install since made it so (`late`), and `forced` is what the mode says. From it `TypeCorrect`, `CascadeCorrect`,
`PasswordAskedUpFront` (invariants) and `ForceStaysHome`, `GrantsAreCurrent` (action
properties). `CascadeCorrect` is where the cascade's limit shows: `Upstream` walks
only through modules the plan does not skip, because the statement without that
restriction is `CascadeIsTransitive`, which `install_gap` refutes.

**Provision**, for any catalog, machines and plans. `KillsLockNobodyOut` is about every
behaviour in which no command fails. `BetweenInv` says what holds between the step that
lets ssh in and the one that turns the firewall on: it was let in, or something it
needs is missing and still will be when the later step asks for it too. The theorem's
hypothesis `OpensFirst` is about the catalog: every install that turns the firewall on
lets ssh in first. `ServerFirewallOpensFirst` proves that of `server-firewall`, the one
recipe that gives `ufw.active`; for the whole catalog TLC evaluates it to TRUE. It is
no assumption of `Provision`, because a catalog that breaks it is just what
`SshStaysOpen` is there to find.

`PlansAreComplete`, `PlansConverge` and `PlansAreWellOrdered` reduce `Complete`, `Converges` and
`WellOrdered`, which speak of every order of steps, failures and kills, to conditions
on the recipes alone (`AllSuffice`, `AllOrdered` in `Coverage`). TLC evaluates these on
every machine and every plan (`GoodPlan`), so for this catalog the three hold for any
number of runs and mishaps, and for the whole catalog at once, where the run tries
none. The conditions are local: a module is judged from its own recipe and from what
the modules it requires leave behind.
* `Have` is what is there at a module's turn: what is shipped, what the user supplies,
  what the verify of each required module reads, and what is *tied* to these (whatever
  gives the one gives the other, as a package its commands). Facts that any step takes
  away, or for `Converges` leaves torn, do not count (`Lost`).
* `Suffices`: with that, the install can do every checked step, unless a step that may
  be left out or an early return explains it, and ends with what its verify reads. The
  catalog's listed gaps and fragile modules are excused, and only they.
* `Ordered`: what a step needs, and a later one gives, is there at its turn already, or
  the module fails without it; and a module whose verify is content from the outset
  has nothing left to do.

`GoodInv` carries the criterion through the runs: what was shipped or supplied is there
(`ShippedInv`), a fact is there with those tied to it, or they come with the very next
step (`TieInv`), a checked step that was passed did its work (`PastInv`), a module that was
passed and did not fail still verifies (`BehindInv`), and an install under way has done the
steps it can do (`InstallInv`, over every set of steps at once, because which ones can be
done is known only to the criterion). `BlameInv` then adds that only an excused module
fails of itself. For the order, `FirstInv` follows the first run: where each fact came
from (`OriginInv`), what a module fails without (`VitalInv`), and that a step the install
came past is done, left out, or lacks something that no later step brings (`SoFarInv`,
`DoneInv`).

**The six parts of a machine.** Each theorem is proved of its part and then of
`MCMachine`, whose behaviours are about one part while the others stay as they began:
a step of the machine is a step of a part or leaves it alone.
* *MacDefaults*: `DefaultsRecoverable` and the refinement `DefaultsKeepThePromise`, that
  every step is one of `Snapshot` or a stutter under `kept <- file`. `DefaultsInv` adds to
  `Recoverable` what the code's registers know: `RecordInv`, what is on record or not
  taken is a value of the user's, and `JobInv`, what an apply has probed and not
  found on record is the user's, what it goes on to write is on record, and what a
  revert has restored is not taken. Its lemmas on `Min` are needed because a command
  takes the settings in order.
* *DockerSwitch*: `SwitchChoosesOne`, `EngineHasCap`. `OnlyChosen` is about finished
  switches, so `DockerInv` follows one: what it has passed is quiet but for commands that
  failed unheard (`StoppedInv`), its target runs from `start` on and is the CLI's from
  `point` on (`StartedInv`), nothing but Colima runs that is not installed, and nothing
  at all holds the socket (`InstalledInv`), and an engine that runs with the cap in
  its config has read it unless its restart is due or lost (`CapInv`).
* *Accounts*: `NoRightUnaccounted`, `CommandsConverge`. `steps` is data; `StepsInv`
  bounds it to the suffixes of the five lists, and the others say of each suffix what
  those before it did: `EntryInv` (the entry was saved), `ApplyInv` (what is granted),
  `TakeInv` (what is taken away), `LockInv` (who is locked, and who is about to be
  opened).
* *SelfUpdate*: `BinaryMatchesArchive`, `BinaryNeverOlder`. `FetchedInv` and `OrderInv`: what
  was fetched so far is of some release, after verification of one, and not older
  than what was named unless a release was withdrawn.
* *RcFiles*: `LinesSurvive`. `DigestInv`, that what is recorded as dev-boost's own needs no
  copy, and `PastInv`, that a file an apply has passed is copied or safe to overwrite.
* *MediaBuild*: `StickHasPinnedBytes`, `StickBoots`. `BuildInv`: from the marker on the boot
  entry is the pin's, and what is copied was verified. `UpdateKeepsImage`: an update
  begins on a stick with the image or is one that `lacking` names.

What proving changed. Two properties turned out to be false beyond the bounds they
were checked in, and were restated: `NeverReopened` (it forgot entries the revoke
could not re-encrypt) and `OwnApprovalsSilentInTurn` (it forgot keys listed again).
`RevokedStaysOut` lost a case it was believed to cover (a revoke cut off after its
yes). All three are under the findings above.

Only model-checked:
* `Resumes`. A local criterion like those above is false of this catalog: a best-effort
  step of `playwright` uses claude, which that module neither requires nor comes after.
  That no run reaches it before claude is there is a fact about whole plans and their
  order, and TLC checks it of each plan.
* The liveness of `pass_sync_live`: fairness and ENABLED are out of the prover's reach.
* Induction over data (what a recursive definition computes), for the same reason. No
  module declares a RECURSIVE operator, and `Selection` and `Before` are smallest closed
  sets so that no proof needs it.

## Not modelled

* `accounts/bootstrap.py`: what `reclaim_home` re-owns depends on file times and
  links in an arbitrary tree, which is file-system semantics rather than protocol.
* Doctor, lifecycle commands and other front ends: they report or delegate.
* Parsing, rendering and merging (`config.py`, catalogs of media, autoinstall
  templates): pure functions with unit tests.
* Shell scripts, vendored skills, documents, templates: no state, or no program.
* What commands do inside (package managers, git, gpg, chezmoi, ufw, launchd): they
  are taken at their documented effect.

## Plan

Models and runs are complete for the components above, and every safety property
but `Resumes` has its theorem. What is left:

1. `InUse` asks for an entry in each folder that every clone began with. Whether a
   folder is safe once its first entry has been published everywhere is not examined.
2. `Provision` and `InstallRun` share a runner. That the first implements the second, with
   the steps of an install as stutters, is not stated; `Changed` leaves room for it.
