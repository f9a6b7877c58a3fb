# Beetroot: a TLA+ verification project

Beetroot runs rooted Android instances (redroid containers, QEMU micro-VMs, real
devices over adb) from a Python command-line tool.  There is no daemon: every
`beetroot` command is a process of its own, and what keeps them consistent is a
JSON registry, a few `flock`s, and per-instance directories.  This project models
that shared state and the commands over it, model-checks them with TLC and proves
the central results with TLAPS.  Paths below are relative to the repository;
`registry.py` means `src/beetroot/registry.py`.

## 1. Inventory

| Component | State | Operations | Module |
|---|---|---|---|
| Instance registry (`registry.py`) | `instances.json`, `.lock`, `.bak`, tmp files | list/get, add_allocating, remove, set_stealth_paths, reconcile_backend_kind, assert_no_port_collision | `Registry` |
| Port allocation (`ports.py`, port validators of `config.py`) | none (pure) | lowest_free_index, _check_index, resolve_ports | `Ports` |
| Provisioning (`api.py`, `snapshot.py`, `cli.py`) | instance directory, `beetroot.yaml`, `compose.override.yaml`, `.env` | create, register, restore, apply, self-heal of up, destroy, forget, rollback | `Provision` |
| Instance lifecycle (`api.py`, `compose.py`) | container, `.beetroot.lock`, `data/` | up, down, restart, apply, reset, destroy, snapshot | `Lifecycle` |
| Snapshot archive (`snapshot.py`) | `.tar.zst` archive and manifest | snapshot, restore | `Lifecycle`, `Provision` |
| QEMU backend (`backends/vm.py`, `vm/qemu.py`, `vm/boot_cache.py`) | pidfile, QEMU process, qcow2 overlay, identity sidecar, monitor socket | up (cold, warm), down, restart, apply, destroy | `Vm` |
| Host checks (`hostcheck.py`, `capabilities.py`, `health` of the backends) | none | modes, doctor, the preflight of up | `HostPlan` |
| Registry walks (`cli.py`, `Manager` of `api.py`) | none | up/down/restart `--all`, ls | `Fleet` |
| Artifact caches (`*_download.py`, staging in `api.py`) | per-user cache, staged files | fetch, verify, evict, stage | `Artifacts`, `VmBuild` |
| Image build (`builder.py`, `rootfs_download.py`) | clone and its lock, image tags, kernel, rootfs, marker | build, build --vm-kernel | `ImageBuild`, `VmBuild` |
| ADB backend (`backends/adb.py`) | device files | module batch | `AdbBatch` |
| Configuration (`config.py`) | `beetroot.yaml` | load with upgrade, write | `ConfigFile` |
| Guest scripts, `settings.py`, `paths.py`, `console.py` | files in the guest; none | boot; lookup, formatting | not modelled (section 5) |

What is hard about it: commands interleave at every system call, and only the
registry, reset/destroy/snapshot and the clone take locks; a command can be killed,
or power lost, between any two calls; checks (name free, directories disjoint,
ports disjoint, host capable) and the acts they allow are often separate; external
tools (docker, qemu, adb, git, dockerd) fail, hang or outlive their caller;
downloads are cut; pids, lock inodes and cache entries are reused; documents of
another version must survive.  `PROJECT.json` lists these hazards at their lines
with the properties that cover them.

What makes each component correct:

* registry: indices are unique; an acknowledged call is durable; rows vanish only
  when asked to; no command crashes or hangs because of a sibling; it behaves as an
  atomic table;
* ports: allocation is the lowest free index; bands of different indices never meet;
* provisioning: directories of instances never overlap; rows have directories; no
  port is published twice;
* lifecycle: the data of a running container stays; a container publishes its ports;
  an archive is of one data directory; commands mean what they report; locks are
  given back;
* micro-VM: only own processes are signalled; a warm start resumes what was asked
  for; a snapshot is of a booted guest; down leaves no emulator; every command ends;
* commands: modes, doctor and up agree; remedies lead somewhere; walks are exact;
* artifacts: apply leaves everything staged; pins hold; nothing irreplaceable is
  lost; repeating a failed command helps;
* builds: a build uses its own source and what was asked for; markers are true;
  checks predict; builds end and clean up;
* module verb: the report of a batch adds up; pins of the config survive upgrades, and
  a rewrite that is raced or cut leaves a file that loads.

## 2. Modules

| Module | Models | Composed with |
|---|---|---|
| `RegistryRows` | rows, and what each registry call does to a parsed table (no state) | used by the next two |
| `RegistryAbs` | what callers rely on: an atomic table and the tables a power loss may leave | refined by `Registry` |
| `Registry` | the file protocol: lock file, reads, quarantine, fsync/rename, faults | refines `RegistryAbs` |
| `Provision` | the commands that create, re-stage and remove instances | registry calls as atomic steps, justified by `Registry` |
| `Lifecycle` | one instance with its lock and its container, as the redroid backend or, once its row is flipped, the vm backend treats it | |
| `Vm` | one micro-VM: processes, pidfile, overlay, boot cache, and the verbs of a row moved to redroid | |
| `Ports` | index scan, index cap, `resolve_ports`, with the real numbers | with the next two in `MCHost` |
| `HostPlan` | probes, verdicts, doctor rows, preflight and start | in `MCHost` |
| `Fleet` | walks of the registry while it changes | in `MCHost` |
| `Artifacts` | staging of frida-server and modules over shared caches | |
| `ImageBuild` | the clone under its lock, the patcher, the layer | with `VmBuild` in `MCBuilds` |
| `VmBuild` | kernel and rootfs: fetch, compile, bake, marker | with `ImageBuild` in `MCBuilds` |
| `AdbBatch` | the module batch on an adopted device | with `ConfigFile` in `MCModule` |
| `ConfigFile` | loading, upgrading and rewriting `beetroot.yaml` | with `AdbBatch` in `MCModule` |
| `MC*` | instances for TLC | |
| `RegistryProofs`, `ProvisionProofs`, `LifecycleProofs`, `VmProofs`, `ArtifactsProofs` | TLAPS proofs about the module of that name | |
| `HostProofs` | TLAPS proofs about `Ports`, `Fleet` and `HostPlan` | |
| `ImageBuildProofs` | TLAPS proofs about `ImageBuild` and `VmBuild` | through `MCBuilds` |
| `AdbBatchProofs` | TLAPS proofs about `AdbBatch` and `ConfigFile` | through `MCModule` |

An `MC` module adds a variable (`scene`, or `serial`) that is chosen at the start
and bounds which commands, edits and faults a behaviour has: the interesting
combinations are explored fully, and their product is not.  `MCHost`, `MCBuilds` and
`MCModule` hold two or three components that share no state; a scene plays one of them
while the others keep one of their initial states.  Where a property speaks of
a scene, its `MC` module splits the specification: `SceneSpec` says what happens in a
scene and bounds nothing, and is what the theorems are about; `MCSpec` adds `Bounds`,
the sizes TLC can explore, and the fairness.

### Registry

`file`, `bak` are the contents of `instances.json` and `.bak`; a file is `absent`,
`torn` (not JSON), `legacy` (another version) or `v3` with a row per name.  A row's
`shape` is what validation makes of it (`valid`, `opaque`, `nodict`, `broken`).
`sh`/`ex` are the holders of the flock.  `disk` is the set of
`<<instances.json, .bak>>` pairs that a power loss may leave: a change adds to it,
the directory fsync collapses it, and a rename whose data was not fsynced adds a
torn file.  There is one action per system call: `ListExists`, `LockShared`,
`MigExists`, `MigRead` (`list_instances`, `_needs_legacy_migration`),
`LockExclusive`, `InitCheck`, `InitWrite` (`_locked`), `ReadExists`, `ReadText`,
`Rename` (`_read`, `_backup_and_warn`), `Decide` (the body of each operation, by
`Outcomes`), `WriteTmp`, `FsyncTmp`, `Replace`, `FsyncDir` (`_write`), and the
faults `WriteError`, `Kill`, `PowerLoss`.  `get` and `used_indices` are
`list_instances` plus a projection.  `allowed` is a history variable: for each name
the row its last acknowledged call gave it, plus those of calls not yet returned.
Abstracted: row payload other than the stealth blob, timestamps, hints on stderr.

### Ports

One behaviour is one allocation and one resolution.  The list is chosen entry by
entry as the loop consumes it, under the conditions config's validators enforce
(distinct services, distinct pins, an adb entry).  Guest ports play no part in the
result and are left out.

### Provision

`reg`, `there`, `yaml`, `staged` are the registry, the existing directories, and each
directory's `beetroot.yaml` and `compose.override.yaml`; `Within` is the nesting of
directories.  A config is the set of host ports it pins; the stride default of index
`i` is written `i`, so a pin can hit a sibling's default.  Each process carries what
the code holds in memory: `root`, `cfg`, `index`, `made` (`created_dir`).  `applied`
and `fresh` are history: which instances were last staged from the yaml and the row
they still have.  Reading all siblings' yamls in `Check` is one step: they are read
under the registry lock by create, register, apply and up, and without it by
restore; the argument for `PortsDisjoint` needs only that each sibling is read after
the reader's own row and yaml are visible.  `.env` and the override are written by
the same routine and count as one file.

### Lifecycle

A lock is held on an inode of `.beetroot.lock`, a container mounts an inode of
`data/`; both outlive their path.  A verb goes to the backend its row names (`via`):
`Load` is the redroid `Instance`; `LoadVm` is `VmDeviceBackend`, to which an `apply` of
`binder: vm` flips the row and whose verbs never look at the container; `LoadOrphan` is
the command line's destroy of an instance without its `beetroot.yaml`; `LoadFails` is
the rest.  `Open`, `Flock`, `Unlock` are `_instance_lock`; `Down`, `Heal`, `StageLocal`,
`ComposeUp`, `Reconcile`, `StageNetwork`, `Wipe`, `MakeData`, `RemoveRow`,
`RmtreeSome`, `RmtreeRest`, `Pack`, `PackRest`, and `Reload` (apply reads the yaml a
second time and may refuse its ports) are the steps of the verbs in the order
of the code, with the error path of each (an exception leaves the locked block of
reset and destroy through `Unlock`, `Raise`).  Beside them a container crashes, a user
deletes or edits files (`UserActs`), and a process is killed, which releases its
flock.  docker compose is external.

### Vm

The host is a table of processes by pid; a QEMU of this instance is `own`, strangers
come and take freed pids.  An overlay is a disk number that a running QEMU keeps
when the path is unlinked; a base is what `base_identity` digests.  An up resolves the
artifacts, unlinks the monitor socket, keeps, discards or creates the overlay and its
identity, decides between warm and cold, looks for a running VM, launches, writes the
pidfile, waits for adb and saves the snapshot (`Resolve` to `SaveSnapshot`), with the
fallback from a warm to a cold start (`LaunchFailed`) and every early return; a down
is `Terminate`, `Escalate` and `UnlinkPidfile`.  An `apply` of `binder: host` moves the
row to redroid; from then on `LoadRedroid` gives the verb to `Instance`, which does not
know the pidfile, and `stopped` remembers which backend carried a down out.  The identity test of a pid and the signal right
after it are one step; between two polls of a wait the pid may be recycled.

### HostPlan and Fleet

`HostPlan` keeps the facts the probes read and computes the classification, the plan,
the accelerator, the four run-modes and the doctor rows as operators over them, as
`hostcheck.py` and `capabilities.py` do; up and restart are a preflight, for a restart
a down, and a start (`Preflight`, `LifecycleDown`, `LifecycleUp`) with the host changing
in between.  `VmUpEnds` has the ways a vm up may end in the order the code meets them:
accelerator, artifacts, `qemu-img` under a boot cache, a machine that already runs,
QEMU, adb, a guest that does not answer.  `Omen` pairs the four of them that doctor has
a row for with that row.  `FollowRemedy` is the user
doing what a remedy says.  `Fleet` reads the registry and every `beetroot.yaml` one at
a time in sorted order, in as many passes as the code makes, while rows are forgotten,
created or adopted and files removed, broken or repaired.  `steady` is history: the
names nobody touched since the walk began.

### Artifacts

A file is what it holds: two whole contents or a part.  A cache key is a release and
architecture or a url; a module given by path is the user's own file, which may lie
inside the `modules/` of an instance (`Inside`).  `kind` is the backend of each row and
`archEnv` the `BEETROOT_FRIDA_ARCH` override.  apply of a redroid row checks for a real
frida-server (`StageLocal`), writes the placeholder (`StageEmpty`), reconciles the row
and stages both; of a vm row it stages modules only and reconciles at the end; only a
redroid row has add and install.  The further steps are
resolution of the version, cache lookup, download to a temp file and its publication,
verification, eviction on a mismatch, the copy beside the target and its rename, the
wipe of staged zips and the numbered destination names.  Servers change what they
send, downloads fail or are cut (noticed only where the length is known), commands
are killed.

### ImageBuild and VmBuild

`ImageBuild` has the clone (`tree`: its url, whether it is whole, whether the patcher
downloaded into it), the lock's holder, and a git that outlives its killed beetroot.
`VmBuild` has what the host offers, the revision of the kernel config and of the
guest init, what is published, and the kernel, the image and the marker on disk; a
build checks, fetches or compiles the kernel, then fetches or bakes the rootfs with a
staging dockerd it polls and stops, and publishes marker and image.  A fetch that fails
falls back or ends the build, by which exception it was; a packing that fails may have
left the old image or a part of the new one.  `torn` is history: no image has been
written since the marker was.  The tools
themselves (git, make, mke2fs, dockerd, docker) are external.

### AdbBatch and ConfigFile

`AdbBatch` walks the sources in order: validate, push, install, remove, each adb
command with or without effect when it fails; a bad row leads on to the next source,
a lost device to the abort.  `ConfigFile` keeps the api version, at most one removed
key, the ports in one of their forms and what decides between errors; `LoadYaml` is
`load_yaml` with the notes printed before the validation (`noted`), a rewrite is a
truncation and a write.  `asked` is history: the document the user last
wrote, while no command ran (an edit between the load and the write of a command is
overwritten by it, as `Artifacts.AddsKept` shows for two commands).

## 3. Runs

| Run | Result | What it shows |
|---|---|---|
| `registry` | pass | `UniqueIndex`, `AckedDurable`, `NeverCrashes`, `RowsKept`, `ImplementsAbs`, `CallsReturn` for any two calls of two commands and a fault at any system call |
| `ports` | pass | `LowestFree`, `AutoBandsDisjoint` with the real constants |
| `provision` | pass | `PortsDisjoint` for two commands at once with an edit and a kill; `SerialNoOverlap`, `SerialRowHasDir` for commands one after another over nested directories, one of them killed |
| `lifecycle` | pass | `LiveDataKept`, `PortsPublished`, `OutcomesTrue`, `SnapshotStable`, `CommandsEnd` |
| `vm` | pass | `NeverSignalsStranger`, `WarmMatches`, `SerialSnapshotsBooted`, `SerialDownStops`, `CommandsEnd` |
| `commands` | pass | `SupportedStarts`, `DoctorPredicts`, `VerdictsTrue` over every combination of the host facts a backend looks at and two changes; `WalksExact` over every mix of rows and a change |
| `artifacts` | pass | `AppliedComplete`, `CacheWhole`, `SharedMatchesPin`, `NothingLost`, `RetriesSucceed` |
| `builds` | pass | `CloneSafe`, `BuiltAsAsked`, `MarkersTrue`, `BakeSound`, `AllBuildsEnd` |
| `module` | pass | `ReportTrue`, `DeviceTrue`, `BatchEnds` of a batch; `PinsKept`, and, with races and a kill, `RewriteSafe` of the config |
| `registry_backup` | violation of `BackupKept` | a torn first write replaces the legacy backup |
| `vm_livedisk` | violation of `LiveDiskKept` | a second up discards the overlay of a running VM |
| `lifecycle_wipe` | violation of `LiveDataKept` | up starts the container between the down and the rmtree of a reset |

The type invariants of `Registry`, `Ports` and `Provision` are theorems (section 4);
those of the other modules are conjuncts of a property of their run.

Bounds.
*Registry*: two names, two processes, two blobs, two calls, one fault, indices 0..1;
two processes are enough for a lock conflict, a read under a rename and a lost
update, and the initial files (missing, torn, legacy, with valid, opaque and broken
rows) stand for what earlier calls left.
*Ports*: used sets that are empty, have a gap, and end just below, at and past the cap
of 1295; pins on a privileged port, on a sibling's stride default and in a pool
window; eleven unpinned entries are reachable, so the spill happens.
*Provision*: three names with room for two indices, an outer directory with three
inside it, five serial calls or three overlapping ones, one kill, one edit; pins
clash with each other and with a stride default.
*Lifecycle*: five calls of any verb one after another with two acts of the user, a
failure of any compose or network step and a kill; or four resets and snapshots by
three processes at once, which is enough for a writer to wait behind two readers and
for one to arrive while it waits.  The user deletes the directory at any moment but
while a snapshot walks it, and none of the racing commands' files.
*Vm*: scenes `cache` (two calls, a rebuild or an edit of the geometry, a kill), `down`
(three calls of any verb, another edit), `race` (two at once, an edit of the port, a
stranger); two pids make reuse possible, three overlays a cold start after a discard.
*Commands*: every set of the facts that the instance's backend looks at (`OneBackend`),
two changes, so that one thing may go and another come between doctor and up; three rows of every kind with any
file, one change, so that a row before, at and after the walk's position is hit.
*Artifacts*: two instances sharing a release and a module, one of them pinning; or one
with three modules of which two share a basename; or one with `binder: vm` on a row of
either backend and a zip of the user's inside `modules/`; two faults.
*Builds*: two sources, two processes, four builds, a fault and a kill; every host and
override, two versions and revisions, two builds, a fault and a kill.
*Module*: a batch of a good, a refused, a mismatching and another good module, three
changes of the link, two failures; documents of every version with an edit, one command
after another; or two commands at once with an edit and a kill at any step, the one
between a truncation and its write included.
Deadlock checking is off in every run: a behaviour ends when its calls are used up.

Fairness.  Each specification with a liveness property has weak fairness of each
command's own next step: a running command is scheduled, and `flock` returns once the
lock is free.  Nothing is assumed about starting commands, faults, edits or the order
in which a lock is handed over; since calls are bounded no waiter is overtaken for
ever.  Waits of the code end by their own timeouts, which are steps of the command:
`wait_for_boot`, the dockerd poll, adb calls (`Returns`), the escalation of terminate.
That each external tool returns is assumed where the code sets no timeout: docker
compose, git, make, mke2fs and a single `docker info` of the dockerd poll.
Two runs assume more, and say so in their property: `RetriesSucceed` assumes that the
user repeats a failed apply (faults are bounded, so the network recovers), and
`VerdictsTrue` that the user follows the printed remedies on a host that otherwise
stays as it is.

Every property has a mutant, a plausible slip in the code (defined next to the
definition it replaces, named `Bug...`), that TLC rejects; a property that joins
several statements has one for each.

## 4. Proofs

Every safety property that a passing run checks is a theorem, for every value of the
constants that satisfies the named assumptions: any sets of names and processes, any
number of calls, faults, edits and kills.  Theorems about `Spec` speak of every
interleaving; theorems about `SceneSpec` of the behaviours of an `MC` module without
its numeric bounds, because the property needs the scene (section 6 has what happens
outside it).

* `RegistryProofs` (`RowsAssumption`, `RegistryAssumption`: the cap and the bounds
  are naturals; the initial files parse to tables with unique indices and have the
  types of files).  The inductive invariant `IInv` adds to `TypeOK` that a process past
  its start has a call (`CallInv`), that only the holder of the exclusive lock is
  inside the critical section and no reader is with it (`LockInv`), that the table a
  writer holds was computed from the file as it still is (`MemoryInv`), and that each
  disk outcome is a table with unique indices (`DiskInv`).  Uniqueness alone is not
  inductive: without `MemoryInv` a writer could hold a table computed from an older
  file.  `SyncInv` (the tmp file is on disk before the rename) is what `Durability`
  needs.  `QuarantineInv` adds that only a current file has rows, and that a process
  about to read a file that is gone has a quarantined, unreadable current file beside
  it; the two action properties follow from it.  Theorems: `Typing`,
  `IndexUniqueness`, `Durability`, `Refinement`, `RowsOnlyMoved` (`RowsKept`),
  `CrashesExplained` (`NeverCrashes`).
* `HostProofs` (`HostAssumption` of `MCHost`: what `Ports`, `Fleet` and `HostPlan` each
  ask of their constants).  *Ports*: the invariant gives each resolved entry
  its formula (base plus stride, or pool plus slot below `extra`); disjointness of bands
  is then arithmetic from the cap.  Theorems: `PortsTyping`, `LowestFreeTheorem`,
  `BandsTheorem`, `PinsTheorem` (only pinned hosts of a list collide with each other).
  *Fleet*: `WalkInv` says for each pass where a row that nobody
  touched is (still to visit, kept, acted on, shown or an orphan); `WalksAlwaysExact`.
  *HostPlan*: `HostInv` says that what was said is what the host
  as it is would give (`SaidNow`) and that plan and outcome agree with the host while it
  is the one of the preflight (`DoneNow`); the verdicts are then compared case by case.
  Theorems: `SupportedAlwaysStarts`, `DoctorAlwaysPredicts`, and `UnsupportedIsFinal`,
  the safety half of `VerdictsTrue`, from `KernelTrue` (a config that can be read is the
  kernel's).
* `ProvisionProofs` (`ProvisionAssumption`).  `PInv` says that a fresh process still
  has the row and yaml it checked on disk, that an applied instance's override is
  what its yaml and row resolve to, and that the claims of any two instances that
  are applied or freshly checked are disjoint.  The key step is `Check`: row and yaml
  precede it, so of two rivals the later one to check sees the earlier.  For commands
  one after another, `OneInv` adds how far a call has got (`Standing`): between its look
  at the directories and its last step its directory is clear of all rows, or its own
  row has it.  Theorems: `Typing`, `PortsTheorem`, `NeverNested`, `RowsHaveDirs`.
* `LifecycleProofs` (`LifecycleAssumption`).  `BoxInv`: a running container of a
  registered instance mounts the `data/` that is there.  It needs what each step may
  count on (`Path`, `Sound`: nobody wipes below a running container, an override
  precedes the start, and a destroy past its down by the redroid backend finds no
container) and, for commands at once, that all holders and waiters mean one
  inode and an exclusive holder is alone (`LockInv`), which is what keeps a snapshot on
  one `data/`.  Theorems, of `SceneSpec`: `DataKept`, `PortsAlways`, `TrueOutcomes`,
  `StableSnapshots`.
* `VmProofs` (`VmAssumption`).  `SignalsOwn`: no command signals a process that is not
  a QEMU of its instance, unless it looks without knowing the port (the teardown of an
  instance whose yaml is gone).  The invariant adds that a QEMU whose command line has
  a port of this instance is its own (`HostOwned`) and that a command's port is one its
  config gave it, or none (`PortsKnown`); the identity test before each signal then
  gives the rest, for any number of recycled pids.  Of `SceneSpec`:
  `CheckpointsBooted`, since two QEMUs never share an adb port (`PortsApart`) and the
  monitor of a command that waits is that of its own guest (`MonitorInv`); `DownsStop`, of a
  down that the vm backend carried out,
  since the pidfile names the one QEMU of the instance except between Popen and the
  write (`DownInv`); `WarmResumesTrue`, since the sidecar names the base of what is on
  the overlay, or one of artifacts that were since replaced (`Tied`, `DiskInv`), and in
  a race without rebuilds there is one base (`RaceInv`).
* `ArtifactsProofs` (`ArtifactsAssumption`; `SharingAssumption` where marked).
  `CachesWhole` holds for every interleaving: a temp file is whole wherever a cut is
  noticed (`JobOK`).  `LosesNothing` speaks of the user's files outside `modules/` and,
  with one command at a time on an instance, of the staged server, which the placeholder
  replaces only where none was seen.  `AppliesComplete`, with one command at a time on
  an instance (`SharingAssumption`): `Progress` says which modules of the list lie in the
  instance and that the name picked for the next is free; that `DestName` finds a free
  name is a lemma from the finiteness of the used ones.  `PinsHonoured` (`SceneSpec`,
  sharers pin alike): between the digest and the copy the cache entry stays what the pin
  names, or goes, because whoever else touches it publishes the same content (`Held`).
* `ImageBuildProofs` (`ImageBuildAssumption`, `VmBuildsAssumption`).  `CloneTheorem`,
  from `OwnTree` and `Downloads`: the invariant says that whoever is between match and
  patcher is the lock's holder (`LockInv`), that the tree is then the one it matched or
  cloned (`TreeInv`), and that downloads lie only in a whole clone (`CacheInv`).  A kill
  frees the lock with the tree as it is, which is why wholeness is claimed only of a
  build that did not take over a clone half made.  Of `VmBuild`, in the scenes of
  `MCBuilds`: `BakesSound` and the marker half of `MarkersAlwaysTrue` for builds at once
  (`Equipped`: what the check found is still there at the step that needs it);
  `BuildsAsAsked` and the other half for builds one after another (`SerialInv`: what each
  step has already produced, that the last build's results stay, and that the marker
  names the version of the image unless `torn`).
* `AdbBatchProofs` (`AdbBatchAssumption`, `CommandsAssumption`).  `Reports`, from
  `RowsAddUp` and `GivesUpOnLost`: the invariant ties the number of rows to the position
  and the step (`Progress`), and a link that is away to a batch that will have seen it
  (`Watched`), for batches of any length and any number of faults.  `DeviceAsReported`,
  for a single batch (`OneBatch`, a hypothesis of the theorem): the zip at the fixed name
  is the one just pushed (`Placed`).  Of `ConfigFile`, in the scenes of `MCModule`:
  `RewritesAlwaysSafe` for commands at once with kills (`MixInv`: what is loaded, and the
  file at every step of a rewrite, is the user's document but for its modules, or blank),
  `PinsAlwaysKept` for one command after another (`PinsInv`: what is loaded, and the file
  when it is not being rewritten, names the hosts the user asked for).

Only model-checked: liveness, which rests on fairness and is outside the prover
(`CallsReturn`, `CommandsEnd`, `RetriesSucceed`, `AllBuildsEnd`, `BatchEnds`, and the
`RemediesLead` half of `VerdictsTrue`); and the violation runs, which are
counterexamples.

## 5. Not modelled, and the plan

Not modelled for good: `settings.py`, `paths.py`, `console.py`, argument parsing,
prompts, tables and JSON output of `cli.py` (presentation); tar, zstd, HTTP and adb
encodings and the caps of the archive reader (library I/O); validators of a single
field (sizes, digests, ranges) and the renderers of `.env` and the override, which
look at one document and keep no state; the argument vector of QEMU and docker.

Not modelled yet:

1. the guest's boot scripts (`docker/*.sh`, `templates/vm/guest-init.sh`): the
   flash-once marker and its retries;
2. the single `add_module` and `install_frida` of an adopted device (one push each);
3. the owner of a row and of a directory in `Provision`, to state what a rollback may
   remove after a lost race;
4. `VmBuild` and `Vm` over one rootfs (a bake writes it in place);
5. proofs: the type invariants of `Lifecycle`, `Vm` and `Artifacts` as theorems of their
   own `Spec` (they are proved inside the inductive invariants), and refinements of an
   abstract specification for the flock of `Lifecycle` and for the clone's lock.

## 6. Known deviations

Three runs show where the code parts from its own documentation (`findings` of
`PROJECT.json`).  The modules state further promises of comments, docstrings and
reference pages that TLC refutes; the passing runs leave these cases out, by the form
of the property, a scene or a constant.  The table lists the cases met so far; a property
that holds in a scene says nothing of what lies outside it.  To see one, check the
definition on its module (or its `MC` module) with the constants given.

| Definition | Promise | What happens | Seen with |
|---|---|---|---|
| `Registry.RowsKept` | "a row is never silently dropped (#252)" (`registry.py:24`) | a row that is not an object is skipped and the next write leaves it out | `RowsKept` without its exception for `nodict` |
| `Registry.NeverCrashes` | "rather than crashing an innocuous read command" (`registry.py:416-418`) | a reader quarantines a v3 file with an unsalvageable row under the shared lock, another is between `exists()` and `read_text()` | `CrashExplained` without its last disjunct, two readers of a v3 file with a `broken` row |
| `Provision.NoOverlap` | "Refuse a target that nests inside (or contains) a registered peer's directory" (`api.py:627-629`) | the check precedes and is outside the registration | two creates at once in one directory |
| `Provision.NoDebris` | "so a failed create doesn't leave debris behind" (`api.py:638-640`) | `add_allocating` runs before the rollback block | two creates of one name at once |
| `Provision.NoDoublePublish` | "closing the TOCTOU window" (`registry.py:1000-1003`) | the loser of a same-name race has overwritten the winner's yaml, from which siblings' claims are read | three creates, two of one name |
| `Lifecycle.SnapshotWhole` | "a destroy race would rmtree the directory mid-read and produce a torn archive" is prevented (`snapshot.py:198-203`) | a snapshot that waited gets the lock of a deleted inode | `Verbs = {destroy, snapshot}`, two processes |
| `Lifecycle.LockExcludes` | the lock file is "never deleted" (`api.py:1522-1523`) | destroy removes it while it holds it | the same, three processes |
| `Lifecycle.DestroyClearsRow` | "just clear the registry row" (`api.py:1119-1121`) | compose fails in the vanished directory first | `Verbs = {destroy}`, `UserActs = {rmTree}` |
| `Lifecycle.AnyDestroyStops` | "Stop and permanently delete an instance" (`cli.py:775`) | the directory is gone while the container runs: only the row is removed, and the container keeps its ports | `Verbs = {up, destroy}`, `UserActs = {rmTree}` |
| `Lifecycle.AnyDestroyStops` | the same (`backends/vm.py:983`: "Terminate the micro-VM and permanently delete the instance directory") | up, edit to `binder: vm`, apply: the row now names the vm backend, whose destroy never stops the container | `Verbs = {up, apply, destroy}`, `UserActs = {editBinder}` |
| `Vm.AnyDownStops` | "`down` never leaves a runaway emulator behind" (`vm/qemu.py:555-556`) | up, edit to `binder: host`, apply: the row now names redroid, whose down never looks at the pidfile | scene `down` of `MCVm` |
| `Vm.DownStops` | "never leaves a runaway emulator behind" (`vm/qemu.py:555-556`) | after an edit of the adb port the VM is not recognised | an edit of the port between up and down |
| `Vm.WarmMatches` | "a geometry change must invalidate the checkpoint" (`vm/boot_cache.py:156`) | between the comparison of one up and its launch another, with the edited geometry, replaces the overlay and saves a snapshot | two ups at once, an edit of the geometry |
| `Vm.TrueMeansSaved` | "`True` if `savevm` completed" (`vm/boot_cache.py:385`) | an ended socket is a reply without an error | one up, QEMU exits during savevm |
| `Vm.ApplyReconciles` | "Mirrors `Instance.apply`" (`backends/vm.py:937`) | the network stage precedes the reconcile | an edit of the binder, apply |
| `HostPlan.UnsupportedKvmStays` | "no setup step would help" (`capabilities.py:77`) | joining the kvm group does | `HostActs = {kvmGroup}` |
| `HostPlan.VmFailuresForetold` | "Run the aggregated health checks for an instance." (`cli.py:1252`) | under `boot_cache` an up needs `qemu-img`, which no row looks for; an up of a machine that runs is refused although every row is green; a missing adb is a `skip` row, not a `fail` | an instance with a boot cache, a host without `qemuImg` |
| `Fleet.AllSkipsMissing` | "Only the --all fan-out skips bad rows" (`cli.py:178-184`) | a row removed after the filter ends the walk | `Changes = {forget}` |
| `Fleet.LsSurvives` | "skipped rather than crashing `ls`" (`cli.py:964-967`) | a row that vanished is read once more to be printed | `Walks = {ls}`, `Changes = {forget}` |
| `Fleet.LsShowsBacked` | "Orphan entries are skipped with a trailing stderr advisory" (`cli.py:930-931`) | a vm row without a directory is neither | `Walks = {ls}`, `Changes = {rmYaml}` |
| `Artifacts.StagedMatchesPin` | "a `ValueError` is raised on mismatch" (`frida_download.py:245-248`) | another process publishes over the verified file before the copy | `Quiet = FALSE`, two processes, one without a pin |
| `Artifacts.StagedMatchesPin` | "verified against the downloaded binary" (`docs/reference/config.md:200`) | install_frida passes no digest | `Verbs` with `install` |
| `Artifacts.AppliedComplete` | "Materialise all module zips" (`modules_download.py:241`) | a second apply of the instance wipes what the first has staged | `InstOf` with two processes on one instance, without `SharingAssumption` |
| `Artifacts.AllFilesKept` | "the user's own source file ... deleting it would be irreversible data loss" (`modules_download.py:230-232`) | `path: modules/x.zip`: every zip in `modules/` is unlinked before the paths are resolved (`modules_download.py:257-262`) | `Inside` not empty |
| `Artifacts.FridaKept` | "leave it intact and let `_stage_network` atomically swap in the fresh one" (`api.py:1406-1407`) | an install stages the server between the check and the placeholder of an apply (`api.py:1409-1411`) | `InstOf` with two processes on one instance, without `SharingAssumption` |
| `Artifacts.ModulesWhole` | "a short read would otherwise cache a truncated zip" (`modules_download.py:147`) | a server that sends no `Content-Length`: the cut is not noticed | `WithLength` without one of `Urls` |
| `Artifacts.AddsKept` | "the module is appended" (`docs/reference/cli.md:517`) | the later of two writes drops the earlier entry | two processes, `Verbs = {add}` |
| `VmBuild.AnySkewNoticed` | "A stale marker without an image is harmless" (`builder.py:902-903`, `rootfs_download.py:396-397`) | a bake writes the marker and is killed, or mke2fs refuses before it touches the image (`builder.py:1116-1129`): the new marker is beside the previous image, and an up does not warn | `MaxFaults = 1` or `MaxKills = 1` |
| `VmBuild.CheckCoversAll` | "Report **every** host prerequisite" (`builder.py:1629`) | no row for the compiler | a host without `compiler` |
| `AdbBatch.OkMeansInstalled` | "True iff the module was pushed and installed" (`api.py:377`) | the temp zip is named by position in the batch | two batches at once |
| `ConfigFile.NoteNotContradicted` | "The migration error is the only message to show." (`config.py:1252-1253`) | `resources.shm` and `android.base_image` are not known to the note | `RemovedKeys = {shm, base_image}` |
| `ConfigFile.ApplyPersists` | "Persistence happens organically on the next `beetroot apply`" (`config.py:32-33`) | apply never writes the file | `Verbs` with `apply` |
| `ConfigFile.PinsKept` | "An integer pins the host port." (`docs/reference/config.md:256`) | a truncated file loads as defaults | `MaxKills = 1`, `Verbs` with `module` |
| `ConfigFile.InertListsAll` | "Empty list means every set field is honoured." (`config.py:1114`) | `resources` is not listed | `Fields = {resources}` |
| `ImageBuild.NeverWrongSource` | "never silently builds against the wrong source" (`builder.py:264-265`) | the layer is built outside the lock on a tag that names no source | two builds of two urls at once |
| `ImageBuild.CorruptWiped` | "a corrupted work dir" is wiped (`builder.py:333-334`) | what a killed git leaves names its url | `KillsTool = TRUE`, a kill |
