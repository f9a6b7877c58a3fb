------------------------------ MODULE Lifecycle -----------------------------
(***************************************************************************)
(* One redroid instance while it lives: up, down, restart, apply, reset,   *)
(* destroy and snapshot (src/beetroot/api.py, snapshot.py, cli.py), the    *)
(* instance lock that keeps some of them apart, and the container that     *)
(* docker compose runs for it (compose.py).                                *)
(*                                                                         *)
(* A lock is held on an inode of .beetroot.lock, a container mounts an     *)
(* inode of data/: both survive the removal of their path, which is where  *)
(* the hazards are.  How rows and ports come to be is module Provision.    *)
(***************************************************************************)
EXTENDS Integers

CONSTANTS
  Procs, Verbs,
  UserActs,     \* what a user may do by hand
  Faults,       \* TRUE when docker compose and the network may fail
  MaxInodes,    \* bound: inodes of data/ and of the lock file
  MaxCalls, MaxActs, MaxKills

ASSUME LifecycleAssumption ==
  /\ Verbs \subseteq {"up", "down", "restart", "apply", "reset", "destroy", "snapshot"}
  /\ UserActs \subseteq {"rmEnv", "rmOverride", "rmYaml", "rmTree", "editBinder"}
  /\ Faults \in BOOLEAN
  /\ MaxInodes \in Nat \ {0} /\ MaxCalls \in Nat /\ MaxActs \in Nat /\ MaxKills \in Nat

VARIABLES
  row,      \* backend kind of the registry row, or "none"
  root,     \* the instance directory exists
  yaml,     \* beetroot.yaml: {} or {its binder}
  env,      \* .env exists
  over,     \* compose.override.yaml exists
  data,     \* inode of data/, 0 when absent
  lock,     \* inode of .beetroot.lock, 0 when absent
  held,     \* the flocks: [proc, ino, ex]
  box,      \* the container: [up, mount, ports]; mount 0: a data/ the user deleted
  pc, verb,
  cfg,      \* binder of the config the process loaded
  via,      \* who carries out its call: a backend, or "gone": just the row goes
  fd,       \* inode its lock file descriptor refers to
  err,      \* how its call went
  pack,     \* what its snapshot read: [yaml, first, last]
  inodes, calls, acts, kills

disk  == <<row, root, yaml, env, over, data, lock>>
local == <<verb, cfg, via, fd, err, pack>>
count == <<inodes, calls, acts, kills>>
vars  == <<disk, held, box, pc, local, count>>

NoPack == [yaml |-> FALSE, first |-> 0, last |-> 0]
Off    == [up |-> FALSE, mount |-> 0, ports |-> FALSE]

\* A freshly created instance: staged, never started.
Init ==
  /\ row = "redroid" /\ root = TRUE /\ yaml = {"auto"} /\ env = TRUE /\ over = TRUE
  /\ data = 1 /\ lock = 0 /\ held = {} /\ box = Off
  /\ pc = [p \in Procs |-> "idle"] /\ verb = [p \in Procs |-> "none"]
  /\ cfg = [p \in Procs |-> "auto"] /\ via = [p \in Procs |-> "none"]
  /\ fd = [p \in Procs |-> 0]
  /\ err = [p \in Procs |-> "none"] /\ pack = [p \in Procs |-> NoPack]
  /\ inodes = 1 /\ calls = 0 /\ acts = 0 /\ kills = 0

Set(f, x, v)    == f' = [f EXCEPT ![x] = v]
Go(p, step)     == Set(pc, p, step) /\ UNCHANGED err
Return(p, how)  == Set(pc, p, "idle") /\ Set(err, p, how)
Leave(p, how)   == Set(pc, p, "unlock") /\ Set(err, p, how)
Raise(p, how)   == IF verb[p] \in {"reset", "destroy"} THEN Leave(p, how) ELSE Return(p, how)
KindOf(binder)  == IF binder = "vm" THEN "vm" ELSE "redroid"

-----------------------------------------------------------------------------
(* A command resolves the instance.                                        *)

Start(p) ==
  /\ pc[p] = "idle" /\ calls < MaxCalls
  /\ \E v \in Verbs : Set(verb, p, v)
  /\ Set(pc, p, "load") /\ Set(err, p, "none") /\ Set(pack, p, NoPack)
  /\ Set(via, p, "none") /\ calls' = calls + 1
  /\ UNCHANGED <<disk, held, box, cfg, fd, inodes, acts, kills>>

FirstStep(p) ==
  CASE verb[p] = "up"                  -> "heal"
    [] verb[p] \in {"down", "restart"} -> "down"
    [] verb[p] = "apply"               -> "reload"
    [] verb[p] = "destroy" /\ ~root    -> "down"
    [] OTHER                           -> "open"

\* Manager.resolve and Instance.from_meta; up refuses a config that wants the
\* vm backend.
Load(p) ==
  /\ pc[p] = "load" /\ row = "redroid"
  /\ \E b \in yaml :
       /\ Set(cfg, p, b) /\ Set(via, p, "redroid")
       /\ IF verb[p] = "up" /\ b = "vm" THEN Return(p, "refused") ELSE Go(p, FirstStep(p))
  /\ UNCHANGED <<disk, held, box, verb, fd, pack, count>>

\* The same of a row that an apply has flipped: VmDeviceBackend, whose up, down
\* and restart are about its QEMU alone, and which can neither be reset nor
\* snapshotted.
LoadVm(p) ==
  /\ pc[p] = "load" /\ row = "vm"
  /\ \E b \in yaml : Set(cfg, p, b)
  /\ Set(via, p, "vm")
  /\ CASE verb[p] = "apply"                -> Go(p, "reload")
       [] verb[p] = "destroy"              -> Go(p, "remove")
       [] verb[p] \in {"reset", "snapshot"} -> Return(p, "refused")
       [] OTHER                            -> Return(p, "ok") \/ Return(p, "refused")
  /\ UNCHANGED <<disk, held, box, verb, fd, pack, count>>

\* No row, or one whose beetroot.yaml is gone.
LoadFails(p) ==
  /\ pc[p] = "load" /\ (row = "none" \/ (yaml = {} /\ verb[p] # "destroy"))
  /\ Return(p, "refused")
  /\ UNCHANGED <<disk, held, box, verb, cfg, via, fd, pack, count>>

\* destroy of a row whose beetroot.yaml is gone takes no lock.  Without the
\* directory only the row is removed, and the user is told so.
LoadOrphan(p) ==
  /\ pc[p] = "load" /\ row # "none" /\ yaml = {} /\ verb[p] = "destroy"
  /\ Set(via, p, IF root THEN row ELSE "gone") /\ Set(fd, p, 0)
  /\ Go(p, IF root /\ row = "redroid" THEN "down" ELSE "remove")
  /\ UNCHANGED <<disk, held, box, verb, cfg, pack, count>>

-----------------------------------------------------------------------------
(* instance_lock.                                                          *)

\* The directory and the lock file are made if they are missing.
Open(p) ==
  /\ pc[p] = "open" /\ Go(p, "flock") /\ root' = TRUE
  /\ \/ lock # 0 /\ Set(fd, p, lock) /\ UNCHANGED <<lock, inodes>>
     \/ /\ lock = 0 /\ inodes < MaxInodes /\ inodes' = inodes + 1
        /\ lock' = inodes + 1 /\ Set(fd, p, inodes + 1)
  /\ UNCHANGED <<row, yaml, env, over, data, held, box, verb, cfg, via, pack, calls, acts, kills>>

\* snapshot shares the lock, destroy and reset hold it alone.
Exclusive(p) == verb[p] # "snapshot"

Flock(p) ==
  /\ pc[p] = "flock"
  /\ \A h \in held : h.ino = fd[p] => ~Exclusive(p) /\ ~h.ex
  /\ held' = held \cup {[proc |-> p, ino |-> fd[p], ex |-> Exclusive(p)]}
  /\ Go(p, IF verb[p] = "snapshot" THEN "pack" ELSE "down")
  /\ UNCHANGED <<disk, box, verb, cfg, via, fd, pack, count>>

\* Mutant: the lock is released only when the body succeeded.
BugUnlock(p) ==
  /\ pc[p] = "unlock" /\ Go(p, "idle")
  /\ held' = {h \in held : h.proc # p \/ err[p] # "ok"}
  /\ UNCHANGED <<disk, box, verb, cfg, via, fd, pack, count>>

Unlock(p) ==
  /\ pc[p] = "unlock" /\ Go(p, "idle")
  /\ held' = {h \in held : h.proc # p}
  /\ UNCHANGED <<disk, box, verb, cfg, via, fd, pack, count>>

-----------------------------------------------------------------------------
(* The container.                                                          *)

\* compose.run needs its working directory and the .env it always names; a
\* missing directory is an OSError, everything else a ComposeError.
ComposeRuns   == root /\ env
ComposeErrors == root /\ (~env \/ Faults)

\* Mutant: reset wipes although the container could not be stopped.
BugDown(p) ==
  /\ pc[p] = "down"
  /\ LET next == CASE verb[p] = "restart" -> "heal" [] verb[p] = "reset" -> "wipe"
                   [] verb[p] = "destroy" -> "remove" [] OTHER -> "idle"
     IN \/ ComposeRuns /\ box' = Off /\ Go(p, next)
        \/ ComposeErrors /\ UNCHANGED box /\ Go(p, next)
        \/ ~root /\ UNCHANGED box /\ Raise(p, "oserror")
  /\ UNCHANGED <<disk, held, verb, cfg, via, fd, pack, count>>

\* compose.down, and what the caller does with its failure: reset stops, destroy
\* goes on and raises at its end.
Down(p) ==
  /\ pc[p] = "down"
  /\ LET next == CASE verb[p] = "restart" -> "heal" [] verb[p] = "reset" -> "wipe"
                   [] verb[p] = "destroy" -> "remove" [] OTHER -> "idle"
     IN \/ ComposeRuns /\ box' = Off /\ Go(p, next)
        \/ /\ ComposeErrors /\ UNCHANGED box
           /\ CASE verb[p] = "destroy" -> Set(pc, p, "remove") /\ Set(err, p, "compose")
                [] OTHER               -> Raise(p, "compose")
        \/ ~root /\ UNCHANGED box /\ Raise(p, "oserror")
  /\ UNCHANGED <<disk, held, verb, cfg, via, fd, pack, count>>

\* Mutant: only a missing .env is healed.
BugHeal(p) ==
  /\ pc[p] = "heal"
  /\ IF env THEN Go(p, "compose") ELSE Go(p, "stage")
  /\ UNCHANGED <<disk, held, box, verb, cfg, via, fd, pack, count>>

\* up: a missing override or .env is staged again, unless the ports collide.
Heal(p) ==
  /\ pc[p] = "heal"
  /\ IF over /\ env THEN Go(p, "compose") ELSE Go(p, "stage") \/ Return(p, "refused")
  /\ UNCHANGED <<disk, held, box, verb, cfg, via, fd, pack, count>>

\* _stage_local: the directories, .env and the override; needs the row, unless
\* it is VmDeviceBackend's _stage, which fetches the modules right after.
StageLocal(p) ==
  /\ pc[p] = "stage"
  /\ \/ /\ row = "none" /\ via[p] = "redroid"
        /\ Return(p, "gone") /\ UNCHANGED <<root, env, over, data, inodes>>
     \/ /\ row # "none" \/ via[p] = "vm"
        /\ data # 0 \/ inodes < MaxInodes
        /\ root' = TRUE /\ env' = TRUE /\ over' = TRUE
        /\ data' = (IF data = 0 THEN inodes + 1 ELSE data)
        /\ inodes' = (IF data = 0 THEN inodes + 1 ELSE inodes)
        /\ Go(p, IF verb[p] # "apply" THEN "compose"
                 ELSE IF via[p] = "vm" THEN "network" ELSE "reconcile")
  /\ UNCHANGED <<row, yaml, lock, held, box, verb, cfg, via, fd, pack, calls, acts, kills>>

\* compose.up: a container that runs with the same override is left alone;
\* docker makes a data/ that is missing.
ComposeUp(p) ==
  /\ pc[p] = "compose"
  /\ \/ /\ ComposeRuns /\ (data # 0 \/ inodes < MaxInodes) /\ Return(p, "ok")
        /\ data' = (IF data = 0 THEN inodes + 1 ELSE data)
        /\ inodes' = (IF data = 0 THEN inodes + 1 ELSE inodes)
        /\ box' = IF box.up /\ box.ports = over THEN box
                  ELSE [up |-> TRUE, mount |-> data', ports |-> over]
     \/ ComposeErrors /\ Return(p, "compose") /\ UNCHANGED <<data, inodes, box>>
     \/ ~root /\ Return(p, "oserror") /\ UNCHANGED <<data, inodes, box>>
  /\ UNCHANGED <<row, root, yaml, env, over, lock, held, verb, cfg, via, fd, pack,
                 calls, acts, kills>>

-----------------------------------------------------------------------------
(* apply, reset, destroy, snapshot.                                        *)

\* apply loads beetroot.yaml once more, and refuses ports that collide.
Reload(p) ==
  /\ pc[p] = "reload"
  /\ \/ /\ \E b \in yaml : Set(cfg, p, b)
        /\ Go(p, "stage") \/ Return(p, "refused")
     \/ yaml = {} /\ Return(p, "oserror") /\ UNCHANGED cfg
  /\ UNCHANGED <<disk, held, box, verb, via, fd, pack, count>>

\* Mutant: the row is reconciled only after the network stage.
BugReconcile(p) ==
  /\ pc[p] = "reconcile"
  /\ \/ /\ row' = (IF row = "none" THEN row ELSE KindOf(cfg[p]))
        /\ IF via[p] = "vm" THEN Return(p, "ok") ELSE Go(p, "network")
     \/ Faults /\ Return(p, "network") /\ UNCHANGED row
  /\ UNCHANGED <<root, yaml, env, over, data, lock, held, box, verb, cfg, via, fd, pack, count>>

\* reconcile_backend_kind: before the network stage, of the vm backend after it.
Reconcile(p) ==
  /\ pc[p] = "reconcile"
  /\ IF via[p] = "vm" THEN Return(p, "ok") ELSE Go(p, "network")
  /\ row' = IF row = "none" THEN row ELSE KindOf(cfg[p])
  /\ UNCHANGED <<root, yaml, env, over, data, lock, held, box, verb, cfg, via, fd, pack, count>>

StageNetwork(p) ==
  /\ pc[p] = "network"
  /\ \/ IF via[p] = "vm" THEN Go(p, "reconcile") ELSE Return(p, "ok")
     \/ Faults /\ Return(p, "network")
  /\ UNCHANGED <<disk, held, box, verb, cfg, via, fd, pack, count>>

\* reset: rmtree(data) and mkdir, two steps.
Wipe(p) ==
  /\ pc[p] = "wipe" /\ data' = 0 /\ Go(p, "mkdata")
  /\ UNCHANGED <<row, root, yaml, env, over, lock, held, box, verb, cfg, via, fd, pack, count>>

MakeData(p) ==
  /\ pc[p] = "mkdata" /\ (data # 0 \/ inodes < MaxInodes) /\ Leave(p, "ok")
  /\ root' = TRUE
  /\ data' = (IF data = 0 THEN inodes + 1 ELSE data)
  /\ inodes' = (IF data = 0 THEN inodes + 1 ELSE inodes)
  /\ UNCHANGED <<row, yaml, env, over, lock, held, box, verb, cfg, via, fd, pack,
                 calls, acts, kills>>

\* destroy: the row first, then the directory, whose files go one by one.
RemoveRow(p) ==
  /\ pc[p] = "remove" /\ row' = "none" /\ Go(p, "rmtree")
  /\ UNCHANGED <<root, yaml, env, over, data, lock, held, box, verb, cfg, via, fd, pack, count>>

RmtreeSome(p) ==
  /\ pc[p] = "rmtree" /\ root /\ Go(p, "rmrest")
  /\ \E y \in {yaml, {}}, d \in {data, 0} : yaml' = y /\ data' = d
  /\ UNCHANGED <<row, root, env, over, lock, held, box, verb, cfg, via, fd, pack, count>>

\* Mutant: the failure of compose.down is not raised again.
BugRmtreeRest(p) ==
  /\ pc[p] \in {"rmtree", "rmrest"} /\ (pc[p] = "rmtree" => ~root) /\ Leave(p, "ok")
  /\ root' = FALSE /\ yaml' = {} /\ env' = FALSE /\ over' = FALSE /\ data' = 0 /\ lock' = 0
  /\ UNCHANGED <<row, held, box, verb, cfg, via, fd, pack, count>>

RmtreeRest(p) ==
  /\ pc[p] \in {"rmtree", "rmrest"} /\ (pc[p] = "rmtree" => ~root)
  /\ Leave(p, IF err[p] = "compose" THEN "compose" ELSE "ok")
  /\ root' = FALSE /\ yaml' = {} /\ env' = FALSE /\ over' = FALSE /\ data' = 0 /\ lock' = 0
  /\ UNCHANGED <<row, held, box, verb, cfg, via, fd, pack, count>>

\* Mutant: the lock is given back once the archive has been begun.
BugPack(p) ==
  /\ pc[p] = "pack"
  /\ \/ /\ root /\ Go(p, "packRest")
        /\ Set(pack, p, [yaml |-> yaml # {}, first |-> data, last |-> data])
     \/ ~root /\ Leave(p, "oserror") /\ UNCHANGED pack
  /\ held' = {h \in held : h.proc # p}
  /\ UNCHANGED <<disk, box, verb, cfg, via, fd, count>>

\* _add_instance_tree: beetroot.yaml and the first of data/, later the rest.
Pack(p) ==
  /\ pc[p] = "pack"
  /\ \/ /\ root /\ Go(p, "packRest")
        /\ Set(pack, p, [yaml |-> yaml # {}, first |-> data, last |-> data])
     \/ ~root /\ Leave(p, "oserror") /\ UNCHANGED pack
  /\ UNCHANGED <<disk, held, box, verb, cfg, via, fd, count>>

PackRest(p) ==
  /\ pc[p] = "packRest" /\ Leave(p, "ok")
  /\ pack' = [pack EXCEPT ![p].last = data]
  /\ UNCHANGED <<disk, held, box, verb, cfg, via, fd, count>>

-----------------------------------------------------------------------------
(* The world.                                                              *)

\* What a user does by hand, but not while an up is between its look at the
\* files and docker's.
UserAct ==
  /\ acts < MaxActs /\ acts' = acts + 1 /\ root
  /\ \A p \in Procs : pc[p] # "compose"
  /\ \E a \in UserActs :
       /\ yaml' = CASE a = "editBinder"          -> IF yaml = {"vm"} THEN {"auto"} ELSE {"vm"}
                    [] a \in {"rmYaml", "rmTree"} -> {}
                    [] OTHER                      -> yaml
       /\ env'  = (env /\ a \notin {"rmEnv", "rmTree"})
       /\ over' = (over /\ a \notin {"rmOverride", "rmTree"})
       /\ data' = (IF a = "rmTree" THEN 0 ELSE data)
       /\ lock' = (IF a = "rmTree" THEN 0 ELSE lock)
       /\ root' = (a # "rmTree")
       /\ box'  = (IF a = "rmTree" THEN [box EXCEPT !.mount = 0] ELSE box)
  /\ UNCHANGED <<row, held, pc, local, inodes, calls, kills>>

\* The container stops by itself.
Crash ==
  /\ box.up /\ box' = Off
  /\ UNCHANGED <<disk, held, pc, local, count>>

\* The kernel drops the flocks of a command that is killed.
Kill(p) ==
  /\ pc[p] # "idle" /\ kills < MaxKills /\ kills' = kills + 1
  /\ Return(p, "killed") /\ held' = {h \in held : h.proc # p}
  /\ UNCHANGED <<disk, box, verb, cfg, via, fd, pack, inodes, calls, acts>>

Step(p) ==
  \/ Load(p) \/ LoadVm(p) \/ LoadFails(p) \/ LoadOrphan(p) \/ Open(p) \/ Flock(p) \/ Unlock(p)
  \/ Down(p) \/ Heal(p) \/ StageLocal(p) \/ ComposeUp(p) \/ Reload(p) \/ Reconcile(p)
  \/ StageNetwork(p) \/ Wipe(p) \/ MakeData(p) \/ RemoveRow(p) \/ RmtreeSome(p) \/ RmtreeRest(p) \/ Pack(p) \/ PackRest(p)

Next ==
  \/ \E p \in Procs : Start(p) \/ Step(p) \/ Kill(p)
  \/ UserAct \/ Crash

\* A command that can go on does: only flock waits for another command.
Spec == Init /\ [][Next]_vars /\ \A p \in Procs : WF_vars(Step(p))

-----------------------------------------------------------------------------
(* Properties.                                                             *)

\* The files, the lock table and the commands have their types; a flock is only
\* ever held on an inode that was made.
TypeOK ==
  /\ row \in {"redroid", "vm", "none"} /\ root \in BOOLEAN /\ yaml \subseteq {"auto", "vm"}
  /\ env \in BOOLEAN /\ over \in BOOLEAN
  /\ data \in 0..inodes /\ lock \in 0..inodes /\ inodes \in 0..MaxInodes
  /\ held \subseteq [proc : Procs, ino : 0..inodes, ex : BOOLEAN]
  /\ box \in [up : BOOLEAN, mount : 0..inodes, ports : BOOLEAN]
  /\ pc \in [Procs -> {"idle", "load", "open", "flock", "unlock", "down", "heal", "stage",
                       "compose", "reload", "reconcile", "network", "wipe", "mkdata", "remove",
                       "rmtree", "rmrest", "pack", "packRest"}]
  /\ verb \in [Procs -> Verbs \cup {"none"}] /\ cfg \in [Procs -> {"auto", "vm"}]
  /\ via \in [Procs -> {"none", "redroid", "vm", "gone"}]
  /\ fd \in [Procs -> 0..inodes] /\ pack \in [Procs -> [yaml : BOOLEAN, first : Nat, last : Nat]]
  /\ err \in [Procs -> {"none", "ok", "refused", "compose", "oserror", "gone", "network",
                        "killed"}]
  /\ calls \in 0..MaxCalls /\ acts \in 0..MaxActs /\ kills \in 0..MaxKills

\* While the instance is registered, its running container sees the data/ that
\* is on disk, unless the user deleted it: reset never wipes it under a running
\* container.
LiveDataKept == box.up /\ row # "none" => box.mount \in {0, data}

\* A container that runs publishes its ports: up never starts one without the
\* override it stages.
PortsPublished == box.up => box.ports

\* The redroid backend's destroy, or the clean-up of an instance without its
\* beetroot.yaml, that told of no failure has stopped the container.
DestroyStops ==
  \A p \in Procs : verb[p] = "destroy" /\ via[p] = "redroid" /\ err[p] = "ok" => ~box.up

\* Whatever destroy it was: not so once an apply has flipped the row, or the
\* directory is gone (README, section 6).
AnyDestroyStops == \A p \in Procs : verb[p] = "destroy" /\ err[p] = "ok" => ~box.up

\* An apply of the redroid backend that failed only on the network has moved
\* the row to the backend its config asks for.
ApplyReconciles ==
  \A p \in Procs : via[p] = "redroid" /\ err[p] = "network" => row \in {"none", KindOf(cfg[p])}

\* How a command of the redroid backend says it ended is how the instance is,
\* whatever the user did to its files meanwhile: a destroy without a complaint
\* has stopped the container, and an apply that failed only on the network has
\* reconciled the row.
OutcomesTrue == TypeOK /\ DestroyStops /\ ApplyReconciles

\* Past its flock and before its unlock.
Inside(p) == \E h \in held : h.proc = p

\* The instance lock excludes: while reset or destroy is inside, nobody else is.
LockExcludes ==
  \A p, q \in Procs :
    p # q /\ Inside(p) /\ Inside(q) => verb[p] = "snapshot" /\ verb[q] = "snapshot"

\* The data/ a snapshot packed is one data/, from its first entry to its last.
SnapshotStable == \A p \in Procs : err[p] = "ok" => pack[p].first = pack[p].last

\* An archive a snapshot returned holds the instance's beetroot.yaml.
SnapshotWhole == \A p \in Procs : verb[p] = "snapshot" /\ err[p] = "ok" => pack[p].yaml

\* A destroy that ended, with or without an error of compose, has removed the row.
DestroyClearsRow ==
  \A p \in Procs : verb[p] = "destroy" /\ err[p] \in {"ok", "compose", "oserror"} => row = "none"

\* Every command ends: nobody waits for the lock forever.
CommandsEnd == \A p \in Procs : pc[p] # "idle" ~> pc[p] = "idle"
=============================================================================
