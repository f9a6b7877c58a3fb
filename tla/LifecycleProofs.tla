--------------------------- MODULE LifecycleProofs --------------------------
(***************************************************************************)
(* Proofs about Lifecycle, for any number of commands, calls, user acts    *)
(* and kills, under the scenes of MCLifecycle: one command at a time with  *)
(* the user at work beside it, or resets and snapshots at the same time.   *)
(***************************************************************************)
EXTENDS MCLifecycle, TLAPS

\* The process that runs the commands of the serial scene.
One == CHOOSE p \in Procs : TRUE

-----------------------------------------------------------------------------
(* The inductive invariant.                                                *)

\* In the serial scene every other process is idle; in the other one nobody
\* starts the container or takes the instance away.
SceneInv ==
  /\ serial => \A q \in Procs : q # One => pc[q] = "idle" /\ verb[q] = "none" /\ err[q] = "none"
  /\ ~serial => ~box.up /\ \A p \in Procs : verb[p] \in {"reset", "snapshot", "none"}

\* Where a command is tells which verb it carries out.
Path(p) ==
  /\ pc[p] # "idle" => verb[p] \in Verbs
  /\ pc[p] \in {"heal", "compose"} => verb[p] \in {"up", "restart"}
  /\ pc[p] = "stage" => verb[p] \in {"up", "restart", "apply"}
  /\ pc[p] \in {"reload", "reconcile", "network"} => verb[p] = "apply"
  /\ pc[p] = "down" => verb[p] \in {"down", "restart", "reset", "destroy"}
  /\ pc[p] \in {"wipe", "mkdata"} => verb[p] = "reset"
  /\ pc[p] \in {"remove", "rmtree", "rmrest"} => verb[p] = "destroy"
  /\ pc[p] \in {"pack", "packRest"} => verb[p] = "snapshot"
  /\ pc[p] \in {"open", "flock", "unlock"} => verb[p] \in {"reset", "destroy", "snapshot"}

PathInv == \A p \in Procs : Path(p)

\* The running container, as long as the instance is registered.
BoxInv ==
  /\ box.up => box.ports
  /\ box.up /\ row # "none" => box.mount \in {0, data}

\* A destroy past its compose.down, which went well.
Stopped(p) ==
  verb[p] = "destroy" /\ via[p] = "redroid" /\ (err[p] = "ok" \/ (pc[p] \in {"remove", "rmtree", "rmrest"} /\ err[p] # "compose"))

\* What the steps a command has taken guarantee for the ones to come.
Sound(p) ==
  /\ pc[p] = "compose" => over
  /\ pc[p] \in {"down", "heal", "stage", "compose"} /\ verb[p] \in {"up", "restart"} => row # "none" \/ ~serial
  /\ pc[p] \in {"wipe", "mkdata"} => ~box.up
  /\ pc[p] \in {"rmtree", "rmrest"} => row = "none"
  /\ Stopped(p) => ~box.up
  /\ pc[p] = "network" /\ via[p] = "redroid" => row \in {"none", KindOf(cfg[p])}
  /\ err[p] = "network" => pc[p] = "idle"
  /\ err[p] = "network" /\ via[p] = "redroid" => row \in {"none", KindOf(cfg[p])}
  /\ pc[p] \in {"load", "reload"} => err[p] = "none"
  /\ pc[p] = "packRest" => pack[p].first = data
  /\ pack[p].first = pack[p].last

SoundInv == \A p \in Procs : Sound(p)

\* The flock, while nobody removes the lock file: every holder and waiter means
\* the inode that is there, and an exclusive holder is alone.
LockInv ==
  ~serial =>
    /\ \A h \in held : h.ino = lock /\ lock # 0
    /\ \A h, k \in held : h.ex => h.proc = k.proc
    /\ \A p \in Procs :
         /\ pc[p] = "flock" => fd[p] = lock /\ lock # 0
         /\ pc[p] \in {"down", "wipe", "mkdata"} => \E h \in held : h.proc = p /\ h.ex
         /\ pc[p] \in {"pack", "packRest"} => Inside(p)

IInv == TypeOK /\ serial \in BOOLEAN /\ SceneInv /\ PathInv /\ BoxInv /\ SoundInv /\ LockInv

-----------------------------------------------------------------------------
(* Types.                                                                  *)

PCs == {"idle", "load", "open", "flock", "unlock", "down", "heal", "stage",
        "compose", "reload", "reconcile", "network", "wipe", "mkdata", "remove",
        "rmtree", "rmrest", "pack", "packRest"}
Errs == {"none", "ok", "refused", "compose", "oserror", "gone", "network", "killed"}

\* The control part of TypeOK and the rest of it.
ControlOK == pc \in [Procs -> PCs] /\ err \in [Procs -> Errs]
DiskOK ==
  /\ row \in {"redroid", "vm", "none"} /\ root \in BOOLEAN /\ yaml \subseteq {"auto", "vm"}
  /\ env \in BOOLEAN /\ over \in BOOLEAN
  /\ data \in 0..inodes /\ lock \in 0..inodes /\ inodes \in 0..MaxInodes
  /\ held \subseteq [proc : Procs, ino : 0..inodes, ex : BOOLEAN]
  /\ box \in [up : BOOLEAN, mount : 0..inodes, ports : BOOLEAN]
LocalOK ==
  /\ verb \in [Procs -> Verbs \cup {"none"}] /\ cfg \in [Procs -> {"auto", "vm"}]
  /\ via \in [Procs -> {"none", "redroid", "vm", "gone"}]
  /\ fd \in [Procs -> 0..inodes] /\ pack \in [Procs -> [yaml : BOOLEAN, first : Nat, last : Nat]]
CountOK == calls \in 0..MaxCalls /\ acts \in 0..MaxActs /\ kills \in 0..MaxKills

\* TypeOK is its parts.
LEMMA TypeParts == TypeOK <=> ControlOK /\ DiskOK /\ LocalOK /\ CountOK
BY DEF TypeOK, ControlOK, DiskOK, LocalOK, CountOK, PCs, Errs

\* Every step of a command keeps where it is, and how it went, typed.
LEMMA ControlStep ==
  ASSUME TypeOK, [SceneNext]_<<vars, serial>>
  PROVE  ControlOK'
<1>0. ControlOK
  BY TypeParts
<1> USE <1>0 DEF ControlOK, PCs, Errs, Set, Go, Return, Leave, Raise
<1>3. ASSUME NEW p \in Procs, Start(p) PROVE ControlOK'
  BY <1>3 DEF Start
<1>4. ASSUME NEW p \in Procs, Load(p) PROVE ControlOK'
  BY <1>4 DEF Load, FirstStep
<1>5. ASSUME NEW p \in Procs, LoadOrphan(p) \/ LoadVm(p) \/ LoadFails(p) \/ Open(p) \/ Flock(p) \/ Unlock(p) PROVE ControlOK'
  BY <1>5 DEF LoadOrphan, LoadVm, LoadFails, Open, Flock, Unlock
<1>2. ASSUME NEW p \in Procs, Reload(p) PROVE ControlOK'
  BY <1>2 DEF Reload
<1>6. ASSUME NEW p \in Procs, Down(p) PROVE ControlOK'
  BY <1>6 DEF Down
<1>7. ASSUME NEW p \in Procs, Heal(p) \/ StageLocal(p) \/ ComposeUp(p) \/ Reconcile(p) \/ StageNetwork(p)
      PROVE  ControlOK'
  BY <1>7 DEF Heal, StageLocal, ComposeUp, Reconcile, StageNetwork
<1>8. ASSUME NEW p \in Procs, Wipe(p) \/ MakeData(p) \/ RemoveRow(p) \/ RmtreeSome(p) \/ RmtreeRest(p)
      PROVE  ControlOK'
  BY <1>8 DEF Wipe, MakeData, RemoveRow, RmtreeSome, RmtreeRest
<1>9. ASSUME NEW p \in Procs, Pack(p) \/ PackRest(p) \/ Kill(p) PROVE ControlOK'
  BY <1>9 DEF Pack, PackRest, Kill
<1>10. ASSUME UserAct \/ Crash \/ UNCHANGED vars PROVE ControlOK'
  BY <1>10 DEF UserAct, Crash, vars, local
<1> QED
  BY <1>2, <1>3, <1>4, <1>5, <1>6, <1>7, <1>8, <1>9, <1>10 DEF SceneNext, Next, Step

\* Every step keeps the files, the lock table and the container typed.
LEMMA DiskStep ==
  ASSUME TypeOK, [SceneNext]_<<vars, serial>>
  PROVE  DiskOK' /\ fd' \in [Procs -> 0..inodes']
<1> DEFINE Goal == DiskOK' /\ fd' \in [Procs -> 0..inodes']
<1>0. DiskOK /\ fd \in [Procs -> 0..inodes] /\ pc \in [Procs -> PCs]
  BY TypeParts DEF LocalOK, ControlOK
<1> USE <1>0, LifecycleAssumption DEF DiskOK, Set
<1>a. ASSUME UNCHANGED <<row, root, yaml, env, over, data, lock, held, box, fd, inodes>> PROVE Goal
  BY <1>a
<1>1. ASSUME NEW p \in Procs, Start(p) \/ Load(p) \/ Heal(p) \/ StageNetwork(p) \/ Reload(p) \/ Pack(p) \/ PackRest(p)
      PROVE  Goal
  BY <1>1, <1>a DEF Start, Load, Heal, StageNetwork, Reload, Pack, PackRest, disk, count
<1>2. ASSUME NEW p \in Procs, LoadOrphan(p) \/ LoadVm(p) \/ LoadFails(p) PROVE Goal
  BY <1>2 DEF LoadOrphan, LoadVm, LoadFails, disk, count
<1>3. ASSUME NEW p \in Procs, Open(p) PROVE Goal
  <2>1. inodes' \in 0..MaxInodes /\ inodes <= inodes' /\ lock' \in 0..inodes'
    BY <1>3 DEF Open
  <2>2. 0..inodes \subseteq 0..inodes'
    BY <2>1
  <2>3. fd' \in [Procs -> 0..inodes']
    BY <1>3, <2>1, <2>2 DEF Open
  <2> QED
    BY <1>3, <2>1, <2>2, <2>3 DEF Open
<1>4. ASSUME NEW p \in Procs, Flock(p) PROVE Goal
  <2>1. Exclusive(p) \in BOOLEAN
    BY DEF Exclusive
  <2>2. [proc |-> p, ino |-> fd[p], ex |-> Exclusive(p)] \in [proc : Procs, ino : 0..inodes, ex : BOOLEAN]
    BY <2>1
  <2> QED
    BY <1>4, <2>2 DEF Flock, disk, count
<1>5. ASSUME NEW p \in Procs, Unlock(p) \/ Kill(p) PROVE Goal
  BY <1>5 DEF Unlock, Kill, disk, count
<1>6. ASSUME NEW p \in Procs, Down(p) PROVE Goal
  <2>1. Off \in [up : BOOLEAN, mount : 0..inodes, ports : BOOLEAN]
    BY DEF Off
  <2> QED
    BY <1>6, <2>1 DEF Down, disk, count
<1>7. ASSUME NEW p \in Procs, StageLocal(p) \/ MakeData(p) PROVE Goal
  <2>1. inodes' \in 0..MaxInodes /\ inodes <= inodes' /\ data' \in 0..inodes'
    BY <1>7 DEF StageLocal, MakeData
  <2>2. 0..inodes \subseteq 0..inodes'
    BY <2>1
  <2> QED
    BY <1>7, <2>1, <2>2 DEF StageLocal, MakeData
<1>8. ASSUME NEW p \in Procs, ComposeUp(p) PROVE Goal
  <2>1. inodes' \in 0..MaxInodes /\ inodes <= inodes' /\ data' \in 0..inodes'
    BY <1>8 DEF ComposeUp
  <2>2. 0..inodes \subseteq 0..inodes'
    BY <2>1
  <2>3. box' \in [up : BOOLEAN, mount : 0..inodes', ports : BOOLEAN]
    <3>1. [up |-> TRUE, mount |-> data', ports |-> over] \in [up : BOOLEAN, mount : 0..inodes', ports : BOOLEAN]
      BY <2>1
    <3>2. box \in [up : BOOLEAN, mount : 0..inodes', ports : BOOLEAN]
      BY <2>2
    <3>3. box' = box \/ box' = [up |-> TRUE, mount |-> data', ports |-> over]
      BY <1>8 DEF ComposeUp
    <3> QED
      BY <3>1, <3>2, <3>3
  <2> QED
    BY <1>8, <2>1, <2>2, <2>3 DEF ComposeUp
<1>9. ASSUME NEW p \in Procs, Reconcile(p) PROVE Goal
  BY <1>9 DEF Reconcile, KindOf, count
<1>10. ASSUME NEW p \in Procs, Wipe(p) \/ RemoveRow(p) \/ RmtreeSome(p) \/ RmtreeRest(p) PROVE Goal
  <2>1. CASE Wipe(p)
    BY <2>1 DEF Wipe, count
  <2>2. CASE RemoveRow(p)
    BY <2>2 DEF RemoveRow, count
  <2>3. CASE RmtreeSome(p)
    BY <2>3 DEF RmtreeSome, count
  <2>4. CASE RmtreeRest(p)
    <3>1. /\ root' = FALSE /\ yaml' = {} /\ env' = FALSE /\ over' = FALSE /\ data' = 0 /\ lock' = 0
          /\ UNCHANGED <<row, held, box, fd, inodes>>
      BY <2>4 DEF RmtreeRest, count
    <3>2. /\ root' \in BOOLEAN /\ env' \in BOOLEAN /\ over' \in BOOLEAN
          /\ yaml' \subseteq {"auto", "vm"}
      BY <3>1, Zenon
    <3>3. /\ data' \in 0..inodes /\ lock' \in 0..inodes
          /\ UNCHANGED <<row, held, box, fd, inodes>>
      BY <3>1
    <3> QED
      BY <3>2, <3>3
  <2> QED
    BY <1>10, <2>1, <2>2, <2>3, <2>4
<1>11. ASSUME UserAct PROVE Goal
  <2>1. box' \in [up : BOOLEAN, mount : 0..inodes, ports : BOOLEAN]
    BY <1>11 DEF UserAct
  <2> QED
    BY <1>11, <2>1 DEF UserAct, local
<1>12. ASSUME Crash PROVE Goal
  <2>1. Off \in [up : BOOLEAN, mount : 0..inodes, ports : BOOLEAN]
    BY DEF Off
  <2> QED
    BY <1>12, <2>1 DEF Crash, disk, local, count
<1>13. ASSUME UNCHANGED vars PROVE Goal
  BY <1>13, <1>a DEF vars, disk, local, count
<1> QED
  BY <1>1, <1>2, <1>3, <1>4, <1>5, <1>6, <1>7, <1>8, <1>9, <1>10, <1>11, <1>12, <1>13
     DEF SceneNext, Next, Step

\* Every step keeps what the commands remember, and the bounds, typed.
LEMMA LocalStep ==
  ASSUME TypeOK, [SceneNext]_<<vars, serial>>
  PROVE  /\ verb' \in [Procs -> Verbs \cup {"none"}] /\ cfg' \in [Procs -> {"auto", "vm"}]
         /\ via' \in [Procs -> {"none", "redroid", "vm", "gone"}]
         /\ pack' \in [Procs -> [yaml : BOOLEAN, first : Nat, last : Nat]]
         /\ CountOK'
<1> DEFINE Goal == /\ verb' \in [Procs -> Verbs \cup {"none"}] /\ cfg' \in [Procs -> {"auto", "vm"}]
                   /\ via' \in [Procs -> {"none", "redroid", "vm", "gone"}]
                   /\ pack' \in [Procs -> [yaml : BOOLEAN, first : Nat, last : Nat]]
                   /\ CountOK'
<1>0. LocalOK /\ CountOK /\ data \in Nat /\ yaml \subseteq {"auto", "vm"} /\ row \in {"redroid", "vm", "none"}
  BY TypeParts DEF DiskOK
<1> USE <1>0, LifecycleAssumption DEF LocalOK, CountOK, Set
<1>a. ASSUME UNCHANGED <<verb, cfg, via, pack, calls, acts, kills>> PROVE Goal
  BY <1>a
<1>1. ASSUME NEW p \in Procs, Start(p) PROVE Goal
  BY <1>1 DEF Start, NoPack
<1>2. ASSUME NEW p \in Procs, Load(p) \/ LoadVm(p) \/ Reload(p) PROVE Goal
  <2>1. PICK b : cfg' = [cfg EXCEPT ![p] = b] /\ b \in {"auto", "vm"}
    BY <1>2 DEF Load, LoadVm, Reload
  <2>2. via' = via \/ via' = [via EXCEPT ![p] = "redroid"] \/ via' = [via EXCEPT ![p] = "vm"]
    BY <1>2 DEF Load, LoadVm, Reload
  <2>3. UNCHANGED <<verb, pack, calls, acts, kills>>
    BY <1>2 DEF Load, LoadVm, Reload, count
  <2> QED
    BY <2>1, <2>2, <2>3
<1>8. ASSUME NEW p \in Procs, LoadOrphan(p) PROVE Goal
  BY <1>8 DEF LoadOrphan, count
<1>3. ASSUME NEW p \in Procs, Pack(p) \/ PackRest(p) PROVE Goal
  <2> DEFINE r == [yaml |-> yaml # {}, first |-> data, last |-> data]
  <2>1. r \in [yaml : BOOLEAN, first : Nat, last : Nat]
    OBVIOUS
  <2>2. CASE Pack(p)
    <3>1. Set(pack, p, r) \/ UNCHANGED pack
      BY <2>2, Zenon DEF Pack
    <3>2. UNCHANGED <<verb, cfg, via, calls, acts, kills>>
      BY <2>2 DEF Pack, count
    <3> HIDE DEF r
    <3> QED
      BY <2>1, <3>1, <3>2
  <2>3. CASE PackRest(p)
    BY <2>3 DEF PackRest, count
  <2> QED
    BY <1>3, <2>2, <2>3
<1>4. ASSUME NEW p \in Procs, Kill(p) PROVE Goal
  BY <1>4 DEF Kill
<1>5. ASSUME UserAct PROVE Goal
  BY <1>5 DEF UserAct, local
<1>6. ASSUME NEW p \in Procs,
             LoadFails(p) \/ Open(p) \/ Flock(p) \/ Unlock(p) \/ Down(p) \/ Heal(p) \/ StageLocal(p)
               \/ ComposeUp(p) \/ Reconcile(p) \/ StageNetwork(p) \/ Wipe(p) \/ MakeData(p)
               \/ RemoveRow(p) \/ RmtreeSome(p) \/ RmtreeRest(p)
      PROVE  Goal
  <2>1. UNCHANGED <<verb, cfg, via, pack, calls, acts, kills>>
    BY <1>6 DEF LoadFails, Open, Flock, Unlock, Down, Heal, StageLocal, ComposeUp, Reconcile,
                StageNetwork, Wipe, MakeData, RemoveRow, RmtreeSome, RmtreeRest, count
  <2> QED
    BY <2>1, <1>a
<1>7. ASSUME Crash \/ UNCHANGED vars PROVE Goal
  BY <1>7, <1>a DEF Crash, vars, local, count
<1> QED
  BY <1>1, <1>2, <1>3, <1>4, <1>5, <1>6, <1>7, <1>8 DEF SceneNext, Next, Step

\* Every step keeps the types.
LEMMA TypeStep ==
  ASSUME TypeOK, [SceneNext]_<<vars, serial>>
  PROVE  TypeOK'
<1>1. TypeOK' <=> ControlOK' /\ DiskOK' /\ LocalOK' /\ CountOK'
  BY TypeParts, PTL
<1> QED
  BY <1>1, ControlStep, DiskStep, LocalStep DEF LocalOK

-----------------------------------------------------------------------------
(* Control.                                                                *)

\* A step of one command moves no other.
LEMMA Frame ==
  ASSUME TypeOK, NEW p \in Procs, Start(p) \/ Step(p) \/ Kill(p), NEW q \in Procs, q # p
  PROVE  pc'[q] = pc[q] /\ verb'[q] = verb[q] /\ err'[q] = err[q] /\ cfg'[q] = cfg[q]
         /\ via'[q] = via[q] /\ pack'[q] = pack[q] /\ fd'[q] = fd[q]
<1> DEFINE Goal == pc'[q] = pc[q] /\ verb'[q] = verb[q] /\ err'[q] = err[q] /\ cfg'[q] = cfg[q]
                   /\ via'[q] = via[q] /\ pack'[q] = pack[q] /\ fd'[q] = fd[q]
<1> USE DEF TypeOK, Set, Go, Return, Leave, Raise
<1>1. CASE Start(p) \/ Kill(p) \/ Load(p) \/ LoadVm(p)
  BY <1>1 DEF Start, Kill, Load, LoadVm
<1>7. CASE LoadFails(p) \/ LoadOrphan(p)
  BY <1>7 DEF LoadFails, LoadOrphan
<1>2. CASE Open(p) \/ Flock(p) \/ Unlock(p) \/ Heal(p)
  BY <1>2 DEF Open, Flock, Unlock, Heal
<1>3. CASE Down(p)
  BY <1>3 DEF Down
<1>4. CASE StageLocal(p) \/ ComposeUp(p) \/ Reconcile(p) \/ StageNetwork(p) \/ Reload(p) \/ Wipe(p) \/ MakeData(p)
  BY <1>4 DEF StageLocal, ComposeUp, Reconcile, StageNetwork, Reload, Wipe, MakeData
<1>5. CASE RemoveRow(p) \/ RmtreeSome(p) \/ RmtreeRest(p)
  BY <1>5 DEF RemoveRow, RmtreeSome, RmtreeRest
<1>6. CASE Pack(p) \/ PackRest(p)
  BY <1>6 DEF Pack, PackRest
<1> QED
  BY <1>1, <1>2, <1>3, <1>4, <1>5, <1>6, <1>7 DEF Step

\* A command only goes where its verb leads.
LEMMA PathStep ==
  ASSUME TypeOK, PathInv, [SceneNext]_<<vars, serial>>
  PROVE  PathInv'
<1>0. ASSUME NEW p \in Procs, Start(p) \/ Step(p) \/ Kill(p), Path(p)' PROVE PathInv'
  <2>1. ASSUME NEW q \in Procs, q # p PROVE Path(q)'
    BY <1>0, <2>1, Frame DEF PathInv, Path
  <2> QED
    BY <1>0, <2>1 DEF PathInv
<1>a. /\ pc \in [Procs -> PCs] /\ err \in [Procs -> Errs]
      /\ verb \in [Procs -> Verbs \cup {"none"}] /\ \A p \in Procs : Path(p)
  BY TypeParts DEF ControlOK, LocalOK, PathInv
<1> USE <1>a DEF Path, Set, Go, Return, Leave, Raise
<1>1. ASSUME NEW p \in Procs, Start(p) PROVE Path(p)'
  BY <1>1 DEF Start
<1>2. ASSUME NEW p \in Procs, Load(p) PROVE Path(p)'
  BY <1>2, LifecycleAssumption DEF Load, FirstStep
<1>3. ASSUME NEW p \in Procs, LoadOrphan(p) \/ LoadVm(p) \/ LoadFails(p) \/ Open(p) \/ Unlock(p) \/ Heal(p) PROVE Path(p)'
  BY <1>3 DEF LoadOrphan, LoadVm, LoadFails, Open, Unlock, Heal
<1>4. ASSUME NEW p \in Procs, Flock(p) PROVE Path(p)'
  BY <1>4 DEF Flock
<1>5. ASSUME NEW p \in Procs, Down(p) PROVE Path(p)'
  BY <1>5 DEF Down
<1>6. ASSUME NEW p \in Procs, StageLocal(p) \/ ComposeUp(p) \/ Reconcile(p) \/ StageNetwork(p) PROVE Path(p)'
  <2>1. CASE StageLocal(p)
    <3>1. verb' = verb /\ verb[p] \in {"up", "restart", "apply"}
      BY <2>1 DEF StageLocal
    <3>2. \/ pc'[p] = "idle" \/ (pc'[p] = "compose" /\ verb[p] # "apply")
          \/ (pc'[p] \in {"network", "reconcile"} /\ verb[p] = "apply")
      <4> HIDE DEF Path
      <4> QED
        BY <2>1 DEF StageLocal
    <3> QED
      BY <3>1, <3>2
  <2>2. CASE ComposeUp(p) \/ Reconcile(p) \/ StageNetwork(p)
    BY <2>2 DEF ComposeUp, Reconcile, StageNetwork
  <2> QED
    BY <1>6, <2>1, <2>2
<1>11. ASSUME NEW p \in Procs, Reload(p) PROVE Path(p)'
  BY <1>11 DEF Reload
<1>7. ASSUME NEW p \in Procs, Wipe(p) \/ MakeData(p) \/ RemoveRow(p) PROVE Path(p)'
  BY <1>7 DEF Wipe, MakeData, RemoveRow
<1>8. ASSUME NEW p \in Procs, RmtreeSome(p) \/ RmtreeRest(p) PROVE Path(p)'
  BY <1>8 DEF RmtreeSome, RmtreeRest
<1>9. ASSUME NEW p \in Procs, Pack(p) \/ PackRest(p) \/ Kill(p) PROVE Path(p)'
  BY <1>9 DEF Pack, PackRest, Kill
<1>10. ASSUME UserAct \/ Crash \/ UNCHANGED vars PROVE PathInv'
  BY <1>10 DEF UserAct, Crash, vars, local, PathInv
<1> HIDE DEF Path, Set, Go, Return, Leave, Raise
<1> QED
  BY <1>0, <1>1, <1>2, <1>3, <1>4, <1>5, <1>6, <1>7, <1>8, <1>9, <1>10, <1>11
     DEF SceneNext, Next, Step

\* In the serial scene only One takes steps.
LEMMA OnlyOne ==
  ASSUME TypeOK, SceneInv, serial, Scene, NEW p \in Procs, Start(p) \/ Step(p) \/ Kill(p)
  PROVE  p = One
<1>1. CASE Start(p)
  <2>1. calls' # calls
    BY <1>1 DEF Start, TypeOK
  <2>2. \A q \in Procs : q # One => verb'[q] = "none"
    BY <2>1 DEF Scene, One
  <2>3. verb'[p] \in Verbs
    BY <1>1 DEF Start, Set, TypeOK
  <2> QED
    BY <2>2, <2>3, LifecycleAssumption
<1>2. CASE Step(p) \/ Kill(p)
  <2>1. pc[p] # "idle"
    BY <1>2 DEF Step, Kill, Load, LoadOrphan, LoadVm, LoadFails, Open, Flock, Unlock, Down, Heal, StageLocal, ComposeUp,
       Reconcile, StageNetwork, Reload, Wipe, MakeData, RemoveRow, RmtreeSome, RmtreeRest, Pack, PackRest
  <2> QED
    BY <2>1 DEF SceneInv
<1> QED
  BY <1>1, <1>2

\* Among resets and snapshots nobody reaches the steps that start the
\* container, reconcile the row or remove the instance.
LEMMA LockedOnly ==
  ASSUME TypeOK, SceneInv, PathInv, ~serial, NEW p \in Procs
  PROVE  pc[p] \in {"idle", "load", "open", "flock", "unlock", "down", "wipe", "mkdata", "pack", "packRest"}
<1>1. verb[p] \in {"reset", "snapshot", "none"} /\ Path(p) /\ pc[p] \in PCs
  BY TypeParts DEF SceneInv, PathInv, ControlOK
<1> QED
  BY <1>1 DEF Path, PCs

\* The scenes stay what they are.
LEMMA SceneStep ==
  ASSUME TypeOK, SceneInv, PathInv, serial \in BOOLEAN, [SceneNext]_<<vars, serial>>
  PROVE  SceneInv' /\ serial' \in BOOLEAN
<1>1. CASE UNCHANGED <<vars, serial>>
  BY <1>1 DEF vars, local, SceneInv
<1>2. CASE SceneNext
  <2>0. serial' = serial /\ Next /\ Scene
    BY <1>2 DEF SceneNext
  <2>1. ASSUME NEW p \in Procs, Start(p) \/ Step(p) \/ Kill(p), serial PROVE SceneInv'
    <3>1. p = One
      BY <2>0, <2>1, OnlyOne
    <3>2. \A q \in Procs : q # One => pc'[q] = pc[q] /\ verb'[q] = verb[q] /\ err'[q] = err[q]
      BY <2>1, <3>1, Frame
    <3> QED
      BY <2>0, <2>1, <3>2 DEF SceneInv
  <2>2. ASSUME NEW p \in Procs, Start(p), ~serial PROVE SceneInv'
    <3>1. calls' # calls /\ box' = box
      BY <2>2 DEF Start, TypeOK
    <3> QED
      BY <2>0, <2>2, <3>1 DEF Scene, SceneInv
  <2>3. ASSUME NEW p \in Procs, Step(p) \/ Kill(p), ~serial PROVE SceneInv'
    <3>1. pc[p] \in {"idle", "load", "open", "flock", "unlock", "down", "wipe", "mkdata", "pack", "packRest"}
      BY <2>3, LockedOnly
    <3>2. verb' = verb
      BY <2>3 DEF Step, Kill, Load, LoadOrphan, LoadVm, LoadFails, Open, Flock, Unlock, Down, Heal, StageLocal, ComposeUp,
         Reconcile, StageNetwork, Reload, Wipe, MakeData, RemoveRow, RmtreeSome, RmtreeRest, Pack, PackRest
    <3>3. box' = box \/ box' = Off
      BY <2>3, <3>1 DEF Step, Kill, Load, LoadOrphan, LoadVm, LoadFails, Open, Flock, Unlock, Down, Heal, StageLocal, ComposeUp,
         Reconcile, StageNetwork, Reload, Wipe, MakeData, RemoveRow, RmtreeSome, RmtreeRest, Pack, PackRest
    <3> QED
      BY <2>0, <2>3, <3>2, <3>3 DEF SceneInv, Off
  <2>4. ASSUME UserAct PROVE SceneInv'
    <3>1. UNCHANGED <<pc, verb, err>> /\ box'.up = box.up
      BY <2>4 DEF UserAct, local, TypeOK
    <3> QED
      BY <2>0, <3>1 DEF SceneInv
  <2>5. ASSUME Crash PROVE SceneInv'
    BY <2>0, <2>5 DEF Crash, local, SceneInv, Off
  <2> QED
    BY <2>0, <2>1, <2>2, <2>3, <2>4, <2>5 DEF Next
<1> QED
  BY <1>1, <1>2

-----------------------------------------------------------------------------
(* The lock.                                                               *)

\* What a step of one reset or snapshot may do to the flocks: it adds its own
\* when it may have it, or gives its own up.
LEMMA LockStep ==
  ASSUME IInv, [SceneNext]_<<vars, serial>>
  PROVE  LockInv'
<1> SUFFICES ASSUME ~serial' PROVE LockInv'
  BY DEF LockInv
<1>0. ~serial
  BY DEF SceneNext
<1>1. /\ TypeOK /\ SceneInv /\ PathInv
      /\ \A h \in held : h.ino = lock /\ lock # 0
      /\ \A h, k \in held : h.ex => h.proc = k.proc
      /\ \A p \in Procs :
           /\ pc[p] = "flock" => fd[p] = lock /\ lock # 0
           /\ pc[p] \in {"down", "wipe", "mkdata"} => \E h \in held : h.proc = p /\ h.ex
           /\ pc[p] \in {"pack", "packRest"} => \E h \in held : h.proc = p
  BY <1>0 DEF IInv, LockInv, Inside
<1>2. /\ pc \in [Procs -> PCs] /\ fd \in [Procs -> 0..inodes] /\ inodes \in Nat
      /\ \A p \in Procs : pc[p] \in {"idle", "load", "open", "flock", "unlock", "down", "wipe", "mkdata", "pack", "packRest"}
  BY <1>0, <1>1, TypeParts, LockedOnly DEF ControlOK, LocalOK, DiskOK
<1> DEFINE Goal == /\ \A h \in held' : h.ino = lock' /\ lock' # 0
                   /\ \A h, k \in held' : h.ex => h.proc = k.proc
                   /\ \A p \in Procs :
                        /\ pc'[p] = "flock" => fd'[p] = lock' /\ lock' # 0
                        /\ pc'[p] \in {"down", "wipe", "mkdata"} => \E h \in held' : h.proc = p /\ h.ex
                        /\ pc'[p] \in {"pack", "packRest"} => \E h \in held' : h.proc = p
<1>3. SUFFICES Goal
  BY DEF LockInv, Inside
<1>4. ASSUME NEW p \in Procs, held' = {h \in held : h.proc # p}, pc' = [pc EXCEPT ![p] = "idle"],
             UNCHANGED <<lock, fd>>
      PROVE  Goal
  BY <1>1, <1>2, <1>4
<1>5. ASSUME NEW p \in Procs, held' = held, UNCHANGED <<lock, fd>>,
             NEW s, pc' = [pc EXCEPT ![p] = s],
             s \in {"idle", "load", "open", "unlock"}
               \/ (s \in {"wipe", "mkdata"} /\ pc[p] \in {"down", "wipe"})
               \/ (s = "packRest" /\ pc[p] = "pack")
      PROVE  Goal
  BY <1>1, <1>2, <1>5
<1>6. ASSUME NEW p \in Procs, Start(p) PROVE Goal
  BY <1>5, <1>6 DEF Start, disk, Set
<1>7. ASSUME NEW p \in Procs, Load(p) PROVE Goal
  <2>1. verb[p] \in {"reset", "snapshot"}
    BY <1>0, <1>1, <1>7, LifecycleAssumption DEF Load, SceneInv, PathInv, Path
  <2> QED
    BY <1>5, <1>7, <2>1 DEF Load, FirstStep, disk, Set, Go, Return
<1>8. ASSUME NEW p \in Procs, LoadOrphan(p) \/ LoadVm(p) \/ LoadFails(p) PROVE Goal
  <2>1. verb[p] \in {"reset", "snapshot"}
    BY <1>0, <1>1, <1>8, LifecycleAssumption DEF LoadOrphan, LoadVm, LoadFails, SceneInv, PathInv, Path
  <2>2. held' = held /\ UNCHANGED <<lock, fd>> /\ pc' = [pc EXCEPT ![p] = "idle"]
    BY <1>8, <2>1 DEF LoadOrphan, LoadVm, LoadFails, disk, Set, Return
  <2> QED
    BY <1>5, <2>2
<1>9. ASSUME NEW p \in Procs, Open(p) PROVE Goal
  <2>1. held' = held /\ pc' = [pc EXCEPT ![p] = "flock"] /\ fd' = [fd EXCEPT ![p] = lock'] /\ lock' # 0
    BY <1>2, <1>9 DEF Open, Go, Set
  <2>2. lock # 0 => lock' = lock
    BY <1>9 DEF Open
  <2> QED
    BY <1>1, <1>2, <2>1, <2>2
<1>10. ASSUME NEW p \in Procs, Flock(p) PROVE Goal
  <2> DEFINE g == [proc |-> p, ino |-> fd[p], ex |-> Exclusive(p)]
  <2>1. UNCHANGED <<lock, fd>> /\ held' = held \cup {g} /\ pc[p] = "flock"
        /\ pc' = [pc EXCEPT ![p] = IF verb[p] = "snapshot" THEN "pack" ELSE "down"]
    BY <1>10 DEF Flock, disk, Go, Set
  <2>2. g.proc = p /\ g.ino = lock /\ lock # 0 /\ (g.ex <=> verb[p] # "snapshot")
    BY <1>1, <2>1 DEF Exclusive
  <2>3. \A h \in held : ~h.ex /\ ~g.ex
    BY <1>1, <1>10, <2>1, <2>2 DEF Flock
  <2> HIDE DEF g
  <2>4. /\ \A h \in held' : h.ino = lock' /\ lock' # 0
        /\ \A h, k \in held' : h.ex => h.proc = k.proc
    BY <1>1, <2>1, <2>2, <2>3
  <2>5. ASSUME NEW q \in Procs
        PROVE  /\ pc'[q] = "flock" => fd'[q] = lock' /\ lock' # 0
               /\ pc'[q] \in {"down", "wipe", "mkdata"} => \E h \in held' : h.proc = q /\ h.ex
               /\ pc'[q] \in {"pack", "packRest"} => \E h \in held' : h.proc = q
    BY <1>1, <1>2, <2>1, <2>2
  <2> QED
    BY <2>4, <2>5
<1>11. ASSUME NEW p \in Procs, Unlock(p) \/ Kill(p) PROVE Goal
  BY <1>4, <1>11 DEF Unlock, Kill, disk, Go, Return, Set
<1>12. ASSUME NEW p \in Procs, Down(p) PROVE Goal
  <2>1. verb[p] = "reset"
    BY <1>0, <1>1, <1>12 DEF Down, SceneInv, PathInv, Path
  <2>2. UNCHANGED <<lock, fd>> /\ held' = held /\ pc[p] = "down"
    BY <1>12 DEF Down, disk
  <2>3. pc' = [pc EXCEPT ![p] = "wipe"] \/ pc' = [pc EXCEPT ![p] = "unlock"]
    BY <1>12, <2>1 DEF Down, Go, Raise, Leave, Set
  <2> QED
    BY <1>5, <2>2, <2>3
<1>13. ASSUME NEW p \in Procs, Wipe(p) \/ MakeData(p) \/ Pack(p) \/ PackRest(p) PROVE Goal
  BY <1>5, <1>13 DEF Wipe, MakeData, Pack, PackRest, disk, Go, Leave, Set
<1>14. ASSUME NEW p \in Procs,
              Heal(p) \/ StageLocal(p) \/ ComposeUp(p) \/ Reconcile(p) \/ StageNetwork(p)
                \/ Reload(p) \/ RemoveRow(p) \/ RmtreeSome(p) \/ RmtreeRest(p)
       PROVE  Goal
  BY <1>2, <1>14 DEF Heal, StageLocal, ComposeUp, Reconcile, StageNetwork, Reload, RemoveRow, RmtreeSome, RmtreeRest
<1>15. ASSUME UserAct, Scene PROVE Goal
  <2>0. acts' # acts
    BY <1>1, <1>15, TypeParts DEF UserAct, CountOK
  <2>1. root' = root /\ root
    BY <1>0, <1>15, <2>0 DEF UserAct, Scene
  <2>2. UNCHANGED <<lock, held, fd, pc>>
    BY <1>15, <2>1 DEF UserAct, local
  <2> QED
    BY <1>1, <2>2
<1>16. ASSUME Crash \/ UNCHANGED vars PROVE Goal
  <2>1. UNCHANGED <<lock, held, fd, pc>>
    BY <1>16 DEF Crash, vars, disk, local
  <2> QED
    BY <1>1, <2>1
<1> QED
  BY <1>6, <1>7, <1>8, <1>9, <1>10, <1>11, <1>12, <1>13, <1>14, <1>15, <1>16 DEF SceneNext, Next, Step, vars

-----------------------------------------------------------------------------
(* The instance.                                                           *)

\* A snapshot in the middle of its archive keeps every reset out.
LEMMA PackExcludes ==
  ASSUME IInv, ~serial, NEW p \in Procs, pc[p] = "packRest", NEW q \in Procs
  PROVE  pc[q] \notin {"wipe", "mkdata"}
<1> SUFFICES ASSUME pc[q] \in {"wipe", "mkdata"} PROVE FALSE
  OBVIOUS
<1>1. PICK h \in held : h.proc = q /\ h.ex
  BY DEF IInv, LockInv
<1>2. PICK k \in held : k.proc = p
  BY DEF IInv, LockInv, Inside
<1>3. p = q
  BY <1>1, <1>2 DEF IInv, LockInv
<1> QED
  BY <1>3

\* What the user may do in either scene: data/ only goes while no snapshot reads
\* it, and a container that mounts it is known to have lost it.
LEMMA UserFacts ==
  ASSUME TypeOK, UserAct, Scene
  PROVE  /\ \/ data' = data /\ root' = root /\ box' = box
            \/ box'.mount = 0 /\ \A p \in Procs : pc[p] # "packRest"
         /\ box'.up = box.up /\ box'.ports = box.ports
         /\ \A p \in Procs : pc[p] # "compose"
         /\ UNCHANGED <<row, pc, verb, cfg, via, err, pack>>
<1>0. acts' # acts
  BY TypeParts DEF UserAct, CountOK
<1>1. UNCHANGED <<row, pc, verb, cfg, via, err, pack>> /\ \A p \in Procs : pc[p] # "compose"
  BY DEF UserAct, local
<1>2. root
  BY DEF UserAct
<1>3. PICK a \in UserActs : /\ data' = (IF a = "rmTree" THEN 0 ELSE data) /\ root' = (a # "rmTree")
                            /\ box' = (IF a = "rmTree" THEN [box EXCEPT !.mount = 0] ELSE box)
  BY DEF UserAct
<1>6. box \in [up : BOOLEAN, mount : 0..inodes, ports : BOOLEAN]
  BY TypeParts DEF DiskOK
<1>4. CASE a # "rmTree"
  <2>1. root' = TRUE /\ root = TRUE
    BY <1>2, <1>3, <1>4, TypeParts DEF DiskOK
  <2> QED
    BY <1>1, <1>3, <1>4, <2>1
<1>5. CASE a = "rmTree"
  <2>1. root' # root
    BY <1>2, <1>3, <1>5
  <2>2. \A p \in Procs : pc[p] # "packRest"
    BY <1>0, <2>1 DEF Scene
  <2>3. box'.mount = 0 /\ box'.up = box.up /\ box'.ports = box.ports
    BY <1>3, <1>5, <1>6
  <2> QED
    BY <1>1, <2>2, <2>3
<1> QED
  BY <1>4, <1>5

\* Every step keeps what the running container relies on.
LEMMA BoxStep ==
  ASSUME IInv, [SceneNext]_<<vars, serial>>
  PROVE  BoxInv'
<1>0. /\ TypeOK /\ SceneInv /\ PathInv /\ BoxInv /\ \A p \in Procs : Path(p) /\ Sound(p)
      /\ data \in Nat /\ inodes \in Nat
  BY TypeParts DEF IInv, PathInv, SoundInv, DiskOK
<1>b. /\ box.up => box.ports
      /\ box.up /\ row # "none" => box.mount \in {0, data}
  BY <1>0 DEF BoxInv
<1>a. ASSUME box' = box \/ ~box'.up, row' = row \/ row' = "none" \/ row # "none", UNCHANGED data
      PROVE  BoxInv'
  BY <1>a, <1>b DEF BoxInv
<1>1. ASSUME NEW p \in Procs,
             Start(p) \/ Load(p) \/ LoadOrphan(p) \/ LoadVm(p) \/ LoadFails(p) \/ Flock(p) \/ Unlock(p) \/ Heal(p)
               \/ StageNetwork(p) \/ Reload(p) \/ Pack(p) \/ PackRest(p) \/ Kill(p)
      PROVE  BoxInv'
  <2>1. UNCHANGED <<row, root, data, box>>
    BY <1>1 DEF Start, Load, LoadOrphan, LoadVm, LoadFails, Flock, Unlock, Heal, StageNetwork, Reload, Pack, PackRest, Kill, disk
  <2> QED
    BY <2>1, <1>a
<1>2. ASSUME NEW p \in Procs, Open(p) PROVE BoxInv'
  BY <1>2, <1>a DEF Open
<1>3. ASSUME NEW p \in Procs, Down(p) PROVE BoxInv'
  <2>1. UNCHANGED <<row, root, data>> /\ (box' = box \/ box' = Off)
    BY <1>3 DEF Down, disk
  <2> QED
    BY <2>1, <1>a DEF Off
<1>4. ASSUME NEW p \in Procs, StageLocal(p) PROVE BoxInv'
  <2>1. row' = row /\ box' = box /\ (data' = data \/ data = 0)
    BY <1>4 DEF StageLocal
  <2> QED
    BY <1>b, <2>1 DEF BoxInv
<1>5. ASSUME NEW p \in Procs, ComposeUp(p) PROVE BoxInv'
  <2>1. pc[p] = "compose" /\ over /\ row # "none" /\ row' = row
    <3>1. serial
      BY <1>0, <1>5, LockedOnly DEF ComposeUp
    <3> QED
      BY <1>0, <1>5, <3>1 DEF ComposeUp, Path, Sound
  <2>2. CASE UNCHANGED <<data, box>>
    BY <1>5, <2>1, <2>2, <1>a DEF ComposeUp
  <2>3. CASE root /\ data' = (IF data = 0 THEN inodes + 1 ELSE data)
             /\ box' = IF box.up /\ box.ports = over THEN box ELSE [up |-> TRUE, mount |-> data', ports |-> over]
    <3>1. root' = root /\ data' # 0
      BY <1>0, <1>5, <2>3 DEF ComposeUp
    <3>2. CASE box.up /\ box.ports = over
      BY <1>b, <2>1, <2>3, <3>1, <3>2 DEF BoxInv
    <3>3. CASE ~(box.up /\ box.ports = over)
      <4>1. box' = [up |-> TRUE, mount |-> data', ports |-> over]
        BY <2>3, <3>3
      <4>2. box'.up /\ box'.mount = data' /\ box'.ports
        BY <2>1, <4>1
      <4> QED
        BY <2>3, <3>1, <4>2 DEF BoxInv
    <3> QED
      BY <3>2, <3>3
  <2> QED
    BY <1>5, <2>2, <2>3 DEF ComposeUp, ComposeRuns
<1>6. ASSUME NEW p \in Procs, Reconcile(p) \/ RemoveRow(p) PROVE BoxInv'
  BY <1>6, <1>a DEF Reconcile, RemoveRow
<1>7. ASSUME NEW p \in Procs, Wipe(p) \/ MakeData(p) PROVE BoxInv'
  <2>1. ~box.up /\ box' = box
    BY <1>0, <1>7 DEF Wipe, MakeData, Sound
  <2> QED
    BY <2>1 DEF BoxInv
<1>8. ASSUME NEW p \in Procs, RmtreeSome(p) \/ RmtreeRest(p) PROVE BoxInv'
  <2>1. row = "none" /\ row' = row /\ box' = box
    BY <1>0, <1>8 DEF RmtreeSome, RmtreeRest, Sound
  <2> QED
    BY <1>b, <2>1 DEF BoxInv
<1>9. ASSUME UserAct, Scene PROVE BoxInv'
  BY <1>0, <1>b, <1>9, UserFacts DEF BoxInv
<1>10. ASSUME Crash \/ UNCHANGED vars PROVE BoxInv'
  BY <1>10, <1>a DEF Crash, vars, disk, Off
<1> QED
  BY <1>1, <1>2, <1>3, <1>4, <1>5, <1>6, <1>7, <1>8, <1>9, <1>10 DEF SceneNext, Next, Step, vars

\* A step of one command takes nothing from another one.
LEMMA SoundOthers ==
  ASSUME IInv, SceneNext, SceneInv', NEW p \in Procs, Start(p) \/ Step(p) \/ Kill(p), NEW q \in Procs, q # p
  PROVE  Sound(q)'
<1>0. /\ TypeOK /\ SceneInv /\ PathInv /\ Sound(q) /\ Scene /\ serial' = serial
      /\ pc'[q] = pc[q] /\ verb'[q] = verb[q] /\ err'[q] = err[q] /\ cfg'[q] = cfg[q]
      /\ via'[q] = via[q] /\ pack'[q] = pack[q]
  BY Frame DEF IInv, SoundInv, SceneNext
<1>1. CASE serial
  <2>1. p = One
    BY <1>0, <1>1, OnlyOne
  <2>2. pc'[q] = "idle" /\ verb'[q] = "none" /\ err'[q] = "none" /\ pack'[q].first = pack'[q].last
    BY <1>0, <1>1, <2>1 DEF SceneInv, Sound
  <2> QED
    BY <2>2 DEF Sound, Stopped
<1>2. CASE ~serial
  <2>1. /\ pc[q] \in {"idle", "load", "open", "flock", "unlock", "down", "wipe", "mkdata", "pack", "packRest"}
        /\ pc[p] \in {"idle", "load", "open", "flock", "unlock", "down", "wipe", "mkdata", "pack", "packRest"}
    BY <1>0, <1>2, LockedOnly
  <2>2. ~box'.up /\ verb'[q] # "destroy"
    BY <1>0, <1>2 DEF SceneInv
  <2>3. row' = row
    BY <2>1 DEF Start, Step, Kill, Load, LoadOrphan, LoadVm, LoadFails, Open, Flock, Unlock, Down, Heal, StageLocal, ComposeUp,
       Reconcile, StageNetwork, Reload, Wipe, MakeData, RemoveRow, RmtreeSome, RmtreeRest, Pack, PackRest, disk
  <2>4. pc[q] = "packRest" => data' = data
    <3> SUFFICES ASSUME pc[q] = "packRest" PROVE data' = data
      OBVIOUS
    <3>1. pc[p] \notin {"wipe", "mkdata"}
      BY <1>2, PackExcludes
    <3> QED
      BY <2>1, <3>1 DEF Start, Step, Kill, Load, LoadOrphan, LoadVm, LoadFails, Open, Flock, Unlock, Down, Heal, StageLocal,
         ComposeUp, Reconcile, StageNetwork, Reload, Wipe, MakeData, RemoveRow, RmtreeSome, RmtreeRest, Pack,
         PackRest, disk
  <2> QED
    BY <1>0, <1>2, <2>1, <2>2, <2>3, <2>4 DEF Sound, Stopped
<1> QED
  BY <1>1, <1>2

\* Each step of a command leaves it with what its next steps rely on.
LEMMA SoundSelf ==
  ASSUME IInv, SceneNext, NEW p \in Procs, Start(p) \/ Step(p) \/ Kill(p)
  PROVE  Sound(p)'
<1>0. /\ TypeOK /\ SceneInv /\ Path(p) /\ BoxInv /\ Sound(p) /\ serial' = serial
      /\ pc \in [Procs -> PCs] /\ err \in [Procs -> Errs] /\ verb \in [Procs -> Verbs \cup {"none"}]
      /\ cfg \in [Procs -> {"auto", "vm"}] /\ via \in [Procs -> {"none", "redroid", "vm", "gone"}]
      /\ pack \in [Procs -> [yaml : BOOLEAN, first : Nat, last : Nat]]
      /\ data \in Nat
  BY TypeParts DEF IInv, SoundInv, PathInv, SceneNext, ControlOK, LocalOK, DiskOK
<1> USE <1>0 DEF Set, Go, Return, Leave, Raise
<1>1. CASE Start(p)
  <2>1. /\ pc'[p] = "load" /\ verb'[p] \in Verbs /\ err'[p] = "none"
        /\ pack'[p] = NoPack
    BY <1>1 DEF Start
  <2> QED
    BY <2>1 DEF Sound, Stopped, NoPack
<1>2. CASE Load(p)
  <2>1. /\ pc[p] = "load" /\ pack' = pack /\ verb' = verb /\ UNCHANGED <<row, over, data, box>>
        /\ row = "redroid"
        /\ \/ pc'[p] = "idle" /\ err'[p] = "refused"
           \/ pc'[p] = FirstStep(p) /\ err'[p] = err[p]
    BY <1>2 DEF Load, disk
  <2>2. CASE pc'[p] = "idle" /\ err'[p] = "refused"
    BY <2>1, <2>2 DEF Sound, Stopped
  <2>3. CASE pc'[p] = FirstStep(p) /\ err'[p] = err[p]
    <3>1. FirstStep(p) \in {"heal", "down", "reload", "open"}
      BY DEF FirstStep
    <3>2. err[p] \notin {"ok", "network"}
      BY <2>1 DEF Sound
    <3> QED
      BY <2>1, <2>3, <3>1, <3>2 DEF Sound, Stopped
  <2> QED
    BY <2>1, <2>2, <2>3
<1>15. CASE LoadVm(p)
  <2>1. /\ pc[p] = "load" /\ pack' = pack /\ verb' = verb /\ UNCHANGED <<row, over, data, box>>
        /\ row = "vm" /\ via'[p] = "vm"
        /\ \/ pc'[p] = "idle" /\ err'[p] \in {"ok", "refused"}
           \/ pc'[p] \in {"reload", "remove"} /\ err'[p] = err[p]
    BY <1>15 DEF LoadVm, disk
  <2>2. err[p] \notin {"ok", "network"}
    BY <2>1 DEF Sound
  <2> QED
    BY <2>1, <2>2 DEF Sound, Stopped
<1>16. CASE LoadFails(p)
  <2>1. /\ pack' = pack /\ verb' = verb /\ UNCHANGED <<row, over, data, box>>
        /\ pc'[p] = "idle" /\ err'[p] = "refused"
    BY <1>16 DEF LoadFails, disk
  <2> QED
    BY <2>1 DEF Sound, Stopped
<1>17. CASE Reload(p)
  <2>1. /\ pc[p] = "reload" /\ pack' = pack /\ verb' = verb /\ UNCHANGED <<row, over, data, box>>
        /\ \/ pc'[p] = "idle" /\ err'[p] \in {"oserror", "refused"}
           \/ pc'[p] = "stage" /\ err'[p] = err[p]
    BY <1>17 DEF Reload, disk
  <2>2. verb[p] = "apply" /\ err[p] # "network"
    BY <2>1 DEF Path, Sound
  <2> QED
    BY <2>1, <2>2 DEF Sound, Stopped
<1>3. CASE LoadOrphan(p)
  <2>1. /\ pc[p] = "load" /\ pack' = pack /\ verb' = verb /\ err' = err /\ cfg' = cfg
        /\ UNCHANGED <<row, over, data, box>> /\ verb[p] = "destroy"
        /\ pc'[p] = "down" \/ (pc'[p] = "remove" /\ via'[p] # "redroid")
    BY <1>3 DEF LoadOrphan, disk
  <2>2. err[p] \notin {"ok", "network"}
    BY <2>1 DEF Sound
  <2> QED
    BY <2>1, <2>2 DEF Sound, Stopped
<1>4. CASE Open(p) \/ Flock(p) \/ Unlock(p)
  <2>1. /\ pack' = pack /\ verb' = verb /\ err' = err /\ cfg' = cfg /\ via' = via /\ UNCHANGED <<row, over, data, box>>
        /\ pc[p] \in {"open", "flock", "unlock"} /\ pc'[p] \in {"flock", "pack", "down", "idle"}
        /\ pc'[p] = "down" => pc[p] = "flock"
    BY <1>4 DEF Open, Flock, Unlock, disk
  <2>2. verb[p] \in {"reset", "destroy", "snapshot"}
    BY <2>1 DEF Path
  <2> QED
    BY <2>1, <2>2 DEF Sound, Stopped
<1>5. CASE Down(p)
  <2>1. /\ pack' = pack /\ verb' = verb /\ cfg' = cfg /\ via' = via /\ UNCHANGED <<row, over, data>> /\ pc[p] = "down"
        /\ verb[p] \in {"down", "restart", "reset", "destroy"}
    BY <1>5 DEF Down, disk, Path
  <2>2. CASE box' = Off /\ err' = err /\ pc'[p] \in {"heal", "wipe", "remove", "idle"}
             /\ (pc'[p] = "heal" => verb[p] = "restart")
    BY <2>1, <2>2 DEF Sound, Stopped, Off
  <2>3. CASE box' = box /\ verb[p] = "destroy" /\ pc'[p] = "remove" /\ err'[p] = "compose"
    BY <2>1, <2>3 DEF Sound, Stopped
  <2>4. CASE box' = box /\ pc'[p] \in {"unlock", "idle"} /\ err'[p] \in {"compose", "oserror"}
    BY <2>1, <2>4 DEF Sound, Stopped
  <2>5. \/ box' = Off /\ err' = err /\ pc'[p] \in {"heal", "wipe", "remove", "idle"}
             /\ (pc'[p] = "heal" => verb[p] = "restart")
        \/ box' = box /\ verb[p] = "destroy" /\ pc'[p] = "remove" /\ err'[p] = "compose"
        \/ box' = box /\ pc'[p] \in {"unlock", "idle"} /\ err'[p] \in {"compose", "oserror"}
    BY <1>5, <2>1 DEF Down
  <2> QED
    BY <2>2, <2>3, <2>4, <2>5
<1>6. CASE Heal(p) \/ StageLocal(p)
  <2>1. /\ pack' = pack /\ verb' = verb /\ cfg' = cfg /\ via' = via /\ UNCHANGED <<row, box>>
        /\ pc[p] \in {"heal", "stage"} /\ verb[p] \in {"up", "restart", "apply"}
        /\ \/ pc'[p] \in {"stage", "reconcile", "compose", "network"} /\ err'[p] = err[p]
           \/ pc'[p] = "idle" /\ err'[p] \in {"refused", "gone"}
        /\ pc'[p] = "compose" => over'
        /\ pc'[p] = "network" => via[p] = "vm"
    <3>1. CASE Heal(p)
      BY <3>1 DEF Heal, disk, Path
    <3>2. CASE StageLocal(p)
      <4>1. /\ pack' = pack /\ verb' = verb /\ cfg' = cfg /\ via' = via /\ UNCHANGED <<row, box>>
            /\ pc[p] = "stage"
        BY <3>2 DEF StageLocal
      <4>2. \/ pc'[p] = "idle" /\ err'[p] = "gone"
            \/ /\ err'[p] = err[p] /\ over'
               /\ pc'[p] \in {"compose", "reconcile"} \/ (pc'[p] = "network" /\ via[p] = "vm")
        BY <3>2 DEF StageLocal
      <4> QED
        BY <4>1, <4>2 DEF Path
    <3> QED
      BY <1>6, <3>1, <3>2
  <2> QED
    BY <2>1 DEF Sound, Stopped
<1>7. CASE ComposeUp(p)
  <2>1. /\ pack' = pack /\ verb' = verb /\ cfg' = cfg /\ via' = via /\ row' = row /\ pc'[p] = "idle"
        /\ err'[p] \in {"ok", "compose", "oserror"} /\ verb[p] \in {"up", "restart"}
    BY <1>7 DEF ComposeUp, Path
  <2> QED
    BY <2>1 DEF Sound, Stopped
<1>8. CASE Reconcile(p)
  <2>1. /\ pack' = pack /\ verb' = verb /\ cfg' = cfg /\ via' = via /\ UNCHANGED <<over, box, data>>
        /\ pc[p] = "reconcile" /\ row' \in {"none", KindOf(cfg[p])}
        /\ \/ pc'[p] = "network" /\ err'[p] = err[p]
           \/ pc'[p] = "idle" /\ err'[p] = "ok"
    BY <1>8 DEF Reconcile
  <2>2. verb[p] = "apply"
    BY <2>1 DEF Path
  <2> QED
    BY <2>1, <2>2 DEF Sound, Stopped
<1>9. CASE StageNetwork(p)
  <2>1. /\ pack' = pack /\ verb' = verb /\ cfg' = cfg /\ via' = via /\ UNCHANGED <<row, over, box, data>>
        /\ pc[p] = "network"
        /\ \/ pc'[p] = "idle" /\ err'[p] \in {"ok", "network"}
           \/ pc'[p] = "reconcile" /\ err'[p] = err[p]
    BY <1>9 DEF StageNetwork, disk
  <2>2. verb[p] = "apply"
    BY <2>1 DEF Path
  <2> QED
    BY <2>1, <2>2 DEF Sound, Stopped
<1>10. CASE Wipe(p) \/ MakeData(p)
  <2>1. /\ pack' = pack /\ verb' = verb /\ cfg' = cfg /\ via' = via /\ UNCHANGED <<row, over, box>>
        /\ pc[p] \in {"wipe", "mkdata"}
        /\ \/ pc'[p] = "mkdata" /\ err'[p] = err[p]
           \/ pc'[p] = "unlock" /\ err'[p] = "ok"
    BY <1>10 DEF Wipe, MakeData
  <2>2. verb[p] = "reset"
    BY <2>1 DEF Path
  <2> QED
    BY <2>1, <2>2 DEF Sound, Stopped
<1>11. CASE RemoveRow(p) \/ RmtreeSome(p) \/ RmtreeRest(p)
  <2>1. /\ pack' = pack /\ verb' = verb /\ cfg' = cfg /\ via' = via /\ UNCHANGED box
        /\ row' \in {row, "none"} /\ pc[p] \in {"remove", "rmtree", "rmrest"}
        /\ pc[p] = "remove" => row' = "none"
        /\ \/ pc'[p] \in {"rmtree", "rmrest"} /\ err'[p] = err[p]
           \/ pc'[p] = "unlock" /\ err'[p] = IF err[p] = "compose" THEN "compose" ELSE "ok"
    BY <1>11 DEF RemoveRow, RmtreeSome, RmtreeRest
  <2>2. verb[p] = "destroy"
    BY <2>1 DEF Path
  <2> QED
    BY <2>1, <2>2 DEF Sound, Stopped
<1>12. CASE Pack(p)
  <2>1. /\ verb' = verb /\ cfg' = cfg /\ via' = via /\ UNCHANGED <<row, over, box, data>> /\ pc[p] = "pack"
        /\ \/ pc'[p] = "packRest" /\ err'[p] = err[p] /\ pack'[p].first = data /\ pack'[p].last = data
           \/ pc'[p] = "unlock" /\ err'[p] = "oserror" /\ pack' = pack
    BY <1>12 DEF Pack, disk
  <2>2. verb[p] = "snapshot"
    BY <2>1 DEF Path
  <2> QED
    BY <2>1, <2>2 DEF Sound, Stopped
<1>13. CASE PackRest(p)
  <2>1. /\ verb' = verb /\ cfg' = cfg /\ via' = via /\ UNCHANGED <<row, over, box, data>> /\ pc[p] = "packRest"
        /\ pc'[p] = "unlock" /\ err'[p] = "ok"
        /\ pack'[p].first = pack[p].first /\ pack'[p].last = data
    BY <1>13 DEF PackRest, disk
  <2>2. verb[p] = "snapshot"
    BY <2>1 DEF Path
  <2> QED
    BY <2>1, <2>2 DEF Sound, Stopped
<1>14. CASE Kill(p)
  <2>1. /\ verb' = verb /\ pack' = pack /\ pc'[p] = "idle" /\ err'[p] = "killed"
    BY <1>14 DEF Kill
  <2> QED
    BY <2>1 DEF Sound, Stopped
<1> HIDE DEF Set, Go, Return, Leave, Raise
<1> QED
  BY <1>1, <1>2, <1>3, <1>4, <1>5, <1>6, <1>7, <1>8, <1>9, <1>10, <1>11, <1>12, <1>13, <1>14, <1>15,
     <1>16, <1>17 DEF Step

\* Every step keeps what the commands rely on.
LEMMA SoundStep ==
  ASSUME IInv, [SceneNext]_<<vars, serial>>
  PROVE  SoundInv'
<1>0. TypeOK /\ \A p \in Procs : Sound(p)
  BY DEF IInv, SoundInv
<1>1. SceneInv'
  BY SceneStep DEF IInv
<1>2. CASE UNCHANGED <<vars, serial>>
  BY <1>0, <1>2 DEF vars, disk, local, SoundInv, Sound, Stopped
<1>3. ASSUME SceneNext, NEW p \in Procs, Start(p) \/ Step(p) \/ Kill(p) PROVE SoundInv'
  BY <1>1, <1>3, SoundSelf, SoundOthers DEF SoundInv
<1>4. ASSUME SceneNext, UserAct PROVE SoundInv'
  <2>1. /\ data' = data \/ \A p \in Procs : pc[p] # "packRest"
        /\ \A p \in Procs : pc[p] # "compose"
        /\ box'.up = box.up /\ UNCHANGED <<row, pc, verb, cfg, via, err, pack, serial>>
    BY <1>0, <1>4, UserFacts DEF SceneNext
  <2> QED
    BY <1>0, <2>1 DEF SoundInv, Sound, Stopped
<1>5. ASSUME SceneNext, Crash PROVE SoundInv'
  BY <1>0, <1>5 DEF SceneNext, Crash, disk, local, Off, SoundInv, Sound, Stopped
<1> QED
  BY <1>2, <1>3, <1>4, <1>5 DEF SceneNext, Next

-----------------------------------------------------------------------------
(* The theorems.                                                           *)

\* The invariant holds in every scene.
LEMMA Inductive == SceneSpec => []IInv
<1>1. MCInit => IInv
  <2> SUFFICES ASSUME MCInit PROVE IInv
    OBVIOUS
  <2>1. TypeOK
    BY LifecycleAssumption DEF MCInit, Init, TypeOK, Off, NoPack
  <2>2. serial \in BOOLEAN /\ SceneInv /\ PathInv /\ BoxInv
    BY DEF MCInit, Init, SceneInv, PathInv, Path, BoxInv, Off
  <2>3. SoundInv /\ LockInv
    BY DEF MCInit, Init, SoundInv, Sound, Stopped, LockInv, NoPack, Off, Inside
  <2> QED
    BY <2>1, <2>2, <2>3 DEF IInv
<1>2. IInv /\ [SceneNext]_<<vars, serial>> => IInv'
  BY TypeStep, PathStep, SceneStep, LockStep, BoxStep, SoundStep DEF IInv
<1> QED
  BY <1>1, <1>2, PTL DEF SceneSpec

\* reset never wipes data/ under a running container, and no other command or
\* fault leaves the container on a data/ that is gone; only the user can.
THEOREM DataKept == SceneSpec => []LiveDataKept
<1>1. IInv => LiveDataKept
  BY DEF IInv, BoxInv, LiveDataKept
<1> QED
  BY <1>1, Inductive, PTL

\* No container ever runs without the override that publishes its ports.
THEOREM PortsAlways == SceneSpec => []PortsPublished
<1>1. IInv => PortsPublished
  BY DEF IInv, BoxInv, PortsPublished
<1> QED
  BY <1>1, Inductive, PTL

\* What the redroid backend's destroy and apply report is true of the instance,
\* also when its directory was deleted under the container, and the types hold.
THEOREM TrueOutcomes == SceneSpec => []OutcomesTrue
<1>1. IInv => OutcomesTrue
  BY DEF IInv, SoundInv, Sound, Stopped, OutcomesTrue, DestroyStops, ApplyReconciles
<1> QED
  BY <1>1, Inductive, PTL

\* Beside any number of resets, a snapshot archives one data/.
THEOREM StableSnapshots == SceneSpec => []SnapshotStable
<1>1. IInv => SnapshotStable
  BY DEF IInv, SoundInv, Sound, SnapshotStable
<1> QED
  BY <1>1, Inductive, PTL
=============================================================================
