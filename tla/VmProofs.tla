------------------------------ MODULE VmProofs ------------------------------
(***************************************************************************)
(* Proofs about Vm, for every number of commands, pids, ports and edits.   *)
(*                                                                         *)
(* No command that knows its adb port ever signals a process that is not a *)
(* QEMU of its own instance: it rests on the process table alone (a QEMU   *)
(* that forwards a port of this instance is this instance's) and on where  *)
(* a command takes its port from.                                          *)
(*                                                                         *)
(* In the scenes of MCVm, without their numeric limits: a warm resume      *)
(* loads the snapshot of the base its up compared, a checkpoint holds a    *)
(* guest that has booted, and a down leaves no QEMU behind.                *)
(***************************************************************************)
EXTENDS MCVm, TLAPS

\* An entry of the process table: a QEMU that forwards one of this instance's
\* ports is this instance's.
Owned(m) ==
  /\ {"kind", "own", "port", "guest"} \subseteq DOMAIN m
  /\ m.kind = "qemu" /\ m.port \in Ports => m.own

HostOwned == DOMAIN host = Pids /\ \A q \in Pids : Owned(host[q])

\* A command's port is one its config gave it, or none.
PortsKnown ==
  /\ yaml \subseteq Config /\ cfg \in [Procs -> Config]
  /\ port \in [Procs -> Ports \cup {NoPort}]

IInv == HostOwned /\ PortsKnown /\ NeverSignalsStranger

-----------------------------------------------------------------------------

\* A pid that is free is nobody's QEMU.
LEMMA FreeOwned == Owned(Free)
BY DEF Owned, Free

\* An update of one entry that keeps it owned keeps the table owned.
LEMMA HostUpdate ==
  ASSUME HostOwned, NEW q \in Pids, NEW m, Owned(m), Set(host, q, m)
  PROVE  HostOwned'
BY DEF HostOwned, Owned, Set

\* The QEMU a command recognises with a port it knows is its own.
LEMMA Recognised ==
  ASSUME HostOwned, PortsKnown, NEW p \in Procs, NEW q, PidIsQemu(p, q), port[p] # NoPort
  PROVE  host[q].own
BY DEF HostOwned, PortsKnown, PidIsQemu, Qemus, Owned

\* A signal to a process a command recognises is recorded as one to its own.
LEMMA Signalled ==
  ASSUME HostOwned, PortsKnown, NeverSignalsStranger, NEW p \in Procs, NEW q,
         PidIsQemu(p, q),
         struck' = struck \cup {[own |-> host[q].own, known |-> port[p] # NoPort]}
  PROVE  NeverSignalsStranger'
<1> SUFFICES ASSUME NEW s \in struck', s.known PROVE s.own
  BY DEF NeverSignalsStranger
<1>1. CASE s \in struck
  BY <1>1 DEF NeverSignalsStranger
<1>2. CASE s = [own |-> host[q].own, known |-> port[p] # NoPort]
  <2>1. port[p] # NoPort
    BY <1>2
  <2> QED
    BY <1>2, <2>1, Recognised
<1> QED
  BY <1>1, <1>2

\* The invariant holds before the first command.
LEMMA InitInv == Init => IInv
<1> SUFFICES ASSUME Init PROVE IInv
  OBVIOUS
<1>1. HostOwned
  BY FreeOwned DEF Init, HostOwned
<1>2. PortsKnown
  BY VmAssumption DEF Init, PortsKnown
<1> QED
  BY <1>1, <1>2 DEF Init, IInv, NeverSignalsStranger

-----------------------------------------------------------------------------

\* A step that neither touches the process table, nor signals, nor reads a
\* config keeps the invariant.
LEMMA Elsewhere ==
  ASSUME IInv, UNCHANGED <<host, struck, yaml, cfg, port>>
  PROVE  IInv'
BY DEF IInv, HostOwned, PortsKnown, NeverSignalsStranger

\* Every step of up but the launch and the checkpoint, and the end of apply.
LEMMA FileSteps ==
  ASSUME IInv, NEW p \in Procs,
         \/ Start(p) \/ Resolve(p) \/ UnlinkMonitor(p) \/ CheckStale(p) \/ CheckPresent(p)
         \/ DiscardOverlay(p) \/ DiscardKey(p) \/ CreateOverlay(p) \/ RecordIdentity(p)
         \/ DecideWarm(p) \/ CheckRunning(p) \/ WritePidfile(p) \/ Connected(p)
         \/ WaitFails(p) \/ WaitForBoot(p) \/ UnlinkPidfile(p) \/ RemoveRow(p)
         \/ Reconcile(p) \/ Kill(p)
  PROVE  IInv'
<1>1. CASE \/ Start(p) \/ Resolve(p) \/ UnlinkMonitor(p) \/ CheckStale(p)
           \/ CheckPresent(p) \/ DiscardOverlay(p) \/ DiscardKey(p)
  BY <1>1, Elsewhere DEF Start, Resolve, UnlinkMonitor, CheckStale, CheckPresent,
     DiscardOverlay, DiscardKey, files, env, local, ghost
<1>2. CASE CreateOverlay(p) \/ RecordIdentity(p) \/ DecideWarm(p) \/ CheckRunning(p)
  BY <1>2, Elsewhere DEF CreateOverlay, RecordIdentity, DecideWarm, CheckRunning,
     files, env, local, ghost
<1>3. CASE WritePidfile(p) \/ Connected(p) \/ WaitFails(p) \/ WaitForBoot(p)
  BY <1>3, Elsewhere DEF WritePidfile, Connected, WaitFails, WaitForBoot,
     files, env, local, ghost
<1>4. CASE UnlinkPidfile(p) \/ RemoveRow(p) \/ Reconcile(p)
  BY <1>4, Elsewhere DEF UnlinkPidfile, RemoveRow, Reconcile, files, env, local, ghost
<1>5. CASE Kill(p)
  BY <1>5, Elsewhere DEF Kill, files, env, local, ghost
<1> QED
  BY <1>1, <1>2, <1>3, <1>4, <1>5

\* Reading beetroot.yaml, editing it and deleting it.
LEMMA ConfigSteps ==
  ASSUME IInv,
         \/ Edit
         \/ \E p \in Procs : \/ Load(p) \/ LoadRedroid(p) \/ LoadOrphan(p)
                            \/ Stage(p) \/ Rmtree(p)
  PROVE  IInv'
<1> USE DEF IInv
<1>1. HostOwned' /\ NeverSignalsStranger'
  <2>1. UNCHANGED <<host, struck>>
    BY DEF Load, LoadRedroid, LoadOrphan, Stage, Rmtree, Edit, ghost
  <2> QED
    BY <2>1 DEF HostOwned, NeverSignalsStranger
<1>2. ASSUME NEW p \in Procs, Load(p) \/ Stage(p) PROVE IInv'
  <2>1. CASE UNCHANGED <<cfg, port>>
    BY <1>1, <1>2, <2>1 DEF Load, Stage, PortsKnown, env
  <2>2. CASE \E c \in yaml : Set(cfg, p, c) /\ Set(port, p, c.port)
    <3>1. PICK c \in yaml : Set(cfg, p, c) /\ Set(port, p, c.port)
      BY <2>2
    <3>2. c \in Config /\ c.port \in Ports
      BY DEF PortsKnown, Config
    <3> QED
      BY <1>1, <1>2, <3>1, <3>2 DEF Load, Stage, PortsKnown, env, Set
  <2> QED
    BY <1>2, <2>1, <2>2 DEF Load, Stage
<1>3. ASSUME NEW p \in Procs, LoadOrphan(p) PROVE IInv'
  BY <1>1, <1>3 DEF LoadOrphan, PortsKnown, env, Set
<1>4. ASSUME NEW p \in Procs, Rmtree(p) PROVE IInv'
  BY <1>1, <1>4 DEF Rmtree, PortsKnown, local
<1>5. CASE Edit
  BY <1>1, <1>5, VmAssumption DEF Edit, PortsKnown, local
<1>6. ASSUME NEW p \in Procs, LoadRedroid(p) PROVE IInv'
  BY <1>1, <1>6 DEF LoadRedroid, PortsKnown, env, Set
<1> QED
  BY <1>2, <1>3, <1>4, <1>5, <1>6

\* The launch and the checkpoint: a machine forwards the port of its config and
\* is the instance's, and the QEMU a savevm may take down is gone.
LEMMA LaunchSteps ==
  ASSUME IInv, NEW p \in Procs, Popen(p) \/ SaveSnapshot(p)
  PROVE  IInv'
<1> USE DEF IInv
<1>1. PortsKnown' /\ NeverSignalsStranger'
  <2>1. UNCHANGED <<struck, yaml, cfg, port>>
    BY DEF Popen, SaveSnapshot, env, local
  <2> QED
    BY <2>1 DEF PortsKnown, NeverSignalsStranger
<1>2. CASE UNCHANGED host
  BY <1>1, <1>2 DEF HostOwned
<1>3. CASE \E q \in Pids : Set(host, q, Machine(p))
  <2>1. Owned(Machine(p))
    BY DEF Owned, Machine
  <2> QED
    BY <1>1, <1>3, <2>1, HostUpdate
<1>4. CASE monitor \in Pids /\ Set(host, monitor, Free)
  BY <1>1, <1>4, FreeOwned, HostUpdate
<1> QED
  BY <1>2, <1>3, <1>4 DEF Popen, SaveSnapshot, Listening, Qemus

\* SIGTERM and SIGKILL.
LEMMA SignalSteps ==
  ASSUME IInv, NEW p \in Procs, Terminate(p) \/ Escalate(p)
  PROVE  IInv'
<1> USE DEF IInv
<1>1. PortsKnown'
  BY DEF Terminate, Escalate, PortsKnown, env, local
<1>2. CASE UNCHANGED <<host, struck>>
  BY <1>1, <1>2 DEF HostOwned, NeverSignalsStranger
<1>3. ASSUME NEW q, PidIsQemu(p, q), Set(host, q, Free) \/ UNCHANGED host,
             struck' = struck \cup {[own |-> host[q].own, known |-> port[p] # NoPort]}
      PROVE  IInv'
  <2>1. q \in Pids
    BY <1>3 DEF PidIsQemu, Qemus
  <2>2. HostOwned'
    <3>1. CASE Set(host, q, Free)
      BY <2>1, <3>1, FreeOwned, HostUpdate
    <3>2. CASE UNCHANGED host
      BY <3>2 DEF HostOwned
    <3> QED
      BY <1>3, <3>1, <3>2
  <2> QED
    BY <1>1, <1>3, <2>2, Signalled
<1>4. CASE Terminate(p)
  BY <1>2, <1>3, <1>4 DEF Terminate, IsRunning
<1>5. CASE Escalate(p)
  BY <1>2, <1>3, <1>5 DEF Escalate
<1> QED
  BY <1>4, <1>5

\* What happens on the host by itself: a guest boots, a process exits, another
\* takes a free pid.
LEMMA HostSteps ==
  ASSUME IInv, NEW q \in Pids, GuestBoots(q) \/ Exits(q) \/ Stranger(q)
  PROVE  IInv'
<1> USE DEF IInv
<1>1. PortsKnown' /\ NeverSignalsStranger'
  BY DEF GuestBoots, Exits, Stranger, PortsKnown, NeverSignalsStranger, env, local, ghost
<1>2. CASE GuestBoots(q)
  <2>1. PICK g : Set(host, q, [host[q] EXCEPT !.guest = g])
    BY <1>2 DEF GuestBoots
  <2>2. Owned([host[q] EXCEPT !.guest = g])
    BY DEF HostOwned, Owned
  <2> QED
    BY <1>1, <2>1, <2>2, HostUpdate
<1>3. CASE Exits(q)
  BY <1>1, <1>3, FreeOwned, HostUpdate DEF Exits
<1>4. CASE Stranger(q)
  <2>1. PICK k : Set(host, q, [Free EXCEPT !.kind = k, !.port = ElsePort])
    BY <1>4 DEF Stranger
  <2>2. Owned([Free EXCEPT !.kind = k, !.port = ElsePort])
    BY VmAssumption DEF Owned, Free
  <2> QED
    BY <1>1, <2>1, <2>2, HostUpdate
<1> QED
  BY <1>2, <1>3, <1>4

\* Every step keeps the invariant.
LEMMA Inductive == IInv /\ [Next]_vars => IInv'
<1> SUFFICES ASSUME IInv, [Next]_vars PROVE IInv'
  OBVIOUS
<1>1. CASE UNCHANGED vars
  BY <1>1, Elsewhere DEF vars, env, local, ghost
<1>2. ASSUME NEW p \in Procs, Start(p) \/ Step(p) \/ Kill(p) PROVE IInv'
  BY <1>2, FileSteps, ConfigSteps, LaunchSteps, SignalSteps DEF Step
<1>3. CASE Edit
  BY <1>3, ConfigSteps
<1>4. CASE Rebuild
  BY <1>4, Elsewhere DEF Rebuild, files, local, ghost
<1>5. ASSUME NEW q \in Pids, GuestBoots(q) \/ Exits(q) \/ Stranger(q) PROVE IInv'
  BY <1>5, HostSteps
<1> QED
  BY <1>1, <1>2, <1>3, <1>4, <1>5 DEF Next

\* However pids are recycled, pidfiles go stale and commands race, a command
\* that knows its adb port signals only QEMUs of its own instance
\* (_pid_is_qemu, terminate, _escalate_if_alive).
THEOREM SignalsOwn == Spec => []NeverSignalsStranger
<1>1. IInv => NeverSignalsStranger
  BY DEF IInv
<1> QED
  BY <1>1, InitInv, Inductive, PTL DEF Spec
-----------------------------------------------------------------------------
(* Types: what a resumed machine was loaded from is a base only because a  *)
(* command that found a snapshot has the cache on.                         *)

CacheSteps == {"unlink", "check", "present", "discard", "discardKey", "create",
               "record", "decide", "booted", "save"}
EndSteps   == {"terminate", "grace", "unlinkPid"}

\* Where a command may be while it believes in a snapshot, with the cache on,
\* and on its way out.
LocalInv ==
  \A p \in Procs :
    /\ warm[p] => /\ cfg[p].cache
                  /\ \/ pc[p] \in {"idle", "start", "popen", "pidfile", "wait"}
                     \/ pc[p] \in EndSteps /\ after[p] = "failed"
    /\ pc[p] \in CacheSteps => cfg[p].cache
    /\ pc[p] \in EndSteps => after[p] # "none"

TypeInv == TypeOK /\ LocalInv

\* A free entry of the process table, and a base, have their types.
LEMMA FreeTyped == Free \in Machines /\ NoSnap \in Snaps
BY VmAssumption DEF Free, Machines, NoSnap, Snaps

\* What base_identity digests is a base.
LEMMA IdentTyped ==
  ASSUME TypeOK, NEW p \in Procs
  PROVE  Ident(p) \in Bases /\ cfg[p].port \in Ports /\ cfg[p].cache \in BOOLEAN
BY DEF TypeOK, Ident, Bases, Config

\* The machine a launch adds to the table.
LEMMA MachineTyped ==
  ASSUME TypeInv, NEW p \in Procs, Boots(p)
  PROVE  Machine(p) \in Machines
<1>1. Ident(p) \in Bases /\ cfg[p].port \in Ports
  BY IdentTyped DEF TypeInv
<1>2. Disk(p) \in 0..MaxDisks
  BY VmAssumption DEF TypeInv, TypeOK, Disk
<1>3. ASSUME warm[p] PROVE snap[overlay].base \in Bases \cup {NoBase}
  <2>1. overlay \in 1..MaxDisks
    BY <1>3, VmAssumption DEF TypeInv, TypeOK, LocalInv, Boots
  <2> QED
    BY <2>1 DEF TypeInv, TypeOK, Snaps
<1>4. seen[p] \in Bases \cup {NoBase} /\ warm[p] \in BOOLEAN
  BY DEF TypeInv, TypeOK
<1> QED
  BY <1>1, <1>2, <1>3, <1>4 DEF Machine, Machines

\* The first state.
LEMMA InitTypes == Init => TypeInv
<1> SUFFICES ASSUME Init PROVE TypeInv
  OBVIOUS
<1>1. TypeOK
  BY FreeTyped, VmAssumption DEF Init, TypeOK, Steps, Bases
<1>2. LocalInv
  BY DEF Init, LocalInv, CacheSteps, EndSteps
<1> QED
  BY <1>1, <1>2 DEF TypeInv

\* The steps of a call that leave the process table and the snapshots alone.
LEMMA CallTypes ==
  ASSUME TypeInv, NEW p \in Procs,
         \/ Start(p) \/ Load(p) \/ LoadRedroid(p) \/ LoadOrphan(p) \/ Resolve(p)
         \/ UnlinkMonitor(p)
         \/ CheckStale(p) \/ CheckPresent(p) \/ DiscardOverlay(p) \/ DiscardKey(p)
  PROVE  TypeInv'
<1> USE DEF TypeInv
<1>1. CASE Start(p)
  BY <1>1, VmAssumption DEF Start, TypeOK, LocalInv, Set, Go, Steps, CacheSteps, EndSteps,
     files, env, ghost
<1>2. CASE Load(p)
  <2>1. TypeOK'
    <3>1. cfg' \in [Procs -> Config] /\ port' \in [Procs -> Ports \cup {NoPort}]
      <4>1. CASE UNCHANGED <<cfg, port>>
        BY <4>1 DEF TypeOK
      <4>2. CASE \E c \in yaml : Set(cfg, p, c) /\ Set(port, p, c.port)
        <5>1. PICK c \in yaml : Set(cfg, p, c) /\ Set(port, p, c.port)
          BY <4>2
        <5>2. c \in Config /\ c.port \in Ports
          BY DEF TypeOK, Config
        <5> QED
          BY <5>1, <5>2 DEF TypeOK, Set
      <4> QED
        BY <1>2, <4>1, <4>2 DEF Load
    <3>2. /\ pc' \in [Procs -> Steps]
          /\ after' \in [Procs -> {"none", "idle", "resolve", "remove", "failed"}]
      BY <1>2 DEF Load, TypeOK, Set, Go, Steps
    <3> QED
      BY <1>2, <3>1, <3>2 DEF Load, TypeOK, files, env, ghost, count
  <2>2. LocalInv'
    BY <1>2 DEF Load, TypeOK, LocalInv, Set, Go, CacheSteps, EndSteps, Config
  <2> QED
    BY <2>1, <2>2
<1>9. CASE LoadRedroid(p)
  <2>1. cfg' \in [Procs -> Config] /\ pc' \in [Procs -> Steps]
        /\ stopped' \in {"no", "vm", "redroid"}
    BY <1>9 DEF LoadRedroid, TypeOK, Set, Go, Steps
  <2>2. LocalInv'
    BY <1>9 DEF LoadRedroid, TypeOK, LocalInv, Set, Go, CacheSteps, EndSteps, Config
  <2> QED
    BY <1>9, <2>1, <2>2 DEF LoadRedroid, TypeOK, files, env, count
<1>3. CASE LoadOrphan(p)
  BY <1>3 DEF LoadOrphan, TypeOK, LocalInv, Set, Go, Steps, CacheSteps, EndSteps,
     files, env, ghost, count
<1>4. CASE Resolve(p)
  BY <1>4 DEF Resolve, TypeOK, LocalInv, Set, Go, Steps, CacheSteps, EndSteps,
     files, env, local, ghost, count
<1>5. CASE UnlinkMonitor(p)
  BY <1>5 DEF UnlinkMonitor, TypeOK, LocalInv, Set, Go, Steps, CacheSteps, EndSteps,
     env, local, ghost, count
<1>6. CASE CheckStale(p)
  BY <1>6, IdentTyped DEF CheckStale, TypeOK, LocalInv, Set, Go, Steps, CacheSteps, EndSteps,
     files, env, ghost, count
<1>7. CASE CheckPresent(p)
  BY <1>7 DEF CheckPresent, TypeOK, LocalInv, Set, Go, Steps, CacheSteps, EndSteps,
     files, env, local, ghost, count
<1>8. CASE DiscardOverlay(p) \/ DiscardKey(p)
  BY <1>8 DEF DiscardOverlay, DiscardKey, TypeOK, LocalInv, Set, Go, Steps, CacheSteps,
     EndSteps, env, local, ghost, count
<1> QED
  BY <1>1, <1>2, <1>3, <1>4, <1>5, <1>6, <1>7, <1>8, <1>9

\* The overlay is made, its identity recorded, the snapshot looked for.
LEMMA OverlayTypes ==
  ASSUME TypeInv, NEW p \in Procs,
         CreateOverlay(p) \/ RecordIdentity(p) \/ DecideWarm(p)
  PROVE  TypeInv'
<1> USE DEF TypeInv
<1>1. CASE CreateOverlay(p)
  <2>1. LocalInv'
    BY <1>1 DEF CreateOverlay, TypeOK, LocalInv, Set, Go, CacheSteps, EndSteps, local
  <2>2. overlay' \in 0..disks' /\ disks' \in 0..MaxDisks /\ snap' \in [1..MaxDisks -> Snaps]
    <3>1. overlay \in 0..disks /\ disks \in 0..MaxDisks /\ snap \in [1..MaxDisks -> Snaps]
      BY DEF TypeOK
    <3>2. CASE UNCHANGED files
      BY <3>1, <3>2 DEF files
    <3>3. CASE /\ overlay = 0 /\ disks < MaxDisks /\ overlay' = disks + 1 /\ disks' = disks + 1
               /\ snap' = [snap EXCEPT ![overlay'] = NoSnap]
      BY <3>1, <3>3, FreeTyped, VmAssumption
    <3>4. CASE /\ overlay # 0 /\ overlay' = overlay /\ disks' = disks
               /\ snap' = [snap EXCEPT ![overlay'] = NoSnap]
      BY <3>1, <3>4, FreeTyped, VmAssumption
    <3> QED
      BY <1>1, <3>2, <3>3, <3>4 DEF CreateOverlay
  <2> QED
    BY <1>1, <2>1, <2>2 DEF CreateOverlay, TypeOK, Set, Go, Steps, files, env, local, ghost, count
<1>2. CASE RecordIdentity(p)
  BY <1>2, IdentTyped DEF RecordIdentity, TypeOK, LocalInv, Set, Go, Steps, CacheSteps,
     EndSteps, env, local, ghost, count
<1>3. CASE DecideWarm(p)
  <2>1. PICK yes \in BOOLEAN : Set(warm, p, yes)
    BY <1>3 DEF DecideWarm, QemuImgSays
  <2>2. warm' \in [Procs -> BOOLEAN]
    BY <2>1 DEF TypeOK, Set
  <2>3. LocalInv'
    BY <1>3, <2>1 DEF DecideWarm, TypeOK, LocalInv, Set, Go, CacheSteps, EndSteps
  <2> QED
    BY <1>3, <2>2, <2>3 DEF DecideWarm, TypeOK, Set, Go, Steps, files, env, ghost, count
<1> QED
  BY <1>1, <1>2, <1>3

\* How a failed launch leaves the command: one fallback, or the end.
LEMMA FailedTypes ==
  ASSUME TypeInv, NEW p \in Procs, NEW e, LaunchFailed(p, e),
         pc[p] \in {"start", "popen"} \cup EndSteps, UNCHANGED <<cfg, after>>
  PROVE  /\ pc' \in [Procs -> Steps]
         /\ warm' \in [Procs -> BOOLEAN] /\ retry' \in [Procs -> BOOLEAN]
         /\ LocalInv'
<1> USE DEF TypeInv
<1>1. CASE cfg[p].cache /\ warm[p] /\ e = "launch"
  <2>1. Go(p, "discard") /\ Set(warm, p, FALSE) /\ Set(retry, p, TRUE)
    BY <1>1 DEF LaunchFailed
  <2> QED
    BY <1>1, <2>1 DEF TypeOK, LocalInv, Set, Go, Steps, CacheSteps, EndSteps
<1>2. CASE ~(cfg[p].cache /\ warm[p] /\ e = "launch")
  <2>1. Go(p, "idle") /\ UNCHANGED <<warm, retry>>
    BY <1>2 DEF LaunchFailed
  <2> QED
    BY <2>1 DEF TypeOK, LocalInv, Set, Go, Steps, CacheSteps, EndSteps
<1> QED
  BY <1>1, <1>2

\* The launch, the waits and the checkpoint.
LEMMA LaunchTypes ==
  ASSUME TypeInv, NEW p \in Procs,
         \/ CheckRunning(p) \/ Popen(p) \/ WritePidfile(p) \/ Connected(p)
         \/ WaitFails(p) \/ WaitForBoot(p) \/ SaveSnapshot(p)
  PROVE  TypeInv'
<1> USE DEF TypeInv
<1>1. CASE CheckRunning(p)
  <2>1. CASE ~IsRunning(p)
    BY <1>1, <2>1 DEF CheckRunning, TypeOK, LocalInv, Set, Go, Steps, CacheSteps,
       EndSteps, files, env, ghost, count
  <2>2. CASE LaunchFailed(p, "launch")
    BY <1>1, <2>2, FailedTypes DEF CheckRunning, TypeOK, files, env, ghost, count
  <2> QED
    BY <1>1, <2>1, <2>2 DEF CheckRunning
<1>2. CASE Popen(p)
  <2>1. LocalInv'
    BY <1>2 DEF Popen, LaunchFailed, TypeOK, LocalInv, Set, Go, CacheSteps, EndSteps
  <2>2. host' \in [Pids -> Machines]
    BY <1>2, MachineTyped DEF Popen, TypeOK, Set
  <2>3. /\ monitor' \in Pids \cup {0} /\ qpid' \in [Procs -> Pids \cup {0}]
        /\ stopped' \in {"no", "vm", "redroid"}
    BY <1>2 DEF Popen, TypeOK, Set
  <2>4. /\ pc' \in [Procs -> Steps]
        /\ warm' \in [Procs -> BOOLEAN] /\ retry' \in [Procs -> BOOLEAN]
    <3>1. CASE LaunchFailed(p, "launch")
      BY <1>2, <3>1, FailedTypes DEF Popen
    <3>2. CASE Go(p, "pidfile") /\ UNCHANGED <<warm, retry>>
      BY <3>2 DEF TypeOK, Set, Go, Steps
    <3> QED
      BY <1>2, <3>1, <3>2 DEF Popen
  <2> QED
    BY <1>2, <2>1, <2>2, <2>3, <2>4 DEF Popen, TypeOK, env, count
<1>3. CASE WritePidfile(p)
  BY <1>3 DEF WritePidfile, TypeOK, LocalInv, Set, Go, Steps, CacheSteps, EndSteps,
     env, local, ghost, count
<1>4. CASE Connected(p)
  BY <1>4 DEF Connected, TypeOK, LocalInv, Set, Go, Steps, CacheSteps, EndSteps,
     files, env, local, ghost, count
<1>5. CASE WaitFails(p)
  BY <1>5 DEF WaitFails, TypeOK, LocalInv, Set, Go, Steps, CacheSteps, EndSteps,
     files, env, ghost, count
<1>6. CASE WaitForBoot(p)
  BY <1>6 DEF WaitForBoot, TypeOK, LocalInv, Set, Go, Steps, CacheSteps, EndSteps,
     files, env, local, ghost, count
<1>7. CASE SaveSnapshot(p)
  <2>1. host' \in [Pids -> Machines]
    BY <1>7, FreeTyped DEF SaveSnapshot, TypeOK, Set, Listening, Qemus
  <2>2. snap' \in [1..MaxDisks -> Snaps]
    <3>1. CASE UNCHANGED snap
      BY <3>1 DEF TypeOK
    <3>2. CASE Listening /\ Set(snap, host[monitor].disk,
                                [base |-> host[monitor].base, done |-> host[monitor].guest = "done"])
      <4>1. host[monitor].base \in Bases \cup {NoBase}
        BY <3>2 DEF Listening, Qemus, TypeOK, Machines
      <4>2. [base |-> host[monitor].base, done |-> host[monitor].guest = "done"] \in Snaps
        BY <4>1 DEF Snaps
      <4> QED
        BY <3>2, <4>2 DEF TypeOK, Set
    <3> QED
      BY <1>7, <3>1, <3>2 DEF SaveSnapshot
  <2> QED
    <3>1. LocalInv' /\ pc' \in [Procs -> Steps]
      BY <1>7 DEF SaveSnapshot, TypeOK, LocalInv, Set, Go, Steps, CacheSteps, EndSteps, local
    <3>2. wrote' \in [Procs -> BOOLEAN] /\ reply' \in [Procs -> {"none", "true", "false"}]
      <4>1. PICK said \in {"true", "false"}, w \in BOOLEAN : Set(reply, p, said) /\ Set(wrote, p, w)
        BY <1>7 DEF SaveSnapshot
      <4> QED
        BY <4>1 DEF TypeOK, Set
    <3> QED
      BY <1>7, <2>1, <2>2, <3>1, <3>2 DEF SaveSnapshot, TypeOK, env, local, count
<1> QED
  BY <1>1, <1>2, <1>3, <1>4, <1>5, <1>6, <1>7

\* terminate and what follows it, apply, and a kill of the command.
LEMMA EndTypes ==
  ASSUME TypeInv, NEW p \in Procs,
         \/ Terminate(p) \/ Escalate(p) \/ UnlinkPidfile(p) \/ RemoveRow(p) \/ Rmtree(p)
         \/ Stage(p) \/ Reconcile(p) \/ Kill(p)
  PROVE  TypeInv'
<1> USE DEF TypeInv
<1>a. ASSUME NEW q \in Pids
      PROVE  [own |-> host[q].own, known |-> port[p] # NoPort] \in [own : BOOLEAN, known : BOOLEAN]
  BY DEF TypeOK, Machines
<1>1. CASE Terminate(p)
  <2>1. CASE IsRunning(p)
    <3>1. pidfile \in Pids
      BY <2>1 DEF IsRunning, PidIsQemu, Qemus
    <3>2. host' \in [Pids -> Machines] /\ struck' \subseteq [own : BOOLEAN, known : BOOLEAN]
      BY <1>1, <1>a, <2>1, <3>1, FreeTyped DEF Terminate, TypeOK, Set
    <3> QED
      BY <1>1, <2>1, <3>1, <3>2 DEF Terminate, TypeOK, LocalInv, Set, Go, Steps, CacheSteps,
         EndSteps, files, env, count
  <2>2. CASE ~IsRunning(p)
    BY <1>1, <2>2 DEF Terminate, TypeOK, LocalInv, Set, Go, Steps, CacheSteps,
       EndSteps, files, env, count
  <2> QED
    BY <2>1, <2>2
<1>2. CASE Escalate(p)
  <2>1. host' \in [Pids -> Machines] /\ struck' \subseteq [own : BOOLEAN, known : BOOLEAN]
    <3>1. CASE UNCHANGED <<host, struck>>
      BY <3>1 DEF TypeOK
    <3>2. CASE PidIsQemu(p, qpid[p])
      <4>1. qpid[p] \in Pids
        BY <3>2 DEF PidIsQemu, Qemus
      <4> QED
        BY <1>2, <1>a, <3>2, <4>1, FreeTyped DEF Escalate, TypeOK, Set
    <3> QED
      BY <1>2, <3>1, <3>2 DEF Escalate
  <2> QED
    BY <1>2, <2>1 DEF Escalate, TypeOK, LocalInv, Set, Go, Steps, CacheSteps, EndSteps,
       files, env, local, count
<1>3. CASE UnlinkPidfile(p)
  <2>1. TypeOK'
    <3>1. /\ pc' \in [Procs -> Steps]
          /\ warm' \in [Procs -> BOOLEAN] /\ retry' \in [Procs -> BOOLEAN]
      <4>1. CASE LaunchFailed(p, err[p])
        BY <1>3, <4>1, FailedTypes DEF UnlinkPidfile, EndSteps
      <4>2. CASE after[p] # "failed" /\ Go(p, after[p]) /\ UNCHANGED <<warm, retry>>
        BY <1>3, <4>2 DEF UnlinkPidfile, TypeOK, LocalInv, EndSteps, Set, Go, Steps
      <4> QED
        BY <1>3, <4>1, <4>2 DEF UnlinkPidfile
    <3> QED
      BY <1>3, <3>1 DEF UnlinkPidfile, TypeOK, env, count
  <2>2. LocalInv'
    BY <1>3 DEF UnlinkPidfile, LaunchFailed, TypeOK, LocalInv, Set, Go, CacheSteps, EndSteps
  <2> QED
    BY <2>1, <2>2
<1>4. CASE RemoveRow(p) \/ Rmtree(p)
  <2>1. CASE RemoveRow(p)
    BY <2>1 DEF RemoveRow, TypeOK, LocalInv, Set, Go, Steps, CacheSteps, EndSteps,
       files, local, ghost, count
  <2>2. CASE Rmtree(p)
    BY <2>2 DEF Rmtree, TypeOK, LocalInv, Set, Go, Steps, CacheSteps, EndSteps,
       files, local, ghost, count
  <2> QED
    BY <1>4, <2>1, <2>2
<1>5. CASE Stage(p) \/ Reconcile(p)
  <2>1. CASE Stage(p)
    <3>1. cfg' \in [Procs -> Config] /\ port' \in [Procs -> Ports \cup {NoPort}]
      <4>1. CASE UNCHANGED <<cfg, port>>
        BY <4>1 DEF TypeOK
      <4>2. ASSUME NEW c \in yaml, Set(cfg, p, c), Set(port, p, c.port) PROVE <3>1
        <5>1. c \in Config /\ c.port \in Ports
          BY DEF TypeOK, Config
        <5> QED
          BY <4>2, <5>1 DEF TypeOK, Set
      <4> QED
        BY <2>1, <4>1, <4>2 DEF Stage
    <3>2. LocalInv'
      BY <2>1 DEF Stage, TypeOK, LocalInv, Set, Go, CacheSteps, EndSteps, Config
    <3>3. pc' \in [Procs -> Steps]
          /\ err' \in [Procs -> {"none", "launch", "other", "refused", "network"}]
      BY <2>1 DEF Stage, TypeOK, Set, Go, Steps
    <3> QED
      BY <2>1, <3>1, <3>2, <3>3 DEF Stage, TypeOK, files, env, ghost, count
  <2>2. CASE Reconcile(p)
    BY <2>2 DEF Reconcile, TypeOK, LocalInv, Set, Go, Steps, CacheSteps, EndSteps,
       files, env, local, ghost, count
  <2> QED
    BY <1>5, <2>1, <2>2
<1>6. CASE Kill(p)
  BY <1>6, VmAssumption DEF Kill, TypeOK, LocalInv, Set, Go, Steps, CacheSteps, EndSteps,
     files, env, local, ghost
<1> QED
  BY <1>1, <1>2, <1>3, <1>4, <1>5, <1>6

\* The user, the artifacts and the host.
LEMMA WorldTypes ==
  ASSUME TypeInv,
         Edit \/ Rebuild \/ \E q \in Pids : GuestBoots(q) \/ Exits(q) \/ Stranger(q)
  PROVE  TypeInv'
<1> USE DEF TypeInv
<1>1. LocalInv'
  BY DEF Edit, Rebuild, GuestBoots, Exits, Stranger, LocalInv, local
<1>2. CASE Edit
  BY <1>1, <1>2, VmAssumption DEF Edit, TypeOK, files, local, ghost
<1>3. CASE Rebuild
  BY <1>1, <1>3, VmAssumption DEF Rebuild, TypeOK, files, local, ghost, count
<1>4. ASSUME NEW q \in Pids, GuestBoots(q) \/ Exits(q) \/ Stranger(q) PROVE TypeInv'
  <2>1. host' \in [Pids -> Machines]
    <3>1. CASE GuestBoots(q)
      <4>1. PICK g \in {"adb", "done"} : Set(host, q, [host[q] EXCEPT !.guest = g])
        BY <3>1 DEF GuestBoots
      <4>2. host[q] \in Machines
        BY DEF TypeOK
      <4>3. [host[q] EXCEPT !.guest = g] \in Machines
        BY <4>2 DEF Machines
      <4> QED
        BY <4>1, <4>3 DEF TypeOK, Set
    <3>2. CASE Exits(q)
      BY <3>2, FreeTyped DEF Exits, TypeOK, Set
    <3>3. CASE Stranger(q)
      <4>1. PICK k \in {"other", "qemu"} :
                   Set(host, q, [Free EXCEPT !.kind = k, !.port = ElsePort])
        BY <3>3 DEF Stranger
      <4>2. [Free EXCEPT !.kind = k, !.port = ElsePort] \in Machines
        BY FreeTyped DEF Machines
      <4> QED
        BY <4>1, <4>2 DEF TypeOK, Set
    <3> QED
      BY <1>4, <3>1, <3>2, <3>3
  <2>2. strangers' \in 0..MaxStrangers
    <3>1. CASE UNCHANGED strangers
      BY <3>1 DEF TypeOK
    <3>2. CASE strangers < MaxStrangers /\ strangers' = strangers + 1
      BY <3>2, VmAssumption DEF TypeOK
    <3> QED
      BY <1>4, <3>1, <3>2 DEF GuestBoots, Exits, Stranger, count
  <2> QED
    BY <1>1, <1>4, <2>1, <2>2 DEF GuestBoots, Exits, Stranger, TypeOK, files, env, local,
       ghost, count
<1> QED
  BY <1>2, <1>3, <1>4

\* Every step of any number of commands keeps the types.
LEMMA InductiveTypes == TypeInv /\ [Next]_vars => TypeInv'
<1> SUFFICES ASSUME TypeInv, [Next]_vars PROVE TypeInv'
  OBVIOUS
<1>1. CASE UNCHANGED vars
  BY <1>1 DEF vars, TypeInv, TypeOK, LocalInv, files, env, local, ghost, count
<1>2. ASSUME NEW p \in Procs, Start(p) \/ Step(p) \/ Kill(p) PROVE TypeInv'
  BY <1>2, CallTypes, OverlayTypes, LaunchTypes, EndTypes DEF Step
<1> QED
  BY <1>1, <1>2, WorldTypes DEF Next
-----------------------------------------------------------------------------
(* The scenes: who acts, and what the configs say.                         *)

\* In a serial scene only the leader runs commands; a race leaves the artifacts
\* and the geometry alone; the scene of down keeps the adb port.
SceneInv ==
  /\ Serial => \A p \in Procs \ {Leader} : pc[p] = "idle" /\ verb[p] = "none"
  /\ scene = "race" => /\ art = 0
                       /\ \A c \in yaml : c.geo = FirstYaml.geo
                       /\ \A p \in Procs : cfg[p].geo = FirstYaml.geo
  /\ scene = "down" => /\ \A c \in yaml : c.port = FirstYaml.port
                       /\ \A p \in Procs : /\ cfg[p].port = FirstYaml.port
                                           /\ port[p] \in {FirstYaml.port, NoPort}

\* Whoever takes a step of a call in a serial scene is the leader.
LEMMA LeaderActs ==
  ASSUME TypeInv, SceneInv, Scene, Serial, NEW p \in Procs, Start(p) \/ Step(p) \/ Kill(p)
  PROVE  p = Leader
<1>1. CASE Start(p)
  BY <1>1, VmAssumption DEF Start, Scene, TypeInv, TypeOK, Set
<1>2. CASE Step(p)
  <2>1. pc[p] # "idle"
    BY <1>2 DEF Step, Load, LoadRedroid, LoadOrphan, Resolve, UnlinkMonitor, CheckStale,
       CheckPresent,
       DiscardOverlay, DiscardKey, CreateOverlay, RecordIdentity, DecideWarm, CheckRunning,
       Popen, WritePidfile, Connected, WaitFails, WaitForBoot, SaveSnapshot, Terminate,
       Escalate, UnlinkPidfile, RemoveRow, Rmtree, Stage, Reconcile
  <2> QED
    BY <2>1 DEF SceneInv
<1>3. CASE Kill(p)
  BY <1>3 DEF Kill, SceneInv
<1> QED
  BY <1>1, <1>2, <1>3

\* A step of a command changes that command's program counter and verb only.
LEMMA OneMoves ==
  ASSUME TypeInv, NEW p \in Procs, Start(p) \/ Step(p) \/ Kill(p)
  PROVE  \A r \in Procs \ {p} : pc'[r] = pc[r] /\ verb'[r] = verb[r]
<1> USE DEF TypeInv, TypeOK, Set, Go
<1>1. CASE \/ Start(p) \/ Load(p) \/ LoadRedroid(p) \/ LoadOrphan(p) \/ Resolve(p)
           \/ UnlinkMonitor(p)
           \/ CheckStale(p) \/ CheckPresent(p) \/ DiscardOverlay(p) \/ DiscardKey(p)
  BY <1>1 DEF Start, Load, LoadRedroid, LoadOrphan, Resolve, UnlinkMonitor, CheckStale,
     CheckPresent,
     DiscardOverlay, DiscardKey, local
<1>2. CASE \/ CreateOverlay(p) \/ RecordIdentity(p) \/ DecideWarm(p) \/ CheckRunning(p)
           \/ Popen(p) \/ WritePidfile(p) \/ Connected(p) \/ WaitFails(p) \/ WaitForBoot(p)
  BY <1>2 DEF CreateOverlay, RecordIdentity, DecideWarm, CheckRunning, Popen, LaunchFailed,
     WritePidfile, Connected, WaitFails, WaitForBoot, local
<1>3. CASE \/ SaveSnapshot(p) \/ Terminate(p) \/ Escalate(p) \/ UnlinkPidfile(p)
           \/ RemoveRow(p) \/ Rmtree(p) \/ Stage(p) \/ Reconcile(p) \/ Kill(p)
  BY <1>3 DEF SaveSnapshot, Terminate, Escalate, UnlinkPidfile, LaunchFailed, RemoveRow,
     Rmtree, Stage, Reconcile, Kill, local
<1> QED
  BY <1>1, <1>2, <1>3 DEF Step

\* A command has the config it read, a port of that config or none, and the
\* user's file is what the user made it.
LEMMA ConfigsRead ==
  ASSUME TypeInv, Next
  PROVE  /\ \A p \in Procs : /\ cfg'[p] = cfg[p] \/ cfg'[p] \in yaml
                             /\ port'[p] \in {port[p], NoPort, cfg'[p].port}
         /\ yaml' \in {yaml, {}} \/ edits' # edits
         /\ art' = art \/ Rebuild
<1> USE DEF TypeInv
<1>1. ASSUME NEW p \in Procs, Load(p) \/ LoadRedroid(p) \/ LoadOrphan(p) \/ Stage(p)
      PROVE  /\ \A r \in Procs : /\ cfg'[r] = cfg[r] \/ cfg'[r] \in yaml
                                 /\ port'[r] \in {port[r], NoPort, cfg'[r].port}
             /\ yaml' = yaml /\ art' = art
  BY <1>1 DEF Load, LoadRedroid, LoadOrphan, Stage, TypeOK, Set, env
<1>2. ASSUME NEW p \in Procs, Rmtree(p)
      PROVE  yaml' = {} /\ art' = art /\ UNCHANGED <<cfg, port>>
  BY <1>2 DEF Rmtree, local
<1>3. CASE Edit
  BY <1>3 DEF Edit, local, TypeOK
<1>4. CASE Rebuild
  BY <1>4 DEF Rebuild, local
<1>5. ASSUME NEW p \in Procs, Start(p) \/ Step(p) \/ Kill(p),
             ~(Load(p) \/ LoadRedroid(p) \/ LoadOrphan(p) \/ Stage(p) \/ Rmtree(p))
      PROVE  UNCHANGED <<cfg, port, yaml, art>>
  BY <1>5 DEF Step, Start, Resolve, UnlinkMonitor, CheckStale, CheckPresent,
       DiscardOverlay, DiscardKey, CreateOverlay, RecordIdentity, DecideWarm, CheckRunning,
       Popen, WritePidfile, Connected, WaitFails, WaitForBoot, SaveSnapshot, Terminate,
       Escalate, UnlinkPidfile, RemoveRow, Reconcile, Kill, env, local
<1>6. ASSUME NEW q \in Pids, GuestBoots(q) \/ Exits(q) \/ Stranger(q)
      PROVE  UNCHANGED <<cfg, port, yaml, art>>
  BY <1>6 DEF GuestBoots, Exits, Stranger, env, local
<1> QED
  BY <1>1, <1>2, <1>3, <1>4, <1>5, <1>6 DEF Next, Step

\* The facts about the scenes hold throughout.
LEMMA SceneStep ==
  ASSUME TypeInv, SceneInv, SceneNext
  PROVE  SceneInv'
<1> USE DEF SceneNext
<1>1. ASSUME Serial PROVE \A p \in Procs \ {Leader} : pc'[p] = "idle" /\ verb'[p] = "none"
  <2>1. ASSUME NEW p \in Procs, Start(p) \/ Step(p) \/ Kill(p)
        PROVE  \A r \in Procs \ {Leader} : pc'[r] = "idle" /\ verb'[r] = "none"
    BY <1>1, <2>1, LeaderActs, OneMoves DEF SceneInv
  <2>2. CASE Edit \/ Rebuild \/ \E q \in Pids : GuestBoots(q) \/ Exits(q) \/ Stranger(q)
    BY <1>1, <2>2 DEF Edit, Rebuild, GuestBoots, Exits, Stranger, local, SceneInv
  <2> QED
    BY <2>1, <2>2 DEF Next
<1>2. ASSUME scene = "race"
      PROVE  /\ art' = 0 /\ \A c \in yaml' : c.geo = FirstYaml.geo
             /\ \A p \in Procs : cfg'[p].geo = FirstYaml.geo
  BY <1>2, ConfigsRead DEF SceneInv, Scene
<1>3. ASSUME scene = "down"
      PROVE  /\ \A c \in yaml' : c.port = FirstYaml.port
             /\ \A p \in Procs : /\ cfg'[p].port = FirstYaml.port
                                 /\ port'[p] \in {FirstYaml.port, NoPort}
  BY <1>3, ConfigsRead DEF SceneInv, Scene
<1> QED
  BY <1>1, <1>2, <1>3 DEF SceneInv, Serial
-----------------------------------------------------------------------------
(* Checkpoints: the QEMU that answers on the monitor socket is the one the *)
(* up that saves has watched boot.                                         *)

\* From its unlink of the socket to the end of its up.
Watching(p) ==
  /\ cfg[p].cache
  /\ \/ pc[p] \in {"check", "present", "discard", "discardKey", "create", "record", "decide",
                   "start", "popen", "pidfile", "wait", "booted", "save"}
     \/ pc[p] \in EndSteps /\ after[p] = "failed"

\* QEMU exits when its adb port is taken: two of them never share one.
PortsApart ==
  \A q, r \in Pids : /\ host[q].kind = "qemu" /\ host[r].kind = "qemu"
                     /\ host[q].port \in Ports /\ host[q].port = host[r].port
                     => q = r

MonitorInv ==
  Serial => \A p \in Procs :
    /\ Watching(p) /\ Listening => host[monitor].port = cfg[p].port
    /\ pc[p] = "save" /\ Listening => host[monitor].guest = "done"

BootInv == PortsApart /\ MonitorInv /\ (Serial => SnapshotsBooted)

\* An entry that becomes free, another's, or moves on in its boot.
LEMMA HostMoves ==
  ASSUME TypeInv, NEW q \in Pids, GuestBoots(q) \/ Exits(q) \/ Stranger(q)
  PROVE  /\ \A r \in Pids \ {q} : host'[r] = host[r]
         /\ \/ host'[q].own = FALSE /\ host'[q].port \notin Ports /\ host'[q].disk = 0
               /\ host'[q].from = NoBase /\ host'[q].base = NoBase
            \/ /\ host'[q].kind = host[q].kind /\ host'[q].own = host[q].own
               /\ host'[q].port = host[q].port /\ host'[q].disk = host[q].disk
               /\ host'[q].base = host[q].base /\ host'[q].from = host[q].from
               /\ host'[q].seen = host[q].seen
               /\ host[q].guest # "done"
         /\ UNCHANGED <<files, env, pc, local, reply, wrote, stopped, struck>>
<1> USE DEF TypeInv, TypeOK
<1>1. CASE GuestBoots(q)
  <2>1. PICK g : Set(host, q, [host[q] EXCEPT !.guest = g])
    BY <1>1 DEF GuestBoots
  <2>2. host[q] \in Machines
    OBVIOUS
  <2>3. /\ host'[q].kind = host[q].kind /\ host'[q].own = host[q].own
        /\ host'[q].port = host[q].port /\ host'[q].disk = host[q].disk
        /\ host'[q].base = host[q].base /\ host'[q].from = host[q].from
        /\ host'[q].seen = host[q].seen
    BY <2>1, <2>2 DEF Set, Machines
  <2> QED
    BY <1>1, <2>1, <2>3 DEF GuestBoots, Set, ghost
<1>2. CASE Exits(q)
  BY <1>2, VmAssumption DEF Exits, Set, Free, ghost
<1>3. CASE Stranger(q)
  <2>1. PICK k : Set(host, q, [Free EXCEPT !.kind = k, !.port = ElsePort])
    BY <1>3 DEF Stranger
  <2>2. /\ host'[q].own = FALSE /\ host'[q].port = ElsePort /\ host'[q].disk = 0
        /\ host'[q].from = NoBase /\ host'[q].base = NoBase
    BY <2>1 DEF Set, Free
  <2> QED
    BY <1>3, <2>1, <2>2, VmAssumption DEF Stranger, Set, ghost
<1> QED
  BY <1>1, <1>2, <1>3

\* What a launch and a signal do to the table.
LEMMA LaunchMoves ==
  ASSUME TypeInv, NEW p \in Procs, Start(p) \/ Step(p) \/ Kill(p)
  PROVE  \/ host' = host
         \/ \E q \in Pids : /\ Set(host, q, Free)
                            /\ pc[p] \in {"save", "terminate", "grace"} /\ UNCHANGED snap
         \/ /\ Popen(p) /\ Boots(p)
            /\ \E q \in Pids : host[q].kind = "none" /\ Set(host, q, Machine(p))
<1>1. CASE Popen(p)
  BY <1>1 DEF Popen
<1>2. CASE SaveSnapshot(p)
  BY <1>2 DEF SaveSnapshot, Listening, Qemus
<1>3. CASE Terminate(p) \/ Escalate(p)
  BY <1>3 DEF Terminate, Escalate, IsRunning, PidIsQemu, Qemus, files
<1>4. CASE (Start(p) \/ Step(p) \/ Kill(p))
           /\ ~(Popen(p) \/ SaveSnapshot(p) \/ Terminate(p) \/ Escalate(p))
  BY <1>4 DEF Step, Start, Load, LoadRedroid, LoadOrphan, Resolve, UnlinkMonitor, CheckStale,
     CheckPresent,
       DiscardOverlay, DiscardKey, CreateOverlay, RecordIdentity, DecideWarm, CheckRunning,
       WritePidfile, Connected, WaitFails, WaitForBoot,
       UnlinkPidfile, RemoveRow, Rmtree, Stage, Reconcile, Kill
<1> QED
  BY <1>1, <1>2, <1>3, <1>4

\* Two QEMUs never share a port of this instance.
LEMMA PortsApartStep ==
  ASSUME TypeInv, PortsApart, Next
  PROVE  PortsApart'
<1>1. ASSUME NEW p \in Procs, Start(p) \/ Step(p) \/ Kill(p) PROVE PortsApart'
  <2>1. CASE host' = host
    BY <2>1 DEF PortsApart
  <2>2. CASE \E q \in Pids : Set(host, q, Free)
    BY <2>2 DEF PortsApart, Set, Free, TypeInv, TypeOK
  <2>3. CASE Boots(p) /\ \E q \in Pids : Set(host, q, Machine(p))
    BY <2>3 DEF PortsApart, Set, Machine, Boots, Qemus, TypeInv, TypeOK
  <2> QED
    BY <1>1, <2>1, <2>2, <2>3, LaunchMoves
<1>2. ASSUME NEW q \in Pids, GuestBoots(q) \/ Exits(q) \/ Stranger(q) PROVE PortsApart'
  <2> SUFFICES ASSUME NEW i \in Pids, NEW j \in Pids,
                      host'[i].kind = "qemu", host'[j].kind = "qemu",
                      host'[i].port \in Ports, host'[i].port = host'[j].port
               PROVE  i = j
    BY DEF PortsApart
  <2>1. \A r \in Pids : host'[r].port \in Ports =>
                          host'[r].port = host[r].port /\ host'[r].kind = host[r].kind
    BY <1>2, HostMoves
  <2> QED
    BY <2>1 DEF PortsApart
<1>3. CASE Edit \/ Rebuild
  BY <1>3 DEF Edit, Rebuild, PortsApart
<1> QED
  BY <1>1, <1>2, <1>3 DEF Next
\* The steps of up that look at the boot cache, and the waits: the table, the
\* socket and the config stay.
LEMMA WatchSteps ==
  ASSUME TypeInv, BootInv, Serial, NEW p \in Procs, UNCHANGED scene,
         \/ CheckStale(p) \/ CheckPresent(p) \/ DiscardOverlay(p) \/ DiscardKey(p)
         \/ CreateOverlay(p) \/ RecordIdentity(p) \/ DecideWarm(p) \/ CheckRunning(p)
         \/ WritePidfile(p) \/ Connected(p) \/ WaitFails(p) \/ WaitForBoot(p)
  PROVE  /\ (Watching(p) /\ Listening)' => host'[monitor'].port = cfg'[p].port
         /\ pc'[p] = "save" /\ Listening' => host'[monitor'].guest = "done"
<1> USE DEF TypeInv, TypeOK
<1>1. UNCHANGED <<host, monitor, cfg>> /\ (Listening' <=> Listening)
  BY DEF CheckStale, CheckPresent, DiscardOverlay, DiscardKey, CreateOverlay, RecordIdentity,
     DecideWarm, CheckRunning, WritePidfile, Connected, WaitFails, WaitForBoot, files, local,
     Listening, Qemus
<1>2. pc[p] \in {"check", "present", "discard", "discardKey", "create", "record", "decide",
                 "start", "pidfile", "wait", "booted"}
  BY DEF CheckStale, CheckPresent, DiscardOverlay, DiscardKey, CreateOverlay, RecordIdentity,
     DecideWarm, CheckRunning, WritePidfile, Connected, WaitFails, WaitForBoot
<1>3. Listening /\ cfg[p].cache => host[monitor].port = cfg[p].port
  BY <1>2 DEF BootInv, MonitorInv, Watching
<1>4. ASSUME pc'[p] = "save", Listening PROVE host[monitor].guest = "done"
  <2>1. pc[p] = "booted" /\ Reaches(p, {"done"})
    BY <1>4 DEF CheckStale, CheckPresent, DiscardOverlay, DiscardKey, CreateOverlay,
       RecordIdentity, DecideWarm, CheckRunning, LaunchFailed, WritePidfile, Connected,
       WaitFails, WaitForBoot, Set, Go
  <2>2. cfg[p].cache
    BY <2>1 DEF LocalInv, CacheSteps
  <2>3. PICK q \in Qemus : host[q].port = cfg[p].port /\ host[q].guest = "done"
    BY <2>1 DEF Reaches
  <2>4. cfg[p].port \in Ports
    BY IdentTyped
  <2>5. host[monitor].port = cfg[p].port /\ monitor \in Qemus
    BY <1>3, <1>4, <2>2 DEF Listening
  <2>6. q = monitor
    BY <2>3, <2>4, <2>5 DEF BootInv, PortsApart, Qemus
  <2> QED
    BY <2>3, <2>6
<1> QED
  BY <1>1, <1>3, <1>4 DEF Watching

\* The launch: the new QEMU takes the socket.
LEMMA WatchLaunch ==
  ASSUME TypeInv, BootInv, Serial, NEW p \in Procs, Popen(p)
  PROVE  /\ (Watching(p) /\ Listening)' => host'[monitor'].port = cfg'[p].port
         /\ pc'[p] # "save"
<1> USE DEF TypeInv, TypeOK
<1>1. pc'[p] # "save" /\ cfg' = cfg /\ pc[p] = "popen"
  BY DEF Popen, LaunchFailed, Set, Go
<1>2. CASE UNCHANGED <<host, monitor>>
  BY <1>1, <1>2 DEF BootInv, MonitorInv, Watching, Listening, Qemus
<1>3. CASE cfg[p].cache /\ \E q \in Pids : Set(host, q, Machine(p)) /\ monitor' = q
  BY <1>1, <1>3 DEF Set, Machine
<1>4. CASE ~cfg[p].cache
  BY <1>1, <1>4 DEF Watching
<1> QED
  BY <1>2, <1>3, <1>4 DEF Popen

\* The steps that end the watch, and the signals of a failed up.
LEMMA WatchEnds ==
  ASSUME TypeInv, BootInv, Serial, NEW p \in Procs,
         \/ Start(p) \/ Load(p) \/ LoadRedroid(p) \/ LoadOrphan(p) \/ Resolve(p)
         \/ UnlinkMonitor(p)
         \/ SaveSnapshot(p) \/ Terminate(p) \/ Escalate(p) \/ UnlinkPidfile(p)
         \/ RemoveRow(p) \/ Rmtree(p) \/ Stage(p) \/ Reconcile(p) \/ Kill(p)
  PROVE  /\ (Watching(p) /\ Listening)' => host'[monitor'].port = cfg'[p].port
         /\ pc'[p] # "save"
<1> USE DEF TypeInv, TypeOK, Set, Go, Watching, EndSteps
<1>1. CASE Start(p) \/ Load(p) \/ LoadRedroid(p) \/ LoadOrphan(p)
  BY <1>1 DEF Start, Load, LoadRedroid, LoadOrphan
<1>2. CASE Resolve(p)
  BY <1>2 DEF Resolve, local
<1>3. CASE UnlinkMonitor(p)
  <2>1. monitor' = 0 /\ pc'[p] = "check"
    BY <1>3 DEF UnlinkMonitor
  <2>2. ~Listening'
    BY <2>1, VmAssumption DEF Listening, Qemus
  <2> QED
    BY <2>1, <2>2
<1>4. CASE SaveSnapshot(p) \/ RemoveRow(p) \/ Rmtree(p) \/ Stage(p) \/ Reconcile(p) \/ Kill(p)
  BY <1>4 DEF SaveSnapshot, RemoveRow, Rmtree, Stage, Reconcile, Kill
<1>5. CASE Terminate(p) \/ Escalate(p)
  <2>1. /\ pc[p] \in EndSteps /\ pc'[p] \in EndSteps /\ UNCHANGED <<monitor, cfg, after>>
        /\ host' = host \/ \E q \in Pids : host' = [host EXCEPT ![q] = Free]
    BY <1>5 DEF Terminate, Escalate, IsRunning, PidIsQemu, Qemus, files, local
  <2>2. Listening' => Listening /\ host'[monitor] = host[monitor]
    BY <2>1 DEF Listening, Qemus, Free
  <2> QED
    BY <2>1, <2>2 DEF BootInv, MonitorInv
<1>6. CASE UnlinkPidfile(p)
  <2>1. pc[p] = "unlinkPid" /\ UNCHANGED <<host, monitor, cfg, after>> /\ pc'[p] # "save"
    BY <1>6 DEF UnlinkPidfile, LaunchFailed, LocalInv
  <2>2. Watching(p)' => Watching(p)
    BY <1>6, <2>1 DEF UnlinkPidfile, LaunchFailed, LocalInv
  <2>3. Listening' => Listening
    BY <2>1 DEF Listening, Qemus
  <2> QED
    BY <2>1, <2>2, <2>3 DEF BootInv, MonitorInv
<1> QED
  BY <1>1, <1>2, <1>3, <1>4, <1>5, <1>6

\* The QEMU on the monitor is the watched one, after every step.
LEMMA MonitorStep ==
  ASSUME TypeInv, SceneInv, SceneInv', BootInv, SceneNext
  PROVE  MonitorInv'
<1> SUFFICES ASSUME Serial, NEW r \in Procs
             PROVE  /\ (Watching(r) /\ Listening)' => host'[monitor'].port = cfg'[r].port
                    /\ pc'[r] = "save" /\ Listening' => host'[monitor'].guest = "done"
  BY DEF MonitorInv, SceneNext, Serial
<1> USE DEF SceneNext
<1>1. ASSUME NEW p \in Procs, Start(p) \/ Step(p) \/ Kill(p)
      PROVE  /\ (Watching(r) /\ Listening)' => host'[monitor'].port = cfg'[r].port
             /\ pc'[r] = "save" /\ Listening' => host'[monitor'].guest = "done"
  <2>1. p = Leader
    BY <1>1, LeaderActs
  <2>2. CASE r # p
    BY <2>1, <2>2 DEF SceneInv, Serial, Watching, EndSteps
  <2>3. CASE r = p
    BY <1>1, <2>3, WatchSteps, WatchLaunch, WatchEnds DEF Step
  <2> QED
    BY <2>2, <2>3
<1>2. ASSUME NEW q \in Pids, GuestBoots(q) \/ Exits(q) \/ Stranger(q)
      PROVE  /\ (Watching(r) /\ Listening)' => host'[monitor'].port = cfg'[r].port
             /\ pc'[r] = "save" /\ Listening' => host'[monitor'].guest = "done"
  <2>1. UNCHANGED <<monitor, pc, cfg, after>>
    BY <1>2, HostMoves DEF files, local
  <2>2. Watching(r)' <=> Watching(r)
    BY <2>1 DEF Watching
  <2>3. CASE monitor # q
    <3>1. Listening' => Listening /\ host'[monitor] = host[monitor]
      BY <1>2, <2>1, <2>3, HostMoves DEF Listening, Qemus
    <3> QED
      BY <2>1, <2>2, <3>1 DEF BootInv, MonitorInv
  <2>4. CASE monitor = q /\ Listening'
    <3>1. /\ host[q].kind = "qemu" /\ host[q].own /\ host'[q].port = host[q].port
          /\ host[q].guest # "done"
      BY <1>2, <2>1, <2>4, HostMoves DEF Listening, Qemus
    <3>2. Listening
      BY <2>4, <3>1 DEF Listening, Qemus
    <3> QED
      BY <2>1, <2>2, <2>4, <3>1, <3>2 DEF BootInv, MonitorInv
  <2> QED
    BY <2>3, <2>4
<1>3. CASE Edit \/ Rebuild
  <2>1. UNCHANGED <<host, monitor, pc, cfg, after>>
    BY <1>3 DEF Edit, Rebuild, files, local
  <2> QED
    BY <2>1 DEF BootInv, MonitorInv, Watching, Listening, Qemus
<1> QED
  BY <1>1, <1>2, <1>3 DEF Next

\* A checkpoint is written only by an up whose QEMU answers and has booted.
LEMMA BootStep ==
  ASSUME TypeInv, SceneInv, SceneInv', BootInv, SceneNext
  PROVE  BootInv'
<1> USE DEF SceneNext
<1>1. ASSUME Serial PROVE SnapshotsBooted'
  <2>1. SnapshotsBooted
    BY <1>1 DEF BootInv
  <2>2. ASSUME NEW p \in Procs, SaveSnapshot(p) PROVE SnapshotsBooted'
    <3>1. CASE UNCHANGED snap
      BY <2>1, <3>1 DEF SnapshotsBooted
    <3>2. CASE Listening /\ Set(snap, host[monitor].disk,
                  [base |-> host[monitor].base, done |-> host[monitor].guest = "done"])
      <4>1. host[monitor].guest = "done"
        BY <1>1, <2>2, <3>2 DEF SaveSnapshot, BootInv, MonitorInv
      <4>2. [base |-> host[monitor].base, done |-> host[monitor].guest = "done"].done
        BY <4>1
      <4> QED
        BY <2>1, <3>2, <4>2 DEF SnapshotsBooted, Set, TypeInv, TypeOK
    <3> QED
      BY <2>2, <3>1, <3>2 DEF SaveSnapshot
  <2>3. ASSUME NEW p \in Procs, CreateOverlay(p) PROVE SnapshotsBooted'
    <3>1. snap' = snap \/ snap' = [snap EXCEPT ![overlay'] = NoSnap]
      BY <2>3 DEF CreateOverlay, files
    <3> QED
      BY <2>1, <3>1 DEF SnapshotsBooted, TypeInv, TypeOK
  <2>4. CASE snap' = snap
    BY <2>1, <2>4 DEF SnapshotsBooted
  <2>5. ASSUME NEW p \in Procs, Start(p) \/ Step(p) \/ Kill(p),
               ~SaveSnapshot(p), ~CreateOverlay(p)
        PROVE  snap' = snap
    BY <2>5 DEF Step, Start, Load, LoadRedroid, LoadOrphan, Resolve, UnlinkMonitor, CheckStale,
       CheckPresent, DiscardOverlay, DiscardKey, RecordIdentity, DecideWarm, CheckRunning,
       Popen, WritePidfile, Connected, WaitFails, WaitForBoot, Terminate,
       Escalate, UnlinkPidfile, RemoveRow, Rmtree, Stage, Reconcile, Kill, files
  <2>6. CASE Edit \/ Rebuild \/ \E q \in Pids : GuestBoots(q) \/ Exits(q) \/ Stranger(q)
    BY <2>4, <2>6 DEF Edit, Rebuild, GuestBoots, Exits, Stranger, files
  <2> QED
    BY <2>2, <2>3, <2>4, <2>5, <2>6 DEF Next, Step
<1> QED
  BY <1>1, PortsApartStep, MonitorStep DEF BootInv, Serial
-----------------------------------------------------------------------------
(* down: while no command is killed, none races another and the port       *)
(* stays, the pidfile names the one QEMU of the instance as long as there   *)
(* is a row: a destroy by the redroid backend leaves it to nobody.          *)

Own(q) == host[q].kind = "qemu" /\ host[q].own

DownInv ==
  scene = "down" =>
    /\ kills = 0
    /\ \A q \in Pids : Own(q) => host[q].port = FirstYaml.port
    /\ stopped = "vm" => \A q \in Pids : ~Own(q)
    /\ \A p \in Procs : /\ pc[p] \in {"popen", "unlinkPid"} => \A q \in Pids : ~Own(q)
                        /\ pc[p] = "rmtree" => row = "none"
                        /\ row = "none" => pc[p] \in {"idle", "load", "rmtree"}
    /\ \A p \in Procs : pc[p] \in {"pidfile", "grace"} => \A q \in Pids : Own(q) => q = qpid[p]
    /\ row # "none" /\ (\A p \in Procs : pc[p] # "pidfile") =>
         \A q \in Pids : Own(q) => q = pidfile

\* A QEMU of the instance that the pidfile names is recognised, whether the
\* command has the port or not.
LEMMA OwnRecognised ==
  ASSUME TypeInv, SceneInv, DownInv, scene = "down", NEW p \in Procs, NEW q \in Pids, Own(q)
  PROVE  PidIsQemu(p, q)
BY DEF SceneInv, DownInv, Own, PidIsQemu, Qemus

\* The launch, its pidfile and the two signals.
LEMMA DownSignals ==
  ASSUME TypeInv, SceneInv, SceneInv', DownInv, SceneNext, scene = "down", NEW p \in Procs,
         p = Leader,
         CheckRunning(p) \/ Popen(p) \/ WritePidfile(p) \/ Terminate(p) \/ Escalate(p)
  PROVE  DownInv'
<1> USE DEF TypeInv, TypeOK, Set, Go
<1>0. /\ \A r \in Procs \ {p} : pc[r] = "idle" /\ pc'[r] = "idle"
      /\ scene' = scene /\ kills = 0
  BY DEF SceneInv, SceneNext, Serial, DownInv
<1>1. CASE CheckRunning(p)
  <2>1. pc[p] = "start" /\ pc'[p] \in {"popen", "discard", "idle"}
        /\ UNCHANGED <<host, row, pidfile, qpid, stopped, kills>>
    BY <1>1 DEF CheckRunning, LaunchFailed, files, env, ghost, count
  <2>2. row # "none" /\ \A q \in Pids : Own(q) => q = pidfile
    BY <1>0, <2>1 DEF DownInv
  <2>3. pc'[p] = "popen" => \A q \in Pids : ~Own(q)
    BY <1>1, <2>2, OwnRecognised DEF CheckRunning, LaunchFailed, IsRunning
  <2> QED
    BY <1>0, <2>1, <2>2, <2>3 DEF DownInv, Own
<1>2. CASE Popen(p)
  <2>1. \A q \in Pids : ~Own(q)
    BY <1>2 DEF Popen, DownInv
  <2>2. /\ kills' = kills /\ pc'[p] \in {"pidfile", "discard", "idle"}
        /\ row' = row /\ row # "none"
    BY <1>2 DEF Popen, LaunchFailed, DownInv, env, count
  <2>3. CASE host' = host
    BY <1>0, <2>1, <2>2, <2>3 DEF DownInv, Own
  <2>4. CASE \E q \in Pids : /\ qpid' = [qpid EXCEPT ![p] = q] /\ stopped' = "no"
                             /\ host' = [host EXCEPT ![q] = Machine(p)] /\ pc'[p] = "pidfile"
    <3>1. PICK q \in Pids : /\ qpid' = [qpid EXCEPT ![p] = q] /\ stopped' = "no"
                            /\ host' = [host EXCEPT ![q] = Machine(p)] /\ pc'[p] = "pidfile"
      BY <2>4
    <3>2. host'[q].port = cfg[p].port /\ cfg[p].port = FirstYaml.port
      BY <3>1 DEF Machine, SceneInv
    <3>3. \A r \in Pids : Own(r)' => r = q
      BY <2>1, <3>1 DEF Own
    <3>4. \A r \in Pids : Own(r)' => host'[r].port = FirstYaml.port
      BY <3>2, <3>3
    <3> QED
      BY <1>0, <2>2, <3>1, <3>3, <3>4 DEF DownInv
  <2> QED
    BY <1>2, <2>3, <2>4 DEF Popen
<1>3. CASE WritePidfile(p)
  BY <1>0, <1>3 DEF WritePidfile, DownInv, Own, env, local, ghost, count
<1>4. CASE Terminate(p)
  <2>1. UNCHANGED <<kills, stopped, pidfile, row>> /\ pc[p] = "terminate"
    BY <1>4 DEF Terminate, files, env, count
  <2>2. row # "none" /\ \A q \in Pids : Own(q) => q = pidfile
    BY <1>0, <2>1 DEF DownInv
  <2>3. CASE IsRunning(p)
    <3>1. pidfile \in Pids /\ qpid'[p] = pidfile /\ pc'[p] = "grace"
      BY <1>4, <2>3 DEF Terminate, IsRunning, PidIsQemu, Qemus
    <3>2. \A q \in Pids : Own(q)' => Own(q) /\ host'[q] = host[q]
      BY <1>4, <2>3, <3>1 DEF Terminate, Own, Free
    <3> QED
      BY <1>0, <2>1, <2>2, <3>1, <3>2 DEF DownInv
  <2>4. CASE ~IsRunning(p)
    <3>1. \A q \in Pids : ~Own(q)
      BY <2>2, <2>4, OwnRecognised DEF IsRunning
    <3>2. host' = host /\ qpid' = qpid /\ pc'[p] = "unlinkPid"
      BY <1>4, <2>4 DEF Terminate
    <3> QED
      BY <1>0, <2>1, <3>1, <3>2 DEF DownInv, Own
  <2> QED
    BY <2>3, <2>4
<1>5. CASE Escalate(p)
  <2>1. /\ UNCHANGED <<kills, stopped, pidfile, qpid, row>>
        /\ pc[p] = "grace" /\ pc'[p] = "unlinkPid"
    BY <1>5 DEF Escalate, files, env, local, count
  <2>2. row # "none" /\ \A q \in Pids : Own(q) => q = qpid[p]
    BY <2>1 DEF DownInv
  <2>3. \A q \in Pids : ~Own(q)'
    BY <1>5, <2>2, OwnRecognised DEF Escalate, Own, Free
  <2> QED
    BY <1>0, <2>1, <2>3 DEF DownInv
<1> QED
  BY <1>1, <1>2, <1>3, <1>4, <1>5

\* Every other step of a command: the table can only lose a QEMU.
LEMMA DownRest ==
  ASSUME TypeInv, SceneInv, SceneInv', DownInv, SceneNext, scene = "down", NEW p \in Procs,
         p = Leader, Start(p) \/ Step(p) \/ Kill(p),
         ~(CheckRunning(p) \/ Popen(p) \/ WritePidfile(p) \/ Terminate(p) \/ Escalate(p))
  PROVE  DownInv'
<1> USE DEF TypeInv, TypeOK, Set, Go
<1>0. /\ \A r \in Procs \ {p} : pc[r] = "idle" /\ pc'[r] = "idle"
      /\ scene' = scene /\ kills = 0
  BY DEF SceneInv, SceneNext, Serial, DownInv
<1>1. CASE UnlinkPidfile(p)
  <2>1. /\ pc[p] = "unlinkPid" /\ UNCHANGED <<host, row, kills>>
        /\ pc'[p] \notin {"pidfile", "grace", "rmtree"}
    BY <1>1 DEF UnlinkPidfile, LaunchFailed, LocalInv, EndSteps, env, count
  <2>2. row # "none" /\ \A q \in Pids : ~Own(q) /\ ~Own(q)'
    BY <2>1 DEF DownInv, Own
  <2> QED
    BY <1>0, <2>1, <2>2 DEF DownInv
<1>2. CASE RemoveRow(p) \/ Rmtree(p)
  <2>1. /\ UNCHANGED <<host, qpid, stopped, kills>> /\ row' = "none"
        /\ pc'[p] \in {"rmtree", "idle"}
    BY <1>2 DEF RemoveRow, Rmtree, DownInv, files, local, ghost, count
  <2> QED
    BY <1>0, <2>1 DEF DownInv, Own
<1>3. CASE SaveSnapshot(p)
  <2>1. /\ pc[p] = "save" /\ pc'[p] = "idle" /\ UNCHANGED <<pidfile, stopped, kills, qpid, row>>
        /\ \A q \in Pids : Own(q)' => Own(q) /\ host'[q] = host[q]
    BY <1>3 DEF SaveSnapshot, Own, Free, Listening, Qemus, env, local, count
  <2> QED
    BY <1>0, <2>1 DEF DownInv
<1>4. CASE Kill(p)
  BY <1>0, <1>4 DEF Kill, SceneNext, Scene
<1>5. CASE \/ Start(p) \/ Load(p) \/ LoadRedroid(p) \/ LoadOrphan(p) \/ Resolve(p)
           \/ UnlinkMonitor(p)
           \/ CheckStale(p) \/ CheckPresent(p) \/ DiscardOverlay(p) \/ DiscardKey(p)
           \/ CreateOverlay(p) \/ RecordIdentity(p) \/ DecideWarm(p) \/ Connected(p)
           \/ WaitFails(p) \/ WaitForBoot(p) \/ Stage(p) \/ Reconcile(p)
  <2>1. /\ pc[p] \notin {"pidfile", "grace", "popen", "unlinkPid", "rmtree"}
        /\ pc'[p] \notin {"pidfile", "grace", "popen", "unlinkPid", "rmtree"}
        /\ row = "none" => pc[p] \in {"idle", "load"}
        /\ row = "none" => pc'[p] \in {"idle", "load"}
    BY <1>5 DEF Start, Load, LoadRedroid, LoadOrphan, Resolve, UnlinkMonitor, CheckStale,
       CheckPresent,
       DiscardOverlay, DiscardKey, CreateOverlay, RecordIdentity, DecideWarm, Connected,
       WaitFails, WaitForBoot, Stage, Reconcile, DownInv
  <2>2. /\ UNCHANGED <<host, pidfile, qpid, kills>>
        /\ stopped' = "vm" => stopped = "vm"
        /\ row' = "none" <=> row = "none"
    BY <1>5 DEF Start, Load, LoadRedroid, LoadOrphan, Resolve, UnlinkMonitor, CheckStale,
       CheckPresent,
       DiscardOverlay, DiscardKey, CreateOverlay, RecordIdentity, DecideWarm, Connected,
       WaitFails, WaitForBoot, Stage, Reconcile, files, env, local, ghost, count
  <2> QED
    BY <1>0, <2>1, <2>2 DEF DownInv, Own
<1> QED
  BY <1>1, <1>2, <1>3, <1>4, <1>5 DEF Step

\* What the pidfile and the commands know of the instance's QEMU, after every
\* step.
LEMMA DownStep ==
  ASSUME TypeInv, SceneInv, SceneInv', DownInv, SceneNext
  PROVE  DownInv'
<1> SUFFICES ASSUME scene = "down" PROVE DownInv'
  BY DEF DownInv, SceneNext
<1> USE DEF SceneNext
<1>1. ASSUME NEW p \in Procs, Start(p) \/ Step(p) \/ Kill(p) PROVE DownInv'
  <2>1. p = Leader
    BY <1>1, LeaderActs DEF Serial
  <2> QED
    BY <1>1, <2>1, DownSignals, DownRest
<1>2. ASSUME NEW q \in Pids, GuestBoots(q) \/ Exits(q) \/ Stranger(q) PROVE DownInv'
  <2>1. UNCHANGED <<pidfile, pc, qpid, stopped, kills, row>>
    BY <1>2 DEF GuestBoots, Exits, Stranger, files, env, local, ghost, count
  <2>2. \A r \in Pids : Own(r)' => Own(r) /\ host'[r].port = host[r].port
    BY <1>2, HostMoves DEF Own
  <2> QED
    BY <2>1, <2>2 DEF DownInv
<1>3. CASE Edit \/ Rebuild
  <2>1. UNCHANGED <<host, pidfile, pc, qpid, stopped, kills, row>>
    BY <1>3 DEF Edit, Rebuild, files, local, ghost, count
  <2> QED
    BY <2>1 DEF DownInv, Own
<1> QED
  BY <1>1, <1>2, <1>3 DEF Next
-----------------------------------------------------------------------------
(* Warm resumes in a race: nothing is rebuilt and the geometry stays, so   *)
(* there is one base.                                                      *)

TheBase == <<0, FirstYaml.geo>>

\* The command has compared the overlay with a base since it last started.
Compared(p) ==
  \/ warm[p]
  \/ pc[p] \in {"present", "discard", "discardKey", "create", "record", "decide"}

RaceInv ==
  scene = "race" =>
    /\ \A q \in Pids : /\ host[q].base \in {NoBase, TheBase}
                       /\ host[q].from \in {NoBase, TheBase}
                       /\ host[q].from # NoBase => host[q].seen = TheBase
    /\ \A d \in 1..MaxDisks : snap[d].base \in {NoBase, TheBase}
    /\ \A p \in Procs : Compared(p) => seen[p] = TheBase

\* What the commands compared and what the snapshots hold.
LEMMA RaceCommands ==
  ASSUME TypeInv, SceneInv, RaceInv, scene = "race", NEW p \in Procs,
         Start(p) \/ Step(p) \/ Kill(p)
  PROVE  /\ \A r \in Procs : Compared(r)' => seen'[r] = TheBase
         /\ \A d \in 1..MaxDisks : snap'[d].base \in {NoBase, TheBase}
<1> USE DEF TypeInv, TypeOK, Set, Go
<1>0. Ident(p) = TheBase
  BY DEF Ident, TheBase, SceneInv
<1>1. \A d \in 1..MaxDisks : snap'[d].base \in {NoBase, TheBase}
  <2>1. CASE CreateOverlay(p)
    <3>1. snap' = snap \/ snap' = [snap EXCEPT ![overlay'] = NoSnap]
      BY <2>1 DEF CreateOverlay, files
    <3> QED
      <4>1. NoSnap.base = NoBase
        BY DEF NoSnap
      <4> QED
        BY <3>1, <4>1 DEF RaceInv
  <2>2. CASE SaveSnapshot(p)
    <3>1. \/ snap' = snap
          \/ /\ Listening
             /\ snap' = [snap EXCEPT ![host[monitor].disk] =
                  [base |-> host[monitor].base, done |-> host[monitor].guest = "done"]]
      BY <2>2 DEF SaveSnapshot
    <3>2. ASSUME NEW done, Listening,
                 snap' = [snap EXCEPT ![host[monitor].disk] =
                            [base |-> host[monitor].base, done |-> done]]
          PROVE  \A d \in 1..MaxDisks : snap'[d].base \in {NoBase, TheBase}
      BY <3>2 DEF RaceInv, Listening, Qemus
    <3> QED
      BY <3>1, <3>2 DEF RaceInv
  <2>3. CASE ~SaveSnapshot(p) /\ ~CreateOverlay(p)
    <3>1. snap' = snap
      BY <2>3 DEF Step, Start, Load, LoadRedroid, LoadOrphan, Resolve, UnlinkMonitor, CheckStale,
         CheckPresent, DiscardOverlay, DiscardKey, RecordIdentity, DecideWarm, CheckRunning,
         Popen, WritePidfile, Connected, WaitFails, WaitForBoot, Terminate,
         Escalate, UnlinkPidfile, RemoveRow, Rmtree, Stage, Reconcile, Kill, files
    <3> QED
      BY <3>1 DEF RaceInv
  <2> QED
    BY <2>1, <2>2, <2>3
<1>2. \A r \in Procs : Compared(r) => seen[r] = TheBase
  BY DEF RaceInv
<1>3. CASE CheckStale(p)
  <2>1. seen'[p] = TheBase /\ \A r \in Procs \ {p} : seen'[r] = seen[r]
    BY <1>0, <1>3 DEF CheckStale
  <2>2. \A r \in Procs \ {p} : Compared(r)' => Compared(r)
    BY <1>3 DEF CheckStale, Compared
  <2> QED
    BY <1>1, <1>2, <2>1, <2>2
<1>4. CASE CheckRunning(p) \/ Popen(p) \/ UnlinkPidfile(p)
  <2>1. seen' = seen /\ \A r \in Procs : Compared(r)' => Compared(r)
    BY <1>4 DEF CheckRunning, Popen, UnlinkPidfile, LaunchFailed, LocalInv, EndSteps, Compared
  <2> QED
    BY <1>1, <1>2, <2>1
<1>5. CASE ~CheckStale(p) /\ ~(CheckRunning(p) \/ Popen(p) \/ UnlinkPidfile(p))
  <2>1. seen' = seen
    BY <1>5 DEF Step, Start, Load, LoadRedroid, LoadOrphan, Resolve, UnlinkMonitor,
       CheckPresent, DiscardOverlay, DiscardKey, CreateOverlay, RecordIdentity, DecideWarm,
       WritePidfile, Connected, WaitFails, WaitForBoot, SaveSnapshot, Terminate,
       Escalate, RemoveRow, Rmtree, Stage, Reconcile, Kill, local
  <2>2. CASE Start(p) \/ DecideWarm(p)
    <3>1. \A r \in Procs : Compared(r)' => Compared(r)
      BY <2>2 DEF Start, DecideWarm, Compared
    <3> QED
      BY <1>1, <1>2, <2>1, <3>1
  <2>3. CASE ~Start(p) /\ ~DecideWarm(p)
    <3>1. warm' = warm
      BY <1>5, <2>3 DEF Step, Load, LoadRedroid, LoadOrphan, Resolve, UnlinkMonitor,
         CheckPresent, DiscardOverlay, DiscardKey, CreateOverlay, RecordIdentity,
         WritePidfile, Connected, WaitFails, WaitForBoot, SaveSnapshot, Terminate,
         Escalate, RemoveRow, Rmtree, Stage, Reconcile, Kill, local
    <3>2. \A r \in Procs : Compared(r)' => Compared(r)
      BY <1>5, <2>3, <3>1 DEF Step, Load, LoadRedroid, LoadOrphan, Resolve, UnlinkMonitor,
         CheckPresent, DiscardOverlay, DiscardKey, CreateOverlay, RecordIdentity,
         WritePidfile, Connected, WaitFails, WaitForBoot, SaveSnapshot, Terminate,
         Escalate, RemoveRow, Rmtree, Stage, Reconcile, Kill, Compared
    <3> QED
      BY <1>1, <1>2, <2>1, <3>2
  <2> QED
    BY <2>2, <2>3
<1> QED
  BY <1>1, <1>3, <1>4, <1>5

\* The machines of a race all run on the one base.
LEMMA RaceStep ==
  ASSUME TypeInv, SceneInv, RaceInv, SceneNext
  PROVE  RaceInv'
<1> SUFFICES ASSUME scene = "race" PROVE RaceInv'
  BY DEF RaceInv, SceneNext
<1> USE DEF SceneNext
<1>1. ASSUME NEW p \in Procs, Start(p) \/ Step(p) \/ Kill(p) PROVE RaceInv'
  <2>1. \A q \in Pids : /\ host'[q].base \in {NoBase, TheBase}
                        /\ host'[q].from \in {NoBase, TheBase}
                        /\ host'[q].from # NoBase => host'[q].seen = TheBase
    <3>1. CASE host' = host
      BY <3>1 DEF RaceInv
    <3>2. CASE \E q \in Pids : Set(host, q, Free)
      BY <3>2 DEF RaceInv, Set, Free, TypeInv, TypeOK
    <3>3. CASE Boots(p) /\ \E q \in Pids : Set(host, q, Machine(p))
      <4>1. Machine(p).base = TheBase
        BY DEF Machine, Ident, TheBase, SceneInv
      <4>2. Machine(p).seen = seen[p] /\ (warm[p] => seen[p] = TheBase)
        BY DEF Machine, RaceInv, Compared
      <4>3. /\ warm[p] => overlay \in 1..MaxDisks /\ Machine(p).from = snap[overlay].base
            /\ ~warm[p] => Machine(p).from = NoBase
        BY <3>3, VmAssumption DEF Machine, Boots, TypeInv, TypeOK, LocalInv
      <4>4. Machine(p).from \in {NoBase, TheBase} /\ (Machine(p).from # NoBase => warm[p])
        BY <4>3 DEF RaceInv
      <4> QED
        BY <3>3, <4>1, <4>2, <4>4 DEF RaceInv, Set, TypeInv, TypeOK
    <3> QED
      BY <1>1, <3>1, <3>2, <3>3, LaunchMoves
  <2> QED
    BY <1>1, <2>1, RaceCommands DEF RaceInv
<1>2. ASSUME NEW q \in Pids, GuestBoots(q) \/ Exits(q) \/ Stranger(q) PROVE RaceInv'
  <2>1. UNCHANGED <<snap, warm, pc, seen>>
    BY <1>2, HostMoves DEF files, local
  <2>2. \A r \in Pids : /\ host'[r].base \in {NoBase, TheBase}
                        /\ host'[r].from \in {NoBase, TheBase}
                        /\ host'[r].from # NoBase => host'[r].seen = TheBase
    <3> TAKE r \in Pids
    <3>1. CASE r # q
      <4>1. host'[r] = host[r]
        BY <1>2, <3>1, HostMoves
      <4> QED
        BY <4>1 DEF RaceInv
    <3>2. CASE r = q
      BY <1>2, <3>2, HostMoves DEF RaceInv
    <3> QED
      BY <3>1, <3>2
  <2> QED
    BY <2>1, <2>2 DEF RaceInv, Compared
<1>3. CASE Edit \/ Rebuild
  BY <1>3 DEF Edit, Rebuild, RaceInv, Compared, files, local
<1> QED
  BY <1>1, <1>2, <1>3 DEF Next
-----------------------------------------------------------------------------
(* Warm resumes of one command after another: the sidecar names the base   *)
(* of what the overlay holds and of the QEMU that runs on it, or a base    *)
(* that no config will ever name again.                                    *)

Tied(b) == key # NoBase /\ (b = key \/ key[1] < art)

\* The overlay and the machines on it.
DiskInv ==
  /\ \A q \in Pids : host[q].disk <= disks
  /\ overlay # 0 => /\ snap[overlay] # NoSnap => Tied(snap[overlay].base)
                    /\ \A q \in Pids : host[q].disk = overlay => Tied(host[q].base)

\* What a command that is at a step of _up_cached knows of the overlay.
OverlayAt(p) ==
  /\ pc[p] \in {"discardKey", "create"} => overlay = 0
  /\ pc[p] = "record" => /\ overlay # 0 /\ snap[overlay] = NoSnap
                         /\ \A q \in Pids : host[q].disk # overlay
  /\ pc[p] \in {"present", "decide", "start", "popen"} /\ cfg[p].cache =>
       overlay # 0 /\ key # NoBase /\ key[2] = cfg[p].geo /\ key[1] <= art
  /\ pc[p] \in {"present", "decide"} =>
       (snap[overlay] # NoSnap => snap[overlay].base = seen[p])
  /\ pc[p] \in {"start", "popen"} /\ warm[p] => snap[overlay].base = seen[p]

CacheInv == Serial => DiskInv /\ WarmMatches /\ \A p \in Procs : OverlayAt(p)

\* A base is a pair, and an identity is one of the artifacts as they are.
LEMMA BasePairs ==
  /\ \A b \in Bases : b # NoBase /\ b = <<b[1], b[2]>> /\ b[1] \in 0..MaxRebuilds
  /\ \A p : Ident(p)[1] = art /\ Ident(p)[2] = cfg[p].geo
BY DEF Bases, NoBase, Ident

\* The steps that touch neither the overlay, the sidecar nor the table.
LEMMA CacheQuiet ==
  ASSUME TypeInv, DiskInv, WarmMatches, NEW p \in Procs, OverlayAt(p),
         \/ Start(p) \/ Load(p) \/ LoadRedroid(p) \/ LoadOrphan(p) \/ Resolve(p)
         \/ UnlinkMonitor(p)
         \/ CheckPresent(p) \/ CheckRunning(p) \/ WritePidfile(p) \/ Connected(p)
         \/ WaitFails(p) \/ WaitForBoot(p) \/ UnlinkPidfile(p) \/ RemoveRow(p)
         \/ Stage(p) \/ Reconcile(p) \/ Kill(p)
  PROVE  DiskInv' /\ WarmMatches' /\ OverlayAt(p)'
<1> USE DEF TypeInv, TypeOK, Set, Go
<1>1. UNCHANGED <<host, overlay, key, snap, disks, art, seen>>
  BY DEF Start, Load, LoadRedroid, LoadOrphan, Resolve, UnlinkMonitor, CheckPresent, CheckRunning,
     WritePidfile, Connected, WaitFails, WaitForBoot, UnlinkPidfile, RemoveRow,
     Stage, Reconcile, Kill, files, env, local
<1>2. DiskInv' /\ WarmMatches'
  BY <1>1 DEF DiskInv, Tied, WarmMatches
<1>3. CASE CheckPresent(p)
  BY <1>1, <1>2, <1>3 DEF CheckPresent, OverlayAt, local
<1>4. CASE CheckRunning(p)
  <2>1. pc[p] = "start" /\ cfg' = cfg /\ pc'[p] \in {"popen", "discard", "idle"}
        /\ (pc'[p] = "popen" => warm' = warm)
    BY <1>4 DEF CheckRunning, LaunchFailed
  <2> QED
    BY <1>1, <1>2, <2>1 DEF OverlayAt
<1>5. CASE Resolve(p)
  <2>1. cfg' = cfg /\ warm' = warm /\ (pc'[p] = "start" => ~cfg[p].cache)
        /\ pc'[p] \in {"idle", "unlink", "start"} /\ pc[p] = "resolve"
    BY <1>5 DEF Resolve, local
  <2>2. ~warm[p]
    BY <2>1 DEF LocalInv, EndSteps
  <2> QED
    BY <1>2, <2>1, <2>2 DEF OverlayAt
<1>6. CASE ~(CheckPresent(p) \/ CheckRunning(p) \/ Resolve(p))
  <2>1. pc'[p] \notin {"discardKey", "create", "record", "present", "decide", "start", "popen"}
    BY <1>6 DEF Start, Load, LoadRedroid, LoadOrphan, UnlinkMonitor, WritePidfile, Connected,
       WaitFails,
       WaitForBoot, UnlinkPidfile, LaunchFailed, LocalInv, EndSteps, RemoveRow, Stage,
       Reconcile, Kill
  <2> QED
    BY <1>2, <2>1 DEF OverlayAt
<1> QED
  BY <1>3, <1>4, <1>5, <1>6

\* overlay_is_stale, and the overlay discarded and made anew.
LEMMA CacheOverlay ==
  ASSUME TypeInv, DiskInv, WarmMatches, NEW p \in Procs, OverlayAt(p),
         \/ CheckStale(p) \/ DiscardOverlay(p) \/ DiscardKey(p) \/ CreateOverlay(p)
         \/ RecordIdentity(p) \/ DecideWarm(p) \/ Rmtree(p)
  PROVE  DiskInv' /\ WarmMatches' /\ OverlayAt(p)'
<1> USE DEF TypeInv, TypeOK, Set, Go
<1>0. host' = host /\ art' = art /\ WarmMatches'
  BY DEF CheckStale, DiscardOverlay, DiscardKey, CreateOverlay, RecordIdentity, DecideWarm,
     Rmtree, env, WarmMatches
<1>1. CASE CheckStale(p)
  <2>1. UNCHANGED <<overlay, key, snap, disks, cfg, warm>> /\ seen'[p] = Ident(p)
    BY <1>1 DEF CheckStale, files
  <2>2. DiskInv'
    BY <1>0, <2>1 DEF DiskInv, Tied
  <2>3. pc'[p] \in {"create", "discard", "present"} /\ (pc'[p] = "create" => overlay = 0)
        /\ (pc'[p] = "present" => overlay # 0 /\ key = Ident(p))
    BY <1>1 DEF CheckStale, IsStale
  <2>4. Ident(p) \in Bases
    BY IdentTyped
  <2>5. key = Ident(p) => key # NoBase /\ key[2] = cfg[p].geo /\ key[1] = art
    BY <2>4, BasePairs
  <2>6. pc'[p] = "present" /\ snap[overlay] # NoSnap => snap[overlay].base = Ident(p)
    BY <2>3, <2>5, VmAssumption DEF DiskInv, Tied
  <2> QED
    BY <1>0, <2>1, <2>2, <2>3, <2>5, <2>6, VmAssumption DEF OverlayAt
<1>2. CASE DiscardOverlay(p) \/ DiscardKey(p) \/ Rmtree(p)
  <2>1. overlay' = 0 /\ disks' = disks /\ pc'[p] \in {"discardKey", "create", "idle"}
    BY <1>2 DEF DiscardOverlay, DiscardKey, Rmtree, OverlayAt
  <2> QED
    BY <1>0, <2>1 DEF DiskInv, OverlayAt
<1>3. CASE CreateOverlay(p)
  <2>1. overlay = 0 /\ key' = key
    BY <1>3 DEF CreateOverlay, OverlayAt, files
  <2>2. CASE UNCHANGED <<overlay, snap, disks>> /\ pc'[p] = "idle"
    BY <1>0, <2>1, <2>2 DEF DiskInv, OverlayAt
  <2>3. CASE /\ overlay' = disks + 1 /\ disks' = disks + 1 /\ disks < MaxDisks
             /\ snap' = [snap EXCEPT ![disks + 1] = NoSnap] /\ pc'[p] = "record"
    <3>1. overlay' \in 1..MaxDisks /\ snap'[overlay'] = NoSnap
      BY <2>3, VmAssumption
    <3>2. \A q \in Pids : host[q].disk \in 0..MaxDisks /\ host[q].disk <= disks
      BY DEF DiskInv, Machines
    <3>3. \A q \in Pids : host'[q].disk # overlay' /\ host'[q].disk <= disks'
      BY <1>0, <2>3, <3>2, VmAssumption
    <3> QED
      BY <1>0, <2>3, <3>1, <3>3 DEF DiskInv, OverlayAt
  <2> QED
    BY <1>3, <2>1, <2>2, <2>3 DEF CreateOverlay, files
<1>4. CASE RecordIdentity(p)
  <2>1. /\ overlay # 0 /\ snap[overlay] = NoSnap /\ \A q \in Pids : host[q].disk # overlay
        /\ UNCHANGED <<overlay, snap, disks, cfg, warm, seen>> /\ key' = Ident(p)
        /\ pc[p] = "record" /\ pc'[p] \in {"start", "decide"}
    BY <1>4 DEF RecordIdentity, OverlayAt, local
  <2>2. key' # NoBase /\ key'[2] = cfg[p].geo /\ key'[1] = art
    BY <2>1, IdentTyped, BasePairs
  <2>3. ~warm[p]
    BY <2>1 DEF LocalInv, EndSteps
  <2> QED
    BY <1>0, <2>1, <2>2, <2>3, VmAssumption DEF DiskInv, OverlayAt
<1>5. CASE DecideWarm(p)
  <2>1. UNCHANGED <<overlay, snap, disks, cfg, seen, key>> /\ pc[p] = "decide" /\ pc'[p] = "start"
    BY <1>5 DEF DecideWarm, files
  <2>2. cfg[p].cache
    BY <2>1 DEF LocalInv, CacheSteps
  <2>3. warm'[p] => snap[overlay] # NoSnap
    BY <1>5 DEF DecideWarm, QemuImgSays
  <2>4. DiskInv'
    BY <1>0, <2>1 DEF DiskInv, Tied
  <2> QED
    BY <1>0, <2>1, <2>2, <2>3, <2>4 DEF OverlayAt
<1> QED
  BY <1>1, <1>2, <1>3, <1>4, <1>5

\* The launch, the checkpoint and the signals.
LEMMA CacheMachines ==
  ASSUME TypeInv, DiskInv, WarmMatches, NEW p \in Procs, OverlayAt(p),
         Popen(p) \/ SaveSnapshot(p) \/ Terminate(p) \/ Escalate(p)
  PROVE  DiskInv' /\ WarmMatches' /\ OverlayAt(p)'
<1> USE DEF TypeInv, TypeOK, Set, Go
<1>0. /\ UNCHANGED <<overlay, key, disks, art>>
      /\ pc'[p] \in {"pidfile", "discard", "idle", "grace", "unlinkPid"}
      /\ OverlayAt(p)'
  BY DEF Popen, LaunchFailed, SaveSnapshot, Terminate, Escalate, OverlayAt, files, env
<1>1. ASSUME host' = host \/ \E q \in Pids : host' = [host EXCEPT ![q] = Free], snap' = snap
      PROVE  DiskInv' /\ WarmMatches'
  <2>1. /\ Free.disk = 0 /\ Free.from = NoBase /\ disks >= 0
    BY VmAssumption DEF Free
  <2>2. \A q \in Pids : host'[q] = host[q] \/ host'[q] = Free
    BY <1>1
  <2>3. DiskInv'
    BY <1>0, <1>1, <2>1, <2>2 DEF DiskInv, Tied
  <2> QED
    BY <2>1, <2>2, <2>3 DEF WarmMatches
<1>2. CASE Popen(p)
  <2>1. snap' = snap /\ pc[p] = "popen"
    BY <1>2 DEF Popen
  <2>2. ASSUME Boots(p), NEW q \in Pids, host' = [host EXCEPT ![q] = Machine(p)]
        PROVE  DiskInv' /\ WarmMatches'
    <3>1. Machine(p).base = Ident(p) /\ Machine(p).disk = Disk(p) /\ Disk(p) <= disks
      BY VmAssumption DEF Machine, Disk
    <3>2. Disk(p) # 0 => Tied(Ident(p))
      <4>1. ASSUME Disk(p) # 0 PROVE key # NoBase /\ key[2] = cfg[p].geo /\ key[1] <= art
        BY <2>1, <4>1 DEF OverlayAt, Disk
      <4>2. ASSUME Disk(p) # 0 PROVE key = <<key[1], cfg[p].geo>> /\ key[1] \in 0..MaxRebuilds
        BY <4>1, <4>2, BasePairs
      <4> QED
        BY <4>1, <4>2, VmAssumption DEF Tied, Ident
    <3>3. DiskInv'
      BY <1>0, <2>1, <2>2, <3>1, <3>2 DEF DiskInv, Tied
    <3>4. Machine(p).seen = seen[p] /\ Machine(p).from = (IF warm[p] THEN snap[overlay].base ELSE NoBase)
      BY DEF Machine
    <3>5. WarmMatches'
      BY <2>1, <2>2, <3>4 DEF WarmMatches, OverlayAt
    <3> QED
      BY <3>3, <3>5
  <2>3. CASE host' = host
    BY <1>0, <1>1, <2>1, <2>3
  <2> QED
    BY <1>0, <1>2, <2>2, <2>3 DEF Popen
<1>3. CASE SaveSnapshot(p)
  <2>1. ASSUME NEW done, Listening, host' = host,
               snap' = [snap EXCEPT ![host[monitor].disk] =
                          [base |-> host[monitor].base, done |-> done]]
        PROVE  DiskInv' /\ WarmMatches'
    <3>1. monitor \in Pids
      BY <2>1 DEF Listening, Qemus
    <3>2. overlay # 0 /\ host[monitor].disk = overlay => snap'[overlay].base = host[monitor].base
      BY <2>1, VmAssumption
    <3>3. host[monitor].disk # overlay => snap'[overlay] = snap[overlay]
      BY <2>1
    <3> QED
      BY <1>0, <2>1, <3>1, <3>2, <3>3 DEF DiskInv, Tied, WarmMatches
  <2> QED
    BY <1>0, <1>1, <1>3, <2>1 DEF SaveSnapshot, Listening, Qemus
<1>4. CASE Terminate(p) \/ Escalate(p)
  BY <1>0, <1>1, <1>4 DEF Terminate, Escalate, IsRunning, PidIsQemu, Qemus, files
<1> QED
  BY <1>0, <1>2, <1>3, <1>4

\* One command after another, with rebuilds, edits and kills at any step.
LEMMA CacheStep ==
  ASSUME TypeInv, SceneInv, SceneInv', CacheInv, SceneNext
  PROVE  CacheInv'
<1> SUFFICES ASSUME Serial PROVE DiskInv' /\ WarmMatches' /\ \A r \in Procs : OverlayAt(r)'
  BY DEF CacheInv, SceneNext, Serial
<1> USE DEF SceneNext
<1>0. DiskInv /\ WarmMatches /\ \A p \in Procs : OverlayAt(p)
  BY DEF CacheInv
<1>1. ASSUME NEW p \in Procs, Start(p) \/ Step(p) \/ Kill(p)
      PROVE  DiskInv' /\ WarmMatches' /\ \A r \in Procs : OverlayAt(r)'
  <2>1. DiskInv' /\ WarmMatches' /\ OverlayAt(p)'
    BY <1>0, <1>1, CacheQuiet, CacheOverlay, CacheMachines DEF Step
  <2>2. p = Leader
    BY <1>1, LeaderActs
  <2>3. ASSUME NEW r \in Procs, r # p PROVE OverlayAt(r)'
    <3>1. pc'[r] = "idle"
      BY <2>2, <2>3 DEF SceneInv, Serial
    <3> QED
      BY <3>1 DEF OverlayAt
  <2> QED
    BY <2>1, <2>3
<1>2. ASSUME NEW q \in Pids, GuestBoots(q) \/ Exits(q) \/ Stranger(q)
      PROVE  DiskInv' /\ WarmMatches' /\ \A r \in Procs : OverlayAt(r)'
  <2>1. UNCHANGED <<overlay, key, snap, disks, art, pc, cfg, warm, seen>>
    BY <1>2, HostMoves DEF files, env, local
  <2>2. \A i \in Pids : /\ host'[i].disk = 0 \/ (/\ host'[i].disk = host[i].disk
                                                 /\ host'[i].base = host[i].base)
                        /\ host'[i].from = NoBase \/ (/\ host'[i].from = host[i].from
                                                      /\ host'[i].seen = host[i].seen)
    BY <1>2, HostMoves
  <2>3. WarmMatches'
    BY <1>0, <2>2 DEF WarmMatches
  <2>4. DiskInv'
    <3>1. disks >= 0
      BY VmAssumption DEF TypeInv, TypeOK
    <3>2. \A b : Tied(b)' <=> Tied(b)
      BY <2>1 DEF Tied
    <3> QED
      BY <1>0, <2>1, <2>2, <3>1, <3>2 DEF DiskInv
  <2>5. \A r \in Procs : OverlayAt(r)'
    BY <1>0, <2>1, <2>2 DEF OverlayAt
  <2> QED
    BY <2>3, <2>4, <2>5
<1>3. CASE Edit
  BY <1>0, <1>3 DEF Edit, files, local, DiskInv, Tied, WarmMatches, OverlayAt
<1>4. CASE Rebuild
  <2>1. UNCHANGED <<host, overlay, key, snap, disks, pc, cfg, warm, seen>> /\ art' = art + 1
    BY <1>4 DEF Rebuild, files, local
  <2>2. key # NoBase => key[1] \in 0..MaxRebuilds /\ art \in 0..MaxRebuilds
    BY BasePairs DEF TypeInv, TypeOK
  <2>3. \A b : Tied(b) => Tied(b)'
    BY <2>1, <2>2, VmAssumption DEF Tied
  <2>4. DiskInv' /\ WarmMatches'
    BY <1>0, <2>1, <2>3 DEF DiskInv, WarmMatches
  <2>5. \A r \in Procs : OverlayAt(r)'
    BY <1>0, <2>1, <2>2, VmAssumption DEF OverlayAt
  <2> QED
    BY <2>4, <2>5
<1> QED
  BY <1>1, <1>2, <1>3, <1>4 DEF Next
-----------------------------------------------------------------------------

SceneIInv == TypeInv /\ SceneInv /\ BootInv /\ DownInv /\ RaceInv /\ CacheInv

\* The invariant holds before the first command.
LEMMA InitScenes == MCInit => SceneIInv
<1> SUFFICES ASSUME MCInit PROVE SceneIInv
  OBVIOUS
<1> USE DEF MCInit, Init
<1>1. TypeInv
  BY InitTypes
<1>2. SceneInv
  BY DEF SceneInv
<1>3. \A q \in Pids : /\ host[q].kind = "none" /\ host[q].disk = 0
                      /\ host[q].base = NoBase /\ host[q].from = NoBase
  BY DEF Free
<1>4. BootInv
  BY <1>3 DEF BootInv, PortsApart, MonitorInv, Watching, EndSteps, SnapshotsBooted
<1>5. DownInv
  BY <1>3 DEF DownInv, Own
<1>6. RaceInv
  <2>1. NoSnap.base = NoBase
    BY DEF NoSnap
  <2> QED
    BY <1>3, <2>1 DEF RaceInv, Compared
<1>7. CacheInv
  BY <1>3 DEF CacheInv, DiskInv, WarmMatches, OverlayAt
<1> QED
  BY <1>1, <1>2, <1>4, <1>5, <1>6, <1>7 DEF SceneIInv

\* Every step keeps it.
LEMMA InductiveScenes == SceneIInv /\ [SceneNext]_<<vars, scene>> => SceneIInv'
<1> SUFFICES ASSUME SceneIInv, [SceneNext]_<<vars, scene>> PROVE SceneIInv'
  OBVIOUS
<1> USE DEF SceneIInv
<1>1. CASE SceneNext
  <2>1. TypeInv'
    BY <1>1, InductiveTypes DEF SceneNext
  <2>2. SceneInv'
    BY <1>1, SceneStep
  <2> QED
    BY <1>1, <2>1, <2>2, BootStep, DownStep, RaceStep, CacheStep
<1>2. CASE UNCHANGED <<vars, scene>>
  <2>1. UNCHANGED <<host, files, env, pc, local, ghost, count, scene>>
    BY <1>2 DEF vars
  <2>2. TypeInv' /\ SceneInv'
    BY <2>1 DEF TypeInv, TypeOK, LocalInv, SceneInv, Serial, files, env, local, ghost, count
  <2>3. BootInv'
    BY <2>1 DEF BootInv, PortsApart, MonitorInv, Watching, Listening, Qemus, SnapshotsBooted,
       Serial, files, local
  <2>4. DownInv'
    BY <2>1 DEF DownInv, Own, files, env, local, ghost, count
  <2>5. RaceInv'
    BY <2>1 DEF RaceInv, Compared, files, local
  <2>6. CacheInv'
    BY <2>1 DEF CacheInv, DiskInv, Tied, WarmMatches, OverlayAt, Serial, files, env, local
  <2> QED
    BY <2>2, <2>3, <2>4, <2>5, <2>6
<1> QED
  BY <1>1, <1>2

\* A warm resume loads a snapshot taken on the base its up compared the overlay
\* with (_up_cached): one command after another with rebuilds, edits and kills
\* at every step, and any number of racing commands while nothing is rebuilt
\* and the geometry stays.
THEOREM WarmResumesTrue == SceneSpec => []WarmMatches
<1>1. SceneIInv => WarmMatches
  <2> SUFFICES ASSUME SceneIInv PROVE WarmMatches
    OBVIOUS
  <2>1. CASE scene = "race"
    BY <2>1 DEF SceneIInv, RaceInv, WarmMatches
  <2>2. CASE scene # "race"
    BY <2>2 DEF SceneIInv, CacheInv, Serial
  <2> QED
    BY <2>1, <2>2
<1> QED
  BY <1>1, InitScenes, InductiveScenes, PTL DEF SceneSpec

\* One command after another, every checkpoint save_snapshot writes is of a
\* guest that had finished booting: the QEMU on the monitor socket is the one
\* whose boot the up has waited for.  In every scene the files, the process
\* table and the commands have their types.
THEOREM CheckpointsBooted == SceneSpec => []SerialSnapshotsBooted
<1>1. SceneIInv => SerialSnapshotsBooted
  BY DEF SceneIInv, TypeInv, BootInv, SerialSnapshotsBooted
<1> QED
  BY <1>1, InitScenes, InductiveScenes, PTL DEF SceneSpec

\* After a down, a destroy or the first half of a restart no QEMU of the
\* instance is left until the next launch (terminate and _escalate_if_alive),
\* while commands follow one another, none is killed and the adb port stays.
THEOREM DownsStop == SceneSpec => []SerialDownStops
<1>1. SceneIInv => SerialDownStops
  BY DEF SceneIInv, DownInv, SerialDownStops, DownStops, Own, Qemus
<1> QED
  BY <1>1, InitScenes, InductiveScenes, PTL DEF SceneSpec
=============================================================================
