------------------------------ MODULE HostPlan ------------------------------
(***************************************************************************)
(* What beetroot says about a host and what it then does on it: the probes *)
(* and verdicts of hostcheck.py and capabilities.py (beetroot modes), the  *)
(* rows of beetroot doctor (Instance.health, VmDeviceBackend.health), and  *)
(* up and restart of one instance, whose preflight runs a moment before    *)
(* the start it decides about.  The host changes in between.               *)
(***************************************************************************)
EXTENDS Integers, FiniteSets

CONSTANTS
  Binders,     \* the values of `binder` an instance may have
  HostActs,    \* what may happen to the host
  MaxChanges   \* bound on the changes of the host

\* What a model of the commands must give these constants.
HostPlanAssumption ==
  /\ Binders \subseteq {"auto", "host", "vm"} /\ MaxChanges \in Nat
  /\ HostActs \subseteq {"modprobe", "rmmod", "qemu", "docker", "daemon", "daemonStops", "adb",
                         "kvmGroup", "artifacts", "rmArtifacts"}

VARIABLES
  host,     \* the facts the probes read
  inst,     \* the instance: [binder, accel, cache], the last its boot cache
  box,      \* its container or virtual machine runs
  pc, verb, \* the command under way
  plan,     \* the plan of the last preflight
  same,     \* no change of the host since that preflight
  out,      \* how the last up or restart ended
  report,   \* what modes said, {} when the host changed since
  rows,     \* what doctor said, {} when the host changed or a command ended since
  changes

vars == <<host, inst, box, pc, verb, plan, same, out, report, rows, changes>>

KernelConfigs == {"y", "m", "not-set"}
Unreadable    == "unreadable"
Facts == {"x86", "dev", "binderfs", "qemu", "qemuImg", "docker", "daemon", "adb", "artifacts"}

\* The kernel config a file shows is the kernel's; either file may be unreadable.
Init ==
  /\ \E on \in SUBSET Facts, k \in KernelConfigs, kvm \in {"absent", "denied", "usable"},
        gz \in BOOLEAN, boot \in BOOLEAN :
       /\ ("daemon" \in on => "docker" \in on)
       /\ ({"dev", "binderfs"} \cap on # {} => k # "not-set")
       /\ host = [on |-> on, kernel |-> k, kvm |-> kvm,
                  gz |-> IF gz THEN k ELSE Unreadable, boot |-> IF boot THEN k ELSE Unreadable]
  /\ inst \in {i \in [binder : Binders, accel : {"auto", "kvm", "tcg"}, cache : BOOLEAN] :
                 i.binder # "vm" => i.accel = "auto" /\ ~i.cache}
  /\ box = FALSE /\ pc = "idle" /\ verb = "none" /\ plan = "none" /\ same = TRUE
  /\ out = "none" /\ report = {} /\ rows = {} /\ changes = 0

-----------------------------------------------------------------------------
(* hostcheck: what the host can do about binder.                           *)

Has(fact) == fact \in host.on

\* _kernel_config_binder: /proc/config.gz, else /boot/config-<release>.
KernelConfigBinder == IF host.gz # Unreadable THEN host.gz ELSE host.boot

\* Mutant: a kernel that could not be read counts as one without binder.
BugClassify ==
  IF Has("dev") \/ Has("binderfs") THEN "ready"
  ELSE IF KernelConfigBinder \in {"y", "m"} THEN "loadable" ELSE "unsupported"

Classify ==
  IF Has("dev") \/ Has("binderfs") THEN "ready"
  ELSE CASE KernelConfigBinder \in {"y", "m"} -> "loadable"
         [] KernelConfigBinder = "not-set"    -> "unsupported"
         [] OTHER                             -> "unknown"

\* plan_binder_runtime
Plan(binder) ==
  CASE binder = "vm"      -> "vm"
    [] binder # "vm" /\ Classify = "ready" -> "proceed"
    [] binder = "host" /\ Classify # "ready" -> "block"
    [] binder = "auto" /\ Classify # "ready" -> "warn"

\* qemu.detect_accel: KVM virtualises the host's own architecture only.
DetectAccel(requested) ==
  LET usable == Has("x86") /\ host.kvm = "usable"
  IN CASE requested = "tcg"              -> "tcg"
       [] requested = "kvm" /\ ~usable   -> "error"
       [] requested # "tcg" /\ usable    -> "kvm"
       [] requested = "auto" /\ ~usable  -> "tcg"

-----------------------------------------------------------------------------
(* capabilities: the verdict on each run-mode.                             *)

DaemonResponsive == Has("docker") /\ Has("daemon")

\* Mutant: the daemon is not probed.
BugRedroidHost ==
  CASE ~Has("x86")                                 -> "unsupported"
    [] Has("x86") /\ Classify = "ready"            -> IF Has("docker") THEN "supported" ELSE "needs-setup"
    [] Has("x86") /\ Classify = "loadable"         -> "needs-setup"
    [] Has("x86") /\ Classify \notin {"ready", "loadable"} -> Classify

RedroidHost ==
  CASE ~Has("x86")                                 -> "unsupported"
    [] Has("x86") /\ Classify = "ready"            -> IF DaemonResponsive THEN "supported" ELSE "needs-setup"
    [] Has("x86") /\ Classify = "loadable"         -> "needs-setup"
    [] Has("x86") /\ Classify \notin {"ready", "loadable"} -> Classify

VmKvm ==
  CASE ~Has("x86") \/ DetectAccel("auto") # "kvm" -> "unsupported"
    [] OTHER -> IF Has("qemu") THEN "supported" ELSE "needs-setup"

VmTcg    == IF Has("qemu") THEN "supported" ELSE "needs-setup"
AdbAdopt == IF Has("adb") THEN "supported" ELSE "needs-setup"

\* survey, as the set of its rows
Survey ==
  {[mode |-> "redroid", status |-> RedroidHost], [mode |-> "kvm", status |-> VmKvm],
   [mode |-> "tcg", status |-> VmTcg], [mode |-> "adb", status |-> AdbAdopt]}

-----------------------------------------------------------------------------
(* doctor: the health rows.                                                *)

\* Mutant: a binder that cannot be determined is skipped in host mode too.
BugCheckHostBinder(binder) ==
  CASE binder = "vm" \/ Classify = "unknown" -> "skip"
    [] binder # "vm" /\ Classify = "ready" -> "pass"
    [] OTHER -> "fail"

CheckHostBinder(binder) ==
  CASE binder = "vm" \/ (Classify = "unknown" /\ binder # "host") -> "skip"
    [] binder # "vm" /\ Classify = "ready" -> "pass"
    [] OTHER -> "fail"

\* ps_status: a daemon that does not answer is not a stopped container.
PsStatus ==
  CASE ~DaemonResponsive        -> "docker-unreachable"
    [] DaemonResponsive /\ box  -> "running"
    [] DaemonResponsive /\ ~box -> "not-created"

PassIf(b) == IF b THEN "pass" ELSE "fail"

\* Mutant: no row looks for the emulator.
BugVmHealth ==
  {[check |-> "vm.process", status |-> PassIf(box)],
   [check |-> "vm.accel", status |-> PassIf(DetectAccel(inst.accel) # "error")],
   [check |-> "vm.artifacts", status |-> PassIf(Has("artifacts"))],
   [check |-> "adb.connect", status |-> IF Has("adb") THEN PassIf(box) ELSE "skip"]}

\* The rows of a virtual machine; adb without an adb binary is skipped.
VmHealth ==
  {[check |-> "vm.process", status |-> PassIf(box)],
   [check |-> "vm.accel", status |-> PassIf(DetectAccel(inst.accel) # "error")],
   [check |-> "vm.qemu", status |-> PassIf(Has("qemu"))],
   [check |-> "vm.artifacts", status |-> PassIf(Has("artifacts"))],
   [check |-> "adb.connect", status |-> IF Has("adb") THEN PassIf(box) ELSE "skip"]}

Health ==
  {[check |-> "compose.status", status |-> PassIf(PsStatus = "running")],
   [check |-> "host.binder", status |-> CheckHostBinder(inst.binder)]}

-----------------------------------------------------------------------------
(* The commands.                                                           *)

Modes ==
  /\ pc = "idle" /\ report' = Survey
  /\ UNCHANGED <<host, inst, box, pc, verb, plan, same, out, rows, changes>>

\* What doctor says is about the next command: the last one is history.
Doctor ==
  /\ pc = "idle" /\ rows' = (IF inst.binder = "vm" THEN VmHealth ELSE Health)
  /\ verb' = "none" /\ plan' = "none" /\ out' = "none"
  /\ UNCHANGED <<host, inst, box, pc, same, report, changes>>

Start ==
  /\ pc = "idle" /\ pc' = "preflight" /\ verb' \in {"up", "restart"}
  /\ out' = "none" /\ plan' = "none" /\ rows' = (IF out = "none" THEN rows ELSE {})
  /\ UNCHANGED <<host, inst, box, same, report, changes>>

\* The binder preflight of a redroid up, the banner of a vm up or restart.  A
\* redroid restart has neither.
Preflight ==
  /\ pc = "preflight" /\ same' = TRUE
  /\ LET p == Plan(inst.binder)
         refused == p = "block" \/ (p = "vm" /\ DetectAccel(inst.accel) = "error")
     IN IF verb = "restart" /\ inst.binder # "vm"
        THEN pc' = "down" /\ UNCHANGED <<plan, out>>
        ELSE /\ plan' = p
             /\ pc' = IF refused THEN "idle" ELSE IF verb = "restart" THEN "down" ELSE "start"
             /\ out' = CASE p = "block" -> "blocked" [] p # "block" /\ refused -> "accel"
                         [] OTHER -> out
  /\ UNCHANGED <<host, inst, box, verb, report, rows, changes>>

\* lc.restart() stops first: the virtual machine, or the container with compose.
LifecycleDown ==
  /\ pc = "down"
  /\ IF inst.binder # "vm" /\ ~DaemonResponsive
     THEN pc' = "idle" /\ out' = "compose" /\ UNCHANGED box
     ELSE pc' = "start" /\ box' = FALSE /\ UNCHANGED out
  /\ UNCHANGED <<host, inst, verb, plan, same, report, rows, changes>>

\* How the up of a virtual machine may end, by what it meets first: the
\* accelerator, the artifacts, qemu-img when there is a boot cache, a machine
\* that is already running, QEMU, adb, and a guest that may not answer in time.
VmUpEnds ==
  IF DetectAccel(inst.accel) = "error" THEN {"accel"}
  ELSE IF ~Has("artifacts") THEN {"artifacts"}
  ELSE IF inst.cache /\ ~Has("qemuImg") THEN {"qemuImg"}
  ELSE IF box THEN {"running"}
  ELSE IF ~Has("qemu") THEN {"qemu"}
  ELSE IF ~Has("adb") THEN {"adb"} ELSE {"started", "boot"}

\* lc.up(): a machine that adb cannot reach is terminated again; a container
\* needs a docker daemon.
LifecycleUp ==
  /\ pc = "start" /\ pc' = "idle"
  /\ out' \in IF inst.binder = "vm" THEN VmUpEnds
               ELSE IF DaemonResponsive THEN {"started"} ELSE {"compose"}
  /\ box' = (box \/ out' = "started")
  /\ UNCHANGED <<host, inst, verb, plan, same, report, rows, changes>>

-----------------------------------------------------------------------------
(* The host.                                                               *)

Became(on, kvm) == host' = [host EXCEPT !.on = on, !.kvm = kvm]

HostAct(a) ==
  CASE a = "modprobe"    -> host.kernel # "not-set" /\ Became(host.on \cup {"dev", "binderfs"}, host.kvm)
    [] a = "rmmod"       -> host.kernel = "m" /\ Became(host.on \ {"dev", "binderfs"}, host.kvm)
    [] a = "daemon"      -> Has("docker") /\ Became(host.on \cup {"daemon"}, host.kvm)
    [] a = "daemonStops" -> Became(host.on \ {"daemon"}, host.kvm)
    [] a = "kvmGroup"    -> host.kvm = "denied" /\ Became(host.on, "usable")
    [] a = "rmArtifacts" -> Became(host.on \ {"artifacts"}, host.kvm)
    [] OTHER             -> Became(host.on \cup {a}, host.kvm)

\* The host changes: what modes and doctor said is history.
HostChanges ==
  /\ changes < MaxChanges /\ changes' = changes + 1
  /\ \E a \in HostActs : HostAct(a)
  /\ host' # host /\ report' = {} /\ rows' = {} /\ same' = FALSE
  /\ UNCHANGED <<inst, box, pc, verb, plan, out>>

\* Mutant: a loadable binder is answered with docker's remedy.
BugRemedy ==
  IF inst.binder = "vm" THEN "qemu" ELSE IF Has("docker") THEN "daemon" ELSE "docker"

\* The remedy printed for the mode the instance runs in.
Remedy ==
  CASE inst.binder = "vm"                            -> "qemu"
    [] inst.binder # "vm" /\ Classify = "loadable"   -> "modprobe"
    [] inst.binder # "vm" /\ Classify # "loadable"   -> IF Has("docker") THEN "daemon" ELSE "docker"

\* The status modes reports for the mode of the instance.
ModeStatus ==
  CASE inst.binder # "vm" -> RedroidHost
    [] inst.binder = "vm" /\ inst.accel = "kvm" -> VmKvm
    [] inst.binder = "vm" /\ inst.accel # "kvm" -> VmTcg

FollowRemedy ==
  /\ ModeStatus = "needs-setup" /\ HostAct(Remedy)
  /\ report' = {} /\ rows' = {} /\ same' = FALSE
  /\ UNCHANGED <<inst, box, pc, verb, plan, out, changes>>

Next ==
  \/ Modes \/ Doctor \/ Start \/ Preflight \/ LifecycleDown \/ LifecycleUp
  \/ HostChanges \/ FollowRemedy

\* A user who does what the remedy says.
Spec == Init /\ [][Next]_vars /\ WF_vars(FollowRemedy)

-----------------------------------------------------------------------------
(* Properties.                                                             *)

TypeOK ==
  /\ host.on \subseteq Facts /\ host.kernel \in KernelConfigs
  /\ host.gz \in KernelConfigs \cup {Unreadable} /\ host.boot \in KernelConfigs \cup {Unreadable}
  /\ host.kvm \in {"absent", "denied", "usable"} /\ ("daemon" \in host.on => "docker" \in host.on)
  /\ box \in BOOLEAN /\ pc \in {"idle", "preflight", "down", "start"} /\ same \in BOOLEAN
  /\ verb \in {"none", "up", "restart"} /\ plan \in {"none", "proceed", "warn", "block", "vm"}
  /\ out \in {"none", "started", "blocked", "accel", "artifacts", "qemuImg", "running", "qemu",
              "adb", "boot", "compose"}
  /\ \A r \in report : r.status \in {"supported", "needs-setup", "unsupported", "unknown"}
  /\ \A r \in rows : r.status \in {"pass", "fail", "skip"}

Said(mode) == \E r \in report : r.mode = mode /\ r.status = "supported"
Row(check, status) == \E r \in rows : r.check = check /\ r.status = status

\* What modes calls supported starts: on the same host, up is not refused for
\* want of binder, docker, an accelerator or QEMU.
SupportedStarts ==
  same =>
    /\ Said("redroid") /\ inst.binder # "vm" => out \notin {"blocked", "compose"}
    /\ Said("kvm") /\ inst.binder = "vm" => out \notin {"accel", "qemu"}
    /\ Said("tcg") /\ inst.binder = "vm" => out # "qemu"

\* The host.binder row of doctor is what up does about the host's binder: pass
\* when it starts without a word, fail in strict mode when it refuses.
DoctorMatchesUp ==
  same /\ plan # "none" /\ inst.binder # "vm" =>
    /\ Row("host.binder", "pass") => plan = "proceed"
    /\ rows # {} /\ plan = "proceed" => Row("host.binder", "pass")
    /\ rows # {} /\ plan = "block" => Row("host.binder", "fail")

\* The row of doctor that foretells how the next vm up or restart fails.
Omen == [accel     |-> [check |-> "vm.accel", status |-> "fail"],
         artifacts |-> [check |-> "vm.artifacts", status |-> "fail"],
         qemu      |-> [check |-> "vm.qemu", status |-> "fail"],
         adb       |-> [check |-> "adb.connect", status |-> "skip"]]

\* A vm up or restart that follows doctor fails for want of an accelerator, the
\* artifacts, QEMU or adb only if that very row said so, and starts only if none
\* of the four did; it is refused as already running only as an up of a machine
\* that vm.process saw, and starts as an up only if vm.process saw none.  A
\* qemu-img that is missing under a boot cache, and a guest that does not
\* answer, have no row (VmFailuresForetold).
VmDoctorPredicts ==
  inst.binder = "vm" /\ rows # {} /\ same =>
    /\ \A end \in DOMAIN Omen : /\ out = end => Omen[end] \in rows
                                /\ out = "started" => Omen[end] \notin rows
    /\ out = "running" => verb = "up" /\ Row("vm.process", "pass")
    /\ out = "started" /\ verb = "up" => Row("vm.process", "fail")

\* Whatever stops a vm up but the guest itself is one of the four rows: not so of
\* qemu-img, which no row looks for, nor of a machine that runs, which is green.
VmFailuresForetold ==
  inst.binder = "vm" /\ rows # {} /\ same /\ out \notin {"none", "started", "boot"} =>
    \E end \in DOMAIN Omen : Omen[end] \in rows

\* doctor foretells up in either backend: its binder row what a redroid up does
\* about the host's binder, its vm rows what a vm up makes of the four things they
\* look for and of a machine that runs.
DoctorPredicts == TypeOK /\ DoctorMatchesUp /\ VmDoctorPredicts

\* A kernel that may have binder is never called unsupported on an x86 host: a
\* setup step never turns an unsupported redroid host into another.
UnsupportedRedroidStays ==
  [][RedroidHost = "unsupported" => RedroidHost' = "unsupported"]_vars

\* The same of the KVM mode.
UnsupportedKvmStays ==
  [][VmKvm = "unsupported" => VmKvm' = "unsupported"]_vars

\* The remedies lead out: on a host that otherwise stays as it is, a mode that
\* needs setup becomes supported when each remedy in turn is followed.
RemediesLead ==
  ModeStatus = "needs-setup" /\ changes = MaxChanges ~> ModeStatus = "supported"

\* The verdicts of modes are worth following: no setup step helps a redroid host
\* called unsupported, and the remedies of one that needs setup lead to supported.
VerdictsTrue == UnsupportedRedroidStays /\ RemediesLead
=============================================================================
