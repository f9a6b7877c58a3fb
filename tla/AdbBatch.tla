------------------------------ MODULE AdbBatch ------------------------------
(***************************************************************************)
(* `module --auto-install` on an adopted device: the batch of              *)
(* AdbDevice.auto_install_modules (src/beetroot/backends/adb.py), its      *)
(* pre-flight, its per-module rows and the abort when the device drops.    *)
(*                                                                         *)
(* The device and the adb server are outside: a command over adb may fail, *)
(* with or without its effect, at any moment, and the link may drop, hang  *)
(* or come back between any two of them.  A zip is the source it was       *)
(* pushed from.                                                            *)
(***************************************************************************)
EXTENDS Integers, Sequences

CONSTANTS
  Procs,
  Batch,       \* the sources of each batch, a sequence
  Zip,         \* each source on the host: "good", "missing", "badSha", or
               \* "broken" (Magisk rejects it)
  MaxFaults,   \* bound: failures of adb commands that reached a good link
  MaxLinks     \* bound: changes of the link

ASSUME AdbBatchAssumption ==
  /\ \A p \in Procs : Batch[p] \in Seq({Batch[p][n] : n \in DOMAIN Batch[p]})
  /\ \A p \in Procs : \A n \in DOMAIN Batch[p] :
       Zip[Batch[p][n]] \in {"good", "missing", "badSha", "broken"}
  /\ MaxFaults \in Nat /\ MaxLinks \in Nat

VARIABLES
  link,        \* "device", "offline" or "hung", as adb sees it
  su, magisk,  \* the device has usable root, the magisk binary
  temp,        \* /data/local/tmp/beetroot-module-<n>.zip
  installed,   \* modules staged in modules_update
  pc, at, rows, skipped, end,
  dropped,     \* history: the link was away during the batch
  faults, links

vars == <<link, su, magisk, temp, installed, pc, at, rows, skipped, end, dropped, faults, links>>
env  == <<link, su, magisk, dropped, links>>

Range(f) == {f[x] : x \in DOMAIN f}
Sources == UNION {Range(Batch[p]) : p \in Procs}
Indexes == UNION {DOMAIN Batch[p] : p \in Procs}

Init ==
  /\ link \in {"device", "offline"} /\ su \in BOOLEAN /\ magisk \in BOOLEAN
  /\ temp = [n \in Indexes |-> "none"] /\ installed = {}
  /\ pc = [p \in Procs |-> "start"] /\ at = [p \in Procs |-> 0]
  /\ rows = [p \in Procs |-> <<>>] /\ skipped = [p \in Procs |-> 0]
  /\ end = [p \in Procs |-> "none"]
  /\ dropped = [p \in Procs |-> link # "device"] /\ faults = 0 /\ links = 0

Go(p, l)  == pc' = [pc EXCEPT ![p] = l]
End(p, e) == Go(p, "ended") /\ end' = [end EXCEPT ![p] = e]
Source(p) == Batch[p][at[p]]

-----------------------------------------------------------------------------
(* adb.                                                                    *)

\* Mutant: a command on a hung server is waited for.
BugReturns == link # "hung"

\* _adb_unchecked caps every command, and reports the cap as rc 124.
Returns == TRUE

\* Over a good link a command succeeds where the device allows it.
Succeeds(allowed) == Returns /\ link = "device" /\ allowed /\ UNCHANGED faults

\* It fails: refused by the device, for want of a link, or for no good reason.
Fails(allowed) ==
  /\ Returns
  /\ \/ (link # "device" \/ ~allowed) /\ UNCHANGED faults
     \/ link = "device" /\ faults < MaxFaults /\ faults' = faults + 1

\* serial_is_available
Available == link = "device"

-----------------------------------------------------------------------------
(* The pre-flight.                                                         *)

\* A probe that fails is put down to the link when adb devices says so.
Diagnose(p, verdict) == End(p, IF Available THEN verdict ELSE "offline")

ProbeRoot(p) ==
  /\ pc[p] = "start"
  /\ \/ Succeeds(su) /\ Go(p, "probeMagisk") /\ UNCHANGED end
     \/ Fails(su) /\ Diagnose(p, "noRoot")
  /\ UNCHANGED <<env, temp, installed, at, rows, skipped>>

ProbeMagisk(p) ==
  /\ pc[p] = "probeMagisk"
  /\ \/ Succeeds(su /\ magisk) /\ Go(p, "next") /\ UNCHANGED end
     \/ Fails(su /\ magisk) /\ Diagnose(p, "noMagisk")
  /\ UNCHANGED <<env, temp, installed, at, rows, skipped>>

-----------------------------------------------------------------------------
(* One module.                                                             *)

Row(p, ok) == rows' = [rows EXCEPT ![p] = Append(@, [source |-> Source(p), ok |-> ok])]

\* The loop: the next source, or the rows.
NextSource(p) ==
  /\ pc[p] = "next"
  /\ IF at[p] = Len(Batch[p])
     THEN End(p, "rows") /\ UNCHANGED at
     ELSE at' = [at EXCEPT ![p] = @ + 1] /\ Go(p, "validate") /\ UNCHANGED end
  /\ UNCHANGED <<env, temp, installed, rows, skipped, faults>>

\* _validated_zip_source and verify_sha256: a host-side failure is a row.
Validate(p) ==
  /\ pc[p] = "validate"
  /\ IF Zip[Source(p)] \in {"missing", "badSha"}
     THEN Row(p, FALSE) /\ Go(p, "next")
     ELSE Go(p, "push") /\ UNCHANGED rows
  /\ UNCHANGED <<env, temp, installed, at, skipped, end, faults>>

\* The target's name is the position in the batch.  A failed push may leave a
\* part of the zip.
Push(p) ==
  /\ pc[p] = "push"
  /\ \/ Succeeds(TRUE) /\ Go(p, "install") /\ temp' = [temp EXCEPT ![at[p]] = Source(p)]
     \/ Fails(TRUE) /\ Go(p, "raised") /\ temp' \in {temp, [temp EXCEPT ![at[p]] = "part"]}
  /\ UNCHANGED <<env, installed, at, rows, skipped, end>>

Installable(f) == su /\ magisk /\ f \in Sources /\ Zip[f] = "good"

\* Mutant: the exit code of the install is not looked at.
BugInstall(p) ==
  /\ pc[p] = "install" /\ Go(p, "rmOk")
  /\ LET f == temp[at[p]] IN
     \/ Succeeds(Installable(f)) /\ installed' = installed \cup {f}
     \/ Fails(Installable(f)) /\ UNCHANGED installed
  /\ UNCHANGED <<env, temp, at, rows, skipped, end>>

\* magisk --install-module of whatever lies at the target now.  A command that
\* timed out or lost its link may have done its work.
Install(p) ==
  /\ pc[p] = "install"
  /\ LET f == temp[at[p]] IN
     \/ Succeeds(Installable(f)) /\ Go(p, "rmOk") /\ installed' = installed \cup {f}
     \/ /\ Fails(Installable(f)) /\ Go(p, "rm")
        /\ installed' \in {installed} \cup {installed \cup {g} : g \in {h \in Sources : h = f /\ Installable(h)}}
  /\ UNCHANGED <<env, temp, at, rows, skipped, end>>

\* Mutant: the zip is removed after a good install only.
BugRemove(p) ==
  /\ pc[p] \in {"rm", "rmOk"}
  /\ \/ pc[p] = "rmOk" /\ Succeeds(su) /\ temp' = [temp EXCEPT ![at[p]] = "none"]
     \/ (pc[p] = "rm" \/ Fails(su)) /\ UNCHANGED <<temp, faults>>
  /\ Go(p, IF pc[p] = "rmOk" THEN "done" ELSE "raised")
  /\ UNCHANGED <<env, installed, at, rows, skipped, end>>

\* The `finally`; its own failure is suppressed.
Remove(p) ==
  /\ pc[p] \in {"rm", "rmOk"}
  /\ \/ Succeeds(su) /\ temp' = [temp EXCEPT ![at[p]] = "none"]
     \/ Fails(su) /\ UNCHANGED temp
  /\ Go(p, IF pc[p] = "rmOk" THEN "done" ELSE "raised")
  /\ UNCHANGED <<env, installed, at, rows, skipped, end>>

Installed(p) ==
  /\ pc[p] = "done" /\ Row(p, TRUE) /\ Go(p, "next")
  /\ UNCHANGED <<env, temp, installed, at, skipped, end, faults>>

\* Mutant: the module the device dropped in has no row.
BugRaised(p) ==
  /\ pc[p] = "raised"
  /\ IF Available
     THEN Row(p, FALSE) /\ Go(p, "next") /\ UNCHANGED <<skipped, end>>
     ELSE /\ skipped' = [skipped EXCEPT ![p] = Len(Batch[p]) - at[p]]
          /\ End(p, "offline") /\ UNCHANGED rows
  /\ UNCHANGED <<env, temp, installed, at, faults>>

\* Mutant: a failed command is taken for a lost device.
BugRaisedBlind(p) ==
  /\ pc[p] = "raised" /\ Row(p, FALSE)
  /\ skipped' = [skipped EXCEPT ![p] = Len(Batch[p]) - at[p]] /\ End(p, "offline")
  /\ UNCHANGED <<env, temp, installed, at, faults>>

\* An adb-level failure: the batch ends only when adb devices has lost the serial.
Raised(p) ==
  /\ pc[p] = "raised" /\ Row(p, FALSE)
  /\ IF Available
     THEN Go(p, "next") /\ UNCHANGED <<skipped, end>>
     ELSE skipped' = [skipped EXCEPT ![p] = Len(Batch[p]) - at[p]] /\ End(p, "offline")
  /\ UNCHANGED <<env, temp, installed, at, faults>>

-----------------------------------------------------------------------------
Step(p) ==
  \/ ProbeRoot(p) \/ ProbeMagisk(p) \/ NextSource(p) \/ Validate(p) \/ Push(p) \/ Install(p)
  \/ Remove(p) \/ Installed(p) \/ Raised(p)

\* The cable, the authorization prompt, the adb server.
Relink ==
  /\ links < MaxLinks /\ links' = links + 1
  /\ link' \in {"device", "offline", "hung"} \ {link}
  /\ dropped' = [p \in Procs |-> dropped[p] \/ link' # "device"]
  /\ UNCHANGED <<su, magisk, temp, installed, pc, at, rows, skipped, end, faults>>

Next == (\E p \in Procs : Step(p)) \/ Relink

Spec == Init /\ [][Next]_vars
FairSpec == Spec /\ \A p \in Procs : WF_vars(Step(p))

-----------------------------------------------------------------------------
(* Properties.                                                             *)

\* What the device holds; no source has two rows.
TypeOK ==
  /\ \A n \in Indexes : temp[n] \in Sources \cup {"none", "part"}
  /\ installed \subseteq Sources
  /\ \A p \in Procs : /\ at[p] \in 0..Len(Batch[p]) /\ Len(rows[p]) <= at[p]
                      /\ end[p] \in {"none", "rows", "offline", "noRoot", "noMagisk"}

\* However the device or adb ends a batch that got past its pre-flight, every
\* source is accounted for: by its own row, in order, or in the count of skipped
\* ones.  (A zip that cannot be read at all ends the command with its OSError.)
Accounted ==
  \A p \in Procs :
    /\ end[p] = "rows" \/ (end[p] = "offline" /\ at[p] > 0)
         => Len(rows[p]) + skipped[p] = Len(Batch[p])
    /\ \A n \in DOMAIN rows[p] : rows[p][n].source = Batch[p][n]

\* A batch gives up on the device only if the device was away while it ran.
AbortMeansDropped == \A p \in Procs : end[p] = "offline" => dropped[p]

\* What a batch reports at its end can be believed: the rows and the skipped add
\* up to its sources, and it blames the device only if the device was away.
ReportTrue == Accounted /\ AbortMeansDropped

\* A module reported as installed is installed.
OkMeansInstalled ==
  \A p \in Procs : \A n \in DOMAIN rows[p] : rows[p][n].ok => rows[p][n].source \in installed

\* The device keeps no zip of a batch whose adb commands went through, even
\* where Magisk refused a module.
TempsRemoved ==
  (faults = 0 /\ \A p \in Procs : ~dropped[p] /\ pc[p] = "ended")
    => \A n \in Indexes : temp[n] = "none"

\* The device is as the rows say: an ok module is installed, and no zip is left
\* where every adb command went through.
DeviceTrue == TypeOK /\ OkMeansInstalled /\ TempsRemoved

\* Every batch ends, although the adb server may hang for good.
BatchesEnd == \A p \in Procs : <>(pc[p] = "ended")
=============================================================================
