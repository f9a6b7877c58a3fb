--------------------------- MODULE AdbBatchProofs ---------------------------
(***************************************************************************)
(* Proofs about AdbBatch, for every number of batches, of modules in them, *)
(* of failures and of changes of the link: a batch accounts for every      *)
(* module however it ends, and gives up only on a device that was away; a  *)
(* batch that runs alone reports only what is on the device.  And about    *)
(* ConfigFile in the scenes of MCModule, for every number of commands,     *)
(* edits and kills: the pins a user wrote survive, and rewrites are safe.  *)
(***************************************************************************)
EXTENDS MCModule, TLAPS

\* The steps of the loop's body: the source at at[p] has no row yet.
Body == {"validate", "push", "install", "rm", "rmOk", "done", "raised"}
Lines == Body \cup {"start", "probeMagisk", "next", "ended"}

ReportRow(p) == [source : Range(Batch[p]), ok : BOOLEAN]

Typed ==
  /\ pc \in [Procs -> Lines] /\ at \in [Procs -> Nat] /\ skipped \in [Procs -> Nat]
  /\ end \in [Procs -> {"none", "rows", "offline", "noRoot", "noMagisk"}]
  /\ DOMAIN rows = Procs /\ \A p \in Procs : rows[p] \in Seq(ReportRow(p))

\* How far the rows of a batch have come.
Progress(p) ==
  /\ at[p] <= Len(Batch[p])
  /\ pc[p] \in Body => at[p] >= 1
  /\ pc[p] \in {"start", "probeMagisk"} => at[p] = 0
  /\ Len(rows[p]) = (IF pc[p] \in Body THEN at[p] - 1 ELSE at[p])
  /\ \A n \in DOMAIN rows[p] : rows[p][n].source = Batch[p][n]
  /\ end[p] # "none" => pc[p] = "ended"
  /\ skipped[p] = (IF end[p] = "offline" /\ at[p] > 0 THEN Len(Batch[p]) - at[p] ELSE 0)
  /\ end[p] = "rows" => at[p] = Len(Batch[p])

\* A link that is away now was away during every batch.
Watched ==
  /\ dropped \in [Procs -> BOOLEAN]
  /\ link # "device" => \A p \in Procs : dropped[p]

IInv == Typed /\ (\A p \in Procs : Progress(p)) /\ Watched /\ AbortMeansDropped

-----------------------------------------------------------------------------

\* The sources of a batch are a sequence.
LEMMA BatchSeq ==
  ASSUME NEW p \in Procs
  PROVE  /\ Batch[p] \in Seq(Range(Batch[p])) /\ Len(Batch[p]) \in Nat
         /\ \A n \in 1..Len(Batch[p]) : Batch[p][n] \in Range(Batch[p])
<1>1. Batch[p] \in Seq(Range(Batch[p]))
  BY AdbBatchAssumption DEF Range
<1> QED
  BY <1>1

\* No batch has done anything yet.
LEMMA InitInv == Init => IInv
<1> SUFFICES ASSUME Init PROVE IInv
  OBVIOUS
<1> USE DEF Init
<1>1. Typed
  BY DEF Typed, Lines, Body
<1>2. ASSUME NEW p \in Procs PROVE Progress(p)
  BY BatchSeq DEF Progress, Body
<1>3. Watched /\ AbortMeansDropped
  BY DEF Watched, AbortMeansDropped
<1> QED
  BY <1>1, <1>2, <1>3 DEF IInv

-----------------------------------------------------------------------------

\* Between the push and the row a batch only moves.
LEMMA Moves ==
  ASSUME NEW p \in Procs, Push(p) \/ Install(p) \/ Remove(p)
  PROVE  /\ pc[p] \in Body /\ UNCHANGED <<at, rows, skipped, end>>
         /\ \E l \in Body : pc' = [pc EXCEPT ![p] = l]
<1>1. CASE Push(p)
  BY <1>1 DEF Push, Go, Body
<1>2. CASE Install(p)
  BY <1>2 DEF Install, Go, Body
<1>3. CASE Remove(p)
  BY <1>3 DEF Remove, Go, Body
<1> QED
  BY <1>1, <1>2, <1>3

\* What one batch does leaves the progress of the others alone.
LEMMA Others ==
  ASSUME IInv, NEW p \in Procs, NEW q \in Procs, q # p, Step(p)
  PROVE  Progress(q)'
<1> USE DEF IInv, Typed, Go, End, Diagnose, Row
<1> SUFFICES /\ pc'[q] = pc[q] /\ at'[q] = at[q] /\ rows'[q] = rows[q]
             /\ skipped'[q] = skipped[q] /\ end'[q] = end[q]
  BY DEF Progress
<1>1. CASE ProbeRoot(p) \/ ProbeMagisk(p)
  BY <1>1 DEF ProbeRoot, ProbeMagisk
<1>2. CASE NextSource(p) \/ Validate(p)
  BY <1>2 DEF NextSource, Validate
<1>3. CASE Push(p) \/ Install(p) \/ Remove(p)
  BY <1>3, Moves
<1>4. CASE Installed(p) \/ Raised(p)
  BY <1>4 DEF Installed, Raised
<1> QED
  BY <1>1, <1>2, <1>3, <1>4 DEF Step

\* A row for the source a batch is at.
LEMMA RowAdded ==
  ASSUME IInv, NEW p \in Procs, pc[p] \in Body, NEW ok \in BOOLEAN, Row(p, ok)
  PROVE  /\ DOMAIN rows' = Procs /\ \A q \in Procs : rows'[q] \in Seq(ReportRow(q))
         /\ Len(rows'[p]) = at[p]
         /\ \A n \in DOMAIN rows'[p] : rows'[p][n].source = Batch[p][n]
<1> DEFINE r == [source |-> Source(p), ok |-> ok]
<1>1. at[p] \in 1..Len(Batch[p]) /\ Len(rows[p]) = at[p] - 1
  BY BatchSeq DEF IInv, Typed, Progress
<1>2. r \in ReportRow(p) /\ r.source = Batch[p][at[p]]
  BY <1>1, BatchSeq DEF Source, ReportRow
<1>3. rows' = [rows EXCEPT ![p] = Append(@, r)]
  BY DEF Row
<1> HIDE DEF r
<1>4. rows[p] \in Seq(ReportRow(p)) /\ rows'[p] = Append(rows[p], r)
  BY <1>3 DEF IInv, Typed
<1>5. /\ rows'[p] \in Seq(ReportRow(p)) /\ Len(rows'[p]) = at[p] /\ DOMAIN rows'[p] = 1..at[p]
      /\ rows'[p][at[p]] = r /\ \A n \in 1..(at[p] - 1) : rows'[p][n] = rows[p][n]
  BY <1>1, <1>2, <1>4
<1>6. \A n \in DOMAIN rows'[p] : rows'[p][n].source = Batch[p][n]
  BY <1>1, <1>2, <1>4, <1>5 DEF IInv, Progress
<1>7. DOMAIN rows' = Procs /\ \A q \in Procs : rows'[q] \in Seq(ReportRow(q))
  BY <1>3, <1>4, <1>5 DEF IInv, Typed
<1> QED
  BY <1>5, <1>6, <1>7

\* The steps that write no row.
LEMMA Silent ==
  ASSUME IInv, NEW p \in Procs,
         ProbeRoot(p) \/ ProbeMagisk(p) \/ NextSource(p) \/ Push(p) \/ Install(p) \/ Remove(p)
  PROVE  Typed' /\ Progress(p)'
<1>0. Len(Batch[p]) \in Nat
  BY BatchSeq
<1> USE DEF IInv
<1>1. CASE ProbeRoot(p) \/ ProbeMagisk(p)
  <2>1. /\ pc[p] \in {"start", "probeMagisk"} /\ UNCHANGED <<at, rows, skipped>>
        /\ \/ UNCHANGED end /\ \E l \in {"probeMagisk", "next"} : pc' = [pc EXCEPT ![p] = l]
           \/ /\ pc' = [pc EXCEPT ![p] = "ended"]
              /\ \E e \in {"offline", "noRoot", "noMagisk"} : end' = [end EXCEPT ![p] = e]
    BY <1>1 DEF ProbeRoot, ProbeMagisk, Diagnose, Go, End
  <2>2. Typed'
    BY <2>1 DEF Typed, Lines
  <2>3. at[p] = 0 /\ end[p] = "none" /\ at[p] <= Len(Batch[p]) /\ skipped[p] = 0
    BY <1>0, <2>1 DEF Progress, Typed
  <2> QED
    BY <2>1, <2>2, <2>3 DEF Typed, Progress, Body
<1>2. CASE NextSource(p) /\ at[p] = Len(Batch[p])
  <2>1. /\ pc[p] = "next" /\ UNCHANGED <<at, rows, skipped>>
        /\ pc' = [pc EXCEPT ![p] = "ended"] /\ end' = [end EXCEPT ![p] = "rows"]
    BY <1>2 DEF NextSource, Go, End
  <2>2. Typed'
    BY <2>1 DEF Typed, Lines
  <2> QED
    BY <1>0, <1>2, <2>1, <2>2 DEF Typed, Progress, Body
<1>3. CASE NextSource(p) /\ at[p] # Len(Batch[p])
  <2>1. /\ pc[p] = "next" /\ UNCHANGED <<rows, skipped, end>>
        /\ pc' = [pc EXCEPT ![p] = "validate"] /\ at' = [at EXCEPT ![p] = @ + 1]
    BY <1>3 DEF NextSource, Go
  <2>2. Typed'
    BY <2>1 DEF Typed, Lines, Body
  <2>3. /\ end'[p] = "none" /\ skipped'[p] = 0 /\ at'[p] = at[p] + 1 /\ pc'[p] = "validate"
        /\ at'[p] <= Len(Batch[p]) /\ Len(rows'[p]) = at[p]
    <3>1. end[p] = "none" /\ skipped[p] = 0 /\ Len(rows[p]) = at[p] /\ at[p] <= Len(Batch[p])
      BY <2>1 DEF Progress, Body
    <3>2. /\ at[p] \in Nat /\ at'[p] = at[p] + 1 /\ pc'[p] = "validate"
          /\ at[p] # Len(Batch[p])
      BY <1>3, <2>1 DEF Typed
    <3> QED
      BY <1>0, <2>1, <3>1, <3>2
  <2> QED
    BY <1>0, <2>1, <2>2, <2>3 DEF Typed, Progress, Body
<1>4. CASE Push(p) \/ Install(p) \/ Remove(p)
  <2>1. PICK l \in Body : pc' = [pc EXCEPT ![p] = l]
    BY <1>4, Moves
  <2>2. pc[p] \in Body /\ UNCHANGED <<at, rows, skipped, end>>
    BY <1>4, Moves
  <2>3. Typed'
    BY <2>1, <2>2 DEF Typed, Lines
  <2>4. pc'[p] \in Body /\ end[p] = "none"
    BY <2>1, <2>2 DEF Typed, Progress, Body
  <2> QED
    BY <1>0, <2>2, <2>3, <2>4 DEF Typed, Progress, Body
<1> QED
  BY <1>1, <1>2, <1>3, <1>4

\* The steps that may write one.
LEMMA Written ==
  ASSUME IInv, NEW p \in Procs, Validate(p) \/ Installed(p) \/ Raised(p)
  PROVE  Typed' /\ Progress(p)'
<1>0. Len(Batch[p]) \in Nat /\ pc[p] \in Body /\ UNCHANGED at
  BY BatchSeq DEF Validate, Installed, Raised, Body
<1>1. end[p] = "none" /\ skipped[p] = 0 /\ at[p] \in 1..Len(Batch[p])
  BY <1>0 DEF IInv, Typed, Progress, Body
<1>2. CASE UNCHANGED <<rows, skipped, end>> /\ pc' = [pc EXCEPT ![p] = "push"]
  <2>1. Typed'
    BY <1>0, <1>2 DEF IInv, Typed, Lines, Body
  <2> QED
    BY <1>0, <1>1, <1>2, <2>1 DEF IInv, Typed, Progress, Body
<1>3. ASSUME NEW ok \in BOOLEAN, Row(p, ok),
             \/ UNCHANGED <<skipped, end>> /\ pc' = [pc EXCEPT ![p] = "next"]
             \/ /\ skipped' = [skipped EXCEPT ![p] = Len(Batch[p]) - at[p]]
                /\ pc' = [pc EXCEPT ![p] = "ended"] /\ end' = [end EXCEPT ![p] = "offline"]
      PROVE  Typed' /\ Progress(p)'
  <2>1. /\ DOMAIN rows' = Procs /\ \A q \in Procs : rows'[q] \in Seq(ReportRow(q))
        /\ Len(rows'[p]) = at[p]
        /\ \A n \in DOMAIN rows'[p] : rows'[p][n].source = Batch[p][n]
    BY <1>0, <1>3, RowAdded
  <2>2. Typed'
    <3>1. Len(Batch[p]) - at[p] \in Nat
      BY <1>0, <1>1
    <3>2. /\ pc' \in [Procs -> Lines] /\ skipped' \in [Procs -> Nat]
          /\ end' \in [Procs -> {"none", "rows", "offline", "noRoot", "noMagisk"}]
      <4>1. /\ pc \in [Procs -> Lines] /\ skipped \in [Procs -> Nat]
            /\ end \in [Procs -> {"none", "rows", "offline", "noRoot", "noMagisk"}]
        BY DEF IInv, Typed
      <4>2. CASE UNCHANGED <<skipped, end>> /\ pc' = [pc EXCEPT ![p] = "next"]
        BY <4>1, <4>2 DEF Lines
      <4>3. CASE /\ skipped' = [skipped EXCEPT ![p] = Len(Batch[p]) - at[p]]
                 /\ pc' = [pc EXCEPT ![p] = "ended"] /\ end' = [end EXCEPT ![p] = "offline"]
        BY <3>1, <4>1, <4>3 DEF Lines
      <4> QED
        BY <1>3, <4>2, <4>3
    <3> QED
      BY <1>0, <2>1, <3>2 DEF IInv, Typed, ReportRow
  <2> QED
    BY <1>0, <1>1, <1>3, <2>1, <2>2 DEF IInv, Typed, Progress, Body
<1>4. CASE Validate(p)
  BY <1>2, <1>3, <1>4 DEF Validate, Go
<1>5. CASE Installed(p)
  BY <1>3, <1>5 DEF Installed, Go
<1>6. CASE Raised(p)
  BY <1>3, <1>6 DEF Raised, Go, End
<1> QED
  BY <1>4, <1>5, <1>6

\* Who gives up, and that the link was away then.
LEMMA GivesUp ==
  ASSUME IInv, NEW p \in Procs, Step(p)
  PROVE  Watched' /\ AbortMeansDropped'
<1> USE DEF IInv, Typed, Watched, AbortMeansDropped, env
<1>1. UNCHANGED <<link, dropped>>
  BY DEF Step, ProbeRoot, ProbeMagisk, NextSource, Validate, Push, Install, Remove,
         Installed, Raised
<1>2. Watched'
  BY <1>1
<1>3. UNCHANGED end \/ \E e : end' = [end EXCEPT ![p] = e] /\ (e = "offline" => ~Available)
  <2> HIDE DEF IInv, Typed, Watched, AbortMeansDropped
  <2>1. CASE ProbeRoot(p)
    BY <2>1 DEF ProbeRoot, End, Diagnose
  <2>2. CASE ProbeMagisk(p)
    BY <2>2 DEF ProbeMagisk, End, Diagnose
  <2>3. CASE NextSource(p)
    BY <2>3 DEF NextSource, End
  <2>4. CASE Validate(p) \/ Push(p) \/ Install(p) \/ Remove(p) \/ Installed(p)
    BY <2>4 DEF Validate, Push, Install, Remove, Installed
  <2>5. CASE Raised(p)
    BY <2>5 DEF Raised, End, Diagnose
  <2> QED
    BY <2>1, <2>2, <2>3, <2>4, <2>5 DEF Step
<1> QED
  BY <1>1, <1>2, <1>3 DEF Available

\* Every step keeps the invariant.
LEMMA Inductive == IInv /\ [Next]_vars => IInv'
<1> SUFFICES ASSUME IInv, [Next]_vars PROVE IInv'
  OBVIOUS
<1>1. ASSUME NEW p \in Procs, Step(p) PROVE IInv'
  <2>1. Typed' /\ Progress(p)'
    BY <1>1, Silent, Written DEF Step
  <2> QED
    BY <1>1, <2>1, Others, GivesUp DEF IInv
<1>2. CASE Relink
  <2>1. UNCHANGED <<pc, at, rows, skipped, end>>
    BY <1>2 DEF Relink
  <2>2. Typed' /\ \A p \in Procs : Progress(p)'
    BY <2>1 DEF IInv, Typed, Progress
  <2>3. Watched' /\ \A p \in Procs : dropped[p] => dropped'[p]
    BY <1>2 DEF Relink, IInv, Watched
  <2>4. AbortMeansDropped'
    BY <2>1, <2>3 DEF IInv, AbortMeansDropped
  <2> QED
    BY <2>2, <2>3, <2>4 DEF IInv
<1>3. CASE UNCHANGED vars
  BY <1>3 DEF vars, IInv, Typed, Progress, Watched, AbortMeansDropped
<1> QED
  BY <1>1, <1>2, <1>3 DEF Next

\* However the device or adb ends a batch that got past its pre-flight, every
\* source is accounted for: by its own row, in order, or in the count of skipped
\* ones (auto_install_modules).
THEOREM RowsAddUp == Spec => []Accounted
<1>1. IInv => Accounted
  <2> SUFFICES ASSUME IInv, NEW p \in Procs
               PROVE  /\ end[p] = "rows" \/ (end[p] = "offline" /\ at[p] > 0)
                           => Len(rows[p]) + skipped[p] = Len(Batch[p])
                      /\ \A n \in DOMAIN rows[p] : rows[p][n].source = Batch[p][n]
    BY DEF Accounted
  <2>1. Progress(p) /\ at[p] \in Nat /\ Len(Batch[p]) \in Nat
    BY BatchSeq DEF IInv, Typed
  <2> QED
    BY <2>1 DEF Progress, Body
<1> QED
  BY <1>1, InitInv, Inductive, PTL DEF Spec

\* A batch gives up on the device only if the device was away while it ran
\* (_abort_if_unavailable).
THEOREM GivesUpOnLost == Spec => []AbortMeansDropped
<1>1. IInv => AbortMeansDropped
  BY DEF IInv
<1> QED
  BY <1>1, InitInv, Inductive, PTL DEF Spec

\* What a batch of any length reports at its end can be believed, whatever the
\* link does: both of the above (auto_install_modules, _abort_if_unavailable).
THEOREM Reports == Spec => []ReportTrue
BY RowsAddUp, GivesUpOnLost, PTL DEF ReportTrue
-----------------------------------------------------------------------------
(* The device, while one batch at a time runs on it: two would use the     *)
(* same names of temporary files.                                          *)

OneBatch == \A p, q \in Procs : p = q

Past == Body \cup {"probeMagisk", "next"}

\* Where the zip of a batch is, and what Magisk has made of it.
Placed(p) ==
  /\ pc[p] \in Past => su
  /\ pc[p] = "install" => temp[at[p]] = Source(p)
  /\ pc[p] \in {"rmOk", "done"} => Source(p) \in installed
  /\ faults = 0 /\ ~dropped[p] =>
       \A n \in Indexes : temp[n] = "none" \/ (pc[p] \in {"install", "rm", "rmOk"} /\ n = at[p])

DeviceInv ==
  /\ temp \in [Indexes -> Sources \cup {"none", "part"}] /\ installed \subseteq Sources
  /\ faults \in Nat
  /\ \A p \in Procs : Placed(p)
  /\ OkMeansInstalled

\* A batch is at one of its sources while it works on it.
LEMMA AtSource ==
  ASSUME IInv, NEW p \in Procs, pc[p] \in Body
  PROVE  at[p] \in Indexes /\ Source(p) \in Sources /\ at[p] \in DOMAIN Batch[p]
<1>1. at[p] \in 1..Len(Batch[p])
  BY BatchSeq DEF IInv, Typed, Progress
<1>2. at[p] \in DOMAIN Batch[p] /\ Batch[p][at[p]] \in Range(Batch[p])
  BY <1>1, BatchSeq
<1> QED
  BY <1>2 DEF Indexes, Sources, Source

\* A command that fails on a good link, where the device allows it, is a fault.
LEMMA FailCounts ==
  ASSUME IInv, faults \in Nat, NEW p \in Procs, NEW allowed, Fails(allowed), UNCHANGED dropped
  PROVE  faults' \in Nat /\ (allowed /\ faults' = 0 => dropped'[p])
BY DEF Fails, IInv, Watched

\* The steps that leave the device alone and write no row.
LEMMA QuietDevice ==
  ASSUME IInv, DeviceInv, NEW p \in Procs, ProbeRoot(p) \/ ProbeMagisk(p) \/ NextSource(p),
         \A q \in Procs : q = p
  PROVE  DeviceInv'
<1>1. UNCHANGED <<temp, installed, rows, su, dropped>> /\ faults' \in Nat /\ (faults' = 0 => faults = 0)
  BY DEF ProbeRoot, ProbeMagisk, NextSource, Succeeds, Fails, env, DeviceInv
<1>2. /\ pc[p] \notin {"install", "rm", "rmOk", "done"}
      /\ pc'[p] \in {"probeMagisk", "next", "validate", "ended"}
      /\ pc'[p] \in Past => su
  <2>1. CASE ProbeRoot(p)
    BY <2>1 DEF ProbeRoot, Succeeds, Go, End, Diagnose, IInv, Typed, Past, Body
  <2>2. CASE ProbeMagisk(p)
    BY <2>2 DEF ProbeMagisk, Succeeds, Go, End, Diagnose, IInv, Typed, Past, Body
  <2>3. CASE NextSource(p)
    BY <2>3 DEF NextSource, Go, End, IInv, Typed, Past, Body, DeviceInv, Placed
  <2> QED
    BY <2>1, <2>2, <2>3
<1>3. Placed(p)'
  <2>1. Placed(p)
    BY DEF DeviceInv
  <2> QED
    BY <1>1, <1>2, <2>1 DEF Placed
<1> QED
  BY <1>1, <1>3 DEF DeviceInv, OkMeansInstalled

\* The adb commands of one module.
LEMMA WorkDevice ==
  ASSUME IInv, DeviceInv, NEW p \in Procs, Push(p) \/ Install(p) \/ Remove(p),
         \A q \in Procs : q = p
  PROVE  DeviceInv'
<1>0. /\ at[p] \in Indexes /\ Source(p) \in Sources /\ pc[p] \in Body /\ Placed(p) /\ su
      /\ UNCHANGED <<at, rows, su, dropped>> /\ temp \in [Indexes -> Sources \cup {"none", "part"}]
  BY Moves, AtSource DEF DeviceInv, Push, Install, Remove, env, Placed, Past
<1>1. Source(p)' = Source(p)
  BY <1>0 DEF Source
<1> SUFFICES /\ temp' \in [Indexes -> Sources \cup {"none", "part"}] /\ faults' \in Nat
             /\ installed \subseteq installed' /\ installed' \subseteq Sources /\ Placed(p)'
  BY <1>0 DEF DeviceInv, OkMeansInstalled
<1>2. CASE Push(p)
  <2>1. CASE Succeeds(TRUE) /\ pc' = [pc EXCEPT ![p] = "install"]
             /\ temp' = [temp EXCEPT ![at[p]] = Source(p)]
    <3>1. pc'[p] = "install" /\ temp'[at[p]] = Source(p) /\ faults' = faults /\ UNCHANGED installed
      BY <1>0, <1>2, <2>1 DEF Push, Succeeds, IInv, Typed
    <3>2. \A n \in Indexes : n # at[p] => temp'[n] = temp[n]
      BY <1>0, <2>1
    <3> QED
      BY <1>0, <1>1, <1>2, <2>1, <3>1, <3>2 DEF Placed, DeviceInv, Push
  <2>2. CASE Fails(TRUE) /\ pc' = [pc EXCEPT ![p] = "raised"]
             /\ temp' \in {temp, [temp EXCEPT ![at[p]] = "part"]}
    <3>1. pc'[p] = "raised" /\ UNCHANGED installed /\ faults' \in Nat /\ (faults' = 0 => dropped'[p])
      BY <1>0, <1>2, <2>2, FailCounts DEF Push, IInv, Typed, DeviceInv
    <3> QED
      BY <1>0, <2>2, <3>1 DEF Placed, DeviceInv
  <2> QED
    BY <1>2, <2>1, <2>2 DEF Push, Go
<1>3. CASE Install(p)
  <2>1. temp[at[p]] = Source(p) /\ UNCHANGED temp
    BY <1>0, <1>3 DEF Install, Placed
  <2>2. /\ installed \subseteq installed' /\ installed' \subseteq Sources /\ faults' \in Nat
        /\ pc'[p] \in {"rm", "rmOk"} /\ (pc'[p] = "rmOk" => Source(p) \in installed')
        /\ faults' = 0 => faults = 0
    <3>1. CASE /\ Succeeds(Installable(temp[at[p]])) /\ pc' = [pc EXCEPT ![p] = "rmOk"]
               /\ installed' = installed \cup {temp[at[p]]}
      BY <1>0, <2>1, <3>1 DEF DeviceInv, Succeeds, IInv, Typed
    <3>2. CASE /\ Fails(Installable(temp[at[p]])) /\ pc' = [pc EXCEPT ![p] = "rm"]
               /\ installed' \in {installed} \cup
                    {installed \cup {g} : g \in {h \in Sources : h = temp[at[p]] /\ Installable(h)}}
      <4>1. installed \subseteq installed' /\ installed' \subseteq Sources
        BY <3>2 DEF DeviceInv
      <4> QED
        BY <3>2, <4>1 DEF DeviceInv, Fails, IInv, Typed
    <3> QED
      BY <1>3, <3>1, <3>2 DEF Install, Go
  <2>3. pc[p] = "install"
    BY <1>3 DEF Install
  <2> QED
    BY <1>0, <1>1, <2>1, <2>2, <2>3 DEF Placed
<1>4. CASE Remove(p)
  <2>1. /\ UNCHANGED installed /\ pc[p] \in {"rm", "rmOk"} /\ pc'[p] \in {"done", "raised"}
        /\ pc'[p] = "done" => pc[p] = "rmOk"
    BY <1>4 DEF Remove, Go, IInv, Typed
  <2>2. CASE Succeeds(su) /\ temp' = [temp EXCEPT ![at[p]] = "none"]
    <3>1. /\ faults' = faults /\ temp'[at[p]] = "none"
          /\ \A n \in Indexes : n # at[p] => temp'[n] = temp[n]
      BY <1>0, <2>2 DEF Succeeds
    <3> QED
      BY <1>0, <1>1, <2>1, <2>2, <3>1 DEF Placed, DeviceInv
  <2>3. CASE Fails(su) /\ UNCHANGED temp
    <3>1. faults' \in Nat /\ (faults' = 0 => dropped'[p])
      BY <1>0, <2>3, FailCounts DEF DeviceInv
    <3> QED
      BY <1>0, <1>1, <2>1, <2>3, <3>1 DEF Placed, DeviceInv
  <2> QED
    BY <1>4, <2>2, <2>3 DEF Remove
<1> QED
  BY <1>2, <1>3, <1>4

\* The rows.
LEMMA RowDevice ==
  ASSUME IInv, DeviceInv, NEW p \in Procs, Validate(p) \/ Installed(p) \/ Raised(p),
         \A q \in Procs : q = p
  PROVE  DeviceInv'
<1>0. /\ pc[p] \in {"validate", "done", "raised"} /\ pc[p] \in Body
      /\ UNCHANGED <<temp, installed, at, su, dropped, faults>>
      /\ pc'[p] \in {"push", "next", "ended"}
  BY DEF Validate, Installed, Raised, Go, End, env, IInv, Typed, Body
<1>1. Placed(p)'
  <2>1. Placed(p)
    BY DEF DeviceInv
  <2> QED
    BY <1>0, <2>1 DEF Placed, Past
<1>2. OkMeansInstalled'
  <2>1. CASE UNCHANGED rows
    BY <1>0, <2>1 DEF DeviceInv, OkMeansInstalled
  <2>2. ASSUME NEW ok \in BOOLEAN, Row(p, ok), ok => pc[p] = "done" PROVE OkMeansInstalled'
    <3>1. rows[p] \in Seq(ReportRow(p)) /\ rows' = [rows EXCEPT ![p] = Append(rows[p], [source |-> Source(p), ok |-> ok])]
      BY <2>2 DEF Row, IInv, Typed
    <3> DEFINE r == [source |-> Source(p), ok |-> ok]
    <3>2. rows'[p] = Append(rows[p], r) /\ (r.ok => r.source \in installed)
      <4>1. ok => Source(p) \in installed
        BY <2>2 DEF DeviceInv, Placed
      <4> QED
        BY <3>1, <4>1 DEF IInv, Typed
    <3>3. r \in ReportRow(p)
      <4>1. Source(p) \in Range(Batch[p])
        BY <1>0, AtSource DEF Source, Range
      <4> QED
        BY <4>1 DEF ReportRow
    <3> HIDE DEF r
    <3>4. \A n \in DOMAIN rows'[p] : rows'[p][n] = r \/ (n \in DOMAIN rows[p] /\ rows'[p][n] = rows[p][n])
      BY <3>1, <3>2, <3>3
    <3>5. \A n \in DOMAIN rows[p] : rows[p][n].ok => rows[p][n].source \in installed
      BY DEF DeviceInv, OkMeansInstalled
    <3>6. \A n \in DOMAIN rows'[p] : rows'[p][n].ok => rows'[p][n].source \in installed'
      BY <1>0, <3>2, <3>4, <3>5
    <3> QED
      BY <3>6 DEF OkMeansInstalled
  <2> QED
    BY <2>1, <2>2 DEF Validate, Installed, Raised
<1> QED
  BY <1>0, <1>1, <1>2 DEF DeviceInv

\* One batch: every step of it, and of the link.
LEMMA InductiveDevice == OneBatch /\ IInv /\ DeviceInv /\ [Next]_vars => DeviceInv'
<1> SUFFICES ASSUME OneBatch, IInv, DeviceInv, [Next]_vars PROVE DeviceInv'
  OBVIOUS
<1>1. ASSUME NEW p \in Procs, Step(p) PROVE DeviceInv'
  <2>1. \A q \in Procs : q = p
    BY DEF OneBatch
  <2> QED
    BY <1>1, <2>1, QuietDevice, WorkDevice, RowDevice DEF Step
<1>2. CASE Relink
  <2>1. /\ UNCHANGED <<su, temp, installed, pc, at, rows, faults>>
        /\ \A p \in Procs : ~dropped'[p] => ~dropped[p]
    BY <1>2 DEF Relink
  <2> QED
    BY <2>1 DEF DeviceInv, Placed, OkMeansInstalled, Source
<1>3. CASE UNCHANGED vars
  BY <1>3 DEF vars, DeviceInv, Placed, OkMeansInstalled, Source
<1> QED
  BY <1>1, <1>2, <1>3 DEF Next

\* One batch at a time, the device is as the rows say, whatever the link does
\* and whichever commands fail: a module reported as installed is installed, the
\* zip at the fixed name being the one just pushed (_install_module), and no zip
\* is left where every adb command went through, even where Magisk refused a
\* module (the `finally` of _install_module).
THEOREM DeviceAsReported ==
  ASSUME OneBatch
  PROVE  Spec => []DeviceTrue
<1>1. Init => DeviceInv
  <2> SUFFICES ASSUME Init PROVE DeviceInv
    OBVIOUS
  <2>1. \A p \in Procs : Placed(p)
    BY DEF Init, Placed, Past, Body
  <2> QED
    BY <2>1 DEF Init, DeviceInv, OkMeansInstalled
<1>2. IInv /\ DeviceInv /\ [Next]_vars => IInv' /\ DeviceInv'
  BY Inductive, InductiveDevice
<1>3. IInv /\ DeviceInv => DeviceTrue
  <2> SUFFICES ASSUME IInv, DeviceInv PROVE DeviceTrue
    OBVIOUS
  <2>1. TypeOK
    <3>1. ASSUME NEW p \in Procs
          PROVE  /\ at[p] \in 0..Len(Batch[p]) /\ Len(rows[p]) <= at[p]
                 /\ end[p] \in {"none", "rows", "offline", "noRoot", "noMagisk"}
      <4>1. Progress(p) /\ at[p] \in Nat /\ Len(Batch[p]) \in Nat /\ Typed
        BY BatchSeq DEF IInv, Typed
      <4> QED
        BY <4>1 DEF Progress, Typed
    <3> QED
      BY <3>1 DEF TypeOK, DeviceInv
  <2>2. TempsRemoved
    <3> SUFFICES ASSUME faults = 0, \A p \in Procs : ~dropped[p] /\ pc[p] = "ended",
                        NEW n \in Indexes
                 PROVE  temp[n] = "none"
      BY DEF TempsRemoved
    <3>1. PICK p \in Procs : n \in DOMAIN Batch[p]
      BY DEF Indexes
    <3>2. Placed(p) /\ pc[p] = "ended" /\ ~dropped[p]
      BY <3>1 DEF DeviceInv
    <3> QED
      BY <3>2 DEF Placed
  <2> QED
    BY <2>1, <2>2 DEF DeviceTrue, DeviceInv
<1> QED
  BY <1>1, <1>2, <1>3, InitInv, PTL DEF Spec
-----------------------------------------------------------------------------
(* The commands around beetroot.yaml (ConfigFile), whatever races and is   *)
(* killed.                                                                 *)

Services == C!WellKnown \cup {"web"}

\* Ports as the model holds them.
Ports(a) == DOMAIN a \subseteq Services /\ \A s \in DOMAIN a : a[s] \in Hosts \cup {0}

\* What a command holds has passed the validation.
Command(p) ==
  /\ cfg[p].held => /\ Ports(cfg[p].ports) /\ C!HostsDistinct(cfg[p].ports)
                    /\ C!Addressed(cfg[p].ports, cfg[p].frida)
  /\ cfgPc[p] \in {"stage", "open", "write"} => cfg[p].held
  /\ cfgPc[p] # "idle" => verb[p] \in {"load", "apply", "module"}

FileInv ==
  /\ Ports(file.ports.at) /\ Ports(asked.ports.at)
  /\ cfgPc \in [CfgProcs -> {"idle", "load", "apply", "stage", "open", "write"}]
  /\ DOMAIN verb = CfgProcs /\ DOMAIN cfg = CfgProcs /\ kills \in Nat /\ edits \in Nat
  /\ \A p \in CfgProcs : Command(p)

\* The host that ports name for a service.
HostOf(a, s) == IF s \in DOMAIN a THEN a[s] ELSE 0

\* The ports a name the hosts the user asked for.
AsAsked(a) == \A s \in Services : HostOf(a, s) = HostOf(asked.ports.at, s)

\* A document or a config with the ports a is the user's, or all defaults.
Users(d, a)    == d.frida = asked.frida /\ d.vm = asked.vm /\ d.set = asked.set /\ AsAsked(a)
Defaults(d, a) == ~d.frida /\ ~d.vm /\ d.set = {} /\ a = C!Auto

\* So is what is on disk, and what any command holds.
MixInv ==
  /\ Users(file, file.ports.at) \/ (Defaults(file, file.ports.at) /\ file.ports.form # "map")
  /\ \A p \in CfgProcs : cfg[p].held => Users(cfg[p], cfg[p].ports) \/ Defaults(cfg[p], cfg[p].ports)

(* One command after another, none killed.                                 *)

\* What is loaded is what was asked for; so is the file, but while it is rewritten.
PinsInv ==
  /\ \A p, q \in CfgProcs : cfgPc[p] # "idle" /\ cfgPc[q] # "idle" => p = q
  /\ \A p \in CfgProcs : cfg[p].held => AsAsked(cfg[p].ports)
  /\ (\A p \in CfgProcs : cfgPc[p] # "write") => AsAsked(file.ports.at)
  /\ kills = 0

\* The upgrade of a ports mapping keeps every host of it (_migrate_legacy_ports_mapping).
LEMMA MigrateKeeps ==
  ASSUME NEW l, Ports(l.at)
  PROVE  /\ Ports(C!Migrate(l))
         /\ ~C!UnknownService(l) => \A s \in Services : HostOf(C!Migrate(l), s) = HostOf(l.at, s)
<1>1. CASE l.form = "map"
  <2>1. C!Migrate(l) = [s \in C!WellKnown |-> IF s \in DOMAIN l.at THEN l.at[s] ELSE 0]
    BY <1>1 DEF C!Migrate, C!Unset
  <2>2. /\ DOMAIN C!Migrate(l) = C!WellKnown
        /\ \A s \in C!WellKnown : C!Migrate(l)[s] = HostOf(l.at, s)
    BY <2>1 DEF HostOf
  <2>3. Ports(C!Migrate(l))
    BY <2>2 DEF Ports, Services, HostOf
  <2>4. ~C!UnknownService(l) => DOMAIN l.at \subseteq C!WellKnown
    BY <1>1 DEF C!UnknownService
  <2> QED
    BY <2>2, <2>3, <2>4 DEF HostOf
<1>2. CASE l.form # "map"
  BY <1>2 DEF C!Migrate
<1> QED
  BY <1>1, <1>2

\* What a load of the file gives.
LEMMA Loaded ==
  ASSUME FileInv, NEW p \in CfgProcs, C!LoadYaml(p)
  PROVE  /\ DOMAIN cfg' = CfgProcs /\ \A q \in CfgProcs : q # p => cfg'[q] = cfg[q]
         /\ cfg'[p].held <=> C!Problem(file) = "none"
         /\ C!Problem(file) = "none" =>
              /\ cfg'[p] = C!Config(file) /\ cfg'[p].ports = C!Migrate(file.ports)
              /\ ~C!UnknownService(file.ports) /\ Ports(cfg'[p].ports)
              /\ C!HostsDistinct(cfg'[p].ports) /\ C!Addressed(cfg'[p].ports, cfg'[p].frida)
<1>1. DOMAIN cfg' = CfgProcs /\ \A q \in CfgProcs : q # p => cfg'[q] = cfg[q]
  BY DEF C!LoadYaml, FileInv
<1>2. cfg'[p] = IF C!Problem(file) = "none" THEN C!Config(file) ELSE C!NoCfg
  BY DEF C!LoadYaml, FileInv
<1>3. cfg'[p].held <=> C!Problem(file) = "none"
  BY <1>2 DEF C!Config, C!NoCfg
<1>4. ASSUME C!Problem(file) = "none"
      PROVE  /\ cfg'[p].ports = C!Migrate(file.ports)
             /\ ~C!UnknownService(file.ports) /\ Ports(cfg'[p].ports)
             /\ C!HostsDistinct(cfg'[p].ports) /\ C!Addressed(cfg'[p].ports, cfg'[p].frida)
  <2>1. file.key = "none" /\ ~C!UnknownService(file.ports)
    BY <1>4 DEF C!Problem
  <2>2. /\ C!HostsDistinct(C!Migrate(file.ports))
        /\ C!Addressed(C!Migrate(file.ports), file.frida)
    BY <1>4, <2>1 DEF C!Problem
  <2>3. /\ cfg'[p].ports = C!Migrate(file.ports) /\ cfg'[p].frida = file.frida
        /\ Ports(C!Migrate(file.ports))
    BY <1>2, <1>4, MigrateKeeps DEF C!Config, FileInv
  <2> QED
    BY <2>1, <2>2, <2>3
<1> QED
  BY <1>1, <1>2, <1>3, <1>4

\* The documents a user writes, the empty one and what model_dump writes.
LEMMA Documents ==
  /\ \A d \in C!Docs : Ports(d.ports.at)
  /\ Ports(C!Auto) /\ C!Blank.ports.at = C!Auto
  /\ \A c : C!Dump(c).ports.at = c.ports
<1>1. Ports(C!Auto)
  BY DEF Ports, C!Auto, C!Unset, Services
<1>2. ASSUME NEW d \in C!Docs PROVE Ports(d.ports.at)
  <2>1. d.ports \in C!Listings
    BY DEF C!Docs
  <2>2. CASE d.ports = [form |-> "absent", at |-> C!Auto]
    BY <1>1, <2>1, <2>2
  <2>3. ASSUME NEW f \in {"map", "list"}, NEW S \in SUBSET Services, NEW a \in C!Pins(S),
               d.ports = [form |-> f, at |-> a]
        PROVE  Ports(d.ports.at)
    <3>1. d.ports.at = a /\ DOMAIN a = S /\ \A s \in S : a[s] \in Hosts \cup {0}
      BY <2>3 DEF C!Pins, C!Unset
    <3> QED
      BY <3>1 DEF Ports
  <2> QED
    BY <2>1, <2>2, <2>3 DEF C!Listings, Services
<1>3. C!Blank.ports.at = C!Auto
  BY DEF C!Blank
<1>4. \A c : C!Dump(c).ports.at = c.ports
  BY DEF C!Dump
<1> QED
  BY <1>1, <1>2, <1>3, <1>4

\* An empty file loads, and so does the dump of what has been validated.
LEMMA WrittenLoads ==
  /\ C!Problem(C!Blank) = "none"
  /\ \A c : C!HostsDistinct(c.ports) /\ C!Addressed(c.ports, c.frida) => C!Problem(C!Dump(c)) = "none"
<1>1. /\ C!Blank.key = "none" /\ C!Blank.api = "cur" /\ ~C!Blank.frida
      /\ ~C!UnknownService(C!Blank.ports) /\ C!Migrate(C!Blank.ports) = C!Auto
  BY DEF C!Blank, C!UnknownService, C!Migrate
<1>2. C!HostsDistinct(C!Auto) /\ "adb" \in DOMAIN C!Auto
  BY DEF C!HostsDistinct, C!Auto, C!Unset, C!WellKnown
<1>3. C!Problem(C!Blank) = "none"
  BY <1>1, <1>2 DEF C!Problem, C!Addressed
<1>4. ASSUME NEW c, C!HostsDistinct(c.ports), C!Addressed(c.ports, c.frida)
      PROVE  C!Problem(C!Dump(c)) = "none"
  <2>1. /\ C!Dump(c).key = "none" /\ C!Dump(c).api = "cur" /\ C!Dump(c).frida = c.frida
        /\ ~C!UnknownService(C!Dump(c).ports) /\ C!Migrate(C!Dump(c).ports) = c.ports
    BY DEF C!Dump, C!UnknownService, C!Migrate
  <2> QED
    BY <1>4, <2>1 DEF C!Problem
<1> QED
  BY <1>3, <1>4

\* A load.
LEMMA LoadFile ==
  ASSUME FileInv, NEW p \in CfgProcs, C!Resolve(p) \/ C!Apply(p)
  PROVE  FileInv'
<1>0. /\ cfgPc[p] \in {"load", "apply"} /\ C!LoadYaml(p) /\ UNCHANGED <<file, verb, asked, kills, edits>>
      /\ \E s \in {"idle", "apply", "stage"} :
           /\ cfgPc' = [cfgPc EXCEPT ![p] = s]
           /\ s # "idle" => C!Problem(file) = "none"
  <2>1. CASE C!Apply(p)
    BY <2>1 DEF C!Apply, C!Go
  <2>2. CASE C!Resolve(p)
    <3>1. verb[p] \in {"load", "apply", "module"}
      BY <2>2 DEF C!Resolve, FileInv, Command
    <3>2. CASE C!Problem(file) # "none" \/ verb[p] = "load"
      BY <2>2, <3>2 DEF C!Resolve, C!Go
    <3>3. CASE C!Problem(file) = "none" /\ verb[p] = "apply"
      BY <2>2, <3>3 DEF C!Resolve, C!Go
    <3>4. CASE C!Problem(file) = "none" /\ verb[p] = "module"
      BY <2>2, <3>4 DEF C!Resolve, C!Go
    <3> QED
      BY <3>1, <3>2, <3>3, <3>4
  <2> QED
    BY <2>1, <2>2
<1>1. PICK s \in {"idle", "apply", "stage"} :
        cfgPc' = [cfgPc EXCEPT ![p] = s] /\ (s # "idle" => C!Problem(file) = "none")
  BY <1>0
<1>2. cfgPc'[p] = s /\ \A q \in CfgProcs : q # p => cfgPc'[q] = cfgPc[q]
  BY <1>1 DEF FileInv
<1>3. ASSUME NEW q \in CfgProcs, q # p PROVE Command(q)'
  <2>1. Command(q)
    BY DEF FileInv
  <2>2. cfg'[q] = cfg[q] /\ verb'[q] = verb[q] /\ cfgPc'[q] = cfgPc[q]
    BY <1>0, <1>2, <1>3, Loaded
  <2> QED
    BY <2>1, <2>2 DEF Command, Ports, C!HostsDistinct, C!Addressed
<1>4. Command(p)'
  <2>1. /\ s \in {"apply", "stage"} => cfg'[p].held
        /\ cfg'[p].held => /\ Ports(cfg'[p].ports) /\ C!HostsDistinct(cfg'[p].ports)
                           /\ C!Addressed(cfg'[p].ports, cfg'[p].frida)
    BY <1>0, <1>1, Loaded
  <2>2. verb'[p] \in {"load", "apply", "module"}
    BY <1>0 DEF FileInv, Command
  <2> QED
    BY <1>2, <2>1, <2>2 DEF Command, Ports, C!HostsDistinct, C!Addressed
<1>5. /\ cfgPc' \in [CfgProcs -> {"idle", "load", "apply", "stage", "open", "write"}]
      /\ DOMAIN verb' = CfgProcs /\ DOMAIN cfg' = CfgProcs
  BY <1>0, <1>1, Loaded DEF FileInv
<1> QED
  BY <1>0, <1>3, <1>4, <1>5 DEF FileInv, Ports

\* What a step of p that does not load does to the configs: a module is added,
\* or the config is dropped.
LEMMA ConfigStep ==
  ASSUME FileInv, NEW p \in CfgProcs,
         C!Begin(p) \/ C!StageModule(p) \/ C!OpenYaml(p) \/ C!WriteYaml(p) \/ C!Kill(p)
  PROVE  /\ DOMAIN cfg' = CfgProcs /\ \A q \in CfgProcs : q # p => cfg'[q] = cfg[q]
         /\ cfg'[p].held => /\ cfg[p].held /\ cfg'[p].ports = cfg[p].ports
                            /\ cfg'[p].frida = cfg[p].frida /\ cfg'[p].vm = cfg[p].vm
                            /\ cfg'[p].set = cfg[p].set
<1>1. CASE C!Begin(p) \/ C!Kill(p)
  <2>1. cfg' = [cfg EXCEPT ![p] = C!NoCfg]
    BY <1>1 DEF C!Begin, C!Kill
  <2> QED
    BY <2>1 DEF FileInv, C!NoCfg
<1>2. CASE cfg' = [cfg EXCEPT ![p].mods = 1]
  <2>1. cfg'[p] = [cfg[p] EXCEPT !.mods = 1]
    BY <1>2 DEF FileInv
  <2> QED
    BY <1>2, <2>1 DEF FileInv
<1>3. CASE UNCHANGED cfg
  BY <1>3 DEF FileInv
<1> QED
  BY <1>1, <1>2, <1>3 DEF C!StageModule, C!OpenYaml, C!WriteYaml

\* The steps of a command that do not load.
LEMMA OtherFile ==
  ASSUME FileInv, NEW p \in CfgProcs,
         C!Begin(p) \/ C!StageModule(p) \/ C!OpenYaml(p) \/ C!WriteYaml(p) \/ C!Kill(p)
  PROVE  FileInv'
<1>0. Command(p)
  BY DEF FileInv
<1>1. PICK s \in {"idle", "load", "open", "write"} : cfgPc' = [cfgPc EXCEPT ![p] = s]
  BY DEF C!Begin, C!StageModule, C!OpenYaml, C!WriteYaml, C!Kill, C!Go
<1>2. cfgPc'[p] = s /\ \A q \in CfgProcs : q # p => cfgPc'[q] = cfgPc[q]
  BY <1>1 DEF FileInv
<1>3. Ports(file'.ports.at) /\ asked' = asked /\ kills' \in Nat /\ edits' \in Nat
  <2>1. CASE C!OpenYaml(p)
    BY <2>1, Documents DEF C!OpenYaml, FileInv
  <2>2. CASE C!WriteYaml(p)
    <3>1. file' = C!Dump(cfg[p]) /\ cfg[p].held /\ Ports(cfg[p].ports)
      BY <2>2, <1>0 DEF C!WriteYaml, Command
    <3> QED
      BY <2>2, <3>1, Documents DEF C!WriteYaml, FileInv
  <2>3. CASE C!Begin(p) \/ C!StageModule(p) \/ C!Kill(p)
    BY <2>3 DEF C!Begin, C!StageModule, C!Kill, FileInv, Ports
  <2> QED
    BY <2>1, <2>2, <2>3
<1>4. DOMAIN verb' = CfgProcs /\ \A q \in CfgProcs : q # p => verb'[q] = verb[q]
  BY DEF C!Begin, C!StageModule, C!OpenYaml, C!WriteYaml, C!Kill, FileInv
<1>5. ASSUME NEW q \in CfgProcs, q # p PROVE Command(q)'
  <2>1. Command(q) /\ cfg'[q] = cfg[q]
    BY <1>5, ConfigStep DEF FileInv
  <2> QED
    BY <1>2, <1>4, <1>5, <2>1 DEF Command, Ports, C!HostsDistinct, C!Addressed
<1>6. Command(p)'
  <2>1. cfg'[p].held => /\ Ports(cfg'[p].ports) /\ C!HostsDistinct(cfg'[p].ports)
                        /\ C!Addressed(cfg'[p].ports, cfg'[p].frida)
    BY <1>0, ConfigStep DEF Command
  <2>2. cfgPc'[p] \in {"stage", "open", "write"} => cfg'[p].held
    <3>1. ASSUME s \in {"open", "write"} PROVE cfg'[p].held
      <4>1. C!StageModule(p) \/ C!OpenYaml(p)
        BY <1>2, <3>1 DEF C!Begin, C!StageModule, C!OpenYaml, C!WriteYaml, C!Kill, C!Go, FileInv
      <4>2. cfg[p].held
        BY <4>1, <1>0 DEF C!StageModule, C!OpenYaml, Command
      <4>3. CASE UNCHANGED cfg
        BY <4>2, <4>3
      <4>4. CASE cfg' = [cfg EXCEPT ![p].mods = 1]
        <5>1. cfg'[p] = [cfg[p] EXCEPT !.mods = 1]
          BY <4>4 DEF FileInv
        <5> QED
          BY <4>2, <5>1
      <4> QED
        BY <4>1, <4>3, <4>4 DEF C!StageModule, C!OpenYaml
    <3> QED
      BY <1>2, <3>1
  <2>3. cfgPc'[p] # "idle" => verb'[p] \in {"load", "apply", "module"}
    <3>1. CASE C!Begin(p)
      BY <3>1 DEF C!Begin, FileInv
    <3>2. CASE C!StageModule(p) \/ C!OpenYaml(p) \/ C!WriteYaml(p)
      BY <3>2, <1>0 DEF C!StageModule, C!OpenYaml, C!WriteYaml, Command
    <3>3. CASE C!Kill(p)
      BY <3>3 DEF C!Kill, C!Go, FileInv
    <3> QED
      BY <3>1, <3>2, <3>3
  <2> QED
    BY <2>1, <2>2, <2>3 DEF Command, Ports, C!HostsDistinct, C!Addressed
<1>7. cfgPc' \in [CfgProcs -> {"idle", "load", "apply", "stage", "open", "write"}]
  BY <1>1 DEF FileInv
<1> QED
  BY <1>3, <1>4, <1>5, <1>6, <1>7, ConfigStep DEF FileInv, Ports

\* The user writes a document while no command runs.
LEMMA EditFile == ASSUME FileInv, C!Edit PROVE FileInv'
<1>1. /\ file' \in C!Docs /\ asked' = file' /\ cfg' = [p \in CfgProcs |-> C!NoCfg]
      /\ UNCHANGED <<cfgPc, verb, kills>> /\ edits' \in Nat
      /\ \A p \in CfgProcs : cfgPc[p] = "idle"
  BY DEF C!Edit, C!Quiet, FileInv
<1>2. Ports(file'.ports.at)
  BY <1>1, Documents
<1>3. ASSUME NEW p \in CfgProcs PROVE Command(p)'
  <2>1. cfg'[p] = C!NoCfg /\ cfgPc'[p] = "idle"
    BY <1>1
  <2> QED
    BY <2>1 DEF Command, C!NoCfg
<1> QED
  BY <1>1, <1>2, <1>3 DEF FileInv, Ports

\* Every step keeps what each command owes.
LEMMA NextFile == FileInv /\ C!Next => FileInv'
BY LoadFile, OtherFile, EditFile DEF C!Next, C!Step

\* Whatever races and is killed, the file and every config are the user's or the defaults.
LEMMA NextMix ==
  ASSUME FileInv, MixInv, C!Next
  PROVE  MixInv'
<1>1. CASE C!Edit
  <2>1. asked' = file' /\ \A p \in CfgProcs : ~cfg'[p].held
    BY <1>1 DEF C!Edit, C!NoCfg
  <2> QED
    BY <2>1 DEF MixInv, Users, AsAsked, HostOf
<1>2. ASSUME NEW p \in CfgProcs, C!Resolve(p) \/ C!Apply(p) PROVE MixInv'
  <2>1. UNCHANGED <<file, asked>> /\ C!LoadYaml(p)
    BY <1>2 DEF C!Resolve, C!Apply
  <2>2. ASSUME cfg'[p].held
        PROVE  Users(cfg'[p], cfg'[p].ports) \/ Defaults(cfg'[p], cfg'[p].ports)
    <3>1. /\ cfg'[p] = C!Config(file) /\ cfg'[p].ports = C!Migrate(file.ports)
          /\ ~C!UnknownService(file.ports)
      BY <2>1, <2>2, Loaded
    <3>2. /\ cfg'[p].frida = file.frida /\ cfg'[p].vm = file.vm /\ cfg'[p].set = file.set
      BY <3>1 DEF C!Config
    <3>3. CASE Users(file, file.ports.at)
      <4>1. \A s \in Services : HostOf(C!Migrate(file.ports), s) = HostOf(file.ports.at, s)
        BY <3>1, MigrateKeeps DEF FileInv
      <4> QED
        BY <3>1, <3>2, <3>3, <4>1 DEF Users, AsAsked
    <3>4. CASE Defaults(file, file.ports.at) /\ file.ports.form # "map"
      BY <3>1, <3>2, <3>4 DEF Defaults, C!Migrate
    <3> QED
      BY <3>3, <3>4 DEF MixInv
  <2>3. \A q \in CfgProcs : q # p => cfg'[q] = cfg[q]
    BY <2>1, Loaded
  <2> QED
    BY <2>1, <2>2, <2>3 DEF MixInv, Users, Defaults, AsAsked, HostOf
<1>3. ASSUME NEW p \in CfgProcs,
             C!Begin(p) \/ C!StageModule(p) \/ C!OpenYaml(p) \/ C!WriteYaml(p) \/ C!Kill(p)
      PROVE  MixInv'
  <2>1. asked' = asked
    BY <1>3 DEF C!Begin, C!StageModule, C!OpenYaml, C!WriteYaml, C!Kill
  <2>2. ASSUME NEW q \in CfgProcs, cfg'[q].held
        PROVE  Users(cfg'[q], cfg'[q].ports) \/ Defaults(cfg'[q], cfg'[q].ports)
    <3>1. /\ cfg[q].held /\ cfg'[q].ports = cfg[q].ports /\ cfg'[q].frida = cfg[q].frida
          /\ cfg'[q].vm = cfg[q].vm /\ cfg'[q].set = cfg[q].set
      BY <1>3, <2>2, ConfigStep
    <3> QED
      BY <3>1 DEF MixInv, Users, Defaults
  <2>3. \/ Users(file', file'.ports.at)
        \/ Defaults(file', file'.ports.at) /\ file'.ports.form # "map"
    <3>1. CASE C!OpenYaml(p)
      <4>1. file' = C!Blank
        BY <3>1 DEF C!OpenYaml
      <4> QED
        BY <4>1 DEF Defaults, C!Blank
    <3>2. CASE C!WriteYaml(p)
      <4>1. file' = C!Dump(cfg[p]) /\ cfg[p].held
        BY <3>2 DEF C!WriteYaml, FileInv, Command
      <4>2. /\ file'.frida = cfg[p].frida /\ file'.vm = cfg[p].vm /\ file'.set = cfg[p].set
            /\ file'.ports.at = cfg[p].ports /\ file'.ports.form = "list"
        BY <4>1 DEF C!Dump
      <4> QED
        BY <4>1, <4>2 DEF MixInv, Users, Defaults
    <3>3. CASE C!Begin(p) \/ C!StageModule(p) \/ C!Kill(p)
      BY <3>3 DEF C!Begin, C!StageModule, C!Kill, MixInv
    <3> QED
      BY <1>3, <3>1, <3>2, <3>3
  <2> QED
    BY <2>1, <2>2, <2>3 DEF MixInv, Users, Defaults, AsAsked, HostOf
<1> QED
  BY <1>1, <1>2, <1>3 DEF C!Next, C!Step

\* The hosts asked for are those of the file, before a load and after a write.
LEMMA NextPins ==
  ASSUME FileInv, PinsInv, C!Next, Scene, scene = "upgrade"
  PROVE  PinsInv'
<1>0. kills' = 0 /\ \A p \in CfgProcs : cfgPc[p] = "idle" /\ cfgPc'[p] # "idle" => C!Quiet
  BY DEF Scene
<1>1. ASSUME NEW p \in CfgProcs, C!Kill(p) PROVE PinsInv'
  BY <1>0, <1>1 DEF C!Kill, FileInv
<1>2. CASE C!Edit
  <2>1. /\ file' \in C!Docs /\ asked' = file' /\ cfgPc' = cfgPc
        /\ \A p \in CfgProcs : cfgPc[p] = "idle" /\ ~cfg'[p].held
    BY <1>2 DEF C!Edit, C!Quiet, C!NoCfg
  <2>2. AsAsked(file.ports.at)'
    BY <2>1 DEF AsAsked, HostOf
  <2> QED
    BY <1>0, <2>1, <2>2 DEF PinsInv
<1>3. ASSUME NEW p \in CfgProcs, C!Begin(p) \/ C!Step(p) PROVE PinsInv'
  <2>1. asked' = asked /\ \E s : cfgPc' = [cfgPc EXCEPT ![p] = s]
    BY <1>3 DEF C!Begin, C!Step, C!Resolve, C!Apply, C!StageModule, C!OpenYaml, C!WriteYaml, C!Go
  <2>2. \A q \in CfgProcs : q # p => cfgPc[q] = "idle" /\ cfgPc'[q] = "idle"
    <3>1. \A q \in CfgProcs : q # p => cfgPc'[q] = cfgPc[q]
      BY <2>1 DEF FileInv
    <3>2. CASE cfgPc[p] = "idle"
      <4>1. cfgPc'[p] = "load"
        BY <1>3, <3>2 DEF C!Begin, C!Step, C!Resolve, C!Apply, C!StageModule, C!OpenYaml,
                          C!WriteYaml, C!Go, FileInv
      <4> QED
        BY <1>0, <3>1, <3>2, <4>1 DEF C!Quiet
    <3>3. CASE cfgPc[p] # "idle"
      BY <3>1, <3>3 DEF PinsInv
    <3> QED
      BY <3>2, <3>3
  <2>3. \A a : AsAsked(a) => AsAsked(a)'
    BY <2>1 DEF AsAsked, HostOf
  <2>4. cfgPc[p] # "write" => AsAsked(file.ports.at)
    BY <2>2 DEF PinsInv
  <2>5. \A q \in CfgProcs : q # p => cfg'[q] = cfg[q]
    <3>1. CASE C!Resolve(p) \/ C!Apply(p)
      BY <3>1, Loaded DEF C!Resolve, C!Apply
    <3>2. CASE C!Begin(p) \/ C!StageModule(p) \/ C!OpenYaml(p) \/ C!WriteYaml(p)
      BY <3>2 DEF C!Begin, C!StageModule, C!OpenYaml, C!WriteYaml, FileInv
    <3> QED
      BY <1>3, <3>1, <3>2 DEF C!Step
  <2>6. /\ cfg'[p].held => AsAsked(cfg'[p].ports)
        /\ cfgPc'[p] # "write" => AsAsked(file'.ports.at)
    <3>1. CASE C!Resolve(p) \/ C!Apply(p)
      <4>1. C!LoadYaml(p) /\ file' = file /\ cfgPc[p] # "write"
        BY <3>1 DEF C!Resolve, C!Apply
      <4>2. ASSUME cfg'[p].held PROVE AsAsked(cfg'[p].ports)
        <5>1. cfg'[p].ports = C!Migrate(file.ports) /\ ~C!UnknownService(file.ports)
          BY <4>1, <4>2, Loaded
        <5>2. \A s \in Services : HostOf(C!Migrate(file.ports), s) = HostOf(file.ports.at, s)
          BY <5>1, MigrateKeeps DEF FileInv
        <5> QED
          BY <2>4, <4>1, <5>1, <5>2 DEF AsAsked
      <4> QED
        BY <2>4, <4>1, <4>2
    <3>2. CASE C!Begin(p)
      <4>1. ~cfg'[p].held /\ file' = file /\ cfgPc[p] = "idle"
        BY <3>2 DEF C!Begin, C!NoCfg, FileInv
      <4> QED
        BY <2>4, <4>1
    <3>3. CASE C!StageModule(p)
      <4>1. /\ cfg'[p].held => cfg[p].held /\ cfg'[p].ports = cfg[p].ports
            /\ file' = file /\ cfgPc[p] = "stage"
        <5>1. CASE UNCHANGED cfg
          BY <3>3, <5>1 DEF C!StageModule
        <5>2. CASE cfg' = [cfg EXCEPT ![p].mods = 1]
          <6>1. cfg'[p] = [cfg[p] EXCEPT !.mods = 1]
            BY <5>2 DEF FileInv
          <6> QED
            BY <3>3, <6>1 DEF C!StageModule
        <5> QED
          BY <3>3, <5>1, <5>2 DEF C!StageModule
      <4>2. cfg[p].held => AsAsked(cfg[p].ports)
        BY DEF PinsInv
      <4> QED
        BY <2>4, <4>1, <4>2
    <3>4. CASE C!OpenYaml(p)
      <4>1. cfg' = cfg /\ cfgPc'[p] = "write"
        BY <3>4 DEF C!OpenYaml, C!Go, FileInv
      <4> QED
        BY <4>1 DEF PinsInv
    <3>5. CASE C!WriteYaml(p)
      <4>1. cfg' = cfg /\ file' = C!Dump(cfg[p]) /\ cfgPc[p] = "write"
        BY <3>5 DEF C!WriteYaml
      <4>2. cfg[p].held /\ AsAsked(cfg[p].ports)
        BY <4>1 DEF FileInv, Command, PinsInv
      <4> QED
        BY <4>1, <4>2, Documents
    <3> QED
      BY <1>3, <3>1, <3>2, <3>3, <3>4, <3>5 DEF C!Step
  <2>7. (\A q \in CfgProcs : cfg[q].held => AsAsked(cfg[q].ports))'
    <3> SUFFICES ASSUME NEW q \in CfgProcs, cfg'[q].held PROVE AsAsked(cfg'[q].ports)
      BY <2>1 DEF AsAsked, HostOf
    <3> QED
      BY <2>5, <2>6 DEF PinsInv
  <2>8. (\A q \in CfgProcs : cfgPc'[q] # "write") => AsAsked(file.ports.at)'
    <3> SUFFICES ASSUME cfgPc'[p] # "write" PROVE AsAsked(file'.ports.at)
      BY <2>1 DEF AsAsked, HostOf
    <3> QED
      BY <2>6
  <2> QED
    BY <1>0, <2>2, <2>7, <2>8 DEF PinsInv
<1> QED
  BY <1>1, <1>2, <1>3 DEF C!Next

\* The invariant of every scene.
CommandsInv == FileInv /\ MixInv /\ (scene = "upgrade" => PinsInv)

\* It is one.
LEMMA CommandsInductive == SceneSpec => []CommandsInv
<1>1. SceneInit => CommandsInv
  <2> SUFFICES ASSUME SceneInit PROVE FileInv /\ MixInv /\ PinsInv
    BY DEF CommandsInv
  <2>1. /\ file = C!Blank /\ asked = file /\ kills = 0 /\ edits = 0
        /\ cfgPc = [p \in CfgProcs |-> "idle"] /\ cfg = [p \in CfgProcs |-> C!NoCfg]
        /\ verb = [p \in CfgProcs |-> "none"]
    BY DEF SceneInit, C!Init
  <2>2. /\ Ports(file.ports.at) /\ Ports(asked.ports.at) /\ AsAsked(file.ports.at)
        /\ Users(file, file.ports.at)
    BY <2>1, Documents DEF AsAsked, Users
  <2>3. \A p \in CfgProcs : Command(p) /\ ~cfg[p].held
    BY <2>1 DEF Command, C!NoCfg
  <2> QED
    BY <2>1, <2>2, <2>3 DEF FileInv, MixInv, PinsInv
<1>2. CommandsInv /\ [SceneNext]_<<scene, vars, cfgVars>> => CommandsInv'
  <2> SUFFICES ASSUME CommandsInv, [SceneNext]_<<scene, vars, cfgVars>> PROVE CommandsInv'
    OBVIOUS
  <2>1. scene' = scene
    BY DEF SceneNext
  <2>2. CASE UNCHANGED cfgVars
    <3>1. FileInv'
      BY <2>2 DEF cfgVars, CommandsInv, FileInv, Command, Ports, C!HostsDistinct, C!Addressed
    <3>2. MixInv' /\ (PinsInv => PinsInv')
      BY <2>2 DEF cfgVars, CommandsInv, MixInv, Users, Defaults, PinsInv, AsAsked, HostOf
    <3> QED
      BY <2>1, <3>1, <3>2 DEF CommandsInv
  <2>3. CASE C!Next /\ Scene
    BY <2>1, <2>3, NextFile, NextMix, NextPins DEF CommandsInv
  <2> QED
    BY <2>2, <2>3 DEF SceneNext
<1> QED
  BY <1>1, <1>2, PTL DEF SceneSpec

\* The two ways to say that ports name the hosts asked for.
LEMMA AskedPins ==
  ASSUME NEW a, Ports(a), Ports(asked.ports.at), AsAsked(a)
  PROVE  C!PinsAsAsked(a)
BY DEF Ports, AsAsked, HostOf, C!PinsAsAsked, C!Asks, C!Unset

\* Through any number of edits, upgrades and rewrites, one after another, each
\* service stays on the host port the user pinned; and whatever races and is
\* killed, what a command loaded can be addressed
\* (_migrate_legacy_ports_mapping, load_yaml, write_yaml).
THEOREM PinsAlwaysKept == SceneSpec => []PinsKept
<1>1. CommandsInv => PinsKept
  <2> SUFFICES ASSUME CommandsInv PROVE PinsKept
    OBVIOUS
  <2>1. C!TypeOK
    BY DEF CommandsInv, FileInv, Command, Ports, C!Addressed, C!TypeOK, C!Unset
  <2>2. scene = "upgrade" => C!PinsKept
    <3> SUFFICES ASSUME scene = "upgrade", NEW p \in CfgProcs, cfg[p].held
                 PROVE  C!PinsAsAsked(cfg[p].ports)
      BY DEF C!PinsKept
    <3>1. AsAsked(cfg[p].ports) /\ Ports(cfg[p].ports) /\ Ports(asked.ports.at)
      BY DEF CommandsInv, FileInv, Command, PinsInv
    <3> QED
      BY <3>1, AskedPins
  <2> QED
    BY <2>1, <2>2 DEF PinsKept
<1> QED
  BY <1>1, CommandsInductive, PTL

\* However many `module` commands rewrite beetroot.yaml at once, and wherever
\* they are killed, what they leave loads again, and what any command then loads
\* is the user's document or the defaults, never some of each (load_yaml,
\* write_yaml, add_module).
THEOREM RewritesAlwaysSafe == SceneSpec => RewriteSafe
<1>1. CommandsInv => C!NeverMixed
  <2> SUFFICES ASSUME CommandsInv, NEW p \in CfgProcs, cfg[p].held
               PROVE  C!AsWritten(cfg[p]) \/ C!AllDefaults(cfg[p])
    BY DEF C!NeverMixed
  <2>1. Ports(cfg[p].ports) /\ Ports(asked.ports.at)
    BY DEF CommandsInv, FileInv, Command
  <2>2. CASE Users(cfg[p], cfg[p].ports)
    BY <2>1, <2>2, AskedPins DEF Users, C!AsWritten
  <2>3. CASE Defaults(cfg[p], cfg[p].ports)
    BY <2>3 DEF Defaults, C!AllDefaults
  <2> QED
    BY <2>2, <2>3 DEF CommandsInv, MixInv
<1>2. CommandsInv /\ [SceneNext]_<<scene, vars, cfgVars>> => [C!RewritesLoad]_cfgVars
  <2> SUFFICES ASSUME CommandsInv, C!Next, file' # file, edits' = edits
               PROVE  C!Problem(file') = "none"
    BY DEF SceneNext, cfgVars, C!vars, C!RewritesLoad
  <2>1. ASSUME NEW p \in CfgProcs, C!OpenYaml(p) PROVE C!Problem(file') = "none"
    BY <2>1, WrittenLoads DEF C!OpenYaml
  <2>2. ASSUME NEW p \in CfgProcs, C!WriteYaml(p) PROVE C!Problem(file') = "none"
    <3>1. /\ file' = C!Dump(cfg[p]) /\ C!HostsDistinct(cfg[p].ports)
          /\ C!Addressed(cfg[p].ports, cfg[p].frida)
      BY <2>2 DEF C!WriteYaml, CommandsInv, FileInv, Command
    <3> QED
      BY <3>1, WrittenLoads
  <2>3. ASSUME NEW p \in CfgProcs,
               \/ C!Begin(p) \/ C!Resolve(p) \/ C!Apply(p) \/ C!StageModule(p) \/ C!Kill(p)
        PROVE  FALSE
    BY <2>3 DEF C!Begin, C!Resolve, C!Apply, C!StageModule, C!Kill
  <2>4. CASE C!Edit
    BY <2>4 DEF C!Edit, CommandsInv, FileInv
  <2> QED
    BY <2>1, <2>2, <2>3, <2>4 DEF C!Next, C!Step
<1> QED
  BY <1>1, <1>2, CommandsInductive, PTL DEF SceneSpec, RewriteSafe
=============================================================================
