---------------------------- MODULE MCProvision -----------------------------
(***************************************************************************)
(* Provision for TLC: one process over nested directories (`serial`), or   *)
(* two over directories apart; kills in both.                              *)
(***************************************************************************)
EXTENDS Provision, TLC

CONSTANTS n1, n2, n3, d1, d2, d3, d4, p1, p2

\* d2, d3 and d4 lie inside d1.
MCNames  == {n1, n2, n3}
MCDirs   == {d1, d2, d3, d4}
MCWithin == {<<d, d>> : d \in MCDirs} \cup {<<d, d1>> : d \in MCDirs}
MCProcs  == {p1, p2}

\* 1 is the stride default of index 1; 7 is nobody's.
MCPins == {1, 7}

Of(verb, names, dirs, cfgs, forces) ==
  [verb : {verb}, name : names, dir : dirs, cfg : cfgs, force : forces]

\* Creates and restores in the outer directory and in the inner ones; a third
\* instance is one too many for the index cap.
CrashCalls ==
  Of("create", {n1}, {d1, d2}, {{}, {7}}, {FALSE})
    \cup Of("create", {n2}, {d1, d3}, {{7}}, {FALSE})
    \cup Of("create", {n3}, {d4}, {{}}, {FALSE})
    \cup Of("register", {n3}, {d1, d2}, {{}}, {FALSE})
    \cup Of("restore", {n2}, {d1, d2}, {{7}}, BOOLEAN)
    \cup Of("destroy", {n1, n2}, {d1}, {{}}, {FALSE})
    \cup Of("forget", {n1}, {d1}, {{}}, {FALSE})

\* n1 and n2 fight over port 7 and over n2's stride default.
PortsCalls ==
  Of("create", {n1}, {d2}, {{7}, {1}}, {FALSE})
    \cup Of("create", {n2}, {d3}, {{7}}, {FALSE})
    \cup Of("restore", {n2}, {d3}, {{7}}, {FALSE})
    \cup Of("register", {n2}, {d2}, {{}}, {FALSE})
    \cup Of("apply", {n1, n2}, {d2}, {{}}, {FALSE})
    \cup Of("up", {n1}, {d2}, {{}}, {FALSE})
    \cup Of("forget", {n1}, {d2}, {{}}, {FALSE})
PortsEdits == {{7}, {}}

MCCalls == CrashCalls \cup PortsCalls

ProcSymmetry == Permutations(MCProcs)

-----------------------------------------------------------------------------
VARIABLE serial

\* In a serial behaviour a command starts when the others have returned.
SceneInit == Init /\ serial \in BOOLEAN
SceneNext == Next /\ (serial /\ calls' # calls => Quiet) /\ UNCHANGED serial
SceneSpec == SceneInit /\ [][SceneNext]_<<vars, serial>>

\* A size TLC can explore: one process makes all calls of a serial behaviour.
Bounds ==
  /\ calls' # calls =>
       /\ serial => \E p \in Procs : \A q \in Procs \ {p} : call'[q] = NoCall
       /\ calls' <= (IF serial THEN 5 ELSE 3)
       /\ \A p \in Procs : pc'[p] # pc[p] =>
            call'[p] \in (IF serial THEN CrashCalls ELSE PortsCalls)
  /\ serial => edits' = edits

MCNext == SceneNext /\ Bounds
MCSpec == SceneInit /\ [][MCNext]_<<vars, serial>>

\* NoOverlap for commands that do not run at the same time: whatever is created,
\* restored, forgotten or cut short, no instance lives inside another (#255).
SerialNoOverlap == serial => NoOverlap

\* RowHasDir for commands that do not run at the same time: a kill at any step
\* leaves a directory without a row, never a row without a directory.
SerialRowHasDir == serial => RowHasDir

=============================================================================
