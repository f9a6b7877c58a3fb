----------------------------- MODULE MCLifecycle ----------------------------
(***************************************************************************)
(* Lifecycle for TLC: all verbs, one command after another with the user   *)
(* at work meanwhile (`serial`; the directory is not deleted while a       *)
(* snapshot reads it), or several commands that take the lock and leave    *)
(* the instance there.                                                     *)
(***************************************************************************)
EXTENDS Lifecycle

VARIABLE serial

\* What happens in a scene.
Scene ==
  /\ calls' # calls =>
       IF serial
       THEN \A q \in Procs \ {CHOOSE p \in Procs : TRUE} : verb'[q] = "none"
       ELSE \A p \in Procs : verb'[p] \in {"reset", "snapshot", "none"}
  /\ acts' # acts =>
       IF serial THEN root' = root \/ \A p \in Procs : pc[p] # "packRest"
       ELSE UNCHANGED <<root, yaml, over>>

MCInit    == Init /\ serial \in BOOLEAN
SceneNext == Next /\ Scene /\ UNCHANGED serial
SceneSpec == MCInit /\ [][SceneNext]_<<vars, serial>>

\* The scenes at a size TLC can explore.
MCNext == SceneNext /\ (~serial => calls' <= 4 /\ acts' <= 1)
MCSpec == MCInit /\ [][MCNext]_<<vars, serial>> /\ \A p \in Procs : WF_vars(Step(p))

\* Commands at once that need not take the lock.
RaceSpec == Init /\ serial = FALSE /\ [][Next /\ UNCHANGED serial]_<<vars, serial>>
=============================================================================
