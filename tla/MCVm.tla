-------------------------------- MODULE MCVm --------------------------------
(***************************************************************************)
(* Vm for TLC, in one of three scenes: one command after another with a    *)
(* rebuild or an edit of the geometry and a kill ("cache"); the same with  *)
(* every verb and no kill or rebuild ("down"); and two commands at once    *)
(* with a port edit and a process that recycles pids ("race").             *)
(***************************************************************************)
EXTENDS Vm

VARIABLE scene

Yaml(b, pt, g, c) == [binder |-> b, port |-> pt, geo |-> g, cache |-> c]

MCFirst == Yaml("vm", 1, "g1", TRUE)

\* What a user does to beetroot.yaml: another geometry, another adb port, the
\* cache off, another backend, the file deleted.
GeoEdits   == {{Yaml("vm", 1, "g2", TRUE)}}
PortEdits  == {{Yaml("vm", 2, "g1", TRUE)}}
OtherEdits == {{Yaml("vm", 1, "g1", FALSE)}, {Yaml("host", 1, "g1", TRUE)}, {}}
MCEdits    == GeoEdits \cup PortEdits \cup OtherEdits

\* The process that starts first, and the only one of a serial scene.
Leader == CHOOSE p \in Procs : TRUE

Serial == scene # "race"

\* What happens in a scene.
Scene ==
  /\ Serial /\ calls' # calls => \A p \in Procs \ {Leader} : verb'[p] = "none"
  /\ edits' # edits =>
       \A c \in yaml' : /\ scene = "down" => c.port = FirstYaml.port
                        /\ scene = "race" => c.geo = FirstYaml.geo
  /\ scene = "down" => kills' = 0
  /\ scene = "race" => art' = 0

MCInit    == Init /\ scene \in {"cache", "down", "race"}
SceneNext == Next /\ Scene /\ UNCHANGED scene
SceneSpec == MCInit /\ [][SceneNext]_<<vars, scene>>

\* The scenes at a size TLC can explore.
Limits(verbs, changes, ndisks, ncalls, nkills, nrebuilds, nstrangers) ==
  /\ calls' # calls => calls' <= ncalls /\ \A p \in Procs : verb'[p] \in verbs \cup {"none"}
  /\ calls' # calls /\ calls = 0 => \A p \in Procs \ {Leader} : verb'[p] = "none"
  /\ edits' # edits => yaml' \in changes
  /\ disks' <= ndisks /\ kills' <= nkills /\ art' <= nrebuilds /\ strangers' <= nstrangers

Bounds ==
  \/ /\ scene = "cache" /\ edits' + art' <= 1
     /\ Limits({"up", "down", "restart"}, GeoEdits, 2, 2, 1, 1, 0)
  \/ scene = "down" /\ Limits(Verbs, OtherEdits, 2, 3, 0, 0, 0)
  \/ scene = "race" /\ Limits({"up", "down"}, PortEdits, 1, 2, 0, 0, 1)

MCNext == SceneNext /\ Bounds
MCSpec == MCInit /\ [][MCNext]_<<vars, scene>> /\ \A p \in Procs : WF_vars(Step(p))

\* A checkpoint only ever holds a guest that had finished booting
\* (SnapshotsBooted), when no second command boots the instance meanwhile; the
\* processes, the overlays and the commands have their types in any case.
SerialSnapshotsBooted == TypeOK /\ (Serial => SnapshotsBooted)

\* When a down, a destroy or the first half of a restart that the vm backend
\* carried out (VmDeviceBackend, or the orphan teardown) has ended, no QEMU of
\* the instance is left, until the next launch (DownStops).  What happened
\* before is any sequence of verbs and edits that keep the adb port, the row
\* moved to redroid and back while the VM runs included; no command is killed
\* between Popen and the pidfile and none races it.  A down that an apply has
\* sent to the redroid backend is not among them (AnyDownStops).
SerialDownStops == scene = "down" => DownStops
=============================================================================
