------------------------------ MODULE MCBuilds ------------------------------
(***************************************************************************)
(* The builds for TLC: `beetroot build` (ImageBuild) and `beetroot build   *)
(* --vm-kernel` (VmBuild), which share no file, so a behaviour plays one   *)
(* and the other rests.  The micro-VM's builds are played one after        *)
(* another with every override ("serial"), once on every kind of host      *)
(* ("hosts"), and two at a time with a kill ("race").                      *)
(***************************************************************************)
EXTENDS ImageBuild

CONSTANTS VmProcs, Vers, Revs, ReadyTries, MaxVmBuilds, MaxVmFaults, MaxVmKills

VARIABLES
  scene,
  have, conf, init, published, kernel, image, marker, torn, vmPc, req, why, tries, dockerd,
  skew, last, vmBuilds, vmFaults, vmKills

vmVars == <<have, conf, init, published, kernel, image, marker, torn, vmPc, req, why, tries, dockerd,
            skew, last, vmBuilds, vmFaults, vmKills>>

AllTools == {"curlTar", "compiler", "bins", "root", "daemon", "x86", "tarball", "cgroups"}

B == INSTANCE VmBuild WITH
       Procs <- VmProcs, Serial <- FALSE, Hosts <- SUBSET AllTools,
       Overrides <- {"none", "image", "tar", "size", "badSize"},
       MaxBuilds <- MaxVmBuilds, MaxFaults <- MaxVmFaults, MaxKills <- MaxVmKills,
       pc <- vmPc, builds <- vmBuilds, faults <- vmFaults, kills <- vmKills

ASSUME VmBuildsAssumption == B!VmBuildAssumption

Scenes == {"image", "serial", "hosts", "race"}

\* What happens in a scene: except in a race, a build starts and an `up` comes
\* when no build runs, and none is killed.
Scene ==
  scene # "race" => /\ (vmBuilds' # vmBuilds \/ skew' # skew) => B!Quiet
                    /\ vmKills' = 0

SceneInit == scene \in Scenes /\ Init /\ B!Init

SceneNext ==
  /\ UNCHANGED scene
  /\ \/ scene = "image" /\ Next /\ UNCHANGED vmVars
     \/ scene # "image" /\ B!Next /\ Scene /\ UNCHANGED vars

SceneSpec == SceneInit /\ [][SceneNext]_<<scene, vars, vmVars>>

-----------------------------------------------------------------------------
(* The scenes at a size TLC can explore.                                   *)

Leader == CHOOSE p \in VmProcs : TRUE
Asked(overs) == \A p \in VmProcs : req'[p].over \in overs
Alone == \A p \in VmProcs \ {Leader} : vmPc'[p] = "idle"

Bounds ==
  \/ scene = "image"
  \/ scene = "serial" /\ Alone /\ Asked({"none", "image", "tar"})
  \/ scene = "hosts" /\ Alone /\ vmBuilds' <= 1 /\ Asked({"none", "tar", "badSize"})
  \/ scene = "race" /\ Asked({"none"}) /\ (vmBuilds = 0 => Alone) /\ vmFaults' = 0

\* What was released was built from revision 1; the host's files may be older or
\* newer where one build follows another.
MCInit ==
  /\ SceneInit
  /\ IF scene = "image"
     THEN /\ have = {} /\ published = [kernels |-> {}, roots |-> {}]
          /\ conf = 1 /\ init = 1
     ELSE /\ daemon
          /\ published.kernels \subseteq {1} /\ published.roots \in {{}, Vers \X {1}}
          /\ scene # "serial" => conf = 1 /\ init = 1
          /\ scene # "hosts" => have = AllTools
          /\ scene = "race" => published.kernels = {1}

MCNext == SceneNext /\ Bounds

MCSpec ==
  /\ MCInit /\ [][MCNext]_<<scene, vars, vmVars>>
  /\ \A p \in Procs : WF_vars(Step(p))
  /\ \A p \in VmProcs : WF_vmVars(B!Builder(p))

\* What a --vm-kernel build that returns has left is what was asked for
\* (VmBuild's), when no other build ran meanwhile.
BuiltAsAsked == scene # "race" => B!BuiltAsAsked

\* The version marker can be believed (VmBuild's): no rootfs, whole or not, is
\* ever without one (#234), and an `up` on a rootfs of another Android version
\* warns, after any series of builds that fail or succeed, when none is killed or
\* runs meanwhile and the last to write the marker went on to write the image.
MarkersTrue == B!TypeOK /\ B!ImageMarked /\ (scene # "race" => B!SkewNoticed)

\* A bake that starts can finish and cleans up (VmBuild's): after a check that
\* found nothing missing it does not die of a missing tool, and no staging
\* dockerd outlives a build that was not killed.
BakeSound == B!BakeEquipped /\ B!DockerdStopped

\* Every build of either kind ends, whichever others wait or are killed.
AllBuildsEnd == BuildsEnd /\ B!BuildsEnd
=============================================================================
