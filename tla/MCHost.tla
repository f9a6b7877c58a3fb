------------------------------- MODULE MCHost -------------------------------
(***************************************************************************)
(* What concerns a host as a whole, for TLC: the commands that judge it    *)
(* (HostPlan), those that walk its registry (Fleet) and the allocation of  *)
(* its ports (Ports).  They share no state, so a behaviour plays one of    *)
(* them and the others rest.                                               *)
(***************************************************************************)
EXTENDS HostPlan

CONSTANTS
  Scenes,                                    \* which of them a behaviour may play
  Names, Walks, Changes, MaxWalkChanges,     \* Fleet's
  UsedSets, PinnedHosts, Siblings            \* Ports'

VARIABLES
  scene,
  row, yaml, running, walkPc, walk, todo, kept, acted, orphans, redroids, shown, end,
  steady, walkChanges,
  used, index, phase, resolved, extra

walkVars == <<row, yaml, running, walkPc, walk, todo, kept, acted, orphans, redroids, shown,
              end, steady, walkChanges>>
portVars == <<used, index, phase, resolved, extra>>

F == INSTANCE Fleet WITH pc <- walkPc, changes <- walkChanges, MaxChanges <- MaxWalkChanges
P == INSTANCE Ports

ASSUME HostAssumption ==
  HostPlanAssumption /\ F!FleetAssumption /\ P!PortsAssumption

\* Used indices: none, with a gap, up to one below the cap, at the cap, and full.
MCUsedSets == {{}, {0, 1, 3}, 0..1293, 0..1294, 0..1295}

\* Pins on a sibling's stride default, on this instance's own pool window, and
\* on a privileged port.
MCPinnedHosts == {80, 5565, 18505, 40000}

MCSiblings == {0, 1, 2, 3, 1294, 1295, 1296}

\* Those that rest: a host on which everything runs, an empty registry, no
\* allocation yet.
Capable == [on |-> Facts, kernel |-> "y", kvm |-> "usable", gz |-> "y", boot |-> "y"]

\* What only the other backend looks at is there from the start.
OneBackend ==
  IF inst.binder = "vm"
  THEN {"dev", "binderfs", "docker", "daemon"} \subseteq host.on /\ host.gz = "y" /\ host.boot = "y"
  ELSE {"qemu", "qemuImg", "adb", "artifacts"} \subseteq host.on /\ host.kvm = "usable"

MCInit ==
  /\ scene \in Scenes
  /\ scene # "host" => host = Capable /\ inst = [binder |-> "vm", accel |-> "auto", cache |-> FALSE]
  /\ scene # "walk" => row = [n \in Names |-> "none"]
  /\ scene # "ports" => used = {}
  /\ Init /\ OneBackend /\ F!Init /\ P!Init

MCNext ==
  /\ UNCHANGED scene
  /\ \/ scene = "host" /\ Next /\ UNCHANGED <<walkVars, portVars>>
     \/ scene = "walk" /\ F!Next /\ UNCHANGED <<vars, portVars>>
     \/ scene = "ports" /\ P!Next /\ UNCHANGED <<vars, walkVars>>

MCSpec ==
  /\ MCInit /\ [][MCNext]_<<scene, vars, walkVars, portVars>>
  /\ WF_vars(FollowRemedy)

\* The walks of the registry are exact, whatever is removed, broken or added
\* meanwhile (Fleet's): a fan-out that reports success reached every healthy
\* instance that nobody touched and acted on nothing it could not resolve, and
\* ls shows every redroid and adb row that nobody touched, in its table or as
\* an orphan.
WalksExact == F!WalksExact

\* lowest_free_index returns a free index, and the lowest one (Ports').
LowestFree == P!LowestFree

\* Auto-allocated ports of two instances can never meet, and every one is a TCP
\* port (Ports'): this is what the stride, the pool base and the index cap of
\* ports.py are for.
AutoBandsDisjoint == P!AutoBandsDisjoint
=============================================================================
