------------------------------ MODULE MCModule ------------------------------
(***************************************************************************)
(* The `module` verb for TLC: the batch on an adopted device (AdbBatch),   *)
(* and the commands around the beetroot.yaml it writes for an instance     *)
(* (ConfigFile).  They share no state, so a behaviour plays one and the    *)
(* other rests.  The config's commands run one after another on documents  *)
(* of every version ("upgrade"), or two at a time with a kill ("race").    *)
(***************************************************************************)
EXTENDS AdbBatch

CONSTANTS CfgProcs, Hosts, MaxCfgEdits, MaxCfgKills

VARIABLES
  scene, file, cfgPc, verb, cfg, raised, noted, asked, done, edits, kills

cfgVars == <<file, cfgPc, verb, cfg, raised, noted, asked, done, edits, kills>>

C == INSTANCE ConfigFile WITH
       Procs <- CfgProcs, Verbs <- {"load", "apply", "module"}, Apis <- {"old", "cur", "other"},
       RemovedKeys <- {"stealth", "gpu_mode", "gapps", "shm", "base_image"},
       Fields <- {"denylist"}, Serial <- FALSE,
       MaxEdits <- MaxCfgEdits, MaxKills <- MaxCfgKills, pc <- cfgPc

ASSUME CommandsAssumption == C!ConfigAssumption

Scenes == {"batch", "upgrade", "race"}

\* What happens in a scene: the upgrades are one command after another, none killed.
Scene ==
  scene = "upgrade" =>
    /\ kills' = 0
    /\ \A p \in CfgProcs : cfgPc[p] = "idle" /\ cfgPc'[p] # "idle" => C!Quiet

SceneInit == scene \in Scenes /\ C!Init /\ Init

SceneNext ==
  /\ UNCHANGED scene
  /\ \/ scene = "batch" /\ Next /\ UNCHANGED cfgVars
     \/ scene # "batch" /\ C!Next /\ Scene /\ UNCHANGED vars

SceneSpec == SceneInit /\ [][SceneNext]_<<scene, vars, cfgVars>>

-----------------------------------------------------------------------------
(* The scenes at a size TLC can explore.                                   *)

\* A good module, one Magisk refuses, one whose digest is wrong, another good one.
MCZip == [s \in {"a", "b", "c", "d"} |->
            CASE s = "b" -> "broken" [] s = "c" -> "badSha" [] OTHER -> "good"]
MCBatch == [p \in {1} |-> <<"a", "b", "c", "d">>]

Leader == CHOOSE p \in CfgProcs : TRUE
Alone  == \A p \in CfgProcs \ {Leader} : cfgPc'[p] = "idle"

\* One removed key is enough to refuse a document, and one host port and one field
\* to tell it from the defaults.
Bounds ==
  \/ scene = "batch"
  \/ /\ scene = "upgrade" /\ Alone /\ (edits' # edits => ~file'.vm)
     /\ file'.key \in {"none", "shm"} /\ file'.set = {}
  \/ /\ scene = "race" /\ file'.api # "other" /\ (edits' # edits => ~file'.vm)
     /\ file'.key = "none" /\ \A s \in DOMAIN file'.ports.at : file'.ports.at[s] \in {0, 9000}

MCInit == SceneInit /\ (scene # "batch" => link = "device" /\ su /\ magisk)

MCNext == SceneNext /\ Bounds

MCSpec ==
  /\ MCInit /\ [][MCNext]_<<scene, vars, cfgVars>>
  /\ \A p \in Procs : WF_vars(scene = "batch" /\ Step(p))

\* Every batch ends (BatchesEnd), although the adb server may hang for good.
BatchEnds == scene = "batch" => BatchesEnd

\* Through every upgrade, rewrite and reload, each service stays on the host
\* port the user pinned in beetroot.yaml (ConfigFile's), when no write of it is
\* cut short or raced; and what a command loaded has its type.
PinsKept == C!TypeOK /\ (scene = "upgrade" => C!PinsKept)

\* Two `module` commands at once and a kill anywhere, the cut between the open
\* and the write included (write_yaml): what they leave in beetroot.yaml loads
\* again, and what any command then loads is the user's document or the
\* defaults, never some of each (ConfigFile's).
RewriteSafe == [][C!RewritesLoad /\ C!NeverMixed']_cfgVars
=============================================================================
