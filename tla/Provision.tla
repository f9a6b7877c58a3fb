----------------------------- MODULE Provision ------------------------------
(***************************************************************************)
(* How instances come to be, are re-staged and go away: Instance.create,   *)
(* register, apply and the self-heal of up (src/beetroot/api.py), restore  *)
(* (src/beetroot/snapshot.py), destroy and forget (src/beetroot/cli.py),   *)
(* run by concurrent processes over the registry and the instance          *)
(* directories.                                                            *)
(*                                                                         *)
(* Each registry call is one step: module Registry shows that it behaves   *)
(* as one.  A config is the set of host ports its ports: list pins; an     *)
(* instance with index i also gets the stride default, written i here, so  *)
(* that a pin can hit a stride default (module Ports has the arithmetic).  *)
(* A beetroot.yaml that may be missing is {} or {cfg}, a staged override   *)
(* {} or {ports}.  Containers, and the instance lock that keeps destroy    *)
(* apart from snapshot, are outside this module.                           *)
(***************************************************************************)
EXTENDS Integers

CONSTANTS
  Names, Dirs, Procs,
  NoDir,       \* not a directory
  Within,      \* <<d, e>> when d is e or lies inside e
  MaxIndex,    \* ports._MAX_PORT_INDEX
  Pins,        \* host ports a config may pin
  Calls,       \* the calls the processes may make
  Edits,       \* the configs a user may write into a beetroot.yaml
  MaxCalls,    \* bound: calls in a behaviour
  MaxEdits,    \* bound: files the user changes by hand
  MaxKills     \* bound: processes killed in a behaviour

Constructors == {"create", "register", "restore"}
Verbs == Constructors \cup {"apply", "up", "destroy", "forget"}
Call  == [verb : Verbs, name : Names, dir : Dirs, cfg : SUBSET Pins, force : BOOLEAN]

Ports == Pins \cup (0..MaxIndex)
Row   == [there : BOOLEAN, dir : Dirs \cup {NoDir}, index : 0..MaxIndex]
NoRow == [there |-> FALSE, dir |-> NoDir, index |-> 0]

ASSUME ProvisionAssumption ==
  /\ NoDir \notin Dirs
  /\ Within \subseteq Dirs \X Dirs /\ \A d \in Dirs : <<d, d>> \in Within
  /\ MaxIndex \in Nat /\ Pins \subseteq Nat
  /\ Calls \subseteq Call /\ Edits \subseteq SUBSET Pins
  /\ MaxCalls \in Nat /\ MaxEdits \in Nat /\ MaxKills \in Nat

VARIABLES
  reg,      \* the registry
  there,    \* the directories that exist
  yaml,     \* beetroot.yaml of each directory
  staged,   \* compose.override.yaml of each directory: the published ports
  pc, call, \* where each process is, in which call
  root,     \* the directory it works on
  cfg,      \* the config it holds in memory
  index,    \* the index it holds in memory
  made,     \* created_dir
  out,      \* how its last call ended
  fresh,    \* history: the yaml and the row are still those it checked
  applied,  \* history: instances staged from the yaml and the row they have
  calls, edits, kills

disk  == <<reg, there, yaml, staged>>
local == <<root, cfg, index, made>>
ghost == <<fresh, applied>>
count == <<calls, edits, kills>>
vars  == <<reg, there, yaml, staged, pc, call, root, cfg, index, made, out,
           fresh, applied, calls, edits, kills>>

NoCall == [verb |-> "none"]

Init ==
  /\ reg = [n \in Names |-> NoRow]
  /\ there = {}
  /\ yaml = [d \in Dirs |-> {}]
  /\ staged = [d \in Dirs |-> {}]
  /\ pc = [p \in Procs |-> "idle"]
  /\ call = [p \in Procs |-> NoCall]
  /\ root = [p \in Procs |-> NoDir]
  /\ cfg = [p \in Procs |-> {}]
  /\ index = [p \in Procs |-> 0]
  /\ made = [p \in Procs |-> FALSE]
  /\ out = [p \in Procs |-> "none"]
  /\ fresh = {} /\ applied = {}
  /\ calls = 0 /\ edits = 0 /\ kills = 0

-----------------------------------------------------------------------------
(* Ports and directories.                                                  *)

\* resolve_ports raises on a pin that equals the instance's own default.
Resolves(i, c) == i \notin c
Resolved(i, c) == {i} \cup c

\* _resolved_host_ports_from: a row whose yaml is missing is skipped; one that
\* does not resolve still claims its pins and its defaults.
Claims(n) ==
  IF reg[n].there /\ yaml[reg[n].dir] # {}
  THEN Resolved(reg[n].index, UNION yaml[reg[n].dir])
  ELSE {}

\* Mutant: only siblings that have been staged count.
BugCollides(n, ps) ==
  \E m \in Names \ {n} : ps \cap Claims(m) # {} /\ staged[reg[m].dir] # {}

\* find_port_collision: some sibling's ports meet ps.
Collides(n, ps) == \E m \in Names \ {n} : ps \cap Claims(m) # {}

\* Mutant: a target inside a registered directory is accepted.
BugOverlaps(d, e) == <<e, d>> \in Within

\* One directory is the other or lies inside it.
Overlaps(d, e) == <<d, e>> \in Within \/ <<e, d>> \in Within

\* rmtree(d) takes every directory inside d with it; mkdir(parents=True).
Below(d) == {e \in Dirs : <<e, d>> \in Within}
Above(d) == {e \in Dirs : <<d, e>> \in Within}

\* The rows ns or the files of ds change: what was checked or staged from them
\* no longer counts.
Disturb(ns, ds) ==
  /\ applied' = {n \in applied : n \notin ns /\ reg[n].dir \notin ds}
  /\ fresh' = {q \in fresh : call[q].name \notin ns /\ root[q] \notin ds}

Rmtree(d) ==
  /\ there' = there \ Below(d)
  /\ yaml' = [e \in Dirs |-> IF e \in Below(d) THEN {} ELSE yaml[e]]
  /\ staged' = [e \in Dirs |-> IF e \in Below(d) THEN {} ELSE staged[e]]
  /\ Disturb({}, Below(d))

-----------------------------------------------------------------------------
(* Control.                                                                *)

Set(f, x, v) == f' = [f EXCEPT ![x] = v]
At(p, steps, verbs) == pc[p] \in steps /\ call[p].verb \in verbs

Go(p, step)    == Set(pc, p, step) /\ UNCHANGED out
Return(p, how) == Set(pc, p, "idle") /\ Set(out, p, how)

\* An exception: the constructors roll back once they are inside their try
\* block, everything else just raises.
Guarded(p) ==
  \/ call[p].verb = "restore"
  \/ call[p].verb \in {"create", "register"} /\ pc[p] \in {"check", "stage"}
Fail(p) == IF Guarded(p) THEN Go(p, "rollbackRow") ELSE Return(p, "refused")

FirstStep(verb) ==
  CASE verb \in {"create", "restore"}        -> "free"
    [] verb = "register"                     -> "yamlCheck"
    [] OTHER                                 -> "resolve"

Start(p) ==
  /\ pc[p] = "idle" /\ calls < MaxCalls
  /\ \E c \in Calls :
       /\ Set(call, p, c)
       /\ Set(root, p, c.dir)
       /\ Go(p, FirstStep(c.verb))
  /\ Set(cfg, p, {}) /\ Set(index, p, 0) /\ Set(made, p, FALSE)
  /\ fresh' = fresh \ {p}
  /\ calls' = calls + 1
  /\ UNCHANGED <<disk, applied, edits, kills>>

-----------------------------------------------------------------------------
(* Looking before acting.                                                  *)

\* A constructor wants its name free.
Free(p) ==
  /\ At(p, {"free"}, Constructors)
  /\ IF reg[call[p].name].there THEN Return(p, "refused")
     ELSE Go(p, IF call[p].verb = "create" THEN "yamlCheck" ELSE "overlap")
  /\ UNCHANGED <<disk, call, local, ghost, count>>

\* create refuses a directory that has a beetroot.yaml, register one without.
YamlCheck(p) ==
  /\ At(p, {"yamlCheck"}, {"create", "register"})
  /\ IF (call[p].verb = "create") = (yaml[root[p]] # {})
     THEN Return(p, "refused")
     ELSE Go(p, IF call[p].verb = "create" THEN "overlap" ELSE "free")
  /\ UNCHANGED <<disk, call, local, ghost, count>>

\* _check_directory_overlap, and its twin in _prepare_destination, which also
\* refuses a target that holds anything unless it may wipe it.
Overlap(p) ==
  /\ At(p, {"overlap"}, Constructors)
  /\ LET d == root[p]
         occupied == /\ call[p].verb = "restore"
                     /\ \/ yaml[d] # {} \/ staged[d] # {}
                        \/ \E e \in there \ {d} : e \in Below(d)
     IN  IF \/ \E n \in Names : reg[n].there /\ Overlaps(d, reg[n].dir)
            \/ occupied /\ ~call[p].force
         THEN Return(p, "refused")
         ELSE Go(p, CASE call[p].verb = "register" -> "load"
                      [] occupied                  -> "wipe"
                      [] OTHER                     -> "mkdir")
  /\ UNCHANGED <<disk, call, local, ghost, count>>

\* restore --force.
Wipe(p) ==
  /\ At(p, {"wipe"}, {"restore"})
  /\ Rmtree(root[p])
  /\ Go(p, "mkdir")
  /\ UNCHANGED <<reg, call, local, count>>

Mkdir(p) ==
  /\ At(p, {"mkdir"}, {"create", "restore"})
  /\ Set(made, p, root[p] \notin there)
  /\ there' = there \cup Above(root[p])
  /\ Go(p, IF call[p].verb = "create" THEN "writeYaml" ELSE "add")
  /\ UNCHANGED <<reg, yaml, staged, call, root, cfg, index, ghost, count>>

\* create writes the config; a directory that has gone makes it raise.
WriteYaml(p) ==
  /\ At(p, {"writeYaml"}, {"create"})
  /\ \/ /\ root[p] \in there
        /\ Set(yaml, root[p], {call[p].cfg})
        /\ Set(cfg, p, call[p].cfg)
        /\ Disturb({}, {root[p]})
        /\ Go(p, "add")
     \/ /\ root[p] \notin there
        /\ Return(p, "refused")
        /\ UNCHANGED <<yaml, cfg, ghost>>
  /\ UNCHANGED <<reg, there, staged, call, root, index, made, count>>

\* Manager.resolve, and the Instance.load that ends a restore: the row says where
\* the instance lives.
Resolve(p) ==
  /\ At(p, {"resolve"}, {"apply", "up", "destroy", "forget", "restore"})
  /\ LET row == reg[call[p].name]
     IN  IF row.there
         THEN /\ Set(root, p, row.dir)
              /\ Go(p, CASE call[p].verb \in {"destroy", "forget"} -> "remove"
                         [] call[p].verb = "restore"               -> "reload"
                         [] OTHER                                  -> "load")
         ELSE Fail(p) /\ UNCHANGED root
  /\ UNCHANGED <<disk, call, cfg, index, made, ghost, count>>

\* load_yaml.  A missing file raises; only destroy goes on without one.
Load(p) ==
  /\ At(p, {"load", "reload"}, {"register", "apply", "up", "restore"})
  /\ IF yaml[root[p]] = {} THEN Fail(p) /\ UNCHANGED cfg
     ELSE /\ Set(cfg, p, UNION yaml[root[p]])
          /\ Go(p, CASE pc[p] = "reload"           -> "stage"
                     [] call[p].verb = "register"  -> "add"
                     [] call[p].verb = "apply"     -> "index"
                     [] call[p].verb = "up"        -> "heal"
                     [] OTHER                      -> "check")
  /\ UNCHANGED <<disk, call, root, index, made, ghost, count>>

\* up re-stages only an instance whose override has gone.
Heal(p) ==
  /\ At(p, {"heal"}, {"up"})
  /\ IF staged[root[p]] = {} THEN Go(p, "index") ELSE Return(p, "ok")
  /\ UNCHANGED <<disk, call, local, ghost, count>>

-----------------------------------------------------------------------------
(* Registering and staging.                                                *)

LowestFree(i) ==
  /\ \A n \in Names : reg[n].there => reg[n].index # i
  /\ \A j \in 0..(i - 1) : \E n \in Names : reg[n].there /\ reg[n].index = j

\* add_allocating gives p's instance the index i.
Register(p, i) ==
  LET n == call[p].name
  IN  /\ ~reg[n].there /\ LowestFree(i)
      /\ Set(reg, n, [there |-> TRUE, dir |-> root[p], index |-> i])
      /\ Set(index, p, i)
      /\ Disturb({n}, {})
      /\ Go(p, IF call[p].verb = "restore" THEN "extract" ELSE "check")
      /\ UNCHANGED <<there, yaml, staged, call, root, cfg, made, count>>

\* A taken name, or no index under the cap, raises: outside the rollback.
Refuse(p) ==
  /\ reg[call[p].name].there \/ \A i \in 0..MaxIndex : ~LowestFree(i)
  /\ Return(p, "refused")
  /\ UNCHANGED <<disk, call, local, ghost, count>>

Add(p) ==
  /\ At(p, {"add"}, Constructors)
  /\ (\E i \in 0..MaxIndex : Register(p, i)) \/ Refuse(p)

\* restore unpacks the archive over the target; it may fail on any member, before
\* or after the beetroot.yaml, or refuse the config it finds.
Extract(p) ==
  /\ At(p, {"extract"}, {"restore"})
  /\ \/ /\ there' = there \cup Above(root[p])
        /\ Set(yaml, root[p], {call[p].cfg})
        /\ Disturb({}, {root[p]})
        /\ Go(p, "load") \/ Fail(p)
     \/ Fail(p) /\ UNCHANGED <<there, yaml, ghost>>
  /\ UNCHANGED <<reg, staged, call, local, count>>

\* The registry row and the yaml that p holds are the ones on disk.
Current(p) ==
  /\ reg[call[p].name] = [there |-> TRUE, dir |-> root[p], index |-> index[p]]
  /\ yaml[root[p]] = {cfg[p]}

\* resolve_ports, then the siblings' claims under the registry lock
\* (assert_no_port_collision; _check_restored_port_collision for restore).
Check(p) ==
  /\ At(p, {"check"}, {"create", "register", "restore", "apply", "up"})
  /\ IF Resolves(index[p], cfg[p]) /\ ~Collides(call[p].name, Resolved(index[p], cfg[p]))
     THEN /\ Go(p, IF call[p].verb = "restore" THEN "resolve" ELSE "stage")
          /\ fresh' = IF Current(p) THEN fresh \cup {p} ELSE fresh \ {p}
     ELSE Fail(p) /\ UNCHANGED fresh
  /\ UNCHANGED <<disk, call, local, applied, count>>

\* Instance.index before the check, _meta in _stage_local after it: the row is
\* read again.
ReadIndex(p) ==
  /\ At(p, {"index", "stage"}, {"create", "register", "restore", "apply", "up"})
  /\ LET row == reg[call[p].name]
     IN  IF row.there /\ Resolves(row.index, cfg[p])
         THEN /\ Set(index, p, row.index)
              /\ Go(p, IF pc[p] = "index" THEN "check" ELSE "write")
         ELSE Fail(p) /\ UNCHANGED index
  /\ UNCHANGED <<disk, call, root, cfg, made, ghost, count>>

\* _stage_local creates the directories it needs and writes the override.
Write(p) ==
  /\ At(p, {"write"}, {"create", "register", "restore", "apply", "up"})
  /\ Set(staged, root[p], {Resolved(index[p], cfg[p])})
  /\ there' = there \cup Above(root[p])
  /\ applied' = {m \in applied : reg[m].dir # root[p]}
                \cup {n \in {call[p].name} : p \in fresh}
  /\ Return(p, "ok")
  /\ UNCHANGED <<reg, yaml, call, local, fresh, count>>

\* Mutant: a failed constructor keeps its row.
BugRollbackRow(p) ==
  /\ At(p, {"rollbackRow"}, Constructors)
  /\ IF made[p] THEN Go(p, "rollbackDir") ELSE Return(p, "refused")
  /\ UNCHANGED <<disk, call, local, ghost, count>>

\* _rollback_partial_create: the row goes, by name, then the directory if this
\* call made it.
RollbackRow(p) ==
  /\ At(p, {"rollbackRow"}, Constructors)
  /\ Set(reg, call[p].name, NoRow)
  /\ Disturb({call[p].name}, {})
  /\ IF made[p] THEN Go(p, "rollbackDir") ELSE Return(p, "refused")
  /\ UNCHANGED <<there, yaml, staged, call, local, count>>

RollbackDir(p) ==
  /\ At(p, {"rollbackDir"}, {"create", "restore"})
  /\ Rmtree(call[p].dir)
  /\ Return(p, "refused")
  /\ UNCHANGED <<reg, call, local, count>>

-----------------------------------------------------------------------------
(* Removing, editing, dying.                                               *)

\* registry.remove; forget stops here.
Remove(p) ==
  /\ At(p, {"remove"}, {"destroy", "forget"})
  /\ Set(reg, call[p].name, NoRow)
  /\ Disturb({call[p].name}, {})
  /\ IF call[p].verb = "forget" THEN Return(p, "ok") ELSE Go(p, "rmtree")
  /\ UNCHANGED <<there, yaml, staged, call, local, count>>

DestroyDir(p) ==
  /\ At(p, {"rmtree"}, {"destroy"})
  /\ Rmtree(root[p])
  /\ Return(p, "ok")
  /\ UNCHANGED <<reg, call, local, count>>

\* The user rewrites a beetroot.yaml, or deletes an override, by hand.
UserEdit(d) ==
  /\ edits < MaxEdits /\ yaml[d] # {}
  /\ \E c \in Edits : Set(yaml, d, {c})
  /\ Disturb({}, {d})
  /\ edits' = edits + 1
  /\ UNCHANGED <<reg, there, staged, pc, call, local, out, calls, kills>>

UserUnstage(d) ==
  /\ edits < MaxEdits /\ staged[d] # {}
  /\ Set(staged, d, {})
  /\ applied' = {n \in applied : reg[n].dir # d}
  /\ edits' = edits + 1
  /\ UNCHANGED <<reg, there, yaml, pc, call, local, out, fresh, calls, kills>>

\* The process dies between two steps and leaves things as they are.
Kill(p) ==
  /\ pc[p] # "idle" /\ kills < MaxKills
  /\ Return(p, "killed")
  /\ kills' = kills + 1
  /\ UNCHANGED <<disk, call, local, ghost, calls, edits>>

Next ==
  \/ \E p \in Procs :
       \/ Start(p) \/ Free(p) \/ YamlCheck(p) \/ Overlap(p) \/ Wipe(p) \/ Mkdir(p)
       \/ WriteYaml(p) \/ Resolve(p) \/ Load(p) \/ Heal(p) \/ Add(p) \/ Extract(p)
       \/ Check(p) \/ ReadIndex(p) \/ Write(p) \/ RollbackRow(p) \/ RollbackDir(p)
       \/ Remove(p) \/ DestroyDir(p) \/ Kill(p)
  \/ \E d \in Dirs : UserEdit(d) \/ UserUnstage(d)

Spec == Init /\ [][Next]_vars

-----------------------------------------------------------------------------
(* Properties.                                                             *)

Steps == {"idle", "free", "yamlCheck", "overlap", "wipe", "mkdir", "writeYaml", "add",
          "extract", "resolve", "load", "reload", "heal", "index", "check", "stage",
          "write", "rollbackRow", "rollbackDir", "remove", "rmtree"}

\* The types.  An allocated index is never past ports._MAX_PORT_INDEX, whatever
\* mix of constructors filled the registry.
TypeOK ==
  /\ reg \in [Names -> Row]
  /\ \A n \in Names : reg[n].there => reg[n].dir \in Dirs
  /\ there \subseteq Dirs
  /\ yaml \in [Dirs -> SUBSET SUBSET Pins]
  /\ staged \in [Dirs -> SUBSET SUBSET Ports]
  /\ pc \in [Procs -> Steps]
  /\ call \in [Procs -> Call \cup {NoCall}]
  /\ \A p \in Procs : pc[p] # "idle" => call[p] \in Call
  /\ root \in [Procs -> Dirs \cup {NoDir}]
  /\ \A p \in Procs : pc[p] # "idle" => root[p] \in Dirs
  /\ cfg \in [Procs -> SUBSET Pins]
  /\ index \in [Procs -> 0..MaxIndex]
  /\ made \in [Procs -> BOOLEAN]
  /\ out \in [Procs -> {"none", "ok", "refused", "killed"}]
  /\ fresh \subseteq Procs /\ applied \subseteq Names
  /\ calls \in Nat /\ edits \in Nat /\ kills \in Nat

\* Two instances staged from the yaml and the row they still have never publish
\* the same host port, however the creates, applies, restores and self-heals that
\* staged them interleaved: each one makes its row and its yaml visible before it
\* looks at its siblings (assert_no_port_collision, #183).
PortsDisjoint ==
  \A m, n \in applied :
    m # n => (UNION staged[reg[m].dir]) \cap (UNION staged[reg[n].dir]) = {}

Quiet == \A p \in Procs : pc[p] = "idle"

\* Once all calls have returned, no instance's directory is, contains or lies
\* inside another's: destroying one never deletes the other (#255).
NoOverlap ==
  Quiet => \A m, n \in Names :
             reg[m].there /\ reg[n].there /\ m # n
               => /\ <<reg[m].dir, reg[n].dir>> \notin Within
                  /\ <<reg[n].dir, reg[m].dir>> \notin Within

\* A registered instance's directory exists, also when a destroy, a rollback or a
\* restore is cut short: the row is the first thing to go and comes after mkdir.
RowHasDir == \A n \in Names : reg[n].there => reg[n].dir \in there

\* A create that made its directory and then failed leaves no debris: the
\* directory has gone again, or is some instance's by now.
NoDebris ==
  Quiet => \A p \in Procs :
             out[p] = "refused" /\ call[p].verb = "create" /\ made[p]
               => \/ call[p].dir \notin there
                  \/ \E n \in Names : reg[n].there /\ reg[n].dir = call[p].dir

\* No two registered instances publish the same host port once all calls have
\* returned.
NoDoublePublish ==
  Quiet => \A m, n \in Names :
             reg[m].there /\ reg[n].there /\ reg[m].dir # reg[n].dir
               => (UNION staged[reg[m].dir]) \cap (UNION staged[reg[n].dir]) = {}

=============================================================================
