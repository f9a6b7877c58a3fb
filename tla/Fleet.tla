-------------------------------- MODULE Fleet -------------------------------
(***************************************************************************)
(* The commands that walk the whole registry: up, down and restart with    *)
(* --all, and ls (src/beetroot/cli.py), over Manager.resolve, Manager.all  *)
(* and Manager.list_orphans (api.py).  Each walk reads the registry and    *)
(* every beetroot.yaml one at a time, several times over, while other      *)
(* commands and the user change them.                                      *)
(***************************************************************************)
EXTENDS Integers, FiniteSets

CONSTANTS
  Names,       \* instance names; their order is the sorted order
  Walks,       \* the walks that may run
  Changes,     \* what others may do meanwhile
  MaxChanges   \* bound on it

\* What a model of the walks must give these constants.
FleetAssumption ==
  /\ Names \subseteq Nat /\ MaxChanges \in Nat
  /\ Walks \subseteq {"up", "down", "restart", "ls"}
  /\ Changes \subseteq {"forget", "create", "adopt", "rmYaml", "breakYaml", "fixYaml"}

VARIABLES
  row,      \* backend kind of each registry row, "none" without a row
  yaml,     \* its beetroot.yaml: "ok", "bad" or "gone"
  running,
  pc, walk,
  todo,     \* names the current pass has still to visit
  kept,     \* what the last pass kept
  acted,    \* instances the fan-out acted on
  orphans,  \* what list_orphans found
  redroids, \* the names ls resolved to a redroid Instance
  shown,    \* rows ls printed
  end,      \* how the walk ended
  steady,   \* history: names nobody touched since the walk began
  changes

vars == <<row, yaml, running, pc, walk, todo, kept, acted, orphans, redroids, shown, end,
          steady, changes>>
world == <<row, yaml, running, steady, changes>>

\* "plugin" is a row of a kind no installed package provides.
Kinds  == {"redroid", "vm", "adb", "plugin", "none"}
Backed == {"redroid", "vm"}

Init ==
  /\ row \in [Names -> Kinds] /\ yaml \in [Names -> {"ok", "bad", "gone"}]
  /\ \A n \in Names : row[n] \notin Backed => yaml[n] = "gone"
  /\ running = {} /\ pc = "idle" /\ walk = "none" /\ todo = {} /\ kept = {} /\ acted = {}
  /\ orphans = {} /\ redroids = {} /\ shown = {} /\ end = "none" /\ steady = Names /\ changes = 0

First(S) == CHOOSE n \in S : \A m \in S : n <= m

-----------------------------------------------------------------------------
(* Manager.                                                                *)

\* Mutant: a row whose directory is gone resolves all the same.
BugResolve(n) ==
  CASE row[n] \in {"none", "plugin"}          -> "notFound"
    [] row[n] \in Backed /\ yaml[n] = "bad"   -> "invalid"
    [] OTHER                                  -> row[n]

\* Manager.resolve and the from_meta of each backend: the kind, or the error.
Resolve(n) ==
  CASE row[n] \in {"none", "plugin"}          -> "notFound"
    [] row[n] \in Backed /\ yaml[n] = "gone"  -> "notFound"
    [] row[n] \in Backed /\ yaml[n] = "bad"   -> "invalid"
    [] OTHER                                  -> row[n]

\* Mutant: a beetroot.yaml that does not parse is not an orphan's.
BugIsOrphan(n) == row[n] = "redroid" /\ yaml[n] = "gone"

\* list_orphans looks at redroid rows only.
IsOrphan(n) == row[n] = "redroid" /\ yaml[n] # "ok"

Registered == {n \in Names : row[n] # "none"}

-----------------------------------------------------------------------------
(* The fan-out of up, down and restart.                                    *)

Begin ==
  /\ pc = "idle" /\ end = "none"
  /\ walk' \in Walks /\ pc' = (IF walk' = "ls" THEN "lsMetas" ELSE "list")
  /\ steady' = Names
  /\ UNCHANGED <<row, yaml, running, todo, kept, acted, orphans, redroids, shown, end, changes>>

End(how) == pc' = "idle" /\ end' = how

\* registry.list_instances, in _resolve_names.
List ==
  /\ pc = "list" /\ todo' = Registered /\ kept' = {}
  /\ IF todo' = {} THEN End("ok") ELSE pc' = "filter" /\ UNCHANGED end
  /\ UNCHANGED <<world, walk, acted, orphans, redroids, shown>>

\* Mutant: the first name that cannot be acted on ends the filter.
BugFilter ==
  /\ pc = "filter" /\ todo # {}
  /\ LET n == First(todo)
     IN \/ Resolve(n) = "invalid" /\ End("invalid") /\ UNCHANGED <<todo, kept>>
        \/ /\ Resolve(n) # "invalid" /\ UNCHANGED <<pc, end>>
           /\ todo' = (IF Resolve(n) \in Backed THEN todo \ {n} ELSE {})
           /\ kept' = kept \cup ({n} \cap {m \in Names : Resolve(m) \in Backed})
  /\ UNCHANGED <<world, walk, acted, orphans, redroids, shown>>

\* _resolve_lifecycle_names: a name that does not resolve, and one whose backend
\* has no lifecycle, is skipped; a beetroot.yaml that does not parse is raised.
Filter ==
  /\ pc = "filter" /\ todo # {}
  /\ LET n == First(todo)
     IN \/ Resolve(n) = "invalid" /\ End("invalid") /\ UNCHANGED <<todo, kept>>
        \/ /\ Resolve(n) # "invalid" /\ UNCHANGED <<pc, end>>
           /\ todo' = todo \ {n}
           /\ kept' = kept \cup ({n} \cap {m \in Names : Resolve(m) \in Backed})
  /\ UNCHANGED <<world, walk, acted, orphans, redroids, shown>>

Filtered ==
  /\ pc = "filter" /\ todo = {}
  /\ todo' = kept /\ pc' = "act"
  /\ UNCHANGED <<world, walk, kept, acted, orphans, redroids, shown, end>>

\* The body of the loop: _ensure_exists, resolve and _require again, then the
\* verb, which may fail; any error ends the whole walk.
Act ==
  /\ pc = "act" /\ todo # {}
  /\ LET n == First(todo)
     IN \/ /\ Resolve(n) \in Backed /\ todo' = todo \ {n} /\ acted' = acted \cup {n}
           /\ running' = (IF walk = "down" THEN running \ {n} ELSE running \cup {n})
           /\ UNCHANGED <<pc, end>>
        \/ /\ Resolve(n) \in Backed /\ End("failed") /\ UNCHANGED <<todo, acted, running>>
        \/ /\ Resolve(n) \notin Backed /\ UNCHANGED <<todo, acted, running>>
           /\ End(IF Resolve(n) = "adb" THEN "capability" ELSE Resolve(n))
  /\ UNCHANGED <<row, yaml, steady, changes, walk, kept, orphans, redroids, shown>>

Acted ==
  /\ pc = "act" /\ todo = {} /\ End("ok")
  /\ UNCHANGED <<world, walk, todo, kept, acted, orphans, redroids, shown>>

-----------------------------------------------------------------------------
(* ls.                                                                     *)

\* _ls_rows reads the registry once for itself ...
LsMetas ==
  /\ pc = "lsMetas" /\ pc' = "lsAll" /\ kept' = Registered
  /\ UNCHANGED <<world, walk, todo, acted, orphans, redroids, shown, end>>

\* ... and once more in Manager.all.
LsAll ==
  /\ pc = "lsAll" /\ pc' = "lsResolve" /\ todo' = Registered /\ kept' = kept \cap Registered
  /\ UNCHANGED <<world, walk, acted, orphans, redroids, shown, end>>

\* Manager.all skips every name that fails; a row that is not in both reads is
\* skipped too.  kept is cut down to the rows that will be printed.
LsResolve ==
  /\ pc = "lsResolve"
  /\ \/ /\ todo # {}
        /\ LET n == First(todo)
           IN /\ todo' = todo \ {n}
              /\ kept' = (IF Resolve(n) \in {"notFound", "invalid"} THEN kept \ {n} ELSE kept)
              /\ redroids' = (IF Resolve(n) = "redroid" THEN redroids \cup {n} ELSE redroids)
        /\ UNCHANGED pc
     \/ todo = {} /\ pc' = "lsOrphans" /\ todo' = Registered /\ UNCHANGED <<kept, redroids>>
  /\ UNCHANGED <<world, walk, acted, orphans, shown, end>>

LsOrphans ==
  /\ pc = "lsOrphans"
  /\ \/ /\ todo # {} /\ UNCHANGED pc
        /\ LET n == First(todo)
           IN /\ todo' = todo \ {n}
              /\ orphans' = (IF IsOrphan(n) THEN orphans \cup {n} ELSE orphans)
     \/ todo = {} /\ pc' = "lsRender" /\ todo' = kept /\ UNCHANGED orphans
  /\ UNCHANGED <<world, walk, kept, acted, redroids, shown, end>>

\* One table row; a redroid row asks the registry for its index again and raises
\* when the row is gone.
LsRender ==
  /\ pc = "lsRender"
  /\ \/ /\ todo # {}
        /\ LET n == First(todo)
           IN IF n \in redroids /\ row[n] = "none"
              THEN End("notFound") /\ UNCHANGED <<todo, shown>>
              ELSE todo' = todo \ {n} /\ shown' = shown \cup {n} /\ UNCHANGED <<pc, end>>
     \/ todo = {} /\ End("ok") /\ UNCHANGED <<todo, shown>>
  /\ UNCHANGED <<world, walk, kept, acted, orphans, redroids>>

-----------------------------------------------------------------------------
(* Other commands and the user.                                            *)

Change(n, c) ==
  \/ c = "forget" /\ row[n] # "none" /\ row' = [row EXCEPT ![n] = "none"] /\ UNCHANGED yaml
  \/ /\ c = "create" /\ row[n] = "none" /\ yaml' = [yaml EXCEPT ![n] = "ok"]
     /\ \E k \in Backed : row' = [row EXCEPT ![n] = k]
  \/ c = "adopt" /\ row[n] = "none" /\ row' = [row EXCEPT ![n] = "adb"] /\ UNCHANGED yaml
  \/ /\ row[n] \in Backed /\ UNCHANGED row
     /\ \/ c = "rmYaml" /\ yaml[n] # "gone" /\ yaml' = [yaml EXCEPT ![n] = "gone"]
        \/ c = "breakYaml" /\ yaml[n] = "ok" /\ yaml' = [yaml EXCEPT ![n] = "bad"]
        \/ c = "fixYaml" /\ yaml[n] = "bad" /\ yaml' = [yaml EXCEPT ![n] = "ok"]

Others ==
  /\ changes < MaxChanges /\ changes' = changes + 1
  /\ \E n \in Names, c \in Changes : Change(n, c) /\ steady' = steady \ {n}
  /\ UNCHANGED <<running, pc, walk, todo, kept, acted, orphans, redroids, shown, end>>

Step ==
  \/ List \/ Filter \/ Filtered \/ Act \/ Acted
  \/ LsMetas \/ LsAll \/ LsResolve \/ LsOrphans \/ LsRender

Next == Begin \/ Step \/ Others

Spec == Init /\ [][Next]_vars

-----------------------------------------------------------------------------
(* Properties.                                                             *)

TypeOK ==
  /\ row \in [Names -> Kinds] /\ yaml \in [Names -> {"ok", "bad", "gone"}]
  /\ running \subseteq Names /\ todo \subseteq Names /\ kept \subseteq Names
  /\ acted \subseteq Names /\ orphans \subseteq Names /\ redroids \subseteq Names /\ shown \subseteq Names
  /\ steady \subseteq Names /\ changes \in 0..MaxChanges
  /\ walk \in Walks \cup {"none"}
  /\ pc \in {"idle", "list", "filter", "act", "lsMetas", "lsAll", "lsResolve", "lsOrphans",
             "lsRender"}
  /\ end \in {"none", "ok", "failed", "notFound", "invalid", "capability"}

Healthy(n) == row[n] \in Backed /\ yaml[n] = "ok"

\* A fan-out that reports success reached every healthy instance that nobody
\* touched meanwhile, whatever else --all met on its way.
FanoutReachesAll ==
  walk # "ls" /\ end = "ok" => \A n \in steady : Healthy(n) => n \in acted

\* It acted on nothing that could not be resolved.
FanoutActsOnReal == \A n \in acted \cap steady : Healthy(n)

\* ls shows every redroid and adb row that nobody touched meanwhile, in its table
\* or as an orphan.
LsAccountsForAll ==
  walk = "ls" /\ end = "ok" =>
    \A n \in steady : row[n] \in {"redroid", "adb"} => n \in shown \cup orphans

\* The walks of the registry are exact, whatever is removed, broken or added
\* meanwhile.
WalksExact == TypeOK /\ FanoutReachesAll /\ FanoutActsOnReal /\ LsAccountsForAll

\* --all skips a row that is gone instead of ending the whole walk on it.
AllSkipsMissing == ~(walk # "ls" /\ end = "notFound")

\* A row that another command removes meanwhile does not crash ls.
LsSurvives == ~(walk = "ls" /\ end = "notFound")

\* ls shows every directory-backed row, in its table or as an orphan.
LsShowsBacked ==
  walk = "ls" /\ end = "ok" => \A n \in steady : row[n] \in Backed => n \in shown \cup orphans
=============================================================================
