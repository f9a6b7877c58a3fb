----------------------------- MODULE ConfigFile -----------------------------
(***************************************************************************)
(* beetroot.yaml (src/beetroot/config.py): the commands that load it, the  *)
(* upgrade of an older document on the way in, and the one that writes it  *)
(* back (`module`, through Instance.add_module).                           *)
(*                                                                         *)
(* A document keeps its api_version ("old" stands for 1 to 7), at most one *)
(* key that a release removed or renamed, its ports in one of their forms, *)
(* and what decides between errors.  A port is its service; the guest port *)
(* is that of the service.  Everything the user set beyond that is a name  *)
(* in `set`.                                                               *)
(***************************************************************************)
EXTENDS Integers, FiniteSets

CONSTANTS
  Procs, Verbs,
  Apis,        \* api_version of the documents a user writes: "old", "cur", "other"
  RemovedKeys, \* keys of earlier schemas a document may carry
  Hosts,       \* host ports a user pins, not 0
  Fields,      \* further fields a user may set
  Serial,      \* one command at a time
  MaxEdits, MaxKills

WellKnown == {"adb", "frida", "frida_control"}
Unset     == 0
Auto      == [s \in WellKnown |-> Unset]

\* What a model of the commands must give these constants.
ConfigAssumption ==
  /\ Verbs \subseteq {"load", "apply", "module"} /\ Apis \subseteq {"old", "cur", "other"}
  /\ RemovedKeys \subseteq {"stealth", "gpu_mode", "gapps", "shm", "base_image"}
  /\ Fields \subseteq {"gapps", "denylist", "display", "resources"}
  /\ Hosts \subseteq Nat \ {0} /\ Serial \in BOOLEAN /\ MaxEdits \in Nat /\ MaxKills \in Nat

VARIABLES
  file,        \* the document on disk
  pc, verb, cfg,
  raised,      \* why the last load failed
  noted,       \* the notes a command has printed: "upgraded", "migrated"
  asked,       \* history: the last document the user wrote
  done,        \* history: the last command to end well, and nothing happened since
  edits, kills

vars == <<file, pc, verb, cfg, raised, noted, asked, done, edits, kills>>

Pins(S)  == [S -> Hosts \cup {Unset}]
Listings == {[form |-> "absent", at |-> Auto]}
            \cup {[form |-> f, at |-> a] : f \in {"map", "list"},
                  a \in UNION {Pins(S) : S \in SUBSET (WellKnown \cup {"web"})}}
Docs == [api : Apis, key : RemovedKeys \cup {"none"}, ports : Listings, frida : BOOLEAN,
         vm : BOOLEAN, set : SUBSET Fields, mods : {0}]

\* An empty file is a document of defaults.
Blank == [api |-> "cur", key |-> "none", ports |-> [form |-> "absent", at |-> Auto],
          frida |-> FALSE, vm |-> FALSE, set |-> {}, mods |-> 0]
NoCfg == [ports |-> Auto, frida |-> FALSE, vm |-> FALSE, set |-> {}, mods |-> 0, held |-> FALSE]

-----------------------------------------------------------------------------
(* load_yaml.                                                              *)

\* Mutant: the seeded list forgets the hosts of the mapping.
BugMigrate(l) == IF l.form = "map" THEN Auto ELSE l.at

\* _migrate_legacy_ports_mapping: the three services, with the hosts that were set.
Migrate(l) ==
  IF l.form = "map"
  THEN [s \in WellKnown |-> IF s \in DOMAIN l.at THEN l.at[s] ELSE Unset]
  ELSE l.at

UnknownService(l) == l.form = "map" /\ ~(DOMAIN l.at \subseteq WellKnown)

\* _check_ports_distinct
HostsDistinct(a) == \A s, t \in DOMAIN a : s # t /\ a[s] # Unset => a[s] # a[t]

\* _check_required_addressing_services
Addressed(a, frida) == "adb" \in DOMAIN a /\ (frida => {"frida", "frida_control"} \subseteq DOMAIN a)

\* model_validate: the validators before the fields, then those after.  The
\* api_version has been raised already where it can be.
Problem(d) ==
  CASE d.key # "none"                                -> d.key
    [] d.key = "none" /\ UnknownService(d.ports)     -> "ports"
    [] d.key = "none" /\ ~UnknownService(d.ports)    ->
         IF HostsDistinct(Migrate(d.ports)) /\ Addressed(Migrate(d.ports), d.frida) /\ d.api # "other"
         THEN "none" ELSE "invalid"

Config(d) == [ports |-> Migrate(d.ports), frida |-> d.frida, vm |-> d.vm, set |-> d.set,
              mods |-> d.mods, held |-> TRUE]

\* renamed_key_present: the note would be followed by the migration error.
RenamedKeyPresent(d) == d.key \in {"stealth", "gpu_mode", "gapps"} \/ UnknownService(d.ports)

\* What a load prints before the validation.
Notes(d) ==
  (IF d.api = "old" /\ ~RenamedKeyPresent(d) THEN {"upgraded"} ELSE {}) \cup
  (IF d.ports.form = "map" /\ DOMAIN d.ports.at # {} /\ ~UnknownService(d.ports)
   THEN {"migrated"} ELSE {})

\* load_yaml, as a step of p; a note is printed once for a path.
LoadYaml(p) ==
  /\ cfg' = [cfg EXCEPT ![p] = IF Problem(file) = "none" THEN Config(file) ELSE NoCfg]
  /\ raised' = [raised EXCEPT ![p] = Problem(file)]
  /\ noted' = [noted EXCEPT ![p] = @ \cup Notes(file)]

-----------------------------------------------------------------------------
(* The commands.                                                           *)

Go(p, l) == pc' = [pc EXCEPT ![p] = l]
Quiet    == \A p \in Procs : pc[p] = "idle"

Begin(p) ==
  /\ pc[p] = "idle" /\ (Serial => Quiet)
  /\ \E v \in Verbs : verb' = [verb EXCEPT ![p] = v]
  /\ Go(p, "load") /\ cfg' = [cfg EXCEPT ![p] = NoCfg] /\ raised' = [raised EXCEPT ![p] = "none"]
  /\ noted' = [noted EXCEPT ![p] = {}] /\ done' = "none"
  /\ UNCHANGED <<file, asked, edits, kills>>

\* from_meta
Resolve(p) ==
  /\ pc[p] = "load" /\ LoadYaml(p)
  /\ LET next == CASE verb[p] = "load" -> "idle" [] verb[p] = "apply" -> "apply"
                   [] verb[p] = "module" -> "stage"
     IN Go(p, IF Problem(file) = "none" THEN next ELSE "idle")
  /\ UNCHANGED <<file, verb, asked, done, edits, kills>>

\* apply reads the file again, and stages what it read.
Apply(p) ==
  /\ pc[p] = "apply" /\ LoadYaml(p) /\ Go(p, "idle")
  /\ done' = IF Problem(file) = "none" THEN "apply" ELSE "none"
  /\ UNCHANGED <<file, verb, asked, edits, kills>>

\* add_module: the staging may fail; only then is the list longer.
StageModule(p) ==
  /\ pc[p] = "stage"
  /\ \/ Go(p, "open") /\ cfg' = [cfg EXCEPT ![p].mods = 1]
     \/ Go(p, "idle") /\ UNCHANGED cfg
  /\ UNCHANGED <<file, verb, raised, noted, asked, done, edits, kills>>

\* Mutant: the ports go back into the mapping form of the earlier releases.
BugDump(c) ==
  [api |-> "cur", key |-> "none", frida |-> c.frida, vm |-> c.vm, set |-> c.set, mods |-> c.mods,
   ports |-> [form |-> "map", at |-> c.ports]]

\* Mutant: only the well-known services are written.
BugDumpWellKnown(c) ==
  [api |-> "cur", key |-> "none", frida |-> c.frida, vm |-> c.vm, set |-> c.set, mods |-> c.mods,
   ports |-> [form |-> "list", at |-> [s \in WellKnown \cap DOMAIN c.ports |-> c.ports[s]]]]

\* model_dump: every field, in the forms of this release.
Dump(c) ==
  [api |-> "cur", key |-> "none", frida |-> c.frida, vm |-> c.vm, set |-> c.set, mods |-> c.mods,
   ports |-> [form |-> "list", at |-> c.ports]]

\* write_yaml opens the file, which empties it ...
OpenYaml(p) ==
  /\ pc[p] = "open" /\ file' = Blank /\ Go(p, "write")
  /\ UNCHANGED <<verb, cfg, raised, noted, asked, done, edits, kills>>

\* ... and writes the document.
WriteYaml(p) ==
  /\ pc[p] = "write" /\ file' = Dump(cfg[p]) /\ Go(p, "idle") /\ done' = "module"
  /\ UNCHANGED <<verb, cfg, raised, noted, asked, edits, kills>>

\* inert_fields: what binder: vm ignores, as the advisory lists it.
Inert(c) ==
  IF ~c.vm THEN {}
  ELSE (c.set \cap {"gapps", "denylist", "display"})
       \cup (IF c.frida THEN {"frida"} ELSE {}) \cup (IF c.mods > 0 THEN {"modules"} ELSE {})
       \cup (IF DOMAIN c.ports \subseteq WellKnown THEN {} ELSE {"ports"})

-----------------------------------------------------------------------------
(* The user, who writes the file while no command runs, and a kill.        *)

Edit ==
  /\ edits < MaxEdits /\ edits' = edits + 1 /\ Quiet
  /\ file' \in Docs /\ asked' = file'
  /\ cfg' = [p \in Procs |-> NoCfg] /\ done' = "none"
  /\ UNCHANGED <<pc, verb, raised, noted, kills>>

Kill(p) ==
  /\ pc[p] # "idle" /\ kills < MaxKills /\ kills' = kills + 1
  /\ Go(p, "idle") /\ cfg' = [cfg EXCEPT ![p] = NoCfg]
  /\ UNCHANGED <<file, verb, raised, noted, asked, done, edits>>

Init ==
  /\ file = Blank /\ asked = Blank
  /\ pc = [p \in Procs |-> "idle"] /\ verb = [p \in Procs |-> "none"]
  /\ cfg = [p \in Procs |-> NoCfg] /\ raised = [p \in Procs |-> "none"]
  /\ noted = [p \in Procs |-> {}] /\ done = "none" /\ edits = 0 /\ kills = 0

Step(p) == Resolve(p) \/ Apply(p) \/ StageModule(p) \/ OpenYaml(p) \/ WriteYaml(p)

Next ==
  \/ \E p \in Procs : Begin(p) \/ Step(p) \/ Kill(p)
  \/ Edit

Spec == Init /\ [][Next]_vars

-----------------------------------------------------------------------------
(* Properties.                                                             *)

\* The host a document asks for, service by service; a service it does not
\* name, or names without a host, is allocated.
Asks(l, s) == IF s \in DOMAIN l.at THEN l.at[s] ELSE Unset

\* What a command holds can be addressed over adb.
TypeOK ==
  \A p \in Procs : cfg[p].held => /\ "adb" \in DOMAIN cfg[p].ports
                                  /\ \A s \in DOMAIN cfg[p].ports : cfg[p].ports[s] \in Hosts \cup {Unset}

\* The ports a name the hosts of the last document the user wrote.
PinsAsAsked(a) ==
  \A s \in DOMAIN a \cup DOMAIN asked.ports.at :
    (IF s \in DOMAIN a THEN a[s] ELSE Unset) = Asks(asked.ports, s)

\* Through every upgrade, rewrite and reload, each service stays on the host
\* port the user pinned in beetroot.yaml.
PinsKept == \A p \in Procs : cfg[p].held => PinsAsAsked(cfg[p].ports)

\* A document that a command has written, or has begun to write, loads again.
RewritesLoad == file' # file /\ edits' = edits => Problem(file') = "none"

\* What the user wrote, but for the list of modules; and what an empty file gives.
AsWritten(c) ==
  c.frida = asked.frida /\ c.vm = asked.vm /\ c.set = asked.set /\ PinsAsAsked(c.ports)
AllDefaults(c) == ~c.frida /\ ~c.vm /\ c.set = {} /\ c.ports = Auto

\* Whichever rewrite is raced or cut short, what a command loads is the user's
\* document or the defaults, and never some of each.
NeverMixed == \A p \in Procs : cfg[p].held => AsWritten(cfg[p]) \/ AllDefaults(cfg[p])

\* "auto-upgraded, run apply" is not printed before a migration error.  Refuted:
\* the note does not know resources.shm and android.base_image.
NoteNotContradicted ==
  \A p \in Procs : raised[p] \in RemovedKeys \cup {"ports"} => "upgraded" \notin noted[p]

\* The file is at the current api_version once an apply has returned.
ApplyPersists == done = "apply" => file.api = "cur"

\* Under binder: vm the advisory is empty only if every field set is honoured:
\* QEMU forwards adb alone, and reads no Docker resource limit.
InertListsAll ==
  \A p \in Procs : cfg[p].held /\ cfg[p].vm /\ Inert(cfg[p]) = {} =>
    /\ cfg[p].set = {}
    /\ \A s \in DOMAIN cfg[p].ports \ {"adb"} : cfg[p].ports[s] = Unset
=============================================================================
