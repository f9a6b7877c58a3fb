------------------------------ MODULE Artifacts -----------------------------
(***************************************************************************)
(* Staging the downloaded artifacts of instances: frida-server             *)
(* (src/beetroot/frida_download.py) and the Magisk modules                 *)
(* (modules_download.py), as `apply`, `install_frida` and `add_module`     *)
(* (api.py) run them.  The caches are shared by all instances of the user  *)
(* and no command takes a lock.                                            *)
(*                                                                         *)
(* A file is what it holds: "A" and "B" are two whole contents, "part" a   *)
(* truncated one.  A pin is the content whose sha256 the config demands.   *)
(* A cache key is <<"frida", version, arch>> or <<"url", u>>; a module     *)
(* given by path has the key <<"path", u>> and its "cache entry" is the    *)
(* user's own file, which may lie in an instance's modules/ directory.     *)
(*                                                                         *)
(* A command is carried out by the backend that the registry names when it *)
(* starts: api.Instance ("redroid"), or backends/vm.VmDeviceBackend ("vm"),*)
(* which stages modules but no Frida and has neither install_frida nor     *)
(* add_module.                                                             *)
(***************************************************************************)
EXTENDS Integers, Sequences, FiniteSets

CONSTANTS
  Procs, Insts,
  InstOf,       \* the instance each process works on
  Cfg,          \* frida version, pin and binder of each instance ("none": no frida)
  FirstMods,    \* the modules: list of each beetroot.yaml at first
  Adds,         \* modules a user may add
  Urls, Files,  \* module keys: downloaded, and the user's own
  Inside,       \* of those, the zips in modules/ of an instance: which instance
  BaseName,     \* basename of each module key: its parts, numbers >= 0 and words < 0
  WithLength,   \* urls whose server sends Content-Length
  HostArch, Vers, Verbs,
  Quiet,        \* upstream changes only while no command runs
  MaxFaults     \* bound: failed or cut downloads, kills, upstream changes

Archs == {"x86", "arm64"}
FridaKeys == {<<"frida", v, a>> : v \in Vers, a \in Archs}
ModKeys   == Urls \cup Files
Keys      == FridaKeys \cup ModKeys
Whole     == {"A", "B"}
NoKey     == <<>>
Pins      == Whole \cup {"none"}
Kinds     == {"redroid", "vm"}
Modules   == [key : ModKeys, pin : Pins]

ASSUME ArtifactsAssumption ==
  /\ InstOf \in [Procs -> Insts] /\ HostArch \in Archs
  /\ \A i \in Insts : /\ Cfg[i].ver \in Vers \cup {"auto", "latest", "none"}
                      /\ Cfg[i].pin \in Pins
                      /\ Cfg[i].pin # "none" => Cfg[i].ver \in Vers
  /\ {"auto", "latest", "none"} \cap Vers = {}
  /\ FridaKeys \cap ModKeys = {} /\ Urls \cap Files = {}
  /\ FirstMods \in [Insts -> Seq(Modules)] /\ Adds \subseteq Modules
  /\ BaseName \in [ModKeys -> Seq(Int)]
  /\ DOMAIN Inside \subseteq Files /\ \A k \in DOMAIN Inside : Inside[k] \in Insts
  /\ Verbs \subseteq {"apply", "install", "add"} /\ WithLength \subseteq Urls
  /\ MaxFaults \in Nat /\ Quiet \in BOOLEAN

VARIABLES
  upstream,     \* what each server would send
  tools, latest,\* host frida-tools version ("none": not installed); newest release
  archEnv,      \* BEETROOT_FRIDA_ARCH ("none": not set)
  kind,         \* the backend of the instance's registry row
  cache,        \* the user-global caches, and the user's module files
  frida,        \* the instance's frida-server: [is, key]
  mods,         \* the instance's modules/: destination name -> [is, key]
  entries,      \* modules: in beetroot.yaml
  job,          \* each command
  applied,      \* history: the backend whose apply staged the instance last and returned
  added,        \* history: modules whose add_module returned
  faults

host == <<tools, latest, archEnv>>
vars == <<upstream, host, kind, cache, frida, mods, entries, job, applied, added, faults>>
env  == <<upstream, host, kind>>

Idle == [pc |-> "idle", verb |-> "none", via |-> "redroid", list |-> <<>>, at |-> 0, key |-> NoKey,
         pin |-> "none", tmp |-> "none", dst |-> <<>>, used |-> {}, res |-> "none"]
NoFile == [is |-> "none", key |-> NoKey]
Empty  == [is |-> "empty", key |-> NoKey]

Init ==
  /\ upstream = [k \in FridaKeys \cup Urls |-> "A"]
  /\ tools \in Vers \cup {"none"} /\ latest \in Vers /\ archEnv \in Archs \cup {"none"}
  /\ kind \in [Insts -> Kinds]
  /\ cache \in [Keys -> {"none", "A", "B"}]
  /\ \A k \in Keys : k \in Files <=> cache[k] # "none"
  /\ frida \in [Insts -> {NoFile, Empty}] /\ mods = [i \in Insts |-> <<>>]
  /\ entries = FirstMods
  /\ job = [p \in Procs |-> Idle]
  /\ applied = [i \in Insts |-> "no"] /\ added = [i \in Insts |-> {}] /\ faults = 0

To(p, r) == job' = [job EXCEPT ![p] = r]
At(p, l) == job[p].pc = l
Busy(i)  == {p \in Procs : InstOf[p] = i /\ ~At(p, "idle")}

\* The command raises, and the CLI exits 1.
Fail(p) == To(p, [Idle EXCEPT !.res = "failed"]) /\ UNCHANGED <<applied, added>>

\* It returns.  `staged` tells whether the whole instance was staged.
Done(p, staged) ==
  /\ To(p, [Idle EXCEPT !.res = "ok"])
  /\ applied' = [applied EXCEPT ![InstOf[p]] =
                   IF staged /\ Busy(InstOf[p]) = {p} THEN job[p].via ELSE "no"]

Fault == faults < MaxFaults /\ faults' = faults + 1

-----------------------------------------------------------------------------
(* The verbs.                                                              *)

Start(p, verb, pc, list) ==
  To(p, [Idle EXCEPT !.pc = pc, !.verb = verb, !.via = kind[InstOf[p]], !.list = list])

Begin(p) ==
  /\ At(p, "idle")
  /\ LET i == InstOf[p]
     IN /\ \/ /\ "apply" \in Verbs
              /\ Start(p, "apply", IF kind[i] = "vm" THEN "wipe" ELSE "local", entries[i])
           \/ /\ "install" \in Verbs /\ kind[i] = "redroid" /\ Cfg[i].ver # "none"
              /\ Start(p, "install", "resolve", <<>>)
           \/ /\ "add" \in Verbs /\ kind[i] = "redroid"
              /\ \E m \in Adds : /\ m \notin {entries[i][n] : n \in DOMAIN entries[i]}
                                 /\ Start(p, "add", "wipe", Append(entries[i], m))
        /\ applied' = [applied EXCEPT ![i] = "no"]
  /\ UNCHANGED <<env, cache, frida, mods, entries, added, faults>>

\* Mutant: the placeholder is placed whatever is there.
BugStageLocal(p) ==
  /\ At(p, "local") /\ To(p, [job[p] EXCEPT !.pc = "stub"])
  /\ UNCHANGED <<env, cache, frida, mods, entries, applied, added, faults>>

\* The check at the end of _stage_local: a binary that is there is to be kept while
\* frida is configured.
StageLocal(p) ==
  /\ At(p, "local")
  /\ LET i == InstOf[p]
         hasRealBinary == frida[i].is \notin {"none", "empty"}
     IN To(p, [job[p] EXCEPT !.pc = IF Cfg[i].ver = "none" \/ ~hasRealBinary
                                    THEN "stub" ELSE "reconcile"])
  /\ UNCHANGED <<env, cache, frida, mods, entries, applied, added, faults>>

\* stage_empty truncates what is there by then.
StageEmpty(p) ==
  /\ At(p, "stub")
  /\ frida' = [frida EXCEPT ![InstOf[p]] = Empty]
  /\ To(p, [job[p] EXCEPT !.pc = "reconcile"])
  /\ UNCHANGED <<env, cache, mods, entries, applied, added, faults>>

\* The row is made to name the backend that binder: asks for.
Reconciled(i) == [kind EXCEPT ![i] = IF Cfg[i].binder = "vm" THEN "vm" ELSE "redroid"]

\* api.Instance.apply does so between the local stage and the network.
Reconcile(p) ==
  /\ At(p, "reconcile")
  /\ kind' = Reconciled(InstOf[p])
  /\ To(p, [job[p] EXCEPT !.pc = IF Cfg[InstOf[p]].ver = "none" THEN "wipe" ELSE "resolve"])
  /\ UNCHANGED <<upstream, host, cache, frida, mods, entries, applied, added, faults>>

-----------------------------------------------------------------------------
(* frida_download.                                                         *)

\* Mutant: the environment is not looked at.
BugResolveArch(binder) == IF binder = "vm" THEN "x86" ELSE HostArch

\* An explicit BEETROOT_FRIDA_ARCH always wins; the guest of a micro-VM is x86_64.
ResolveArch(binder) ==
  CASE archEnv # "none"   -> archEnv
    [] archEnv = "none" /\ binder = "vm" -> "x86"
    [] OTHER              -> HostArch

\* auto follows the host's frida-tools, when there are any.
ResolveVersion(ver) ==
  CASE ver \in Vers                     -> ver
    [] ver = "auto" /\ tools # "none"   -> tools
    [] OTHER                            -> latest

AsksNetwork(ver) == ver = "latest" \/ (ver = "auto" /\ tools = "none")

\* apply passes on the pin of the config; install_frida passes none.
ResolveFrida(p) ==
  /\ At(p, "resolve")
  /\ LET c == Cfg[InstOf[p]] IN
     \/ /\ To(p, [job[p] EXCEPT !.pc = "lookup", !.at = 0,
                  !.key = <<"frida", ResolveVersion(c.ver), ResolveArch(c.binder)>>,
                  !.pin = IF job[p].verb = "apply" THEN c.pin ELSE "none"])
        /\ UNCHANGED <<applied, added, faults>>
     \/ AsksNetwork(c.ver) /\ Fault /\ Fail(p)
  /\ UNCHANGED <<env, cache, frida, mods, entries>>

\* A cached file that is not empty is a hit; a module's path must exist.
Lookup(p) ==
  /\ At(p, "lookup")
  /\ LET k == job[p].key IN
     \/ cache[k] # "none" /\ To(p, [job[p] EXCEPT !.pc = "verify"]) /\ UNCHANGED <<applied, added>>
     \/ /\ cache[k] = "none" /\ k \notin Files
        /\ To(p, [job[p] EXCEPT !.pc = "fetch"]) /\ UNCHANGED <<applied, added>>
     \/ cache[k] = "none" /\ k \in Files /\ Fail(p)
  /\ UNCHANGED <<env, cache, frida, mods, entries, faults>>

\* Mutant: nobody counts the bytes.
BugNoticesCut(k) == k \in FridaKeys

\* A cut .xz has no end-of-stream mark; a cut zip is short of its Content-Length,
\* when there is one.
NoticesCut(k) == k \in FridaKeys \cup WithLength

\* The download into a temporary file of the process's own.
Fetch(p) ==
  /\ At(p, "fetch")
  /\ LET k == job[p].key IN
     \/ /\ To(p, [job[p] EXCEPT !.pc = "publish", !.tmp = upstream[k]])
        /\ UNCHANGED <<applied, added, faults>>
     \/ Fault /\ Fail(p)
     \/ /\ Fault /\ ~NoticesCut(k)
        /\ To(p, [job[p] EXCEPT !.pc = "publish", !.tmp = "part"]) /\ UNCHANGED <<applied, added>>
  /\ UNCHANGED <<env, cache, frida, mods, entries>>

\* tmp.replace(out)
Publish(p) ==
  /\ At(p, "publish")
  /\ cache' = [cache EXCEPT ![job[p].key] = job[p].tmp]
  /\ To(p, [job[p] EXCEPT !.pc = "verify"])
  /\ UNCHANGED <<env, frida, mods, entries, applied, added, faults>>

CopyStep(p) == IF job[p].at = 0 THEN "copyFrida" ELSE "open"

\* Mutant: a warm hit is trusted; only what was just downloaded is hashed.
BugVerify(p) ==
  /\ At(p, "verify")
  /\ LET c == cache[job[p].key] pin == job[p].pin IN
     \/ /\ pin \in {"none", c} \/ job[p].tmp = "none"
        /\ To(p, [job[p] EXCEPT !.pc = CopyStep(p)]) /\ UNCHANGED <<applied, added>>
     \/ pin # "none" /\ c = "none" /\ Fail(p)
     \/ /\ pin \notin {"none", c} /\ job[p].tmp # "none" /\ c # "none"
        /\ To(p, [job[p] EXCEPT !.pc = "evict"]) /\ UNCHANGED <<applied, added>>
  /\ UNCHANGED <<env, cache, frida, mods, entries, faults>>

\* _check_sha256 and verify_sha256: the digest of what is in the cache now.
Verify(p) ==
  /\ At(p, "verify")
  /\ LET c == cache[job[p].key] pin == job[p].pin IN
     \/ /\ pin \in {"none", c}
        /\ To(p, [job[p] EXCEPT !.pc = CopyStep(p)]) /\ UNCHANGED <<applied, added>>
     \/ pin # "none" /\ c = "none" /\ Fail(p)
     \/ /\ pin \notin {"none", c} /\ c # "none"
        /\ To(p, [job[p] EXCEPT !.pc = "evict"]) /\ UNCHANGED <<applied, added>>
  /\ UNCHANGED <<env, cache, frida, mods, entries, faults>>

\* Mutant: the mismatch is raised and the file left.
BugEvicted(k) == cache

\* Mutant: a module's own file is removed like a cached one.
BugEvictedFile(k) == [cache EXCEPT ![k] = "none"]

\* Only what can be fetched again is removed.
Evicted(k) == IF k \in Files THEN cache ELSE [cache EXCEPT ![k] = "none"]

Evict(p) ==
  /\ At(p, "evict") /\ cache' = Evicted(job[p].key) /\ Fail(p)
  /\ UNCHANGED <<env, frida, mods, entries, faults>>

\* The copy is made beside the target and renamed.
CopyFrida(p) ==
  /\ At(p, "copyFrida")
  /\ LET k == job[p].key IN
     \/ cache[k] = "none" /\ Fail(p) /\ UNCHANGED frida
     \/ /\ cache[k] # "none"
        /\ frida' = [frida EXCEPT ![InstOf[p]] = [is |-> cache[k], key |-> k]]
        /\ \/ /\ job[p].verb = "apply"
              /\ To(p, [job[p] EXCEPT !.pc = "wipe"]) /\ UNCHANGED <<applied, added>>
           \/ job[p].verb = "install" /\ Done(p, FALSE) /\ UNCHANGED added
  /\ UNCHANGED <<env, cache, mods, entries, faults>>

-----------------------------------------------------------------------------
(* modules_download.stage_for_instance.                                    *)

\* Every zip in modules/ goes, also one that the user put there.
Wipe(p) ==
  /\ At(p, "wipe")
  /\ mods' = [mods EXCEPT ![InstOf[p]] = <<>>]
  /\ cache' = [k \in Keys |-> IF k \in DOMAIN Inside /\ Inside[k] = InstOf[p]
                              THEN "none" ELSE cache[k]]
  /\ To(p, [job[p] EXCEPT !.pc = "next", !.at = 1, !.used = {}])
  /\ UNCHANGED <<env, frida, entries, applied, added, faults>>

\* Through the list; VmDeviceBackend.apply ends with the reconciliation.
NextModule(p) ==
  /\ At(p, "next")
  /\ LET j == job[p] IN
     \/ /\ j.at <= Len(j.list)
        /\ To(p, [j EXCEPT !.pc = "lookup", !.key = j.list[j.at].key,
                           !.pin = j.list[j.at].pin, !.tmp = "none"])
        /\ UNCHANGED <<kind, applied, added>>
     \/ /\ j.at > Len(j.list) /\ j.verb = "apply" /\ j.via = "redroid"
        /\ Done(p, TRUE) /\ UNCHANGED <<kind, added>>
     \/ /\ j.at > Len(j.list) /\ j.verb = "apply" /\ j.via = "vm"
        /\ kind' = Reconciled(InstOf[p]) /\ Done(p, TRUE) /\ UNCHANGED added
     \/ /\ j.at > Len(j.list) /\ j.verb = "add"
        /\ To(p, [j EXCEPT !.pc = "yaml"]) /\ UNCHANGED <<kind, applied, added>>
  /\ UNCHANGED <<upstream, host, cache, frida, mods, entries, faults>>

\* Mutant: two modules of one basename share the destination.
BugDestName(name, used, index) == name

Prefixed(name, index, n) == [x \in 1..n |-> index] \o name

\* _unique_dest_name: the index is put before the name until it is free.
DestName(name, used, index) ==
  LET n == CHOOSE m \in 0..Cardinality(used) :
             /\ Prefixed(name, index, m) \notin used
             /\ \A l \in 0..(m - 1) : Prefixed(name, index, l) \in used
  IN Prefixed(name, index, n)

Put(f, d, v) == [x \in DOMAIN f \cup {d} |-> IF x = d THEN v ELSE f[x]]

\* shutil.copyfile opens the source, then truncates the destination.
OpenModule(p) ==
  /\ At(p, "open")
  /\ LET j == job[p]
         d == DestName(BaseName[j.key], j.used, j.at - 1) IN
     \/ cache[j.key] = "none" /\ Fail(p) /\ UNCHANGED mods
     \/ /\ cache[j.key] # "none"
        /\ mods' = [mods EXCEPT ![InstOf[p]] = Put(@, d, [is |-> "part", key |-> j.key])]
        /\ To(p, [j EXCEPT !.pc = "write", !.tmp = cache[j.key], !.dst = d,
                           !.used = j.used \cup {d}])
        /\ UNCHANGED <<applied, added>>
  /\ UNCHANGED <<env, cache, frida, entries, faults>>

\* What is copied into a file that somebody's wipe unlinked is lost.
WriteModule(p) ==
  /\ At(p, "write")
  /\ LET j == job[p] i == InstOf[p] IN
     /\ mods' = IF j.dst \in DOMAIN mods[i] THEN [mods EXCEPT ![i][j.dst].is = j.tmp] ELSE mods
     /\ To(p, [j EXCEPT !.pc = "next", !.at = j.at + 1])
  /\ UNCHANGED <<env, cache, frida, entries, applied, added, faults>>

\* add_module writes the list it staged, which is the one it read plus its module.
WriteYaml(p) ==
  /\ At(p, "yaml")
  /\ LET i == InstOf[p] IN
     /\ entries' = [entries EXCEPT ![i] = job[p].list]
     /\ added' = [added EXCEPT ![i] = @ \cup {job[p].list[Len(job[p].list)]}]
     /\ Done(p, FALSE)
  /\ UNCHANGED <<env, cache, frida, mods, faults>>

-----------------------------------------------------------------------------
Command(p) ==
  \/ Begin(p) \/ StageLocal(p) \/ StageEmpty(p) \/ Reconcile(p) \/ ResolveFrida(p) \/ Lookup(p) \/ Fetch(p) \/ Publish(p)
  \/ Verify(p) \/ Evict(p) \/ CopyFrida(p) \/ Wipe(p) \/ NextModule(p) \/ OpenModule(p)
  \/ WriteModule(p) \/ WriteYaml(p)

\* The command is killed.
Kill(p) ==
  /\ ~At(p, "idle") /\ Fault /\ Fail(p)
  /\ UNCHANGED <<env, cache, frida, mods, entries>>

\* A release is replaced, or a mirror serves something else.
Republish(k) ==
  /\ Fault /\ (Quiet => \A p \in Procs : At(p, "idle"))
  /\ \E c \in Whole : upstream' = [upstream EXCEPT ![k] = c]
  /\ UNCHANGED <<host, kind, cache, frida, mods, entries, job, applied, added>>

Next ==
  \/ \E p \in Procs : Command(p) \/ Kill(p)
  \/ \E k \in FridaKeys \cup Urls : Republish(k)

Spec == Init /\ [][Next]_vars
FairSpec == Spec /\ \A p \in Procs : WF_vars(Command(p))

-----------------------------------------------------------------------------
(* Properties.                                                             *)

\* What the caches and the instances hold; a server is never half a server, as it
\* is copied beside its target and renamed.
TypeOK ==
  /\ cache \in [Keys -> {"none", "part"} \cup Whole]
  /\ \A i \in Insts : /\ frida[i].is \in {"none", "empty"} \cup Whole
                      /\ \A d \in DOMAIN mods[i] : mods[i][d].is \in {"part"} \cup Whole

\* A binary of the pinned version and a module with a sha256 that lie in the
\* instance are the ones the digest names, whoever else uses the shared cache.
StagedMatchesPin ==
  \A i \in Insts :
    /\ Cfg[i].pin # "none" /\ frida[i].is \in Whole => frida[i].is = Cfg[i].pin
    /\ \A n \in DOMAIN entries[i], d \in DOMAIN mods[i] :
         mods[i][d].key = entries[i][n].key /\ entries[i][n].pin # "none"
           => mods[i][d].is \in {entries[i][n].pin, "part"}

\* The server that a config asks for: of the version it names or follows, for the
\* architecture that the environment, the guest or the host has.
WantedServer(i) ==
  <<"frida", ResolveVersion(Cfg[i].ver),
    IF archEnv # "none" THEN archEnv ELSE IF Cfg[i].binder = "vm" THEN "x86" ELSE HostArch>>

\* Where a cut download goes unnoticed: no length is sent.
MayBeCut == Urls \ WithLength

\* An apply that returns has staged, on the redroid backend, the server that the
\* config asks for, or its placeholder; and on both backends a file for every
\* module and nothing else, even when modules share a basename.  The file is whole
\* unless it came from a server that sends no length.
AppliedComplete ==
  \A i \in Insts : applied[i] # "no" =>
    /\ applied[i] = "redroid" =>
         /\ Cfg[i].ver = "none" => frida[i] = Empty
         /\ Cfg[i].ver # "none" => frida[i].is \in Whole /\ frida[i].key = WantedServer(i)
    /\ \A n \in DOMAIN entries[i] : \E d \in DOMAIN mods[i] : mods[i][d].key = entries[i][n].key
    /\ \A d \in DOMAIN mods[i] :
         /\ mods[i][d].key \notin MayBeCut => mods[i][d].is \in Whole
         /\ \E n \in DOMAIN entries[i] : mods[i][d].key = entries[i][n].key

\* The same of every file; the code does not keep it (README, section 6).
ModulesWhole ==
  \A i \in Insts : applied[i] # "no" => \A d \in DOMAIN mods[i] : mods[i][d].is \in Whole

\* A download cut short is never published where its end can be told, and a
\* staged server is never half a server.
CacheWhole == TypeOK /\ \A k \in FridaKeys \cup WithLength : cache[k] # "part"

\* While frida stays configured, no failed or killed command takes a working
\* server away (#165).
ServersStay ==
  \A i \in Insts : frida[i].is \in Whole /\ Cfg[i].ver # "none" => frida'[i].is \in Whole
FridaKept == [][ServersStay]_vars

\* The user's own module files outside modules/ are never deleted or overwritten,
\* also when they are not what their sha256 names.
FilesStay     == \A k \in Files \ DOMAIN Inside : cache'[k] = cache[k]
UserFilesKept == [][FilesStay]_vars

\* The same of every file of the user's; the code does not keep it: `path:
\* modules/x.zip` is unlinked before it is resolved (README, section 6).
AllFilesKept == [][\A k \in Files : cache'[k] = cache[k]]_vars

\* Staging loses nothing it cannot get again, as long as one command at a time
\* works on an instance: neither a working server nor the user's own module files
\* outside modules/.
NothingLost == FridaKept /\ UserFilesKept

\* When the servers send what the pins name from some moment on, and the user's
\* own files are what they name, retried commands end up succeeding: no poisoned
\* cache entry is served for ever.
RetriesSucceed ==
  (<>[](/\ \A k \in FridaKeys \cup Urls : upstream[k] = "A"
        /\ \A k \in Files : cache[k] = "A")) =>
    \A p \in Procs : <>[](job[p].res # "failed")

\* A module whose add_module returned is in beetroot.yaml.
AddsKept == \A i \in Insts : added[i] \subseteq {entries[i][n] : n \in DOMAIN entries[i]}
=============================================================================
