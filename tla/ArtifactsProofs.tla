--------------------------- MODULE ArtifactsProofs --------------------------
(***************************************************************************)
(* Proofs about Artifacts, for every number of commands, instances, module *)
(* lists and cache keys.  No cut download that can be noticed is ever      *)
(* published, whatever fails or races (Spec).  One command at a time on an *)
(* instance, none takes away what it cannot get again and an apply that    *)
(* returns has staged what its backend stages; and while the servers change only   *)
(* between commands, what lies in an instance is what its pins name        *)
(* (SceneSpec).                                                            *)
(***************************************************************************)
EXTENDS MCArtifacts, FiniteSetTheorems, WellFoundedInduction, TLAPS

\* The steps of a fetch, and the steps at which a module is being staged.
FetchSteps == {"lookup", "fetch", "publish", "verify", "evict"}
AllSteps   == {"idle", "local", "stub", "reconcile", "resolve", "copyFrida", "wipe", "next", "open", "write",
               "yaml"} \cup FetchSteps

DestNames == Seq(Int)
Contents  == {"none", "part"} \cup Whole

Jobs == [pc : AllSteps, verb : {"none", "apply", "install", "add"}, via : Kinds, list : Seq(Modules),
         at : Nat, key : Keys \cup {NoKey}, pin : Pins, tmp : Contents, dst : DestNames,
         used : SUBSET DestNames, res : {"none", "ok", "failed"}]

\* What a command has in hand at each step: the frida key before the first
\* module, then a module's; a temporary file that is whole where a cut is
\* noticed; a file of the user's is never fetched.
JobOK(j) ==
  /\ j.pc \in FetchSteps /\ j.at = 0 => j.key \in FridaKeys
  /\ j.pc \in FetchSteps /\ j.at # 0 => j.key \in ModKeys /\ j.at \in 1..Len(j.list)
  /\ j.pc = "copyFrida" => j.at = 0 /\ j.key \in FridaKeys
  /\ j.pc \in {"open", "write"} => j.key \in ModKeys /\ j.at \in 1..Len(j.list)
  /\ j.pc = "next" => j.at # 0
  /\ IsFiniteSet(j.used)
  /\ j.pc \in {"fetch", "publish"} => j.key \notin Files
  /\ j.pc \in {"publish", "write"} => /\ j.tmp \in {"part"} \cup Whole
                                      /\ j.key \notin MayBeCut => j.tmp \in Whole

StagedFiles == [is : {"part"} \cup Whole, key : ModKeys]

TypeInv ==
  /\ upstream \in [FridaKeys \cup Urls -> Whole]
  /\ tools \in Vers \cup {"none"} /\ latest \in Vers /\ archEnv \in Archs \cup {"none"}
  /\ kind \in [Insts -> Kinds]
  /\ cache \in [Keys -> Contents] /\ \A k \in Keys : k \notin MayBeCut => cache[k] # "part"
  /\ frida \in [Insts -> [is : {"none", "empty"} \cup Whole, key : FridaKeys \cup {NoKey}]]
  /\ DOMAIN mods = Insts
  /\ \A i \in Insts : \A d \in DOMAIN mods[i] : mods[i][d] \in StagedFiles
  /\ entries \in [Insts -> Seq(Modules)]
  /\ job \in [Procs -> Jobs] /\ \A p \in Procs : JobOK(job[p])
  /\ applied \in [Insts -> {"no"} \cup Kinds]

\* The placeholder is written where there is no working server.
StubOK(p) ==
  job[p].pc = "stub" => \/ Cfg[InstOf[p]].ver = "none"
                        \/ frida[InstOf[p]].is \in {"none", "empty"}

-----------------------------------------------------------------------------

\* A step of a command replaces its record and no other.
LEMMA JobMoves ==
  ASSUME job \in [Procs -> Jobs], \A q \in Procs : JobOK(job[q]),
         NEW p \in Procs, NEW r \in Jobs, JobOK(r), To(p, r)
  PROVE  job' \in [Procs -> Jobs] /\ \A q \in Procs : JobOK(job'[q])
BY DEF To

\* The record of a command that has ended.
LEMMA IdleJob ==
  ASSUME NEW how \in {"none", "ok", "failed"}
  PROVE  [Idle EXCEPT !.res = how] \in Jobs /\ JobOK([Idle EXCEPT !.res = how]) /\ Idle \in Jobs
         /\ JobOK(Idle) /\ Idle.pc = "idle" /\ [Idle EXCEPT !.res = how].pc = "idle"
<1>1. <<>> \in DestNames /\ <<>> \in Seq(Modules)
  BY DEF DestNames
<1> QED
  BY <1>1, FS_EmptySet DEF Idle, Jobs, Kinds, JobOK, AllSteps, FetchSteps, Pins, Contents, NoKey

\* The frida key an instance asks for is one of the cache's.
LEMMA FridaKeyTyped ==
  ASSUME TypeInv, NEW i \in Insts
  PROVE  <<"frida", ResolveVersion(Cfg[i].ver), ResolveArch(Cfg[i].binder)>> \in FridaKeys
<1>1. ResolveVersion(Cfg[i].ver) \in Vers
  BY DEF ResolveVersion, TypeInv
<1>2. ResolveArch(Cfg[i].binder) \in Archs
  BY ArtifactsAssumption DEF ResolveArch, Archs, TypeInv
<1> QED
  BY <1>1, <1>2 DEF FridaKeys

\* The first state.
LEMMA InitTypes == Init => TypeInv
<1> SUFFICES ASSUME Init PROVE TypeInv
  OBVIOUS
<1>1. job \in [Procs -> Jobs] /\ \A p \in Procs : JobOK(job[p])
  BY IdleJob DEF Init
<1>2. \A i \in Insts : DOMAIN mods[i] = {}
  BY DEF Init
<1>3. frida \in [Insts -> [is : {"none", "empty"} \cup Whole, key : FridaKeys \cup {NoKey}]]
  BY DEF Init, NoFile, Empty
<1>4. entries \in [Insts -> Seq(Modules)]
  BY ArtifactsAssumption DEF Init
<1>5. cache \in [Keys -> Contents] /\ \A k \in Keys : k \notin MayBeCut => cache[k] # "part"
  BY DEF Init, Contents, Whole
<1>6. upstream \in [FridaKeys \cup Urls -> Whole]
  BY DEF Init, Whole
<1> QED
  BY <1>1, <1>2, <1>3, <1>4, <1>5, <1>6 DEF Init, TypeInv
-----------------------------------------------------------------------------

\* The record of a command that starts.
LEMMA StartJob ==
  ASSUME TypeInv, NEW p \in Procs, NEW v, NEW s, NEW l, Start(p, v, s, l)
  PROVE  /\ job'[p].pc = s /\ job'[p].verb = v /\ job'[p].list = l
         /\ job'[p].via = kind[InstOf[p]]
<1>1. job' = [job EXCEPT ![p] = [Idle EXCEPT !.pc = s, !.verb = v, !.via = kind[InstOf[p]],
                                             !.list = l]]
  BY DEF Start, To
<1>2. job'[p] = [Idle EXCEPT !.pc = s, !.verb = v, !.via = kind[InstOf[p]], !.list = l]
  BY <1>1 DEF TypeInv
<1>3. Idle \in Jobs
  BY IdleJob
<1> QED
  BY <1>2, <1>3 DEF Jobs

\* What each verb starts with (Begin).
LEMMA BeginJob ==
  ASSUME TypeInv, NEW p \in Procs, Begin(p)
  PROVE  /\ job'[p].pc \in {"local", "resolve", "wipe"}
         /\ job'[p].verb \in {"apply", "install", "add"} /\ job'[p].via = kind[InstOf[p]]
         /\ job'[p].verb = "apply" =>
              /\ job'[p].list = entries[InstOf[p]]
              /\ job'[p].pc = IF kind[InstOf[p]] = "vm" THEN "wipe" ELSE "local"
<1>1. \/ Start(p, "apply", IF kind[InstOf[p]] = "vm" THEN "wipe" ELSE "local", entries[InstOf[p]])
      \/ Start(p, "install", "resolve", <<>>)
      \/ \E m \in Adds : Start(p, "add", "wipe", Append(entries[InstOf[p]], m))
  BY DEF Begin
<1> HIDE DEF Start
<1>2. CASE Start(p, "apply", IF kind[InstOf[p]] = "vm" THEN "wipe" ELSE "local", entries[InstOf[p]])
  BY <1>2, StartJob
<1>3. CASE Start(p, "install", "resolve", <<>>)
  BY <1>3, StartJob
<1>4. CASE \E m \in Adds : Start(p, "add", "wipe", Append(entries[InstOf[p]], m))
  <2>1. PICK m \in Adds : Start(p, "add", "wipe", Append(entries[InstOf[p]], m))
    BY <1>4
  <2>2. job'[p].pc = "wipe" /\ job'[p].verb = "add" /\ job'[p].via = kind[InstOf[p]]
    BY <2>1, StartJob
  <2> QED
    BY <2>2
<1> QED
  BY <1>1, <1>2, <1>3, <1>4

\* A command that raises.
LEMMA FailTypes ==
  ASSUME TypeInv, NEW p \in Procs, Fail(p)
  PROVE  /\ job' \in [Procs -> Jobs] /\ \A q \in Procs : JobOK(job'[q])
         /\ applied' \in [Insts -> {"no"} \cup Kinds]
  BY IdleJob, JobMoves DEF Fail, TypeInv

\* A command that returns.
LEMMA DoneTypes ==
  ASSUME TypeInv, NEW p \in Procs, NEW staged \in BOOLEAN, Done(p, staged)
  PROVE  /\ job' \in [Procs -> Jobs] /\ \A q \in Procs : JobOK(job'[q])
         /\ applied' \in [Insts -> {"no"} \cup Kinds]
<1>1. job' \in [Procs -> Jobs] /\ \A q \in Procs : JobOK(job'[q])
  BY IdleJob, JobMoves DEF Done, TypeInv
<1>2. PICK b \in {"no"} \cup Kinds : applied' = [applied EXCEPT ![InstOf[p]] = b]
  BY DEF Done, TypeInv, Jobs
<1> QED
  BY <1>1, <1>2 DEF TypeInv

\* The start of a call and the local stage.
LEMMA StartTypes ==
  ASSUME TypeInv, NEW p \in Procs,
         Begin(p) \/ StageLocal(p) \/ StageEmpty(p) \/ Reconcile(p) \/ ResolveFrida(p)
  PROVE  TypeInv'
<1>0. InstOf[p] \in Insts /\ job[p] \in Jobs /\ JobOK(job[p])
  BY ArtifactsAssumption DEF TypeInv
<1>1. CASE Begin(p)
  <2>2. \A m \in Adds : Append(entries[InstOf[p]], m) \in Seq(Modules)
    BY <1>0, ArtifactsAssumption DEF TypeInv
  <2>1. PICK r : To(p, r) /\ \E s \in {"local", "resolve", "wipe"}, v \in {"apply", "install", "add"},
                                l \in Seq(Modules) :
          r = [Idle EXCEPT !.pc = s, !.verb = v, !.via = kind[InstOf[p]], !.list = l]
    <3>1. entries[InstOf[p]] \in Seq(Modules) /\ <<>> \in Seq(Modules)
      BY <1>0 DEF TypeInv
    <3> QED
      BY <1>1, <2>2, <3>1 DEF Begin, Start
  <2>3. r \in Jobs /\ JobOK(r)
    <3>0. Idle \in Jobs /\ JobOK(Idle) /\ kind[InstOf[p]] \in Kinds
      BY <1>0, IdleJob DEF TypeInv
    <3>1. r \in Jobs
      BY <2>1, <3>0 DEF Jobs, AllSteps
    <3>2. r.pc \in {"local", "resolve", "wipe"} /\ IsFiniteSet(r.used)
      BY <2>1, <3>0 DEF Jobs, JobOK
    <3> QED
      BY <3>1, <3>2 DEF JobOK, FetchSteps
  <2>4. job' \in [Procs -> Jobs] /\ \A q \in Procs : JobOK(job'[q])
    BY <2>1, <2>3, JobMoves DEF TypeInv
  <2> QED
    BY <1>1, <2>4 DEF Begin, TypeInv, env, host
<1>2. CASE StageLocal(p) \/ StageEmpty(p) \/ Reconcile(p)
  <2>1. PICK s \in {"stub", "reconcile", "wipe", "resolve"} : To(p, [job[p] EXCEPT !.pc = s])
    BY <1>2 DEF StageLocal, StageEmpty, Reconcile
  <2>2. [job[p] EXCEPT !.pc = s] \in Jobs /\ JobOK([job[p] EXCEPT !.pc = s])
    BY <1>0 DEF Jobs, JobOK, AllSteps, FetchSteps
  <2>3. job' \in [Procs -> Jobs] /\ \A q \in Procs : JobOK(job'[q])
    BY <2>1, <2>2, JobMoves DEF TypeInv
  <2>4. frida' \in [Insts -> [is : {"none", "empty"} \cup Whole, key : FridaKeys \cup {NoKey}]]
    BY <1>2 DEF StageLocal, StageEmpty, Reconcile, TypeInv, Empty
  <2>5. kind' \in [Insts -> Kinds]
    BY <1>2 DEF StageLocal, StageEmpty, Reconcile, Reconciled, TypeInv, Kinds, env, host
  <2> QED
    BY <1>2, <2>3, <2>4, <2>5 DEF StageLocal, StageEmpty, Reconcile, TypeInv, env, host
<1>3. CASE ResolveFrida(p)
  <2>1. CASE Fail(p)
    BY <1>3, <2>1, FailTypes DEF ResolveFrida, TypeInv, env, host
  <2>2. CASE ~Fail(p)
    <3> DEFINE k == <<"frida", ResolveVersion(Cfg[InstOf[p]].ver), ResolveArch(Cfg[InstOf[p]].binder)>>
    <3>1. PICK pin \in Pins :
            To(p, [job[p] EXCEPT !.pc = "lookup", !.at = 0, !.key = k, !.pin = pin])
      <4>1. Cfg[InstOf[p]].pin \in Pins /\ "none" \in Pins
        BY <1>0, ArtifactsAssumption DEF Pins
      <4> QED
        BY <1>3, <2>2, <4>1 DEF ResolveFrida
    <3>2. k \in FridaKeys
      BY <1>0, FridaKeyTyped
    <3> HIDE DEF k
    <3>3. [job[p] EXCEPT !.pc = "lookup", !.at = 0, !.key = k, !.pin = pin] \in Jobs
      BY <1>0, <3>2 DEF Jobs, AllSteps, FetchSteps, Keys
    <3>4. JobOK([job[p] EXCEPT !.pc = "lookup", !.at = 0, !.key = k, !.pin = pin])
      BY <1>0, <3>2 DEF JobOK, Jobs, FetchSteps
    <3>5. job' \in [Procs -> Jobs] /\ \A q \in Procs : JobOK(job'[q])
      BY <3>1, <3>3, <3>4, JobMoves DEF TypeInv
    <3> QED
      BY <1>3, <2>2, <3>5 DEF ResolveFrida, TypeInv, env, host
  <2> QED
    BY <2>1, <2>2
<1> QED
  BY <1>1, <1>2, <1>3

\* The shared cache.
LEMMA CacheTypes ==
  ASSUME TypeInv, NEW p \in Procs,
         Lookup(p) \/ Fetch(p) \/ Publish(p) \/ Verify(p) \/ Evict(p)
  PROVE  TypeInv'
<1>0. InstOf[p] \in Insts /\ job[p] \in Jobs /\ JobOK(job[p])
  BY ArtifactsAssumption DEF TypeInv
<1>1. job[p].pc \in FetchSteps
  BY DEF Lookup, Fetch, Publish, Verify, Evict, At, FetchSteps
<1>2. job[p].key \in Keys
  BY <1>0, <1>1 DEF JobOK, Keys
<1>3. CASE Lookup(p)
  <2>1. CASE Fail(p)
    BY <1>3, <2>1, FailTypes DEF Lookup, TypeInv, env, host
  <2>2. CASE ~Fail(p)
    <3>1. PICK s \in {"verify", "fetch"} : /\ To(p, [job[p] EXCEPT !.pc = s])
                                           /\ s = "fetch" => job[p].key \notin Files
      BY <1>3, <2>2 DEF Lookup
    <3>2. [job[p] EXCEPT !.pc = s] \in Jobs /\ JobOK([job[p] EXCEPT !.pc = s])
      BY <1>0, <1>1, <3>1 DEF Jobs, JobOK, AllSteps, FetchSteps
    <3>3. job' \in [Procs -> Jobs] /\ \A q \in Procs : JobOK(job'[q])
      BY <3>1, <3>2, JobMoves DEF TypeInv
    <3> QED
      BY <1>3, <2>2, <3>3 DEF Lookup, TypeInv, env, host
  <2> QED
    BY <2>1, <2>2
<1>4. CASE Fetch(p)
  <2>1. CASE Fail(p)
    BY <1>4, <2>1, FailTypes DEF Fetch, TypeInv, env, host
  <2>2. CASE ~Fail(p)
    <3>1. upstream[job[p].key] \in Whole
      BY <1>0, <1>2, <1>4 DEF TypeInv, JobOK, Fetch, At, Keys, ModKeys
    <3>a. job[p].key \notin MayBeCut => NoticesCut(job[p].key)
      BY <1>0, <1>2, <1>4 DEF JobOK, Fetch, At, Keys, ModKeys, MayBeCut, NoticesCut
    <3>2. PICK t \in {"part"} \cup Whole : /\ To(p, [job[p] EXCEPT !.pc = "publish", !.tmp = t])
                                           /\ job[p].key \notin MayBeCut => t \in Whole
      BY <1>4, <2>2, <3>1, <3>a DEF Fetch
    <3>3. [job[p] EXCEPT !.pc = "publish", !.tmp = t] \in Jobs
      BY <1>0 DEF Jobs, AllSteps, FetchSteps, Contents
    <3>4. JobOK([job[p] EXCEPT !.pc = "publish", !.tmp = t])
      BY <1>0, <1>4, <3>2 DEF JobOK, Jobs, FetchSteps, Fetch, At
    <3>5. job' \in [Procs -> Jobs] /\ \A q \in Procs : JobOK(job'[q])
      BY <3>2, <3>3, <3>4, JobMoves DEF TypeInv
    <3> QED
      BY <1>4, <2>2, <3>5 DEF Fetch, TypeInv, env, host
  <2> QED
    BY <2>1, <2>2
<1>5. CASE Publish(p)
  <2>1. [job[p] EXCEPT !.pc = "verify"] \in Jobs /\ JobOK([job[p] EXCEPT !.pc = "verify"])
    BY <1>0, <1>1 DEF Jobs, JobOK, AllSteps, FetchSteps
  <2>2. job' \in [Procs -> Jobs] /\ \A q \in Procs : JobOK(job'[q])
    BY <1>5, <2>1, JobMoves DEF Publish, TypeInv
  <2>3. job[p].tmp \in Contents /\ (job[p].key \notin MayBeCut => job[p].tmp # "part")
    BY <1>0, <1>5 DEF JobOK, Publish, At, Contents, Whole
  <2>4. cache' \in [Keys -> Contents] /\ \A k \in Keys : k \notin MayBeCut => cache'[k] # "part"
    BY <1>2, <1>5, <2>3 DEF Publish, TypeInv
  <2> QED
    BY <1>5, <2>2, <2>4 DEF Publish, TypeInv, env, host
<1>6. CASE Verify(p)
  <2>1. CASE Fail(p)
    BY <1>6, <2>1, FailTypes DEF Verify, TypeInv, env, host
  <2>2. CASE ~Fail(p)
    <3>1. PICK s \in {CopyStep(p), "evict"} : To(p, [job[p] EXCEPT !.pc = s])
      BY <1>6, <2>2 DEF Verify
    <3>2. [job[p] EXCEPT !.pc = s] \in Jobs /\ JobOK([job[p] EXCEPT !.pc = s])
      BY <1>0, <1>1, <3>1 DEF Jobs, JobOK, AllSteps, FetchSteps, CopyStep
    <3>3. job' \in [Procs -> Jobs] /\ \A q \in Procs : JobOK(job'[q])
      BY <3>1, <3>2, JobMoves DEF TypeInv
    <3> QED
      BY <1>6, <2>2, <3>3 DEF Verify, TypeInv, env, host
  <2> QED
    BY <2>1, <2>2
<1>7. CASE Evict(p)
  <2>1. cache' \in [Keys -> Contents] /\ \A k \in Keys : k \notin MayBeCut => cache'[k] # "part"
    BY <1>7 DEF Evict, Evicted, TypeInv, Contents
  <2> QED
    BY <1>7, <2>1, FailTypes DEF Evict, TypeInv, env, host
<1> QED
  BY <1>3, <1>4, <1>5, <1>6, <1>7
-----------------------------------------------------------------------------
(* _unique_dest_name.                                                      *)

\* Every set of naturals that is not empty has a least member.
LEMMA Least ==
  ASSUME NEW T \in SUBSET Nat, T # {}
  PROVE  \E m \in T : \A l \in T : m <= l
<1>1. PICK m \in T : \A l \in T : <<l, m>> \notin OpToRel(<, Nat)
  BY NatLessThanWellFounded, WFMin
<1>2. \A l \in T : ~(l < m)
  BY <1>1 DEF OpToRel
<1> QED
  BY <1>2

\* Prefixing makes names of different lengths.
LEMMA PrefixedLen ==
  ASSUME NEW name \in Seq(Int), NEW index \in Int, NEW n \in Nat
  PROVE  Prefixed(name, index, n) \in Seq(Int) /\ Len(Prefixed(name, index, n)) = n + Len(name)
<1>1. [x \in 1..n |-> index] \in Seq(Int) /\ Len([x \in 1..n |-> index]) = n
  OBVIOUS
<1> QED
  BY <1>1 DEF Prefixed

\* Of the candidates for as many prefixes as there are names taken, one is free.
LEMMA FreeName ==
  ASSUME NEW name \in Seq(Int), NEW index \in Int, NEW used, IsFiniteSet(used)
  PROVE  \E m \in 0..Cardinality(used) : Prefixed(name, index, m) \notin used
<1> DEFINE c == Cardinality(used)
           f == [m \in 0..c |-> Prefixed(name, index, m)]
<1>1. c \in Nat
  BY FS_CardinalityType
<1>2. IsFiniteSet(0..c) /\ Cardinality(0..c) = c + 1
  BY <1>1, FS_Interval
<1> SUFFICES ASSUME \A m \in 0..c : Prefixed(name, index, m) \in used PROVE FALSE
  OBVIOUS
<1>3. f \in [0..c -> used]
  OBVIOUS
<1>4. PICK x, y \in 0..c : x # y /\ f[x] = f[y]
  <2> HIDE DEF f, c
  <2> QED
    BY <1>1, <1>2, <1>3, FS_PigeonHole DEF c
<1>5. Len(Prefixed(name, index, x)) = x + Len(name) /\ Len(Prefixed(name, index, y)) = y + Len(name)
  BY <1>1, PrefixedLen
<1>6. Len(name) \in Nat
  OBVIOUS
<1> QED
  BY <1>1, <1>4, <1>5, <1>6

\* The destination of a module is a name that no module before it has.
LEMMA DestFresh ==
  ASSUME NEW name \in Seq(Int), NEW index \in Int, NEW used, IsFiniteSet(used)
  PROVE  DestName(name, used, index) \in Seq(Int) /\ DestName(name, used, index) \notin used
<1> DEFINE c == Cardinality(used)
           T == {m \in 0..c : Prefixed(name, index, m) \notin used}
           Q(m) == /\ Prefixed(name, index, m) \notin used
                   /\ \A l \in 0..(m - 1) : Prefixed(name, index, l) \in used
<1>1. c \in Nat
  BY FS_CardinalityType
<1>2. PICK m \in T : \A l \in T : m <= l
  <2>a. \E m \in 0..c : Prefixed(name, index, m) \notin used
    BY FreeName
  <2>b. 0..c \subseteq Nat
    BY <1>1
  <2>1. T # {} /\ T \in SUBSET Nat
    <3> HIDE DEF c
    <3> QED
      BY <2>a, <2>b
  <2> HIDE DEF T
  <2> QED
    BY <2>1, Least
<1>3. m \in 0..c /\ Q(m)
  BY <1>1, <1>2
<1> DEFINE n == CHOOSE x \in 0..c : Q(x)
<1>4. n \in 0..c /\ Q(n)
  <2> HIDE DEF Q, c
  <2> QED
    BY <1>3
<1>5. DestName(name, used, index) = Prefixed(name, index, n)
  BY DEF DestName
<1>6. n \in Nat
  BY <1>1, <1>4
<1> HIDE DEF n
<1> QED
  BY <1>4, <1>5, <1>6, PrefixedLen
-----------------------------------------------------------------------------

\* The instance's server and its modules.
LEMMA StageTypes ==
  ASSUME TypeInv, NEW p \in Procs,
         \/ CopyFrida(p) \/ Wipe(p) \/ NextModule(p) \/ OpenModule(p) \/ WriteModule(p)
         \/ WriteYaml(p)
  PROVE  TypeInv'
<1>0. InstOf[p] \in Insts /\ job[p] \in Jobs /\ JobOK(job[p])
  BY ArtifactsAssumption DEF TypeInv
<1>1. CASE CopyFrida(p)
  <2>1. job[p].key \in FridaKeys /\ job[p].key \in Keys /\ job[p].at = 0
    BY <1>0, <1>1 DEF CopyFrida, At, JobOK, Keys
  <2>2. cache[job[p].key] # "part" /\ cache[job[p].key] \in Contents
    BY <2>1, ArtifactsAssumption DEF TypeInv, MayBeCut, ModKeys
  <2>3. frida' \in [Insts -> [is : {"none", "empty"} \cup Whole, key : FridaKeys \cup {NoKey}]]
    <3>1. CASE UNCHANGED frida
      BY <3>1 DEF TypeInv
    <3>2. CASE /\ cache[job[p].key] # "none"
               /\ frida' = [frida EXCEPT ![InstOf[p]] = [is |-> cache[job[p].key], key |-> job[p].key]]
      <4>1. cache[job[p].key] \in Whole
        BY <2>2, <3>2 DEF Contents
      <4> QED
        BY <2>1, <3>2, <4>1 DEF TypeInv
    <3> QED
      BY <1>1, <3>1, <3>2 DEF CopyFrida
  <2>4. CASE Fail(p)
    BY <1>1, <2>3, <2>4, FailTypes DEF CopyFrida, TypeInv, env, host
  <2>5. CASE Done(p, FALSE)
    BY <1>1, <2>3, <2>5, DoneTypes DEF CopyFrida, TypeInv, env, host
  <2>6. CASE To(p, [job[p] EXCEPT !.pc = "wipe"]) /\ UNCHANGED applied
    <3>1. [job[p] EXCEPT !.pc = "wipe"] \in Jobs /\ JobOK([job[p] EXCEPT !.pc = "wipe"])
      BY <1>0 DEF Jobs, JobOK, AllSteps, FetchSteps
    <3>2. job' \in [Procs -> Jobs] /\ \A q \in Procs : JobOK(job'[q])
      BY <2>6, <3>1, JobMoves DEF TypeInv
    <3> QED
      BY <1>1, <2>3, <2>6, <3>2 DEF CopyFrida, TypeInv, env, host
  <2> QED
    BY <1>1, <2>4, <2>5, <2>6 DEF CopyFrida
<1>2. CASE Wipe(p)
  <2>1. /\ [job[p] EXCEPT !.pc = "next", !.at = 1, !.used = {}] \in Jobs
        /\ JobOK([job[p] EXCEPT !.pc = "next", !.at = 1, !.used = {}])
    <3>1. PICK r : r = [job[p] EXCEPT !.pc = "next", !.at = 1, !.used = {}]
      OBVIOUS
    <3>2. r \in Jobs
      BY <1>0, <3>1 DEF Jobs, AllSteps
    <3>3. r.pc = "next" /\ r.at = 1 /\ r.used = {}
      BY <1>0, <3>1 DEF Jobs
    <3>4. JobOK(r)
      BY <3>3, FS_EmptySet DEF JobOK, FetchSteps
    <3> QED
      BY <3>1, <3>2, <3>4
  <2>2. job' \in [Procs -> Jobs] /\ \A q \in Procs : JobOK(job'[q])
    BY <1>2, <2>1, JobMoves DEF Wipe, TypeInv
  <2>3. DOMAIN mods' = Insts /\ \A i \in Insts : \A d \in DOMAIN mods'[i] : mods'[i][d] \in StagedFiles
    BY <1>2 DEF Wipe, TypeInv
  <2>4. cache' \in [Keys -> Contents] /\ \A k \in Keys : k \notin MayBeCut => cache'[k] # "part"
    BY <1>2 DEF Wipe, TypeInv, Contents
  <2> QED
    BY <1>2, <2>2, <2>3, <2>4 DEF Wipe, TypeInv, env, host
<1>3. CASE NextModule(p)
  <2>1. CASE Done(p, TRUE)
    BY <1>3, <2>1, DoneTypes DEF NextModule, Reconciled, Kinds, TypeInv, env, host
  <2>2. CASE /\ job[p].at <= Len(job[p].list) /\ UNCHANGED <<kind, applied, added>>
             /\ To(p, [job[p] EXCEPT !.pc = "lookup", !.key = job[p].list[job[p].at].key,
                                     !.pin = job[p].list[job[p].at].pin, !.tmp = "none"])
    <3>1. job[p].at \in 1..Len(job[p].list) /\ job[p].list \in Seq(Modules)
      BY <1>0, <1>3, <2>2 DEF NextModule, At, JobOK, Jobs
    <3>2. job[p].list[job[p].at] \in Modules
      BY <3>1
    <3>3. PICK k \in ModKeys, pin \in Pins :
            To(p, [job[p] EXCEPT !.pc = "lookup", !.key = k, !.pin = pin, !.tmp = "none"])
      BY <2>2, <3>2 DEF Modules
    <3>4. [job[p] EXCEPT !.pc = "lookup", !.key = k, !.pin = pin, !.tmp = "none"] \in Jobs
      BY <1>0 DEF Jobs, AllSteps, FetchSteps, Contents, Keys
    <3>5. JobOK([job[p] EXCEPT !.pc = "lookup", !.key = k, !.pin = pin, !.tmp = "none"])
      BY <1>0, <3>1 DEF Jobs, JobOK, FetchSteps
    <3>6. job' \in [Procs -> Jobs] /\ \A q \in Procs : JobOK(job'[q])
      BY <3>3, <3>4, <3>5, JobMoves DEF TypeInv
    <3> QED
      BY <1>3, <2>2, <3>6 DEF NextModule, TypeInv, env, host
  <2>3. CASE To(p, [job[p] EXCEPT !.pc = "yaml"]) /\ UNCHANGED <<kind, applied, added>>
    <3>1. [job[p] EXCEPT !.pc = "yaml"] \in Jobs /\ JobOK([job[p] EXCEPT !.pc = "yaml"])
      BY <1>0 DEF Jobs, JobOK, AllSteps, FetchSteps
    <3>2. job' \in [Procs -> Jobs] /\ \A q \in Procs : JobOK(job'[q])
      BY <2>3, <3>1, JobMoves DEF TypeInv
    <3> QED
      BY <1>3, <2>3, <3>2 DEF NextModule, TypeInv, env, host
  <2> QED
    BY <1>3, <2>1, <2>2, <2>3 DEF NextModule
<1>4. CASE OpenModule(p)
  <2>1. CASE cache[job[p].key] = "none"
    BY <1>4, <2>1, FailTypes DEF OpenModule, TypeInv, env, host
  <2>2. CASE cache[job[p].key] # "none"
    <3> DEFINE d == DestName(BaseName[job[p].key], job[p].used, job[p].at - 1)
    <3>1. job[p].key \in ModKeys /\ job[p].key \in Keys /\ job[p].at \in Nat
      BY <1>0, <1>4 DEF OpenModule, At, JobOK, Keys, Jobs
    <3>2. d \in DestNames
      <4>1. BaseName[job[p].key] \in Seq(Int) /\ job[p].at - 1 \in Int
        BY <3>1, ArtifactsAssumption
      <4> QED
        BY <1>0, <4>1, DestFresh DEF JobOK, DestNames
    <3>3. /\ cache[job[p].key] # "none" /\ UNCHANGED <<applied, added>>
          /\ mods' = [mods EXCEPT ![InstOf[p]] = Put(@, d, [is |-> "part", key |-> job[p].key])]
          /\ To(p, [job[p] EXCEPT !.pc = "write", !.tmp = cache[job[p].key], !.dst = d,
                                  !.used = job[p].used \cup {d}])
      BY <1>4, <2>2 DEF OpenModule
    <3> HIDE DEF d
    <3>4. PICK t : t = cache[job[p].key]
      OBVIOUS
    <3>5. t \in {"part"} \cup Whole /\ (job[p].key \notin MayBeCut => t \in Whole)
      BY <3>1, <3>3, <3>4 DEF TypeInv, Contents
    <3>6. IsFiniteSet(job[p].used \cup {d})
      BY <1>0, FS_AddElement DEF JobOK
    <3>7. [job[p] EXCEPT !.pc = "write", !.tmp = t, !.dst = d, !.used = job[p].used \cup {d}] \in Jobs
      BY <1>0, <3>2, <3>5 DEF Jobs, AllSteps, Contents
    <3>8. JobOK([job[p] EXCEPT !.pc = "write", !.tmp = t, !.dst = d, !.used = job[p].used \cup {d}])
      BY <1>0, <1>4, <3>5, <3>6 DEF Jobs, JobOK, FetchSteps, OpenModule, At
    <3>9. job' \in [Procs -> Jobs] /\ \A q \in Procs : JobOK(job'[q])
      BY <3>3, <3>4, <3>7, <3>8, JobMoves DEF TypeInv
    <3>10. [is |-> "part", key |-> job[p].key] \in StagedFiles
      BY <3>1 DEF StagedFiles
    <3>11. DOMAIN mods' = Insts /\ \A i \in Insts : \A x \in DOMAIN mods'[i] : mods'[i][x] \in StagedFiles
      BY <3>3, <3>10 DEF Put, TypeInv
    <3> QED
      BY <1>4, <3>3, <3>9, <3>11 DEF OpenModule, TypeInv, env, host
  <2> QED
    BY <2>1, <2>2
<1>5. CASE WriteModule(p)
  <2>1. /\ [job[p] EXCEPT !.pc = "next", !.at = job[p].at + 1] \in Jobs
        /\ JobOK([job[p] EXCEPT !.pc = "next", !.at = job[p].at + 1])
    <3>1. PICK n \in Nat : n = job[p].at + 1 /\ n # 0
      BY <1>0 DEF Jobs
    <3>2. PICK r : r = [job[p] EXCEPT !.pc = "next", !.at = n]
      OBVIOUS
    <3>3. r \in Jobs
      BY <1>0, <3>2 DEF Jobs, AllSteps
    <3>4. r.pc = "next" /\ r.at # 0 /\ r.used = job[p].used
      BY <1>0, <3>1, <3>2 DEF Jobs
    <3>5. JobOK(r)
      BY <1>0, <3>4 DEF JobOK, FetchSteps
    <3> QED
      BY <3>1, <3>2, <3>3, <3>5
  <2>2. job' \in [Procs -> Jobs] /\ \A q \in Procs : JobOK(job'[q])
    BY <1>5, <2>1, JobMoves DEF WriteModule, TypeInv
  <2>3. job[p].tmp \in {"part"} \cup Whole
    BY <1>0, <1>5 DEF WriteModule, At, JobOK
  <2>4. \A m \in StagedFiles : [m EXCEPT !.is = job[p].tmp] \in StagedFiles
    BY <2>3 DEF StagedFiles
  <2>5. DOMAIN mods' = Insts /\ \A i \in Insts : \A x \in DOMAIN mods'[i] : mods'[i][x] \in StagedFiles
    BY <1>0, <1>5, <2>4 DEF WriteModule, TypeInv
  <2> QED
    BY <1>5, <2>2, <2>5 DEF WriteModule, TypeInv, env, host
<1>6. CASE WriteYaml(p)
  <2>1. entries' \in [Insts -> Seq(Modules)]
    BY <1>0, <1>6 DEF WriteYaml, TypeInv, Jobs
  <2> QED
    BY <1>6, <2>1, DoneTypes DEF WriteYaml, TypeInv, env, host
<1> QED
  BY <1>1, <1>2, <1>3, <1>4, <1>5, <1>6

\* Every step keeps the types.
LEMMA InductiveTypes == TypeInv /\ [Next]_vars => TypeInv'
<1> SUFFICES ASSUME TypeInv, [Next]_vars PROVE TypeInv'
  OBVIOUS
<1>1. CASE UNCHANGED vars
  BY <1>1 DEF vars, TypeInv, env, host
<1>2. ASSUME NEW p \in Procs, Command(p) PROVE TypeInv'
  BY <1>2, StartTypes, CacheTypes, StageTypes DEF Command
<1>3. ASSUME NEW p \in Procs, Kill(p) PROVE TypeInv'
  BY <1>3, FailTypes DEF Kill, TypeInv, env, host
<1>4. ASSUME NEW k \in FridaKeys \cup Urls, Republish(k) PROVE TypeInv'
  BY <1>4 DEF Republish, TypeInv, host
<1> QED
  BY <1>1, <1>2, <1>3, <1>4 DEF Next

\* A download cut short is never published where its end can be told (the .xz
\* stream of frida-server, a zip with a Content-Length), and a server in an
\* instance is never half a server, whatever fails, is killed or races.
THEOREM CachesWhole == Spec => []CacheWhole
<1>1. TypeInv => CacheWhole
  BY ArtifactsAssumption DEF TypeInv, CacheWhole, TypeOK, Contents, MayBeCut, Keys, ModKeys, StagedFiles
<1> QED
  BY <1>1, InitTypes, InductiveTypes, PTL DEF Spec
-----------------------------------------------------------------------------
(* What a step may never take away.                                        *)

\* A command touches its own instance and its own record only.
LEMMA OwnInstance ==
  ASSUME TypeInv, NEW p \in Procs, Command(p) \/ Kill(p)
  PROVE  /\ \A i \in Insts \ {InstOf[p]} : /\ frida'[i] = frida[i] /\ mods'[i] = mods[i]
                                           /\ entries'[i] = entries[i] /\ applied'[i] = applied[i]
         /\ \A q \in Procs \ {p} : job'[q] = job[q]
         /\ UNCHANGED host
<1> USE DEF TypeInv, Fail, Done, To
<1>1. CASE Begin(p) \/ StageLocal(p) \/ ResolveFrida(p) \/ Lookup(p) \/ Fetch(p)
  BY <1>1 DEF Begin, Start, StageLocal, ResolveFrida, Lookup, Fetch, env, host
<1>5. CASE StageEmpty(p) \/ Reconcile(p)
  BY <1>5 DEF StageEmpty, Reconcile, env, host
<1>2. CASE Publish(p) \/ Verify(p) \/ Evict(p) \/ CopyFrida(p) \/ Wipe(p)
  BY <1>2 DEF Publish, Verify, Evict, CopyFrida, Wipe, env, host
<1>3. CASE NextModule(p) \/ OpenModule(p)
  BY <1>3 DEF NextModule, OpenModule, env, host
<1>4. CASE WriteModule(p) \/ WriteYaml(p) \/ Kill(p)
  BY <1>4 DEF WriteModule, WriteYaml, Kill, env, host
<1> QED
  BY <1>1, <1>2, <1>3, <1>4, <1>5 DEF Command

\* One command at a time on an instance: between the check of _stage_local and
\* the placeholder nobody stages a server.
StubInv == \A p \in Procs : StubOK(p)

\* It stays so with every step.
LEMMA InductiveStub == TypeInv /\ StubInv /\ [Next]_vars => StubInv'
<1> SUFFICES ASSUME TypeInv, StubInv, [Next]_vars, NEW q \in Procs PROVE StubOK(q)'
  BY DEF StubInv
<1>0. InstOf[q] \in Insts /\ StubOK(q)
  BY ArtifactsAssumption DEF StubInv
<1>1. CASE UNCHANGED <<frida, job>>
  BY <1>0, <1>1 DEF StubOK
<1>2. ASSUME NEW p \in Procs, Command(p) \/ Kill(p), p # q PROVE StubOK(q)'
  <2>1. InstOf[q] # InstOf[p]
    BY <1>2, SharingAssumption
  <2>2. job'[q] = job[q] /\ frida'[InstOf[q]] = frida[InstOf[q]]
    BY <1>0, <1>2, <2>1, OwnInstance
  <2> QED
    BY <1>0, <2>2 DEF StubOK
<1>3. CASE StageLocal(q)
  BY <1>0, <1>3 DEF StageLocal, To, StubOK, TypeInv, Jobs
<1>4. ASSUME Command(q) \/ Kill(q), ~StageLocal(q) PROVE job'[q].pc # "stub"
  <2>0. job[q] \in Jobs
    BY DEF TypeInv
  <2>1. CASE Fail(q) \/ \E s : Done(q, s)
    BY <2>1, IdleJob DEF Fail, Done, To, TypeInv
  <2>2. CASE Begin(q)
    BY <2>2, BeginJob
  <2>3. CASE /\ ~Fail(q) /\ ~\E s : Done(q, s)
             /\ \/ StageEmpty(q) \/ Reconcile(q) \/ Publish(q) \/ Lookup(q) \/ Verify(q)
                \/ CopyFrida(q)
    <3>1. PICK s : s # "stub" /\ To(q, [job[q] EXCEPT !.pc = s])
      BY <2>3 DEF StageEmpty, Reconcile, Publish, Lookup, Verify, CopyFrida, CopyStep
    <3> QED
      BY <2>0, <3>1 DEF To, TypeInv, Jobs
  <2>4. CASE ResolveFrida(q) /\ ~Fail(q)
    <3>1. PICK k, c : To(q, [job[q] EXCEPT !.pc = "lookup", !.at = 0, !.key = k, !.pin = c])
      BY <2>4 DEF ResolveFrida
    <3> QED
      BY <2>0, <3>1 DEF To, TypeInv, Jobs
  <2>5. CASE Fetch(q) /\ ~Fail(q)
    <3>1. PICK t : To(q, [job[q] EXCEPT !.pc = "publish", !.tmp = t])
      BY <2>5 DEF Fetch
    <3> QED
      BY <2>0, <3>1 DEF To, TypeInv, Jobs
  <2>6. CASE Wipe(q) \/ WriteModule(q)
    <3>1. PICK a, u : To(q, [job[q] EXCEPT !.pc = "next", !.at = a, !.used = u])
      <4>1. \A a : [job[q] EXCEPT !.pc = "next", !.at = a]
                     = [job[q] EXCEPT !.pc = "next", !.at = a, !.used = job[q].used]
        BY <2>0 DEF Jobs
      <4> QED
        BY <2>6, <4>1 DEF Wipe, WriteModule
    <3> QED
      BY <2>0, <3>1 DEF To, TypeInv, Jobs
  <2>7. CASE NextModule(q) /\ ~\E s : Done(q, s)
    <3>1. \/ To(q, [job[q] EXCEPT !.pc = "yaml"])
          \/ \E k, c, t : To(q, [job[q] EXCEPT !.pc = "lookup", !.key = k, !.pin = c, !.tmp = t])
      BY <2>7 DEF NextModule
    <3>2. CASE To(q, [job[q] EXCEPT !.pc = "yaml"])
      BY <2>0, <3>2 DEF To, TypeInv, Jobs
    <3>3. ASSUME NEW k, NEW c, NEW t,
                 To(q, [job[q] EXCEPT !.pc = "lookup", !.key = k, !.pin = c, !.tmp = t])
          PROVE  job'[q].pc # "stub"
      BY <2>0, <3>3 DEF To, TypeInv, Jobs
    <3> QED
      BY <3>1, <3>2, <3>3
  <2>8. CASE OpenModule(q) /\ ~Fail(q)
    <3>1. PICK t, d, u : To(q, [job[q] EXCEPT !.pc = "write", !.tmp = t, !.dst = d, !.used = u])
      <4> HIDE DEF DestName
      <4> QED
        BY <2>8 DEF OpenModule
    <3> QED
      BY <2>0, <3>1 DEF To, TypeInv, Jobs
  <2> QED
    BY <1>4, <2>1, <2>2, <2>3, <2>4, <2>5, <2>6, <2>7, <2>8 DEF Command, Kill, Evict, WriteYaml
<1>5. ASSUME NEW k \in FridaKeys \cup Urls, Republish(k) PROVE UNCHANGED <<frida, job>>
  BY <1>5 DEF Republish
<1> QED
  BY <1>1, <1>2, <1>3, <1>4, <1>5 DEF Next, vars, StubOK

\* The cache changes by a download, of a key that is nobody's own file, or by
\* the removal of what can be fetched again; a server by a whole one.
LEMMA StepsKeep ==
  ASSUME TypeInv, StubInv, Next
  PROVE  ServersStay /\ FilesStay
<1>1. ASSUME NEW p \in Procs, Publish(p) PROVE ServersStay /\ FilesStay
  <2>1. job[p].key \notin Files
    BY <1>1 DEF Publish, At, TypeInv, JobOK
  <2> QED
    BY <1>1, <2>1 DEF Publish, ServersStay, FilesStay, TypeInv
<1>2. ASSUME NEW p \in Procs, Evict(p) PROVE ServersStay /\ FilesStay
  BY <1>2 DEF Evict, Evicted, ServersStay, FilesStay, TypeInv
<1>3. ASSUME NEW p \in Procs, StageEmpty(p) PROVE ServersStay /\ FilesStay
  <2>1. Cfg[InstOf[p]].ver = "none" \/ frida[InstOf[p]].is \notin Whole
    BY <1>3 DEF StageEmpty, At, StubInv, StubOK, Whole
  <2>2. \A i \in Insts : Cfg[i].ver # "none" /\ frida[i].is \in Whole => frida'[i] = frida[i]
    BY <1>3, <2>1 DEF StageEmpty, TypeInv
  <2> QED
    BY <1>3, <2>2 DEF StageEmpty, ServersStay, FilesStay
<1>8. ASSUME NEW p \in Procs, Wipe(p) PROVE ServersStay /\ FilesStay
  BY <1>8 DEF Wipe, ServersStay, FilesStay, Keys, ModKeys
<1>4. ASSUME NEW p \in Procs, CopyFrida(p) PROVE ServersStay /\ FilesStay
  <2>1. CASE UNCHANGED frida
    BY <1>4, <2>1 DEF CopyFrida, ServersStay, FilesStay
  <2>2. CASE /\ cache[job[p].key] # "none"
             /\ frida' = [frida EXCEPT ![InstOf[p]] = [is |-> cache[job[p].key], key |-> job[p].key]]
    <3>1. job[p].key \in FridaKeys /\ job[p].key \in Keys
      BY <1>4 DEF CopyFrida, At, TypeInv, JobOK, Keys
    <3>2. cache[job[p].key] \in Whole
      BY <2>2, <3>1, ArtifactsAssumption DEF TypeInv, MayBeCut, ModKeys, Contents
    <3> QED
      BY <1>4, <2>2, <3>2 DEF CopyFrida, ServersStay, FilesStay, TypeInv
  <2> QED
    BY <1>4, <2>1, <2>2 DEF CopyFrida
<1>5. ASSUME UNCHANGED <<cache, frida>> PROVE ServersStay /\ FilesStay
  BY <1>5 DEF ServersStay, FilesStay
<1>6. ASSUME NEW p \in Procs,
             \/ Begin(p) \/ StageLocal(p) \/ Reconcile(p) \/ ResolveFrida(p) \/ Lookup(p)
             \/ Fetch(p) \/ Verify(p) \/ NextModule(p) \/ OpenModule(p) \/ WriteModule(p) \/ WriteYaml(p) \/ Kill(p)
      PROVE  UNCHANGED <<cache, frida>>
  BY <1>6 DEF Begin, StageLocal, Reconcile, ResolveFrida, Lookup, Fetch, Verify, NextModule,
     OpenModule, WriteModule, WriteYaml, Kill
<1>7. ASSUME NEW k \in FridaKeys \cup Urls, Republish(k) PROVE UNCHANGED <<cache, frida>>
  BY <1>7 DEF Republish
<1> QED
  BY <1>1, <1>2, <1>3, <1>4, <1>5, <1>6, <1>7, <1>8 DEF Next, Command

\* While frida stays configured no failed or killed command takes a working
\* server away (_stage_local, #165), and the user's own module files outside
\* modules/ are never deleted or overwritten (_resolve), for any number of
\* commands of which no two work on one instance: the check of _stage_local and
\* its placeholder are two steps.
THEOREM LosesNothing == Spec => NothingLost
<1>1. TypeInv /\ StubInv /\ [Next]_vars => [ServersStay]_vars /\ [FilesStay]_vars
  BY StepsKeep
<1>3. Init => StubInv
  BY IdleJob DEF Init, StubInv, StubOK
<1>2. Spec => [][ServersStay]_vars /\ [][FilesStay]_vars
  BY <1>1, <1>3, InitTypes, InductiveTypes, InductiveStub, PTL DEF Spec
<1> QED
  BY <1>2 DEF NothingLost, FridaKept, UserFilesKept
-----------------------------------------------------------------------------
(* An apply that returns, one command at a time on an instance.            *)

Wanted(i) == <<"frida", ResolveVersion(Cfg[i].ver), ResolveArch(Cfg[i].binder)>>

ServerDone(i) == /\ Cfg[i].ver = "none" => frida[i] = Empty
                 /\ Cfg[i].ver # "none" => frida[i].is \in Whole /\ frida[i].key = Wanted(i)

\* The modules: of an instance are being staged.
AtModules(j) == \/ j.pc \in {"next", "open", "write"}
                \/ j.pc \in FetchSteps /\ j.at # 0

\* The modules before the current one lie in modules/, each under a name of its
\* own, and nothing else does; only the current one may be half written.
ModulesSoFar(j, ms) ==
  /\ DOMAIN ms = j.used
  /\ \A n \in DOMAIN j.list : n < j.at => \E d \in DOMAIN ms : ms[d].key = j.list[n].key
  /\ \A d \in DOMAIN ms :
       /\ \E n \in DOMAIN j.list : ms[d].key = j.list[n].key
       /\ ms[d].key \notin MayBeCut => ms[d].is \in Whole \/ (j.pc = "write" /\ d = j.dst)
  /\ j.pc # "next" => j.key = j.list[j.at].key
  /\ j.pc = "write" => j.dst \in DOMAIN ms /\ ms[j.dst].key = j.key

\* How far a command has got with its instance.
Progress(p) ==
  LET j == job[p] i == InstOf[p] IN
  /\ j.verb = "apply" /\ j.pc # "idle" => j.list = entries[i]
  /\ j.verb = "apply" /\ j.pc = "resolve" => Cfg[i].ver # "none"
  /\ j.pc = "copyFrida" \/ (j.pc \in FetchSteps /\ j.at = 0) =>
       j.key = Wanted(i) /\ (j.verb = "apply" => Cfg[i].ver # "none")
  /\ j.pc = "reconcile" /\ Cfg[i].ver = "none" => frida[i] = Empty
  /\ j.verb = "apply" /\ j.via = "redroid" /\ (j.pc = "wipe" \/ AtModules(j)) => ServerDone(i)
  /\ AtModules(j) => ModulesSoFar(j, mods[i])

\* The instance is as its config asks.
Complete(i) ==
  /\ applied[i] = "redroid" => ServerDone(i)
  /\ \A n \in DOMAIN entries[i] : \E d \in DOMAIN mods[i] : mods[i][d].key = entries[i][n].key
  /\ \A d \in DOMAIN mods[i] :
       /\ mods[i][d].key \notin MayBeCut => mods[i][d].is \in Whole
       /\ \E n \in DOMAIN entries[i] : mods[i][d].key = entries[i][n].key

Settled(i) == applied[i] # "no" => Complete(i) /\ \A p \in Procs : InstOf[p] = i => At(p, "idle")

StagingInv == (\A p \in Procs : Progress(p)) /\ (\A i \in Insts : Settled(i))

\* What the command has done so far is kept while others work elsewhere.
LEMMA OthersKeep ==
  ASSUME TypeInv, StagingInv, NEW p \in Procs, Command(p) \/ Kill(p),
         Progress(p)', Settled(InstOf[p])'
  PROVE  StagingInv'
<1>1. ASSUME NEW q \in Procs, q # p PROVE Progress(q)'
  <2>1. InstOf[q] \in Insts \ {InstOf[p]}
    BY <1>1, SharingAssumption, ArtifactsAssumption
  <2>2. /\ job'[q] = job[q] /\ frida'[InstOf[q]] = frida[InstOf[q]]
        /\ mods'[InstOf[q]] = mods[InstOf[q]] /\ entries'[InstOf[q]] = entries[InstOf[q]]
        /\ UNCHANGED host
    BY <1>1, <2>1, OwnInstance
  <2> QED
    BY <2>2 DEF StagingInv, Progress, ServerDone, Wanted, ResolveVersion, ResolveArch, host
<1>2. ASSUME NEW i \in Insts, i # InstOf[p] PROVE Settled(i)'
  <2>1. /\ frida'[i] = frida[i] /\ mods'[i] = mods[i] /\ entries'[i] = entries[i]
        /\ applied'[i] = applied[i] /\ UNCHANGED host
        /\ \A q \in Procs : InstOf[q] = i => job'[q] = job[q]
    BY <1>2, OwnInstance
  <2>2. ServerDone(i)' <=> ServerDone(i)
    BY <2>1 DEF ServerDone, Wanted, ResolveVersion, ResolveArch, host
  <2>3. Complete(i) => Complete(i)'
    BY <2>1, <2>2 DEF Complete
  <2>4. Settled(i)
    BY DEF StagingInv
  <2> QED
    BY <2>1, <2>3, <2>4 DEF Settled, At
<1> QED
  BY <1>1, <1>2 DEF StagingInv

\* A command that stops before its end leaves nothing applied.
LEMMA FailProgress ==
  ASSUME TypeInv, StagingInv, NEW p \in Procs, job[p].pc # "idle", Fail(p)
  PROVE  Progress(p)' /\ Settled(InstOf[p])'
<1>1. job'[p].pc = "idle"
  BY IdleJob DEF Fail, To, TypeInv
<1>2. applied[InstOf[p]] = "no" /\ applied' = applied
  BY ArtifactsAssumption DEF StagingInv, Settled, At, Fail
<1> QED
  BY <1>1, <1>2 DEF Progress, Settled, AtModules, FetchSteps

\* The same for a return that has not staged the whole instance.
LEMMA DoneProgress ==
  ASSUME TypeInv, NEW p \in Procs, Done(p, FALSE)
  PROVE  Progress(p)' /\ Settled(InstOf[p])'
<1>1. job'[p].pc = "idle"
  BY IdleJob DEF Done, To, TypeInv
<1>2. applied'[InstOf[p]] = "no"
  BY ArtifactsAssumption DEF Done, TypeInv
<1> QED
  BY <1>1, <1>2 DEF Progress, Settled, AtModules, FetchSteps

\* A step in the middle of a call: nothing is applied, before or after.
LEMMA Unapplied ==
  ASSUME TypeInv, StagingInv, NEW p \in Procs, job[p].pc # "idle", UNCHANGED applied
  PROVE  Settled(InstOf[p])'
BY ArtifactsAssumption DEF StagingInv, Settled, At
\* The steps before the first module.
LEMMA ServerProgress ==
  ASSUME TypeInv, StagingInv, NEW p \in Procs,
         \/ Begin(p) \/ StageLocal(p) \/ StageEmpty(p) \/ Reconcile(p) \/ ResolveFrida(p)
         \/ CopyFrida(p)
  PROVE  Progress(p)' /\ Settled(InstOf[p])'
<1>0. InstOf[p] \in Insts /\ job[p] \in Jobs /\ JobOK(job[p]) /\ Progress(p)
  BY ArtifactsAssumption DEF TypeInv, StagingInv
<1>1. CASE Begin(p)
  <2>1. applied'[InstOf[p]] = "no" /\ entries' = entries
    BY <1>0, <1>1 DEF Begin, TypeInv
  <2>2. job'[p].pc \in {"local", "resolve", "wipe"}
    BY <1>1, BeginJob
  <2>3. job'[p].verb = "apply" => /\ job'[p].list = entries[InstOf[p]] /\ job'[p].pc # "resolve"
                                  /\ job'[p].via = "redroid" => job'[p].pc = "local"
    BY <1>1, BeginJob
  <2> QED
    BY <2>1, <2>2, <2>3 DEF Progress, Settled, AtModules, FetchSteps
<1>2. CASE StageLocal(p)
  <2>1. /\ job'[p].pc \in {"stub", "reconcile"}
        /\ Cfg[InstOf[p]].ver = "none" => job'[p].pc = "stub"
        /\ job'[p].verb = job[p].verb /\ job'[p].list = job[p].list
        /\ job[p].pc = "local" /\ entries' = entries /\ applied' = applied
    BY <1>0, <1>2 DEF StageLocal, At, To, TypeInv, Jobs
  <2>2. Settled(InstOf[p])'
    BY <2>1, Unapplied
  <2> QED
    BY <1>0, <2>1, <2>2 DEF Progress, AtModules, FetchSteps
<1>5. CASE StageEmpty(p)
  <2>1. /\ job'[p].pc = "reconcile" /\ job'[p].verb = job[p].verb /\ job'[p].list = job[p].list
        /\ job[p].pc = "stub" /\ entries' = entries /\ applied' = applied
    BY <1>0, <1>5 DEF StageEmpty, At, To, TypeInv, Jobs
  <2>2. frida'[InstOf[p]] = Empty
    BY <1>0, <1>5 DEF StageEmpty, TypeInv
  <2>3. Settled(InstOf[p])'
    BY <2>1, Unapplied
  <2> QED
    BY <1>0, <2>1, <2>2, <2>3 DEF Progress, AtModules, FetchSteps
<1>6. CASE Reconcile(p)
  <2>1. /\ job'[p].pc = (IF Cfg[InstOf[p]].ver = "none" THEN "wipe" ELSE "resolve")
        /\ job'[p].verb = job[p].verb /\ job'[p].list = job[p].list
        /\ job[p].pc = "reconcile" /\ entries' = entries /\ applied' = applied
        /\ frida' = frida
    BY <1>0, <1>6 DEF Reconcile, At, To, TypeInv, Jobs
  <2>2. Settled(InstOf[p])'
    BY <2>1, Unapplied
  <2> QED
    BY <1>0, <2>1, <2>2 DEF Progress, AtModules, FetchSteps, ServerDone
<1>3. CASE ResolveFrida(p)
  <2>1. CASE Fail(p)
    BY <1>3, <2>1, FailProgress DEF ResolveFrida, At
  <2>2. CASE ~Fail(p)
    <3>1. PICK pin : To(p, [job[p] EXCEPT !.pc = "lookup", !.at = 0, !.key = Wanted(InstOf[p]),
                                          !.pin = pin])
      BY <1>3, <2>2 DEF ResolveFrida, Wanted
    <3>2. /\ job'[p].pc = "lookup" /\ job'[p].at = 0 /\ job'[p].key = Wanted(InstOf[p])
          /\ job'[p].verb = job[p].verb /\ job'[p].list = job[p].list
      BY <1>0, <3>1 DEF To, TypeInv, Jobs
    <3>3. /\ job[p].pc = "resolve" /\ entries' = entries /\ applied' = applied
          /\ Wanted(InstOf[p])' = Wanted(InstOf[p])
      BY <1>3, <2>2 DEF ResolveFrida, At, Wanted, ResolveVersion, ResolveArch, host, env, host
    <3>4. Settled(InstOf[p])'
      BY <3>3, Unapplied
    <3> QED
      BY <1>0, <3>2, <3>3, <3>4 DEF Progress, AtModules, FetchSteps
  <2> QED
    BY <2>1, <2>2
<1>4. CASE CopyFrida(p)
  <2>1. CASE Fail(p)
    BY <1>4, <2>1, FailProgress DEF CopyFrida, At
  <2>2. CASE Done(p, FALSE)
    BY <1>4, <2>2, DoneProgress DEF CopyFrida
  <2>3. CASE /\ To(p, [job[p] EXCEPT !.pc = "wipe"]) /\ UNCHANGED applied
             /\ cache[job[p].key] # "none"
             /\ frida' = [frida EXCEPT ![InstOf[p]] = [is |-> cache[job[p].key], key |-> job[p].key]]
    <3>1. /\ job'[p].pc = "wipe" /\ job'[p].verb = job[p].verb /\ job'[p].list = job[p].list
      BY <1>0, <2>3 DEF To, TypeInv, Jobs
    <3>2. /\ job[p].pc = "copyFrida" /\ entries' = entries /\ applied' = applied
          /\ Wanted(InstOf[p])' = Wanted(InstOf[p])
      BY <1>4, <2>3 DEF CopyFrida, At, Wanted, ResolveVersion, ResolveArch, host, env, host
    <3>a. job[p].key \in FridaKeys /\ job[p].key \in Keys /\ cache[job[p].key] # "none"
      BY <1>0, <1>4, <2>3 DEF JobOK, CopyFrida, At, Keys
    <3>b. cache[job[p].key] \in Whole
      BY <3>a, ArtifactsAssumption DEF TypeInv, MayBeCut, ModKeys, Contents
    <3>3. frida'[InstOf[p]].key = job[p].key /\ frida'[InstOf[p]].is \in Whole
      BY <1>0, <2>3, <3>b DEF TypeInv
    <3>4. Settled(InstOf[p])'
      BY <3>2, Unapplied
    <3> QED
      BY <1>0, <3>1, <3>2, <3>3, <3>4 DEF Progress, AtModules, FetchSteps, ServerDone
  <2> QED
    BY <1>4, <2>1, <2>2, <2>3 DEF CopyFrida
<1> QED
  BY <1>1, <1>2, <1>3, <1>4, <1>5, <1>6

\* The fetch of what the command has in hand.
LEMMA FetchProgress ==
  ASSUME TypeInv, StagingInv, NEW p \in Procs,
         Lookup(p) \/ Fetch(p) \/ Publish(p) \/ Verify(p) \/ Evict(p) \/ Kill(p)
  PROVE  Progress(p)' /\ Settled(InstOf[p])'
<1>0. InstOf[p] \in Insts /\ job[p] \in Jobs /\ JobOK(job[p]) /\ Progress(p)
  BY ArtifactsAssumption DEF TypeInv, StagingInv
<1>1. job[p].pc # "idle"
  BY DEF Lookup, Fetch, Publish, Verify, Evict, Kill, At
<1>2. CASE Fail(p)
  BY <1>1, <1>2, FailProgress
<1>3. ASSUME ~Fail(p) PROVE Progress(p)' /\ Settled(InstOf[p])'
  <2>1. /\ UNCHANGED <<frida, mods, entries, applied, host>>
        /\ job[p].pc \in FetchSteps
        /\ \E s, t : /\ job' = [job EXCEPT ![p] = [job[p] EXCEPT !.pc = s, !.tmp = t]]
                     /\ s \in FetchSteps \/ s = CopyStep(p)
    <3>1. CASE Lookup(p) \/ Publish(p) \/ Verify(p)
      <4>1. PICK s : /\ job' = [job EXCEPT ![p] = [job[p] EXCEPT !.pc = s]]
                     /\ s \in FetchSteps \/ s = CopyStep(p)
        BY <1>3, <3>1 DEF Lookup, Publish, Verify, To, FetchSteps
      <4>2. [job[p] EXCEPT !.pc = s] = [job[p] EXCEPT !.pc = s, !.tmp = job[p].tmp]
        BY <1>0 DEF Jobs
      <4> QED
        BY <1>3, <3>1, <4>1, <4>2 DEF Lookup, Publish, Verify, At, FetchSteps, env, host
    <3>2. CASE Fetch(p)
      BY <1>3, <3>2 DEF Fetch, At, To, FetchSteps, env, host
    <3>3. CASE Evict(p) \/ Kill(p)
      BY <1>3, <3>3 DEF Evict, Kill
    <3> QED
      BY <3>1, <3>2, <3>3
  <2>2. PICK s, t : /\ job' = [job EXCEPT ![p] = [job[p] EXCEPT !.pc = s, !.tmp = t]]
                    /\ s \in FetchSteps \/ s = CopyStep(p)
    BY <2>1
  <2>3. /\ job'[p].pc = s /\ job'[p].at = job[p].at /\ job'[p].key = job[p].key
        /\ job'[p].verb = job[p].verb /\ job'[p].list = job[p].list
        /\ job'[p].used = job[p].used /\ job'[p].dst = job[p].dst /\ job'[p].via = job[p].via
    BY <1>0, <2>2 DEF TypeInv, Jobs
  <2>4. Wanted(InstOf[p])' = Wanted(InstOf[p]) /\ (ServerDone(InstOf[p])' <=> ServerDone(InstOf[p]))
    BY <2>1 DEF Wanted, ResolveVersion, ResolveArch, host, ServerDone
  <2>5. Settled(InstOf[p])'
    BY <1>1, <2>1, Unapplied
  <2>6. CASE job[p].at = 0
    <3>1. s \in FetchSteps \/ s = "copyFrida"
      BY <2>2, <2>6 DEF CopyStep
    <3>2. ~AtModules(job'[p]) /\ job'[p].pc \notin {"wipe", "resolve", "reconcile"}
      BY <2>3, <2>6, <3>1 DEF AtModules, FetchSteps
    <3> QED
      BY <1>0, <1>1, <2>1, <2>3, <2>4, <2>5, <2>6, <3>2 DEF Progress
  <2>7. CASE job[p].at # 0
    <3>1. s \in FetchSteps \/ s = "open"
      BY <2>2, <2>7 DEF CopyStep
    <3>2. AtModules(job[p]) /\ job[p].pc \notin {"next", "write"} /\ s \notin {"next", "write"}
      BY <2>1, <2>7, <3>1 DEF AtModules, FetchSteps
    <3>3. ModulesSoFar(job'[p], mods'[InstOf[p]])
      <4>1. ModulesSoFar(job[p], mods[InstOf[p]])
        BY <1>0, <3>2 DEF Progress
      <4> QED
        BY <2>1, <2>3, <3>2, <4>1 DEF ModulesSoFar
    <3>4. job'[p].pc \notin {"wipe", "resolve", "reconcile", "copyFrida"} /\ job'[p].at # 0
      BY <2>3, <2>7, <3>1 DEF FetchSteps
    <3> QED
      BY <1>0, <1>1, <2>1, <2>3, <2>4, <2>5, <3>2, <3>3, <3>4 DEF Progress
  <2> QED
    BY <2>6, <2>7
<1> QED
  BY <1>2, <1>3
\* The modules, one by one.
LEMMA ModuleProgress ==
  ASSUME TypeInv, StagingInv, NEW p \in Procs,
         Wipe(p) \/ NextModule(p) \/ OpenModule(p) \/ WriteModule(p) \/ WriteYaml(p)
  PROVE  Progress(p)' /\ Settled(InstOf[p])'
<1> DEFINE i == InstOf[p]
<1>0. i \in Insts /\ job[p] \in Jobs /\ JobOK(job[p]) /\ Progress(p)
  BY ArtifactsAssumption DEF TypeInv, StagingInv
<1>1. job[p].pc # "idle"
  BY DEF Wipe, NextModule, OpenModule, WriteModule, WriteYaml, At
<1>2. UNCHANGED <<frida, host>>
  BY DEF Wipe, NextModule, OpenModule, WriteModule, WriteYaml, env, host
<1>3. Wanted(i)' = Wanted(i) /\ (ServerDone(i)' <=> ServerDone(i))
  BY <1>2 DEF Wanted, ResolveVersion, ResolveArch, host, ServerDone
<1>4. job[p].list \in Seq(Modules) /\ job[p].at \in Nat
  BY <1>0 DEF Jobs
<1>5. CASE Wipe(p)
  <2>1. job'[p] = [job[p] EXCEPT !.pc = "next", !.at = 1, !.used = {}]
    BY <1>5 DEF Wipe, To, TypeInv
  <2>2. /\ job'[p].pc = "next" /\ job'[p].at = 1 /\ job'[p].used = {} /\ job'[p].via = job[p].via
        /\ job'[p].verb = job[p].verb /\ job'[p].list = job[p].list
    BY <1>0, <2>1 DEF Jobs
  <2>3. /\ job[p].pc = "wipe" /\ UNCHANGED <<applied, entries>> /\ DOMAIN mods'[i] = {}
    BY <1>0, <1>5 DEF Wipe, At, TypeInv
  <2>4. ModulesSoFar(job'[p], mods'[i])
    BY <1>4, <2>2, <2>3 DEF ModulesSoFar
  <2>5. Settled(i)'
    BY <1>1, <2>3, Unapplied
  <2> QED
    BY <1>0, <1>3, <2>2, <2>3, <2>4, <2>5 DEF Progress, FetchSteps
<1>6. CASE NextModule(p)
  <2>1. job[p].pc = "next" /\ ModulesSoFar(job[p], mods[i]) /\ UNCHANGED <<mods, entries>>
    BY <1>0, <1>6 DEF NextModule, At, Progress, AtModules
  <2>2. CASE Done(p, TRUE) /\ job[p].verb = "apply" /\ job[p].at > Len(job[p].list)
    <3>1. job'[p].pc = "idle" /\ \A q \in Procs : InstOf[q] = i => q = p
      BY <2>2, IdleJob, SharingAssumption DEF Done, To, TypeInv
    <3>2. job[p].list = entries[i] /\ (job[p].via = "redroid" => ServerDone(i))
      BY <1>0, <2>1, <2>2 DEF Progress, AtModules
    <3>5. applied'[i] = "redroid" => job[p].via = "redroid"
      BY <1>0, <2>2 DEF Done, TypeInv
    <3>3. \A n \in DOMAIN entries[i] : n < job[p].at
      BY <1>4, <2>2, <3>2
    <3>4. Complete(i)'
      BY <1>3, <2>1, <3>2, <3>3, <3>5 DEF Complete, ModulesSoFar
    <3> QED
      BY <3>1, <3>4 DEF Progress, Settled, At, AtModules, FetchSteps
  <2>3. CASE /\ job[p].at <= Len(job[p].list) /\ UNCHANGED <<applied, added>>
             /\ To(p, [job[p] EXCEPT !.pc = "lookup", !.key = job[p].list[job[p].at].key,
                                     !.pin = job[p].list[job[p].at].pin, !.tmp = "none"])
    <3>1. PICK pin : job'[p] = [job[p] EXCEPT !.pc = "lookup", !.key = job[p].list[job[p].at].key,
                                              !.pin = pin, !.tmp = "none"]
      BY <2>3 DEF To, TypeInv
    <3>2. /\ job'[p].pc = "lookup" /\ job'[p].key = job[p].list[job[p].at].key
          /\ job'[p].at = job[p].at /\ job'[p].used = job[p].used /\ job'[p].via = job[p].via
          /\ job'[p].verb = job[p].verb /\ job'[p].list = job[p].list
      BY <1>0, <3>1 DEF Jobs
    <3>3. job[p].at # 0
      BY <1>0, <2>1 DEF JobOK
    <3>4. ModulesSoFar(job'[p], mods'[i])
      BY <2>1, <3>2 DEF ModulesSoFar
    <3>5. Settled(i)'
      BY <1>1, <2>3, Unapplied
    <3> QED
      BY <1>0, <1>3, <2>1, <3>2, <3>3, <3>4, <3>5 DEF Progress, AtModules, FetchSteps
  <2>4. CASE /\ job[p].verb = "add" /\ To(p, [job[p] EXCEPT !.pc = "yaml"])
             /\ UNCHANGED <<applied, added>>
    <3>1. job'[p] = [job[p] EXCEPT !.pc = "yaml"]
      BY <2>4 DEF To, TypeInv
    <3>2. job'[p].pc = "yaml" /\ job'[p].verb = "add"
      BY <1>0, <2>4, <3>1 DEF Jobs
    <3>3. Settled(i)'
      BY <1>1, <2>4, Unapplied
    <3> QED
      BY <3>2, <3>3 DEF Progress, AtModules, FetchSteps
  <2> QED
    BY <1>6, <2>2, <2>3, <2>4 DEF NextModule
<1>7. CASE OpenModule(p)
  <2>1. CASE cache[job[p].key] = "none"
    BY <1>1, <1>7, <2>1, FailProgress DEF OpenModule
  <2>2. CASE cache[job[p].key] # "none"
    <3> DEFINE d == DestName(BaseName[job[p].key], job[p].used, job[p].at - 1)
    <3>1. job[p].pc = "open" /\ ModulesSoFar(job[p], mods[i]) /\ job[p].at \in 1..Len(job[p].list)
      BY <1>0, <1>7 DEF OpenModule, At, Progress, AtModules, JobOK
    <3>2. d \notin job[p].used
      <4>1. BaseName[job[p].key] \in Seq(Int) /\ job[p].at - 1 \in Int
        BY <1>0, <1>4, <3>1, ArtifactsAssumption DEF JobOK
      <4> QED
        BY <1>0, <4>1, DestFresh DEF JobOK
    <3>3. /\ mods' = [mods EXCEPT ![i] = Put(mods[i], d, [is |-> "part", key |-> job[p].key])]
          /\ job' = [job EXCEPT ![p] = [job[p] EXCEPT !.pc = "write", !.tmp = cache[job[p].key],
                                          !.dst = d, !.used = job[p].used \cup {d}]]
          /\ UNCHANGED <<applied, entries>>
      BY <1>7, <2>2 DEF OpenModule, To
    <3> HIDE DEF d
    <3>4. /\ job'[p].pc = "write" /\ job'[p].dst = d /\ job'[p].used = job[p].used \cup {d}
          /\ job'[p].at = job[p].at /\ job'[p].key = job[p].key /\ job'[p].via = job[p].via
          /\ job'[p].verb = job[p].verb /\ job'[p].list = job[p].list
      BY <1>0, <3>3 DEF Jobs, TypeInv
    <3>5. /\ DOMAIN mods'[i] = DOMAIN mods[i] \cup {d} /\ mods'[i][d].key = job[p].key
          /\ \A x \in DOMAIN mods[i] : mods'[i][x] = mods[i][x]
      BY <1>0, <3>1, <3>2, <3>3 DEF Put, TypeInv, ModulesSoFar
    <3>6. job[p].key = job[p].list[job[p].at].key /\ job[p].at \in DOMAIN job[p].list
      BY <1>4, <3>1 DEF ModulesSoFar
    <3>7. ModulesSoFar(job'[p], mods'[i])
      <4>1. \A n \in DOMAIN job'[p].list : n < job'[p].at =>
              \E x \in DOMAIN mods'[i] : mods'[i][x].key = job'[p].list[n].key
        BY <3>1, <3>4, <3>5 DEF ModulesSoFar
      <4>2. \A x \in DOMAIN mods'[i] :
              /\ \E n \in DOMAIN job'[p].list : mods'[i][x].key = job'[p].list[n].key
              /\ mods'[i][x].key \notin MayBeCut => mods'[i][x].is \in Whole \/ x = job'[p].dst
        BY <3>1, <3>4, <3>5, <3>6 DEF ModulesSoFar
      <4> QED
        BY <3>1, <3>4, <3>5, <3>6, <4>1, <4>2 DEF ModulesSoFar
    <3>8. Settled(i)'
      BY <1>1, <3>3, Unapplied
    <3> QED
      BY <1>0, <1>3, <3>1, <3>3, <3>4, <3>7, <3>8 DEF Progress, AtModules, FetchSteps
  <2> QED
    BY <2>1, <2>2
<1>8. CASE WriteModule(p)
  <2>1. /\ job[p].pc = "write" /\ ModulesSoFar(job[p], mods[i]) /\ job[p].at \in 1..Len(job[p].list)
        /\ job[p].tmp \in {"part"} \cup Whole
        /\ job[p].key \notin MayBeCut => job[p].tmp \in Whole
    BY <1>0, <1>8 DEF WriteModule, At, Progress, AtModules, JobOK
  <2>2. job[p].dst \in DOMAIN mods[i] /\ mods[i][job[p].dst].key = job[p].key
    BY <2>1 DEF ModulesSoFar
  <2>3. /\ mods' = [mods EXCEPT ![i][job[p].dst].is = job[p].tmp]
        /\ job' = [job EXCEPT ![p] = [job[p] EXCEPT !.pc = "next", !.at = job[p].at + 1]]
        /\ UNCHANGED <<applied, entries>>
    BY <1>8, <2>2 DEF WriteModule, To
  <2>4. PICK n \in Nat : n = job[p].at + 1
    BY <1>4
  <2>5. /\ job'[p].pc = "next" /\ job'[p].at = n /\ job'[p].used = job[p].used
        /\ job'[p].via = job[p].via /\ job'[p].verb = job[p].verb /\ job'[p].list = job[p].list
    BY <1>0, <2>3, <2>4 DEF Jobs, TypeInv
  <2>6. /\ DOMAIN mods'[i] = DOMAIN mods[i] /\ mods'[i][job[p].dst].key = job[p].key
        /\ mods'[i][job[p].dst].is = job[p].tmp
        /\ \A x \in DOMAIN mods[i] : x # job[p].dst => mods'[i][x] = mods[i][x]
    <3>1. mods[i][job[p].dst] \in StagedFiles
      BY <1>0, <2>2 DEF TypeInv
    <3>2. mods'[i] = [mods[i] EXCEPT ![job[p].dst] = [mods[i][job[p].dst] EXCEPT !.is = job[p].tmp]]
      BY <1>0, <2>3 DEF TypeInv
    <3>3. /\ DOMAIN mods'[i] = DOMAIN mods[i]
          /\ mods'[i][job[p].dst] = [mods[i][job[p].dst] EXCEPT !.is = job[p].tmp]
          /\ \A x \in DOMAIN mods[i] : x # job[p].dst => mods'[i][x] = mods[i][x]
      BY <2>2, <3>2
    <3> QED
      BY <2>2, <3>1, <3>3 DEF StagedFiles
  <2>7. ModulesSoFar(job'[p], mods'[i])
    <3>1. \A x \in DOMAIN mods[i] : mods'[i][x].key = mods[i][x].key
      BY <2>2, <2>6
    <3>2. \A m \in DOMAIN job[p].list : m < n => m < job[p].at \/ m = job[p].at
      BY <1>4, <2>4
    <3>3. \A m \in DOMAIN job[p].list : m < n => \E x \in DOMAIN mods'[i] : mods'[i][x].key = job[p].list[m].key
      BY <2>1, <2>2, <2>6, <3>1, <3>2 DEF ModulesSoFar
    <3>4. \A x \in DOMAIN mods'[i] : mods'[i][x].key \notin MayBeCut => mods'[i][x].is \in Whole
      <4>1. job[p].key \notin MayBeCut => job[p].tmp \in Whole
        BY <2>1
      <4> QED
        BY <2>1, <2>6, <4>1 DEF ModulesSoFar
    <3>5. \A x \in DOMAIN mods'[i] : \E m \in DOMAIN job[p].list : mods'[i][x].key = job[p].list[m].key
      BY <2>1, <2>6, <3>1 DEF ModulesSoFar
    <3>6. DOMAIN mods'[i] = job'[p].used
      BY <2>1, <2>5, <2>6 DEF ModulesSoFar
    <3> QED
      BY <2>5, <3>3, <3>4, <3>5, <3>6 DEF ModulesSoFar
  <2>8. Settled(i)'
    BY <1>1, <2>3, Unapplied
  <2> QED
    BY <1>0, <1>3, <2>1, <2>3, <2>5, <2>7, <2>8 DEF Progress, AtModules, FetchSteps
<1>9. CASE WriteYaml(p)
  BY <1>9, DoneProgress DEF WriteYaml
<1> QED
  BY <1>5, <1>6, <1>7, <1>8, <1>9

\* One command on an instance at a time: the progress of each, and what the
\* last one left, after every step.
LEMMA InductiveStaging == TypeInv /\ StagingInv /\ [Next]_vars => StagingInv'
<1> SUFFICES ASSUME TypeInv, StagingInv, [Next]_vars PROVE StagingInv'
  OBVIOUS
<1>1. ASSUME NEW p \in Procs, Command(p) \/ Kill(p) PROVE StagingInv'
  <2>1. Progress(p)' /\ Settled(InstOf[p])'
    BY <1>1, ServerProgress, FetchProgress, ModuleProgress DEF Command
  <2> QED
    BY <1>1, <2>1, OthersKeep
<1>2. ASSUME UNCHANGED <<host, frida, mods, entries, job, applied>> PROVE StagingInv'
  <2>1. \A i \in Insts : ServerDone(i)' <=> ServerDone(i)
    BY <1>2 DEF ServerDone, Wanted, ResolveVersion, ResolveArch, host
  <2>2. \A i \in Insts : Wanted(i)' = Wanted(i)
    BY <1>2 DEF Wanted, ResolveVersion, ResolveArch, host
  <2>3. \A p \in Procs : Progress(p)'
    BY <1>2, <2>1, <2>2, ArtifactsAssumption DEF StagingInv, Progress
  <2>4. \A i \in Insts : Settled(i)'
    BY <1>2, <2>1 DEF StagingInv, Settled, Complete, At
  <2> QED
    BY <2>3, <2>4 DEF StagingInv
<1>3. CASE UNCHANGED vars
  BY <1>2, <1>3 DEF vars
<1>4. ASSUME NEW k \in FridaKeys \cup Urls, Republish(k) PROVE StagingInv'
  BY <1>2, <1>4 DEF Republish
<1> QED
  BY <1>1, <1>3, <1>4 DEF Next

\* An apply that returns has staged, on the redroid backend, the server of the
\* version and architecture its config and BEETROOT_FRIDA_ARCH ask for, and on
\* both backends one file for every module under a name of its own, whole unless
\* its server tells no length, even when modules share a basename
\* (_unique_dest_name) and other instances fill and evict the shared caches.
THEOREM AppliesComplete == Spec => []AppliedComplete
<1>1. Init => StagingInv
  BY IdleJob DEF Init, StagingInv, Progress, Settled, AtModules, FetchSteps
<1>2. StagingInv => AppliedComplete
  BY DEF StagingInv, Settled, Complete, ServerDone, Wanted, ResolveArch, WantedServer, AppliedComplete
<1> QED
  BY <1>1, <1>2, InitTypes, InductiveTypes, InductiveStaging, PTL DEF Spec
-----------------------------------------------------------------------------
(* Pins, while the servers change only between commands ("shared").        *)

\* The steps at which a command has a cache key and the pin that goes with it.
PinSteps == FetchSteps \cup {"copyFrida", "open", "write"}

\* An apply of the list in beetroot.yaml, with the pin of the config at hand.
PinJob(p) ==
  LET j == job[p] IN
  /\ j.pc # "yaml" /\ (j.pc # "idle" => j.verb = "apply")
  /\ j.pc \in PinSteps => j.pin = IF j.at = 0 THEN Cfg[InstOf[p]].pin ELSE j.list[j.at].pin

\* About to replace or remove the cache entry.
Grabs == {"fetch", "publish", "evict"}

\* The verified file stays what the pin names, or goes, until it is copied:
\* either the server sends that very content, or nobody is about to touch it.
Held(p) ==
  LET j == job[p] IN
  /\ cache[j.key] \in {"none", "part", j.pin}
  /\ \/ j.key \notin Files /\ upstream[j.key] = j.pin
     \/ j.key \in Files
     \/ /\ cache[j.key] = j.pin
        /\ \A q \in Procs : job[q].key = j.key => job[q].pc \notin Grabs

CacheJob(p) ==
  LET j == job[p] IN
  /\ j.pc \in {"fetch", "publish"} => cache[j.key] \in {"none", "part", upstream[j.key]}
  /\ j.pc = "publish" => j.tmp \in {"part", upstream[j.key]}
  /\ j.pc = "evict" => /\ j.pin # "none"
                       /\ j.key \notin Files => j.pin # cache[j.key] \/ j.pin = upstream[j.key]
  /\ j.pc \in {"copyFrida", "open"} /\ j.pin # "none" => Held(p)
  /\ j.pc = "write" /\ j.pin # "none" => j.tmp \in {"part", j.pin}

PinInv ==
  /\ entries = FirstMods
  /\ \A p \in Procs : PinJob(p) /\ CacheJob(p)
  /\ StagedMatchesPin

SharedInv == scene = "shared" => PinInv

\* The pin at hand is the config's, and names the content of the key at hand.
LEMMA PinOf ==
  ASSUME TypeInv, StagingInv, PinInv, NEW p \in Procs, job[p].pc \in PinSteps
  PROVE  LET j == job[p] i == InstOf[p] IN
         /\ j.key \in Keys /\ j.pin \in Pins
         /\ \/ /\ j.at = 0 /\ j.key \in FridaKeys /\ j.pin = Cfg[i].pin
               /\ j.pin # "none" => \E a : j.key = <<"frida", Cfg[i].ver, a>>
            \/ /\ j.at # 0 /\ j.key \in ModKeys
               /\ \E n \in DOMAIN FirstMods[i] : FirstMods[i][n] = [key |-> j.key, pin |-> j.pin]
<1> DEFINE i == InstOf[p]
<1>0. i \in Insts /\ job[p] \in Jobs /\ JobOK(job[p]) /\ Progress(p) /\ PinJob(p)
  BY ArtifactsAssumption DEF TypeInv, StagingInv, PinInv
<1>1. job[p].verb = "apply" /\ job[p].pc # "idle" /\ job[p].pin \in Pins
  BY <1>0 DEF PinJob, PinSteps, FetchSteps, Jobs
<1>2. CASE job[p].at = 0
  <2>1. job[p].key \in FridaKeys /\ job[p].key = Wanted(i) /\ job[p].pin = Cfg[i].pin
    <3>1. job[p].pc \notin {"open", "write"}
      BY <1>0, <1>2 DEF JobOK
    <3> QED
      BY <1>0, <1>2, <3>1 DEF JobOK, Progress, PinJob, PinSteps
  <2>2. job[p].pin # "none" => Wanted(i) = <<"frida", Cfg[i].ver, ResolveArch(Cfg[i].binder)>>
    BY <1>0, <2>1, ArtifactsAssumption DEF Wanted, ResolveVersion, ResolveArch, host
  <2> QED
    BY <1>1, <1>2, <2>1, <2>2 DEF Keys
<1>3. CASE job[p].at # 0
  <2>1. job[p].key \in ModKeys /\ job[p].at \in 1..Len(job[p].list) /\ AtModules(job[p])
    BY <1>0, <1>3 DEF JobOK, PinSteps, AtModules
  <2>2. job[p].key = job[p].list[job[p].at].key
    <3>1. ModulesSoFar(job[p], mods[i]) /\ job[p].pc # "next"
      BY <1>0, <2>1 DEF Progress, PinSteps, FetchSteps
    <3> QED
      BY <3>1 DEF ModulesSoFar
  <2>3. job[p].list = FirstMods[i]
    BY <1>0, <1>1 DEF Progress, PinInv
  <2>4. FirstMods[i] \in Seq(Modules)
    BY <1>0, ArtifactsAssumption
  <2>5. job[p].at \in DOMAIN FirstMods[i] /\ FirstMods[i][job[p].at] \in Modules
    BY <2>1, <2>3, <2>4
  <2>6. job[p].pin = FirstMods[i][job[p].at].pin
    BY <1>0, <1>3, <2>3 DEF PinJob
  <2> QED
    BY <1>1, <1>3, <2>1, <2>2, <2>3, <2>5, <2>6 DEF Keys, Modules
<1> QED
  BY <1>2, <1>3

\* Two commands that pin one key pin it alike.
LEMMA PinsAgree ==
  ASSUME TypeInv, StagingInv, PinInv, NEW p \in Procs, NEW q \in Procs,
         job[p].pc \in PinSteps, job[q].pc \in PinSteps, job[p].key = job[q].key,
         job[p].pin # "none", job[q].pin # "none"
  PROVE  job[p].pin = job[q].pin
<1>0. InstOf[p] \in Insts /\ InstOf[q] \in Insts
  BY ArtifactsAssumption
<1>1. CASE job[p].key \in FridaKeys
  <2>1. job[p].key \notin ModKeys
    BY <1>1, ArtifactsAssumption
  <2>2. /\ job[p].pin = Cfg[InstOf[p]].pin /\ \E a : job[p].key = <<"frida", Cfg[InstOf[p]].ver, a>>
        /\ job[q].pin = Cfg[InstOf[q]].pin /\ \E a : job[q].key = <<"frida", Cfg[InstOf[q]].ver, a>>
    BY <2>1, PinOf
  <2>3. Cfg[InstOf[p]].ver = Cfg[InstOf[q]].ver
    <3>1. PICK a, b : <<"frida", Cfg[InstOf[p]].ver, a>> = <<"frida", Cfg[InstOf[q]].ver, b>>
      BY <2>2
    <3> QED
      BY <3>1
  <2> QED
    BY <1>0, <2>2, <2>3, SharingAssumption
<1>2. CASE job[p].key \notin FridaKeys
  <2>1. PICK m \in DOMAIN FirstMods[InstOf[p]] :
          FirstMods[InstOf[p]][m] = [key |-> job[p].key, pin |-> job[p].pin]
    BY <1>2, PinOf
  <2>2. PICK n \in DOMAIN FirstMods[InstOf[q]] :
          FirstMods[InstOf[q]][n] = [key |-> job[q].key, pin |-> job[q].pin]
    BY <1>2, PinOf
  <2> QED
    BY <1>0, <2>1, <2>2, SharingAssumption
<1> QED
  BY <1>1, <1>2

\* A step that leaves the cache alone and grabs no entry somebody holds
\* disturbs nobody else.
LEMMA OthersHold ==
  ASSUME TypeInv, PinInv, NEW p \in Procs, NEW r, To(p, r), UNCHANGED <<upstream, cache>>,
         job'[p].pc \in Grabs =>
           \/ job[p].pc \in Grabs /\ job'[p].key = job[p].key
           \/ \A q \in Procs : /\ q # p /\ job[q].pc \in {"copyFrida", "open"}
                               /\ job[q].pin # "none" /\ job[q].key = job'[p].key
                               => cache[job[q].key] # job[q].pin
  PROVE  \A q \in Procs : q # p => PinJob(q)' /\ CacheJob(q)'
<1> SUFFICES ASSUME NEW q \in Procs, q # p PROVE PinJob(q)' /\ CacheJob(q)'
  OBVIOUS
<1>1. job'[q] = job[q] /\ \A x \in Procs : x # p => job'[x] = job[x]
  BY DEF To, TypeInv
<1>2. PinJob(q) /\ CacheJob(q)
  BY DEF PinInv
<1>3. PinJob(q)'
  BY <1>1, <1>2 DEF PinJob
<1>4. ASSUME job[q].pc \in {"copyFrida", "open"}, job[q].pin # "none", Held(q) PROVE Held(q)'
  <2>1. CASE \/ job[q].key \notin Files /\ upstream[job[q].key] = job[q].pin
             \/ job[q].key \in Files
    BY <1>1, <1>4, <2>1 DEF Held
  <2>2. CASE /\ cache[job[q].key] = job[q].pin
             /\ \A x \in Procs : job[x].key = job[q].key => job[x].pc \notin Grabs
    <3>1. \A x \in Procs : job'[x].key = job[q].key => job'[x].pc \notin Grabs
      BY <1>1, <1>4, <2>2
    <3> QED
      BY <1>1, <1>4, <2>2, <3>1 DEF Held
  <2> QED
    BY <1>4, <2>1, <2>2 DEF Held
<1> QED
  BY <1>1, <1>2, <1>3, <1>4 DEF CacheJob

\* A command that has ended holds nothing.
LEMMA EndedPins ==
  ASSUME TypeInv, NEW p \in Procs, Fail(p) \/ \E s : Done(p, s)
  PROVE  PinJob(p)' /\ CacheJob(p)' /\ job'[p].pc = "idle"
<1>1. job'[p].pc = "idle"
  BY IdleJob DEF Fail, Done, To, TypeInv
<1> QED
  BY <1>1 DEF PinJob, CacheJob, PinSteps, FetchSteps
\* The steps up to the cache.
LEMMA StartPins ==
  ASSUME TypeInv, StagingInv, PinInv, NEW p \in Procs, job'[p].verb \in {"none", "apply"},
         \/ Begin(p) \/ StageLocal(p) \/ StageEmpty(p) \/ Reconcile(p) \/ ResolveFrida(p)
         \/ CopyFrida(p) \/ NextModule(p) \/ OpenModule(p) \/ WriteModule(p) \/ Kill(p)
  PROVE  \A q \in Procs : PinJob(q)' /\ CacheJob(q)'
<1>0. job[p] \in Jobs /\ JobOK(job[p]) /\ PinJob(p) /\ CacheJob(p)
  BY DEF TypeInv, PinInv
<1>1. PICK r : To(p, r) /\ UNCHANGED <<upstream, cache>>
  BY DEF Begin, Start, StageLocal, StageEmpty, Reconcile, ResolveFrida, CopyFrida, NextModule,
     OpenModule, WriteModule, Kill, Fail, Done, env, host
<1> SUFFICES PinJob(p)' /\ CacheJob(p)' /\ job'[p].pc \notin Grabs
  BY <1>1, OthersHold
<1>2. CASE Fail(p) \/ \E s : Done(p, s)
  BY <1>2, EndedPins DEF Grabs
<1>3. ASSUME job'[p].pc \in {"local", "stub", "reconcile", "resolve", "wipe", "next"}, job'[p].verb = "apply"
      PROVE  PinJob(p)' /\ CacheJob(p)' /\ job'[p].pc \notin Grabs
  BY <1>3 DEF PinJob, CacheJob, PinSteps, FetchSteps, Grabs
<1>4. CASE Begin(p)
  <2>2. job'[p].pc \in {"local", "resolve", "wipe"} /\ job'[p].verb = "apply"
    BY <1>4, BeginJob
  <2> QED
    BY <1>3, <2>2
<1>5. CASE StageLocal(p) \/ StageEmpty(p) \/ Reconcile(p)
  <2>1. PICK s \in {"stub", "reconcile", "wipe", "resolve"} : job'[p] = [job[p] EXCEPT !.pc = s]
    BY <1>5 DEF StageLocal, StageEmpty, Reconcile, To, TypeInv
  <2>2. job'[p].pc \in {"stub", "reconcile", "wipe", "resolve"} /\ job'[p].verb = "apply"
    BY <1>0, <1>5, <2>1 DEF StageLocal, StageEmpty, Reconcile, At, PinJob, Jobs
  <2> QED
    BY <1>3, <2>2
<1>6. CASE ResolveFrida(p) /\ ~Fail(p)
  <2>1. PICK k, c : /\ job'[p] = [job[p] EXCEPT !.pc = "lookup", !.at = 0, !.key = k, !.pin = c]
                    /\ c = Cfg[InstOf[p]].pin /\ job[p].verb = "apply"
    <3>1. job[p].verb = "apply"
      BY <1>0, <1>6 DEF ResolveFrida, At, PinJob
    <3>2. To(p, [job[p] EXCEPT !.pc = "lookup", !.at = 0, !.key = Wanted(InstOf[p]),
                              !.pin = Cfg[InstOf[p]].pin])
      BY <1>6, <3>1 DEF ResolveFrida, Wanted
    <3> QED
      BY <3>1, <3>2 DEF To, TypeInv
  <2>2. /\ job'[p].pc = "lookup" /\ job'[p].verb = "apply" /\ job'[p].at = 0
        /\ job'[p].pin = Cfg[InstOf[p]].pin
    BY <1>0, <2>1 DEF Jobs
  <2> QED
    BY <2>2 DEF PinJob, CacheJob, Grabs
<1>7. CASE CopyFrida(p) /\ ~Fail(p) /\ ~\E s : Done(p, s)
  <2>1. job'[p] = [job[p] EXCEPT !.pc = "wipe"]
    BY <1>7 DEF CopyFrida, To, TypeInv
  <2>2. job'[p].pc = "wipe" /\ job'[p].verb = "apply"
    BY <1>0, <1>7, <2>1 DEF CopyFrida, At, PinJob, Jobs
  <2> QED
    BY <1>3, <2>2
<1>9. CASE NextModule(p) /\ ~\E s : Done(p, s)
  <2>1. job[p].verb = "apply" /\ job[p].at # 0
    BY <1>0, <1>9 DEF NextModule, At, PinJob, JobOK
  <2>2. job'[p] = [job[p] EXCEPT !.pc = "lookup", !.key = job[p].list[job[p].at].key,
                                 !.pin = job[p].list[job[p].at].pin, !.tmp = "none"]
    BY <1>9, <2>1 DEF NextModule, To, TypeInv
  <2>3. /\ job'[p].pc = "lookup" /\ job'[p].verb = "apply" /\ job'[p].at = job[p].at
        /\ job'[p].list = job[p].list /\ job'[p].pin = job[p].list[job[p].at].pin
    BY <1>0, <2>1, <2>2 DEF Jobs
  <2> QED
    BY <2>1, <2>3 DEF PinJob, CacheJob, Grabs
<1>10. CASE OpenModule(p) /\ ~Fail(p)
  <2>1. job[p].pc = "open" /\ cache[job[p].key] # "none" /\ job[p].verb = "apply"
    BY <1>0, <1>10 DEF OpenModule, At, PinJob
  <2>2. PICK t, d, u : /\ job'[p] = [job[p] EXCEPT !.pc = "write", !.tmp = t, !.dst = d, !.used = u]
                       /\ t = cache[job[p].key]
    <3> DEFINE e == DestName(BaseName[job[p].key], job[p].used, job[p].at - 1)
    <3>1. To(p, [job[p] EXCEPT !.pc = "write", !.tmp = cache[job[p].key], !.dst = e,
                              !.used = job[p].used \cup {e}])
      BY <1>10 DEF OpenModule
    <3> HIDE DEF e
    <3> QED
      BY <3>1 DEF To, TypeInv
  <2>3. /\ job'[p].pc = "write" /\ job'[p].verb = "apply" /\ job'[p].at = job[p].at
        /\ job'[p].list = job[p].list /\ job'[p].pin = job[p].pin
        /\ job'[p].tmp = cache[job[p].key]
    BY <1>0, <2>1, <2>2 DEF Jobs
  <2>4. job[p].pin # "none" => cache[job[p].key] \in {"part", job[p].pin}
    BY <1>0, <2>1 DEF CacheJob, Held
  <2> QED
    BY <1>0, <2>1, <2>3, <2>4 DEF PinJob, CacheJob, PinSteps, Grabs
<1>11. CASE WriteModule(p)
  <2>1. PICK n : job'[p] = [job[p] EXCEPT !.pc = "next", !.at = n]
    BY <1>11 DEF WriteModule, To, TypeInv
  <2>2. job'[p].pc = "next" /\ job'[p].verb = "apply"
    BY <1>0, <1>11, <2>1 DEF WriteModule, At, PinJob, Jobs
  <2> QED
    BY <1>3, <2>2
<1> QED
  BY <1>2, <1>4, <1>5, <1>6, <1>7, <1>9, <1>10, <1>11 DEF Kill

\* The wipe of modules/: a file of the user's may go, a download stays.
LEMMA WipePins ==
  ASSUME TypeInv, StagingInv, PinInv, NEW p \in Procs, Wipe(p)
  PROVE  \A q \in Procs : PinJob(q)' /\ CacheJob(q)'
<1>0. job[p] \in Jobs /\ JobOK(job[p]) /\ PinJob(p) /\ job[p].pc = "wipe" /\ UNCHANGED upstream
  BY DEF TypeInv, PinInv, Wipe, At, env
<1>1. job' = [job EXCEPT ![p] = [job[p] EXCEPT !.pc = "next", !.at = 1, !.used = {}]]
  BY DEF Wipe, To
<1>2. job'[p].pc = "next" /\ job'[p].verb = "apply" /\ \A q \in Procs : q # p => job'[q] = job[q]
  BY <1>0, <1>1 DEF TypeInv, PinJob, Jobs
<1>3. \A k \in Keys : cache'[k] = cache[k] \/ (k \in Files /\ cache'[k] = "none")
  BY ArtifactsAssumption DEF Wipe
<1>4. PinJob(p)' /\ CacheJob(p)'
  BY <1>2 DEF PinJob, CacheJob, PinSteps, FetchSteps
<1>5. ASSUME NEW q \in Procs, q # p PROVE PinJob(q)' /\ CacheJob(q)'
  <2>0. PinJob(q) /\ CacheJob(q) /\ job'[q] = job[q] /\ job[q] \in Jobs /\ JobOK(job[q])
    BY <1>2, <1>5 DEF PinInv, TypeInv
  <2>1. PinJob(q)'
    BY <2>0 DEF PinJob
  <2>2. job[q].pc \in PinSteps => job[q].key \in Keys
    BY PinOf
  <2>3. job[q].pc \in {"fetch", "publish"} => cache'[job[q].key] = cache[job[q].key]
    BY <1>3, <2>0, <2>2 DEF JobOK, PinSteps, FetchSteps
  <2>4. \A x \in Procs : job'[x].pc \in Grabs => job'[x] = job[x]
    BY <1>2 DEF Grabs
  <2>5. ASSUME job[q].pc \in {"copyFrida", "open"}, job[q].pin # "none", Held(q) PROVE Held(q)'
    <3>1. job[q].key \in Keys
      BY <2>2, <2>5 DEF PinSteps
    <3>2. CASE job[q].key \in Files
      BY <1>3, <2>0, <2>5, <3>1, <3>2 DEF Held
    <3>3. CASE job[q].key \notin Files
      <4>1. cache'[job[q].key] = cache[job[q].key]
        BY <1>3, <3>1, <3>3
      <4> QED
        BY <1>0, <2>0, <2>4, <2>5, <3>3, <4>1 DEF Held
    <3> QED
      BY <3>2, <3>3
  <2>6. job[q].pc = "evict" /\ job[q].key \notin Files => cache'[job[q].key] = cache[job[q].key]
    BY <1>3, <2>2 DEF PinSteps, FetchSteps
  <2> QED
    BY <1>0, <2>0, <2>1, <2>3, <2>5, <2>6 DEF CacheJob
<1> QED
  BY <1>4, <1>5

\* A look into the cache, a download, and the digest.
LEMMA LookPins ==
  ASSUME TypeInv, StagingInv, PinInv, NEW p \in Procs, Lookup(p) \/ Fetch(p) \/ Verify(p)
  PROVE  \A q \in Procs : PinJob(q)' /\ CacheJob(q)'
<1>0. job[p] \in Jobs /\ JobOK(job[p]) /\ PinJob(p) /\ CacheJob(p)
  BY DEF TypeInv, PinInv
<1>1. PICK r : To(p, r) /\ UNCHANGED <<upstream, cache>>
  BY DEF Lookup, Fetch, Verify, Fail, env, host
<1>2. job[p].pc \in FetchSteps /\ job[p].pc \in PinSteps /\ job[p].verb = "apply"
  BY <1>0 DEF Lookup, Fetch, Verify, At, PinJob, PinSteps, FetchSteps
<1>3. CASE Fail(p)
  BY <1>1, <1>3, EndedPins, OthersHold DEF Grabs
<1>4. ASSUME ~Fail(p)
      PROVE  \E s, t : /\ job'[p].pc = s /\ s \in PinSteps /\ job'[p].verb = "apply"
                       /\ job'[p].at = job[p].at /\ job'[p].list = job[p].list
                       /\ job'[p].key = job[p].key /\ job'[p].pin = job[p].pin
                       /\ job'[p].tmp = t
                       /\ \/ Lookup(p) /\ cache[job[p].key] # "none" /\ s = "verify"
                          \/ Lookup(p) /\ cache[job[p].key] = "none" /\ s = "fetch"
                          \/ Fetch(p) /\ s = "publish" /\ t \in {"part", upstream[job[p].key]}
                          \/ Verify(p) /\ job[p].pin \in {"none", cache[job[p].key]} /\ s = CopyStep(p)
                          \/ /\ Verify(p) /\ job[p].pin \notin {"none", cache[job[p].key]}
                             /\ s = "evict"
  <2>1. PICK s, t : /\ job'[p] = [job[p] EXCEPT !.pc = s, !.tmp = t] /\ s \in PinSteps
                    /\ \/ Lookup(p) /\ cache[job[p].key] # "none" /\ s = "verify"
                       \/ Lookup(p) /\ cache[job[p].key] = "none" /\ s = "fetch"
                       \/ Fetch(p) /\ s = "publish" /\ t \in {"part", upstream[job[p].key]}
                       \/ Verify(p) /\ job[p].pin \in {"none", cache[job[p].key]} /\ s = CopyStep(p)
                       \/ /\ Verify(p) /\ job[p].pin \notin {"none", cache[job[p].key]}
                          /\ s = "evict"
    <3>1. \A s : [job[p] EXCEPT !.pc = s] = [job[p] EXCEPT !.pc = s, !.tmp = job[p].tmp]
      BY <1>0 DEF Jobs
    <3>2. CASE Lookup(p)
      <4>1. PICK s : /\ job'[p] = [job[p] EXCEPT !.pc = s]
                     /\ \/ cache[job[p].key] # "none" /\ s = "verify"
                        \/ cache[job[p].key] = "none" /\ s = "fetch"
        BY <1>4, <3>2 DEF Lookup, To, TypeInv
      <4> QED
        BY <3>1, <3>2, <4>1 DEF PinSteps, FetchSteps
    <3>3. CASE Fetch(p)
      BY <1>4, <3>3 DEF Fetch, To, TypeInv, PinSteps, FetchSteps
    <3>4. CASE Verify(p)
      <4>1. PICK s : /\ job'[p] = [job[p] EXCEPT !.pc = s]
                     /\ \/ job[p].pin \in {"none", cache[job[p].key]} /\ s = CopyStep(p)
                        \/ job[p].pin \notin {"none", cache[job[p].key]} /\ s = "evict"
        BY <1>4, <3>4 DEF Verify, To, TypeInv
      <4> QED
        BY <3>1, <3>4, <4>1 DEF PinSteps, FetchSteps, CopyStep
    <3> QED
      BY <3>2, <3>3, <3>4
  <2>2. /\ job'[p].pc = s /\ job'[p].verb = "apply" /\ job'[p].at = job[p].at
        /\ job'[p].list = job[p].list /\ job'[p].key = job[p].key /\ job'[p].pin = job[p].pin
        /\ job'[p].tmp = t
    BY <1>0, <1>2, <2>1 DEF Jobs
  <2> QED
    BY <2>1, <2>2
<1>5. ASSUME ~Fail(p) PROVE \A q \in Procs : PinJob(q)' /\ CacheJob(q)'
  <2>1. PICK s, t : /\ job'[p].pc = s /\ s \in PinSteps /\ job'[p].verb = "apply"
                    /\ job'[p].at = job[p].at /\ job'[p].list = job[p].list
                    /\ job'[p].key = job[p].key /\ job'[p].pin = job[p].pin
                    /\ job'[p].tmp = t
                    /\ \/ Lookup(p) /\ cache[job[p].key] # "none" /\ s = "verify"
                       \/ Lookup(p) /\ cache[job[p].key] = "none" /\ s = "fetch"
                       \/ Fetch(p) /\ s = "publish" /\ t \in {"part", upstream[job[p].key]}
                       \/ Verify(p) /\ job[p].pin \in {"none", cache[job[p].key]} /\ s = CopyStep(p)
                       \/ /\ Verify(p) /\ job[p].pin \notin {"none", cache[job[p].key]}
                          /\ s = "evict"
    BY <1>4, <1>5
  <2>2. PinJob(p)'
    BY <1>0, <1>2, <2>1 DEF PinJob, PinSteps, FetchSteps
  <2>3. CASE Lookup(p)
    <3>1. CacheJob(p)'
      BY <1>1, <2>1, <2>3 DEF CacheJob, Lookup, Verify, Fetch, At
    <3>2. s \in Grabs => cache[job[p].key] = "none"
      BY <2>1, <2>3 DEF Grabs, Lookup, Verify, Fetch, At
    <3> QED
      BY <1>1, <2>1, <2>2, <3>1, <3>2, OthersHold
  <2>4. CASE Fetch(p)
    <3>1. job[p].pc = "fetch" /\ s = "publish" /\ t \in {"part", upstream[job[p].key]}
      BY <2>1, <2>4 DEF Lookup, Verify, Fetch, At
    <3>2. CacheJob(p)'
      BY <1>0, <1>1, <2>1, <3>1 DEF CacheJob
    <3> QED
      BY <1>1, <2>1, <2>2, <3>1, <3>2, OthersHold DEF Grabs
  <2>5. CASE Verify(p) /\ job[p].pin \in {"none", cache[job[p].key]}
    <3>1. s \in {"copyFrida", "open"} /\ job[p].pc = "verify"
      BY <2>1, <2>5 DEF Lookup, Verify, Fetch, At, CopyStep
    <3>2. ASSUME job[p].pin # "none" PROVE Held(p)'
      <4>1. cache[job[p].key] = job[p].pin /\ job[p].key \in Keys /\ job[p].pin \in Whole
        BY <1>2, <2>5, <3>2, PinOf DEF Pins
      <4>2. CASE job[p].key \in Files
        BY <1>1, <2>1, <4>1, <4>2 DEF Held
      <4>3. CASE job[p].key \notin Files /\ upstream[job[p].key] = job[p].pin
        BY <1>1, <2>1, <4>1, <4>3 DEF Held
      <4>4. CASE job[p].key \notin Files /\ upstream[job[p].key] # job[p].pin
        <5>1. ASSUME NEW q \in Procs, job[q].key = job[p].key PROVE job[q].pc \notin Grabs
          <6>1. CacheJob(q)
            BY DEF PinInv
          <6>2. job[q].pc \notin {"fetch", "publish"}
            BY <4>1, <4>4, <5>1, <6>1 DEF CacheJob, Whole
          <6>3. ASSUME job[q].pc = "evict" PROVE FALSE
            <7>1. job[q].pin # "none" /\ job[q].pc \in PinSteps
              BY <6>1, <6>3 DEF CacheJob, PinSteps, FetchSteps
            <7>2. job[q].pin = job[p].pin
              BY <1>2, <3>2, <5>1, <7>1, PinsAgree
            <7> QED
              BY <4>1, <4>4, <5>1, <6>1, <6>3, <7>2 DEF CacheJob
          <6> QED
            BY <6>2, <6>3 DEF Grabs
        <5>2. \A q \in Procs : job'[q].key = job[p].key => job'[q].pc \notin Grabs
          BY <1>1, <2>1, <3>1, <5>1 DEF To, TypeInv, Grabs
        <5> QED
          BY <1>1, <2>1, <4>1, <5>2 DEF Held
      <4> QED
        BY <4>2, <4>3, <4>4
    <3>3. CacheJob(p)'
      BY <2>1, <3>1, <3>2 DEF CacheJob
    <3> QED
      BY <1>1, <2>1, <2>2, <3>1, <3>3, OthersHold DEF Grabs
  <2>6. CASE Verify(p) /\ job[p].pin \notin {"none", cache[job[p].key]}
    <3>1. s = "evict" /\ job[p].pc = "verify"
      BY <2>1, <2>6 DEF Lookup, Verify, Fetch, At
    <3>2. CacheJob(p)'
      BY <1>1, <2>1, <2>6, <3>1 DEF CacheJob
    <3>3. ASSUME NEW q \in Procs, job[q].pc \in {"copyFrida", "open"}, job[q].pin # "none",
                 job[q].key = job[p].key
          PROVE  cache[job[q].key] # job[q].pin
      <4>1. job[q].pin = job[p].pin
        BY <1>2, <2>6, <3>3, PinsAgree DEF PinSteps
      <4> QED
        BY <2>6, <3>3, <4>1
    <3> QED
      BY <1>1, <2>1, <2>2, <3>1, <3>2, <3>3, OthersHold
  <2> QED
    BY <2>3, <2>4, <2>5, <2>6
<1> QED
  BY <1>3, <1>5
\* What a download publishes, and what a mismatch removes.
LEMMA ReplacePins ==
  ASSUME TypeInv, StagingInv, PinInv, NEW p \in Procs, Publish(p) \/ Evict(p)
  PROVE  \A q \in Procs : PinJob(q)' /\ CacheJob(q)'
<1>0. job[p] \in Jobs /\ JobOK(job[p]) /\ PinJob(p) /\ CacheJob(p)
  BY DEF TypeInv, PinInv
<1>1. /\ job[p].pc \in {"publish", "evict"} /\ job[p].pc \in PinSteps /\ job[p].pc \in Grabs
      /\ UNCHANGED upstream
  BY DEF Publish, Evict, At, PinSteps, FetchSteps, Grabs, env, host
<1>2. job[p].key \in Keys
  BY <1>1, PinOf
<1>3. /\ \A k \in Keys : k # job[p].key => cache'[k] = cache[k]
      /\ \/ cache' = cache
         \/ job[p].key \notin Files /\ cache'[job[p].key] \in {"none", "part", upstream[job[p].key]}
  <2>1. CASE Publish(p)
    <3>1. job[p].tmp \in {"part", upstream[job[p].key]} /\ job[p].key \notin Files
      BY <1>0, <2>1 DEF Publish, At, CacheJob, JobOK
    <3> QED
      BY <1>2, <2>1, <3>1 DEF Publish, TypeInv
  <2>2. CASE Evict(p)
    BY <1>2, <2>2 DEF Evict, Evicted, TypeInv
  <2> QED
    BY <2>1, <2>2
<1>4. /\ \A q \in Procs : q # p => job'[q] = job[q]
      /\ job'[p].pc \notin Grabs /\ PinJob(p)' /\ CacheJob(p)'
  <2>1. CASE Publish(p)
    <3>1. job' = [job EXCEPT ![p] = [job[p] EXCEPT !.pc = "verify"]]
      BY <2>1 DEF Publish, To
    <3>2. /\ job'[p].pc = "verify" /\ job'[p].verb = job[p].verb /\ job'[p].at = job[p].at
          /\ job'[p].list = job[p].list /\ job'[p].pin = job[p].pin
          /\ \A q \in Procs : q # p => job'[q] = job[q]
      BY <1>0, <3>1 DEF Jobs, TypeInv
    <3> QED
      BY <1>0, <1>1, <3>2 DEF PinJob, CacheJob, Grabs
  <2>2. CASE Evict(p)
    BY <2>2, EndedPins DEF Evict, Fail, To, Grabs, TypeInv
  <2> QED
    BY <2>1, <2>2
<1>5. ASSUME NEW q \in Procs, q # p PROVE PinJob(q)' /\ CacheJob(q)'
  <2>0. PinJob(q) /\ CacheJob(q) /\ job'[q] = job[q]
    BY <1>4, <1>5 DEF PinInv
  <2>1. PinJob(q)'
    BY <2>0 DEF PinJob
  <2>2. job[q].pc \in PinSteps => job[q].key \in Keys /\ job[q].pin \in Pins
    BY PinOf
  <2>3. ASSUME job[q].pc \in {"copyFrida", "open"}, job[q].pin # "none", Held(q) PROVE Held(q)'
    <3>0. job[q].key \in Keys
      BY <2>2, <2>3 DEF PinSteps
    <3>1. \A x \in Procs : job[x].pc \notin Grabs => job'[x].pc \notin Grabs
      BY <1>4
    <3>2. \A x \in Procs : job'[x].pc \in Grabs => job'[x] = job[x]
      BY <1>4
    <3>3. CASE job[q].key # job[p].key \/ cache' = cache
      <4>1. cache'[job[q].key] = cache[job[q].key]
        BY <1>3, <3>0, <3>3
      <4> QED
        BY <1>1, <2>0, <2>3, <3>2, <4>1 DEF Held
    <3>4. CASE job[q].key = job[p].key /\ cache' # cache
      <4>1. job[q].key \notin Files /\ upstream[job[q].key] = job[q].pin
        BY <1>1, <1>3, <2>3, <3>4 DEF Held
      <4> QED
        BY <1>1, <1>3, <2>0, <3>4, <4>1 DEF Held
    <3> QED
      BY <3>3, <3>4
  <2>4. CASE job[q].pc \in {"fetch", "publish"}
    <3>1. job[q].key \in Keys
      BY <2>2, <2>4 DEF PinSteps, FetchSteps
    <3>2. cache'[job[q].key] \in {"none", "part", upstream[job[q].key]}
      BY <1>3, <2>0, <2>4, <3>1 DEF CacheJob
    <3> QED
      BY <1>1, <2>0, <2>1, <2>4, <3>2 DEF CacheJob
  <2>5. CASE job[q].pc = "evict"
    <3>1. job[q].key \in Keys /\ job[q].pin \in Whole
      BY <2>0, <2>2, <2>5 DEF PinSteps, FetchSteps, CacheJob, Pins
    <3>2. job[q].key \notin Files => job[q].pin # cache'[job[q].key] \/ job[q].pin = upstream[job[q].key]
      BY <1>3, <2>0, <2>5, <3>1 DEF CacheJob, Whole
    <3> QED
      BY <1>1, <2>0, <2>1, <2>5, <3>2 DEF CacheJob
  <2> QED
    BY <2>0, <2>1, <2>3, <2>4, <2>5 DEF CacheJob
<1> QED
  BY <1>4, <1>5

\* What a step puts into an instance.
LEMMA StagedPins ==
  ASSUME TypeInv, StagingInv, PinInv, NEW p \in Procs, Command(p) \/ Kill(p)
  PROVE  entries' = FirstMods /\ StagedMatchesPin'
<1> DEFINE i == InstOf[p]
<1>0. /\ i \in Insts /\ job[p] \in Jobs /\ JobOK(job[p]) /\ PinJob(p) /\ CacheJob(p) /\ Progress(p)
      /\ entries = FirstMods
  BY ArtifactsAssumption DEF TypeInv, PinInv, StagingInv
<1>1. ~WriteYaml(p)
  BY <1>0 DEF WriteYaml, At, PinJob
<1>2. UNCHANGED entries
  BY <1>1 DEF Command, Kill, Begin, StageLocal, StageEmpty, Reconcile, ResolveFrida, Lookup,
     Fetch, Publish, Verify, Evict, CopyFrida, Wipe, NextModule, OpenModule, WriteModule
<1>3. StagedMatchesPin
  BY DEF PinInv
<1>4. \A x \in Insts : Cfg[x].pin # "none" /\ frida'[x].is \in Whole => frida'[x].is = Cfg[x].pin
  <2>1. CASE UNCHANGED frida
    BY <1>3, <2>1 DEF StagedMatchesPin
  <2>2. CASE frida' = [frida EXCEPT ![i] = Empty]
    <3>1. "empty" \notin Whole
      BY DEF Whole
    <3> QED
      BY <1>0, <1>3, <2>2, <3>1 DEF StagedMatchesPin, TypeInv, Empty
  <2>3. CASE CopyFrida(p) /\ ~UNCHANGED frida
    <3>1. /\ cache[job[p].key] # "none" /\ job[p].pc = "copyFrida"
          /\ frida' = [frida EXCEPT ![i] = [is |-> cache[job[p].key], key |-> job[p].key]]
      BY <2>3 DEF CopyFrida, At
    <3>2. job[p].at = 0 /\ job[p].key \in FridaKeys /\ job[p].key \in Keys
      BY <1>0, <3>1 DEF JobOK, Keys
    <3>3. job[p].pin = Cfg[i].pin
      BY <1>0, <3>1, <3>2 DEF PinJob, PinSteps
    <3>4. cache[job[p].key] # "part"
      BY <3>2, ArtifactsAssumption DEF TypeInv, MayBeCut, ModKeys
    <3>5. Cfg[i].pin # "none" => cache[job[p].key] = Cfg[i].pin
      BY <1>0, <3>1, <3>3, <3>4 DEF CacheJob, Held
    <3> QED
      BY <1>0, <1>3, <3>1, <3>5 DEF StagedMatchesPin, TypeInv
  <2>4. CASE StageEmpty(p)
    BY <2>2, <2>4 DEF StageEmpty
  <2>5. CASE ~StageEmpty(p) /\ ~CopyFrida(p)
    BY <1>1, <2>1, <2>5 DEF Command, Kill, Begin, StageLocal, Reconcile, ResolveFrida, Lookup, Fetch, Publish, Verify,
       Evict, Wipe, NextModule, OpenModule, WriteModule
  <2> QED
    BY <2>1, <2>3, <2>4, <2>5
<1>5. \A x \in Insts : \A n \in DOMAIN FirstMods[x], d \in DOMAIN mods'[x] :
        mods'[x][d].key = FirstMods[x][n].key /\ FirstMods[x][n].pin # "none"
          => mods'[x][d].is \in {FirstMods[x][n].pin, "part"}
  <2>1. CASE UNCHANGED mods
    BY <1>0, <1>3, <2>1 DEF StagedMatchesPin
  <2>2. CASE Wipe(p)
    <3>1. mods' = [mods EXCEPT ![i] = <<>>]
      BY <2>2 DEF Wipe
    <3>2. DOMAIN mods'[i] = {} /\ \A x \in Insts : x # i => mods'[x] = mods[x]
      BY <1>0, <3>1 DEF TypeInv
    <3> QED
      BY <1>0, <1>3, <3>2 DEF StagedMatchesPin
  <2>3. CASE OpenModule(p) /\ ~UNCHANGED mods
    <3>1. PICK d : mods' = [mods EXCEPT ![i] = Put(mods[i], d, [is |-> "part", key |-> job[p].key])]
      BY <2>3 DEF OpenModule
    <3>2. /\ \A x \in Insts : x # i => mods'[x] = mods[x]
          /\ mods'[i] = Put(mods[i], d, [is |-> "part", key |-> job[p].key])
      BY <1>0, <3>1 DEF TypeInv
    <3>3. \A e \in DOMAIN mods'[i] : mods'[i][e].is = "part" \/ (e \in DOMAIN mods[i] /\ mods'[i][e] = mods[i][e])
      BY <3>2 DEF Put
    <3> QED
      BY <1>0, <1>3, <3>2, <3>3 DEF StagedMatchesPin
  <2>4. CASE WriteModule(p)
    <3>1. job[p].pc = "write" /\ job[p].pc \in PinSteps
      BY <2>4 DEF WriteModule, At, PinSteps
    <3>2. job[p].dst \in DOMAIN mods[i] /\ mods[i][job[p].dst].key = job[p].key
      BY <1>0, <3>1 DEF Progress, AtModules, ModulesSoFar
    <3>3. mods' = [mods EXCEPT ![i][job[p].dst].is = job[p].tmp]
      BY <2>4, <3>2 DEF WriteModule
    <3>4. mods[i][job[p].dst] \in StagedFiles
      BY <1>0, <3>2 DEF TypeInv
    <3>5. mods'[i] = [mods[i] EXCEPT ![job[p].dst] = [mods[i][job[p].dst] EXCEPT !.is = job[p].tmp]]
      BY <1>0, <3>3 DEF TypeInv
    <3>6. /\ DOMAIN mods'[i] = DOMAIN mods[i]
          /\ mods'[i][job[p].dst] = [mods[i][job[p].dst] EXCEPT !.is = job[p].tmp]
          /\ \A e \in DOMAIN mods[i] : e # job[p].dst => mods'[i][e] = mods[i][e]
          /\ \A x \in Insts : x # i => mods'[x] = mods[x]
      BY <1>0, <3>2, <3>3, <3>5 DEF TypeInv
    <3>7. mods'[i][job[p].dst].is = job[p].tmp /\ mods'[i][job[p].dst].key = job[p].key
      BY <3>2, <3>4, <3>6 DEF StagedFiles
    <3>8. ASSUME NEW n \in DOMAIN FirstMods[i], FirstMods[i][n].key = job[p].key,
                 FirstMods[i][n].pin # "none"
          PROVE  job[p].tmp \in {FirstMods[i][n].pin, "part"}
      <4>1. job[p].at # 0
        BY <1>0, <3>1 DEF JobOK
      <4>2. PICK m \in DOMAIN FirstMods[i] : FirstMods[i][m] = [key |-> job[p].key, pin |-> job[p].pin]
        BY <3>1, <4>1, PinOf
      <4>3. job[p].pin = FirstMods[i][n].pin
        BY <1>0, <3>8, <4>2, SharingAssumption
      <4> QED
        BY <1>0, <3>1, <3>8, <4>3 DEF CacheJob
    <3>9. ASSUME NEW x \in Insts, NEW n \in DOMAIN FirstMods[x], NEW d \in DOMAIN mods'[x],
                 mods'[x][d].key = FirstMods[x][n].key, FirstMods[x][n].pin # "none"
          PROVE  mods'[x][d].is \in {FirstMods[x][n].pin, "part"}
      <4>1. CASE x = i /\ d = job[p].dst
        BY <3>7, <3>8, <3>9, <4>1
      <4>2. CASE ~(x = i /\ d = job[p].dst)
        <5>1. d \in DOMAIN mods[x] /\ mods'[x][d] = mods[x][d]
          BY <3>6, <3>9, <4>2
        <5> QED
          BY <1>0, <1>3, <3>9, <5>1 DEF StagedMatchesPin
      <4> QED
        BY <4>1, <4>2
    <3> QED
      BY <3>9
  <2>5. CASE ~Wipe(p) /\ ~OpenModule(p) /\ ~WriteModule(p)
    BY <1>1, <2>1, <2>5 DEF Command, Kill, Begin, StageLocal, StageEmpty, Reconcile,
       ResolveFrida, Lookup, Fetch, Publish, Verify, Evict, CopyFrida, NextModule
  <2> QED
    BY <2>1, <2>2, <2>3, <2>4, <2>5
<1> QED
  BY <1>0, <1>2, <1>4, <1>5 DEF StagedMatchesPin

\* The pins, after every step of the scene.
LEMMA InductivePins ==
  TypeInv /\ StagingInv /\ SharedInv /\ [SceneNext]_<<vars, scene>> => SharedInv'
<1> SUFFICES ASSUME TypeInv, StagingInv, SharedInv, [SceneNext]_<<vars, scene>>, scene' = "shared"
             PROVE  PinInv'
  BY DEF SharedInv
<1>1. CASE UNCHANGED <<vars, scene>>
  <2>1. PinInv
    BY <1>1 DEF SharedInv
  <2> QED
    BY <1>1, <2>1 DEF vars, PinInv, PinJob, CacheJob, Held, StagedMatchesPin
<1>2. CASE SceneNext
  <2>1. PinInv /\ scene = "shared"
    BY <1>2 DEF SceneNext, SharedInv
  <2>2. /\ \A p \in Procs : job'[p].verb \in {"none", "apply"}
        /\ upstream' # upstream => \A p \in Procs : At(p, "idle")
    BY <1>2, <2>1 DEF SceneNext, Scene
  <2>3. ASSUME NEW p \in Procs, Command(p) \/ Kill(p) PROVE PinInv'
    <3>1. ~WriteYaml(p)
      BY <2>1 DEF WriteYaml, At, PinJob, PinInv
    <3>2. \A q \in Procs : PinJob(q)' /\ CacheJob(q)'
      BY <2>1, <2>2, <2>3, <3>1, StartPins, WipePins, LookPins, ReplacePins DEF Command
    <3> QED
      BY <2>1, <2>3, <3>2, StagedPins DEF PinInv
  <2>4. ASSUME NEW k \in FridaKeys \cup Urls, Republish(k) PROVE PinInv'
    <3>1. UNCHANGED <<cache, frida, mods, entries, job>>
      BY <2>4 DEF Republish
    <3>2. CASE upstream' = upstream
      BY <2>1, <3>1, <3>2 DEF PinInv, PinJob, CacheJob, Held, StagedMatchesPin
    <3>3. CASE \A p \in Procs : At(p, "idle")
      BY <2>1, <3>1, <3>3 DEF PinInv, PinJob, CacheJob, At, StagedMatchesPin
    <3> QED
      BY <2>2, <3>2, <3>3
  <2> QED
    BY <1>2, <2>3, <2>4 DEF SceneNext, Next
<1> QED
  BY <1>1, <1>2

\* A server of the pinned version and a module with a sha256 that lie in an
\* instance are the ones the digest names, whoever shares the cache, as long as
\* apply staged them, the sharers pin alike and no server changes while a
\* command verifies and copies its file: between the digest (_check_sha256,
\* verify_sha256) and the copy another command may remove the file or fetch it
\* anew, and what it fetches is the very content.
THEOREM PinsHonoured == SceneSpec => []SharedMatchesPin
<1>1. SceneInit => TypeInv /\ StagingInv /\ SharedInv
  <2> SUFFICES ASSUME SceneInit PROVE TypeInv /\ StagingInv /\ PinInv
    BY DEF SharedInv
  <2>1. Init
    BY DEF SceneInit
  <2>2. StagingInv
    BY <2>1, IdleJob DEF Init, StagingInv, Progress, Settled, AtModules, FetchSteps
  <2>3. \A p \in Procs : job[p] = Idle /\ Idle.pc = "idle"
    BY <2>1, IdleJob DEF Init
  <2>4. \A p \in Procs : PinJob(p) /\ CacheJob(p)
    BY <2>3 DEF PinJob, CacheJob, PinSteps, FetchSteps
  <2>5. StagedMatchesPin
    BY <2>1 DEF Init, StagedMatchesPin, NoFile, Empty, Whole
  <2> QED
    BY <2>1, <2>2, <2>4, <2>5, InitTypes DEF PinInv, Init
<1>2. TypeInv /\ StagingInv /\ SharedInv /\ [SceneNext]_<<vars, scene>> =>
        TypeInv' /\ StagingInv' /\ SharedInv'
  <2>1. [SceneNext]_<<vars, scene>> => [Next]_vars
    BY DEF SceneNext
  <2> QED
    BY <2>1, InductiveTypes, InductiveStaging, InductivePins
<1>3. SharedInv => SharedMatchesPin
  BY DEF SharedInv, PinInv, SharedMatchesPin
<1> QED
  BY <1>1, <1>2, <1>3, PTL DEF SceneSpec
=============================================================================
