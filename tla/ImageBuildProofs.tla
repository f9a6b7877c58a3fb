-------------------------- MODULE ImageBuildProofs --------------------------
(***************************************************************************)
(* Proofs about ImageBuild, for every number of builds, urls, failures and *)
(* kills, and whether or not git dies with its beetroot or outlives it;    *)
(* and about VmBuild in the scenes of MCBuilds, for every number of        *)
(* builds, faults and kills, every host and every set of released assets.  *)
(***************************************************************************)
EXTENDS MCBuilds, TLAPS

Records == [url : Urls \cup {"none"}, whole : BOOLEAN, cache : BOOLEAN]

LocalOK ==
  /\ pc \in [Procs -> {"idle", "lock", "match", "rm", "clone", "cloning", "patch", "layer"}]
  /\ url \in [Procs -> Urls \cup {"none"}] /\ reused \in [Procs -> BOOLEAN]
  /\ \A p \in Procs : pc[p] # "idle" => url[p] \in Urls
  /\ orphan \in Urls \cup {"none"}

\* Between its flock and the end of the `with`.
Inside(p) == pc[p] \in {"match", "rm", "clone", "cloning", "patch"}

\* Only the holder of the lock is inside.
LockInv == \A p \in Procs : Inside(p) => holder = p

\* What was downloaded lies in a whole clone.
CacheInv == tree.cache => tree.whole

\* What the build inside knows about the directory.
TreeInv ==
  \A p \in Procs :
    /\ pc[p] = "rm" => tree.url # url[p]
    /\ pc[p] = "clone" => tree = NoTree
    /\ pc[p] = "cloning" => tree.url = url[p] /\ ~tree.cache
    /\ pc[p] = "patch" => tree.url = url[p] /\ (tree.whole \/ reused[p])

IInv == TypeOK /\ LocalOK /\ LockInv /\ CacheInv /\ TreeInv

-----------------------------------------------------------------------------

\* The invariant holds before the first build.
LEMMA InitInv == Init => IInv
BY ImageBuildAssumption
   DEF Init, IInv, TypeOK, LocalOK, LockInv, CacheInv, TreeInv, Inside, NoTree

\* An absent directory has the type of one.
LEMMA NoTreeTyped == NoTree \in [url : Urls \cup {"none"}, whole : BOOLEAN, cache : BOOLEAN]
BY DEF NoTree

\* A step inside the lock is the step of the only build inside.
LEMMA OneInside ==
  ASSUME IInv, NEW p \in Procs, Inside(p), NEW q \in Procs, q # p
  PROVE  ~Inside(q)
BY DEF IInv, LockInv

\* Every step keeps the invariant.
LEMMA StepInv == IInv /\ [Next]_vars => IInv'
<1> SUFFICES ASSUME IInv, [Next]_vars PROVE IInv'
  OBVIOUS
<1> USE ImageBuildAssumption DEF IInv, TypeOK, LocalOK, LockInv, CacheInv, TreeInv, Inside, NoTree
<1>1. ASSUME NEW p \in Procs, Build(p) PROVE IInv'
  BY <1>1 DEF Build, Go, End
<1>2. ASSUME NEW p \in Procs, Lock(p) PROVE IInv'
  BY <1>2 DEF Lock, Free, Go
<1>3. ASSUME NEW p \in Procs, Match(p) PROVE IInv'
  BY <1>3 DEF Match, CloneUrlMatches, Go
<1>4. ASSUME NEW p \in Procs, Remove(p) PROVE IInv'
  BY <1>4 DEF Remove, Wiped, Go
<1>5. ASSUME NEW p \in Procs, Clone(p) PROVE IInv'
  <2>1. Inside(p) /\ \A q \in Procs : q # p => ~Inside(q)
    BY <1>5, OneInside DEF Clone
  <2>2. /\ pc' \in [Procs -> {"idle", "lock", "match", "rm", "clone", "cloning", "patch", "layer"}]
        /\ \A q \in Procs : q # p => pc'[q] = pc[q]
        /\ pc'[p] \in {"cloning", "patch", "idle"}
    BY <1>5 DEF Clone, Go, End
  <2>3. TypeOK' /\ CacheInv'
    <3>1. tree' \in [url : Urls \cup {"none"}, whole : BOOLEAN, cache : BOOLEAN]
      <4>1. CASE tree' = [url |-> url[p], whole |-> FALSE, cache |-> FALSE]
        BY <4>1, url[p] \in Urls \cup {"none"}
      <4>2. CASE tree' = [tree EXCEPT !.whole = TRUE]
        BY <4>2
      <4>3. CASE tree' = NoTree
        BY <4>3, NoTreeTyped
      <4> QED
        BY <1>5, <4>1, <4>2, <4>3 DEF Clone
    <3>2. tree'.whole \/ tree'.cache => tree'.url # "none"
      BY <1>5 DEF Clone, End
    <3>3. holder' \in Procs \cup {"none"} /\ {base', layer'} \subseteq Urls \cup {"none"}
      BY <1>5 DEF Clone, End
    <3>4. CacheInv'
      BY <1>5 DEF Clone, End
    <3> QED
      BY <3>1, <3>2, <3>3, <3>4
  <2>4. LocalOK'
    BY <1>5, <2>2, <2>1 DEF Clone
  <2>5. LockInv'
    BY <1>5, <2>1, <2>2 DEF Clone, Go, End
  <2>6. TreeInv'
    BY <1>5, <2>1, <2>2 DEF Clone, Go, End
  <2> QED
    BY <2>3, <2>4, <2>5, <2>6
<1>6. ASSUME NEW p \in Procs, Patch(p) PROVE IInv'
  <2>1. Inside(p) /\ \A q \in Procs : q # p => ~Inside(q)
    BY <1>6, OneInside DEF Patch
  <2>2. /\ pc' \in [Procs -> {"idle", "lock", "match", "rm", "clone", "cloning", "patch", "layer"}]
        /\ \A q \in Procs : q # p => pc'[q] = pc[q]
        /\ pc'[p] \in {"layer", "idle"}
    BY <1>6 DEF Patch, Go, End
  <2>3. TypeOK' /\ CacheInv'
    <3>1. tree' \in [url : Urls \cup {"none"}, whole : BOOLEAN, cache : BOOLEAN]
      BY <1>6 DEF Patch, Unlocked, End
    <3>2. tree'.whole \/ tree'.cache => tree'.url # "none"
      BY <1>6 DEF Patch, Unlocked, End
    <3>3. holder' \in Procs \cup {"none"} /\ {base', layer'} \subseteq Urls \cup {"none"}
      BY <1>6 DEF Patch, Unlocked, End
    <3>4. CacheInv'
      BY <1>6 DEF Patch, Unlocked, End
    <3> QED
      BY <3>1, <3>2, <3>3, <3>4
  <2>4. LocalOK'
    BY <1>6, <2>2, <2>1 DEF Patch
  <2>5. LockInv' /\ TreeInv'
    BY <2>1, <2>2
  <2> QED
    BY <2>3, <2>4, <2>5
<1>7. ASSUME NEW p \in Procs, Layer(p) PROVE IInv'
  BY <1>7 DEF Layer, Go, End, Fault
<1>8. ASSUME NEW p \in Procs, Kill(p) PROVE IInv'
  <2>1. /\ pc' \in [Procs -> {"idle", "lock", "match", "rm", "clone", "cloning", "patch", "layer"}]
        /\ \A q \in Procs : q # p => pc'[q] = pc[q]
        /\ pc'[p] = "idle" /\ url' = url /\ reused' = reused
    BY <1>8 DEF Kill, Go, End
  <2>2. /\ tree' = tree \/ (pc[p] = "cloning" /\ tree' = NoTree)
        /\ orphan' \in {orphan, url[p]}
    BY <1>8 DEF Kill
  <2>3. TypeOK' /\ CacheInv'
    <3>1. tree' \in [url : Urls \cup {"none"}, whole : BOOLEAN, cache : BOOLEAN]
      BY <2>2, NoTreeTyped
    <3>2. tree'.whole \/ tree'.cache => tree'.url # "none"
      BY <1>8, <2>2 DEF Kill
    <3>3. holder' \in Procs \cup {"none"} /\ {base', layer'} \subseteq Urls \cup {"none"}
      BY <1>8, <2>2 DEF Kill
    <3>4. CacheInv'
      BY <1>8, <2>2 DEF Kill
    <3> QED
      BY <3>1, <3>2, <3>3, <3>4
  <2>4. LocalOK'
    BY <1>8, <2>1, <2>2 DEF Kill
  <2>5. LockInv'
    BY <1>8, <2>1 DEF Kill
  <2>6. TreeInv'
    <3>1. CASE tree' = tree
      BY <3>1, <2>1
    <3>2. CASE pc[p] = "cloning" /\ tree' = NoTree
      BY <3>2, <2>1, OneInside
    <3> QED
      BY <2>2, <3>1, <3>2
  <2> QED
    BY <2>3, <2>4, <2>5, <2>6
<1>9. CASE OrphanDone
  <2>1. /\ tree'.url = tree.url /\ tree'.cache = tree.cache /\ (tree.whole => tree'.whole)
        /\ tree' \in Records /\ (tree.url = "none" => tree' = tree)
    BY <1>9 DEF OrphanDone, Records
  <2>2. TypeOK' /\ CacheInv'
    <3>1. tree' \in [url : Urls \cup {"none"}, whole : BOOLEAN, cache : BOOLEAN]
      BY <1>9, <2>1 DEF OrphanDone, Records
    <3>2. tree'.whole \/ tree'.cache => tree'.url # "none"
      BY <1>9, <2>1 DEF OrphanDone, Records
    <3>3. holder' \in Procs \cup {"none"} /\ {base', layer'} \subseteq Urls \cup {"none"}
      BY <1>9, <2>1 DEF OrphanDone, Records
    <3>4. CacheInv'
      BY <1>9, <2>1 DEF OrphanDone, Records
    <3> QED
      BY <3>1, <3>2, <3>3, <3>4
  <2>3. LocalOK' /\ LockInv'
    BY <1>9 DEF OrphanDone
  <2>4. TreeInv'
    <3>1. \A q \in Procs : pc[q] = "clone" => tree' = tree
      BY <2>1
    <3> QED
      BY <1>9, <2>1, <3>1 DEF OrphanDone
  <2> QED
    BY <2>2, <2>3, <2>4
<1>10. CASE UNCHANGED vars
  BY <1>10 DEF vars
<1> QED
  BY <1>1, <1>2, <1>3, <1>4, <1>5, <1>6, <1>7, <1>8, <1>9, <1>10 DEF Next, Step

\* It is an invariant of the specification.
LEMMA Inductive == Spec => []IInv
BY InitInv, StepInv, PTL DEF Spec

\* However many builds run, fail or are killed, the patcher runs on the clone of
\* the url its own build was given, whole unless it was taken over half made:
\* the lock of _clone_dir_lock covers everything from the match to the patcher.
THEOREM OwnTree == Spec => []PatchesOwnTree
<1>1. IInv => PatchesOwnTree
  BY DEF IInv, TreeInv, PatchesOwnTree
<1> QED
  BY <1>1, Inductive, PTL

\* What the patcher downloaded goes only with the clone of another url: no
\* failure, kill or racing build throws it away.
THEOREM Downloads == Spec => DownloadsKept
<1>1. IInv /\ [Next]_vars => [tree.cache /\ ~tree'.cache =>
                               \E p \in Procs : pc[p] = "rm" /\ url[p] # tree.url]_vars
  <2> SUFFICES ASSUME IInv, Next, tree.cache, ~tree'.cache
               PROVE  \E p \in Procs : pc[p] = "rm" /\ url[p] # tree.url
    BY DEF vars
  <2> USE DEF IInv, TypeOK, LocalOK, LockInv, CacheInv, TreeInv, Inside, NoTree
  <2>1. ASSUME NEW p \in Procs, Remove(p) PROVE pc[p] = "rm" /\ url[p] # tree.url
    BY <2>1 DEF Remove
  <2>2. ASSUME NEW p \in Procs, Clone(p) PROVE FALSE
    BY <2>2 DEF Clone
  <2>3. ASSUME NEW p \in Procs, Patch(p) PROVE FALSE
    BY <2>3 DEF Patch
  <2>4. ASSUME NEW p \in Procs, Kill(p) PROVE FALSE
    BY <2>4 DEF Kill
  <2>5. ASSUME NEW p \in Procs, Build(p) \/ Lock(p) \/ Match(p) \/ Layer(p) PROVE FALSE
    BY <2>5 DEF Build, Lock, Match, Layer
  <2>6. CASE OrphanDone
    BY <2>6 DEF OrphanDone
  <2> QED
    BY <2>1, <2>2, <2>3, <2>4, <2>5, <2>6 DEF Next, Step
<1> QED
  BY <1>1, Inductive, PTL DEF Spec, DownloadsKept

\* One clone serves the builds of every source: each patches its own, and none
\* throws away what another of the same source downloaded (apply_redroid_script).
THEOREM CloneTheorem == Spec => CloneSafe
<1>1. IInv => TypeOK
  BY DEF IInv
<1> QED
  BY <1>1, Inductive, OwnTree, Downloads, PTL DEF CloneSafe
-----------------------------------------------------------------------------
(* `beetroot build --vm-kernel` (VmBuild), whatever races and is killed.   *)

VmLines == {"idle", "source", "fetchKernel", "cp", "cpRest", "rootfs", "fetchRootfs", "preflight",
            "bundle", "stage", "ready", "load", "tree", "markBaked", "pack", "packRest", "fetched",
            "markFetched", "rename", "done"}

Requests == [ver : Vers, source : BOOLEAN, over : {"none", "image", "tar", "size", "badSize"},
             tag : Vers]

VmTyped ==
  /\ conf \in Revs /\ init \in Revs
  /\ published \in [kernels : SUBSET Revs, roots : SUBSET (Vers \X Revs)]
  /\ B!TypeOK
  /\ vmPc \in [VmProcs -> VmLines] /\ DOMAIN req = VmProcs /\ DOMAIN why = VmProcs
  /\ \A p \in VmProcs : vmPc[p] # "idle" => req[p] \in Requests

\* What a build may count on at each step, whoever else builds.
Equipped(p) ==
  /\ vmPc[p] # "idle" => B!FetchNeeds \subseteq have
  /\ vmPc[p] \in {"bundle", "stage", "ready", "load"} => B!BakeNeeds(req[p].over) \subseteq have
  /\ vmPc[p] \in {"pack", "packRest", "rename"} => marker # 0
  /\ dockerd[p] => vmPc[p] \in {"ready", "load"} \/ (vmPc[p] = "idle" /\ why[p] = "killed")
  /\ why[p] # "bakeMissing"

VmInv == VmTyped /\ (\A p \in VmProcs : Equipped(p)) /\ B!ImageMarked

\* What a step of p leaves alone, and what it may do to the marker.
OwnStep(p) ==
  /\ UNCHANGED <<have, conf, init, published>>
  /\ \E s \in VmLines, b \in BOOLEAN : /\ vmPc' = [vmPc EXCEPT ![p] = s]
                                       /\ dockerd' = [dockerd EXCEPT ![p] = b]
  /\ DOMAIN req' = VmProcs /\ DOMAIN why' = VmProcs
  /\ \A q \in VmProcs : q # p => req'[q] = req[q] /\ why'[q] = why[q]
  /\ marker' = marker \/ marker' \in Vers

\* It disturbs no other build.
LEMMA OthersEquipped ==
  ASSUME VmInv, NEW p \in VmProcs, OwnStep(p), B!TypeOK', B!ImageMarked',
         vmPc'[p] # "idle" => req'[p] \in Requests, Equipped(p)'
  PROVE  VmInv'
<1>1. \A q \in VmProcs : q # p => vmPc'[q] = vmPc[q] /\ dockerd'[q] = dockerd[q]
  BY DEF OwnStep, VmInv, VmTyped, B!TypeOK
<1>2. marker # 0 => marker' # 0
  BY VmBuildsAssumption DEF OwnStep, B!VmBuildAssumption
<1>3. ASSUME NEW q \in VmProcs, q # p PROVE Equipped(q)'
  <2>1. Equipped(q)
    BY DEF VmInv
  <2> QED
    BY <1>1, <1>2, <1>3, <2>1 DEF OwnStep, Equipped, B!BakeNeeds, B!FetchNeeds
<1>4. VmTyped'
  <2>1. vmPc' \in [VmProcs -> VmLines]
    BY DEF OwnStep, VmInv, VmTyped
  <2> QED
    BY <1>1, <2>1 DEF OwnStep, VmInv, VmTyped
<1> QED
  BY <1>3, <1>4 DEF VmInv

\* A build starts.
LEMMA BuildVm ==
  ASSUME VmInv, NEW p \in VmProcs, B!Build(p)
  PROVE  VmInv'
<1>0. vmPc[p] = "idle" /\ Equipped(p) /\ B!TypeOK /\ B!ImageMarked
  BY DEF B!Build, VmInv, VmTyped
<1>1. PICK r \in Requests : req' = [req EXCEPT ![p] = r]
  <2>1. PICK v \in Vers, s \in BOOLEAN, o \in {"none", "image", "tar", "size", "badSize"}, t \in Vers :
          req' = [req EXCEPT ![p] = [ver |-> v, source |-> s, over |-> o,
                                     tag |-> IF o = "image" THEN t ELSE v]]
    BY DEF B!Build
  <2>2. PICK w \in Vers : w = IF o = "image" THEN t ELSE v
    OBVIOUS
  <2>3. [ver |-> v, source |-> s, over |-> o, tag |-> w] \in Requests
    BY DEF Requests
  <2> QED
    BY <2>1, <2>2, <2>3
<1>2. req'[p] = r /\ DOMAIN req' = VmProcs /\ \A q \in VmProcs : q # p => req'[q] = req[q]
  BY <1>1 DEF VmInv, VmTyped
<1>3. UNCHANGED <<have, conf, init, published, kernel, image, marker, torn>>
  BY DEF B!Build, B!host
<1>4. \/ /\ B!FetchNeeds \subseteq have /\ UNCHANGED why
         /\ \E s \in {"source", "fetchKernel"} : vmPc' = [vmPc EXCEPT ![p] = s]
         /\ dockerd' = [dockerd EXCEPT ![p] = FALSE]
      \/ /\ vmPc' = [vmPc EXCEPT ![p] = "idle"] /\ why' = [why EXCEPT ![p] = "preflight"]
         /\ dockerd' = [dockerd EXCEPT ![p] = FALSE]
  BY DEF B!Build, B!Raise
<1>5. /\ vmPc'[p] \in {"idle", "source", "fetchKernel"} /\ ~dockerd'[p] /\ why'[p] # "bakeMissing"
      /\ vmPc'[p] # "idle" => B!FetchNeeds \subseteq have
      /\ DOMAIN why' = VmProcs /\ \A q \in VmProcs : q # p => why'[q] = why[q]
  BY <1>0, <1>4 DEF VmInv, VmTyped, Equipped, B!TypeOK
<1>6. OwnStep(p)
  BY <1>2, <1>3, <1>4, <1>5 DEF OwnStep, VmLines
<1>7. B!TypeOK' /\ B!ImageMarked'
  BY <1>0, <1>3, <1>4 DEF B!TypeOK, B!ImageMarked
<1>8. Equipped(p)'
  BY <1>3, <1>5 DEF Equipped, B!FetchNeeds
<1> QED
  BY <1>1, <1>2, <1>6, <1>7, <1>8, OthersEquipped
\* A step after the start goes to the next line, or raises.
Moves(p, lines) ==
  /\ \E s \in lines : vmPc' = [vmPc EXCEPT ![p] = s]
  /\ UNCHANGED <<why, dockerd, last>>

Raises(p, reasons) ==
  /\ vmPc' = [vmPc EXCEPT ![p] = "idle"] /\ dockerd' = [dockerd EXCEPT ![p] = FALSE]
  /\ last' = 0
  /\ \E e \in reasons : why' = [why EXCEPT ![p] = e]

\* A step that moves on, or raises for another reason than a missing tool.
LEMMA MovesVm ==
  ASSUME VmInv, NEW p \in VmProcs, NEW lines \in SUBSET VmLines, "idle" \notin lines,
         UNCHANGED <<have, conf, init, published, req>>, vmPc[p] # "idle",
         Moves(p, lines) \/ Raises(p, {"missing", "failed", "preflight"}),
         marker' = marker \/ marker' \in Vers, B!TypeOK', B!ImageMarked',
         vmPc'[p] \in {"bundle", "stage", "ready", "load"} => B!BakeNeeds(req[p].over) \subseteq have,
         vmPc'[p] \in {"pack", "packRest", "rename"} => marker' # 0,
         dockerd[p] /\ vmPc'[p] # "idle" => vmPc'[p] \in {"ready", "load"}
  PROVE  VmInv'
<1>1. Equipped(p) /\ VmTyped /\ B!TypeOK
  BY DEF VmInv, VmTyped
<1>2. vmPc'[p] \in VmLines /\ (vmPc'[p] # "idle" => vmPc'[p] \in lines) /\ DOMAIN why' = VmProcs
  BY <1>1 DEF Moves, Raises, VmTyped, VmLines
<1>3. OwnStep(p)
  <2>1. CASE Moves(p, lines)
    <3>1. dockerd' = [dockerd EXCEPT ![p] = dockerd[p]] /\ dockerd[p] \in BOOLEAN
      BY <2>1, <1>1 DEF Moves, B!TypeOK
    <3> QED
      BY <2>1, <3>1, <1>1 DEF Moves, OwnStep, VmTyped
  <2>2. CASE Raises(p, {"missing", "failed", "preflight"})
    BY <2>2, <1>1 DEF Raises, OwnStep, VmTyped, VmLines
  <2> QED
    BY <2>1, <2>2
<1>4. vmPc'[p] # "idle" => req'[p] \in Requests
  BY <1>1 DEF VmTyped
<1>5. Equipped(p)'
  <2>1. CASE Moves(p, lines)
    <3>1. vmPc'[p] # "idle"
      BY <2>1, <1>1 DEF Moves, VmTyped
    <3> QED
      BY <2>1, <3>1, <1>1 DEF Moves, Equipped, B!FetchNeeds, B!BakeNeeds
  <2>2. CASE Raises(p, {"missing", "failed", "preflight"})
    <3>1. vmPc'[p] = "idle" /\ ~dockerd'[p] /\ why'[p] # "bakeMissing"
      BY <2>2, <1>1 DEF Raises, VmTyped, B!TypeOK
    <3> QED
      BY <3>1 DEF Equipped
  <2> QED
    BY <2>1, <2>2
<1> QED
  BY <1>3, <1>4, <1>5, OthersEquipped

\* The steps up to the rootfs.
LEMMA KernelVm ==
  ASSUME VmInv, NEW p \in VmProcs,
         B!FetchKernel(p) \/ B!Compile(p) \/ B!CopyKernel(p) \/ B!Rootfs(p) \/ B!FetchRootfs(p)
  PROVE  VmInv'
<1> DEFINE lines == {"rootfs", "source", "cp", "cpRest", "fetchRootfs", "fetched", "preflight"}
<1>0. Equipped(p) /\ VmTyped /\ B!TypeOK /\ B!ImageMarked
  BY DEF VmInv, VmTyped
<1>1. /\ UNCHANGED <<have, conf, init, published, req, image, marker, torn>>
      /\ vmPc[p] \in {"fetchKernel", "source", "cp", "cpRest", "rootfs", "fetchRootfs"}
      /\ \/ UNCHANGED kernel
         \/ kernel' = [conf |-> conf, how |-> "prebuilt", whole |-> TRUE]
         \/ kernel' = [conf |-> conf, how |-> "source", whole |-> FALSE]
         \/ kernel' = [kernel EXCEPT !.whole = TRUE]
  BY DEF B!FetchKernel, B!Compile, B!CopyKernel, B!Rootfs, B!FetchRootfs, B!host
<1>2. Moves(p, lines) \/ Raises(p, {"missing", "failed", "preflight"})
  BY DEF B!FetchKernel, B!Compile, B!CopyKernel, B!Rootfs, B!FetchRootfs, B!Go, B!Raise, Moves, Raises
<1>3. B!TypeOK'
  <2>1. kernel' \in [conf : Revs \cup {0}, how : {"none", "prebuilt", "source"}, whole : BOOLEAN]
    <3>1. conf \in Revs \cup {0}
      BY <1>0 DEF VmTyped
    <3>2. CASE kernel' = [conf |-> conf, how |-> "prebuilt", whole |-> TRUE]
      BY <3>1, <3>2
    <3>3. CASE kernel' = [conf |-> conf, how |-> "source", whole |-> FALSE]
      BY <3>1, <3>3
    <3>4. CASE kernel' = [kernel EXCEPT !.whole = TRUE]
      BY <1>0, <3>4 DEF B!TypeOK
    <3> QED
      BY <1>0, <1>1, <3>2, <3>3, <3>4 DEF B!TypeOK
  <2>2. dockerd' \in [VmProcs -> BOOLEAN]
    BY <1>0, <1>2 DEF Moves, Raises, B!TypeOK
  <2> QED
    BY <1>0, <1>1, <2>1, <2>2 DEF B!TypeOK
<1>4. B!ImageMarked'
  BY <1>0, <1>1 DEF B!ImageMarked, B!NoImage
<1>5. vmPc'[p] \in lines \cup {"idle"} /\ ~dockerd[p]
  BY <1>0, <1>1, <1>2 DEF Moves, Raises, VmTyped, Equipped
<1> QED
  BY <1>1, <1>2, <1>3, <1>4, <1>5, MovesVm DEF VmLines

\* The bake up to the image.
LEMMA BakeVm ==
  ASSUME VmInv, NEW p \in VmProcs,
         B!BakePreflight(p) \/ B!Bundle(p) \/ B!WaitReady(p)
  PROVE  VmInv'
<1> DEFINE lines == {"bundle", "stage", "ready", "load"}
<1>0. Equipped(p) /\ VmTyped /\ B!TypeOK /\ B!ImageMarked
  BY DEF VmInv, VmTyped
<1>1. /\ UNCHANGED <<have, conf, init, published, req, image, marker, torn, kernel>>
      /\ vmPc[p] \in {"preflight", "bundle", "ready"}
  BY DEF B!BakePreflight, B!Bundle, B!WaitReady, B!host
<1>2. /\ Moves(p, lines) \/ Raises(p, {"missing", "failed", "preflight"})
      /\ vmPc'[p] # "idle" => B!BakeNeeds(req[p].over) \subseteq have
      /\ dockerd[p] /\ vmPc'[p] # "idle" => vmPc'[p] \in {"ready", "load"}
  <2>1. CASE B!BakePreflight(p)
    <3>1. CASE B!BakeProblems(req[p].over) = {} /\ B!Go(p, "bundle")
      BY <3>1, <2>1, <1>0 DEF B!Go, Moves, B!BakeProblems, B!BakePreflight, Equipped
    <3>2. CASE B!Raise(p, "preflight")
      BY <3>2, <1>0 DEF B!Raise, Raises, VmTyped
    <3> QED
      BY <2>1, <3>1, <3>2 DEF B!BakePreflight
  <2>2. CASE B!Bundle(p)
    <3>1. vmPc[p] = "bundle" /\ B!BakeNeeds(req[p].over) \subseteq have /\ "curlTar" \in have /\ ~dockerd[p]
      BY <2>2, <1>0 DEF B!Bundle, Equipped, B!FetchNeeds
    <3>2. {"curlTar", "bins", "x86"} \subseteq have
      BY <3>1 DEF B!BakeNeeds
    <3>3. B!Go(p, "stage") \/ B!Raise(p, "failed")
      BY <2>2, <3>2 DEF B!Bundle
    <3> QED
      BY <3>1, <3>3, <1>0 DEF B!Go, B!Raise, Moves, Raises, VmTyped
  <2>3. CASE B!WaitReady(p)
    <3>1. vmPc[p] = "ready" /\ B!BakeNeeds(req[p].over) \subseteq have
      BY <2>3, <1>0 DEF B!WaitReady, Equipped
    <3>2. "root" \in have
      BY <3>1 DEF B!BakeNeeds
    <3>3. \/ B!Go(p, "load")
          \/ UNCHANGED <<vmPc, why, dockerd, last>>
          \/ B!Raise(p, "failed")
      BY <2>3, <3>2 DEF B!WaitReady
    <3>4. CASE B!Go(p, "load")
      BY <3>1, <3>4, <1>0 DEF B!Go, Moves, VmTyped
    <3>5. CASE UNCHANGED <<vmPc, why, dockerd, last>>
      <4>1. vmPc' = [vmPc EXCEPT ![p] = "ready"]
        BY <3>1, <3>5, <1>0 DEF VmTyped
      <4> QED
        BY <3>1, <3>5, <4>1 DEF Moves
    <3>6. CASE B!Raise(p, "failed")
      BY <3>1, <3>6, <1>0 DEF B!Raise, Raises, VmTyped
    <3> QED
      BY <3>3, <3>4, <3>5, <3>6
  <2> QED
    BY <2>1, <2>2, <2>3
<1>3. B!TypeOK'
  <2>1. dockerd' \in [VmProcs -> BOOLEAN]
    BY <1>0, <1>2 DEF Moves, Raises, B!TypeOK
  <2> QED
    BY <1>0, <1>1, <2>1 DEF B!TypeOK
<1>4. B!ImageMarked'
  BY <1>0, <1>1 DEF B!ImageMarked, B!NoImage
<1>5. vmPc'[p] \in lines \cup {"idle"}
  BY <1>0, <1>2 DEF Moves, Raises, VmTyped
<1> QED
  BY <1>1, <1>2, <1>3, <1>4, <1>5, MovesVm DEF VmLines

\* dockerd is started, and stopped.
LEMMA DockerdVm ==
  ASSUME VmInv, NEW p \in VmProcs, B!Stage(p) \/ B!Load(p)
  PROVE  VmInv'
<1>0. /\ Equipped(p) /\ VmTyped /\ B!TypeOK /\ B!ImageMarked
      /\ vmPc[p] \in {"stage", "load"} /\ B!BakeNeeds(req[p].over) \subseteq have
  BY DEF VmInv, VmTyped, Equipped, B!Stage, B!Load
<1>1. UNCHANGED <<have, conf, init, published, req, image, marker, torn, kernel>>
  BY DEF B!Stage, B!Load, B!host
<1>2. \/ /\ vmPc' = [vmPc EXCEPT ![p] = "ready"] /\ dockerd' = [dockerd EXCEPT ![p] = TRUE]
         /\ UNCHANGED why
      \/ /\ vmPc' = [vmPc EXCEPT ![p] = "tree"] /\ dockerd' = [dockerd EXCEPT ![p] = FALSE]
         /\ UNCHANGED why
      \/ Raises(p, {"failed"})
  <2>1. (IF req[p].over = "tar" THEN "tarball" ELSE "daemon") \in have
    BY <1>0 DEF B!BakeNeeds
  <2> QED
    BY <2>1 DEF B!Stage, B!Load, B!Raise, Raises
<1>3. /\ dockerd' \in [VmProcs -> BOOLEAN] /\ why'[p] # "bakeMissing" /\ DOMAIN why' = VmProcs
      /\ \A q \in VmProcs : q # p => why'[q] = why[q]
      /\ vmPc'[p] \in {"ready", "tree", "idle"} /\ (dockerd'[p] => vmPc'[p] = "ready")
  BY <1>0, <1>2 DEF Raises, VmTyped, Equipped, B!TypeOK
<1>4. B!TypeOK' /\ B!ImageMarked'
  BY <1>0, <1>1, <1>3 DEF B!TypeOK, B!ImageMarked, B!NoImage
<1>5. OwnStep(p)
  <2>1. \E s \in VmLines, b \in BOOLEAN : /\ vmPc' = [vmPc EXCEPT ![p] = s]
                                          /\ dockerd' = [dockerd EXCEPT ![p] = b]
    BY <1>2 DEF VmLines, Raises
  <2> QED
    BY <1>0, <1>1, <1>3, <2>1 DEF OwnStep, VmTyped
<1>6. Equipped(p)'
  BY <1>0, <1>1, <1>3 DEF Equipped, B!BakeNeeds, B!FetchNeeds
<1>7. req'[p] \in Requests
  BY <1>0, <1>1 DEF VmTyped
<1> QED
  BY <1>4, <1>5, <1>6, <1>7, OthersEquipped

\* The marker and the image.
LEMMA ImageVm ==
  ASSUME VmInv, NEW p \in VmProcs,
         B!TreeDone(p) \/ B!WriteMarker(p) \/ B!PackImage(p) \/ B!RenameImage(p)
  PROVE  VmInv'
<1> DEFINE lines == {"markBaked", "pack", "packRest", "markFetched", "rename", "done"}
<1>0. Equipped(p) /\ VmTyped /\ B!TypeOK /\ B!ImageMarked
  BY DEF VmInv, VmTyped
<1>1. /\ UNCHANGED <<have, conf, init, published, req, kernel>>
      /\ vmPc[p] \in {"tree", "fetched", "markBaked", "markFetched", "pack", "packRest", "rename"}
  BY DEF B!TreeDone, B!WriteMarker, B!PackImage, B!RenameImage, B!host
<1>2. req[p] \in Requests /\ ~dockerd[p]
  BY <1>0, <1>1 DEF VmTyped, Equipped
<1>3. Moves(p, lines) \/ Raises(p, {"missing", "failed", "preflight"})
  BY <1>1 DEF B!TreeDone, B!WriteMarker, B!PackImage, B!RenameImage, B!After, B!Go, B!Raise,
              Moves, Raises
<1>4. /\ vmPc[p] \in {"markBaked", "markFetched"} => marker' \in Vers /\ image' = image
      /\ vmPc[p] \notin {"markBaked", "markFetched"} => marker' = marker
  BY <1>2 DEF B!TreeDone, B!WriteMarker, B!PackImage, B!RenameImage, B!BakedVersion, Requests
<1>5. marker' \in Vers \cup {0} /\ (marker # 0 => marker' # 0)
      /\ (vmPc[p] \in {"markBaked", "markFetched", "pack", "packRest", "rename"} => marker' # 0)
  BY <1>0, <1>4, VmBuildsAssumption DEF B!TypeOK, B!VmBuildAssumption, Equipped
<1>6. /\ image' \in [ver : Vers \cup {0}, init : Revs \cup {0}, how : {"none", "prebuilt", "baked"},
                     whole : BOOLEAN]
      /\ image' # image => vmPc[p] \in {"pack", "packRest", "rename"}
  <2>1. \/ image' = image
        \/ /\ image' = [ver |-> req[p].tag, init |-> init, how |-> "baked", whole |-> FALSE]
           /\ vmPc[p] = "pack"
        \/ image' = [image EXCEPT !.whole = TRUE] /\ vmPc[p] = "packRest"
        \/ /\ \E f \in published.roots :
                image' = [ver |-> f[1], init |-> f[2], how |-> "prebuilt", whole |-> TRUE]
           /\ vmPc[p] = "rename"
    BY DEF B!TreeDone, B!WriteMarker, B!PackImage, B!RenameImage, B!FingerprintOf
  <2>2. \A f \in published.roots : f[1] \in Vers /\ f[2] \in Revs
    BY <1>0 DEF VmTyped
  <2>3. CASE image' = [ver |-> req[p].tag, init |-> init, how |-> "baked", whole |-> FALSE]
    <3>1. req[p].tag \in Vers \cup {0} /\ init \in Revs \cup {0}
      BY <1>0, <1>2 DEF Requests, VmTyped
    <3> QED
      BY <2>1, <2>3, <3>1
  <2>4. CASE image' = [image EXCEPT !.whole = TRUE]
    BY <2>1, <2>4, <1>0 DEF B!TypeOK
  <2>5. ASSUME NEW f \in published.roots,
               image' = [ver |-> f[1], init |-> f[2], how |-> "prebuilt", whole |-> TRUE]
        PROVE  image' \in [ver : Vers \cup {0}, init : Revs \cup {0},
                           how : {"none", "prebuilt", "baked"}, whole : BOOLEAN]
    <3>1. f[1] \in Vers \cup {0} /\ f[2] \in Revs \cup {0}
      BY <2>2
    <3> QED
      BY <2>5, <3>1
  <2> QED
    BY <1>0, <2>1, <2>3, <2>4, <2>5 DEF B!TypeOK
<1>7. B!TypeOK'
  <2>1. dockerd' \in [VmProcs -> BOOLEAN]
    BY <1>0, <1>3 DEF Moves, Raises, B!TypeOK
  <2>2. torn' \in BOOLEAN
    BY <1>0 DEF B!TreeDone, B!WriteMarker, B!PackImage, B!RenameImage, B!TypeOK
  <2> QED
    BY <1>0, <1>1, <1>5, <1>6, <2>1, <2>2 DEF B!TypeOK
<1>8. B!ImageMarked'
  BY <1>0, <1>5, <1>6 DEF B!ImageMarked, B!NoImage
<1>9. /\ vmPc'[p] \in lines \cup {"idle"}
      /\ vmPc'[p] \in {"pack", "packRest", "rename"} => marker' # 0
  <2>1. vmPc'[p] \in lines \cup {"idle"}
    BY <1>0, <1>3 DEF Moves, Raises, VmTyped
  <2>2. vmPc'[p] \in {"pack", "packRest", "rename"} =>
          vmPc[p] \in {"markBaked", "markFetched", "pack"}
    BY <1>0 DEF B!TreeDone, B!WriteMarker, B!PackImage, B!RenameImage, B!After, B!Go, B!Raise, VmTyped
  <2> QED
    BY <2>1, <2>2, <1>5
<1>10. marker' = marker \/ marker' \in Vers
  BY <1>4
<1> QED
  BY <1>1, <1>2, <1>3, <1>7, <1>8, <1>9, <1>10, MovesVm DEF VmLines

\* A build returns, or is killed.
LEMMA EndVm ==
  ASSUME VmInv, NEW p \in VmProcs, B!Finish(p) \/ B!Kill(p)
  PROVE  VmInv'
<1>0. Equipped(p) /\ VmTyped /\ B!TypeOK /\ B!ImageMarked
  BY DEF VmInv, VmTyped
<1>1. /\ UNCHANGED <<have, conf, init, published, req, image, marker, torn, kernel, dockerd>>
      /\ vmPc[p] # "idle" /\ vmPc' = [vmPc EXCEPT ![p] = "idle"]
      /\ \/ why' = [why EXCEPT ![p] = "killed"]
         \/ vmPc[p] = "done" /\ why' = [why EXCEPT ![p] = "ok"]
  BY DEF B!Finish, B!Return, B!Kill, B!host
<1>2. OwnStep(p)
  <2>1. dockerd' = [dockerd EXCEPT ![p] = dockerd[p]] /\ dockerd[p] \in BOOLEAN
    BY <1>0, <1>1 DEF B!TypeOK
  <2> QED
    BY <1>0, <1>1, <2>1 DEF OwnStep, VmTyped, VmLines
<1>3. B!TypeOK' /\ B!ImageMarked' /\ vmPc'[p] = "idle"
  BY <1>0, <1>1 DEF B!TypeOK, B!ImageMarked, B!NoImage, VmTyped
<1>4. Equipped(p)'
  BY <1>0, <1>1, <1>3 DEF Equipped, VmTyped
<1> QED
  BY <1>2, <1>3, <1>4, OthersEquipped

\* The invariant holds before the first build.
LEMMA InitVm == B!Init => VmInv
<1> SUFFICES ASSUME B!Init PROVE VmInv
  OBVIOUS
<1>1. torn \in BOOLEAN
  BY DEF B!Init
<1> QED
  BY <1>1, VmBuildsAssumption
     DEF B!Init, B!VmBuildAssumption, B!NoKernel, B!NoImage, B!TypeOK, B!ImageMarked, VmInv,
         VmTyped, Equipped, VmLines

\* Every step keeps it, whatever races and is killed.
LEMMA NextVm == VmInv /\ B!Next => VmInv'
<1> SUFFICES ASSUME VmInv, B!Next PROVE VmInv'
  OBVIOUS
<1>1. ASSUME NEW v \in Vers, B!Up(v) PROVE VmInv'
  BY <1>1 DEF B!Up, B!host, VmInv, VmTyped, Equipped, B!TypeOK, B!ImageMarked, B!NoImage,
              B!FetchNeeds, B!BakeNeeds
<1> QED
  BY <1>1, BuildVm, KernelVm, BakeVm, DockerdVm, ImageVm, EndVm DEF B!Next, B!Builder

-----------------------------------------------------------------------------
(* One build after another, none killed.                                   *)

\* No two builds run.
VmAlone == \A p, q \in VmProcs : vmPc[p] # "idle" /\ vmPc[q] # "idle" => p = q

\* The kernel that build p was asked for.
KernelDone(p) == kernel.whole /\ kernel.conf = conf /\ (req[p].source => kernel.how = "source")

\* The rootfs that build p was asked for, and its marker.
ImageDone(p) ==
  /\ image.whole /\ image.ver = req[p].tag /\ image.init = init /\ marker = image.ver
  /\ req[p].source \/ req[p].over # "none" => image.how = "baked"

\* What the only build has done so far.
Progress(p) ==
  /\ vmPc[p] # "idle" => last = 0 /\ (req[p].over = "none" => req[p].tag = req[p].ver)
  /\ vmPc[p] = "fetchKernel" => ~req[p].source
  /\ vmPc[p] = "cpRest" => kernel.conf = conf /\ kernel.how = "source"
  /\ vmPc[p] \notin {"idle", "fetchKernel", "source", "cp", "cpRest"} => KernelDone(p)
  /\ vmPc[p] \in {"fetchRootfs", "fetched", "markFetched", "rename"} => B!FetchesRootfs(req[p])
  /\ vmPc[p] \in {"pack", "rename"} => marker = req[p].tag
  /\ vmPc[p] = "packRest" =>
       /\ marker = req[p].tag
       /\ image = [ver |-> req[p].tag, init |-> init, how |-> "baked", whole |-> FALSE]
  /\ vmPc[p] = "done" => ImageDone(p)

\* A whole image has the version its marker says, except where the old image is
\* still there when the marker already announces the new one.
MarkerTrue == image.whole => image.ver = marker \/ torn

\* What the last build to end left is still there.
LastDone == last # 0 => last \in VmProcs /\ B!Quiet /\ KernelDone(last) /\ ImageDone(last)

SerialInv ==
  /\ VmInv /\ vmBuilds \in Nat /\ vmKills = 0
  /\ VmAlone /\ (\A p \in VmProcs : Progress(p)) /\ MarkerTrue /\ LastDone /\ B!SkewNoticed
\* When one build runs, the others are idle, and what it owes is all that is left to show.
LEMMA OnlyBuild ==
  ASSUME SerialInv, NEW p \in VmProcs, VmInv', B!Quiet \/ vmPc[p] # "idle",
         \E s : vmPc' = [vmPc EXCEPT ![p] = s],
         Progress(p)', MarkerTrue', LastDone',
         vmBuilds' \in Nat, vmKills' = 0, UNCHANGED skew
  PROVE  SerialInv'
<1>1. \A q \in VmProcs : q # p => vmPc[q] = "idle"
  BY DEF SerialInv, VmAlone, B!Quiet
<1>2. \A q \in VmProcs : q # p => vmPc'[q] = "idle"
  BY <1>1 DEF SerialInv, VmInv, VmTyped
<1>3. VmAlone'
  BY <1>2 DEF VmAlone
<1>4. \A q \in VmProcs : Progress(q)'
  BY <1>2 DEF Progress
<1> QED
  BY <1>3, <1>4 DEF SerialInv, B!SkewNoticed

\* What the step of the only build finds.
LEMMA Found ==
  ASSUME SerialInv, NEW p \in VmProcs, vmPc[p] # "idle"
  PROVE  /\ VmTyped /\ Progress(p) /\ last = 0 /\ req[p] \in Requests
         /\ image.whole => image.ver = marker \/ torn
BY DEF SerialInv, VmInv, VmTyped, VmAlone, Progress, MarkerTrue

\* A build starts where none runs.
LEMMA BuildSerial ==
  ASSUME SerialInv, NEW p \in VmProcs, B!Build(p), B!Quiet, vmKills' = 0
  PROVE  SerialInv'
<1>1. VmInv'
  BY BuildVm DEF SerialInv
<1>2. PICK v \in Vers, s \in BOOLEAN, o \in {"none", "image", "tar", "size", "badSize"}, t \in Vers :
        req' = [req EXCEPT ![p] = [ver |-> v, source |-> s, over |-> o,
                                   tag |-> IF o = "image" THEN t ELSE v]]
  BY DEF B!Build
<1>3. req'[p] = [ver |-> v, source |-> s, over |-> o, tag |-> IF o = "image" THEN t ELSE v]
  BY <1>2 DEF SerialInv, VmInv, VmTyped
<1>4. req'[p].source = s /\ (req'[p].over = "none" => req'[p].tag = req'[p].ver)
  BY <1>3
<1>5. /\ last' = 0 /\ UNCHANGED <<have, conf, init, published, kernel, image, marker, torn, skew>>
      /\ \E l \in {"idle", "source", "fetchKernel"} :
           vmPc' = [vmPc EXCEPT ![p] = l] /\ (l = "fetchKernel" => ~req'[p].source)
  BY <1>4 DEF B!Build, B!Raise, B!host
<1>6. vmPc'[p] \in {"idle", "source", "fetchKernel"} /\ (vmPc'[p] = "fetchKernel" => ~req'[p].source)
  BY <1>5 DEF SerialInv, VmInv, VmTyped
<1>7. Progress(p)'
  BY <1>4, <1>5, <1>6 DEF Progress
<1>8. MarkerTrue'
  BY <1>5 DEF SerialInv, MarkerTrue
<1>9. vmBuilds' \in Nat
  BY DEF B!Build, SerialInv
<1> QED
  BY <1>1, <1>5, <1>7, <1>8, <1>9, OnlyBuild DEF LastDone

\* The steps of the only build before the marker.
LEMMA WorkSerial ==
  ASSUME SerialInv, NEW p \in VmProcs, VmInv', vmKills' = 0,
         \/ B!FetchKernel(p) \/ B!Compile(p) \/ B!CopyKernel(p) \/ B!Rootfs(p) \/ B!FetchRootfs(p)
         \/ B!BakePreflight(p) \/ B!Bundle(p) \/ B!Stage(p) \/ B!WaitReady(p) \/ B!Load(p)
         \/ B!TreeDone(p)
  PROVE  SerialInv'
<1>0. vmPc[p] \in {"fetchKernel", "source", "cp", "cpRest", "rootfs", "fetchRootfs", "preflight",
                   "bundle", "stage", "ready", "load", "tree", "fetched"}
  BY DEF B!FetchKernel, B!Compile, B!CopyKernel, B!Rootfs, B!FetchRootfs, B!BakePreflight, B!Bundle,
         B!Stage, B!WaitReady, B!Load, B!TreeDone
<1>1. /\ VmTyped /\ Progress(p) /\ last = 0 /\ req[p] \in Requests
      /\ image.whole => image.ver = marker \/ torn
  BY <1>0, Found
<1>2. /\ UNCHANGED <<conf, init, req, image, marker, torn, skew, vmBuilds>>
      /\ last' = 0
      /\ vmPc[p] \notin {"fetchKernel", "cp", "cpRest"} => UNCHANGED kernel
  BY <1>1 DEF B!FetchKernel, B!Compile, B!CopyKernel, B!Rootfs, B!FetchRootfs, B!BakePreflight,
         B!Bundle, B!Stage, B!WaitReady, B!Load, B!TreeDone, B!host, B!Go, B!Raise
<1>3. PICK s \in {"idle", "fetchKernel", "rootfs", "source", "cp", "cpRest", "fetchRootfs",
                  "fetched", "preflight", "bundle", "stage", "ready", "load", "tree", "markBaked", "markFetched"} :
        vmPc' = [vmPc EXCEPT ![p] = s]
  <2>1. CASE UNCHANGED vmPc
    <3>1. vmPc' = [vmPc EXCEPT ![p] = vmPc[p]]
      BY <2>1, <1>1 DEF VmTyped
    <3> QED
      BY <1>0, <3>1
  <2>2. CASE vmPc' # vmPc
    BY <2>2 DEF B!FetchKernel, B!Compile, B!CopyKernel, B!Rootfs, B!FetchRootfs, B!BakePreflight,
         B!Bundle, B!Stage, B!WaitReady, B!Load, B!TreeDone, B!Go, B!Raise, B!After
  <2> QED
    BY <2>1, <2>2
<1>4. vmPc'[p] = s
  BY <1>1, <1>3 DEF VmTyped
<1>5. /\ s = "fetchKernel" => ~req[p].source
      /\ s = "cpRest" => kernel'.conf = conf /\ kernel'.how = "source"
      /\ s \notin {"idle", "fetchKernel", "source", "cp", "cpRest"} =>
           kernel'.whole /\ kernel'.conf = conf /\ (req[p].source => kernel'.how = "source")
      /\ s \in {"fetchRootfs", "fetched", "markFetched"} => B!FetchesRootfs(req[p])
  <2>1. CASE B!FetchKernel(p)
    BY <2>1, <1>1, <1>4 DEF B!FetchKernel, B!Go, B!Raise, Progress, VmTyped
  <2>2. CASE B!Compile(p) \/ B!CopyKernel(p)
    <3>1. vmPc[p] = "cpRest" => kernel'.whole /\ kernel'.conf = conf /\ kernel'.how = "source"
      BY <2>2, <1>1 DEF B!Compile, B!CopyKernel, Progress, VmTyped, B!TypeOK
    <3>2. vmPc[p] = "cp" => kernel'.conf = conf /\ kernel'.how = "source"
      BY <2>2 DEF B!Compile, B!CopyKernel
    <3>3. /\ vmPc[p] = "cp" => s = "cpRest"
          /\ vmPc[p] = "cpRest" => s = "rootfs"
          /\ vmPc[p] = "source" => s \in {"idle", "cp"}
          /\ vmPc[p] \in {"source", "cp", "cpRest"}
      BY <2>2, <1>1, <1>4 DEF B!Compile, B!CopyKernel, B!Go, B!Raise, VmTyped
    <3> QED
      BY <3>1, <3>2, <3>3
  <2>3. CASE B!Rootfs(p) \/ B!FetchRootfs(p)
    BY <2>3, <1>1, <1>2, <1>4
       DEF B!Rootfs, B!FetchRootfs, B!Go, B!Raise, Progress, KernelDone, VmTyped, B!FetchesRootfs
  <2>4. CASE \/ B!BakePreflight(p) \/ B!Bundle(p) \/ B!Stage(p) \/ B!WaitReady(p) \/ B!Load(p)
             \/ B!TreeDone(p)
    <3>1. /\ vmPc[p] \in {"preflight", "bundle", "stage", "ready", "load", "tree", "fetched"}
          /\ s \in {"idle", "bundle", "stage", "ready", "load", "tree", "markBaked", "markFetched"}
          /\ s = "markFetched" => vmPc[p] = "fetched"
      BY <2>4, <1>1, <1>4
         DEF B!BakePreflight, B!Bundle, B!Stage, B!WaitReady, B!Load, B!TreeDone, B!Go, B!Raise,
             B!After, VmTyped
    <3> QED
      BY <3>1, <1>1, <1>2 DEF Progress, KernelDone
  <2> QED
    BY <2>1, <2>2, <2>3, <2>4
<1>6. Progress(p)'
  BY <1>0, <1>1, <1>2, <1>3, <1>4, <1>5 DEF Progress, KernelDone, B!FetchesRootfs
<1>7. MarkerTrue' /\ LastDone'
  BY <1>1, <1>2 DEF MarkerTrue, LastDone
<1>8. vmBuilds' \in Nat
  BY <1>2 DEF SerialInv
<1> QED
  BY <1>0, <1>2, <1>3, <1>6, <1>7, <1>8, OnlyBuild

\* The marker, then the image it announces.
LEMMA ImageSerial ==
  ASSUME SerialInv, NEW p \in VmProcs, VmInv', vmKills' = 0,
         B!WriteMarker(p) \/ B!PackImage(p) \/ B!RenameImage(p)
  PROVE  SerialInv'
<1>0. vmPc[p] \in {"markBaked", "markFetched", "pack", "packRest", "rename"}
  BY DEF B!WriteMarker, B!PackImage, B!RenameImage
<1>1. /\ VmTyped /\ Progress(p) /\ last = 0 /\ req[p] \in Requests
      /\ KernelDone(p) /\ (req[p].over = "none" => req[p].tag = req[p].ver)
      /\ image.whole => image.ver = marker \/ torn
  BY <1>0, Found DEF Progress
<1>2. UNCHANGED <<conf, init, req, kernel, skew, vmBuilds>> /\ last' = 0
  BY <1>1 DEF B!WriteMarker, B!PackImage, B!RenameImage, B!host, B!Go, B!Raise
<1>3. PICK s \in {"idle", "pack", "packRest", "rename", "done"} : vmPc' = [vmPc EXCEPT ![p] = s]
  BY DEF B!WriteMarker, B!PackImage, B!RenameImage, B!Go, B!Raise, B!After
<1>4. vmPc'[p] = s
  BY <1>1, <1>3 DEF VmTyped
<1>5. KernelDone(p)'
  BY <1>1, <1>2 DEF KernelDone
<1>6. CASE B!WriteMarker(p)
  <2>1. /\ s \in {"pack", "rename"} /\ marker' = req[p].tag /\ torn' = TRUE
        /\ s = "rename" => B!FetchesRootfs(req[p])
    BY <1>6, <1>1, <1>4
       DEF B!WriteMarker, B!BakedVersion, B!After, B!Go, Progress, B!FetchesRootfs, VmTyped
  <2>2. Progress(p)'
    BY <2>1, <1>1, <1>2, <1>4, <1>5 DEF Progress, B!FetchesRootfs
  <2>3. MarkerTrue'
    BY <2>1 DEF MarkerTrue
  <2> QED
    BY <1>0, <1>2, <1>3, <2>2, <2>3, OnlyBuild DEF LastDone, SerialInv
<1>7. CASE B!PackImage(p) /\ vmPc[p] = "pack"
  <2>1. /\ marker' = req[p].tag
        /\ \/ /\ s = "packRest"
              /\ image' = [ver |-> req[p].tag, init |-> init, how |-> "baked", whole |-> FALSE]
           \/ s = "idle" /\ UNCHANGED <<image, marker, torn>>
    BY <1>7, <1>1, <1>4 DEF B!PackImage, B!Go, B!Raise, Progress, VmTyped
  <2>2. Progress(p)'
    BY <2>1, <1>1, <1>2, <1>4, <1>5 DEF Progress
  <2>3. MarkerTrue'
    BY <2>1, <1>1 DEF MarkerTrue
  <2> QED
    BY <1>0, <1>2, <1>3, <2>2, <2>3, OnlyBuild DEF LastDone, SerialInv
<1>8. CASE B!PackImage(p) /\ vmPc[p] = "packRest"
  <2>1. /\ marker' = req[p].tag /\ image'.ver = req[p].tag /\ image'.init = init
        /\ image'.how = "baked"
        /\ \/ s = "idle" /\ ~image'.whole
           \/ s = "done" /\ image'.whole
    BY <1>8, <1>1, <1>4 DEF B!PackImage, B!Go, B!Raise, B!After, Progress, VmTyped
  <2>2. Progress(p)'
    BY <2>1, <1>1, <1>2, <1>4, <1>5 DEF Progress, ImageDone
  <2>3. MarkerTrue'
    BY <2>1 DEF MarkerTrue
  <2> QED
    BY <1>0, <1>2, <1>3, <2>2, <2>3, OnlyBuild DEF LastDone, SerialInv
<1>9. CASE B!RenameImage(p)
  <2>1. /\ vmPc[p] = "rename" /\ marker = req[p].tag /\ req[p].tag = req[p].ver
        /\ ~req[p].source /\ req[p].over = "none"
    BY <1>9, <1>1 DEF B!RenameImage, Progress, B!FetchesRootfs
  <2>2. PICK f \in B!FingerprintOf(req[p].ver) :
          image' = [ver |-> f[1], init |-> f[2], how |-> "prebuilt", whole |-> TRUE]
    BY <1>9 DEF B!RenameImage
  <2>3. f[1] = req[p].ver /\ f[2] = init
    BY <2>2 DEF B!FingerprintOf
  <2>4. s = "done" /\ marker' = marker
    BY <1>9, <1>1, <1>4 DEF B!RenameImage, B!Go, B!After, VmTyped
  <2>5. Progress(p)'
    BY <2>1, <2>2, <2>3, <2>4, <1>1, <1>2, <1>4, <1>5 DEF Progress, ImageDone
  <2>6. MarkerTrue'
    BY <2>1, <2>2, <2>3, <2>4 DEF MarkerTrue
  <2> QED
    BY <1>0, <1>2, <1>3, <2>5, <2>6, OnlyBuild DEF LastDone, SerialInv
<1> QED
  BY <1>6, <1>7, <1>8, <1>9 DEF B!PackImage

\* The build returns.
LEMMA FinishSerial ==
  ASSUME SerialInv, NEW p \in VmProcs, VmInv', vmKills' = 0, B!Finish(p)
  PROVE  SerialInv'
<1>0. vmPc[p] = "done"
  BY DEF B!Finish
<1>1. /\ VmTyped /\ KernelDone(p) /\ ImageDone(p) /\ (image.whole => image.ver = marker \/ torn)
  BY <1>0, Found DEF Progress
<1>2. /\ UNCHANGED <<conf, init, req, image, marker, torn, kernel, skew, vmBuilds>>
      /\ vmPc' = [vmPc EXCEPT ![p] = "idle"] /\ last' \in {p, 0}
  BY DEF B!Finish, B!Return, B!host
<1>3. \A q \in VmProcs : vmPc'[q] = "idle"
  BY <1>0, <1>1, <1>2 DEF VmTyped, SerialInv, VmAlone
<1>4. Progress(p)' /\ MarkerTrue'
  BY <1>1, <1>2, <1>3 DEF Progress, MarkerTrue
<1>5. LastDone'
  BY <1>1, <1>2, <1>3 DEF LastDone, B!Quiet, KernelDone, ImageDone
<1> QED
  BY <1>0, <1>2, <1>4, <1>5, OnlyBuild DEF SerialInv

\* An `up` on a rootfs whose marker is true, or announces an image that never came.
LEMMA UpSerial ==
  ASSUME SerialInv, NEW v \in Vers, B!Up(v), skew' = skew \/ B!Quiet
  PROVE  SerialInv'
<1>1. /\ UNCHANGED <<have, conf, init, published, kernel, image, marker, torn, vmPc, req, why, dockerd,
                     last, vmBuilds, vmKills>>
      /\ image.whole
      /\ skew' = [want |-> v, real |-> image.ver, warned |-> marker \notin {0, v}, torn |-> torn]
  BY DEF B!Up, B!host
<1>2. VmInv'
  BY NextVm DEF SerialInv, B!Next
<1>3. B!SkewNoticed'
  <2>1. CASE skew' = skew
    BY <2>1 DEF SerialInv, B!SkewNoticed
  <2>2. CASE B!Quiet
    <3>1. image.ver = marker \/ torn
      BY <1>1 DEF SerialInv, MarkerTrue
    <3>2. marker # 0
      BY <1>1 DEF SerialInv, VmInv, B!ImageMarked, B!NoImage
    <3> QED
      BY <1>1, <3>1, <3>2 DEF B!SkewNoticed
  <2> QED
    BY <2>1, <2>2
<1>4. VmAlone' /\ MarkerTrue' /\ vmBuilds' \in Nat /\ vmKills' = 0
  BY <1>1 DEF SerialInv, VmAlone, MarkerTrue
<1>5. LastDone' /\ \A p \in VmProcs : Progress(p)'
  BY <1>1 DEF SerialInv, LastDone, Progress, KernelDone, ImageDone, B!Quiet, B!FetchesRootfs
<1> QED
  BY <1>2, <1>3, <1>4, <1>5 DEF SerialInv

\* Every step of a scene without race keeps it.
LEMMA NextSerial ==
  ASSUME SerialInv, scene # "race", B!Next, Scene
  PROVE  SerialInv'
<1>1. VmInv'
  BY NextVm DEF SerialInv
<1>2. vmKills' = 0 /\ (vmBuilds' # vmBuilds \/ skew' # skew => B!Quiet)
  BY DEF Scene
<1>3. ASSUME NEW p \in VmProcs, B!Build(p) PROVE SerialInv'
  <2>1. vmBuilds' # vmBuilds
    BY <1>3 DEF B!Build, SerialInv
  <2> QED
    BY <1>2, <1>3, <2>1, BuildSerial
<1>4. ASSUME NEW p \in VmProcs, B!Kill(p) PROVE FALSE
  BY <1>2, <1>4 DEF B!Kill, SerialInv
<1> QED
  BY <1>1, <1>2, <1>3, <1>4, WorkSerial, ImageSerial, FinishSerial, UpSerial DEF B!Next, B!Builder

-----------------------------------------------------------------------------

\* The invariant of every scene.
ScenesInv == VmInv /\ (scene # "race" => SerialInv)

\* It is one.
LEMMA ScenesInductive == SceneSpec => []ScenesInv
<1>1. SceneInit => ScenesInv
  <2> SUFFICES ASSUME SceneInit PROVE VmInv /\ SerialInv
    BY DEF ScenesInv
  <2>1. VmInv
    BY InitVm DEF SceneInit
  <2>2. /\ \A p \in VmProcs : vmPc[p] = "idle"
        /\ image = B!NoImage /\ last = 0 /\ vmBuilds = 0 /\ vmKills = 0 /\ skew = B!NoBoot
    BY DEF SceneInit, B!Init
  <2>3. ~image.whole /\ B!SkewNoticed
    BY <2>2 DEF B!NoImage, B!NoBoot, B!SkewNoticed
  <2>4. VmAlone /\ MarkerTrue /\ LastDone /\ \A p \in VmProcs : Progress(p)
    BY <2>2, <2>3 DEF VmAlone, MarkerTrue, LastDone, Progress
  <2> QED
    BY <2>1, <2>2, <2>3, <2>4 DEF SerialInv
<1>2. ScenesInv /\ [SceneNext]_<<scene, vars, vmVars>> => ScenesInv'
  <2> SUFFICES ASSUME ScenesInv, [SceneNext]_<<scene, vars, vmVars>> PROVE ScenesInv'
    OBVIOUS
  <2>1. scene' = scene
    BY DEF SceneNext
  <2>2. CASE UNCHANGED vmVars
    <3>1. VmInv'
      BY <2>2 DEF vmVars, ScenesInv, VmInv, VmTyped, Equipped, B!TypeOK, B!ImageMarked, B!NoImage,
                  B!FetchNeeds, B!BakeNeeds
    <3>2. SerialInv => SerialInv'
      BY <2>2, <3>1 DEF vmVars, SerialInv, VmAlone, Progress, KernelDone, ImageDone, MarkerTrue,
                        LastDone, B!Quiet, B!SkewNoticed, B!FetchesRootfs
    <3> QED
      BY <2>1, <3>1, <3>2 DEF ScenesInv
  <2>3. CASE B!Next /\ Scene
    BY <2>1, <2>3, NextVm, NextSerial DEF ScenesInv
  <2> QED
    BY <2>2, <2>3 DEF SceneNext
<1> QED
  BY <1>1, <1>2, PTL DEF SceneSpec

\* Whoever builds, fails or is killed, a bake that starts on a host whose
\* preflight passed does not die of a missing tool, and no dockerd outlives a
\* build that was not killed (vm_bake_preflight, _stage_docker_root).
THEOREM BakesSound == SceneSpec => []BakeSound
<1>1. ScenesInv => BakeSound
  BY DEF ScenesInv, VmInv, Equipped, BakeSound, B!BakeEquipped, B!DockerdStopped
<1> QED
  BY <1>1, ScenesInductive, PTL

\* No rootfs is ever without its version marker, races and kills included; and
\* where builds neither race nor are killed, an `up` on a rootfs of another Android
\* version is warned about, however many builds failed, unless the last of them to
\* write the marker failed before it touched the image (_write_version_marker,
\* _pack_image, fetch_prebuilt).
THEOREM MarkersAlwaysTrue == SceneSpec => []MarkersTrue
<1>1. ScenesInv => MarkersTrue
  BY DEF ScenesInv, SerialInv, VmInv, VmTyped, MarkersTrue
<1> QED
  BY <1>1, ScenesInductive, PTL

\* After any series of builds, failed and successful ones, with any overrides and
\* on any host, the one that returned last has left the kernel and the rootfs it
\* was asked for (build_vm_kernel).
THEOREM BuildsAsAsked == SceneSpec => []BuiltAsAsked
<1>1. ScenesInv => BuiltAsAsked
  BY DEF ScenesInv, SerialInv, LastDone, KernelDone, ImageDone, BuiltAsAsked, B!BuiltAsAsked
<1> QED
  BY <1>1, ScenesInductive, PTL
=============================================================================
