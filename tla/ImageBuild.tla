----------------------------- MODULE ImageBuild -----------------------------
(***************************************************************************)
(* `beetroot build`: build_image (src/beetroot/builder.py) clones the      *)
(* patcher into a directory all builds of the user share, runs it under    *)
(* the lock file beside that directory, and builds the Beetroot layer on   *)
(* the base image it made.                                                 *)
(*                                                                         *)
(* The clone is its url and whether it is whole; what the patcher has      *)
(* downloaded into it is a flag.  git, the patcher and docker are outside: *)
(* a failing git clone leaves no directory, a git that is killed leaves    *)
(* what it has, and so does one that outlives its killed beetroot.         *)
(***************************************************************************)
EXTENDS Integers

CONSTANTS
  Procs, Urls,
  KillsTool,   \* a kill may take git along, at any point of its work
  Outlives,    \* git may live on when only beetroot is killed
  MaxBuilds, MaxFaults, MaxKills

ASSUME ImageBuildAssumption ==
  /\ KillsTool \in BOOLEAN /\ Outlives \in BOOLEAN
  /\ "none" \notin Procs /\ "none" \notin Urls
  /\ MaxBuilds \in Nat /\ MaxFaults \in Nat /\ MaxKills \in Nat

VARIABLES
  daemon,      \* the docker daemon answers
  tree,        \* the clone: [url, whole, cache]
  holder,      \* who holds the lock, or "none"
  orphan,      \* the url a git without a beetroot still clones, or "none"
  base, layer, \* the source of the base image and of beetroot:latest
  pc, url, end,
  reused,      \* history: the build took over a clone that was not whole
  builds, faults, kills

vars == <<daemon, tree, holder, orphan, base, layer, pc, url, end, reused, builds, faults, kills>>

NoTree == [url |-> "none", whole |-> FALSE, cache |-> FALSE]

Init ==
  /\ daemon \in BOOLEAN /\ tree = NoTree /\ holder = "none" /\ orphan = "none"
  /\ base = "none" /\ layer = "none"
  /\ pc = [p \in Procs |-> "idle"] /\ url = [p \in Procs |-> "none"]
  /\ end = [p \in Procs |-> "none"] /\ reused = [p \in Procs |-> FALSE]
  /\ builds = 0 /\ faults = 0 /\ kills = 0

Go(p, l)  == pc' = [pc EXCEPT ![p] = l]
End(p, e) == Go(p, "idle") /\ end' = [end EXCEPT ![p] = e]
Fault     == faults < MaxFaults /\ faults' = faults + 1

\* The daemon preflight comes before the clone.
Build(p) ==
  /\ pc[p] = "idle" /\ builds < MaxBuilds /\ builds' = builds + 1
  /\ \E u \in Urls : url' = [url EXCEPT ![p] = u]
  /\ reused' = [reused EXCEPT ![p] = FALSE]
  /\ IF daemon THEN Go(p, "lock") /\ end' = [end EXCEPT ![p] = "none"] ELSE End(p, "daemon")
  /\ UNCHANGED <<daemon, tree, holder, orphan, base, layer, faults, kills>>

\* Mutant: nobody waits.
BugFree(p) == TRUE

\* flock(LOCK_EX)
Free(p) == holder = "none"

Lock(p) ==
  /\ pc[p] = "lock" /\ Free(p) /\ holder' = p /\ Go(p, "match")
  /\ UNCHANGED <<daemon, tree, orphan, base, layer, url, end, reused, builds, faults, kills>>

\* Mutant: the tree is cloned afresh each time.
BugNeverMatches(u) == FALSE

\* _clone_url_matches: .git/config names this url as origin's.
CloneUrlMatches(u) == tree.url = u

Match(p) ==
  /\ pc[p] = "match"
  /\ Go(p, IF CloneUrlMatches(url[p]) THEN "patch" ELSE "rm")
  /\ reused' = [reused EXCEPT ![p] = CloneUrlMatches(url[p]) /\ ~tree.whole]
  /\ UNCHANGED <<daemon, tree, holder, orphan, base, layer, url, end, builds, faults, kills>>

\* rm -rf
Wiped(t) == NoTree

Remove(p) ==
  /\ pc[p] = "rm" /\ tree' = Wiped(tree) /\ Go(p, "clone")
  /\ UNCHANGED <<daemon, holder, orphan, base, layer, url, end, reused, builds, faults, kills>>

\* git clone, into the directory that is gone: the config with the url first,
\* the files later.
Clone(p) ==
  /\ \/ /\ pc[p] = "clone"
        /\ tree' = [url |-> url[p], whole |-> FALSE, cache |-> FALSE]
        /\ Go(p, "cloning") /\ UNCHANGED <<end, holder, faults>>
     \/ /\ pc[p] = "cloning" /\ Go(p, "patch")
        /\ tree' = [tree EXCEPT !.whole = TRUE] /\ UNCHANGED <<end, holder, faults>>
     \/ /\ pc[p] = "cloning" /\ Fault /\ tree' = NoTree
        /\ End(p, "failed") /\ holder' = "none"
  /\ UNCHANGED <<daemon, orphan, base, layer, url, reused, builds, kills>>

\* Mutant: the lock is kept where the patcher fails.
BugUnlocked(ok) == IF ok THEN "none" ELSE holder

\* The `finally` of _clone_dir_lock.
Unlocked(ok) == "none"

\* The patcher needs its files, downloads what it does not have, and tags the
\* base image.
Patch(p) ==
  /\ pc[p] = "patch"
  /\ \/ /\ tree.whole /\ base' = tree.url /\ tree' = [tree EXCEPT !.cache = TRUE]
        /\ Go(p, "layer") /\ holder' = Unlocked(TRUE) /\ UNCHANGED <<end, faults>>
     \/ /\ ~tree.whole /\ UNCHANGED <<base, tree, faults>>
        /\ End(p, "failed") /\ holder' = Unlocked(FALSE)
     \/ /\ Fault /\ UNCHANGED base
        /\ tree' \in {tree, [tree EXCEPT !.cache = tree.whole]}
        /\ End(p, "failed") /\ holder' = Unlocked(FALSE)
  /\ UNCHANGED <<daemon, orphan, layer, url, reused, builds, kills>>

\* docker compose build, on whatever the tag names now, after the lock.
Layer(p) ==
  /\ pc[p] = "layer"
  /\ \/ layer' = base /\ End(p, IF base = url[p] THEN "ok" ELSE "okOther") /\ UNCHANGED faults
     \/ Fault /\ End(p, "failed") /\ UNCHANGED layer
  /\ UNCHANGED <<daemon, tree, holder, orphan, base, url, reused, builds, kills>>

-----------------------------------------------------------------------------
(* Outside.                                                                *)

\* The kernel drops the lock with the process.  ^C reaches git too, and it
\* cleans up; SIGKILL may not reach it, or may take it along half-way.
Kill(p) ==
  /\ pc[p] # "idle" /\ kills < MaxKills /\ kills' = kills + 1 /\ End(p, "killed")
  /\ holder' = (IF holder = p THEN "none" ELSE holder)
  /\ \/ tree' = (IF pc[p] = "cloning" THEN NoTree ELSE tree) /\ UNCHANGED orphan
     \/ KillsTool /\ pc[p] = "cloning" /\ UNCHANGED <<tree, orphan>>
     \/ Outlives /\ pc[p] = "cloning" /\ orphan' = url[p] /\ UNCHANGED tree
  /\ UNCHANGED <<daemon, base, layer, url, reused, builds, faults>>

\* The git that was left alone finishes, in the directory if it is still its own.
OrphanDone ==
  /\ orphan # "none" /\ orphan' = "none"
  /\ tree' = IF tree.url = orphan THEN [tree EXCEPT !.whole = TRUE] ELSE tree
  /\ UNCHANGED <<daemon, holder, base, layer, pc, url, end, reused, builds, faults, kills>>

Step(p) == Lock(p) \/ Match(p) \/ Remove(p) \/ Clone(p) \/ Patch(p) \/ Layer(p)

Next ==
  \/ \E p \in Procs : Build(p) \/ Step(p) \/ Kill(p)
  \/ OrphanDone

\* Every tool a build runs ends; a lock that is free is taken.
Spec == Init /\ [][Next]_vars /\ \A p \in Procs : WF_vars(Step(p))

-----------------------------------------------------------------------------
(* Properties.                                                             *)

\* What the directory and the images may be.
TypeOK ==
  /\ tree \in [url : Urls \cup {"none"}, whole : BOOLEAN, cache : BOOLEAN]
  /\ tree.whole \/ tree.cache => tree.url # "none"
  /\ holder \in Procs \cup {"none"} /\ {base, layer} \subseteq Urls \cup {"none"}

\* No build removes, clones or patches while another one does (#232): the
\* patcher runs on the clone of the url its own build was given, and on a whole
\* one unless the build took over what a killed git had left.
PatchesOwnTree ==
  \A p \in Procs : pc[p] = "patch" => tree.url = url[p] /\ (tree.whole \/ reused[p])

\* What the patcher downloaded goes only with the clone of another url.
DownloadsKept ==
  [][tree.cache /\ ~tree'.cache => \E p \in Procs : pc[p] = "rm" /\ url[p] # tree.url]_vars

\* One clone serves the builds of every source: each patches its own, and none
\* throws away what another of the same source downloaded.
CloneSafe == [](TypeOK /\ PatchesOwnTree) /\ DownloadsKept

\* Every build ends.
BuildsEnd == \A p \in Procs : pc[p] # "idle" ~> pc[p] = "idle"

\* A build that returns has layered on the base image of its own source.
NeverWrongSource == \A p \in Procs : end[p] # "okOther"

\* A directory that is not a whole clone is wiped, not patched.
CorruptWiped == \A p \in Procs : ~reused[p]
=============================================================================
