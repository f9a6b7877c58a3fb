------------------------------- MODULE VmBuild ------------------------------
(***************************************************************************)
(* `beetroot build --vm-kernel`: the guest kernel and rootfs of the        *)
(* micro-VM backend, fetched as release assets or made on this host        *)
(* (src/beetroot/builder.py, kernel_download.py, rootfs_download.py), and  *)
(* the check that `up` and `apply` make of the rootfs's Android version.   *)
(*                                                                         *)
(* Every build writes the same bzImage, rootdisk.img and                   *)
(* rootdisk.img.android-version.  A release asset is known by what its     *)
(* fingerprint digests; REDROID_TAR is taken to hold the image that        *)
(* REDROID_IMAGE, or the Android version, names.                           *)
(***************************************************************************)
EXTENDS Integers

CONSTANTS
  Procs,
  Vers,         \* Android versions, numbers
  Revs,         \* revisions of kernel.config and of guest-init.sh
  Overrides,    \* bake overrides set in the environment: "none", "image", "tar", "size", "badSize"
  Hosts,        \* what a host may have
  ReadyTries,   \* polls of the staging dockerd
  Serial,       \* one build at a time, and `up` only between builds
  MaxBuilds, MaxFaults, MaxKills

Tools == {"curlTar", "compiler", "bins", "root", "daemon", "x86", "tarball", "cgroups"}

\* What a model of the builds must give these constants.
VmBuildAssumption ==
  /\ Hosts \subseteq SUBSET Tools /\ Vers \subseteq Nat \ {0} /\ Serial \in BOOLEAN
  /\ Overrides \subseteq {"none", "image", "tar", "size", "badSize"}
  /\ ReadyTries \in Nat /\ MaxBuilds \in Nat /\ MaxFaults \in Nat /\ MaxKills \in Nat

VARIABLES
  have,        \* what this host has
  conf, init,  \* revisions of the bundled kernel.config and guest-init.sh
  published,   \* release assets: [kernels, roots]
  kernel,      \* bzImage: [conf, how, whole]
  image,       \* rootdisk.img: [ver, init, how, whole]
  marker,      \* the version beside it, 0 when absent
  torn,        \* history: no image has been written since the marker was
  pc, req, why, tries,
  dockerd,     \* this build's staging dockerd runs
  skew,        \* history: the last `up` that booted: [want, real, warned, torn]
  last,        \* history: the process whose build ended last, and well; 0 otherwise
  builds, faults, kills

host == <<have, conf, init, published>>
vars == <<host, kernel, image, marker, torn, pc, req, why, tries, dockerd, skew, last, builds, faults, kills>>

NoKernel == [conf |-> 0, how |-> "none", whole |-> FALSE]
NoImage  == [ver |-> 0, init |-> 0, how |-> "none", whole |-> FALSE]
NoReq    == [ver |-> 0, source |-> FALSE, over |-> "none", tag |-> 0]
NoBoot   == [want |-> 0, real |-> 0, warned |-> FALSE, torn |-> FALSE]

Init ==
  /\ have \in Hosts /\ conf \in Revs /\ init \in Revs
  /\ published \in [kernels : SUBSET Revs, roots : {{}} \cup {Vers \X {r} : r \in Revs}]
  /\ kernel = NoKernel /\ image = NoImage /\ marker = 0 /\ torn = FALSE
  /\ pc = [p \in Procs |-> "idle"] /\ req = [p \in Procs |-> NoReq]
  /\ why = [p \in Procs |-> "none"] /\ tries = [p \in Procs |-> 0]
  /\ dockerd = [p \in Procs |-> FALSE]
  /\ skew = NoBoot /\ last = 0 /\ builds = 0 /\ faults = 0 /\ kills = 0

Quiet == \A p \in Procs : pc[p] = "idle"
Go(p, l) == pc' = [pc EXCEPT ![p] = l] /\ UNCHANGED <<why, dockerd, last>>

\* The exception leaves the `finally` of _stage_docker_root, which stops dockerd.
Raise(p, reason) ==
  /\ pc' = [pc EXCEPT ![p] = "idle"] /\ why' = [why EXCEPT ![p] = reason]
  /\ dockerd' = [dockerd EXCEPT ![p] = FALSE] /\ last' = 0

Return(p) ==
  /\ pc' = [pc EXCEPT ![p] = "idle"] /\ why' = [why EXCEPT ![p] = "ok"]
  /\ last' = (IF \A q \in Procs : q # p => pc[q] = "idle" THEN p ELSE 0) /\ UNCHANGED dockerd

Fault == faults < MaxFaults /\ faults' = faults + 1

-----------------------------------------------------------------------------
(* Preflights.                                                             *)

FetchNeeds == {"curlTar"}

\* Mutant: nobody asks for root.
BugBakeNeeds(over) == {"bins", "x86"} \cup (IF over = "tar" THEN {"tarball"} ELSE {"daemon"})

\* vm_bake_preflight: static binaries with ldd and mke2fs, root, and an image source.
BakeNeeds(over) == {"bins", "root", "x86"} \cup (IF over = "tar" THEN {"tarball"} ELSE {"daemon"})

BakeProblems(over) ==
  (BakeNeeds(over) \ have) \cup (IF over = "badSize" THEN {"IMAGE_SIZE_MB"} ELSE {})

\* build --vm-kernel --check
CheckOk(over) == FetchNeeds \subseteq have /\ BakeProblems(over) = {}

-----------------------------------------------------------------------------
(* The kernel.                                                             *)

\* The CLI's guards; a missing fetch tool ends the command here.
Build(p) ==
  /\ pc[p] = "idle" /\ builds < MaxBuilds /\ builds' = builds + 1 /\ (Serial => Quiet)
  /\ req' \in {[req EXCEPT ![p] = [ver |-> v, source |-> s, over |-> o,
                                   tag |-> IF o = "image" THEN t ELSE v]] :
                 v \in Vers, s \in BOOLEAN, o \in Overrides, t \in Vers}
  /\ IF FetchNeeds \subseteq have
     THEN /\ pc' = [pc EXCEPT ![p] = IF req'[p].source THEN "source" ELSE "fetchKernel"]
          /\ dockerd' = [dockerd EXCEPT ![p] = FALSE] /\ last' = 0 /\ UNCHANGED why
     ELSE Raise(p, "preflight")
  /\ tries' = [tries EXCEPT ![p] = 0]
  /\ UNCHANGED <<host, kernel, image, marker, torn, skew, faults, kills>>

\* kernel_download.fetch_prebuilt: the asset of this kernel.config, verified and renamed.
\* A failure that is a KernelFetchError falls back to the source; another one (a reset or
\* a short read in the body, a full disk) ends the build.
FetchKernel(p) ==
  /\ pc[p] = "fetchKernel"
  /\ \/ /\ conf \in published.kernels
        /\ kernel' = [conf |-> conf, how |-> "prebuilt", whole |-> TRUE]
        /\ Go(p, "rootfs") /\ UNCHANGED faults
     \/ /\ conf \notin published.kernels /\ Go(p, "source") /\ UNCHANGED <<kernel, faults>>
     \/ Fault /\ (Go(p, "source") \/ Raise(p, "failed")) /\ UNCHANGED kernel
  /\ UNCHANGED <<host, image, marker, torn, req, tries, skew, builds, kills>>

\* _fetch_kernel_source and make, which needs a compiler nobody asked for.
Compile(p) ==
  /\ pc[p] = "source"
  /\ \/ "compiler" \notin have /\ Raise(p, "missing") /\ UNCHANGED faults
     \/ "compiler" \in have /\ Go(p, "cp") /\ UNCHANGED faults
     \/ Fault /\ Raise(p, "failed")
  /\ UNCHANGED <<host, kernel, image, marker, torn, req, tries, skew, builds, kills>>

\* cp onto the bzImage in place: first it is cut, then written.
CopyKernel(p) ==
  /\ \/ /\ pc[p] = "cp" /\ Go(p, "cpRest")
        /\ kernel' = [conf |-> conf, how |-> "source", whole |-> FALSE]
     \/ /\ pc[p] = "cpRest" /\ Go(p, "rootfs")
        /\ kernel' = [kernel EXCEPT !.whole = TRUE]
  /\ UNCHANGED <<host, image, marker, torn, req, tries, skew, builds, faults, kills>>

-----------------------------------------------------------------------------
(* The rootfs.                                                             *)

\* rootfs_bake_override_set
FetchesRootfs(r) == ~r.source /\ r.over = "none"

\* Mutant: guest-init.sh is left out of the digest.
BugFingerprintOf(v) == {f \in published.roots : f[1] = v}

\* The assets whose fingerprint is that of the local inputs.
FingerprintOf(v) == {f \in published.roots : f = <<v, init>>}

\* The start of step 2: fetch first, or the preflight of a bake.
Rootfs(p) ==
  /\ pc[p] = "rootfs"
  /\ Go(p, IF FetchesRootfs(req[p]) THEN "fetchRootfs" ELSE "preflight")
  /\ UNCHANGED <<host, kernel, image, marker, torn, req, tries, skew, builds, faults, kills>>

\* The download, its digest and the decompression, all in a directory of its own.  Only a
\* RootfsFetchError falls back to a bake.
FetchRootfs(p) ==
  /\ pc[p] = "fetchRootfs"
  /\ \/ FingerprintOf(req[p].ver) # {} /\ Go(p, "fetched") /\ UNCHANGED faults
     \/ FingerprintOf(req[p].ver) = {} /\ Go(p, "preflight") /\ UNCHANGED faults
     \/ Fault /\ (Go(p, "preflight") \/ Raise(p, "failed"))
  /\ UNCHANGED <<host, kernel, image, marker, torn, req, tries, skew, builds, kills>>

BakePreflight(p) ==
  /\ pc[p] = "preflight"
  /\ IF BakeProblems(req[p].over) = {} THEN Go(p, "bundle") ELSE Raise(p, "preflight")
  /\ UNCHANGED <<host, kernel, image, marker, torn, req, tries, skew, builds, faults, kills>>

\* The Docker bundle, checked before it is unpacked, and the tree's binaries.
Bundle(p) ==
  /\ pc[p] = "bundle"
  /\ \/ {"curlTar", "bins", "x86"} \subseteq have /\ Go(p, "stage") /\ UNCHANGED faults
     \/ ~({"curlTar", "bins", "x86"} \subseteq have) /\ Raise(p, "bakeMissing") /\ UNCHANGED faults
     \/ Fault /\ Raise(p, "failed")
  /\ UNCHANGED <<host, kernel, image, marker, torn, req, tries, skew, builds, kills>>

\* _stage_docker_root: pull and save unless there is a tarball, then start dockerd.
Stage(p) ==
  /\ pc[p] = "stage"
  /\ LET source == IF req[p].over = "tar" THEN "tarball" ELSE "daemon" IN
     \/ /\ source \in have
        /\ pc' = [pc EXCEPT ![p] = "ready"] /\ dockerd' = [dockerd EXCEPT ![p] = TRUE]
        /\ UNCHANGED <<why, last, faults>>
     \/ source \notin have /\ Raise(p, "bakeMissing") /\ UNCHANGED faults
     \/ Fault /\ Raise(p, "failed")
  /\ UNCHANGED <<host, kernel, image, marker, torn, req, tries, skew, builds, kills>>

TriesLeft(p) == tries[p] < ReadyTries

\* _wait_docker_ready: without root, or where cgroups are shut, it never is.
WaitReady(p) ==
  /\ pc[p] = "ready"
  /\ \/ {"root", "cgroups"} \subseteq have /\ Go(p, "load") /\ UNCHANGED <<tries, faults>>
     \/ /\ TriesLeft(p) /\ UNCHANGED <<pc, why, dockerd, last, faults>>
        /\ tries' = [tries EXCEPT ![p] = @ + 1]
     \/ /\ ~TriesLeft(p) /\ UNCHANGED <<tries, faults>>
        /\ Raise(p, IF "root" \in have THEN "failed" ELSE "bakeMissing")
  /\ UNCHANGED <<host, kernel, image, marker, torn, req, skew, builds, kills>>

\* Mutant: dockerd is stopped only where the load succeeds.
BugLoad(p) ==
  /\ pc[p] = "load"
  /\ \/ /\ pc' = [pc EXCEPT ![p] = "tree"] /\ dockerd' = [dockerd EXCEPT ![p] = FALSE]
        /\ UNCHANGED <<why, last, faults>>
     \/ /\ Fault /\ pc' = [pc EXCEPT ![p] = "idle"] /\ why' = [why EXCEPT ![p] = "failed"]
        /\ last' = 0 /\ UNCHANGED dockerd
  /\ UNCHANGED <<host, kernel, image, marker, torn, req, tries, skew, builds, kills>>

\* docker load, and the stop of dockerd in the `finally`.
Load(p) ==
  /\ pc[p] = "load"
  /\ \/ /\ pc' = [pc EXCEPT ![p] = "tree"] /\ dockerd' = [dockerd EXCEPT ![p] = FALSE]
        /\ UNCHANGED <<why, last, faults>>
     \/ Fault /\ Raise(p, "failed")
  /\ UNCHANGED <<host, kernel, image, marker, torn, req, tries, skew, builds, kills>>

\* Mutant: the marker follows the image.
BugAfter == [tree |-> "pack", markBaked |-> "done", packed |-> "markBaked",
             fetched |-> "rename", markFetched |-> "done", renamed |-> "markFetched"]

\* The order of the two halves, in _RootfsAssembly.build and in fetch_prebuilt.
After == [tree |-> "markBaked", markBaked |-> "pack", packed |-> "done",
          fetched |-> "markFetched", markFetched |-> "rename", renamed |-> "done"]

\* The marker inside the guest is there, so the build goes on.
TreeDone(p) ==
  /\ pc[p] \in {"tree", "fetched"} /\ Go(p, After[pc[p]])
  /\ UNCHANGED <<host, kernel, image, marker, torn, req, tries, skew, builds, faults, kills>>

\* Mutant: the marker names the version that was asked for.
BugBakedVersion(r) == r.ver

\* _major_version_from_image: the version of the image that is baked.
BakedVersion(r) == r.tag

WriteMarker(p) ==
  /\ pc[p] \in {"markBaked", "markFetched"}
  /\ marker' = (IF pc[p] = "markBaked" THEN BakedVersion(req[p]) ELSE req[p].ver) /\ torn' = TRUE
  /\ Go(p, After[pc[p]])
  /\ UNCHANGED <<host, kernel, image, req, tries, skew, builds, faults, kills>>

\* mke2fs writes the image in place.  It may refuse before it touches the image that is
\* there, and the disk may fill later.
PackImage(p) ==
  /\ \/ /\ pc[p] = "pack" /\ Go(p, "packRest") /\ UNCHANGED faults
        /\ image' = [ver |-> req[p].tag, init |-> init, how |-> "baked", whole |-> FALSE]
        /\ torn' = FALSE
     \/ /\ pc[p] = "packRest" /\ Go(p, After["packed"]) /\ UNCHANGED <<faults, torn>>
        /\ image' = [image EXCEPT !.whole = TRUE]
     \/ /\ pc[p] \in {"pack", "packRest"} /\ Fault /\ Raise(p, "failed")
        /\ UNCHANGED <<image, torn>>
  /\ UNCHANGED <<host, kernel, marker, req, tries, skew, builds, kills>>

\* tmp.replace(out_image): the image that was published under the fingerprint.
RenameImage(p) ==
  /\ pc[p] = "rename" /\ Go(p, After["renamed"]) /\ torn' = FALSE
  /\ \E f \in FingerprintOf(req[p].ver) :
       image' = [ver |-> f[1], init |-> f[2], how |-> "prebuilt", whole |-> TRUE]
  /\ UNCHANGED <<host, kernel, marker, req, tries, skew, builds, faults, kills>>

Finish(p) ==
  /\ pc[p] = "done" /\ Return(p)
  /\ UNCHANGED <<host, kernel, image, marker, torn, req, tries, skew, builds, faults, kills>>

-----------------------------------------------------------------------------
Builder(p) ==
  \/ FetchKernel(p) \/ Compile(p) \/ CopyKernel(p) \/ Rootfs(p) \/ FetchRootfs(p)
  \/ BakePreflight(p) \/ Bundle(p) \/ Stage(p) \/ WaitReady(p) \/ Load(p) \/ TreeDone(p)
  \/ WriteMarker(p) \/ PackImage(p) \/ RenameImage(p) \/ Finish(p)

\* SIGKILL: no `finally` runs.
Kill(p) ==
  /\ pc[p] # "idle" /\ kills < MaxKills /\ kills' = kills + 1
  /\ pc' = [pc EXCEPT ![p] = "idle"] /\ why' = [why EXCEPT ![p] = "killed"] /\ last' = 0
  /\ UNCHANGED <<host, kernel, image, marker, torn, req, tries, dockerd, skew, builds, faults>>

\* An `up` of an instance of android.version v warns when the marker says another.
Up(v) ==
  /\ image.whole /\ (Serial => Quiet)
  /\ skew' = [want |-> v, real |-> image.ver, warned |-> marker \notin {0, v}, torn |-> torn]
  /\ UNCHANGED <<host, kernel, image, marker, torn, pc, req, why, tries, dockerd, last, builds, faults, kills>>

Next ==
  \/ \E p \in Procs : Build(p) \/ Builder(p) \/ Kill(p)
  \/ \E v \in Vers : Up(v)

Spec == Init /\ [][Next]_vars
FairSpec == Spec /\ \A p \in Procs : WF_vars(Builder(p))

-----------------------------------------------------------------------------
(* Properties.                                                             *)

\* What the artifacts may be.
TypeOK ==
  /\ kernel \in [conf : Revs \cup {0}, how : {"none", "prebuilt", "source"}, whole : BOOLEAN]
  /\ image \in [ver : Vers \cup {0}, init : Revs \cup {0}, how : {"none", "prebuilt", "baked"},
                whole : BOOLEAN]
  /\ marker \in Vers \cup {0} /\ torn \in BOOLEAN /\ dockerd \in [Procs -> BOOLEAN]

\* What a build that returns has left: a whole kernel of the bundled config, a
\* whole rootfs of the version that was asked for (or of the override's), with
\* the bundled guest-init.sh; nothing prebuilt where --from-source or an
\* override forbids it.
BuiltAsAsked ==
  last # 0 =>
    LET r == req[last] IN
    /\ kernel.whole /\ kernel.conf = conf /\ (r.source => kernel.how = "source")
    /\ image.whole /\ image.ver = r.tag /\ image.init = init
    /\ r.source \/ r.over # "none" => image.how = "baked"

\* No rootfs, whole or not, is ever without its version marker (#234).
ImageMarked == image # NoImage => marker # 0

\* An `up` on a rootfs of another Android version warns (#82), unless the last
\* build to write the marker failed before it touched the image.
SkewNoticed == skew.want # skew.real => skew.warned \/ skew.torn

\* It warns after such a build too.  Refuted: the bake writes the new marker, mke2fs
\* refuses, and the new marker stands beside the old image.
AnySkewNoticed == skew.want # skew.real => skew.warned

\* After a check that found nothing missing, a bake does not die of a missing tool.
BakeEquipped == \A p \in Procs : why[p] # "bakeMissing"

\* A host the check found ready lacks nothing that any build on it needs.
CheckCoversAll ==
  \A p \in Procs : CheckOk(req[p].over) => why[p] \notin {"missing", "bakeMissing"}

\* No staging dockerd outlives a build that was not killed.
DockerdStopped == \A p \in Procs : pc[p] = "idle" /\ why[p] # "killed" => ~dockerd[p]

\* Every build ends.
BuildsEnd == \A p \in Procs : pc[p] # "idle" ~> pc[p] = "idle"
=============================================================================
