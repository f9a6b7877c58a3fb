----------------------------- MODULE HostProofs -----------------------------
(***************************************************************************)
(* Proofs about what concerns a host as a whole.  Ports, with the program's *)
(* own constants, for every set of used indices, every ports: list and     *)
(* every sibling index; Fleet, for every set of names and every number of  *)
(* changes during a walk; HostPlan, for every host and every number of     *)
(* changes of it.                                                          *)
(***************************************************************************)
EXTENDS MCHost, WellFoundedInduction, TLAPS

\* Where every auto-allocated entry comes from.
FromStride(r) == r.service \in P!WellKnown /\ r.host = P!Base(r.service) + index * P!STRIDE
FromPool(r) ==
  /\ r.service = "other"
  /\ P!EXTRA_POOL_BASE + index * P!STRIDE <= r.host
  /\ r.host < P!EXTRA_POOL_BASE + index * P!STRIDE + extra

AutoInv ==
  /\ \A r \in resolved : r.auto => FromStride(r) \/ FromPool(r)
  /\ \A r, s \in resolved : r.service \in P!WellKnown /\ r.service = s.service => r = s

\* Nothing is resolved before the index is known to be in range.
RangeInv == resolved # {} => index <= P!MAX_PORT_INDEX
PhaseInv ==
  /\ phase \in {"alloc", "check"} => resolved = {}
  /\ phase = "loop" => index <= P!MAX_PORT_INDEX
  /\ phase = "collision" => P!Dupes

IInv == P!TypeOK /\ P!LowestFree /\ AutoInv /\ RangeInv /\ PhaseInv

-----------------------------------------------------------------------------

\* The cap as a number.
LEMMA Cap == P!MAX_PORT_INDEX = 1295
BY DEF P!MAX_PORT_INDEX, P!EXTRA_POOL_BASE, P!FRIDA_CONTROL_BASE, P!STRIDE, P!MAX_PORT

\* The three bases.
LEMMA Bases ==
  /\ P!Base("adb") = 5555 /\ P!Base("frida") = 27042 /\ P!Base("frida_control") = 27043
  /\ \A s \in P!WellKnown : P!Base(s) \in {5555, 27042, 27043}
  /\ \A s, t \in P!WellKnown : P!Base(s) = P!Base(t) => s = t
<1>1. P!Base("adb") = 5555
  BY DEF P!Base, P!ADB_BASE
<1>2. P!Base("frida") = 27042
  BY DEF P!Base, P!FRIDA_BASE
<1>3. P!Base("frida_control") = 27043
  BY DEF P!Base, P!FRIDA_CONTROL_BASE
<1> QED
  BY <1>1, <1>2, <1>3 DEF P!WellKnown

\* The invariant holds at the start.
LEMMA InitInv == P!Init => IInv
BY HostAssumption DEF P!PortsAssumption, P!Init, IInv, P!TypeOK, P!LowestFree, AutoInv, RangeInv,
   PhaseInv, P!Phases, P!STRIDE

\* Appending one more entry keeps the types and the provenance of the others.
LEMMA AppendInv ==
  ASSUME IInv, phase = "loop", NEW s \in P!FreeServices, NEW a \in BOOLEAN, NEW h \in Nat,
         P!Append(s, a, h),
         LET r == [service |-> s, auto |-> a, host |-> h]
         IN  a => FromStride(r) \/ (r.service = "other"
                    /\ P!EXTRA_POOL_BASE + index * P!STRIDE <= h
                    /\ h < P!EXTRA_POOL_BASE + index * P!STRIDE + extra'),
         s # "other" \/ ~a => extra' = extra,
         extra' \in {extra, extra + 1}, extra' <= P!STRIDE,
         UNCHANGED <<used, index, phase>>
  PROVE  IInv'
<1> DEFINE r == [service |-> s, auto |-> a, host |-> h]
<1>0. s \in P!Services /\ (s = "other" \/ \A q \in resolved : q.service # s)
  BY DEF P!FreeServices
<1>1. r \in P!Entry /\ r.service = s /\ r.auto = a /\ r.host = h
  BY <1>0 DEF P!Entry
<1>2. resolved' = resolved \cup {r}
  BY DEF P!Append
<1> HIDE DEF r
<1>3. P!TypeOK'
  BY <1>1, <1>2 DEF IInv, P!TypeOK, P!STRIDE
<1>4. P!LowestFree'
  BY DEF IInv, P!LowestFree
<1>5. \A q \in resolved' : q.auto => FromStride(q)' \/ FromPool(q)'
  <2>1. ASSUME NEW q \in resolved, q.auto PROVE FromStride(q)' \/ FromPool(q)'
    <3>1. q.host \in Nat
      BY <2>1 DEF IInv, P!TypeOK, P!Entry
    <3>2. FromStride(q) \/ FromPool(q)
      BY <2>1 DEF IInv, AutoInv
    <3>3. index \in Nat /\ extra \in Nat
      BY DEF IInv, P!TypeOK, P!STRIDE
    <3> QED
      BY <3>1, <3>2, <3>3 DEF FromStride, FromPool, P!EXTRA_POOL_BASE, P!STRIDE
  <2>2. r.auto => FromStride(r)' \/ FromPool(r)'
    BY <1>1 DEF FromStride, FromPool, r
  <2> QED
    BY <1>2, <2>1, <2>2
<1>6. \A q, t \in resolved' : q.service \in P!WellKnown /\ q.service = t.service => q = t
  BY <1>0, <1>1, <1>2 DEF IInv, AutoInv, P!WellKnown
<1>7. RangeInv' /\ PhaseInv'
  BY DEF IInv, RangeInv, PhaseInv
<1> QED
  BY <1>3, <1>4, <1>5, <1>6, <1>7 DEF IInv, AutoInv

\* Every step keeps the invariant.
LEMMA StepInv ==
  ASSUME IInv, [P!Next]_P!vars
  PROVE  IInv'
<1>0. index \in Nat /\ extra \in Nat /\ extra <= 10
  BY DEF IInv, P!TypeOK, P!STRIDE
<1>1. CASE P!Scan
  BY <1>0, <1>1 DEF P!Scan, IInv, P!TypeOK, P!LowestFree, AutoInv, RangeInv, PhaseInv
<1>2. CASE P!Found
  BY <1>0, <1>2 DEF P!Found, IInv, P!TypeOK, P!LowestFree, AutoInv, RangeInv, PhaseInv, P!Phases,
                    FromStride, FromPool
<1>3. CASE P!CheckIndex
  BY <1>0, <1>3, Cap DEF P!CheckIndex, IInv, P!TypeOK, P!LowestFree, AutoInv, RangeInv, PhaseInv,
     P!Phases,
                    FromStride, FromPool
<1>4. CASE P!Pinned
  <2>1. PICK s \in P!FreeServices, h \in P!FreePins : P!Append(s, FALSE, h)
    BY <1>4 DEF P!Pinned
  <2>2. h \in Nat
    BY HostAssumption DEF P!PortsAssumption, P!FreePins
  <2> QED
    BY <1>0, <1>4, <2>1, <2>2, AppendInv DEF P!Pinned, P!STRIDE
<1>5. CASE P!StrideDefault
  <2>1. PICK s \in P!WellKnown \cap P!FreeServices : P!Append(s, TRUE, P!Base(s) + index * P!STRIDE)
    BY <1>5 DEF P!StrideDefault
  <2>2. P!Base(s) + index * P!STRIDE \in Nat
    BY <1>0, Bases DEF P!STRIDE
  <2>3. FromStride([service |-> s, auto |-> TRUE, host |-> P!Base(s) + index * P!STRIDE])
    BY DEF FromStride
  <2> QED
    BY <1>0, <1>5, <2>1, <2>2, <2>3, AppendInv DEF P!StrideDefault, P!STRIDE
<1>6. CASE P!ExtraPool
  <2>1. CASE extra >= P!STRIDE /\ phase' = "spill" /\ UNCHANGED <<resolved, extra>>
    BY <1>0, <1>6, <2>1 DEF P!ExtraPool, IInv, P!TypeOK, P!LowestFree, AutoInv, RangeInv,
       PhaseInv, P!Phases,
                    FromStride, FromPool
  <2>2. CASE /\ extra < P!STRIDE
             /\ P!Append("other", TRUE, P!EXTRA_POOL_BASE + index * P!STRIDE + extra)
             /\ extra' = extra + 1
             /\ UNCHANGED phase
    <3>1. "other" \in P!FreeServices
      BY DEF P!FreeServices, P!Services
    <3>2. P!EXTRA_POOL_BASE + index * P!STRIDE + extra \in Nat
      BY <1>0 DEF P!EXTRA_POOL_BASE, P!STRIDE
    <3>3. /\ P!EXTRA_POOL_BASE + index * P!STRIDE <= P!EXTRA_POOL_BASE + index * P!STRIDE + extra
          /\ P!EXTRA_POOL_BASE + index * P!STRIDE + extra < P!EXTRA_POOL_BASE + index * P!STRIDE + extra'
      BY <1>0, <2>2 DEF P!EXTRA_POOL_BASE, P!STRIDE
    <3>4. extra' \in {extra, extra + 1} /\ extra' <= P!STRIDE
      BY <1>0, <2>2 DEF P!STRIDE
    <3>5. phase = "loop" /\ UNCHANGED <<used, index, phase>>
      BY <1>6, <2>2 DEF P!ExtraPool
    <3> HIDE DEF IInv
    <3> QED
      BY <2>2, <3>1, <3>2, <3>3, <3>4, <3>5, AppendInv
  <2> QED
    BY <1>6, <2>1, <2>2 DEF P!ExtraPool
<1>7. CASE P!Finish
  BY <1>0, <1>7 DEF P!Finish, IInv, P!TypeOK, P!LowestFree, AutoInv, RangeInv, PhaseInv, P!Phases,
                    FromStride, FromPool, P!Dupes
<1>8. CASE UNCHANGED P!vars
  BY <1>8 DEF P!vars, IInv, P!TypeOK, P!LowestFree, AutoInv, RangeInv, PhaseInv, FromStride,
     FromPool, P!Dupes
<1> QED
  BY <1>1, <1>2, <1>3, <1>4, <1>5, <1>6, <1>7, <1>8 DEF P!Next

\* The invariant of every behaviour.
LEMMA Inductive == P!Spec => []IInv
BY InitInv, StepInv, PTL DEF P!Spec

-----------------------------------------------------------------------------

\* The allocator's state is always well formed: an index, entries with ports and
\* a phase.
THEOREM PortsTyping == P!Spec => []P!TypeOK
<1>1. IInv => P!TypeOK
  BY DEF IInv
<1> QED
  BY <1>1, Inductive, PTL

\* lowest_free_index returns the lowest index not in use, whatever is in use.
THEOREM LowestFreeTheorem == P!Spec => []LowestFree
<1>1. IInv => LowestFree
  BY DEF IInv, LowestFree
<1> QED
  BY <1>1, Inductive, PTL

\* No two instances, at any indices the cap admits, are ever auto-allocated the
\* same host port, and no auto-allocated port exceeds 65535.
THEOREM BandsTheorem == P!Spec => []AutoBandsDisjoint
<1>1. IInv => AutoBandsDisjoint
  <2> SUFFICES ASSUME IInv, NEW r \in resolved, r.auto
               PROVE  /\ 1 <= r.host /\ r.host <= P!MAX_PORT
                      /\ \A j \in Siblings \ {index} :
                           j <= P!MAX_PORT_INDEX => ~P!AutoHost(j, r.host)
    BY DEF AutoBandsDisjoint, P!AutoBandsDisjoint
  <2>1. index \in Nat /\ index <= 1295 /\ extra \in 0..10 /\ r.host \in Nat
    BY Cap DEF IInv, P!TypeOK, RangeInv, P!STRIDE, P!Entry
  <2>2. \/ \E b \in {5555, 27042, 27043} : r.host = b + index * 10
        \/ 40000 + index * 10 <= r.host /\ r.host < 40000 + index * 10 + 10
    BY <2>1, Bases DEF IInv, AutoInv, FromStride, FromPool, P!STRIDE, P!EXTRA_POOL_BASE
  <2>3. 1 <= r.host /\ r.host <= P!MAX_PORT
    BY <2>1, <2>2 DEF P!MAX_PORT
  <2>4. ASSUME NEW j \in Siblings \ {index}, j <= P!MAX_PORT_INDEX, P!AutoHost(j, r.host)
        PROVE  FALSE
    <3>1. j \in Nat /\ j <= 1295 /\ j # index
      BY <2>4, Cap, HostAssumption DEF P!PortsAssumption
    <3>2. \/ \E b \in {5555, 27042, 27043} : r.host = b + j * 10
          \/ 40000 + j * 10 <= r.host /\ r.host < 40000 + (j + 1) * 10
      BY <2>4, Bases DEF P!AutoHost, P!STRIDE, P!EXTRA_POOL_BASE
    <3> QED
      BY <2>1, <2>2, <3>1, <3>2
  <2> QED
    BY <2>3, <2>4
<1> QED
  BY <1>1, Inductive, PTL

\* A ports: list that pins no host never raises for duplicate hosts.
THEOREM PinsTheorem == P!Spec => []P!OnlyPinsCollide
<1>1. IInv => P!OnlyPinsCollide
  <2> SUFFICES ASSUME IInv, NEW r \in resolved, NEW s \in resolved,
                      r.auto, s.auto, r.host = s.host
               PROVE  r = s
    BY DEF IInv, PhaseInv, P!OnlyPinsCollide, P!Dupes
  <2>1. index \in Nat /\ index <= 1295 /\ r \in P!Entry /\ s \in P!Entry
    BY Cap DEF IInv, P!TypeOK, RangeInv
  <2>2. (FromStride(r) \/ FromPool(r)) /\ (FromStride(s) \/ FromPool(s))
    BY DEF IInv, AutoInv
  <2>3. CASE FromStride(r) /\ FromStride(s)
    <3>0. P!Base(r.service) \in {5555, 27042, 27043} /\ P!Base(s.service) \in {5555, 27042, 27043}
      BY <2>3, Bases DEF FromStride
    <3>a. P!Base(r.service) + index * P!STRIDE = P!Base(s.service) + index * P!STRIDE
      BY <2>3 DEF FromStride
    <3>b. \A x, y, k \in Int : x + k = y + k => x = y
      OBVIOUS
    <3>c. index * P!STRIDE \in Int /\ P!Base(r.service) \in Int /\ P!Base(s.service) \in Int
      BY <2>1, <3>0 DEF P!STRIDE
    <3>1. P!Base(r.service) = P!Base(s.service)
      BY <3>a, <3>b, <3>c
    <3>2. r.service = s.service
      BY <2>3, <3>1, Bases DEF FromStride
    <3> QED
      BY <2>3, <3>2 DEF FromStride, IInv, AutoInv
  <2>4. CASE FromPool(r) /\ FromPool(s)
    BY <2>1, <2>4 DEF FromPool, P!Entry
  <2>a. \A b \in {5555, 27042, 27043} : b + index * 10 < 40000 + index * 10
    BY <2>1
  <2>5. CASE FromStride(r) /\ FromPool(s)
    BY <2>1, <2>5, <2>a, Bases DEF FromStride, FromPool, P!STRIDE, P!EXTRA_POOL_BASE, P!Entry
  <2>6. CASE FromPool(r) /\ FromStride(s)
    BY <2>1, <2>6, <2>a, Bases DEF FromStride, FromPool, P!STRIDE, P!EXTRA_POOL_BASE, P!Entry
  <2>7. CASE FromStride(r)
    BY <2>2, <2>3, <2>5, <2>7
  <2>8. CASE FromPool(r)
    BY <2>2, <2>4, <2>6, <2>8
  <2> QED
    BY <2>2, <2>7, <2>8
<1> QED
  BY <1>1, Inductive, PTL

-----------------------------------------------------------------------------
(* The walks of the registry (Fleet).                                      *)

\* A row that ls has to account for.
Listed(n) == n \in steady /\ row[n] \in {"redroid", "adb"}

\* An instance that a fan-out has to reach.
Wanted(n) == n \in steady /\ F!Healthy(n)

\* Where a walk is, and that there is only one.
WalkOrder ==
  /\ walkPc \in {"list", "filter", "act"} => walk # "ls"
  /\ walkPc \in {"lsMetas", "lsAll", "lsResolve", "lsOrphans", "lsRender"} => walk = "ls"
  /\ walkPc # "idle" => end = "none"
  /\ end = "none" /\ walkPc \in {"idle", "list"} => acted = {}

\* What each pass has done so far.
Reached ==
  \A n \in Names : Wanted(n) =>
    /\ walkPc = "filter" => n \in todo \cup kept
    /\ walkPc = "act" => n \in todo \cup acted
    /\ walk # "ls" /\ end = "ok" => n \in acted

Accounted ==
  \A n \in Names : Listed(n) =>
    /\ walkPc = "lsAll" => n \in kept
    /\ walkPc \in {"lsResolve", "lsOrphans"} /\ ~F!IsOrphan(n) => n \in kept
    /\ walkPc = "lsOrphans" /\ F!IsOrphan(n) => n \in todo \cup orphans
    /\ walkPc = "lsRender" /\ ~F!IsOrphan(n) => n \in todo \cup shown
    /\ walkPc = "lsRender" /\ F!IsOrphan(n) => n \in orphans
    /\ walk = "ls" /\ end = "ok" => n \in shown \cup orphans

WalkInv == F!TypeOK /\ WalkOrder /\ Reached /\ F!FanoutActsOnReal /\ Accounted

\* Less-than on the naturals has no infinite descent.
Below == {ss \in Nat \X Nat : ss[1] < ss[2]}

LEMMA BelowWellFounded == IsWellFoundedOn(Below, Nat)
BY NatLessThanWellFounded, Zenon DEF OpToRel, Below

\* The next name of a pass is one of those it has still to visit.
LEMMA FirstIn ==
  ASSUME NEW S, S \subseteq Nat, S # {}
  PROVE  F!First(S) \in S
<1>1. PICK x \in S : \A y \in S : ~(<<y, x>> \in Below)
  BY BelowWellFounded, WFMin
<1>2. ASSUME NEW y \in S PROVE x <= y
  <2>1. x \in Nat /\ y \in Nat /\ <<y, x>> \notin Below
    BY <1>1
  <2>2. <<y, x>> \in Nat \X Nat /\ <<y, x>>[1] = y /\ <<y, x>>[2] = x
    BY <2>1
  <2>3. ~(y < x)
    BY <2>1, <2>2 DEF Below
  <2> QED
    BY <2>1, <2>3
<1> QED
  BY <1>2 DEF F!First

\* What resolves is there; what does not is an orphan or not ls's to account for.
LEMMA Resolves ==
  ASSUME F!TypeOK, NEW n \in Names
  PROVE  /\ F!Resolve(n) \in F!Backed <=> F!Healthy(n)
         /\ row[n] \in {"redroid", "adb"} /\ ~F!IsOrphan(n) => F!Resolve(n) \notin {"notFound", "invalid"}
<1>1. row[n] \in F!Kinds /\ yaml[n] \in {"ok", "bad", "gone"}
  BY DEF F!TypeOK
<1> QED
  BY <1>1 DEF F!Kinds, F!Resolve, F!Backed, F!Healthy, F!IsOrphan

\* The walk and the verb leave every row alone.
LEMMA SameRows ==
  ASSUME UNCHANGED <<row, yaml, steady>>
  PROVE  \A n \in Names : /\ Listed(n)' <=> Listed(n)
                          /\ Wanted(n)' <=> Wanted(n)
                          /\ F!IsOrphan(n)' <=> F!IsOrphan(n)
                          /\ F!Healthy(n)' <=> F!Healthy(n)
BY DEF Listed, Wanted, F!IsOrphan, F!Healthy

\* A walk starts.
LEMMA BeginWalk == ASSUME WalkInv, F!Begin PROVE WalkInv'
<1>1. /\ UNCHANGED <<row, yaml, running, todo, kept, acted, orphans, redroids, shown, end, walkChanges>>
      /\ walkPc = "idle" /\ end = "none" /\ walk' \in Walks /\ steady' = Names
      /\ walkPc' \in {"lsMetas", "list"} /\ (walkPc' = "lsMetas" <=> walk' = "ls")
  BY DEF F!Begin
<1>2. acted = {}
  BY <1>1 DEF WalkInv, WalkOrder
<1>3. F!TypeOK'
  BY <1>1 DEF WalkInv, F!TypeOK
<1>4. WalkOrder' /\ F!FanoutActsOnReal'
  BY <1>1, <1>2 DEF WalkOrder, F!FanoutActsOnReal
<1>5. Reached' /\ Accounted'
  BY <1>1 DEF Reached, Accounted
<1> QED
  BY <1>3, <1>4, <1>5 DEF WalkInv

\* What a step of a fan-out owes: the rest follows.
LEMMA FanoutOwes ==
  ASSUME WalkInv, UNCHANGED <<row, yaml, steady, walkChanges, walk, orphans, redroids, shown>>,
         walk # "ls", F!TypeOK', walkPc' \in {"filter", "act", "idle"},
         walkPc' = "idle" <=> end' # "none",
         \A n \in acted' : n \in acted \/ F!Healthy(n),
         \A n \in Names : Wanted(n) => /\ walkPc' = "filter" => n \in todo' \cup kept'
                                       /\ walkPc' = "act" => n \in todo' \cup acted'
                                       /\ end' = "ok" => n \in acted'
  PROVE  WalkInv'
<1>1. WalkOrder'
  BY DEF WalkOrder
<1>2. Reached'
  BY SameRows DEF Reached
<1>3. F!FanoutActsOnReal'
  BY DEF WalkInv, F!FanoutActsOnReal, F!Healthy
<1>4. Accounted'
  BY DEF Accounted
<1> QED
  BY <1>1, <1>2, <1>3, <1>4 DEF WalkInv

\* The fan-out.
LEMMA FanoutWalk ==
  ASSUME WalkInv, F!List \/ F!Filter \/ F!Filtered \/ F!Act \/ F!Acted
  PROVE  WalkInv'
<1>0. F!TypeOK /\ WalkOrder /\ Reached
  BY DEF WalkInv
<1>1. /\ UNCHANGED <<row, yaml, steady, walkChanges, walk, orphans, redroids, shown>>
      /\ walkPc \in {"list", "filter", "act"} /\ walk # "ls" /\ end = "none"
  BY <1>0 DEF F!List, F!Filter, F!Filtered, F!Act, F!Acted, F!world, WalkOrder
<1>2. CASE F!List
  <2>1. /\ todo' = F!Registered /\ kept' = {} /\ UNCHANGED <<running, acted>>
        /\ \/ todo' = {} /\ walkPc' = "idle" /\ end' = "ok"
           \/ walkPc' = "filter" /\ end' = end
    BY <1>2 DEF F!List, F!End, F!world
  <2>2. F!TypeOK'
    BY <1>0, <1>1, <2>1 DEF F!TypeOK, F!Registered
  <2>3. \A n \in Names : Wanted(n) => n \in todo'
    BY <2>1 DEF Wanted, F!Healthy, F!Backed, F!Registered
  <2> QED
    BY <1>1, <2>1, <2>2, <2>3, FanoutOwes
<1>3. CASE F!Filter
  <2>1. PICK n \in todo : n = F!First(todo)
    <3>1. todo \subseteq Nat /\ todo # {}
      BY <1>0, <1>3, HostAssumption DEF F!Filter, F!TypeOK, F!FleetAssumption
    <3> QED
      BY <3>1, FirstIn
  <2>2. /\ walkPc = "filter" /\ UNCHANGED <<running, acted>>
        /\ \/ walkPc' = "idle" /\ end' = "invalid" /\ UNCHANGED <<todo, kept>>
           \/ /\ UNCHANGED <<walkPc, end>> /\ todo' = todo \ {n}
              /\ kept' = kept \cup ({n} \cap {m \in Names : F!Resolve(m) \in F!Backed})
    BY <1>3, <2>1 DEF F!Filter, F!End, F!world
  <2>3. F!TypeOK'
    BY <1>0, <1>1, <2>1, <2>2 DEF F!TypeOK
  <2>4. \A m \in Names : Wanted(m) => m \in todo \cup kept
    BY <1>0, <2>2 DEF Reached
  <2>5. n \in Names /\ (Wanted(n) => F!Resolve(n) \in F!Backed)
    BY <1>0, <2>1, Resolves DEF F!TypeOK, Wanted
  <2>6. \A m \in Names : Wanted(m) /\ walkPc' = "filter" => m \in todo' \cup kept'
    BY <2>2, <2>4, <2>5
  <2> QED
    BY <1>1, <2>2, <2>3, <2>6, FanoutOwes
<1>4. CASE F!Filtered
  <2>1. /\ walkPc = "filter" /\ todo = {} /\ todo' = kept /\ walkPc' = "act"
        /\ UNCHANGED <<running, acted, kept, end>>
    BY <1>4 DEF F!Filtered, F!world
  <2>2. F!TypeOK'
    BY <1>0, <1>1, <2>1 DEF F!TypeOK
  <2> QED
    BY <1>0, <1>1, <2>1, <2>2, FanoutOwes DEF Reached
<1>5. CASE F!Act
  <2>1. PICK n \in todo : n = F!First(todo)
    <3>1. todo \subseteq Nat /\ todo # {}
      BY <1>0, <1>5, HostAssumption DEF F!Act, F!TypeOK, F!FleetAssumption
    <3> QED
      BY <3>1, FirstIn
  <2>2. n \in Names /\ (F!Resolve(n) \in F!Backed => F!Healthy(n))
    BY <1>0, <2>1, Resolves DEF F!TypeOK
  <2>3. F!Resolve(n) \notin F!Backed =>
          (IF F!Resolve(n) = "adb" THEN "capability" ELSE F!Resolve(n))
             \in {"capability", "notFound", "invalid"}
    <3>1. row[n] \in F!Kinds
      BY <1>0, <2>2 DEF F!TypeOK
    <3> QED
      BY <3>1 DEF F!Resolve, F!Backed, F!Kinds
  <2>4. /\ walkPc = "act" /\ UNCHANGED kept
        /\ \/ /\ F!Resolve(n) \in F!Backed /\ todo' = todo \ {n} /\ acted' = acted \cup {n}
              /\ running' \in {running \ {n}, running \cup {n}} /\ UNCHANGED <<walkPc, end>>
           \/ /\ UNCHANGED <<todo, acted, running>> /\ walkPc' = "idle"
              /\ end' \in {"failed", "capability", "notFound", "invalid"}
    BY <1>5, <2>1, <2>3 DEF F!Act, F!End
  <2>5. F!TypeOK'
    BY <1>0, <1>1, <2>2, <2>4 DEF F!TypeOK
  <2>6. \A m \in Names : Wanted(m) => m \in todo \cup acted
    BY <1>0, <2>4 DEF Reached
  <2> QED
    BY <1>1, <2>2, <2>4, <2>5, <2>6, FanoutOwes
<1>6. CASE F!Acted
  <2>1. /\ walkPc = "act" /\ todo = {} /\ walkPc' = "idle" /\ end' = "ok"
        /\ UNCHANGED <<running, acted, kept, todo>>
    BY <1>6 DEF F!Acted, F!End, F!world
  <2>2. F!TypeOK'
    BY <1>0, <1>1, <2>1 DEF F!TypeOK
  <2> QED
    BY <1>0, <1>1, <2>1, <2>2, FanoutOwes DEF Reached
<1> QED
  BY <1>2, <1>3, <1>4, <1>5, <1>6

\* What a step of ls owes.
LEMMA LsOwes ==
  ASSUME WalkInv, UNCHANGED <<row, yaml, steady, walkChanges, walk, running, acted>>,
         walk = "ls", F!TypeOK',
         walkPc' \in {"lsAll", "lsResolve", "lsOrphans", "lsRender", "idle"},
         walkPc' = "idle" <=> end' # "none",
         \A n \in Names : Listed(n) =>
           /\ walkPc' = "lsAll" => n \in kept'
           /\ walkPc' \in {"lsResolve", "lsOrphans"} /\ ~F!IsOrphan(n) => n \in kept'
           /\ walkPc' = "lsOrphans" /\ F!IsOrphan(n) => n \in todo' \cup orphans'
           /\ walkPc' = "lsRender" /\ ~F!IsOrphan(n) => n \in todo' \cup shown'
           /\ walkPc' = "lsRender" /\ F!IsOrphan(n) => n \in orphans'
           /\ end' = "ok" => n \in shown' \cup orphans'
  PROVE  WalkInv'
<1>1. WalkOrder'
  BY DEF WalkOrder
<1>2. Reached'
  BY DEF Reached
<1>3. F!FanoutActsOnReal'
  BY DEF WalkInv, F!FanoutActsOnReal, F!Healthy
<1>4. Accounted'
  BY SameRows DEF Accounted
<1> QED
  BY <1>1, <1>2, <1>3, <1>4 DEF WalkInv

\* ls.
LEMMA LsWalk ==
  ASSUME WalkInv,
         F!LsMetas \/ F!LsAll \/ F!LsResolve \/ F!LsOrphans \/ F!LsRender
  PROVE  WalkInv'
<1>0. F!TypeOK /\ WalkOrder /\ Accounted
  BY DEF WalkInv
<1>1. /\ UNCHANGED <<row, yaml, steady, walkChanges, walk, running, acted>>
      /\ walkPc \in {"lsMetas", "lsAll", "lsResolve", "lsOrphans", "lsRender"}
      /\ walk = "ls" /\ end = "none"
  BY <1>0 DEF F!LsMetas, F!LsAll, F!LsResolve, F!LsOrphans, F!LsRender, F!world, WalkOrder
<1>2. \A n \in Names : Listed(n) => n \in F!Registered
  BY DEF Listed, F!Registered
<1>3. ASSUME todo # {} PROVE F!First(todo) \in Names
  <2>1. todo \subseteq Nat
    BY <1>0, HostAssumption DEF F!TypeOK, F!FleetAssumption
  <2> QED
    BY <1>0, <1>3, <2>1, FirstIn DEF F!TypeOK
<1>4. CASE F!LsMetas
  <2>1. walkPc' = "lsAll" /\ kept' = F!Registered /\ UNCHANGED <<todo, orphans, redroids, shown, end>>
    BY <1>4 DEF F!LsMetas
  <2>2. F!TypeOK'
    BY <1>0, <1>1, <2>1 DEF F!TypeOK, F!Registered
  <2> QED
    BY <1>1, <1>2, <2>1, <2>2, LsOwes
<1>5. CASE F!LsAll
  <2>1. /\ walkPc = "lsAll" /\ walkPc' = "lsResolve" /\ todo' = F!Registered
        /\ kept' = kept \cap F!Registered /\ UNCHANGED <<orphans, redroids, shown, end>>
    BY <1>5 DEF F!LsAll
  <2>2. F!TypeOK'
    BY <1>0, <1>1, <2>1 DEF F!TypeOK, F!Registered
  <2> QED
    BY <1>0, <1>1, <1>2, <2>1, <2>2, LsOwes DEF Accounted
<1>6. CASE F!LsResolve
  <2>1. CASE todo = {}
    <3>1. /\ walkPc = "lsResolve" /\ walkPc' = "lsOrphans" /\ todo' = F!Registered
          /\ UNCHANGED <<kept, orphans, redroids, shown, end>>
      BY <1>6, <2>1 DEF F!LsResolve
    <3>2. F!TypeOK'
      BY <1>0, <1>1, <3>1 DEF F!TypeOK, F!Registered
    <3> QED
      BY <1>0, <1>1, <1>2, <3>1, <3>2, LsOwes DEF Accounted
  <2>2. CASE todo # {}
    <3>1. PICK n \in Names : n = F!First(todo)
      BY <1>3, <2>2
    <3>2. /\ walkPc = "lsResolve" /\ UNCHANGED <<walkPc, orphans, shown, end>>
          /\ todo' = todo \ {n}
          /\ kept' = (IF F!Resolve(n) \in {"notFound", "invalid"} THEN kept \ {n} ELSE kept)
          /\ redroids' \in {redroids, redroids \cup {n}}
      BY <1>6, <2>2, <3>1 DEF F!LsResolve
    <3>3. F!TypeOK'
      BY <1>0, <1>1, <3>2 DEF F!TypeOK
    <3>4. \A m \in Names : Listed(m) /\ ~F!IsOrphan(m) => m \in kept'
      BY <1>0, <3>2, Resolves DEF Accounted, Listed
    <3> QED
      BY <1>1, <3>2, <3>3, <3>4, LsOwes
  <2> QED
    BY <2>1, <2>2
<1>7. CASE F!LsOrphans
  <2>1. CASE todo = {}
    <3>1. /\ walkPc = "lsOrphans" /\ walkPc' = "lsRender" /\ todo' = kept
          /\ UNCHANGED <<kept, orphans, redroids, shown, end>>
      BY <1>7, <2>1 DEF F!LsOrphans
    <3>2. F!TypeOK'
      BY <1>0, <1>1, <3>1 DEF F!TypeOK
    <3> QED
      BY <1>0, <1>1, <2>1, <3>1, <3>2, LsOwes DEF Accounted
  <2>2. CASE todo # {}
    <3>1. PICK n \in Names : n = F!First(todo)
      BY <1>3, <2>2
    <3>2. /\ walkPc = "lsOrphans" /\ UNCHANGED <<walkPc, kept, redroids, shown, end>>
          /\ todo' = todo \ {n}
          /\ orphans' = (IF F!IsOrphan(n) THEN orphans \cup {n} ELSE orphans)
      BY <1>7, <2>2, <3>1 DEF F!LsOrphans
    <3>3. F!TypeOK'
      BY <1>0, <1>1, <3>2 DEF F!TypeOK
    <3> QED
      BY <1>0, <1>1, <3>2, <3>3, LsOwes DEF Accounted
  <2> QED
    BY <2>1, <2>2
<1>8. CASE F!LsRender
  <2>1. CASE todo = {}
    <3>1. /\ walkPc = "lsRender" /\ walkPc' = "idle" /\ end' = "ok"
          /\ UNCHANGED <<todo, kept, orphans, redroids, shown>>
      BY <1>8, <2>1 DEF F!LsRender, F!End
    <3>2. F!TypeOK'
      BY <1>0, <1>1, <3>1 DEF F!TypeOK
    <3> QED
      BY <1>0, <1>1, <2>1, <3>1, <3>2, LsOwes DEF Accounted
  <2>2. CASE todo # {}
    <3>1. PICK n \in Names : n = F!First(todo)
      BY <1>3, <2>2
    <3>2. /\ walkPc = "lsRender" /\ UNCHANGED <<kept, orphans, redroids>>
          /\ \/ walkPc' = "idle" /\ end' = "notFound" /\ UNCHANGED <<todo, shown>>
             \/ todo' = todo \ {n} /\ shown' = shown \cup {n} /\ UNCHANGED <<walkPc, end>>
      BY <1>8, <2>2, <3>1 DEF F!LsRender, F!End
    <3>3. F!TypeOK'
      BY <1>0, <1>1, <3>2 DEF F!TypeOK
    <3> QED
      BY <1>0, <1>1, <3>2, <3>3, LsOwes DEF Accounted
  <2> QED
    BY <2>1, <2>2
<1> QED
  BY <1>4, <1>5, <1>6, <1>7, <1>8

\* Another command or the user: whoever is touched is no longer steady.
LEMMA OthersWalk == ASSUME WalkInv, F!Others PROVE WalkInv'
<1>1. PICK n \in Names, c \in Changes : F!Change(n, c) /\ steady' = steady \ {n}
  BY DEF F!Others
<1>2. /\ UNCHANGED <<running, walkPc, walk, todo, kept, acted, orphans, redroids, shown, end>>
      /\ walkChanges' \in 0..MaxWalkChanges
  BY HostAssumption DEF F!Others, WalkInv, F!TypeOK, F!FleetAssumption
<1>3. /\ row' \in [Names -> F!Kinds] /\ yaml' \in [Names -> {"ok", "bad", "gone"}]
      /\ \A m \in Names : m # n => row'[m] = row[m] /\ yaml'[m] = yaml[m]
  BY <1>1 DEF F!Change, WalkInv, F!TypeOK, F!Kinds, F!Backed
<1>4. \A m \in Names : m \in steady' => /\ m \in steady /\ row'[m] = row[m] /\ yaml'[m] = yaml[m]
  BY <1>1, <1>3
<1>5. F!TypeOK'
  BY <1>1, <1>2, <1>3 DEF WalkInv, F!TypeOK
<1>6. WalkOrder'
  BY <1>2 DEF WalkInv, WalkOrder
<1>7. \A m \in Names : /\ Wanted(m)' => Wanted(m)
                       /\ Listed(m)' => Listed(m) /\ (F!IsOrphan(m)' <=> F!IsOrphan(m))
  BY <1>4 DEF Wanted, Listed, F!Healthy, F!IsOrphan
<1>8. Reached' /\ Accounted'
  BY <1>2, <1>7 DEF WalkInv, Reached, Accounted
<1>9. F!FanoutActsOnReal'
  BY <1>2, <1>4, <1>5 DEF WalkInv, F!TypeOK, F!FanoutActsOnReal, F!Healthy
<1> QED
  BY <1>5, <1>6, <1>8, <1>9 DEF WalkInv

\* Over any registry, with any number of instances, and whatever is removed,
\* broken or added during the walk, a fan-out that reports success reached every
\* healthy instance nobody touched and acted on nothing it could not resolve, and
\* ls accounts for every redroid and adb row nobody touched
\* (_resolve_lifecycle_names, _ls_rows).
THEOREM WalksAlwaysExact == F!Spec => []WalksExact
<1>1. F!Init => WalkInv
  BY HostAssumption DEF F!Init, F!FleetAssumption, WalkInv, F!TypeOK, WalkOrder, Reached,
     Accounted, F!FanoutActsOnReal
<1>2. WalkInv /\ [F!Next]_F!vars => WalkInv'
  <2>1. CASE UNCHANGED F!vars
    BY <2>1 DEF F!vars, WalkInv, F!TypeOK, WalkOrder, Reached, Accounted, F!FanoutActsOnReal,
                Wanted, Listed, F!Healthy, F!IsOrphan
  <2> QED
    BY <2>1, BeginWalk, FanoutWalk, LsWalk, OthersWalk DEF F!Next, F!Step
<1>3. WalkInv => WalksExact
  <2> SUFFICES ASSUME WalkInv PROVE F!WalksExact
    BY DEF WalksExact
  <2>1. steady \subseteq Names
    BY DEF WalkInv, F!TypeOK
  <2> QED
    BY <2>1 DEF WalkInv, F!WalksExact, Reached, Accounted, Wanted, Listed, F!FanoutReachesAll,
                F!LsAccountsForAll
<1> QED
  BY <1>1, <1>2, <1>3, PTL DEF F!Spec
-----------------------------------------------------------------------------
(* What modes, doctor and up make of the host (HostPlan).                  *)

Instances == [binder : {"auto", "host", "vm"}, accel : {"auto", "kvm", "tcg"}, cache : BOOLEAN]
Outcomes  == {"none", "started", "blocked", "accel", "artifacts", "qemuImg", "running", "qemu",
              "adb", "boot", "compose"}

HostTyped ==
  /\ host \in [on : SUBSET Facts, kernel : KernelConfigs, kvm : {"absent", "denied", "usable"},
               gz : KernelConfigs \cup {Unreadable}, boot : KernelConfigs \cup {Unreadable}]
  /\ "daemon" \in host.on => "docker" \in host.on
  /\ inst \in Instances
  /\ box \in BOOLEAN /\ same \in BOOLEAN
  /\ pc \in {"idle", "preflight", "down", "start"} /\ verb \in {"none", "up", "restart"}
  /\ plan \in {"none", "proceed", "warn", "block", "vm"}
  /\ out \in Outcomes

\* What was said is about the host as it is, and about the box until the command
\* that follows touches it.
SaidNow ==
  /\ report # {} => report = Survey
  /\ \A r \in rows : r.status \in {"pass", "fail", "skip"}
  /\ rows # {} /\ inst.binder # "vm" =>
       \A s \in {"pass", "fail"} : Row("host.binder", s) <=> CheckHostBinder(inst.binder) = s
  /\ rows # {} /\ inst.binder = "vm" =>
       /\ Omen.accel \in rows <=> DetectAccel(inst.accel) = "error"
       /\ Omen.artifacts \in rows <=> ~Has("artifacts")
       /\ Omen.qemu \in rows <=> ~Has("qemu")
       /\ Omen.adb \in rows <=> ~Has("adb")
       /\ out = "none" /\ (verb = "restart" => pc # "start") =>
            (box => Row("vm.process", "pass")) /\ (~box => Row("vm.process", "fail"))

\* So are the plan and the outcome, while the host is the one of the preflight.
DoneNow ==
  /\ pc = "preflight" => plan = "none"
  /\ pc # "idle" => verb # "none" /\ out = "none"
  /\ pc = "down" => verb = "restart"
  /\ pc = "start" /\ verb = "restart" => ~box
  /\ inst.binder = "vm" /\ rows # {} =>
       /\ out = "running" => verb = "up" /\ Row("vm.process", "pass")
       /\ out = "started" /\ verb = "up" => Row("vm.process", "fail")
  /\ same =>
       /\ plan # "none" => plan = Plan(inst.binder)
       /\ out = "blocked" => inst.binder # "vm" /\ Plan(inst.binder) = "block"
       /\ out = "compose" => inst.binder # "vm" /\ ~DaemonResponsive
       /\ out = "accel" => inst.binder = "vm" /\ DetectAccel(inst.accel) = "error"
       /\ out = "qemu" => inst.binder = "vm" /\ ~Has("qemu")
       /\ out = "artifacts" => inst.binder = "vm" /\ ~Has("artifacts")
       /\ out = "adb" => inst.binder = "vm" /\ ~Has("adb")
       /\ out = "started" /\ inst.binder = "vm" =>
            Has("artifacts") /\ DetectAccel(inst.accel) # "error" /\ Has("qemu") /\ Has("adb")

HostInv == HostTyped /\ SaidNow /\ DoneNow

\* A step that leaves the host alone leaves alone what is computed from it.
LEMMA SameHost ==
  ASSUME UNCHANGED <<host, inst>>
  PROVE  /\ Survey' = Survey /\ Plan(inst.binder)' = Plan(inst.binder)
         /\ DetectAccel(inst.accel)' = DetectAccel(inst.accel)
         /\ DaemonResponsive' = DaemonResponsive
         /\ \A f : Has(f)' = Has(f)
         /\ CheckHostBinder(inst.binder)' = CheckHostBinder(inst.binder)
<1>1. KernelConfigBinder' = KernelConfigBinder /\ \A f : Has(f)' = Has(f)
  BY DEF KernelConfigBinder, Has, Unreadable
<1>2. Classify' = Classify /\ DaemonResponsive' = DaemonResponsive
  BY <1>1 DEF Classify, DaemonResponsive
<1>3. \A a : DetectAccel(a)' = DetectAccel(a)
  BY <1>1 DEF DetectAccel
<1>4. Plan(inst.binder)' = Plan(inst.binder)
  BY <1>2 DEF Plan
<1>5. RedroidHost' = RedroidHost /\ VmKvm' = VmKvm /\ VmTcg' = VmTcg
      /\ AdbAdopt' = AdbAdopt
  BY <1>1, <1>2, <1>3 DEF RedroidHost, VmKvm, VmTcg, AdbAdopt
<1>6. Survey' = Survey
  BY <1>5 DEF Survey
<1>7. CheckHostBinder(inst.binder)' = CheckHostBinder(inst.binder)
  BY <1>2 DEF CheckHostBinder
<1> QED
  BY <1>1, <1>2, <1>3, <1>4, <1>6, <1>7

\* What was said stays true of a host that stays, as long as the command has not
\* come to the box.
LEMMA StillSaid ==
  ASSUME HostInv, UNCHANGED <<host, inst>>, report' \in {report, Survey}, rows' \in {rows, {}},
         \/ out' # "none" \/ (verb' = "restart" /\ pc' = "start")
         \/ /\ box' = box
            /\ (out = "none" /\ (verb = "restart" => pc # "start")) \/ rows' = {}
  PROVE  SaidNow'
<1>1. \A c, s : Row(c, s)' => Row(c, s)
  BY DEF Row
<1>2. rows' = rows => \A c, s : Row(c, s)' <=> Row(c, s)
  BY DEF Row
<1> QED
  BY <1>1, <1>2, SameHost DEF HostInv, SaidNow

\* doctor's rows, as they are asked for.
LEMMA Rows ==
  ASSUME HostTyped, rows' = IF inst.binder = "vm" THEN VmHealth ELSE Health
  PROVE  /\ \A r \in rows' : r.status \in {"pass", "fail", "skip"}
         /\ inst.binder # "vm" =>
              \A s \in {"pass", "fail"} :
                Row("host.binder", s)' <=> CheckHostBinder(inst.binder) = s
         /\ inst.binder = "vm" =>
              /\ Omen.accel \in rows' <=> DetectAccel(inst.accel) = "error"
              /\ Omen.artifacts \in rows' <=> ~Has("artifacts")
              /\ Omen.qemu \in rows' <=> ~Has("qemu")
              /\ Omen.adb \in rows' <=> ~Has("adb")
              /\ (box => Row("vm.process", "pass")') /\ (~box => Row("vm.process", "fail")')
<1>1. CASE inst.binder = "vm"
  <2>1. PICK ps, as, qs, rs, cs :
          /\ rows' = {[check |-> "vm.process", status |-> ps], [check |-> "vm.accel", status |-> as],
                      [check |-> "vm.qemu", status |-> qs], [check |-> "vm.artifacts", status |-> rs],
                      [check |-> "adb.connect", status |-> cs]}
          /\ ps = PassIf(box) /\ as = PassIf(DetectAccel(inst.accel) # "error")
          /\ qs = PassIf(Has("qemu")) /\ rs = PassIf(Has("artifacts"))
          /\ cs = IF Has("adb") THEN PassIf(box) ELSE "skip"
    BY <1>1 DEF VmHealth
  <2>2. /\ ps \in {"pass", "fail"} /\ as \in {"pass", "fail"} /\ qs \in {"pass", "fail"}
        /\ rs \in {"pass", "fail"} /\ cs \in {"pass", "fail", "skip"}
        /\ (box => ps = "pass") /\ (~box => ps = "fail")
        /\ as = "fail" <=> DetectAccel(inst.accel) = "error"
        /\ qs = "fail" <=> ~Has("qemu")
        /\ rs = "fail" <=> ~Has("artifacts")
        /\ cs = "skip" <=> ~Has("adb")
    BY <2>1 DEF PassIf
  <2>3. \A r \in rows' : r.status \in {"pass", "fail", "skip"}
    BY <2>1, <2>2
  <2>4. /\ Omen.accel \in rows' <=> as = "fail"
        /\ Omen.artifacts \in rows' <=> rs = "fail"
        /\ Omen.qemu \in rows' <=> qs = "fail"
        /\ Omen.adb \in rows' <=> cs = "skip"
    BY <2>1 DEF Omen
  <2>5. Row("vm.process", ps)'
    <3>1. PICK r : r = [check |-> "vm.process", status |-> ps]
      OBVIOUS
    <3>2. r \in rows' /\ r.check = "vm.process" /\ r.status = ps
      BY <2>1, <3>1
    <3> QED
      BY <3>2, Zenon DEF Row
  <2> QED
    BY <1>1, <2>2, <2>3, <2>4, <2>5
<1>2. CASE inst.binder # "vm"
  <2>1. PICK v, w : /\ v = CheckHostBinder(inst.binder) /\ w = PassIf(PsStatus = "running")
                    /\ rows' = {[check |-> "compose.status", status |-> w],
                                [check |-> "host.binder", status |-> v]}
    BY <1>2 DEF Health
  <2>2. v \in {"pass", "fail", "skip"} /\ w \in {"pass", "fail"}
    BY <2>1 DEF CheckHostBinder, PassIf
  <2>3. \A s : (\E r \in rows' : r.check = "host.binder" /\ r.status = s) <=> v = s
    <3>1. PICK x, y : /\ x = [check |-> "compose.status", status |-> w]
                      /\ y = [check |-> "host.binder", status |-> v]
      OBVIOUS
    <3>2. rows' = {x, y} /\ x.check # "host.binder" /\ y.check = "host.binder" /\ y.status = v
      BY <2>1, <3>1
    <3> QED
      BY <3>2
  <2> QED
    BY <1>2, <2>1, <2>2, <2>3 DEF Row
<1> QED
  BY <1>1, <1>2

\* The questions, and the start of a command.
LEMMA AskedHost == ASSUME HostInv, Modes \/ Doctor \/ Start PROVE HostInv'
<1>1. UNCHANGED <<host, inst, box, same, changes>> /\ pc = "idle"
  BY DEF Modes, Doctor, Start
<1>2. \/ /\ report' = Survey /\ UNCHANGED <<pc, verb, plan, out, rows>>
      \/ /\ Doctor /\ verb' = "none" /\ plan' = "none" /\ out' = "none" /\ UNCHANGED <<pc, report>>
      \/ /\ pc' = "preflight" /\ verb' \in {"up", "restart"} /\ out' = "none" /\ plan' = "none"
         /\ report' = report /\ rows' = IF out = "none" THEN rows ELSE {}
  BY DEF Modes, Doctor, Start
<1>3. HostTyped'
  BY <1>1, <1>2 DEF HostInv, HostTyped, Facts, KernelConfigs, Unreadable, Outcomes
<1>4. SaidNow'
  <2>1. CASE Doctor
    <3>1. rows' = IF inst.binder = "vm" THEN VmHealth ELSE Health
      BY <2>1 DEF Doctor
    <3>2. HostTyped /\ (report' # {} => report' = Survey)
      BY <2>1 DEF Doctor, HostInv, SaidNow
    <3> HIDE DEF HostInv
    <3> QED
      BY <1>1, <3>1, <3>2, Rows, SameHost DEF SaidNow
  <2>2. CASE report' = Survey /\ UNCHANGED <<pc, verb, plan, out, rows>>
    <3>1. \A c, s : Row(c, s)' <=> Row(c, s)
      BY <2>2 DEF Row
    <3> QED
      BY <1>1, <2>2, <3>1, SameHost DEF HostInv, SaidNow
  <2>3. CASE /\ pc' = "preflight" /\ verb' \in {"up", "restart"} /\ out' = "none"
             /\ report' = report /\ rows' = IF out = "none" THEN rows ELSE {}
    BY <1>1, <2>3, StillSaid
  <2> QED
    BY <1>2, <2>1, <2>2, <2>3
<1>5. DoneNow'
  <2>1. rows' = rows => \A c, s : Row(c, s)' <=> Row(c, s)
    BY DEF Row
  <2> QED
    BY <1>1, <1>2, <2>1, SameHost DEF HostInv, DoneNow
<1> QED
  BY <1>3, <1>4, <1>5 DEF HostInv

\* The preflight decides about the host it sees.
LEMMA PreflightHost == ASSUME HostInv, Preflight PROVE HostInv'
<1> DEFINE p == Plan(inst.binder)
           refused == p = "block" \/ (p = "vm" /\ DetectAccel(inst.accel) = "error")
<1>0. inst.binder \in {"auto", "host", "vm"} /\ inst.accel \in {"auto", "kvm", "tcg"}
  BY DEF HostInv, HostTyped, Instances
<1>1. /\ UNCHANGED <<host, inst, box, verb, report, rows, changes>> /\ same' = TRUE
      /\ pc = "preflight" /\ plan = "none" /\ out = "none"
  BY DEF Preflight, HostInv, DoneNow
<1>5. verb \in {"up", "restart"} /\ \A c, s : Row(c, s)' <=> Row(c, s)
  BY <1>1 DEF HostInv, HostTyped, DoneNow, Row
<1>2. /\ p \in {"proceed", "warn", "block", "vm"} /\ (p = "vm" <=> inst.binder = "vm")
  BY <1>0 DEF Plan, Classify
<1>3. CASE verb = "restart" /\ inst.binder # "vm"
  <2>1. pc' = "down" /\ UNCHANGED <<plan, out>>
    BY <1>3 DEF Preflight
  <2>3. SaidNow'
    BY <1>1, <2>1, StillSaid
  <2>2. HostTyped' /\ DoneNow'
    BY <1>1, <1>3, <1>5, <2>1, SameHost DEF HostInv, HostTyped, DoneNow, Facts, KernelConfigs,
                                Unreadable, Outcomes
  <2> QED
    BY <2>2, <2>3 DEF HostInv
<1>4. CASE ~(verb = "restart" /\ inst.binder # "vm")
  <2>1. /\ plan' = p
        /\ pc' = IF refused THEN "idle" ELSE IF verb = "restart" THEN "down" ELSE "start"
        /\ out' = CASE p = "block" -> "blocked" [] p # "block" /\ refused -> "accel"
                    [] OTHER -> out
    BY <1>4 DEF Preflight
  <2>2. /\ \/ out' = "blocked" /\ p = "block" /\ pc' = "idle"
           \/ out' = "accel" /\ p = "vm" /\ DetectAccel(inst.accel) = "error" /\ pc' = "idle"
           \/ out' = "none" /\ pc' = IF verb = "restart" THEN "down" ELSE "start"
    BY <1>1, <2>1
  <2>3. HostTyped'
    BY <1>1, <1>2, <2>1, <2>2 DEF HostInv, HostTyped, Facts, KernelConfigs, Unreadable, Outcomes
  <2>4. SaidNow'
    BY <1>1, <1>5, <2>2, StillSaid
  <2>5. DoneNow'
    BY <1>1, <1>2, <1>5, <2>1, <2>2, SameHost DEF DoneNow
  <2> QED
    BY <2>3, <2>4, <2>5 DEF HostInv
<1> QED
  BY <1>3, <1>4

\* The first half of a restart.
LEMMA DownHost == ASSUME HostInv, LifecycleDown PROVE HostInv'
<1>1. /\ UNCHANGED <<host, inst, verb, plan, same, report, rows, changes>>
      /\ pc = "down" /\ verb = "restart" /\ out = "none"
  BY DEF LifecycleDown, HostInv, DoneNow
<1>2. \/ /\ inst.binder # "vm" /\ ~DaemonResponsive /\ pc' = "idle" /\ out' = "compose"
         /\ box' = box
      \/ pc' = "start" /\ box' = FALSE /\ out' = out
  BY DEF LifecycleDown
<1>3. HostTyped'
  <2>1. pc' \in {"idle", "start"} /\ box' \in BOOLEAN /\ out' \in Outcomes
    BY <1>1, <1>2 DEF HostInv, HostTyped, Outcomes
  <2> QED
    BY <1>1, <2>1 DEF HostInv, HostTyped, Facts, KernelConfigs, Unreadable
<1>4. SaidNow'
  BY <1>1, <1>2, StillSaid
<1>5. DoneNow'
  BY <1>1, <1>2, SameHost DEF HostInv, DoneNow
<1> QED
  BY <1>3, <1>4, <1>5 DEF HostInv

\* The start itself.
LEMMA UpHost == ASSUME HostInv, LifecycleUp PROVE HostInv'
<1>1. /\ UNCHANGED <<host, inst, verb, plan, same, report, rows, changes>> /\ pc' = "idle"
      /\ box' = (box \/ out' = "started") /\ pc = "start" /\ out = "none"
      /\ verb \in {"up", "restart"} /\ \A c, s : Row(c, s)' <=> Row(c, s)
  BY DEF LifecycleUp, HostInv, HostTyped, DoneNow, Row
<1>2. \/ /\ inst.binder = "vm"
         /\ \/ out' = "artifacts" /\ ~Has("artifacts")
            \/ out' = "accel" /\ DetectAccel(inst.accel) = "error"
            \/ out' = "qemu" /\ ~Has("qemu")
            \/ out' = "adb" /\ ~Has("adb")
            \/ out' = "running" /\ box
            \/ out' \in {"qemuImg", "boot"}
            \/ /\ out' = "started" /\ Has("artifacts") /\ Has("qemu") /\ Has("adb")
               /\ DetectAccel(inst.accel) # "error" /\ ~box
      \/ /\ inst.binder # "vm"
         /\ out' = "started" \/ (out' = "compose" /\ ~DaemonResponsive)
  BY DEF LifecycleUp, VmUpEnds
<1>3. HostTyped'
  <2>1. box' \in BOOLEAN /\ out' \in Outcomes
    BY <1>1, <1>2 DEF Outcomes
  <2> QED
    BY <1>1, <2>1 DEF HostInv, HostTyped, Facts, KernelConfigs, Unreadable
<1>6. out' # "none"
  BY <1>2
<1>4. SaidNow'
  BY <1>1, <1>6, StillSaid
<1>7. inst.binder = "vm" /\ rows # {} =>
        /\ out' = "running" => verb = "up" /\ Row("vm.process", "pass")
        /\ out' = "started" /\ verb = "up" => Row("vm.process", "fail")
  BY <1>1, <1>2 DEF HostInv, DoneNow, SaidNow
<1>5. DoneNow'
  BY <1>1, <1>2, <1>7, SameHost DEF HostInv, DoneNow
<1> QED
  BY <1>3, <1>4, <1>5 DEF HostInv

\* The host changes: nothing that was said or done is about it any more.
LEMMA ChangedHost ==
  ASSUME HostInv, HostChanges \/ FollowRemedy
  PROVE  HostInv'
<1>1. /\ UNCHANGED <<inst, box, pc, verb, plan, out>>
      /\ report' = {} /\ rows' = {} /\ same' = FALSE
  BY DEF HostChanges, FollowRemedy
<1>2. PICK a \in {"modprobe", "rmmod", "qemu", "docker", "daemon", "daemonStops", "adb",
                  "kvmGroup", "artifacts", "rmArtifacts"} : HostAct(a)
  <2>1. CASE HostChanges
    BY <2>1, HostAssumption DEF HostChanges, HostPlanAssumption
  <2>2. CASE FollowRemedy
    <3>1. Remedy \in {"qemu", "modprobe", "daemon", "docker"}
      BY DEF Remedy
    <3> QED
      BY <2>2, <3>1 DEF FollowRemedy
  <2> QED
    BY <2>1, <2>2
<1>3. PICK on \in SUBSET Facts, kvm \in {"absent", "denied", "usable"} :
        host' = [host EXCEPT !.on = on, !.kvm = kvm] /\ ("daemon" \in on => "docker" \in on)
  <2>0. /\ host.on \subseteq Facts /\ host.kvm \in {"absent", "denied", "usable"}
        /\ "daemon" \in host.on => "docker" \in host.on
    BY DEF HostInv, HostTyped
  <2>1. CASE a = "modprobe"
    <3>1. Became(host.on \cup {"dev", "binderfs"}, host.kvm)
      BY <1>2, <2>1 DEF HostAct
    <3>2. host.on \cup {"dev", "binderfs"} \in SUBSET Facts
          /\ ("daemon" \in host.on \cup {"dev", "binderfs"} => "docker" \in host.on \cup {"dev", "binderfs"})
      BY <2>0 DEF Facts
    <3> QED
      BY <2>0, <3>1, <3>2 DEF Became
  <2>2. CASE a = "rmmod"
    <3>1. Became(host.on \ {"dev", "binderfs"}, host.kvm)
      BY <1>2, <2>2 DEF HostAct
    <3>2. host.on \ {"dev", "binderfs"} \in SUBSET Facts
          /\ ("daemon" \in host.on \ {"dev", "binderfs"} => "docker" \in host.on \ {"dev", "binderfs"})
      BY <2>0 DEF Facts
    <3> QED
      BY <2>0, <3>1, <3>2 DEF Became
  <2>3. CASE a = "daemonStops"
    <3>1. Became(host.on \ {"daemon"}, host.kvm)
      BY <1>2, <2>3 DEF HostAct
    <3>2. host.on \ {"daemon"} \in SUBSET Facts
          /\ ("daemon" \in host.on \ {"daemon"} => "docker" \in host.on \ {"daemon"})
      BY <2>0 DEF Facts
    <3> QED
      BY <2>0, <3>1, <3>2 DEF Became
  <2>4. CASE a = "kvmGroup"
    <3>1. Became(host.on, "usable")
      BY <1>2, <2>4 DEF HostAct
    <3> QED
      BY <2>0, <3>1 DEF Became, Facts
  <2>5. CASE a = "rmArtifacts"
    <3>1. Became(host.on \ {"artifacts"}, host.kvm)
      BY <1>2, <2>5 DEF HostAct
    <3>2. host.on \ {"artifacts"} \in SUBSET Facts
          /\ ("daemon" \in host.on \ {"artifacts"} => "docker" \in host.on \ {"artifacts"})
      BY <2>0 DEF Facts
    <3> QED
      BY <2>0, <3>1, <3>2 DEF Became
  <2>6. CASE a = "daemon"
    <3>1. Became(host.on \cup {"daemon"}, host.kvm) /\ "docker" \in host.on
      BY <1>2, <2>6 DEF HostAct, Has
    <3>2. host.on \cup {"daemon"} \in SUBSET Facts
          /\ ("daemon" \in host.on \cup {"daemon"} => "docker" \in host.on \cup {"daemon"})
      BY <2>0, <3>1 DEF Facts
    <3> QED
      BY <2>0, <3>1, <3>2 DEF Became
  <2>7. CASE a \in {"qemu", "docker", "adb", "artifacts"}
    <3>1. Became(host.on \cup {a}, host.kvm)
      BY <1>2, <2>7 DEF HostAct
    <3>2. host.on \cup {a} \in SUBSET Facts
          /\ ("daemon" \in host.on \cup {a} => "docker" \in host.on \cup {a})
      BY <2>0, <2>7 DEF Facts
    <3> QED
      BY <2>0, <3>1, <3>2 DEF Became
  <2> QED
    BY <2>1, <2>2, <2>3, <2>4, <2>5, <2>6, <2>7
<1>4. HostTyped'
  <2>1. host' \in [on : SUBSET Facts, kernel : KernelConfigs,
                   kvm : {"absent", "denied", "usable"},
                   gz : KernelConfigs \cup {Unreadable}, boot : KernelConfigs \cup {Unreadable}]
        /\ host'.on = on
    BY <1>3 DEF HostInv, HostTyped
  <2>2. "daemon" \in host'.on => "docker" \in host'.on
    BY <1>3, <2>1
  <2> QED
    BY <1>1, <2>1, <2>2 DEF HostInv, HostTyped
<1>5. SaidNow' /\ DoneNow'
  BY <1>1 DEF HostInv, SaidNow, DoneNow
<1> QED
  BY <1>4, <1>5 DEF HostInv

\* Before any command, nothing was said or done.
LEMMA HostInit == ASSUME Init PROVE HostInv
<1>1. /\ box = FALSE /\ pc = "idle" /\ verb = "none" /\ plan = "none" /\ same = TRUE
      /\ out = "none" /\ report = {} /\ rows = {}
      /\ inst \in [binder : Binders, accel : {"auto", "kvm", "tcg"}, cache : BOOLEAN]
  BY DEF Init
<1>2. inst \in Instances
  BY <1>1, HostAssumption DEF Instances, HostPlanAssumption
<1>3. PICK on \in SUBSET Facts, k \in KernelConfigs, kvm \in {"absent", "denied", "usable"},
           gz \in BOOLEAN, boot \in BOOLEAN :
        /\ "daemon" \in on => "docker" \in on
        /\ host = [on |-> on, kernel |-> k, kvm |-> kvm,
                   gz |-> IF gz THEN k ELSE Unreadable, boot |-> IF boot THEN k ELSE Unreadable]
  BY DEF Init
<1>4. PICK g \in KernelConfigs \cup {Unreadable}, b \in KernelConfigs \cup {Unreadable} :
        host = [on |-> on, kernel |-> k, kvm |-> kvm, gz |-> g, boot |-> b]
  BY <1>3
<1>5. HostTyped
  <2>1. host \in [on : SUBSET Facts, kernel : KernelConfigs,
                  kvm : {"absent", "denied", "usable"},
                  gz : KernelConfigs \cup {Unreadable}, boot : KernelConfigs \cup {Unreadable}]
    BY <1>4
  <2>2. "daemon" \in host.on => "docker" \in host.on
    BY <1>3, <1>4
  <2> QED
    BY <1>1, <1>2, <2>1, <2>2 DEF HostTyped, Outcomes
<1> QED
  BY <1>1, <1>5 DEF HostInv, SaidNow, DoneNow

\* The invariant of the commands.
LEMMA HostInductive == Spec => []HostInv
<1>1. Init => HostInv
  BY HostInit
<1>2. HostInv /\ [Next]_vars => HostInv'
  <2>1. ASSUME HostInv, UNCHANGED vars PROVE HostInv'
    <3>1. UNCHANGED <<host, inst, box, pc, verb, plan, same, out, report, rows, changes>>
      BY <2>1 DEF vars
    <3>2. HostTyped'
      BY <2>1, <3>1 DEF HostInv, HostTyped, Facts, KernelConfigs, Unreadable
    <3>3. \A c, s : Row(c, s)' <=> Row(c, s)
      BY <3>1 DEF Row
    <3> QED
      BY <2>1, <3>1, <3>2, <3>3, SameHost DEF HostInv, SaidNow, DoneNow
  <2> QED
    BY <2>1, AskedHost, PreflightHost, DownHost, UpHost, ChangedHost DEF Next
<1> QED
  BY <1>1, <1>2, PTL DEF Spec

\* Whatever happens to the host in between, what modes calls supported starts as
\* long as the host is the one that was asked about (survey, plan_binder_runtime,
\* detect_accel).
THEOREM SupportedAlwaysStarts == Spec => []SupportedStarts
<1>1. HostInv => SupportedStarts
  <2> SUFFICES ASSUME HostInv, same PROVE
        /\ Said("redroid") /\ inst.binder # "vm" => out \notin {"blocked", "compose"}
        /\ Said("kvm") /\ inst.binder = "vm" => out \notin {"accel", "qemu"}
        /\ Said("tcg") /\ inst.binder = "vm" => out # "qemu"
    BY DEF SupportedStarts
  <2>0. inst.binder \in {"auto", "host", "vm"} /\ inst.accel \in {"auto", "kvm", "tcg"}
    BY DEF HostInv, HostTyped, Instances
  <2>1. ASSUME Said("redroid") PROVE Classify = "ready" /\ DaemonResponsive
    <3>1. report = Survey
      BY <2>1 DEF HostInv, SaidNow, Said
    <3>2. RedroidHost = "supported"
      BY <2>1, <3>1 DEF Said, Survey
    <3> QED
      BY <3>2 DEF RedroidHost, Classify
  <2>2. ASSUME Said("kvm") PROVE DetectAccel(inst.accel) # "error" /\ Has("qemu")
    <3>1. report = Survey
      BY <2>2 DEF HostInv, SaidNow, Said
    <3>2. VmKvm = "supported"
      BY <2>2, <3>1 DEF Said, Survey
    <3>3. DetectAccel("auto") = "kvm" /\ Has("qemu")
      BY <3>2 DEF VmKvm
    <3>4. Has("x86") /\ host.kvm = "usable"
      BY <3>3 DEF DetectAccel
    <3> QED
      BY <2>0, <3>3, <3>4 DEF DetectAccel
  <2>3. ASSUME Said("tcg") PROVE Has("qemu")
    <3>1. report = Survey
      BY <2>3 DEF HostInv, SaidNow, Said
    <3>2. VmTcg = "supported"
      BY <2>3, <3>1 DEF Said, Survey
    <3> QED
      BY <3>2 DEF VmTcg
  <2>4. inst.binder # "vm" /\ Classify = "ready" => Plan(inst.binder) # "block"
    BY <2>0 DEF Plan
  <2> QED
    BY <2>1, <2>2, <2>3, <2>4 DEF HostInv, DoneNow
<1> QED
  BY <1>1, HostInductive, PTL

\* Whatever happens to the host in between, doctor's binder row is what a redroid
\* up does about binder, and each of its vm rows is what a vm up or restart then
\* meets at that check, an already running machine and a missing adb included
\* (health, check_host_binder, VmDeviceBackend.up).
THEOREM DoctorAlwaysPredicts == Spec => []DoctorPredicts
<1>1. HostInv => DoctorPredicts
  <2> SUFFICES ASSUME HostInv PROVE TypeOK /\ DoctorMatchesUp /\ VmDoctorPredicts
    BY DEF DoctorPredicts
  <2>0. inst.binder \in {"auto", "host", "vm"} /\ inst.accel \in {"auto", "kvm", "tcg"}
    BY DEF HostInv, HostTyped, Instances
  <2>1. TypeOK
    <3>1. \A r \in report : r.status \in {"supported", "needs-setup", "unsupported", "unknown"}
      <4>1. Classify \in {"ready", "loadable", "unsupported", "unknown"}
        BY DEF Classify
      <4>2. {RedroidHost, VmKvm, VmTcg, AdbAdopt}
              \subseteq {"supported", "needs-setup", "unsupported", "unknown"}
        BY <4>1 DEF RedroidHost, VmKvm, VmTcg, AdbAdopt
      <4> QED
        BY <4>2 DEF HostInv, SaidNow, Survey
    <3>2. \A r \in rows : r.status \in {"pass", "fail", "skip"}
      BY DEF HostInv, SaidNow
    <3> QED
      BY <3>1, <3>2 DEF HostInv, HostTyped, Outcomes, TypeOK
  <2>2. DoctorMatchesUp
    <3> SUFFICES ASSUME same, plan # "none", inst.binder # "vm"
                 PROVE  /\ Row("host.binder", "pass") => plan = "proceed"
                        /\ rows # {} /\ plan = "proceed" => Row("host.binder", "pass")
                        /\ rows # {} /\ plan = "block" => Row("host.binder", "fail")
      BY DEF DoctorMatchesUp
    <3>1. plan = Plan(inst.binder)
      BY DEF HostInv, DoneNow
    <3>2. rows # {} =>
            /\ Row("host.binder", "pass") <=> CheckHostBinder(inst.binder) = "pass"
            /\ Row("host.binder", "fail") <=> CheckHostBinder(inst.binder) = "fail"
      BY DEF HostInv, SaidNow
    <3>3. /\ CheckHostBinder(inst.binder) = "pass" <=> Plan(inst.binder) = "proceed"
          /\ Plan(inst.binder) = "block" => CheckHostBinder(inst.binder) = "fail"
      BY <2>0 DEF CheckHostBinder, Plan, Classify
    <3>4. Row("host.binder", "pass") => rows # {}
      BY DEF Row
    <3> QED
      BY <3>1, <3>2, <3>3, <3>4
  <2>3. VmDoctorPredicts
    <3> SUFFICES ASSUME inst.binder = "vm", rows # {}, same
                 PROVE  /\ \A e \in DOMAIN Omen : /\ out = e => Omen[e] \in rows
                                                  /\ out = "started" => Omen[e] \notin rows
                        /\ out = "running" => verb = "up" /\ Row("vm.process", "pass")
                        /\ out = "started" /\ verb = "up" => Row("vm.process", "fail")
      BY DEF VmDoctorPredicts
    <3>1. /\ Omen.accel \in rows <=> DetectAccel(inst.accel) = "error"
          /\ Omen.artifacts \in rows <=> ~Has("artifacts")
          /\ Omen.qemu \in rows <=> ~Has("qemu")
          /\ Omen.adb \in rows <=> ~Has("adb")
      BY DEF HostInv, SaidNow
    <3>2. /\ DOMAIN Omen = {"accel", "artifacts", "qemu", "adb"}
          /\ Omen["accel"] = Omen.accel /\ Omen["artifacts"] = Omen.artifacts
          /\ Omen["qemu"] = Omen.qemu /\ Omen["adb"] = Omen.adb
      BY DEF Omen
    <3>3. \A e \in {"accel", "artifacts", "qemu", "adb"} :
            /\ out = e => Omen[e] \in rows
            /\ out = "started" => Omen[e] \notin rows
      BY <3>1, <3>2 DEF HostInv, DoneNow
    <3>4. /\ out = "running" => verb = "up" /\ Row("vm.process", "pass")
          /\ out = "started" /\ verb = "up" => Row("vm.process", "fail")
      BY DEF HostInv, DoneNow
    <3> QED
      BY <3>2, <3>3, <3>4
  <2> QED
    BY <2>1, <2>2, <2>3
<1> QED
  BY <1>1, HostInductive, PTL

\* A kernel config that can be read is the kernel's, and a kernel without binder
\* shows no binder device.
KernelTrue ==
  /\ HostTyped
  /\ host.gz \in {host.kernel, Unreadable} /\ host.boot \in {host.kernel, Unreadable}
  /\ {"dev", "binderfs"} \cap host.on # {} => host.kernel # "not-set"

\* What a host change does: a new set of facts, the same machine and kernel, and
\* a binder device only where the kernel has binder.
LEMMA HostActKept ==
  ASSUME HostTyped, HostChanges \/ FollowRemedy
  PROVE  /\ \E on, kvm : host' = [host EXCEPT !.on = on, !.kvm = kvm]
         /\ "x86" \in host'.on <=> "x86" \in host.on
         /\ host.kernel = "not-set" =>
              \A f \in {"dev", "binderfs"} : f \in host'.on => f \in host.on
<1>1. PICK a \in {"modprobe", "rmmod", "qemu", "docker", "daemon", "daemonStops", "adb",
                  "kvmGroup", "artifacts", "rmArtifacts"} : HostAct(a)
  <2>1. CASE HostChanges
    BY <2>1, HostAssumption DEF HostChanges, HostPlanAssumption
  <2>2. CASE FollowRemedy
    <3>1. Remedy \in {"qemu", "modprobe", "daemon", "docker"}
      BY DEF Remedy
    <3> QED
      BY <2>2, <3>1 DEF FollowRemedy
  <2> QED
    BY <2>1, <2>2
<1>2. \E on, kvm : /\ Became(on, kvm)
                   /\ "x86" \in on <=> "x86" \in host.on
                   /\ host.kernel = "not-set" =>
                        \A f \in {"dev", "binderfs"} : f \in on => f \in host.on
  <2>1. CASE a = "modprobe"
    BY <1>1, <2>1 DEF HostAct
  <2>2. CASE a = "rmmod"
    BY <1>1, <2>2 DEF HostAct
  <2>3. CASE a = "daemonStops"
    BY <1>1, <2>3 DEF HostAct
  <2>4. CASE a = "kvmGroup"
    BY <1>1, <2>4 DEF HostAct
  <2>5. CASE a = "rmArtifacts"
    BY <1>1, <2>5 DEF HostAct
  <2>6. CASE a = "daemon"
    BY <1>1, <2>6 DEF HostAct
  <2>7. CASE a \in {"qemu", "docker", "adb", "artifacts"}
    BY <1>1, <2>7 DEF HostAct
  <2> QED
    BY <2>1, <2>2, <2>3, <2>4, <2>5, <2>6, <2>7
<1>3. PICK on, kvm : /\ Became(on, kvm)
                     /\ "x86" \in on <=> "x86" \in host.on
                     /\ host.kernel = "not-set" =>
                          \A f \in {"dev", "binderfs"} : f \in on => f \in host.on
  BY <1>2
<1>4. host' = [host EXCEPT !.on = on, !.kvm = kvm]
  BY <1>3 DEF Became
<1>5. host'.on = on
  BY <1>4 DEF HostTyped
<1> QED
  BY <1>3, <1>4, <1>5

\* Whatever is installed, started or loaded, a redroid host called unsupported
\* stays unsupported: modes never tells a user to give up on a host that a setup
\* step would have made to work (redroid_host, classify).
THEOREM UnsupportedIsFinal == Spec => UnsupportedRedroidStays
<1>1. Init => KernelTrue
  <2> SUFFICES ASSUME Init, HostTyped
               PROVE  /\ host.gz \in {host.kernel, Unreadable}
                      /\ host.boot \in {host.kernel, Unreadable}
                      /\ {"dev", "binderfs"} \cap host.on # {} => host.kernel # "not-set"
    BY HostInit DEF HostInv, KernelTrue
  <2>1. PICK on \in SUBSET Facts, k \in KernelConfigs, kvm \in {"absent", "denied", "usable"},
             gz \in BOOLEAN, boot \in BOOLEAN :
          /\ ("daemon" \in on => "docker" \in on)
          /\ ({"dev", "binderfs"} \cap on # {} => k # "not-set")
          /\ host = [on |-> on, kernel |-> k, kvm |-> kvm,
                     gz |-> IF gz THEN k ELSE Unreadable, boot |-> IF boot THEN k ELSE Unreadable]
    BY Zenon DEF Init
  <2> QED
    BY <2>1
<1>2. KernelTrue /\ HostInv' /\ [Next]_vars => KernelTrue'
  <2> SUFFICES ASSUME KernelTrue, HostInv', [Next]_vars
               PROVE  KernelTrue'
    OBVIOUS
  <2>1. CASE UNCHANGED host
    BY <2>1 DEF KernelTrue, HostInv, Unreadable
  <2>2. CASE HostChanges \/ FollowRemedy
    <3>1. host'.gz = host.gz /\ host'.boot = host.boot /\ host'.kernel = host.kernel
      BY <2>2, HostActKept DEF KernelTrue, HostTyped
    <3> QED
      BY <2>2, <3>1, HostActKept DEF KernelTrue, HostInv, Unreadable
  <2> QED
    BY <2>1, <2>2 DEF Next, vars, Modes, Doctor, Start, Preflight, LifecycleDown,
       LifecycleUp
<1>3. KernelTrue /\ [Next]_vars
        => [RedroidHost = "unsupported" => RedroidHost' = "unsupported"]_vars
  <2> SUFFICES ASSUME KernelTrue, [Next]_vars, RedroidHost = "unsupported"
               PROVE  RedroidHost' = "unsupported"
    BY DEF vars
  <2>1. ~Has("x86") \/ Classify = "unsupported"
    BY DEF RedroidHost
  <2>2. CASE UNCHANGED host
    BY <2>1, <2>2 DEF RedroidHost, Classify, Has, KernelConfigBinder, Unreadable
  <2>3. CASE HostChanges \/ FollowRemedy
    <3>1. host'.gz = host.gz /\ host'.boot = host.boot /\ host'.kernel = host.kernel
      BY <2>3, HostActKept DEF KernelTrue, HostTyped
    <3>2. CASE ~Has("x86")
      BY <2>3, <3>2, HostActKept DEF KernelTrue, RedroidHost, Has
    <3>3. CASE Classify = "unsupported"
      <4>1. ~Has("dev") /\ ~Has("binderfs") /\ KernelConfigBinder = "not-set"
        BY <3>3 DEF Classify
      <4>2. host.kernel = "not-set"
        BY <4>1 DEF KernelConfigBinder, KernelTrue, Unreadable
      <4>3. ~Has("dev")' /\ ~Has("binderfs")'
        BY <2>3, <4>1, <4>2, HostActKept DEF KernelTrue, Has
      <4>4. KernelConfigBinder' = "not-set"
        BY <3>1, <4>1 DEF KernelConfigBinder, Unreadable
      <4>5. Classify' = "unsupported"
        BY <4>3, <4>4 DEF Classify
      <4> QED
        BY <4>5 DEF RedroidHost
    <3> QED
      BY <2>1, <3>2, <3>3
  <2> QED
    BY <2>2, <2>3 DEF Next, vars, Modes, Doctor, Start, Preflight, LifecycleDown,
       LifecycleUp
<1> QED
  BY <1>1, <1>2, <1>3, HostInductive, PTL DEF Spec, UnsupportedRedroidStays
=============================================================================
