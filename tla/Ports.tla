------------------------------- MODULE Ports --------------------------------
(***************************************************************************)
(* Port allocation (src/beetroot/ports.py): lowest_free_index picks the    *)
(* instance's index, _check_index bounds it, and resolve_ports turns the   *)
(* ports: list of its beetroot.yaml into host ports.  One behaviour is one *)
(* allocation followed by one resolution; the list is chosen entry by      *)
(* entry as the loop consumes it, subject to the config validators.        *)
(***************************************************************************)
EXTENDS Integers

CONSTANTS
  UsedSets,   \* the sets of indices already registered
  PinnedHosts,\* host: values the list may pin
  Siblings    \* indices of other instances that share the host

\* What a model of the allocation must give these constants.
PortsAssumption ==
  /\ \A u \in UsedSets : u \subseteq Nat
  /\ \A h \in PinnedHosts : h \in Nat /\ 1 <= h /\ h <= 65535
  /\ \A j \in Siblings : j \in Nat

ADB_BASE           == 5555
FRIDA_BASE         == 27042
FRIDA_CONTROL_BASE == 27043
STRIDE             == 10
MAX_PORT           == 65535
EXTRA_POOL_BASE    == 40000

\* Mutant: the cap forgets that the extra pool's first port is taken.
BugMAX_PORT_INDEX == (EXTRA_POOL_BASE + STRIDE - FRIDA_CONTROL_BASE) \div STRIDE

\* The tighter of: well-known bands below the pool, pool below 65536.
MAX_PORT_INDEX ==
  LET a == (EXTRA_POOL_BASE - 1 - FRIDA_CONTROL_BASE) \div STRIDE
      b == (MAX_PORT - EXTRA_POOL_BASE - STRIDE) \div STRIDE
  IN  IF a <= b THEN a ELSE b

WellKnown == {"adb", "frida", "frida_control"}
Services  == WellKnown \cup {"other"}

Base(service) ==
  CASE service = "adb"           -> ADB_BASE
    [] service = "frida"         -> FRIDA_BASE
    [] service = "frida_control" -> FRIDA_CONTROL_BASE

VARIABLES
  used,      \* indices held by registered instances
  index,     \* i of lowest_free_index, then the instance's index
  phase,     \* "alloc", "check", "loop", or how resolve_ports ended
  resolved,  \* the ResolvedPort entries so far
  extra      \* extra_slot

vars == <<used, index, phase, resolved, extra>>

Phases == {"alloc", "check", "loop", "ok", "badIndex", "spill", "collision"}

\* One entry.  No two entries of a list are equal: services and pins are
\* distinct, and each host-unset arbitrary entry takes a slot of its own.
Entry == [service : Services, auto : BOOLEAN, host : Nat]

Init ==
  /\ used \in UsedSets
  /\ index = 0
  /\ phase = "alloc"
  /\ resolved = {}
  /\ extra = 0

-----------------------------------------------------------------------------

\* Mutant: the scan starts beyond the lowest index.
BugScan ==
  /\ phase = "alloc" /\ (index \in used \/ index = 0)
  /\ index' = index + 1
  /\ UNCHANGED <<used, phase, resolved, extra>>

\* while i in used: i += 1
Scan ==
  /\ phase = "alloc" /\ index \in used
  /\ index' = index + 1
  /\ UNCHANGED <<used, phase, resolved, extra>>

Found ==
  /\ phase = "alloc" /\ index \notin used
  /\ phase' = "check"
  /\ UNCHANGED <<used, index, resolved, extra>>

CheckIndex ==
  /\ phase = "check"
  /\ phase' = IF index > MAX_PORT_INDEX THEN "badIndex" ELSE "loop"
  /\ UNCHANGED <<used, index, resolved, extra>>

\* config._check_ports_distinct: a service name and a pinned host appear once.
FreeServices == {s \in Services : s = "other" \/ \A r \in resolved : r.service # s}
FreePins     == {h \in PinnedHosts : \A r \in resolved : r.auto \/ r.host # h}

Append(service, auto, h) ==
  resolved' = resolved \cup {[service |-> service, auto |-> auto, host |-> h]}

\* An entry with an explicit host keeps it, well-known or not.
Pinned ==
  /\ phase = "loop"
  /\ \E s \in FreeServices, h \in FreePins : Append(s, FALSE, h)
  /\ UNCHANGED <<used, index, phase, extra>>

StrideDefault ==
  /\ phase = "loop"
  /\ \E s \in WellKnown \cap FreeServices : Append(s, TRUE, Base(s) + index * STRIDE)
  /\ UNCHANGED <<used, index, phase, extra>>

\* An unlabelled or free-form entry takes the next slot of the index's window.
ExtraPool ==
  /\ phase = "loop"
  /\ \/ extra >= STRIDE /\ phase' = "spill" /\ UNCHANGED <<resolved, extra>>
     \/ /\ extra < STRIDE
        /\ Append("other", TRUE, EXTRA_POOL_BASE + index * STRIDE + extra)
        /\ extra' = extra + 1
        /\ UNCHANGED phase
  /\ UNCHANGED <<used, index>>

Dupes == \E r, s \in resolved : r # s /\ r.host = s.host

\* The list ends (the adb entry is mandatory): PortCollisionError on duplicates.
Finish ==
  /\ phase = "loop"
  /\ \E r \in resolved : r.service = "adb"
  /\ phase' = IF Dupes THEN "collision" ELSE "ok"
  /\ UNCHANGED <<used, index, resolved, extra>>

Next == Scan \/ Found \/ CheckIndex \/ Pinned \/ StrideDefault \/ ExtraPool \/ Finish

Spec == Init /\ [][Next]_vars

-----------------------------------------------------------------------------
(* Properties.                                                             *)

\* The types.  extra_slot never passes STRIDE: the window of ten slots that
\* resolve_ports guards is never left.
TypeOK ==
  /\ used \in UsedSets
  /\ index \in Nat /\ extra \in 0..STRIDE
  /\ phase \in Phases
  /\ resolved \subseteq Entry

\* lowest_free_index returns a free index, and the lowest one.
LowestFree ==
  /\ \A j \in 0..(index - 1) : j \in used
  /\ phase # "alloc" => index \notin used

\* The host ports an instance with index j may be given without pinning any:
\* the reference the loop is compared with.
AutoHost(j, h) ==
  \/ \E s \in WellKnown : h = Base(s) + j * STRIDE
  \/ EXTRA_POOL_BASE + j * STRIDE <= h /\ h < EXTRA_POOL_BASE + (j + 1) * STRIDE

\* Auto-allocated ports of two instances can never meet, and every one is a
\* TCP port: this is what the stride, the pool base and the index cap are for.
AutoBandsDisjoint ==
  \A r \in resolved : r.auto =>
    /\ 1 <= r.host /\ r.host <= MAX_PORT
    /\ \A j \in Siblings \ {index} : j <= MAX_PORT_INDEX => ~AutoHost(j, r.host)

\* A list that pins nothing always resolves: PortCollisionError for duplicate
\* hosts needs an entry whose host the user pinned.
OnlyPinsCollide ==
  phase = "collision" => \E r \in resolved : ~r.auto

=============================================================================
