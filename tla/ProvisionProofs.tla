-------------------------- MODULE ProvisionProofs ---------------------------
(***************************************************************************)
(* Proofs about Provision, for any instances, directories, processes and   *)
(* calls, any number of hand edits and kills, and any index cap: whatever  *)
(* overlaps, published ports are disjoint; one command after another,      *)
(* directories never nest and a row has its directory (the serial scene of *)
(* MCProvision).                                                           *)
(***************************************************************************)
EXTENDS MCProvision, TLAPS

\* Where a process is between its collision check and the end of its staging.
Checked == {"resolve", "reload", "stage", "write"}

\* While nobody disturbs it, a checked process holds what is on disk.
FreshInv == \A p \in fresh : pc[p] \in Checked => Current(p)

\* An applied instance publishes what its row and its yaml claim.
AppliedInv ==
  \A n \in applied :
    /\ reg[n].there /\ yaml[reg[n].dir] # {}
    /\ staged[reg[n].dir] = {Claims(n)}

\* The instances that are applied, or about to be.
Settled == applied \cup {n \in Names : \E p \in fresh : pc[p] \in Checked /\ call[p].name = n}

\* No two of them claim the same port.
ClaimsInv == \A m, n \in Settled : m # n => Claims(m) \cap Claims(n) = {}

PInv == FreshInv /\ AppliedInv /\ ClaimsInv

-----------------------------------------------------------------------------
(* Types.                                                                  *)

USE ProvisionAssumption

LEMMA TypeInit == Init => TypeOK
<1> QED
  BY DEF Init, TypeOK, NoRow, Row, Steps, Ports

\* The rows and the records of a call are what they should be.
LEMMA CallFacts ==
  ASSUME NEW c \in Call
  PROVE  c.verb \in Verbs /\ c.name \in Names /\ c.dir \in Dirs /\ c.cfg \in SUBSET Pins
<1> QED
  BY DEF Call

LEMMA RowFacts ==
  /\ NoRow \in Row /\ ~NoRow.there
  /\ \A d \in Dirs, i \in 0..MaxIndex :
       [there |-> TRUE, dir |-> d, index |-> i] \in Row
<1> QED
  BY DEF NoRow, Row

LEMMA ClaimTypes ==
  /\ \A i \in 0..MaxIndex, c \in SUBSET Pins : Resolved(i, c) \in SUBSET Ports
  /\ \A s \in SUBSET SUBSET Pins : UNION s \in SUBSET Pins
<1> QED
  BY DEF Resolved, Ports

\* Every step of a process or of the user keeps the types.
LEMMA TypeStep == TypeOK /\ [Next]_vars => TypeOK'
<1> SUFFICES ASSUME TypeOK, [Next]_vars PROVE TypeOK'
  OBVIOUS
<1> USE DEF TypeOK
<1>0. ASSUME NEW p \in Procs, pc[p] # "idle"
      PROVE  /\ call[p] \in Call /\ call[p].name \in Names /\ call[p].dir \in Dirs
             /\ call[p].cfg \in SUBSET Pins /\ root[p] \in Dirs
  BY <1>0, CallFacts
<1>1. ASSUME NEW p \in Procs, Start(p) PROVE TypeOK'
  BY <1>1, CallFacts DEF Start, Set, Go, FirstStep, disk, Steps
<1>2. ASSUME NEW p \in Procs, Free(p) PROVE TypeOK'
  BY <1>2, <1>0 DEF Free, At, Set, Go, Return, disk, local, ghost, count, Steps
<1>3. ASSUME NEW p \in Procs, YamlCheck(p) PROVE TypeOK'
  BY <1>3, <1>0 DEF YamlCheck, At, Set, Go, Return, disk, local, ghost, count, Steps
<1>4. ASSUME NEW p \in Procs, Overlap(p) PROVE TypeOK'
  BY <1>4, <1>0 DEF Overlap, At, Set, Go, Return, disk, local, ghost, count, Steps
<1>5. ASSUME NEW p \in Procs, Wipe(p) PROVE TypeOK'
  BY <1>5, <1>0 DEF Wipe, At, Set, Go, Rmtree, Disturb, local, count, Steps
<1>6. ASSUME NEW p \in Procs, Mkdir(p) PROVE TypeOK'
  BY <1>6, <1>0 DEF Mkdir, At, Set, Go, Above, ghost, count, Steps
<1>7. ASSUME NEW p \in Procs, WriteYaml(p) PROVE TypeOK'
  BY <1>7, <1>0 DEF WriteYaml, At, Set, Go, Return, Disturb, ghost, count, Steps
<1>8. ASSUME NEW p \in Procs, Resolve(p) PROVE TypeOK'
  BY <1>8, <1>0 DEF Resolve, At, Set, Go, Return, Fail, disk, ghost, count, Steps
<1>9. ASSUME NEW p \in Procs, Load(p) PROVE TypeOK'
  BY <1>9, <1>0, ClaimTypes DEF Load, At, Set, Go, Return, Fail, disk, ghost, count, Steps
<1>10. ASSUME NEW p \in Procs, Heal(p) PROVE TypeOK'
  BY <1>10, <1>0 DEF Heal, At, Set, Go, Return, disk, local, ghost, count, Steps
<1>11. ASSUME NEW p \in Procs, Add(p) PROVE TypeOK'
  <2>1. ASSUME NEW i \in 0..MaxIndex, Register(p, i), pc[p] = "add" PROVE TypeOK'
    <3>1. reg' = [reg EXCEPT ![call[p].name] = [there |-> TRUE, dir |-> root[p], index |-> i]]
      BY <2>1 DEF Register, Set
    <3>2. reg' \in [Names -> Row] /\ \A n \in Names : reg'[n].there => reg'[n].dir \in Dirs
      BY <2>1, <3>1, <1>0, RowFacts
    <3> QED
      BY <2>1, <3>2, <1>0 DEF Register, Set, Go, Disturb, count, Steps
  <2>2. CASE Refuse(p)
    BY <2>2, <1>11, <1>0 DEF Add, Refuse, At, Set, Return, disk, local, ghost, count, Steps
  <2> QED
    BY <2>1, <2>2, <1>11 DEF Add, At
<1>12. ASSUME NEW p \in Procs, Extract(p) PROVE TypeOK'
  <2>1. pc[p] = "extract" /\ call[p] \in Call /\ root[p] \in Dirs /\ {call[p].cfg} \in SUBSET SUBSET Pins
    BY <1>12, <1>0 DEF Extract, At
  <2>2. pc' \in [Procs -> Steps] /\ out' \in [Procs -> {"none", "ok", "refused", "killed"}]
        /\ \A q \in Procs \ {p} : pc'[q] = pc[q]
    BY <1>12 DEF Extract, Set, Go, Return, Fail, Steps
  <2>3. /\ yaml' \in [Dirs -> SUBSET SUBSET Pins] /\ there' \subseteq Dirs
        /\ fresh' \subseteq Procs /\ applied' \subseteq Names
    <3>1. CASE /\ there' = there \cup Above(root[p])
               /\ Set(yaml, root[p], {call[p].cfg}) /\ Disturb({}, {root[p]})
      BY <3>1, <2>1 DEF Set, Disturb, Above
    <3>2. CASE UNCHANGED <<there, yaml, ghost>>
      BY <3>2 DEF ghost
    <3> QED
      BY <1>12, <3>1, <3>2 DEF Extract
  <2> QED
    BY <1>12, <2>1, <2>2, <2>3 DEF Extract, local, count
<1>13. ASSUME NEW p \in Procs, Check(p) PROVE TypeOK'
  BY <1>13, <1>0 DEF Check, At, Set, Go, Return, Fail, disk, local, count, Steps
<1>14. ASSUME NEW p \in Procs, ReadIndex(p) PROVE TypeOK'
  BY <1>14, <1>0 DEF ReadIndex, At, Set, Go, Return, Fail, Row, disk, ghost, count, Steps
<1>15. ASSUME NEW p \in Procs, Write(p) PROVE TypeOK'
  BY <1>15, <1>0, ClaimTypes DEF Write, At, Set, Return, Above, local, count, Steps
<1>16. ASSUME NEW p \in Procs, RollbackRow(p) PROVE TypeOK'
  <2>1. reg' \in [Names -> Row] /\ \A n \in Names : reg'[n].there => reg'[n].dir \in Dirs
    BY <1>16, <1>0, RowFacts DEF RollbackRow, At, Set
  <2>2. fresh' \subseteq Procs /\ applied' \subseteq Names
    BY <1>16 DEF RollbackRow, Disturb
  <2>3. /\ pc[p] # "idle" /\ pc' \in [Procs -> Steps]
        /\ out' \in [Procs -> {"none", "ok", "refused", "killed"}]
        /\ \A q \in Procs \ {p} : pc'[q] = pc[q]
    BY <1>16 DEF RollbackRow, At, Set, Go, Return, Steps
  <2> QED
    BY <1>16, <1>0, <2>1, <2>2, <2>3 DEF RollbackRow, local, count
<1>17. ASSUME NEW p \in Procs, RollbackDir(p) PROVE TypeOK'
  BY <1>17, <1>0 DEF RollbackDir, At, Set, Return, Rmtree, Disturb, local, count, Steps
<1>18. ASSUME NEW p \in Procs, Remove(p) PROVE TypeOK'
  BY <1>18, <1>0, RowFacts DEF Remove, At, Set, Go, Return, Disturb, local, count, Steps
<1>19. ASSUME NEW p \in Procs, DestroyDir(p) PROVE TypeOK'
  BY <1>19, <1>0 DEF DestroyDir, At, Set, Return, Rmtree, Disturb, local, count, Steps
<1>20. ASSUME NEW p \in Procs, Kill(p) PROVE TypeOK'
  BY <1>20 DEF Kill, Set, Return, disk, local, ghost, Steps
<1>21. ASSUME NEW d \in Dirs, UserEdit(d) PROVE TypeOK'
  BY <1>21 DEF UserEdit, Set, Disturb, local
<1>22. ASSUME NEW d \in Dirs, UserUnstage(d) PROVE TypeOK'
  BY <1>22 DEF UserUnstage, Set, local
<1>23. CASE UNCHANGED vars
  BY <1>23 DEF vars
<1> QED
  BY <1>1, <1>2, <1>3, <1>4, <1>5, <1>6, <1>7, <1>8, <1>9, <1>10, <1>11, <1>12, <1>13,
     <1>14, <1>15, <1>16, <1>17, <1>18, <1>19, <1>20, <1>21, <1>22, <1>23 DEF Next

\* Whatever the processes, the user and kill signals do, the state is well typed;
\* in particular add_allocating never hands out an index past _MAX_PORT_INDEX.
THEOREM Typing == Spec => []TypeOK
<1> QED
  BY TypeInit, TypeStep, PTL DEF Spec

-----------------------------------------------------------------------------
(* Ports.                                                                  *)

\* What a current process would publish is what its instance claims.
LEMMA CurrentClaims ==
  ASSUME TypeOK, NEW p \in Procs, Current(p), call[p].name \in Names
  PROVE  Claims(call[p].name) = Resolved(index[p], cfg[p])
<1> DEFINE n == call[p].name
<1>1. reg[n].there /\ reg[n].dir = root[p] /\ reg[n].index = index[p]
  BY DEF Current
<1>2. yaml[root[p]] = {cfg[p]} /\ yaml[root[p]] # {}
  BY DEF Current
<1>3. UNION yaml[root[p]] = cfg[p]
  BY <1>2
<1> QED
  BY <1>1, <1>2, <1>3 DEF Claims

\* A step that leaves alone the rows and the files of the instances it keeps in
\* applied, and of the processes it keeps in fresh, keeps the invariant.
LEMMA Preserve ==
  ASSUME TypeOK, TypeOK', PInv,
         \A n \in applied' :
           /\ n \in applied /\ reg'[n] = reg[n]
           /\ yaml'[reg[n].dir] = yaml[reg[n].dir] /\ staged'[reg[n].dir] = staged[reg[n].dir],
         \A p \in fresh' : pc'[p] \in Checked =>
           /\ p \in fresh /\ pc[p] \in Checked
           /\ call'[p] = call[p] /\ call[p].name \in Names
           /\ root'[p] = root[p] /\ cfg'[p] = cfg[p] /\ index'[p] = index[p]
           /\ reg'[call[p].name] = reg[call[p].name] /\ yaml'[root[p]] = yaml[root[p]]
  PROVE  PInv'
<1>1. FreshInv'
  <2> SUFFICES ASSUME NEW p \in fresh', pc'[p] \in Checked PROVE Current(p)'
    BY DEF FreshInv
  <2>1. Current(p)
    BY DEF PInv, FreshInv
  <2> QED
    BY <2>1 DEF Current
<1>2. \A n \in Settled' : n \in Settled /\ Claims(n)' = Claims(n)
  <2> TAKE n \in Settled'
  <2>1. CASE n \in applied'
    BY <2>1 DEF Settled, Claims
  <2>2. ASSUME NEW p \in fresh', pc'[p] \in Checked, call'[p].name = n
        PROVE  n \in Settled /\ Claims(n)' = Claims(n)
    <3>1. Current(p) /\ p \in fresh /\ pc[p] \in Checked /\ call[p].name = n /\ n \in Names
      BY <2>2 DEF PInv, FreshInv
    <3>2. reg'[n] = reg[n] /\ yaml'[root[p]] = yaml[root[p]] /\ reg[n].dir = root[p]
      BY <2>2, <3>1 DEF Current
    <3> QED
      <4>1. n \in Settled
        BY <3>1 DEF Settled
      <4>2. yaml'[reg'[n].dir] = yaml[reg[n].dir]
        BY <3>2
      <4> QED
        BY <3>2, <4>1, <4>2 DEF Claims
  <2> QED
    BY <2>1, <2>2 DEF Settled
<1>3. AppliedInv'
  <2> SUFFICES ASSUME NEW n \in applied'
               PROVE  /\ reg'[n].there /\ yaml'[reg'[n].dir] # {}
                      /\ staged'[reg'[n].dir] = {Claims(n)'}
    BY DEF AppliedInv
  <2>1. n \in applied /\ Claims(n)' = Claims(n)
    BY <1>2 DEF Settled
  <2> QED
    BY <2>1 DEF PInv, AppliedInv
<1>4. ClaimsInv'
  BY <1>2 DEF PInv, ClaimsInv
<1> QED
  BY <1>1, <1>3, <1>4 DEF PInv


\* A checked process is running a call on a directory.
LEMMA CheckedFacts ==
  ASSUME TypeOK, NEW p \in Procs, pc[p] \in Checked
  PROVE  call[p] \in Call /\ call[p].name \in Names /\ root[p] \in Dirs
<1>1. pc[p] # "idle"
  BY DEF Checked
<1> QED
  BY <1>1, CallFacts DEF TypeOK

\* A step that changes the rows ns and the files of ds and disturbs who relies on
\* them keeps the invariant.
LEMMA PreserveDisturb ==
  ASSUME TypeOK, TypeOK', PInv, NEW ns \in SUBSET Names, NEW ds \in SUBSET Dirs,
         Disturb(ns, ds),
         \A n \in Names \ ns : reg'[n] = reg[n],
         \A d \in Dirs \ ds : yaml'[d] = yaml[d] /\ staged'[d] = staged[d],
         call' = call, root' = root,
         \A q \in Procs : pc'[q] \in Checked =>
           pc'[q] = pc[q] /\ cfg'[q] = cfg[q] /\ index'[q] = index[q]
  PROVE  PInv'
<1>1. ASSUME NEW n \in applied'
      PROVE  /\ n \in applied /\ reg'[n] = reg[n]
             /\ yaml'[reg[n].dir] = yaml[reg[n].dir] /\ staged'[reg[n].dir] = staged[reg[n].dir]
  <2>1. n \in applied /\ n \in Names \ ns /\ reg[n].dir \notin ds
    BY <1>1 DEF Disturb, TypeOK
  <2>2. reg[n].dir \in Dirs
    BY <2>1 DEF PInv, AppliedInv, TypeOK
  <2> QED
    BY <2>1, <2>2
<1>2. ASSUME NEW q \in fresh', pc'[q] \in Checked
      PROVE  /\ q \in fresh /\ pc[q] \in Checked
             /\ call'[q] = call[q] /\ call[q].name \in Names
             /\ root'[q] = root[q] /\ cfg'[q] = cfg[q] /\ index'[q] = index[q]
             /\ reg'[call[q].name] = reg[call[q].name] /\ yaml'[root[q]] = yaml[root[q]]
  <2>1. q \in fresh /\ q \in Procs /\ call[q].name \notin ns /\ root[q] \notin ds
    BY <1>2 DEF Disturb, TypeOK
  <2>2. pc[q] \in Checked /\ cfg'[q] = cfg[q] /\ index'[q] = index[q]
    BY <1>2, <2>1
  <2>3. call[q].name \in Names /\ root[q] \in Dirs
    BY <2>1, <2>2, CheckedFacts
  <2> QED
    BY <1>2, <2>1, <2>2, <2>3
<1> QED
  BY <1>1, <1>2, Preserve

\* A step that leaves rows, files and history alone keeps the invariant, if a
\* checked process keeps what it holds.
LEMMA PreserveQuiet ==
  ASSUME TypeOK, TypeOK', PInv,
         UNCHANGED <<reg, yaml, staged, applied>>, fresh' \subseteq fresh,
         \A q \in fresh' : pc'[q] \in Checked =>
           /\ pc[q] \in Checked /\ call'[q] = call[q]
           /\ root'[q] = root[q] /\ cfg'[q] = cfg[q] /\ index'[q] = index[q]
  PROVE  PInv'
<1>1. \A q \in fresh' : pc'[q] \in Checked => call[q].name \in Names
  BY CheckedFacts DEF TypeOK
<1> QED
  BY <1>1, Preserve


LEMMA PortsInit == Init => PInv
<1> QED
  BY DEF Init, PInv, FreshInv, AppliedInv, ClaimsInv, Settled

\* The two steps that let a process or an instance into the invariant.
LEMMA CheckStep ==
  ASSUME TypeOK, TypeOK', PInv, NEW p \in Procs, Check(p)
  PROVE  PInv'
<1>0. /\ UNCHANGED <<reg, yaml, staged, applied, call, root, cfg, index>>
      /\ \A q \in Procs \ {p} : pc'[q] = pc[q]
  BY CallFacts DEF Check, At, Set, Go, Fail, Return, disk, local, Checked, TypeOK
<1> DEFINE n == call[p].name
<1>1. CASE p \in fresh' /\ pc'[p] \in Checked
  <2>1. /\ ~Collides(n, Resolved(index[p], cfg[p])) /\ Current(p)
        /\ fresh' = fresh \cup {p} /\ n \in Names
    BY <1>1, CallFacts DEF Check, At, Set, Go, Fail, Return, Checked, TypeOK
  <2>2. Claims(n) = Resolved(index[p], cfg[p])
    BY <2>1, CurrentClaims
  <2>3. \A m \in Names \ {n} : Claims(n) \cap Claims(m) = {}
    BY <2>1, <2>2 DEF Collides
  <2>4. \A m : Claims(m)' = Claims(m)
    BY <1>0 DEF Claims
  <2>5. FreshInv'
    BY <1>0, <2>1 DEF PInv, FreshInv, Current, TypeOK
  <2>6. AppliedInv'
    BY <1>0, <2>4 DEF PInv, AppliedInv
  <2>7. Settled' \subseteq Settled \cup {n} /\ Settled' \subseteq Names
    BY <1>0, <2>1 DEF Settled, TypeOK
  <2>8. ClaimsInv'
    BY <2>3, <2>4, <2>7 DEF PInv, ClaimsInv
  <2> QED
    BY <2>5, <2>6, <2>8 DEF PInv
<1>2. CASE ~(p \in fresh' /\ pc'[p] \in Checked)
  <2>1. fresh' \subseteq fresh \cup {p}
    BY DEF Check
  <2>2. \A q \in fresh' : pc'[q] \in Checked => q \in fresh /\ pc[q] \in Checked
    BY <1>0, <1>2, <2>1 DEF TypeOK
  <2>3. \A q \in fresh' : pc'[q] \in Checked => call[q].name \in Names
    BY <2>2, CheckedFacts DEF TypeOK
  <2> QED
    BY <1>0, <2>2, <2>3, Preserve
<1> QED
  BY <1>1, <1>2

LEMMA WriteStep ==
  ASSUME TypeOK, TypeOK', PInv, NEW p \in Procs, Write(p)
  PROVE  PInv'
<1> DEFINE n == call[p].name
           ps == Resolved(index[p], cfg[p])
<1>1. /\ UNCHANGED <<reg, yaml, call, root, cfg, index, fresh>>
      /\ pc[p] = "write" /\ pc' = [pc EXCEPT ![p] = "idle"]
      /\ staged' = [staged EXCEPT ![root[p]] = {ps}]
      /\ n \in Names /\ root[p] \in Dirs
  BY CallFacts DEF Write, At, Set, Return, local, TypeOK
<1>2. \A m : Claims(m)' = Claims(m)
  BY <1>1 DEF Claims
<1>3. \A q \in fresh' : pc'[q] \in Checked => q \in fresh /\ q # p /\ pc'[q] = pc[q]
  BY <1>1 DEF TypeOK, Checked
<1>4. \A m \in applied' : (m \in applied /\ reg[m].dir # root[p]) \/ (m = n /\ p \in fresh)
  BY DEF Write
<1>5. FreshInv'
  BY <1>1, <1>3 DEF PInv, FreshInv, Current
<1>6. AppliedInv'
  <2> SUFFICES ASSUME NEW m \in applied'
               PROVE  /\ reg[m].there /\ yaml[reg[m].dir] # {}
                      /\ staged'[reg[m].dir] = {Claims(m)}
    BY <1>1, <1>2 DEF AppliedInv
  <2>1. CASE m \in applied /\ reg[m].dir # root[p]
    <3>1. reg[m].there /\ yaml[reg[m].dir] # {} /\ staged[reg[m].dir] = {Claims(m)}
      BY <2>1 DEF PInv, AppliedInv
    <3>2. reg[m].dir \in Dirs
      BY <2>1, <3>1 DEF TypeOK
    <3> QED
      BY <1>1, <2>1, <3>1, <3>2 DEF TypeOK
  <2>2. CASE m = n /\ p \in fresh
    <3>1. Current(p)
      BY <1>1, <2>2 DEF PInv, FreshInv, Checked
    <3>2. Claims(n) = ps
      BY <1>1, <3>1, CurrentClaims
    <3>3. reg[n].there /\ reg[n].dir = root[p] /\ yaml[root[p]] = {cfg[p]}
      BY <3>1 DEF Current
    <3> QED
      BY <1>1, <2>2, <3>2, <3>3 DEF TypeOK
  <2> QED
    BY <1>4, <2>1, <2>2
<1>7. Settled' \subseteq Settled
  BY <1>1, <1>3, <1>4 DEF Settled, Checked
<1>8. ClaimsInv'
  BY <1>2, <1>7 DEF PInv, ClaimsInv
<1> QED
  BY <1>5, <1>6, <1>8 DEF PInv


\* Every step keeps the invariant.
LEMMA PortsStep == TypeOK /\ TypeOK' /\ PInv /\ [Next]_vars => PInv'
<1> SUFFICES ASSUME TypeOK, TypeOK', PInv, [Next]_vars PROVE PInv'
  OBVIOUS
<1>0. ASSUME NEW p \in Procs, pc[p] # "idle"
      PROVE  call[p] \in Call /\ call[p].name \in Names /\ call[p].dir \in Dirs /\ root[p] \in Dirs
  BY <1>0, CallFacts DEF TypeOK
<1>1. ASSUME NEW p \in Procs, Start(p) PROVE PInv'
  BY <1>1, PreserveQuiet DEF Start, Set, Go, disk, TypeOK
<1>2. ASSUME NEW p \in Procs, Free(p) PROVE PInv'
  BY <1>2, PreserveQuiet DEF Free, Set, Go, Return, disk, local, ghost, Checked, TypeOK
<1>3. ASSUME NEW p \in Procs, YamlCheck(p) PROVE PInv'
  BY <1>3, PreserveQuiet DEF YamlCheck, Set, Go, Return, disk, local, ghost, Checked, TypeOK
<1>4. ASSUME NEW p \in Procs, Overlap(p) PROVE PInv'
  BY <1>4, PreserveQuiet DEF Overlap, Set, Go, Return, disk, local, ghost, Checked, TypeOK
<1>5. ASSUME NEW p \in Procs, Wipe(p) PROVE PInv'
  <2>1. Below(root[p]) \in SUBSET Dirs
    BY DEF Below
  <2>2. /\ Disturb({}, Below(root[p])) /\ UNCHANGED <<reg, call, root, cfg, index>>
        /\ \A d \in Dirs \ Below(root[p]) : yaml'[d] = yaml[d] /\ staged'[d] = staged[d]
    BY <1>5 DEF Wipe, Rmtree, local
  <2>3. \A q \in Procs : pc'[q] \in Checked => pc'[q] = pc[q]
    BY <1>5 DEF Wipe, Go, Set, Checked, TypeOK
  <2> QED
    BY <2>1, <2>2, <2>3, PreserveDisturb
<1>6. ASSUME NEW p \in Procs, Mkdir(p) PROVE PInv'
  BY <1>6, PreserveQuiet DEF Mkdir, Set, Go, ghost, Checked, TypeOK
<1>7. ASSUME NEW p \in Procs, WriteYaml(p) PROVE PInv'
  <2>1. CASE root[p] \in there
    <3>1. {root[p]} \in SUBSET Dirs
      BY <2>1 DEF TypeOK
    <3>2. /\ Disturb({}, {root[p]}) /\ UNCHANGED <<reg, staged, call, root, index>>
          /\ \A d \in Dirs \ {root[p]} : yaml'[d] = yaml[d]
      BY <1>7, <2>1 DEF WriteYaml, Set, TypeOK
    <3>3. \A q \in Procs : pc'[q] \in Checked => pc'[q] = pc[q] /\ cfg'[q] = cfg[q]
      BY <1>7, <2>1 DEF WriteYaml, Go, Set, Checked, TypeOK
    <3> QED
      BY <3>1, <3>2, <3>3, PreserveDisturb
  <2>2. CASE root[p] \notin there
    BY <1>7, <2>2, PreserveQuiet DEF WriteYaml, Set, Return, ghost, Checked, TypeOK
  <2> QED
    BY <2>1, <2>2
<1>8. ASSUME NEW p \in Procs, Resolve(p) PROVE PInv'
  <2>1. \A q \in fresh' : pc'[q] \in Checked => pc[q] \in Checked /\ root'[q] = root[q]
    <3> SUFFICES ASSUME NEW q \in fresh', pc'[q] \in Checked
                 PROVE  pc[q] \in Checked /\ root'[q] = root[q]
      OBVIOUS
    <3>1. q \in Procs /\ q \in fresh /\ pc[p] = "resolve"
      BY <1>8 DEF Resolve, At, ghost, TypeOK
    <3>2. CASE q # p
      BY <1>8, <3>1, <3>2 DEF Resolve, Set, Go, Return, Fail, TypeOK
    <3>3. CASE q = p
      <4>0. pc[p] \in Checked /\ Current(p)
        BY <3>1, <3>3 DEF PInv, FreshInv, Checked
      <4>1. pc[p] \in Checked /\ reg[call[p].name].dir = root[p]
        BY <4>0 DEF Current
      <4>2. root'[p] = root[p]
        BY <1>8, <4>1 DEF Resolve, Set, TypeOK
      <4> QED
        BY <3>3, <4>1, <4>2
    <3> QED
      BY <3>2, <3>3
  <2> QED
    BY <1>8, <2>1, PreserveQuiet DEF Resolve, disk, ghost
<1>9. ASSUME NEW p \in Procs, Load(p) PROVE PInv'
  <2>1. \A q \in fresh' : pc'[q] \in Checked => pc[q] \in Checked /\ cfg'[q] = cfg[q]
    <3> SUFFICES ASSUME NEW q \in fresh', pc'[q] \in Checked
                 PROVE  pc[q] \in Checked /\ cfg'[q] = cfg[q]
      OBVIOUS
    <3>1. q \in Procs /\ q \in fresh
      BY <1>9 DEF Load, ghost, TypeOK
    <3>2. CASE q # p
      BY <1>9, <3>1, <3>2 DEF Load, Set, Go, Return, Fail, TypeOK
    <3>3. CASE q = p
      <4>1. pc[p] = "reload"
        BY <1>9, <3>3 DEF Load, At, Set, Go, Return, Fail, Checked, TypeOK
      <4>2. pc[p] \in Checked /\ yaml[root[p]] = {cfg[p]}
        BY <3>1, <3>3, <4>1 DEF PInv, FreshInv, Current, Checked
      <4>3. UNION yaml[root[p]] = cfg[p]
        BY <4>2
      <4>4. cfg'[p] = cfg[p]
        BY <1>9, <4>3 DEF Load, Set, TypeOK
      <4> QED
        BY <3>3, <4>2, <4>4
    <3> QED
      BY <3>2, <3>3
  <2> QED
    BY <1>9, <2>1, PreserveQuiet DEF Load, disk, ghost
<1>10. ASSUME NEW p \in Procs, Heal(p) PROVE PInv'
  BY <1>10, PreserveQuiet DEF Heal, Set, Go, Return, disk, local, ghost, Checked, TypeOK
<1>11. ASSUME NEW p \in Procs, Add(p) PROVE PInv'
  <2>1. pc[p] = "add" /\ {call[p].name} \in SUBSET Names
    BY <1>11, <1>0 DEF Add, At
  <2>2. ASSUME NEW i \in 0..MaxIndex, Register(p, i) PROVE PInv'
    <3>1. /\ Disturb({call[p].name}, {}) /\ UNCHANGED <<yaml, staged, call, root, cfg>>
          /\ \A n \in Names \ {call[p].name} : reg'[n] = reg[n]
      BY <2>2 DEF Register, Set, TypeOK
    <3>2. \A q \in Procs : pc'[q] \in Checked => pc'[q] = pc[q] /\ index'[q] = index[q]
      BY <2>2 DEF Register, Go, Set, Checked, TypeOK
    <3> QED
      BY <2>1, <3>1, <3>2, PreserveDisturb
  <2>3. CASE Refuse(p)
    BY <2>3, PreserveQuiet DEF Refuse, Set, Return, disk, local, ghost, Checked, TypeOK
  <2> QED
    BY <1>11, <2>2, <2>3 DEF Add
<1>12. ASSUME NEW p \in Procs, Extract(p) PROVE PInv'
  <2>1. pc[p] = "extract" /\ {root[p]} \in SUBSET Dirs
    BY <1>12, <1>0 DEF Extract, At
  <2>2. \A q \in Procs : pc'[q] \in Checked => pc'[q] = pc[q]
    BY <1>12 DEF Extract, Set, Go, Return, Fail, Checked, TypeOK
  <2>3. UNCHANGED <<reg, staged, call, root, cfg, index>>
    BY <1>12 DEF Extract, local
  <2>4. CASE Set(yaml, root[p], {call[p].cfg}) /\ Disturb({}, {root[p]})
    <3>1. \A d \in Dirs \ {root[p]} : yaml'[d] = yaml[d]
      BY <2>4 DEF Set, TypeOK
    <3> QED
      BY <2>1, <2>2, <2>3, <2>4, <3>1, PreserveDisturb
  <2>5. CASE UNCHANGED <<yaml, ghost>>
    BY <2>2, <2>3, <2>5, PreserveQuiet DEF ghost, TypeOK
  <2> QED
    BY <1>12, <2>4, <2>5 DEF Extract
<1>13. ASSUME NEW p \in Procs, Check(p) PROVE PInv'
  BY <1>13, CheckStep
<1>14. ASSUME NEW p \in Procs, ReadIndex(p) PROVE PInv'
  <2>1. \A q \in fresh' : pc'[q] \in Checked => pc[q] \in Checked /\ index'[q] = index[q]
    <3> SUFFICES ASSUME NEW q \in fresh', pc'[q] \in Checked
                 PROVE  pc[q] \in Checked /\ index'[q] = index[q]
      OBVIOUS
    <3>1. q \in Procs /\ q \in fresh
      BY <1>14 DEF ReadIndex, ghost, TypeOK
    <3>2. CASE q # p
      BY <1>14, <3>1, <3>2 DEF ReadIndex, Set, Go, Return, Fail, TypeOK
    <3>3. CASE q = p
      <4>1. pc[p] = "stage"
        BY <1>14, <3>3 DEF ReadIndex, At, Set, Go, Return, Fail, Checked, TypeOK
      <4>0. pc[p] \in Checked /\ Current(p)
        BY <3>1, <3>3, <4>1 DEF PInv, FreshInv, Checked
      <4>2. pc[p] \in Checked /\ reg[call[p].name].index = index[p]
        BY <4>0 DEF Current
      <4>3. index'[p] = index[p]
        BY <1>14, <4>2 DEF ReadIndex, Set, TypeOK
      <4> QED
        BY <3>3, <4>2, <4>3
    <3> QED
      BY <3>2, <3>3
  <2> QED
    BY <1>14, <2>1, PreserveQuiet DEF ReadIndex, disk, ghost
<1>15. ASSUME NEW p \in Procs, Write(p) PROVE PInv'
  BY <1>15, WriteStep
<1>16. ASSUME NEW p \in Procs, RollbackRow(p) \/ Remove(p) PROVE PInv'
  <2>1. {call[p].name} \in SUBSET Names
    BY <1>16, <1>0 DEF RollbackRow, Remove, At
  <2>2. /\ Disturb({call[p].name}, {}) /\ UNCHANGED <<yaml, staged, call, root, cfg, index>>
        /\ \A n \in Names \ {call[p].name} : reg'[n] = reg[n]
    BY <1>16 DEF RollbackRow, Remove, Set, local, TypeOK
  <2>3. \A q \in Procs : pc'[q] \in Checked => pc'[q] = pc[q]
    BY <1>16 DEF RollbackRow, Remove, Go, Return, Set, Checked, TypeOK
  <2> QED
    BY <2>1, <2>2, <2>3, PreserveDisturb
<1>17. ASSUME NEW p \in Procs, NEW d \in Dirs, Rmtree(d), Return(p, "refused") \/ Return(p, "ok"),
              UNCHANGED <<reg, call, local, count>>
       PROVE  PInv'
  <2>1. Below(d) \in SUBSET Dirs
    BY DEF Below
  <2>2. /\ Disturb({}, Below(d)) /\ UNCHANGED <<call, root, cfg, index>>
        /\ \A e \in Dirs \ Below(d) : yaml'[e] = yaml[e] /\ staged'[e] = staged[e]
    BY <1>17 DEF Rmtree, local
  <2>3. \A q \in Procs : pc'[q] \in Checked => pc'[q] = pc[q]
    BY <1>17 DEF Return, Set, Checked, TypeOK
  <2> QED
    BY <1>17, <2>1, <2>2, <2>3, PreserveDisturb
<1>18. ASSUME NEW p \in Procs, RollbackDir(p) PROVE PInv'
  BY <1>18, <1>17, <1>0 DEF RollbackDir, At
<1>19. ASSUME NEW p \in Procs, DestroyDir(p) PROVE PInv'
  BY <1>19, <1>17, <1>0 DEF DestroyDir, At
<1>20. ASSUME NEW p \in Procs, Kill(p) PROVE PInv'
  BY <1>20, PreserveQuiet DEF Kill, Set, Return, disk, local, ghost, Checked, TypeOK
<1>21. ASSUME NEW d \in Dirs, UserEdit(d) PROVE PInv'
  <2>1. /\ {d} \in SUBSET Dirs
        /\ Disturb({}, {d}) /\ UNCHANGED <<reg, staged, pc, call, root, cfg, index>>
        /\ \A e \in Dirs \ {d} : yaml'[e] = yaml[e]
    BY <1>21 DEF UserEdit, Set, local, TypeOK
  <2> QED
    BY <2>1, PreserveDisturb
<1>22. ASSUME NEW d \in Dirs, UserUnstage(d) PROVE PInv'
  <2>1. /\ UNCHANGED <<reg, yaml, pc, call, root, cfg, index, fresh>>
        /\ \A e \in Dirs \ {d} : staged'[e] = staged[e]
        /\ \A n \in applied' : n \in applied /\ reg[n].dir # d
    BY <1>22 DEF UserUnstage, Set, local, TypeOK
  <2>2. \A n \in applied' : n \in applied /\ staged'[reg[n].dir] = staged[reg[n].dir]
    BY <2>1 DEF PInv, AppliedInv, TypeOK
  <2>3. \A q \in fresh : pc[q] \in Checked => call[q].name \in Names
    BY CheckedFacts DEF TypeOK
  <2> QED
    BY <2>1, <2>2, <2>3, Preserve
<1>23. CASE UNCHANGED vars
  BY <1>23, PreserveQuiet DEF vars
<1> QED
  BY <1>1, <1>2, <1>3, <1>4, <1>5, <1>6, <1>7, <1>8, <1>9, <1>10, <1>11, <1>12, <1>13,
     <1>14, <1>15, <1>16, <1>18, <1>19, <1>20, <1>21, <1>22, <1>23 DEF Next

\* No two instances that are up to date with their yaml and their row publish the
\* same host port, for any number of instances and of concurrent creates,
\* registers, restores, applies and self-heals (assert_no_port_collision, #183).
THEOREM PortsTheorem == Spec => []PortsDisjoint
<1>1. TypeOK /\ PInv => PortsDisjoint
  <2> SUFFICES ASSUME TypeOK, PInv, NEW m \in applied, NEW n \in applied, m # n
               PROVE  (UNION staged[reg[m].dir]) \cap (UNION staged[reg[n].dir]) = {}
    BY DEF PortsDisjoint
  <2>1. staged[reg[m].dir] = {Claims(m)} /\ staged[reg[n].dir] = {Claims(n)}
    BY DEF PInv, AppliedInv
  <2>2. Claims(m) \cap Claims(n) = {}
    BY DEF PInv, ClaimsInv, Settled
  <2>3. UNION staged[reg[m].dir] = Claims(m) /\ UNION staged[reg[n].dir] = Claims(n)
    BY <2>1
  <2> QED
    BY <2>2, <2>3
<1> QED
  BY <1>1, TypeInit, TypeStep, PortsInit, PortsStep, PTL DEF Spec

-----------------------------------------------------------------------------
(* One command at a time: what a call may count on between its look at the *)
(* directories and its last step, and a kill anywhere.                     *)

\* No registered directory is, contains or lies inside the one p works on.
Clear(p) == \A n \in Names : reg[n].there => ~Overlaps(root[p], reg[n].dir)

\* The row is p's own.
Own(p) == reg[call[p].name].there /\ reg[call[p].name].dir = root[p]

\* How far a call has got.
Standing(p) ==
  /\ call[p].verb \in Constructors /\ pc[p] # "idle" => root[p] = call[p].dir
  /\ \/ pc[p] \in {"wipe", "mkdir", "writeYaml", "add", "rmtree", "rollbackDir"}
     \/ pc[p] = "load" /\ call[p].verb = "register"
     => Clear(p)
  /\ pc[p] = "add" => root[p] \in there
  /\ pc[p] = "index" => call[p].verb \notin Constructors
  /\ pc[p] = "reload" => call[p].verb = "restore"
  /\ \/ pc[p] \in {"extract", "rollbackRow", "remove"}
     \/ /\ call[p].verb \in Constructors
        /\ pc[p] \in {"check", "resolve", "reload", "stage", "write"}
     \/ pc[p] = "load" /\ call[p].verb = "restore"
     => Own(p)

Alone == \A p, q \in Procs : pc[p] # "idle" /\ pc[q] # "idle" => p = q

Apart ==
  \A m, n \in Names : reg[m].there /\ reg[n].there /\ m # n => ~Overlaps(reg[m].dir, reg[n].dir)

YamlHasDir == \A d \in Dirs : yaml[d] # {} => d \in there

OneInv == Alone /\ Apart /\ RowHasDir /\ YamlHasDir /\ \A p \in Procs : Standing(p)

SerialInv == serial => OneInv

\* The others are idle: only p's standing and the directories are at stake.
LEMMA OneStep ==
  ASSUME TypeOK, OneInv, NEW p \in Procs, pc[p] # "idle" \/ Quiet,
         NEW s, pc' = [pc EXCEPT ![p] = s],
         Apart', RowHasDir', YamlHasDir', Standing(p)'
  PROVE  OneInv'
<1>1. \A q \in Procs : q # p => pc[q] = "idle" /\ pc'[q] = "idle"
  BY DEF OneInv, Alone, Quiet, TypeOK
<1>2. \A q \in Procs : q # p => Standing(q)'
  BY <1>1 DEF Standing
<1>3. Alone'
  BY <1>1 DEF Alone
<1> QED
  BY <1>2, <1>3 DEF OneInv

\* Nothing is at stake once p is idle.
LEMMA Ends == ASSUME NEW p \in Procs, pc'[p] = "idle" PROVE Standing(p)'
BY DEF Standing

\* The steps that change no file and no row.
LEMMA LookStep ==
  ASSUME TypeOK, OneInv, NEW p \in Procs,
         \/ Free(p) \/ YamlCheck(p) \/ Overlap(p) \/ Resolve(p) \/ Load(p) \/ Heal(p)
         \/ Check(p) \/ ReadIndex(p) \/ (Refuse(p) /\ pc[p] = "add") \/ Kill(p)
  PROVE  OneInv'
<1>0. Standing(p) /\ Apart /\ RowHasDir /\ YamlHasDir /\ pc \in [Procs -> Steps]
  BY DEF OneInv, TypeOK
<1>1. UNCHANGED <<reg, there, yaml, call>> /\ pc[p] # "idle"
  BY DEF Free, YamlCheck, Overlap, Resolve, Load, Heal, Check, ReadIndex, Refuse, Kill, disk, At
<1>2. Apart' /\ RowHasDir' /\ YamlHasDir'
  BY <1>0, <1>1 DEF Apart, RowHasDir, YamlHasDir
<1>3. /\ \E s : pc' = [pc EXCEPT ![p] = s]
      /\ Standing(p)'
  <2>1. CASE Free(p)
    BY <1>0, <1>1, <2>1 DEF Free, At, Go, Return, Set, local, Standing, TypeOK, Constructors
  <2>2. CASE YamlCheck(p)
    BY <1>0, <1>1, <2>2 DEF YamlCheck, At, Go, Return, Set, local, Standing
  <2>3. CASE Overlap(p)
    <3>1. pc' = [pc EXCEPT ![p] = "idle"] \/ Clear(p)
      BY <2>3 DEF Overlap, Return, Set, Clear
    <3>2. PICK s \in {"idle", "load", "wipe", "mkdir"} : /\ pc' = [pc EXCEPT ![p] = s]
                                                         /\ s = "load" => call[p].verb = "register"
      BY <2>3 DEF Overlap, Go, Return, Set
    <3>3. UNCHANGED root /\ pc[p] = "overlap"
      BY <2>3 DEF Overlap, local, At
    <3>4. pc'[p] = s
      BY <1>0, <3>2
    <3>5. pc'[p] = "idle" \/ Clear(p)'
      BY <1>0, <1>1, <3>1, <3>3 DEF Clear
    <3> QED
      BY <1>0, <1>1, <3>2, <3>3, <3>4, <3>5 DEF Standing
  <2>4. CASE Resolve(p)
    <3>1. pc[p] = "resolve" /\ (call[p].verb \in Constructors => Own(p))
      BY <1>0, <2>4 DEF Resolve, At, Standing
    <3>2. CASE reg[call[p].name].there
      <4>1. PICK s \in {"remove", "reload", "load"} :
              /\ pc' = [pc EXCEPT ![p] = s] /\ (s = "load" => call[p].verb \in {"apply", "up"})
              /\ s = "reload" => call[p].verb = "restore"
              /\ root' = [root EXCEPT ![p] = reg[call[p].name].dir]
        BY <2>4, <3>2 DEF Resolve, Go, Set, At
      <4>2. pc'[p] = s /\ root'[p] = reg[call[p].name].dir
        BY <1>0, <4>1 DEF TypeOK
      <4>3. Own(p)' /\ (call[p].verb \in Constructors => root'[p] = root[p])
        BY <1>1, <3>1, <3>2, <4>2 DEF Own
      <4> QED
        BY <1>0, <1>1, <3>1, <4>1, <4>2, <4>3 DEF Standing
    <3>3. CASE ~reg[call[p].name].there
      <4>1. call[p].verb \notin Constructors
        BY <3>1, <3>3 DEF Own
      <4>2. pc' = [pc EXCEPT ![p] = "idle"]
        BY <2>4, <3>3, <4>1 DEF Resolve, Fail, Guarded, Return, Set, Constructors
      <4> QED
        BY <1>0, <4>2, Ends
    <3> QED
      BY <3>2, <3>3
  <2>5. CASE Load(p)
    <3>1. /\ UNCHANGED root /\ pc[p] \in {"load", "reload"}
          /\ call[p].verb \in {"register", "apply", "up", "restore"}
      BY <2>5 DEF Load, At
    <3>2. CASE yaml[root[p]] = {}
      <4>1. \/ pc' = [pc EXCEPT ![p] = "idle"]
            \/ pc' = [pc EXCEPT ![p] = "rollbackRow"] /\ call[p].verb = "restore"
        BY <2>5, <3>1, <3>2 DEF Load, Fail, Guarded, Go, Return, Set
      <4> QED
        BY <1>0, <1>1, <3>1, <4>1, Ends DEF Standing, Own, Constructors
    <3>3. CASE yaml[root[p]] # {}
      <4>1. root[p] \in there
        <5>1. root[p] \in Dirs
          BY <1>1 DEF TypeOK
        <5> QED
          BY <1>0, <3>3, <5>1 DEF YamlHasDir
      <4>2. PICK s \in {"stage", "add", "index", "heal", "check"} :
              /\ pc' = [pc EXCEPT ![p] = s]
              /\ s = "stage" => pc[p] = "reload"
              /\ s = "add" => call[p].verb = "register" /\ pc[p] = "load"
              /\ s = "check" => call[p].verb = "restore" /\ pc[p] = "load"
              /\ s = "index" => call[p].verb \notin Constructors
        <5>1. CASE pc[p] = "reload"
          <6>1. call[p].verb = "restore"
            BY <1>0, <5>1 DEF Standing
          <6> QED
            BY <2>5, <3>3, <5>1, <6>1 DEF Load, Go, Set
        <5>2. CASE pc[p] = "load" /\ call[p].verb = "register"
          BY <2>5, <3>3, <5>2 DEF Load, Go, Set
        <5>3. CASE pc[p] = "load" /\ call[p].verb = "apply"
          BY <2>5, <3>3, <5>3 DEF Load, Go, Set, Constructors
        <5>4. CASE pc[p] = "load" /\ call[p].verb = "up"
          BY <2>5, <3>3, <5>4 DEF Load, Go, Set
        <5>5. CASE pc[p] = "load" /\ call[p].verb = "restore"
          BY <2>5, <3>3, <5>5 DEF Load, Go, Set
        <5> QED
          BY <3>1, <5>1, <5>2, <5>3, <5>4, <5>5
      <4>3. pc'[p] = s
        BY <1>0, <4>2
      <4>4. s = "add" => Clear(p)'
        BY <1>0, <1>1, <3>1, <4>2 DEF Standing, Clear
      <4>5. s \in {"stage", "check"} /\ call[p].verb \in Constructors => Own(p)'
        BY <1>0, <1>1, <3>1, <4>2 DEF Standing, Own
      <4>6. call[p].verb \in Constructors => root[p] = call[p].dir
        BY <1>0, <1>1 DEF Standing
      <4> QED
        BY <1>1, <3>1, <4>1, <4>2, <4>3, <4>4, <4>5, <4>6 DEF Standing
    <3> QED
      BY <3>2, <3>3
  <2>6. CASE Heal(p)
    BY <1>0, <1>1, <2>6 DEF Heal, At, Go, Return, Set, local, Standing, Constructors
  <2>7. CASE Check(p) \/ ReadIndex(p)
    <3>1. /\ UNCHANGED root /\ pc[p] \in {"check", "index", "stage"}
          /\ call[p].verb \in {"create", "register", "restore", "apply", "up"}
      BY <2>7 DEF Check, ReadIndex, At, local
    <3>2. PICK s \in {"resolve", "stage", "check", "write", "rollbackRow", "idle"} :
            /\ pc' = [pc EXCEPT ![p] = s]
            /\ s = "check" => pc[p] = "index"
            /\ s = "rollbackRow" => call[p].verb \in Constructors
      BY <2>7 DEF Check, ReadIndex, Fail, Guarded, Go, Return, Set, Constructors
    <3>3. pc'[p] = s
      BY <1>0, <3>2
    <3>4. pc[p] = "index" => call[p].verb \notin Constructors
      BY <1>0 DEF Standing
    <3>5. call[p].verb \in Constructors => Own(p)' /\ root[p] = call[p].dir
      BY <1>0, <1>1, <3>1, <3>4 DEF Standing, Own
    <3> QED
      BY <1>1, <3>1, <3>2, <3>3, <3>5 DEF Standing
  <2>8. CASE Refuse(p) \/ Kill(p)
    <3>1. pc' = [pc EXCEPT ![p] = "idle"]
      BY <2>8 DEF Refuse, Kill, Return, Set
    <3> QED
      BY <1>0, <3>1, Ends
  <2> QED
    BY <2>1, <2>2, <2>3, <2>4, <2>5, <2>6, <2>7, <2>8
<1> QED
  BY <1>1, <1>2, <1>3, OneStep
\* A removed directory takes those below it along; nobody's is among them.
LEMMA RemoveStep ==
  ASSUME TypeOK, OneInv, NEW p \in Procs, Wipe(p) \/ RollbackDir(p) \/ DestroyDir(p)
  PROVE  OneInv'
<1>0. Standing(p) /\ Apart /\ RowHasDir /\ YamlHasDir /\ pc \in [Procs -> Steps]
  BY DEF OneInv, TypeOK
<1>1. /\ UNCHANGED <<reg, call, root>> /\ pc[p] \in {"wipe", "rollbackDir", "rmtree"} /\ Rmtree(root[p])
  <2>1. CASE Wipe(p) \/ DestroyDir(p)
    BY <2>1 DEF Wipe, DestroyDir, At, local
  <2>2. CASE RollbackDir(p)
    <3>1. root[p] = call[p].dir
      BY <1>0, <2>2 DEF RollbackDir, At, Standing, Constructors
    <3> QED
      BY <2>2, <3>1 DEF RollbackDir, At, local
  <2> QED
    BY <2>1, <2>2
<1>2. Clear(p)
  BY <1>0, <1>1 DEF Standing
<1>3. \A n \in Names : reg[n].there => reg[n].dir \notin Below(root[p])
  BY <1>2 DEF Clear, Overlaps, Below
<1>4. RowHasDir' /\ Apart'
  BY <1>0, <1>1, <1>3 DEF RowHasDir, Apart, Rmtree
<1>5. YamlHasDir'
  BY <1>0, <1>1 DEF YamlHasDir, Rmtree
<1>6. PICK s \in {"mkdir", "idle"} : pc' = [pc EXCEPT ![p] = s]
  BY DEF Wipe, RollbackDir, DestroyDir, Go, Return, Set
<1>7. Standing(p)'
  <2>1. pc'[p] = s /\ Clear(p)'
    BY <1>0, <1>1, <1>2, <1>6 DEF Clear
  <2> QED
    BY <1>0, <1>1, <1>6, <2>1 DEF Standing
<1> QED
  BY <1>1, <1>4, <1>5, <1>6, <1>7, OneStep

\* The steps that make directories and write files.
LEMMA MakeStep ==
  ASSUME TypeOK, OneInv, NEW p \in Procs, Mkdir(p) \/ WriteYaml(p) \/ Extract(p) \/ Write(p)
  PROVE  OneInv'
<1>0. Standing(p) /\ Apart /\ RowHasDir /\ YamlHasDir /\ pc \in [Procs -> Steps]
  BY DEF OneInv, TypeOK
<1>1. /\ UNCHANGED <<reg, call, root>> /\ pc[p] \in {"mkdir", "writeYaml", "extract", "write"}
      /\ there \subseteq there'
  BY DEF Mkdir, WriteYaml, Extract, Write, At, local
<1>2. root[p] \in Dirs /\ root[p] \in Above(root[p])
  BY <1>1 DEF TypeOK, Above
<1>3. RowHasDir' /\ Apart'
  BY <1>0, <1>1 DEF RowHasDir, Apart
<1>4. YamlHasDir'
  <2>1. \A d \in Dirs : yaml'[d] = yaml[d] \/ (d = root[p] /\ d \in there')
    <3>1. CASE UNCHANGED yaml
      BY <3>1
    <3>2. CASE WriteYaml(p) /\ root[p] \in there /\ yaml' = [yaml EXCEPT ![root[p]] = {call[p].cfg}]
      BY <1>1, <1>2, <3>2 DEF TypeOK
    <3>3. CASE Extract(p) /\ there' = there \cup Above(root[p]) /\ yaml' = [yaml EXCEPT ![root[p]] = {call[p].cfg}]
      BY <1>2, <3>3 DEF TypeOK
    <3> QED
      BY <3>1, <3>2, <3>3 DEF Mkdir, WriteYaml, Extract, Write, Set
  <2> QED
    BY <1>0, <1>1, <2>1 DEF YamlHasDir
<1>5. CASE Mkdir(p)
  <2>1. /\ pc' = [pc EXCEPT ![p] = IF call[p].verb = "create" THEN "writeYaml" ELSE "add"]
        /\ root[p] \in there' /\ pc[p] = "mkdir" /\ Clear(p)
    BY <1>0, <1>2, <1>5 DEF Mkdir, Go, Set, At, Standing
  <2>2. pc'[p] \in {"writeYaml", "add"} /\ Clear(p)'
    BY <1>0, <1>1, <2>1 DEF Clear
  <2>3. Standing(p)'
    BY <1>0, <1>1, <2>1, <2>2 DEF Standing
  <2> QED
    BY <1>1, <1>3, <1>4, <2>1, <2>3, OneStep
<1>6. CASE WriteYaml(p)
  <2>1. PICK s \in {"add", "idle"} : pc' = [pc EXCEPT ![p] = s] /\ (s = "add" => root[p] \in there)
    BY <1>6 DEF WriteYaml, Go, Return, Set
  <2>2. pc'[p] = s /\ Clear(p)' /\ (s = "add" => root[p] \in there')
    BY <1>0, <1>1, <1>6, <2>1 DEF Standing, Clear, WriteYaml, At
  <2>3. Standing(p)'
    BY <1>0, <1>1, <2>1, <2>2 DEF Standing
  <2> QED
    BY <1>1, <1>3, <1>4, <2>1, <2>3, OneStep
<1>7. CASE Extract(p)
  <2>1. PICK s \in {"load", "rollbackRow"} : pc' = [pc EXCEPT ![p] = s]
    BY <1>7 DEF Extract, At, Go, Fail, Guarded, Set
  <2>2. pc'[p] = s /\ Own(p)' /\ call[p].verb = "restore"
    BY <1>0, <1>1, <1>7, <2>1 DEF Standing, Own, Extract, At
  <2>3. Standing(p)'
    BY <1>0, <1>1, <2>1, <2>2 DEF Standing
  <2> QED
    BY <1>1, <1>3, <1>4, <2>1, <2>3, OneStep
<1>8. CASE Write(p)
  <2>1. pc' = [pc EXCEPT ![p] = "idle"]
    BY <1>8 DEF Write, Return, Set
  <2>2. Standing(p)'
    BY <1>0, <2>1, Ends
  <2> QED
    BY <1>1, <1>3, <1>4, <2>1, <2>2, OneStep
<1> QED
  BY <1>5, <1>6, <1>7, <1>8

\* A row comes after its directory, and goes before it.
LEMMA RowStep ==
  ASSUME TypeOK, OneInv, NEW p \in Procs,
         \/ pc[p] = "add" /\ call[p].verb \in Constructors /\ \E i \in 0..MaxIndex : Register(p, i)
         \/ RollbackRow(p) \/ Remove(p)
  PROVE  OneInv'
<1>0. /\ Standing(p) /\ Apart /\ RowHasDir /\ YamlHasDir /\ pc \in [Procs -> Steps]
      /\ DOMAIN reg = Names
  BY DEF OneInv, TypeOK
<1>1. UNCHANGED <<there, yaml, call, root>> /\ pc[p] # "idle"
  BY DEF Register, RollbackRow, Remove, At, local
<1>2. call[p].name \in Names /\ YamlHasDir'
  BY <1>0, <1>1, CallFacts DEF YamlHasDir, TypeOK
<1>3. ASSUME NEW i \in 0..MaxIndex, Register(p, i), pc[p] = "add", call[p].verb \in Constructors
      PROVE  OneInv'
  <2>1. /\ reg' = [reg EXCEPT ![call[p].name] = [there |-> TRUE, dir |-> root[p], index |-> i]]
        /\ pc' = [pc EXCEPT ![p] = IF call[p].verb = "restore" THEN "extract" ELSE "check"]
    BY <1>3 DEF Register, Go, Set
  <2>2. reg'[call[p].name].there /\ reg'[call[p].name].dir = root[p]
        /\ \A n \in Names : n # call[p].name => reg'[n] = reg[n]
    BY <1>0, <1>2, <2>1
  <2>3. Clear(p) /\ root[p] \in there
    BY <1>0, <1>3 DEF Standing
  <2>4. RowHasDir' /\ Apart'
    BY <1>0, <1>1, <1>2, <2>2, <2>3 DEF RowHasDir, Apart, Clear, Overlaps
  <2>5. Standing(p)'
    BY <1>0, <1>1, <2>1, <2>2 DEF Standing, Own
  <2> QED
    BY <1>1, <1>2, <2>1, <2>4, <2>5, OneStep
<1>4. CASE RollbackRow(p) \/ Remove(p)
  <2>1. /\ reg' = [reg EXCEPT ![call[p].name] = NoRow] /\ pc[p] \in {"rollbackRow", "remove"}
    BY <1>4 DEF RollbackRow, Remove, At, Set
  <2>2. ~reg'[call[p].name].there /\ \A n \in Names : n # call[p].name => reg'[n] = reg[n]
    BY <1>0, <1>2, <2>1, RowFacts
  <2>3. PICK s \in {"idle", "rollbackDir", "rmtree"} : pc' = [pc EXCEPT ![p] = s]
    BY <1>4 DEF RollbackRow, Remove, Go, Return, Set
  <2>4. RowHasDir' /\ Apart'
    BY <1>0, <1>1, <1>2, <2>2 DEF RowHasDir, Apart
  <2>5. Clear(p)'
    <3>1. Own(p)
      BY <1>0, <2>1 DEF Standing
    <3> QED
      BY <1>0, <1>1, <1>2, <2>2, <3>1 DEF Clear, Own, Apart
  <2>6. Standing(p)'
    BY <1>0, <1>1, <2>3, <2>5 DEF Standing
  <2> QED
    BY <1>1, <1>2, <2>3, <2>4, <2>6, OneStep
<1> QED
  BY <1>3, <1>4

\* One command at a time: every step, a kill and the user's edits.
LEMMA SerialStep == TypeOK /\ SerialInv /\ [SceneNext]_<<vars, serial>> => SerialInv'
<1> SUFFICES ASSUME TypeOK, SerialInv, [SceneNext]_<<vars, serial>>, serial' PROVE OneInv'
  BY DEF SerialInv
<1>1. CASE UNCHANGED <<vars, serial>>
  <2>1. OneInv
    BY <1>1 DEF SerialInv
  <2> QED
    BY <1>1, <2>1 DEF vars, OneInv, Alone, Apart, RowHasDir, YamlHasDir, Standing, Clear, Own
<1>2. CASE SceneNext
  <2>0. OneInv /\ (calls' # calls => Quiet)
    BY <1>2 DEF SceneNext, SerialInv
  <2>1. ASSUME NEW p \in Procs, Start(p) PROVE OneInv'
    <3>1. UNCHANGED <<reg, there, yaml>> /\ calls' = calls + 1
      BY <2>1 DEF Start, disk
    <3>2. Quiet
      BY <2>0, <3>1 DEF TypeOK
    <3>3. PICK c \in Calls : /\ call' = [call EXCEPT ![p] = c] /\ root' = [root EXCEPT ![p] = c.dir]
                             /\ pc' = [pc EXCEPT ![p] = FirstStep(c.verb)]
      BY <2>1 DEF Start, Set, Go
    <3>4. call'[p] = c /\ root'[p] = c.dir /\ pc'[p] = FirstStep(c.verb)
      BY <3>3 DEF TypeOK
    <3>5. pc'[p] \in {"free", "yamlCheck", "resolve"} /\ (pc'[p] = "resolve" => c.verb \notin Constructors)
      BY <3>4 DEF FirstStep, Constructors
    <3>6. Standing(p)'
      BY <3>4, <3>5 DEF Standing
    <3>7. Apart' /\ RowHasDir' /\ YamlHasDir'
      BY <2>0, <3>1 DEF OneInv, Apart, RowHasDir, YamlHasDir
    <3> QED
      BY <2>0, <3>2, <3>3, <3>6, <3>7, OneStep
  <2>2. ASSUME NEW p \in Procs, Add(p) PROVE OneInv'
    BY <2>0, <2>2, LookStep, RowStep DEF Add, At
  <2>3. ASSUME NEW d \in Dirs, UserEdit(d) \/ UserUnstage(d) PROVE OneInv'
    <3>1. UNCHANGED <<reg, there, pc, call, root>>
      BY <2>3 DEF UserEdit, UserUnstage, local
    <3>2. \A e \in Dirs : yaml'[e] # {} => yaml[e] # {}
      BY <2>3 DEF UserEdit, UserUnstage, Set, TypeOK
    <3> QED
      BY <2>0, <3>1, <3>2 DEF OneInv, Alone, Apart, RowHasDir, YamlHasDir, Standing, Clear, Own
  <2>4. ASSUME NEW p \in Procs,
               \/ Free(p) \/ YamlCheck(p) \/ Overlap(p) \/ Resolve(p) \/ Load(p) \/ Heal(p)
               \/ Check(p) \/ ReadIndex(p) \/ Kill(p)
        PROVE  OneInv'
    BY <2>0, <2>4, LookStep
  <2>5. ASSUME NEW p \in Procs, Wipe(p) \/ RollbackDir(p) \/ DestroyDir(p) PROVE OneInv'
    BY <2>0, <2>5, RemoveStep
  <2>6. ASSUME NEW p \in Procs, Mkdir(p) \/ WriteYaml(p) \/ Extract(p) \/ Write(p) PROVE OneInv'
    BY <2>0, <2>6, MakeStep
  <2>7. ASSUME NEW p \in Procs, RollbackRow(p) \/ Remove(p) PROVE OneInv'
    BY <2>0, <2>7, RowStep
  <2> QED
    BY <1>2, <2>1, <2>2, <2>3, <2>4, <2>5, <2>6, <2>7 DEF SceneNext, Next
<1> QED
  BY <1>1, <1>2

\* What holds of every state of a serial behaviour.
LEMMA SerialHolds == SceneSpec => []SerialInv
<1>1. SceneInit => TypeOK /\ SerialInv
  <2> SUFFICES ASSUME SceneInit PROVE TypeOK /\ OneInv
    BY DEF SerialInv
  <2>1. \A n \in Names : ~reg[n].there
    BY RowFacts DEF SceneInit, Init
  <2> QED
    BY <2>1, TypeInit DEF SceneInit, Init, OneInv, Alone, Apart, RowHasDir, YamlHasDir, Standing
<1>2. TypeOK /\ SerialInv /\ [SceneNext]_<<vars, serial>> => TypeOK' /\ SerialInv'
  <2>1. [SceneNext]_<<vars, serial>> => [Next]_vars
    BY DEF SceneNext
  <2> QED
    BY <2>1, TypeStep, SerialStep
<1> QED
  BY <1>1, <1>2, PTL DEF SceneSpec

\* Whatever is created, restored, forgotten or cut short, one command at a time,
\* no instance lives inside another, so that destroying one never deletes the
\* other (_check_directory_overlap, _prepare_destination; #255).
THEOREM NeverNested == SceneSpec => []SerialNoOverlap
<1>1. SerialInv => SerialNoOverlap
  BY DEF SerialInv, OneInv, Apart, Overlaps, SerialNoOverlap, NoOverlap
<1> QED
  BY <1>1, SerialHolds, PTL

\* A kill at any step of a create, restore, destroy or rollback leaves a
\* directory without a row, never a row without a directory (destroy and
\* _rollback_partial_create remove the row first, the constructors add it last).
THEOREM RowsHaveDirs == SceneSpec => []SerialRowHasDir
<1>1. SerialInv => SerialRowHasDir
  BY DEF SerialInv, OneInv, SerialRowHasDir
<1> QED
  BY <1>1, SerialHolds, PTL
=============================================================================
