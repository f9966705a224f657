-------------------------- MODULE DomainPoolProofs --------------------------
(***************************************************************************)
(* Proofs about DomainPool for any list of domains, any latencies and any  *)
(* cap of the backoff.                                                     *)
(***************************************************************************)
EXTENDS DomainPool, WellFoundedInduction, TLAPS

-----------------------------------------------------------------------------
(* The inductive invariant *)

Fields == {"alive", "latency", "failStreak", "left"}

\* What the election reads of an entry.
EntryOK ==
    /\ probing \subseteq Entries
    /\ DOMAIN entry = Entries
    /\ \A e \in Entries :
           /\ DOMAIN entry[e] = Fields
           /\ entry[e].alive \in BOOLEAN /\ entry[e].latency \in Nat

\* No probe outlives its round.
RoundOver == loop # "round" => probing = {}

\* The first round probes every entry, and an answer is a measurement: from
\* then on an entry that counts as alive without one is being probed.
Measured ==
    /\ loop = "start" => \A e \in Entries : Due(e)
    /\ loop # "start" => \A e \in Alive \ probing : entry[e].latency # 0

IInv == EntryOK /\ RoundOver /\ Measured /\ BestIsFastest

-----------------------------------------------------------------------------
(* The election *)

\* A set of natural numbers has a least one.
LEMMA Least ==
    ASSUME NEW S \in SUBSET Nat, S # {}
    PROVE  \E m \in S : \A n \in S : m <= n
<1> DEFINE R == OpToRel(<, Nat)
<1>1. IsWellFoundedOn(R, Nat)
  BY NatLessThanWellFounded
<1>2. ASSUME NEW x \in Nat, NEW y \in Nat, x < y PROVE <<x, y>> \in R
  <2>1. <<x, y>> \in Nat \X Nat /\ <<x, y>>[1] < <<x, y>>[2]
    BY <1>2
  <2> QED
    BY <2>1, Zenon DEF OpToRel
<1> HIDE DEF R
<1>3. PICK m \in S : \A y \in S : ~(<<y, m>> \in R)
  BY <1>1, WFMin
<1>4. \A n \in S : ~(n < m)
  BY <1>2, <1>3
<1> QED
  BY <1>4

\* The sort puts an alive entry first as soon as there is one, measured or not:
\* the less function has no cycle among the entries of the pool.
LEMMA SomeoneWins ==
    ASSUME EntryOK, Alive # {}
    PROVE  Winners # {}
<1> DEFINE M == {e \in Alive : entry[e].latency # 0}
<1>1. Alive \subseteq Entries /\ \A e \in Entries : entry[e].latency \in Nat
  BY DEF Alive, EntryOK
<1>2. CASE M = {}
  <2>1. PICK e \in Alive : TRUE
    OBVIOUS
  <2>2. \A f \in Entries : ~Before(f, e)
    BY <1>2, <2>1 DEF Before, Alive, EntryOK
  <2> QED
    BY <2>1, <2>2 DEF Winners
<1>3. CASE M # {}
  <2> DEFINE L == {entry[e].latency : e \in M}
  <2>1. L \in SUBSET Nat /\ L # {}
    BY <1>1, <1>3
  <2>2. PICK l \in L : \A n \in L : l <= n
    BY <2>1, Least
  <2>3. PICK e \in M : entry[e].latency = l
    OBVIOUS
  <2>4. \A f \in M : entry[e].latency <= entry[f].latency
    BY <2>2, <2>3
  <2>5. \A f \in Entries : ~Before(f, e)
    BY <1>1, <2>4 DEF Before, Alive, EntryOK
  <2> QED
    BY <2>5 DEF Winners
<1> QED
  BY <1>2, <1>3

\* The winner is at least as fast as every measured entry.
LEMMA WinnerIsFastest ==
    ASSUME EntryOK, NEW e \in Winners, NEW f \in Alive, entry[f].latency # 0
    PROVE  entry[e].latency \in 1..entry[f].latency
<1>1. ~Before(f, e) /\ entry[e].alive /\ entry[f].alive /\ e \in Entries /\ f \in Entries
  BY DEF Winners, Alive, EntryOK
<1>2. entry[e].latency # 0 /\ ~(entry[f].latency < entry[e].latency)
  BY <1>1 DEF Before
<1> QED
  BY <1>1, <1>2 DEF EntryOK

-----------------------------------------------------------------------------
(* Invariance *)

\* The invariant holds at the start.
LEMMA IInvInit == Init => IInv
<1> SUFFICES ASSUME Init PROVE IInv
  OBVIOUS
<1>1. \A e \in Entries : /\ DOMAIN entry[e] = Fields /\ entry[e].left = 0
                        /\ entry[e].alive \in BOOLEAN /\ entry[e].latency \in Nat
  BY DEF Init, Fresh, Fields
<1> QED
  BY <1>1 DEF Init, IInv, EntryOK, RoundOver, Measured, Due, BestIsFastest

\* A probe leaves the other entries alone, and its own measured or dead.
LEMMA ResultOK ==
    ASSUME IInv, NEW e \in probing, loop = "round",
           NEW x, DOMAIN x = Fields, x.alive \in BOOLEAN, x.latency \in Nat, x.alive => x.latency # 0,
           entry' = [entry EXCEPT ![e] = x], probing' = probing \ {e}, loop' = loop
    PROVE  IInv'
<1> USE DEF IInv
<1>1. e \in Entries /\ entry'[e] = x /\ \A f \in Entries \ {e} : entry'[f] = entry[f]
  BY DEF EntryOK
<1>2. EntryOK' /\ RoundOver'
  BY <1>1 DEF EntryOK, RoundOver
<1>3. Measured'
  BY <1>1 DEF Measured, Alive
<1> QED
  BY <1>2, <1>3 DEF BestIsFastest

\* Every step keeps the invariant.
LEMMA IInvStep == IInv /\ [Next]_vars => IInv'
<1> SUFFICES ASSUME IInv, [Next]_vars PROVE IInv'
  OBVIOUS
<1> USE DEF IInv
<1>1. CASE RoundStart
  BY <1>1 DEF RoundStart, EntryOK, RoundOver, Measured, Alive, BestIsFastest
<1>2. CASE Elect
  <2>1. EntryOK' /\ RoundOver' /\ Measured'
    BY <1>2 DEF Elect, Ended, EntryOK, RoundOver, Measured, Alive
  <2>2. BestIsFastest'
    <3>1. Alive' = Alive /\ entry' = entry /\ \A f \in Alive : entry[f].latency # 0
      BY <1>2 DEF Elect, Ended, Alive, Measured
    <3>2. CASE Alive = {}
      BY <3>1, <3>2 DEF BestIsFastest
    <3>3. CASE Alive # {}
      <4>1. PICK e \in Winners : best' = Pool[e]
        BY <1>2, <3>3, SomeoneWins DEF Elect, Elected
      <4>2. e \in Alive /\ \A f \in Alive : entry[e].latency \in 1..entry[f].latency
        BY <3>1, <4>1, WinnerIsFastest DEF Winners
      <4> QED
        BY <3>1, <4>1, <4>2 DEF BestIsFastest
    <3> QED
      BY <3>2, <3>3
  <2> QED
    BY <2>1, <2>2
<1>3. CASE LoopExit
  BY <1>3 DEF LoopExit, EntryOK, RoundOver, Measured, BestIsFastest, Alive
<1>4. ASSUME NEW e \in Entries, ProbeOk(e) PROVE IInv'
  <2>1. PICK l \in Lats : entry' = [entry EXCEPT ![e] = [Fresh EXCEPT !.latency = l]]
    BY <1>4 DEF ProbeOk
  <2> DEFINE x == [Fresh EXCEPT !.latency = l]
  <2>2. DOMAIN x = Fields /\ x.alive \in BOOLEAN /\ x.latency \in Nat /\ x.latency # 0
    BY LatsAssumption DEF Fresh, Fields
  <2>3. entry' = [entry EXCEPT ![e] = x]
    BY <2>1
  <2> HIDE DEF x
  <2>4. e \in probing /\ loop = "round" /\ probing' = probing \ {e} /\ loop' = loop
    BY <1>4 DEF ProbeOk, RoundOver
  <2> QED
    BY <2>2, <2>3, <2>4, ResultOK
<1>5. ASSUME NEW e \in Entries, ProbeFail(e) PROVE IInv'
  <2>1. PICK jitter \in {0, 1} : entry' = [entry EXCEPT ![e] = Dead(@, jitter)]
    BY <1>5 DEF ProbeFail
  <2> DEFINE x == Dead(entry[e], jitter)
  <2>2. DOMAIN x = Fields /\ ~x.alive /\ x.alive \in BOOLEAN /\ x.latency \in Nat
    BY DEF Dead, Fields
  <2>3. entry' = [entry EXCEPT ![e] = x]
    BY <2>1
  <2> HIDE DEF x
  <2>4. e \in probing /\ loop = "round" /\ probing' = probing \ {e} /\ loop' = loop
    BY <1>5 DEF ProbeFail, RoundOver
  <2> QED
    BY <2>2, <2>3, <2>4, ResultOK
<1>6. ASSUME NEW d \in Domains, Flip(d) PROVE IInv'
  BY <1>6 DEF Flip, EntryOK, RoundOver, Measured, Due, BestIsFastest, Alive
<1>7. CASE Cancel
  BY <1>7 DEF Cancel, EntryOK, RoundOver, Measured, Due, BestIsFastest, Alive
<1>8. CASE Tick
  <2>1. \A e \in Entries : /\ entry'[e].alive = entry[e].alive
                           /\ entry'[e].latency = entry[e].latency
                           /\ DOMAIN entry'[e] = DOMAIN entry[e]
                           /\ entry[e].left = 0 => entry'[e].left = 0
    BY <1>8 DEF Tick, EntryOK, Fields
  <2>2. DOMAIN entry' = Entries
    BY <1>8 DEF Tick
  <2>3. EntryOK' /\ RoundOver'
    BY <1>8, <2>1, <2>2 DEF Tick, EntryOK, RoundOver
  <2>4. Alive' = Alive /\ Alive \subseteq Entries
    BY <1>8, <2>1 DEF Tick, Alive
  <2>5. Measured'
    BY <1>8, <2>1, <2>4 DEF Tick, Measured, Due
  <2>6. BestIsFastest'
    BY <1>8, <2>1, <2>4 DEF Tick, BestIsFastest
  <2> QED
    BY <2>3, <2>5, <2>6
<1>9. CASE UNCHANGED vars
  BY <1>9 DEF vars, EntryOK, RoundOver, Measured, Due, BestIsFastest, Alive
<1> QED
  BY <1>1, <1>2, <1>3, <1>4, <1>5, <1>6, <1>7, <1>8, <1>9 DEF Next

\* From the first election on, and between two rounds, best names the fastest
\* domain that answered.
THEOREM BestDomainIsFastest == Spec => []BestIsFastest
<1>1. IInv => BestIsFastest
  BY DEF IInv
<1> QED
  BY <1>1, IInvInit, IInvStep, PTL DEF Spec
=============================================================================
