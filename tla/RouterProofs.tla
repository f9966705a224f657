---------------------------- MODULE RouterProofs ----------------------------
(***************************************************************************)
(* Proofs about Router for any number of endpoints and handlers and any    *)
(* threshold, cooldown, retry limit and range of measured durations.       *)
(***************************************************************************)
EXTENDS Router, FiniteSetTheorems, TLAPS

-----------------------------------------------------------------------------
(* Type correctness *)

\* CountFailure keeps the types of the three fields it writes.
LEMMA CountFailureType ==
    ASSUME TypeOK, NEW e \in Endpoints, CountFailure(e)
    PROVE  /\ state' \in [Endpoints -> States]
           /\ failures' \in [Endpoints -> Nat]
           /\ left' \in [Endpoints -> 0..(Cooldown + 1)]
BY CooldownAssumption, ThresholdAssumption DEF TypeOK, CountFailure, States

\* So does State().
LEMMA ReadStateType ==
    ASSUME TypeOK, NEW e \in Endpoints, ReadState(e)
    PROVE  /\ state' \in [Endpoints -> States]
           /\ failures' \in [Endpoints -> Nat]
           /\ left' \in [Endpoints -> 0..(Cooldown + 1)]
BY CooldownAssumption DEF TypeOK, ReadState, ResetFailures, Seen, Cooled, States

\* NextAttempt keeps the attempt below MaxAttempts.
LEMMA NextAttemptType ==
    ASSUME TypeOK, NEW h \in Handlers, NextAttempt(h)
    PROVE  /\ pc' \in [Handlers -> {"idle", "pick", "dial", "backoff", "relay", "ewma", "commit"}]
           /\ attempt' \in [Handlers -> 0..(MaxAttempts - 1)]
BY AttemptsAssumption DEF TypeOK, NextAttempt, Goto

\* The new average is a natural number.
LEMMA EwmaType ==
    ASSUME NEW p \in Nat, NEW s \in Samples
    PROVE  Ewma(p, s) \in Nat
BY SamplesAssumption DEF Ewma

\* Every variable of the router keeps its type; in particular dialWithRetry
\* never counts beyond its limit and Pick never indexes past the endpoints.
THEOREM TypeCorrect == Spec => []TypeOK
<1>1. Init => TypeOK
  <2> SUFFICES ASSUME Init PROVE TypeOK
    OBVIOUS
  <2>1. /\ 1 \in Endpoints /\ 1 \in 1..(N + 1)
        /\ 0 \in 0..(Cooldown + 1) /\ 0 \in 0..(MaxAttempts - 1)
    BY NAssumption, CooldownAssumption, AttemptsAssumption DEF Endpoints
  <2> QED
    BY <2>1 DEF Init, TypeOK, States
<1>2. TypeOK /\ [Next]_vars => TypeOK'
  <2> SUFFICES ASSUME TypeOK, [Next]_vars PROVE TypeOK'
    OBVIOUS
  <2>1. ASSUME NEW h \in Handlers, HandlerNext(h) PROVE TypeOK'
    <3>1. CASE Begin(h)
      BY <3>1 DEF Begin, Goto, TypeOK, epVars, healthVars
    <3>2. CASE Scan(h)
      <4>1. scan[h] \in Endpoints
        BY <3>2, NAssumption DEF Scan, TypeOK, Endpoints
      <4>2. /\ state' \in [Endpoints -> States]
            /\ failures' \in [Endpoints -> Nat]
            /\ left' \in [Endpoints -> 0..(Cooldown + 1)]
        BY <3>2, <4>1, ReadStateType DEF Scan
      <4>3. cands' \in [Handlers -> SUBSET Endpoints]
        BY <3>2, <4>1 DEF Scan, Candidates, TypeOK
      <4>4. scan' \in [Handlers -> 1..(N + 1)]
        BY <3>2, NAssumption DEF Scan, TypeOK
      <4> QED
        BY <3>2, <4>2, <4>3, <4>4 DEF Scan, TypeOK, healthVars
    <3>3. CASE PickNone(h)
      <4>1. scan' \in [Handlers -> 1..(N + 1)]
        BY <3>3, NAssumption DEF PickNone, TypeOK
      <4> QED
        BY <3>3, <4>1, NextAttemptType DEF PickNone, TypeOK, epVars, healthVars
    <3>4. CASE Pick(h)
      <4>1. ep' \in [Handlers -> Endpoints]
        BY <3>4 DEF Pick, Top, TypeOK
      <4>2. scan' \in [Handlers -> 1..(N + 1)]
        BY <3>4, NAssumption DEF Pick, TypeOK
      <4>3. cands' \in [Handlers -> SUBSET Endpoints]
        BY <3>4 DEF Pick, TypeOK
      <4> QED
        BY <3>4, <4>1, <4>2, <4>3 DEF Pick, Goto, TypeOK, epVars, healthVars
    <3>5. CASE DialOk(h)
      BY <3>5, AttemptsAssumption DEF DialOk, Goto, TypeOK, epVars, healthVars
    <3>6. CASE DialFail(h)
      <4>1. ep[h] \in Endpoints
        BY DEF TypeOK
      <4>2. /\ state' \in [Endpoints -> States]
            /\ failures' \in [Endpoints -> Nat]
            /\ left' \in [Endpoints -> 0..(Cooldown + 1)]
        BY <3>6, <4>1, CountFailureType DEF DialFail
      <4>3. ep' \in [Handlers -> Endpoints]
        BY <3>6, NAssumption DEF DialFail, TypeOK, Endpoints
      <4> QED
        BY <3>6, <4>2, <4>3, NextAttemptType DEF DialFail, TypeOK, healthVars
    <3>7. CASE BackoffElapsed(h)
      BY <3>7 DEF BackoffElapsed, Goto, TypeOK, epVars, healthVars
    <3>8. CASE BackoffCancelled(h)
      BY <3>8, AttemptsAssumption DEF BackoffCancelled, Goto, TypeOK, epVars, healthVars
    <3>9. CASE RelayEnd(h)
      BY <3>9 DEF RelayEnd, Goto, TypeOK, epVars, healthVars
    <3>10. CASE StoreEWMA(h)
      <4>1. ewma' \in [Endpoints -> Nat]
        BY <3>10, EwmaType DEF StoreEWMA, TypeOK
      <4> QED
        BY <3>10, <4>1 DEF StoreEWMA, Goto, TypeOK, epVars, healthVars
    <3>11. CASE RecordSuccess(h)
      <4>1. 1 \in Endpoints
        BY NAssumption DEF Endpoints
      <4> QED
        BY <3>11, <4>1 DEF RecordSuccess, Goto, TypeOK, States, healthVars
    <3> QED
      BY <2>1, <3>1, <3>2, <3>3, <3>4, <3>5, <3>6, <3>7, <3>8, <3>9, <3>10, <3>11
      DEF HandlerNext
  <2>2. CASE HealthNext
    <3>1. CASE CheckOne
      <4>1. hscan \in Endpoints
        BY <3>1, NAssumption DEF CheckOne, TypeOK, Endpoints
      <4>2. /\ state' \in [Endpoints -> States]
            /\ failures' \in [Endpoints -> Nat]
            /\ left' \in [Endpoints -> 0..(Cooldown + 1)]
        BY <3>1, <4>1, ReadStateType DEF CheckOne
      <4>3. hscan' \in 1..(N + 1)
        BY <3>1, NAssumption DEF CheckOne, TypeOK
      <4> QED
        BY <3>1, <4>2, <4>3 DEF CheckOne, TypeOK, handlerVars
    <3>2. CASE CheckAll \/ CheckDone \/ HealthExit
      BY <3>2 DEF CheckAll, CheckDone, HealthExit, TypeOK, epVars, handlerVars
    <3>3. CASE CheckWait
      BY <3>3, NAssumption DEF CheckWait, TypeOK, epVars, handlerVars
    <3> QED
      BY <2>2, <3>1, <3>2, <3>3 DEF HealthNext
  <2>3. ASSUME NEW e \in Endpoints, ProbeNext(e) PROVE TypeOK'
    <3>1. CASE ProbeAlive(e)
      BY <3>1 DEF ProbeAlive, TypeOK, epVars, handlerVars
    <3>2. CASE ProbeStoreEWMA(e)
      <4>1. ewma' \in [Endpoints -> Nat]
        BY <3>2, EwmaType DEF ProbeStoreEWMA, TypeOK
      <4> QED
        BY <3>2, <4>1 DEF ProbeStoreEWMA, TypeOK, epVars, handlerVars
    <3>3. CASE ProbeCommit(e)
      BY <3>3 DEF ProbeCommit, TypeOK, States, handlerVars
    <3>4. CASE ProbeDead(e)
      BY <3>4, CountFailureType DEF ProbeDead, TypeOK, handlerVars
    <3> QED
      BY <2>3, <3>1, <3>2, <3>3, <3>4 DEF ProbeNext
  <2>4. ASSUME NEW e \in Endpoints, Status(e) PROVE TypeOK'
    BY <2>4, ReadStateType DEF Status, TypeOK, handlerVars, healthVars
  <2>5. CASE Tick
    BY <2>5, CooldownAssumption DEF Tick, TypeOK, handlerVars, healthVars
  <2>6. CASE Cancel
    BY <2>6 DEF Cancel, TypeOK, epVars, handlerVars, healthVars
  <2>7. CASE UNCHANGED vars
    BY <2>7 DEF vars, TypeOK, epVars, handlerVars, healthVars
  <2> QED
    BY <2>1, <2>2, <2>3, <2>4, <2>5, <2>6, <2>7 DEF Next
<1> QED
  BY <1>1, <1>2, PTL DEF Spec

-----------------------------------------------------------------------------
(* Consistency of the breaker *)

\* One endpoint's part of BreakerConsistent.
Agree(e) ==
    /\ state[e] = "healthy" => failures[e] = 0
    /\ state[e] = "unhealthy" => failures[e] < Threshold
    /\ state[e] = "open" => failures[e] >= Threshold

\* BreakerConsistent, endpoint by endpoint.
LEMMA AgreeDef == BreakerConsistent <=> \A e \in Endpoints : Agree(e)
BY DEF BreakerConsistent, Agree

\* A counted failure opens the breaker exactly when it reaches the threshold.
LEMMA CountFailureAgrees ==
    ASSUME TypeOK, BreakerConsistent, NEW e \in Endpoints, CountFailure(e)
    PROVE  BreakerConsistent'
<1> SUFFICES ASSUME NEW x \in Endpoints PROVE Agree(x)'
  BY AgreeDef DEF BreakerConsistent, Agree
<1>1. Agree(x)
  BY AgreeDef
<1>2. CASE x = e
  BY <1>2, ThresholdAssumption DEF CountFailure, Agree, TypeOK
<1>3. CASE x # e
  BY <1>1, <1>3 DEF CountFailure, Agree, TypeOK
<1> QED
  BY <1>2, <1>3

\* Half-closing forgets the failures together with the open state.
LEMMA ReadStateAgrees ==
    ASSUME TypeOK, BreakerConsistent, NEW e \in Endpoints, ReadState(e)
    PROVE  BreakerConsistent'
<1> SUFFICES ASSUME NEW x \in Endpoints PROVE Agree(x)'
  BY AgreeDef DEF BreakerConsistent, Agree
<1>1. Agree(x)
  BY AgreeDef
<1>2. CASE x = e
  BY <1>1, <1>2, ThresholdAssumption
  DEF ReadState, ResetFailures, Seen, Cooled, Agree, TypeOK
<1>3. CASE x # e
  BY <1>1, <1>3 DEF ReadState, ResetFailures, Agree, TypeOK
<1> QED
  BY <1>2, <1>3

\* A success, or an alive probe of an unhealthy endpoint, clears the count.
LEMMA HealedAgrees ==
    ASSUME TypeOK, BreakerConsistent, NEW e \in Endpoints,
           state' = [state EXCEPT ![e] = "healthy"],
           failures' = [failures EXCEPT ![e] = 0]
    PROVE  BreakerConsistent'
<1> SUFFICES ASSUME NEW x \in Endpoints PROVE Agree(x)'
  BY AgreeDef DEF BreakerConsistent, Agree
<1>1. Agree(x)
  BY AgreeDef
<1> QED
  BY <1>1 DEF Agree, TypeOK

\* A breaker's state and its failure count agree in every reachable state,
\* for every threshold and any number of handlers and probes at work at once.
THEOREM BreakerAgrees == Spec => []BreakerConsistent
<1>1. Init => BreakerConsistent
  BY ThresholdAssumption DEF Init, BreakerConsistent
<1>2. TypeOK /\ BreakerConsistent /\ [Next]_vars => BreakerConsistent'
  <2> SUFFICES ASSUME TypeOK, BreakerConsistent, [Next]_vars PROVE BreakerConsistent'
    OBVIOUS
  <2>1. ASSUME UNCHANGED <<state, failures>> PROVE BreakerConsistent'
    BY <2>1 DEF BreakerConsistent
  <2>2. ASSUME NEW h \in Handlers, HandlerNext(h) PROVE BreakerConsistent'
    <3>1. CASE Scan(h)
      <4>1. scan[h] \in Endpoints
        BY <3>1, NAssumption DEF Scan, TypeOK, Endpoints
      <4> QED
        BY <3>1, <4>1, ReadStateAgrees DEF Scan
    <3>2. CASE DialFail(h)
      BY <3>2, CountFailureAgrees DEF DialFail, TypeOK
    <3>3. CASE RecordSuccess(h)
      BY <3>3, HealedAgrees DEF RecordSuccess, TypeOK
    <3>4. CASE \/ Begin(h) \/ PickNone(h) \/ Pick(h) \/ DialOk(h) \/ BackoffElapsed(h)
               \/ BackoffCancelled(h) \/ RelayEnd(h) \/ StoreEWMA(h)
      <4>1. UNCHANGED <<state, failures>>
        BY <3>4 DEF Begin, PickNone, Pick, DialOk, BackoffElapsed, BackoffCancelled,
                    RelayEnd, StoreEWMA, epVars
      <4> QED
        BY <4>1, <2>1
    <3> QED
      BY <2>2, <3>1, <3>2, <3>3, <3>4 DEF HandlerNext
  <2>3. CASE HealthNext
    <3>1. CASE CheckOne
      <4>1. hscan \in Endpoints
        BY <3>1, NAssumption DEF CheckOne, TypeOK, Endpoints
      <4> QED
        BY <3>1, <4>1, ReadStateAgrees DEF CheckOne
    <3>2. CASE CheckAll \/ CheckWait \/ CheckDone \/ HealthExit
      BY <3>2, <2>1 DEF CheckAll, CheckWait, CheckDone, HealthExit, epVars
    <3> QED
      BY <2>3, <3>1, <3>2 DEF HealthNext
  <2>4. ASSUME NEW e \in Endpoints, ProbeNext(e) PROVE BreakerConsistent'
    <3>1. CASE ProbeAlive(e) \/ ProbeStoreEWMA(e)
      BY <3>1, <2>1 DEF ProbeAlive, ProbeStoreEWMA, epVars
    <3>2. CASE ProbeCommit(e) /\ Heals(e)
      BY <3>2, HealedAgrees DEF ProbeCommit
    <3>3. CASE ProbeCommit(e) /\ ~Heals(e)
      <4>1. UNCHANGED <<state, failures>>
        BY <3>3 DEF ProbeCommit, TypeOK
      <4> QED
        BY <4>1, <2>1
    <3>4. CASE ProbeDead(e)
      BY <3>4, CountFailureAgrees DEF ProbeDead
    <3> QED
      BY <2>4, <3>1, <3>2, <3>3, <3>4 DEF ProbeNext
  <2>5. ASSUME NEW e \in Endpoints, Status(e) PROVE BreakerConsistent'
    BY <2>5, ReadStateAgrees DEF Status
  <2>6. CASE Tick \/ Cancel \/ UNCHANGED vars
    BY <2>6, <2>1 DEF Tick, Cancel, vars, epVars
  <2> QED
    BY <2>2, <2>3, <2>4, <2>5, <2>6 DEF Next
<1> QED
  BY <1>1, <1>2, TypeCorrect, PTL DEF Spec

-----------------------------------------------------------------------------
(* The moving average *)

InRange(v) == v = 0 \/ (Lo <= v /\ v <= Hi)

\* The inductive invariant: what a goroutine has loaded and not yet stored is
\* a former average, and so in range as well.
EwmaInv ==
    /\ \A e \in Endpoints : InRange(ewma[e]) /\ InRange(pprev[e])
    /\ \A h \in Handlers : InRange(prev[h])

\* One update from an average in range and a sample gives a non-zero average in
\* range, rounding down included.
LEMMA EwmaRange ==
    ASSUME NEW p \in Nat, InRange(p), NEW s \in Samples
    PROVE  Ewma(p, s) \in Nat /\ Lo <= Ewma(p, s) /\ Ewma(p, s) <= Hi
<1>1. s \in Nat /\ Lo <= s /\ s <= Hi /\ Lo \in Nat /\ Hi \in Nat
  BY SamplesAssumption
<1>2. CASE p = 0
  BY <1>1, <1>2 DEF Ewma
<1>3. CASE p # 0
  <2>1. Lo <= p /\ p <= Hi
    BY <1>3 DEF InRange
  <2>2. 8 * Lo <= p * 7 + s /\ p * 7 + s <= 8 * Hi
    BY <1>1, <2>1
  <2> QED
    BY <1>1, <1>3, <2>2 DEF Ewma
<1> QED
  BY <1>2, <1>3

\* EwmaInv is preserved by every step.
LEMMA EwmaStep == TypeOK /\ EwmaInv /\ [Next]_vars => EwmaInv'
<1> SUFFICES ASSUME TypeOK, EwmaInv, [Next]_vars PROVE EwmaInv'
  OBVIOUS
<1>1. ASSUME UNCHANGED <<ewma, prev, pprev>> PROVE EwmaInv'
  BY <1>1 DEF EwmaInv, InRange
<1>2. ASSUME NEW h \in Handlers, HandlerNext(h) PROVE EwmaInv'
  <2>1. CASE RelayEnd(h)
    BY <2>1 DEF RelayEnd, EwmaInv, InRange, TypeOK, healthVars
  <2>2. CASE StoreEWMA(h)
    <3>1. PICK s \in Samples : ewma' = [ewma EXCEPT ![ep[h]] = Ewma(prev[h], s)]
      BY <2>2 DEF StoreEWMA
    <3>2. InRange(Ewma(prev[h], s))
      BY EwmaRange DEF EwmaInv, TypeOK, InRange
    <3> QED
      BY <2>2, <3>1, <3>2 DEF StoreEWMA, EwmaInv, InRange, TypeOK, healthVars
  <2>3. CASE \/ Begin(h) \/ Scan(h) \/ PickNone(h) \/ Pick(h) \/ DialOk(h) \/ DialFail(h)
             \/ BackoffElapsed(h) \/ BackoffCancelled(h) \/ RecordSuccess(h)
    <3>1. UNCHANGED <<ewma, prev, pprev>>
      BY <2>3 DEF Begin, Scan, PickNone, Pick, DialOk, DialFail, BackoffElapsed,
                  BackoffCancelled, RecordSuccess, healthVars
    <3> QED
      BY <3>1, <1>1
  <2> QED
    BY <1>2, <2>1, <2>2, <2>3 DEF HandlerNext
<1>3. CASE HealthNext
  BY <1>3, <1>1 DEF HealthNext, CheckAll, CheckOne, CheckWait, CheckDone, HealthExit, handlerVars
<1>4. ASSUME NEW e \in Endpoints, ProbeNext(e) PROVE EwmaInv'
  <2>1. CASE ProbeAlive(e)
    BY <2>1 DEF ProbeAlive, EwmaInv, InRange, TypeOK, handlerVars
  <2>2. CASE ProbeStoreEWMA(e)
    <3>1. PICK s \in Samples : ewma' = [ewma EXCEPT ![e] = Ewma(pprev[e], s)]
      BY <2>2 DEF ProbeStoreEWMA
    <3>2. InRange(Ewma(pprev[e], s))
      BY EwmaRange DEF EwmaInv, TypeOK, InRange
    <3> QED
      BY <2>2, <3>1, <3>2 DEF ProbeStoreEWMA, EwmaInv, InRange, TypeOK, handlerVars
  <2>3. CASE ProbeCommit(e) \/ ProbeDead(e)
    BY <2>3, <1>1 DEF ProbeCommit, ProbeDead, handlerVars
  <2> QED
    BY <1>4, <2>1, <2>2, <2>3 DEF ProbeNext
<1>5. ASSUME NEW e \in Endpoints, Status(e) PROVE EwmaInv'
  BY <1>5, <1>1 DEF Status, handlerVars, healthVars
<1>6. CASE Tick \/ Cancel \/ UNCHANGED vars
  BY <1>6, <1>1 DEF Tick, Cancel, vars, handlerVars, healthVars
<1> QED
  BY <1>2, <1>3, <1>4, <1>5, <1>6 DEF Next

\* EwmaInv holds always.
LEMMA EwmaInvariant == Spec => []EwmaInv
<1>1. Init => EwmaInv
  BY DEF Init, EwmaInv, InRange
<1> QED
  BY <1>1, EwmaStep, TypeCorrect, PTL DEF Spec

\* Every average stored lies between the smallest and the largest measured
\* duration, for any number of goroutines whose unlocked updates race; so an
\* endpoint once measured stays measured.
THEOREM EwmaStaysInRange == Spec => EwmaBounded
<1>1. TypeOK /\ EwmaInv /\ [Next]_vars
        => [\A e \in Endpoints : ewma'[e] # ewma[e] => Lo <= ewma'[e] /\ ewma'[e] <= Hi]_vars
  <2> SUFFICES ASSUME TypeOK, EwmaInv, [Next]_vars, NEW x \in Endpoints,
                      ewma'[x] # ewma[x]
               PROVE  Lo <= ewma'[x] /\ ewma'[x] <= Hi
    OBVIOUS
  <2>1. ASSUME UNCHANGED ewma PROVE Lo <= ewma'[x] /\ ewma'[x] <= Hi
    BY <2>1
  <2>2. ASSUME NEW h \in Handlers, HandlerNext(h) PROVE Lo <= ewma'[x] /\ ewma'[x] <= Hi
    <3>1. CASE StoreEWMA(h)
      <4>1. PICK s \in Samples : ewma' = [ewma EXCEPT ![ep[h]] = Ewma(prev[h], s)]
        BY <3>1 DEF StoreEWMA
      <4>2. Lo <= Ewma(prev[h], s) /\ Ewma(prev[h], s) <= Hi
        BY EwmaRange DEF EwmaInv, TypeOK
      <4> QED
        BY <4>1, <4>2 DEF TypeOK
    <3>2. CASE ~StoreEWMA(h)
      BY <2>2, <3>2, <2>1
      DEF HandlerNext, Begin, Scan, PickNone, Pick, DialOk, DialFail, BackoffElapsed,
          BackoffCancelled, RelayEnd, RecordSuccess
    <3> QED
      BY <3>1, <3>2
  <2>3. CASE HealthNext
    BY <2>3, <2>1 DEF HealthNext, CheckAll, CheckOne, CheckWait, CheckDone, HealthExit
  <2>4. ASSUME NEW e \in Endpoints, ProbeNext(e) PROVE Lo <= ewma'[x] /\ ewma'[x] <= Hi
    <3>1. CASE ProbeStoreEWMA(e)
      <4>1. PICK s \in Samples : ewma' = [ewma EXCEPT ![e] = Ewma(pprev[e], s)]
        BY <3>1 DEF ProbeStoreEWMA
      <4>2. Lo <= Ewma(pprev[e], s) /\ Ewma(pprev[e], s) <= Hi
        BY EwmaRange DEF EwmaInv, TypeOK
      <4> QED
        BY <4>1, <4>2 DEF TypeOK
    <3>2. CASE ProbeAlive(e) \/ ProbeCommit(e) \/ ProbeDead(e)
      BY <3>2, <2>1 DEF ProbeAlive, ProbeCommit, ProbeDead
    <3> QED
      BY <2>4, <3>1, <3>2 DEF ProbeNext
  <2>5. ASSUME NEW e \in Endpoints, Status(e) PROVE Lo <= ewma'[x] /\ ewma'[x] <= Hi
    BY <2>5, <2>1 DEF Status
  <2>6. CASE Tick \/ Cancel \/ UNCHANGED vars
    BY <2>6, <2>1 DEF Tick, Cancel, vars
  <2> QED
    BY <2>2, <2>3, <2>4, <2>5, <2>6 DEF Next
<1> QED
  BY <1>1, TypeCorrect, EwmaInvariant, PTL DEF Spec, EwmaBounded

-----------------------------------------------------------------------------
(* Leaving the open state *)

Left(e) ==
    state[e] = "open" /\ state'[e] # "open" =>
        \/ left[e] = 0 /\ state'[e] = "unhealthy"
        \/ \E h \in Handlers : pc[h] = "commit" /\ ep[h] = e /\ pc'[h] = "idle"

\* A read leaves the open state only after the cooldown.
LEMMA ReadStateLeaves ==
    ASSUME TypeOK, NEW e \in Endpoints, NEW x \in Endpoints, ReadState(e)
    PROVE  Left(x)
BY DEF ReadState, Seen, Cooled, Left, TypeOK, States

\* A counted failure does not leave the open state, because the count of an
\* open breaker has reached the threshold.
LEMMA CountFailureLeaves ==
    ASSUME TypeOK, BreakerConsistent, NEW e \in Endpoints, NEW x \in Endpoints, CountFailure(e)
    PROVE  Left(x)
<1>1. state[x] = "open" => failures[x] >= Threshold
  BY DEF BreakerConsistent
<1> QED
  BY <1>1, ThresholdAssumption DEF CountFailure, Left, TypeOK

\* An open breaker closes after its cooldown or by the end of an older
\* connection, never by a health probe and never by a late failure.
THEOREM OpenIsLeftProperly == Spec => LeavesOpen
<1>1. TypeOK /\ BreakerConsistent /\ [Next]_vars => [\A e \in Endpoints : Left(e)]_vars
  <2> SUFFICES ASSUME TypeOK, BreakerConsistent, [Next]_vars, NEW x \in Endpoints
               PROVE  Left(x)
    OBVIOUS
  <2>1. ASSUME UNCHANGED state PROVE Left(x)
    BY <2>1 DEF Left
  <2>2. ASSUME NEW h \in Handlers, HandlerNext(h) PROVE Left(x)
    <3>1. CASE Scan(h)
      <4>1. scan[h] \in Endpoints
        BY <3>1, NAssumption DEF Scan, TypeOK, Endpoints
      <4> QED
        BY <3>1, <4>1, ReadStateLeaves DEF Scan
    <3>2. CASE DialFail(h)
      BY <3>2, CountFailureLeaves DEF DialFail, TypeOK
    <3>3. CASE RecordSuccess(h)
      BY <3>3 DEF RecordSuccess, Goto, Left, TypeOK
    <3>4. CASE \/ Begin(h) \/ PickNone(h) \/ Pick(h) \/ DialOk(h) \/ BackoffElapsed(h)
               \/ BackoffCancelled(h) \/ RelayEnd(h) \/ StoreEWMA(h)
      <4>1. UNCHANGED state
        BY <3>4 DEF Begin, PickNone, Pick, DialOk, BackoffElapsed, BackoffCancelled,
                    RelayEnd, StoreEWMA, epVars
      <4> QED
        BY <4>1, <2>1
    <3> QED
      BY <2>2, <3>1, <3>2, <3>3, <3>4 DEF HandlerNext
  <2>3. CASE HealthNext
    <3>1. CASE CheckOne
      <4>1. hscan \in Endpoints
        BY <3>1, NAssumption DEF CheckOne, TypeOK, Endpoints
      <4> QED
        BY <3>1, <4>1, ReadStateLeaves DEF CheckOne
    <3>2. CASE CheckAll \/ CheckWait \/ CheckDone \/ HealthExit
      BY <3>2, <2>1 DEF CheckAll, CheckWait, CheckDone, HealthExit, epVars
    <3> QED
      BY <2>3, <3>1, <3>2 DEF HealthNext
  <2>4. ASSUME NEW e \in Endpoints, ProbeNext(e) PROVE Left(x)
    <3>1. CASE ProbeAlive(e) \/ ProbeStoreEWMA(e)
      BY <3>1, <2>1 DEF ProbeAlive, ProbeStoreEWMA, epVars
    <3>2. CASE ProbeCommit(e)
      BY <3>2 DEF ProbeCommit, Heals, Left, TypeOK
    <3>3. CASE ProbeDead(e)
      BY <3>3, CountFailureLeaves DEF ProbeDead
    <3> QED
      BY <2>4, <3>1, <3>2, <3>3 DEF ProbeNext
  <2>5. ASSUME NEW e \in Endpoints, Status(e) PROVE Left(x)
    BY <2>5, ReadStateLeaves DEF Status
  <2>6. CASE Tick \/ Cancel \/ UNCHANGED vars
    BY <2>6, <2>1 DEF Tick, Cancel, vars, epVars
  <2> QED
    BY <2>2, <2>3, <2>4, <2>5, <2>6 DEF Next
<1>2. (\A e \in Endpoints : Left(e)) <=>
      (\A e \in Endpoints :
           state[e] = "open" /\ state'[e] # "open" =>
               \/ left[e] = 0 /\ state'[e] = "unhealthy"
               \/ \E h \in Handlers : pc[h] = "commit" /\ ep[h] = e /\ pc'[h] = "idle")
  BY DEF Left
<1> QED
  BY <1>1, <1>2, TypeCorrect, BreakerAgrees, PTL DEF Spec, LeavesOpen

-----------------------------------------------------------------------------
(* How far a tripped breaker can be overshot *)

Probing(e) == IF probe[e] = "dial" THEN 1 ELSE 0
Within(e) ==
    failures[e] + Cardinality(Committed(e)) + Probing(e) <= Threshold + Cardinality(Handlers)

\* Candidates are only held while Pick runs: the strengthening that makes the
\* bound inductive, for otherwise a handler could start with old candidates.
CandsClean == \A h \in Handlers : pc[h] # "pick" => cands[h] = {}

\* Sets of handlers are finite and no larger than Handlers.
LEMMA HandlerSets ==
    ASSUME NEW S \in SUBSET Handlers
    PROVE  /\ IsFiniteSet(S) /\ Cardinality(S) \in Nat
           /\ Cardinality(Handlers) \in Nat /\ Cardinality(S) <= Cardinality(Handlers)
BY HandlersAssumption, FS_Subset, FS_CardinalityType

\* Below the threshold the bound holds whoever is committed.
LEMMA LowIsWithin ==
    ASSUME TypeOK', NEW e \in Endpoints, (failures[e] < Threshold)'
    PROVE  Within(e)'
<1>1. Committed(e)' \in SUBSET Handlers
  BY DEF Committed
<1>2. /\ Cardinality(Committed(e)') \in Nat /\ Cardinality(Handlers) \in Nat
      /\ Cardinality(Committed(e)') <= Cardinality(Handlers)
  BY <1>1, HandlerSets
<1>3. failures'[e] \in Nat /\ failures'[e] + 1 <= Threshold
  BY ThresholdAssumption DEF TypeOK
<1>4. Probing(e)' \in {0, 1}
  BY DEF Probing
<1> QED
  BY <1>2, <1>3, <1>4, ThresholdAssumption DEF Within

\* A step that adds no failure and commits nobody to e keeps the bound.
LEMMA KeepsWithin ==
    ASSUME TypeOK, TypeOK', NEW e \in Endpoints, Within(e),
           failures'[e] <= failures[e],
           Committed(e)' \subseteq Committed(e),
           probe'[e] = "dial" => probe[e] = "dial"
    PROVE  Within(e)'
<1>1. Committed(e) \in SUBSET Handlers
  BY DEF Committed
<1>2. /\ IsFiniteSet(Committed(e)) /\ Cardinality(Committed(e)) \in Nat
      /\ Cardinality(Handlers) \in Nat
  BY <1>1, HandlerSets
<1>3. Cardinality(Committed(e)') \in Nat /\ Cardinality(Committed(e)') <= Cardinality(Committed(e))
  BY <1>2, FS_Subset, FS_CardinalityType
<1>4. failures'[e] \in Nat /\ failures[e] \in Nat
  BY DEF TypeOK
<1>5. Probing(e) \in {0, 1} /\ Probing(e)' \in {0, 1} /\ Probing(e)' <= Probing(e)
  BY DEF Probing
<1> QED
  BY <1>2, <1>3, <1>4, <1>5, ThresholdAssumption DEF Within

\* A failed dial trades the handler's commitment for the failure it counts.
LEMMA DialFailWithin ==
    ASSUME TypeOK, TypeOK', NEW h \in Handlers, DialFail(h), NEW e \in Endpoints, Within(e)
    PROVE  Within(e)'
<1>1. pc[h] = "dial" /\ pc' = [pc EXCEPT ![h] = pc'[h]] /\ pc'[h] \in {"backoff", "idle"}
  BY DEF DialFail, NextAttempt, Goto, TypeOK
<1>2. Committed(e)' \subseteq Committed(e) \ {h}
  BY <1>1 DEF Committed, DialFail, TypeOK
<1>3. CASE ep[h] # e
  <2>1. failures'[e] = failures[e] /\ probe' = probe
    BY <1>3 DEF DialFail, CountFailure, TypeOK, healthVars
  <2>2. failures'[e] <= failures[e]
    BY <2>1 DEF TypeOK
  <2> QED
    BY <1>2, <2>1, <2>2, KeepsWithin
<1>4. CASE ep[h] = e
  <2>1. failures'[e] = failures[e] + 1 /\ Probing(e)' = Probing(e)
    BY <1>4 DEF DialFail, CountFailure, TypeOK, healthVars, Probing
  <2>2. h \in Committed(e) /\ Committed(e) \in SUBSET Handlers
    BY <1>1, <1>4 DEF Committed
  <2>3. /\ IsFiniteSet(Committed(e)) /\ Cardinality(Committed(e)) \in Nat
        /\ Cardinality(Handlers) \in Nat
    BY <2>2, HandlerSets
  <2>4. IsFiniteSet(Committed(e) \ {h})
        /\ Cardinality(Committed(e) \ {h}) = Cardinality(Committed(e)) - 1
    BY <2>2, <2>3, FS_RemoveElement
  <2>5. Cardinality(Committed(e)') \in Nat
        /\ Cardinality(Committed(e)') <= Cardinality(Committed(e)) - 1
    BY <1>2, <2>4, FS_Subset, FS_CardinalityType
  <2>6. failures[e] \in Nat /\ Probing(e) \in {0, 1}
    BY DEF TypeOK, Probing
  <2> QED
    BY <2>1, <2>3, <2>5, <2>6, ThresholdAssumption DEF Within
<1> QED
  BY <1>3, <1>4

\* A dead probe trades itself for the failure it counts.
LEMMA ProbeDeadWithin ==
    ASSUME TypeOK, TypeOK', NEW p \in Endpoints, ProbeDead(p), NEW e \in Endpoints, Within(e)
    PROVE  Within(e)'
<1>1. Committed(e)' = Committed(e)
  BY DEF Committed, ProbeDead, handlerVars
<1>2. CASE p # e
  <2>1. failures'[e] = failures[e] /\ probe'[e] = probe[e]
    BY <1>2 DEF ProbeDead, CountFailure, TypeOK
  <2>2. failures'[e] <= failures[e]
    BY <2>1 DEF TypeOK
  <2> QED
    BY <1>1, <2>1, <2>2, KeepsWithin
<1>3. CASE p = e
  <2>1. failures'[e] = failures[e] + 1 /\ Probing(e) = 1 /\ Probing(e)' = 0
    BY <1>3 DEF ProbeDead, CountFailure, TypeOK, Probing
  <2>2. Cardinality(Committed(e)) \in Nat /\ Cardinality(Handlers) \in Nat
    <3>1. Committed(e) \in SUBSET Handlers
      BY DEF Committed
    <3> QED
      BY <3>1, HandlerSets
  <2>3. failures[e] \in Nat
    BY DEF TypeOK
  <2> QED
    BY <1>1, <2>1, <2>2, <2>3, ThresholdAssumption DEF Within
<1> QED
  BY <1>2, <1>3

\* Reading a state adds no failure; if the answer is not "open" the count is
\* below the threshold afterwards.
LEMMA ReadStateCounts ==
    ASSUME TypeOK, BreakerConsistent', NEW r \in Endpoints, ReadState(r)
    PROVE  /\ \A e \in Endpoints : failures'[e] <= failures[e]
           /\ Seen(r) # "open" => failures'[r] < Threshold
<1>1. \A e \in Endpoints : failures'[e] <= failures[e]
  BY DEF ReadState, ResetFailures, TypeOK
<1>2. ASSUME Seen(r) # "open" PROVE failures'[r] < Threshold
  <2>1. state'[r] \in {"healthy", "unhealthy"}
    BY <1>2 DEF ReadState, Seen, TypeOK, States
  <2> QED
    BY <2>1, ThresholdAssumption DEF BreakerConsistent
<1> QED
  BY <1>1, <1>2

\* Candidates are held by Pick only.
LEMMA CandsStep == TypeOK /\ CandsClean /\ [Next]_vars => CandsClean'
<1> SUFFICES ASSUME TypeOK, CandsClean, [Next]_vars PROVE CandsClean'
  OBVIOUS
<1>1. ASSUME UNCHANGED <<pc, cands>> PROVE CandsClean'
  BY <1>1 DEF CandsClean
<1>2. ASSUME NEW h \in Handlers, HandlerNext(h) PROVE CandsClean'
  <2>1. CASE Begin(h) \/ DialOk(h) \/ BackoffElapsed(h) \/ BackoffCancelled(h)
             \/ RelayEnd(h) \/ StoreEWMA(h) \/ RecordSuccess(h)
    BY <2>1 DEF Begin, DialOk, BackoffElapsed, BackoffCancelled, RelayEnd, StoreEWMA,
                RecordSuccess, Goto, CandsClean, TypeOK
  <2>2. CASE Scan(h)
    BY <2>2 DEF Scan, CandsClean, TypeOK
  <2>3. CASE Pick(h)
    BY <2>3 DEF Pick, Goto, CandsClean, TypeOK
  <2>4. CASE PickNone(h) \/ DialFail(h)
    BY <2>4 DEF PickNone, DialFail, NextAttempt, Goto, CandsClean, TypeOK
  <2> QED
    BY <1>2, <2>1, <2>2, <2>3, <2>4 DEF HandlerNext
<1>3. CASE HealthNext
  BY <1>3, <1>1 DEF HealthNext, CheckAll, CheckOne, CheckWait, CheckDone, HealthExit, handlerVars
<1>4. ASSUME NEW e \in Endpoints, ProbeNext(e) \/ Status(e) PROVE CandsClean'
  BY <1>4, <1>1 DEF ProbeNext, ProbeAlive, ProbeStoreEWMA, ProbeCommit, ProbeDead, Status,
                    handlerVars
<1>5. CASE Tick \/ Cancel \/ UNCHANGED vars
  BY <1>5, <1>1 DEF Tick, Cancel, vars, handlerVars
<1> QED
  BY <1>2, <1>3, <1>4, <1>5 DEF Next

\* Every step keeps the bound.
LEMMA WithinStep ==
    ASSUME TypeOK, TypeOK', BreakerConsistent', CandsClean, [Next]_vars,
           NEW e \in Endpoints, Within(e)
    PROVE  Within(e)'
<1>0. failures[e] \in Nat
  BY DEF TypeOK
<1>1. ASSUME failures'[e] = failures[e], Committed(e)' \subseteq Committed(e), probe' = probe
      PROVE  Within(e)'
  BY <1>0, <1>1, KeepsWithin
<1>2. ASSUME NEW h \in Handlers, HandlerNext(h) PROVE Within(e)'
  <2>1. CASE Begin(h)
    BY <2>1, <1>1 DEF Begin, Goto, Committed, CandsClean, TypeOK, epVars, healthVars
  <2>2. CASE Scan(h)
    <3>1. scan[h] \in Endpoints /\ pc' = pc /\ ep' = ep /\ probe' = probe
      BY <2>2, NAssumption DEF Scan, TypeOK, Endpoints, healthVars
    <3>2. /\ failures'[e] <= failures[e]
          /\ Seen(scan[h]) # "open" => failures'[scan[h]] < Threshold
      BY <2>2, <3>1, ReadStateCounts DEF Scan
    <3>3. CASE e = scan[h] /\ Seen(e) # "open"
      BY <3>2, <3>3, LowIsWithin
    <3>4. CASE ~(e = scan[h] /\ Seen(e) # "open")
      <4>1. Committed(e)' \subseteq Committed(e)
        BY <2>2, <3>1, <3>4 DEF Scan, Candidates, Committed, TypeOK
      <4> QED
        BY <3>1, <3>2, <4>1, KeepsWithin
    <3> QED
      BY <3>3, <3>4
  <2>3. CASE PickNone(h)
    BY <2>3, <1>1 DEF PickNone, NextAttempt, Goto, Committed, TypeOK, epVars, healthVars
  <2>4. CASE Pick(h)
    <3>1. ep'[h] \in cands[h] /\ pc[h] = "pick"
      BY <2>4 DEF Pick, Top, TypeOK
    <3>2. Committed(e)' \subseteq Committed(e)
      BY <2>4, <3>1 DEF Pick, Goto, Committed, TypeOK
    <3> QED
      BY <2>4, <3>2, <1>1 DEF Pick, epVars, healthVars
  <2>5. CASE DialFail(h)
    BY <2>5, DialFailWithin
  <2>6. CASE DialOk(h) \/ BackoffElapsed(h) \/ BackoffCancelled(h) \/ RelayEnd(h) \/ StoreEWMA(h)
    <3>1. Committed(e)' \subseteq Committed(e)
      BY <2>6 DEF DialOk, BackoffElapsed, BackoffCancelled, RelayEnd, StoreEWMA, Goto,
                  Committed, CandsClean, TypeOK
    <3> QED
      BY <2>6, <3>1, <1>1 DEF DialOk, BackoffElapsed, BackoffCancelled, RelayEnd, StoreEWMA,
                              epVars, healthVars
  <2>7. CASE RecordSuccess(h)
    <3>1. Committed(e)' \subseteq Committed(e)
      BY <2>7 DEF RecordSuccess, Goto, Committed, TypeOK
    <3>2. failures'[e] <= failures[e] /\ probe' = probe
      BY <2>7, <1>0 DEF RecordSuccess, TypeOK, healthVars
    <3> QED
      BY <3>1, <3>2, KeepsWithin
  <2> QED
    BY <1>2, <2>1, <2>2, <2>3, <2>4, <2>5, <2>6, <2>7 DEF HandlerNext
<1>3. CASE HealthNext
  <2>1. Committed(e)' = Committed(e)
    BY <1>3 DEF HealthNext, CheckAll, CheckOne, CheckWait, CheckDone, HealthExit, handlerVars,
                Committed
  <2>2. CASE CheckOne
    <3>1. hscan \in Endpoints
      BY <2>2, NAssumption DEF CheckOne, TypeOK, Endpoints
    <3>2. /\ failures'[e] <= failures[e]
          /\ Seen(hscan) # "open" => failures'[hscan] < Threshold
      BY <2>2, <3>1, ReadStateCounts DEF CheckOne
    <3>3. CASE e = hscan /\ Seen(e) # "open"
      BY <3>2, <3>3, LowIsWithin
    <3>4. CASE ~(e = hscan /\ Seen(e) # "open")
      <4>1. probe'[e] = "dial" => probe[e] = "dial"
        BY <2>2, <3>1, <3>4 DEF CheckOne, TypeOK
      <4> QED
        BY <2>1, <3>2, <4>1, KeepsWithin
    <3> QED
      BY <3>3, <3>4
  <2>3. CASE CheckAll \/ CheckWait \/ CheckDone \/ HealthExit
    BY <2>1, <2>3, <1>1 DEF CheckAll, CheckWait, CheckDone, HealthExit, epVars
  <2> QED
    BY <1>3, <2>2, <2>3 DEF HealthNext
<1>4. ASSUME NEW p \in Endpoints, ProbeNext(p) PROVE Within(e)'
  <2>1. CASE ProbeDead(p)
    BY <2>1, ProbeDeadWithin
  <2>2. CASE ProbeAlive(p) \/ ProbeStoreEWMA(p) \/ ProbeCommit(p)
    <3>1. Committed(e)' = Committed(e)
      BY <2>2 DEF ProbeAlive, ProbeStoreEWMA, ProbeCommit, handlerVars, Committed
    <3>2. failures'[e] <= failures[e]
      BY <2>2, <1>0 DEF ProbeAlive, ProbeStoreEWMA, ProbeCommit, epVars, TypeOK
    <3>3. probe'[e] = "dial" => probe[e] = "dial"
      BY <2>2 DEF ProbeAlive, ProbeStoreEWMA, ProbeCommit, TypeOK
    <3> QED
      BY <3>1, <3>2, <3>3, KeepsWithin
  <2> QED
    BY <1>4, <2>1, <2>2 DEF ProbeNext
<1>5. ASSUME NEW r \in Endpoints, Status(r) PROVE Within(e)'
  <2>1. failures'[e] <= failures[e]
    BY <1>5, ReadStateCounts DEF Status
  <2>2. Committed(e)' = Committed(e) /\ probe' = probe
    BY <1>5 DEF Status, handlerVars, healthVars, Committed
  <2> QED
    BY <2>1, <2>2, KeepsWithin
<1>6. CASE Tick \/ Cancel \/ UNCHANGED vars
  <2>1. UNCHANGED <<failures, probe>> /\ Committed(e)' = Committed(e)
    BY <1>6 DEF Tick, Cancel, vars, epVars, handlerVars, healthVars, Committed
  <2> QED
    BY <2>1, <1>1
<1> QED
  BY <1>2, <1>3, <1>4, <1>5, <1>6 DEF Next

\* An open endpoint is charged with at most as many failures past the trip as
\* there were dials and probes already committed to it: at most one for each
\* handler and one for the health loop.
THEOREM OvershootIsBounded == Spec => []OvershootBounded
<1> DEFINE Bound == \A e \in Endpoints : Within(e)
<1>1. Init => CandsClean
  BY DEF Init, CandsClean
<1>2. Init => Bound
  <2> SUFFICES ASSUME Init, NEW e \in Endpoints PROVE Within(e)
    OBVIOUS
  <2>1. Committed(e) = {} /\ failures[e] = 0 /\ Probing(e) = 0
    BY DEF Init, Committed, Probing
  <2>2. Cardinality(Committed(e)) = 0 /\ Cardinality(Handlers) \in Nat
    BY <2>1, FS_EmptySet, FS_CardinalityType, HandlersAssumption
  <2> QED
    BY <2>1, <2>2, ThresholdAssumption DEF Within
<1>3. TypeOK /\ TypeOK' /\ BreakerConsistent' /\ CandsClean /\ Bound /\ [Next]_vars => Bound'
  BY WithinStep DEF Endpoints
<1>4. Bound => OvershootBounded
  BY DEF Within, Probing, OvershootBounded
<1> HIDE DEF Bound
<1> QED
  BY <1>1, <1>2, <1>3, <1>4, CandsStep, TypeCorrect, BreakerAgrees, PTL DEF Spec
=============================================================================
