------------------------------- MODULE Router -------------------------------
(***************************************************************************)
(* The endpoint router (internal/routing/router.go) together with the two  *)
(* kinds of goroutine that drive it: connection handlers, which pick an    *)
(* endpoint, dial it and report the outcome (proxy/handler.go,             *)
(* dialWithRetry and the end of Handle), and the health loop, which probes *)
(* every endpoint that is not circuit-open.                                *)
(*                                                                         *)
(* Each Endpoint has its own mutex.  A step below is one critical section, *)
(* one atomic load or one atomic store, so everything the code lets        *)
(* interleave interleaves here: Pick's scan takes the mutexes one endpoint *)
(* at a time, and updateEWMA loads and stores without a lock.              *)
(*                                                                         *)
(* Time is relative: left[e] is openUntil - now, in ticks, plus one, and 0 *)
(* once time.Now().After(openUntil) holds.  The counters totalConns and    *)
(* failedConns are only read by Stats, which nothing calls, and are left   *)
(* out.                                                                    *)
(***************************************************************************)
EXTENDS Integers, FiniteSets

CONSTANTS N,            \* number of endpoints in the configuration
          Handlers,     \* connection handlers that may run at once
          Threshold,    \* circuit_breaker_threshold
          Cooldown,     \* circuit_breaker_cooldown, in ticks
          MaxAttempts,  \* retry_limit + 1
          Samples,      \* the durations that can be measured
          Lo, Hi        \* bounds of Samples

ASSUME NAssumption == N \in Nat \ {0}
ASSUME HandlersAssumption == IsFiniteSet(Handlers)
\* config.Validate replaces a threshold below one by 5 (internal/config/config.go).
ASSUME ThresholdAssumption == Threshold \in Nat \ {0}
ASSUME CooldownAssumption == Cooldown \in Nat
ASSUME AttemptsAssumption == MaxAttempts \in Nat \ {0}
\* A measured duration is positive: 0 is the code's mark for "not measured".
ASSUME SamplesAssumption == /\ Lo \in Nat \ {0} /\ Hi \in Nat /\ Lo <= Hi
                            /\ Samples \subseteq Lo..Hi

Endpoints == 1..N

VARIABLES state,     \* Endpoint.state
          failures,  \* Endpoint.failures
          left,      \* Endpoint.openUntil, as ticks left
          ewma,      \* Endpoint.ewmaLatencyNs
          pc,        \* where each handler is
          attempt,   \* dialWithRetry's loop variable
          scan,      \* the endpoint Pick examines next
          cands,     \* Pick's candidates
          ep,        \* the endpoint a handler dials or is connected to
          prev,      \* updateEWMA's prev in a handler
          hpc,       \* where the health loop is
          hscan,     \* the endpoint checkAll examines next
          probe,     \* the probe goroutine of each endpoint
          pprev,     \* updateEWMA's prev in a probe goroutine
          cancelled  \* the context given to handlers and health loop is done

epVars == <<state, failures, left>>
handlerVars == <<pc, attempt, scan, cands, ep, prev>>
healthVars == <<hpc, hscan, probe, pprev>>
vars == <<epVars, ewma, handlerVars, healthVars, cancelled>>

States == {"healthy", "unhealthy", "open"}

TypeOK ==
    /\ state \in [Endpoints -> States]
    /\ failures \in [Endpoints -> Nat]
    /\ left \in [Endpoints -> 0..(Cooldown + 1)]
    /\ ewma \in [Endpoints -> Nat]
    /\ pc \in [Handlers -> {"idle", "pick", "dial", "backoff", "relay", "ewma", "commit"}]
    /\ attempt \in [Handlers -> 0..(MaxAttempts - 1)]
    /\ scan \in [Handlers -> 1..(N + 1)]
    /\ cands \in [Handlers -> SUBSET Endpoints]
    /\ ep \in [Handlers -> Endpoints]
    /\ prev \in [Handlers -> Nat]
    /\ hpc \in {"idle", "scan", "wait", "off"}
    /\ hscan \in 1..(N + 1)
    /\ probe \in [Endpoints -> {"none", "dial", "ewma", "commit"}]
    /\ pprev \in [Endpoints -> Nat]
    /\ cancelled \in BOOLEAN

-----------------------------------------------------------------------------
(* Endpoint *)

\* e.state == StateOpen && time.Now().After(e.openUntil)
Cooled(e) == state[e] = "open" /\ left[e] = 0

\* What State() returns.
Seen(e) == IF Cooled(e) THEN "unhealthy" ELSE state[e]

\* Faulty variant: the count survives the half-close.
NoReset(e) == failures' = failures

\* State(): reading an endpoint whose cooldown is over half-closes it.
ResetFailures(e) == failures' = [failures EXCEPT ![e] = IF Cooled(e) THEN 0 ELSE @]
ReadState(e) ==
    /\ state' = [state EXCEPT ![e] = Seen(e)]
    /\ ResetFailures(e)
    /\ left' = left

\* RecordFailure, and the same code inlined in checkAll for a dead probe.
CountFailure(e) ==
    LET f == failures[e] + 1 IN
    /\ failures' = [failures EXCEPT ![e] = f]
    /\ state' = [state EXCEPT ![e] = IF f >= Threshold THEN "open" ELSE "unhealthy"]
    /\ left' = [left EXCEPT ![e] = IF f >= Threshold THEN Cooldown + 1 ELSE @]

\* Faulty variant: the old average is dropped.
LostPrev(p, s) == IF p = 0 THEN s ELSE s \div 8

\* updateEWMA's new value, alpha = 8; 0 stands for "never measured".
Ewma(p, s) == IF p = 0 THEN s ELSE (p * 7 + s) \div 8

\* The order of Pick's sort: measured endpoints first, the fastest first.
Faster(d, c) == ewma[d] # 0 /\ (ewma[c] = 0 \/ ewma[d] < ewma[c])

\* candidates[rand.Intn(top)], top = min(3, len): the sort is unstable, so
\* the order of equals is arbitrary.
Top(C) == {c \in C : Cardinality({d \in C : Faster(d, c)}) < 3}

-----------------------------------------------------------------------------
(* Connection handlers *)

Goto(h, l) == pc' = [pc EXCEPT ![h] = l]

\* A local variable that is out of scope has the value it has in Init.

\* Handle calls dialWithRetry, whose first attempt calls Pick.
Begin(h) ==
    /\ pc[h] = "idle"
    /\ Goto(h, "pick")
    /\ UNCHANGED <<epVars, ewma, attempt, scan, cands, ep, prev, healthVars, cancelled>>

\* Faulty variant: Pick does not look at the state.
TakeAny(h) == cands[h] \cup {scan[h]}

\* One iteration of Pick's candidate loop.
Candidates(h) == IF Seen(scan[h]) # "open" THEN cands[h] \cup {scan[h]} ELSE cands[h]
Scan(h) ==
    /\ pc[h] = "pick" /\ scan[h] <= N
    /\ ReadState(scan[h])
    /\ cands' = [cands EXCEPT ![h] = Candidates(h)]
    /\ scan' = [scan EXCEPT ![h] = @ + 1]
    /\ UNCHANGED <<ewma, pc, attempt, ep, prev, healthVars, cancelled>>

\* Faulty variant: the attempt is not counted.
Stuck(h) == Goto(h, "backoff") /\ attempt' = attempt

\* `continue` in dialWithRetry: the next attempt, or out of attempts.
NextAttempt(h) ==
    \/ /\ attempt[h] + 1 < MaxAttempts
       /\ Goto(h, "backoff")
       /\ attempt' = [attempt EXCEPT ![h] = @ + 1]
    \/ /\ attempt[h] + 1 >= MaxAttempts
       /\ Goto(h, "idle")
       /\ attempt' = [attempt EXCEPT ![h] = 0]

\* Pick returns "all endpoints circuit-open".
PickNone(h) ==
    /\ pc[h] = "pick" /\ scan[h] = N + 1 /\ cands[h] = {}
    /\ NextAttempt(h)
    /\ scan' = [scan EXCEPT ![h] = 1]
    /\ UNCHANGED <<epVars, ewma, cands, ep, prev, healthVars, cancelled>>

\* Pick returns one of the fastest candidates, which is dialled whatever has
\* happened to its state since the scan looked at it.
Pick(h) ==
    /\ pc[h] = "pick" /\ scan[h] = N + 1
    /\ \E e \in Top(cands[h]) : ep' = [ep EXCEPT ![h] = e]
    /\ cands' = [cands EXCEPT ![h] = {}]
    /\ scan' = [scan EXCEPT ![h] = 1]
    /\ Goto(h, "dial")
    /\ UNCHANGED <<epVars, ewma, attempt, prev, healthVars, cancelled>>

\* DialContext under a cancelled context does not succeed.
DialOk(h) ==
    /\ pc[h] = "dial" /\ ~cancelled
    /\ Goto(h, "relay")
    /\ attempt' = [attempt EXCEPT ![h] = 0]
    /\ UNCHANGED <<epVars, ewma, scan, cands, ep, prev, healthVars, cancelled>>

\* Refused, timed out, or cancelled by a shutdown: all three are failures of
\* the endpoint.
DialFail(h) ==
    /\ pc[h] = "dial"
    /\ CountFailure(ep[h])
    /\ NextAttempt(h)
    /\ ep' = [ep EXCEPT ![h] = 1]
    /\ UNCHANGED <<ewma, scan, cands, prev, healthVars, cancelled>>

\* The select on ctx.Done() and time.After(delay) between attempts.
BackoffElapsed(h) ==
    /\ pc[h] = "backoff"
    /\ Goto(h, "pick")
    /\ UNCHANGED <<epVars, ewma, attempt, scan, cands, ep, prev, healthVars, cancelled>>
BackoffCancelled(h) ==
    /\ pc[h] = "backoff" /\ cancelled
    /\ Goto(h, "idle")
    /\ attempt' = [attempt EXCEPT ![h] = 0]
    /\ UNCHANGED <<epVars, ewma, scan, cands, ep, prev, healthVars, cancelled>>

\* The connection is over; RecordSuccess(dur) starts with updateEWMA's load.
RelayEnd(h) ==
    /\ pc[h] = "relay"
    /\ prev' = [prev EXCEPT ![h] = ewma[ep[h]]]
    /\ Goto(h, "ewma")
    /\ UNCHANGED <<epVars, ewma, attempt, scan, cands, ep, healthVars, cancelled>>

StoreEWMA(h) ==
    /\ pc[h] = "ewma"
    /\ \E s \in Samples : ewma' = [ewma EXCEPT ![ep[h]] = Ewma(prev[h], s)]
    /\ prev' = [prev EXCEPT ![h] = 0]
    /\ Goto(h, "commit")
    /\ UNCHANGED <<epVars, attempt, scan, cands, ep, healthVars, cancelled>>

\* RecordSuccess's critical section: healthy, even if the breaker is open.
RecordSuccess(h) ==
    /\ pc[h] = "commit"
    /\ state' = [state EXCEPT ![ep[h]] = "healthy"]
    /\ failures' = [failures EXCEPT ![ep[h]] = 0]
    /\ ep' = [ep EXCEPT ![h] = 1]
    /\ Goto(h, "idle")
    /\ UNCHANGED <<left, ewma, attempt, scan, cands, prev, healthVars, cancelled>>

HandlerNext(h) ==
    \/ Begin(h)
    \/ Scan(h)
    \/ PickNone(h)
    \/ Pick(h)
    \/ DialOk(h)
    \/ DialFail(h)
    \/ BackoffElapsed(h)
    \/ BackoffCancelled(h)
    \/ RelayEnd(h)
    \/ StoreEWMA(h)
    \/ RecordSuccess(h)

-----------------------------------------------------------------------------
(* Health loop *)

\* The first call of healthLoop, and every tick of its ticker: when ctx is
\* done as well the select may still choose the ticker.
CheckAll ==
    /\ hpc = "idle"
    /\ hpc' = "scan"
    /\ UNCHANGED <<epVars, ewma, handlerVars, hscan, probe, pprev, cancelled>>

\* Faulty variant: e.state is read instead of State().
CheckOneRaw ==
    /\ hpc = "scan" /\ hscan <= N
    /\ probe' = [probe EXCEPT ![hscan] = IF state[hscan] = "open" THEN "none" ELSE "dial"]
    /\ hscan' = hscan + 1
    /\ UNCHANGED <<epVars, ewma, handlerVars, hpc, pprev, cancelled>>

\* checkAll's loop: an open endpoint is skipped, any other gets a goroutine.
CheckOne ==
    /\ hpc = "scan" /\ hscan <= N
    /\ ReadState(hscan)
    /\ probe' = [probe EXCEPT ![hscan] = IF Seen(hscan) = "open" THEN "none" ELSE "dial"]
    /\ hscan' = hscan + 1
    /\ UNCHANGED <<ewma, handlerVars, hpc, pprev, cancelled>>

CheckWait ==
    /\ hpc = "scan" /\ hscan = N + 1
    /\ hpc' = "wait"
    /\ hscan' = 1
    /\ UNCHANGED <<epVars, ewma, handlerVars, probe, pprev, cancelled>>

\* wg.Wait()
CheckDone ==
    /\ hpc = "wait"
    /\ \A e \in Endpoints : probe[e] = "none"
    /\ hpc' = "idle"
    /\ UNCHANGED <<epVars, ewma, handlerVars, hscan, probe, pprev, cancelled>>

HealthExit ==
    /\ hpc = "idle" /\ cancelled
    /\ hpc' = "off"
    /\ UNCHANGED <<epVars, ewma, handlerVars, hscan, probe, pprev, cancelled>>

\* probe() connected: updateEWMA's load.
ProbeAlive(e) ==
    /\ probe[e] = "dial"
    /\ probe' = [probe EXCEPT ![e] = "ewma"]
    /\ pprev' = [pprev EXCEPT ![e] = ewma[e]]
    /\ UNCHANGED <<epVars, ewma, handlerVars, hpc, hscan, cancelled>>

ProbeStoreEWMA(e) ==
    /\ probe[e] = "ewma"
    /\ \E s \in Samples : ewma' = [ewma EXCEPT ![e] = Ewma(pprev[e], s)]
    /\ probe' = [probe EXCEPT ![e] = "commit"]
    /\ pprev' = [pprev EXCEPT ![e] = 0]
    /\ UNCHANGED <<epVars, handlerVars, hpc, hscan, cancelled>>

\* Faulty variant: an alive probe closes an open breaker.
AliveHeals(e) == TRUE

\* An alive probe heals an unhealthy endpoint and leaves an open one alone.
Heals(e) == state[e] = "unhealthy"
ProbeCommit(e) ==
    /\ probe[e] = "commit"
    /\ state' = [state EXCEPT ![e] = IF Heals(e) THEN "healthy" ELSE @]
    /\ failures' = [failures EXCEPT ![e] = IF Heals(e) THEN 0 ELSE @]
    /\ probe' = [probe EXCEPT ![e] = "none"]
    /\ UNCHANGED <<left, ewma, handlerVars, hpc, hscan, pprev, cancelled>>

ProbeDead(e) ==
    /\ probe[e] = "dial"
    /\ CountFailure(e)
    /\ probe' = [probe EXCEPT ![e] = "none"]
    /\ UNCHANGED <<ewma, handlerVars, hpc, hscan, pprev, cancelled>>

ProbeNext(e) == ProbeAlive(e) \/ ProbeStoreEWMA(e) \/ ProbeCommit(e) \/ ProbeDead(e)
HealthNext == CheckAll \/ CheckOne \/ CheckWait \/ CheckDone \/ HealthExit

-----------------------------------------------------------------------------
(* Environment *)

\* Status(), called by the stats loop, reads every state through State().
Status(e) ==
    /\ ReadState(e)
    /\ UNCHANGED <<ewma, handlerVars, healthVars, cancelled>>

Tick ==
    /\ left' = [e \in Endpoints |-> IF left[e] > 0 THEN left[e] - 1 ELSE 0]
    /\ UNCHANGED <<state, failures, ewma, handlerVars, healthVars, cancelled>>

\* SIGINT or SIGTERM.
Cancel ==
    /\ ~cancelled
    /\ cancelled' = TRUE
    /\ UNCHANGED <<epVars, ewma, handlerVars, healthVars>>

Init ==
    /\ state = [e \in Endpoints |-> "healthy"]
    /\ failures = [e \in Endpoints |-> 0]
    /\ left = [e \in Endpoints |-> 0]
    /\ ewma = [e \in Endpoints |-> 0]
    /\ pc = [h \in Handlers |-> "idle"]
    /\ attempt = [h \in Handlers |-> 0]
    /\ scan = [h \in Handlers |-> 1]
    /\ cands = [h \in Handlers |-> {}]
    /\ ep = [h \in Handlers |-> 1]
    /\ prev = [h \in Handlers |-> 0]
    /\ hpc = "idle"
    /\ hscan = 1
    /\ probe = [e \in Endpoints |-> "none"]
    /\ pprev = [e \in Endpoints |-> 0]
    /\ cancelled = FALSE

Next ==
    \/ \E h \in Handlers : HandlerNext(h)
    \/ HealthNext
    \/ \E e \in Endpoints : ProbeNext(e)
    \/ \E e \in Endpoints : Status(e)
    \/ Tick
    \/ Cancel

Spec == Init /\ [][Next]_vars

\* Goroutines keep running, time passes, a probe ends within its 3 s timeout
\* and a dial within connect_timeout.  A relay may last for ever, and nobody
\* has to open a new connection.
HandlerProgress(h) == HandlerNext(h) /\ pc[h] \notin {"idle", "relay"}
Fairness ==
    /\ WF_vars(Tick)
    /\ WF_vars(HealthNext)
    /\ \A e \in Endpoints : WF_vars(ProbeNext(e))
    /\ \A h \in Handlers : WF_vars(HandlerProgress(h))

FairSpec == Spec /\ Fairness

-----------------------------------------------------------------------------
(* Properties *)

\* A breaker's state and its failure count agree whatever interleaving of
\* handlers, probes and readers produced them: healthy endpoints have no
\* failure on record, unhealthy ones fewer than the threshold and open ones at
\* least as many (RecordFailure, RecordSuccess, State and checkAll each update
\* both fields).
BreakerConsistent ==
    \A e \in Endpoints :
        /\ state[e] = "healthy" => failures[e] = 0
        /\ state[e] = "unhealthy" => failures[e] < Threshold
        /\ state[e] = "open" => failures[e] >= Threshold

\* The handlers that still may dial e on the strength of an older look at it.
Committed(e) ==
    {h \in Handlers : (pc[h] = "pick" /\ e \in cands[h]) \/ (pc[h] = "dial" /\ ep[h] = e)}

\* An endpoint whose breaker has tripped is not hammered: besides the failures
\* up to the trip it can only be charged with the dials and the probe that had
\* chosen it before.  (Pick and checkAll skip open endpoints, but each looks at
\* the state long before it reports a result.)
OvershootBounded ==
    \A e \in Endpoints :
        failures[e] + Cardinality(Committed(e)) + (IF probe[e] = "dial" THEN 1 ELSE 0)
            <= Threshold + Cardinality(Handlers)

\* Every average that is stored lies between the smallest and the largest
\* duration measured, although updateEWMA's load and store are not one atomic
\* step: a lost update replaces one average by another, and never by 0, which
\* would make Pick rank a measured endpoint as "not measured".
EwmaBounded ==
    [][\A e \in Endpoints : ewma'[e] # ewma[e] => Lo <= ewma'[e] /\ ewma'[e] <= Hi]_vars

\* An open breaker is left in two ways only: its cooldown is over, or a
\* connection to the endpoint made before the trip ends and RecordSuccess
\* closes it early.  A health probe that was under way never does.
LeavesOpen ==
    [][\A e \in Endpoints :
           state[e] = "open" /\ state'[e] # "open" =>
               \/ left[e] = 0 /\ state'[e] = "unhealthy"
               \/ \E h \in Handlers : pc[h] = "commit" /\ ep[h] = e /\ pc'[h] = "idle"]_vars

\* "Temporary" open-circuit: while the process runs, an open endpoint is
\* looked at again after its cooldown, by the health loop if by nobody else,
\* and late failures cannot extend the cooldown for ever.
OpenIsTemporary ==
    \A e \in Endpoints : state[e] = "open" ~> (state[e] # "open" \/ cancelled)

\* Bounded retries: dialWithRetry returns, with a connection or an error, even
\* when every endpoint is circuit-open.
DialReturns == \A h \in Handlers : pc[h] = "pick" ~> pc[h] \in {"idle", "relay"}
=============================================================================
