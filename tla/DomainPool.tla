----------------------------- MODULE DomainPool -----------------------------
(***************************************************************************)
(* The pool of fake-SNI domains (internal/domain/pool.go): the probing     *)
(* loop with one goroutine per entry that is due, the exponential backoff  *)
(* of domains that do not answer, and the election of the best domain      *)
(* after a round.                                                          *)
(*                                                                         *)
(* Handlers read best at any time.  Nothing calls Add or Remove, so the    *)
(* entries are those of NewPool, one for every position of domain_pool: a  *)
(* domain that is listed twice has two entries, each with its own backoff. *)
(* The order of p.entries matters only for the first alive one, so the     *)
(* unstable sort is a choice among the entries that nothing precedes.      *)
(* Time is the ticks left until nextProbeAt, one tick for ten seconds; how *)
(* many ticks lie between two rounds is left open.                         *)
(***************************************************************************)
EXTENDS Integers, Sequences

CONSTANTS Pool,      \* domain_pool of the configuration, a sequence of names
          NoDomain,  \* the empty string
          Lats,      \* latencies a successful probe may measure
          Cap        \* longest backoff in ticks (600 s, that is 60)

Entries == DOMAIN Pool
Domains == {Pool[e] : e \in Entries}

ASSUME PoolAssumption == Pool \in Seq(Domains) /\ NoDomain \notin Domains
ASSUME LatsAssumption == Lats \subseteq Nat \ {0}
ASSUME CapAssumption == Cap \in Nat \ {0}

VARIABLES best,      \* p.best
          entry,     \* the fields of each Entry; left: ticks until nextProbeAt
          loop,      \* where the probing goroutine is
          probing,   \* entries with a probe under way
          periodic,  \* probeInterval > 0
          cancelled, \* ctx is done
          up         \* domains that answer at the moment

vars == <<best, entry, loop, probing, periodic, cancelled, up>>

\* The streak after which the delay does not grow any more.
Saturated == CHOOSE k \in 1..(Cap + 1) : 2^(k - 1) >= Cap /\ (k = 1 \/ 2^(k - 2) < Cap)

Alive == {e \in Entries : entry[e].alive}

-----------------------------------------------------------------------------
(* Entry *)

\* An entry nobody has probed.
Fresh == [alive |-> TRUE, latency |-> 0, failStreak |-> 0, left |-> 0]

\* Faulty variant: a domain that has failed is never due again.
DueIfHealthy(e) == entry[e].failStreak = 0

\* dueForProbe
Due(e) == entry[e].left = 0

\* 10 s * 2^(failStreak-1), at most 600 s.
Delay(k) == IF 2^(k - 1) > Cap THEN Cap ELSE 2^(k - 1)

\* recordResult of a probe that failed, with up to 10 s of jitter.
Dead(x, jitter) ==
    LET k == IF x.failStreak < Saturated THEN x.failStreak + 1 ELSE Saturated
    IN  [alive |-> FALSE, latency |-> 0, failStreak |-> k, left |-> Delay(k) + jitter]

-----------------------------------------------------------------------------
(* probeAll *)

\* The copy of p.entries and a goroutine for every entry that is due: at the
\* start, and whenever the ticker fires.
RoundStart ==
    /\ loop \in {"start", "wait"}
    /\ loop' = "round"
    /\ probing' = {e \in Entries : Due(e)}
    /\ UNCHANGED <<best, entry, periodic, cancelled, up>>

\* probe and recordResult; no answer within the timeout is a failure.
ProbeOk(e) ==
    /\ e \in probing /\ Pool[e] \in up
    /\ \E l \in Lats : entry' = [entry EXCEPT ![e] = [Fresh EXCEPT !.latency = l]]
    /\ probing' = probing \ {e}
    /\ UNCHANGED <<best, loop, periodic, cancelled, up>>
ProbeFail(e) ==
    /\ e \in probing /\ Pool[e] \notin up
    /\ \E jitter \in {0, 1} : entry' = [entry EXCEPT ![e] = Dead(@, jitter)]
    /\ probing' = probing \ {e}
    /\ UNCHANGED <<best, loop, periodic, cancelled, up>>

\* The less function of the sort.
Before(a, b) ==
    \/ entry[a].alive /\ ~entry[b].alive
    \/ /\ entry[a].alive = entry[b].alive
       /\ entry[a].latency # 0
       /\ entry[b].latency = 0 \/ entry[a].latency < entry[b].latency

\* The first alive entry after the sort.
Winners == {e \in Alive : \A f \in Entries : ~Before(f, e)}

\* Faulty variant: a pool that has a best domain keeps it.
ElectedOnce ==
    \/ best = NoDomain /\ \E e \in Winners : best' = Pool[e]
    \/ (best # NoDomain \/ Winners = {}) /\ UNCHANGED best

Elected ==
    \/ \E e \in Winners : best' = Pool[e]
    \/ Winners = {} /\ UNCHANGED best

\* After probeAll the loop waits for the ticker, or ends without one.
Ended ==
    /\ loop' = IF periodic THEN "wait" ELSE "off"
    /\ UNCHANGED <<entry, probing, periodic, cancelled, up>>

\* Faulty variant: the election does not wait for the probes.
ElectEarly == loop = "round" /\ Elected /\ Ended

\* wg.Wait(), the sort and the choice of best under p.mu.
Elect == loop = "round" /\ probing = {} /\ Elected /\ Ended

LoopExit ==
    /\ loop = "wait" /\ cancelled
    /\ loop' = "off"
    /\ UNCHANGED <<best, entry, probing, periodic, cancelled, up>>

-----------------------------------------------------------------------------
(* The caller and the world *)

Cancel ==
    /\ ~cancelled
    /\ cancelled' = TRUE
    /\ UNCHANGED <<best, entry, loop, probing, periodic, up>>

\* A domain stops or starts to answer.
Flip(d) ==
    /\ up' = IF d \in up THEN up \ {d} ELSE up \cup {d}
    /\ UNCHANGED <<best, entry, loop, probing, periodic, cancelled>>

Tick ==
    /\ \E e \in Entries : entry[e].left > 0
    /\ entry' = [e \in Entries |-> [entry[e] EXCEPT !.left = IF @ > 0 THEN @ - 1 ELSE 0]]
    /\ UNCHANGED <<best, loop, probing, periodic, cancelled, up>>

\* NewPool takes the first domain of the configuration for the best one.
Init ==
    /\ best = IF Pool = <<>> THEN NoDomain ELSE Pool[1]
    /\ entry = [e \in Entries |-> Fresh]
    /\ loop = "start" /\ probing = {}
    /\ periodic \in BOOLEAN
    /\ cancelled = FALSE /\ up \in SUBSET Domains

Next ==
    \/ RoundStart
    \/ Elect
    \/ LoopExit
    \/ \E e \in Entries : ProbeOk(e) \/ ProbeFail(e)
    \/ \E d \in Domains : Flip(d)
    \/ Cancel
    \/ Tick

Spec == Init /\ [][Next]_vars

\* The loop and its probes run, probes end within their timeout, time passes.
\* Domains come and go as they like.
Fairness ==
    /\ WF_vars(RoundStart) /\ WF_vars(Elect) /\ WF_vars(Tick)
    /\ \A e \in Entries : WF_vars(ProbeOk(e) \/ ProbeFail(e))

FairSpec == Spec /\ Fairness

-----------------------------------------------------------------------------
(* Properties *)

\* From the first election on, and between two rounds, best names the fastest
\* domain that answered, for all the handlers that ask: no probe of the last
\* round is still to report, and no entry is alive without a measurement.
BestIsFastest ==
    loop \in {"wait", "off"} /\ Alive # {} =>
        \E e \in Alive :
            /\ best = Pool[e]
            /\ \A f \in Alive : entry[e].latency \in 1..entry[f].latency

\* A domain that answers again for good is found out by each of its entries,
\* however long its backoff had grown: the delay is capped and the rounds go on.
Recovers ==
    \A e \in Entries :
        <>[](Pool[e] \in up /\ periodic /\ ~cancelled) => <>[](entry[e].alive)

\* Handlers do not go on for ever with a domain that has stopped answering:
\* once another one answers, a round gives best away for good.
FailsOver ==
    \A d, other \in Domains :
        <>[](d \notin up /\ other \in up /\ periodic /\ ~cancelled) => <>[](best # d)
=============================================================================
