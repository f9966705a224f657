------------------------------ MODULE Adaptive ------------------------------
(***************************************************************************)
(* The adaptive bypass engine (internal/bypass/adaptive.go): the LRU cache *)
(* of the strategy that worked last for a destination, shared by all       *)
(* handlers, Inject with its single fallback, the per-strategy counters of *)
(* the recorder, which are created on first use, and the readers that take *)
(* a Snapshot of the counters (internal/metrics/collector.go).             *)
(*                                                                         *)
(* One run of a strategy (wrongseq.go, fragment.go, desync.go) is one step *)
(* that succeeds or fails; an expired injection context is one more reason *)
(* to fail, since nothing else reads it.                                   *)
(* get and set are critical sections of the cache's mutex; between them    *)
(* other handlers run, and time passes.  RecordBypassStrategy is split at  *)
(* its two locks, and a Snapshot loads one counter after the other.        *)
(***************************************************************************)
EXTENDS Integers, Sequences, FiniteSets, SequencesExt

CONSTANTS Keys,     \* destinations "ip:port"
          Callers,  \* handlers that may inject at once
          Cap,      \* capacity of the cache (4096 in the code)
          Ttl,      \* time to live of an entry, in ticks (10 minutes)
          MaxRuns   \* bound: calls of Inject

ASSUME CapAssumption == Cap \in Nat \ {0}
ASSUME SetsAssumption == Keys # {} /\ IsFiniteSet(Callers)
ASSUME TtlAssumption == Ttl \in Nat /\ MaxRuns \in Nat

WrongSeq == 0
Fragment == 1
DesyncBadCS == 2
DesyncTTL == 3
Strategies == WrongSeq..DesyncTTL

VARIABLES order,     \* lruCache.order: keys, most recently used first
          items,     \* keys of lruCache.items
          strat,     \* the entry's strategy
          left,      \* the entry's expiresAt: ticks left, 0 = expired
          pc, key, strategy,  \* Inject's position, key and strategy per caller
          second,    \* the strategy under way is the fallback
          ok,        \* the strategy has succeeded: the outcome to be recorded
          runs,      \* calls of Inject so far
          known,     \* keys of Collector.strategies
          recOK, recFail,     \* the counters of each strategy
          bypassOK, bypassFail,  \* what the handlers count
          snap,      \* the reader: where it is, and what it has loaded
          fellBack,    \* history: injections that succeeded by falling back
          worked,      \* history: strategies that have succeeded for a key
          tried        \* history: strategies that have been run for a key

cacheVars == <<order, items, strat, left>>
callVars == <<pc, key, strategy, second, ok, runs>>
recVars == <<known, recOK, recFail>>
statVars == <<recVars, bypassOK, bypassFail>>
histVars == <<fellBack, worked, tried>>
vars == <<cacheVars, callVars, statVars, snap, histVars>>

TypeOK ==
    /\ order \in Seq(Keys) /\ items \subseteq Keys
    /\ strat \in [Keys -> Strategies] /\ left \in [Keys -> 0..(Ttl + 1)]
    /\ pc \in [Callers -> {"idle", "run", "set", "lookup", "create", "add", "count"}]
    /\ key \in [Callers -> Keys] /\ strategy \in [Callers -> Strategies]
    /\ second \in [Callers -> BOOLEAN] /\ ok \in [Callers -> BOOLEAN]
    /\ runs \in 0..MaxRuns
    /\ known \subseteq Strategies
    /\ recOK \in [Strategies -> Nat] /\ recFail \in [Strategies -> Nat]
    /\ bypassOK \in Nat /\ bypassFail \in Nat /\ fellBack \in Nat
    /\ worked \in [Keys -> SUBSET Strategies] /\ tried \in [Keys -> SUBSET Strategies]

-----------------------------------------------------------------------------
(* lruCache *)

\* order.MoveToFront and order.PushFront
ToFront(k, s) == <<k>> \o RemoveFirst(s, k)

Hit(k) == k \in items /\ left[k] > 0

\* get: a hit moves the entry to the front, an expired entry is removed.
Get(k) ==
    /\ order' = IF Hit(k) THEN ToFront(k, order) ELSE RemoveFirst(order, k)
    /\ items' = IF Hit(k) THEN items ELSE items \ {k}
    /\ UNCHANGED <<strat, left>>

\* Faulty variant: the evicted key stays in the map.
SetKeepsKey(k, s) ==
    /\ order' = ToFront(k, IF k \notin items /\ Len(order) >= Cap THEN Front(order) ELSE order)
    /\ items' = items \cup {k}
    /\ strat' = [strat EXCEPT ![k] = s]
    /\ left' = [left EXCEPT ![k] = Ttl + 1]

\* set: update in place, or insert after evicting the oldest of a full cache.
Set(k, s) ==
    LET evicts == k \notin items /\ Len(order) >= Cap IN
    /\ order' = ToFront(k, IF evicts THEN Front(order) ELSE order)
    /\ items' = (IF evicts THEN items \ {Last(order)} ELSE items) \cup {k}
    /\ strat' = [strat EXCEPT ![k] = s]
    /\ left' = [left EXCEPT ![k] = Ttl + 1]

-----------------------------------------------------------------------------
(* Inject *)

\* The fallback chain; the last strategy falls back to the first.
next(s) == (s + 1) % 4

\* A local variable that is out of scope has its initial value.
AnyKey == CHOOSE k \in Keys : TRUE
Return(c) ==
    /\ pc' = [pc EXCEPT ![c] = "idle"]
    /\ key' = [key EXCEPT ![c] = AnyKey]
    /\ strategy' = [strategy EXCEPT ![c] = WrongSeq]
    /\ second' = [second EXCEPT ![c] = FALSE]
    /\ ok' = [ok EXCEPT ![c] = FALSE]

\* Handle calls Inject: the cached strategy, or wrong_seq.
Begin(c) ==
    /\ pc[c] = "idle" /\ runs < MaxRuns
    /\ runs' = runs + 1
    /\ \E k \in Keys :
           /\ key' = [key EXCEPT ![c] = k]
           /\ Get(k)
           /\ strategy' = [strategy EXCEPT ![c] = IF Hit(k) THEN strat[k] ELSE WrongSeq]
    /\ pc' = [pc EXCEPT ![c] = "run"]
    /\ UNCHANGED <<second, ok, statVars, snap, histVars>>

Try(c) == tried' = [tried EXCEPT ![key[c]] = @ \cup {strategy[c]}]

RunOk(c) ==
    /\ pc[c] = "run"
    /\ Try(c)
    /\ worked' = [worked EXCEPT ![key[c]] = @ \cup {strategy[c]}]
    /\ fellBack' = IF second[c] THEN fellBack + 1 ELSE fellBack
    /\ ok' = [ok EXCEPT ![c] = TRUE]
    /\ pc' = [pc EXCEPT ![c] = "set"]
    /\ UNCHANGED <<cacheVars, key, strategy, second, runs, statVars, snap>>

\* The first run fails (the context is done, or an error), which is recorded.
RunFail(c) ==
    /\ pc[c] = "run" /\ ~second[c]
    /\ Try(c)
    /\ pc' = [pc EXCEPT ![c] = "lookup"]
    /\ UNCHANGED <<cacheVars, key, strategy, second, ok, runs, statVars, snap, fellBack, worked>>

\* Faulty variant: after the second failure the chain goes on.
FallbackGoesOn(c) ==
    /\ pc[c] = "run" /\ second[c]
    /\ Try(c)
    /\ strategy' = [strategy EXCEPT ![c] = next(strategy[c])]
    /\ UNCHANGED <<cacheVars, pc, key, second, ok, runs, statVars, snap, fellBack, worked>>

\* The fallback fails too: Inject returns the first error, and records nothing
\* about the fallback.  The handler counts one failed injection.
FallbackFail(c) ==
    /\ pc[c] = "run" /\ second[c]
    /\ Try(c)
    /\ bypassFail' = bypassFail + 1
    /\ Return(c)
    /\ UNCHANGED <<cacheVars, runs, recVars, bypassOK, snap, fellBack, worked>>

\* Faulty variant: the strategy after the one that worked is cached.
CacheNext(c) ==
    /\ pc[c] = "set"
    /\ Set(key[c], next(strategy[c]))
    /\ pc' = [pc EXCEPT ![c] = "lookup"]
    /\ UNCHANGED <<key, strategy, second, ok, runs, statVars, snap, histVars>>

\* a.cache.set(key, strategy)
Cache(c) ==
    /\ pc[c] = "set"
    /\ Set(key[c], strategy[c])
    /\ pc' = [pc EXCEPT ![c] = "lookup"]
    /\ UNCHANGED <<key, strategy, second, ok, runs, statVars, snap, histVars>>

-----------------------------------------------------------------------------
(* The reader *)

\* Faulty variant: the strategies are read first.
StatsFirst == <<"stats", "ok", "fail">>

\* The order in which Snapshot evaluates its fields.
SnapOrder == <<"ok", "fail", "stats">>

At(phase) == snap.at <= Len(SnapOrder) /\ SnapOrder[snap.at] = phase
SnapDone == snap.at > Len(SnapOrder)

\* The reader holds RLock.
Reading == At("stats")

\* strategyStats takes RLock and walks the map as it is then.
SnapGoto(i, x) ==
    [x EXCEPT !.at = i, !.unread = IF i <= Len(SnapOrder) /\ SnapOrder[i] = "stats" THEN known ELSE {}]
NoSnap == [at |-> 1, ok |-> 0, fail |-> 0, unread |-> {}, sumOK |-> 0, sumFail |-> 0]

-----------------------------------------------------------------------------
(* RecordBypassStrategy *)

\* The lookup under RLock.
Lookup(c) ==
    /\ pc[c] = "lookup"
    /\ pc' = [pc EXCEPT ![c] = IF strategy[c] \in known THEN "add" ELSE "create"]
    /\ UNCHANGED <<cacheVars, key, strategy, second, ok, runs, statVars, snap, histVars>>

\* New counters for a strategy take the place of any it had.
NewCounters(s) ==
    /\ known' = known \cup {s}
    /\ recOK' = [recOK EXCEPT ![s] = 0]
    /\ recFail' = [recFail EXCEPT ![s] = 0]

\* Faulty variant: the second lookup is left out.
CreatedAgain(s) == NewCounters(s)

\* The second lookup under Lock; counters that exist by now are kept.
Created(s) == IF s \in known THEN UNCHANGED recVars ELSE NewCounters(s)

\* Lock waits for a reader that holds RLock.
Create(c) ==
    /\ pc[c] = "create" /\ ~Reading
    /\ Created(strategy[c])
    /\ pc' = [pc EXCEPT ![c] = "add"]
    /\ UNCHANGED <<cacheVars, key, strategy, second, ok, runs, bypassOK, bypassFail, snap, histVars>>

\* sc.ok.Add(1), after which Inject returns.
AddOk(c) ==
    /\ pc[c] = "add" /\ ok[c]
    /\ recOK' = [recOK EXCEPT ![strategy[c]] = @ + 1]
    /\ pc' = [pc EXCEPT ![c] = "count"]
    /\ UNCHANGED <<cacheVars, key, strategy, second, ok, runs, known, recFail, bypassOK, bypassFail, snap, histVars>>

\* sc.fail.Add(1), after which the next strategy is run.
AddFail(c) ==
    /\ pc[c] = "add" /\ ~ok[c]
    /\ recFail' = [recFail EXCEPT ![strategy[c]] = @ + 1]
    /\ strategy' = [strategy EXCEPT ![c] = next(strategy[c])]
    /\ second' = [second EXCEPT ![c] = TRUE]
    /\ pc' = [pc EXCEPT ![c] = "run"]
    /\ UNCHANGED <<cacheVars, key, ok, runs, known, recOK, bypassOK, bypassFail, snap, histVars>>

\* BypassOK in the handler.
Count(c) ==
    /\ pc[c] = "count"
    /\ bypassOK' = bypassOK + 1
    /\ Return(c)
    /\ UNCHANGED <<cacheVars, runs, recVars, bypassFail, snap, histVars>>

-----------------------------------------------------------------------------
(* Snapshot: the stats loop and the metrics endpoint *)

SnapLoadOK ==
    /\ At("ok")
    /\ snap' = SnapGoto(snap.at + 1, [snap EXCEPT !.ok = bypassOK])
    /\ UNCHANGED <<cacheVars, callVars, statVars, histVars>>

SnapLoadFail ==
    /\ At("fail")
    /\ snap' = SnapGoto(snap.at + 1, [snap EXCEPT !.fail = bypassFail])
    /\ UNCHANGED <<cacheVars, callVars, statVars, histVars>>

SnapLoadStrategy(s) ==
    /\ At("stats") /\ s \in snap.unread
    /\ snap' = [snap EXCEPT !.unread = @ \ {s}, !.sumOK = @ + recOK[s], !.sumFail = @ + recFail[s]]
    /\ UNCHANGED <<cacheVars, callVars, statVars, histVars>>

SnapUnlock ==
    /\ At("stats") /\ snap.unread = {}
    /\ snap' = SnapGoto(snap.at + 1, snap)
    /\ UNCHANGED <<cacheVars, callVars, statVars, histVars>>

SnapReturn ==
    /\ SnapDone
    /\ snap' = SnapGoto(1, NoSnap)
    /\ UNCHANGED <<cacheVars, callVars, statVars, histVars>>

SnapNext ==
    \/ SnapLoadOK
    \/ SnapLoadFail
    \/ \E s \in Strategies : SnapLoadStrategy(s)
    \/ SnapUnlock
    \/ SnapReturn

CallerNext(c) ==
    \/ Begin(c)
    \/ RunOk(c)
    \/ RunFail(c)
    \/ FallbackFail(c)
    \/ Cache(c)
    \/ Lookup(c)
    \/ Create(c)
    \/ AddOk(c)
    \/ AddFail(c)
    \/ Count(c)

Tick ==
    /\ \E k \in items : left[k] > 0
    /\ left' = [k \in Keys |-> IF left[k] > 0 THEN left[k] - 1 ELSE 0]
    /\ UNCHANGED <<order, items, strat, callVars, statVars, snap, histVars>>

Init ==
    /\ order = <<>> /\ items = {}
    /\ strat = [k \in Keys |-> WrongSeq] /\ left = [k \in Keys |-> 0]
    /\ pc = [c \in Callers |-> "idle"]
    /\ key = [c \in Callers |-> AnyKey]
    /\ strategy = [c \in Callers |-> WrongSeq]
    /\ second = [c \in Callers |-> FALSE] /\ ok = [c \in Callers |-> FALSE]
    /\ runs = 0
    /\ known = {}
    /\ recOK = [s \in Strategies |-> 0] /\ recFail = [s \in Strategies |-> 0]
    /\ bypassOK = 0 /\ bypassFail = 0
    /\ snap = NoSnap
    /\ fellBack = 0
    /\ worked = [k \in Keys |-> {}] /\ tried = [k \in Keys |-> {}]

Next == (\E c \in Callers : CallerNext(c)) \/ SnapNext \/ Tick

Spec == Init /\ [][Next]_vars

-----------------------------------------------------------------------------
(* Properties *)

\* The list and the map of the cache hold the same keys, each once, and never
\* more than the capacity, whatever mix of hits, expiries and evictions: a key
\* left in one of them would leak, or be found with an entry not in the list.
CacheConsistent ==
    /\ ToSet(order) = items
    /\ Len(order) = Cardinality(items)
    /\ Len(order) <= Cap

\* A cached strategy is one that has succeeded for that very destination, even
\* when two handlers for it finish in the other order than they started.
CachedWorked == \A k \in items : strat[k] \in worked[k]

\* One fallback per injection: a strategy is run for a destination only if it
\* is wrong_seq, has worked there before, or follows such a strategy in the
\* chain.  So desync is out of reach until fragment has once worked.
OneHop ==
    \A k \in Keys : \A s \in tried[k] :
        LET base == worked[k] \cup {WrongSeq} IN
        s \in base \/ \E b \in base : s = next(b)

\* A counter summed over the strategies.
Total(f) == f[WrongSeq] + f[Fragment] + f[DesyncBadCS] + f[DesyncTTL]

\* When no injection is under way the recorder and the handlers agree: every
\* successful injection is one success of one strategy, and every first failure
\* led to a failed injection or to a fallback that worked.
CountsAgree ==
    (\A c \in Callers : pc[c] = "idle") =>
        /\ Total(recOK) = bypassOK
        /\ Total(recFail) = bypassFail + fellBack

\* A snapshot taken while handlers go on never shows more injections than the
\* strategies it lists account for: the strategy is recorded before the total,
\* and the total is loaded before the strategies.
SnapshotConsistent ==
    SnapDone => snap.ok <= snap.sumOK /\ snap.fail <= snap.sumFail
=============================================================================
