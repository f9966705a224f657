---------------------------- MODULE RateLimiter ----------------------------
(***************************************************************************)
(* The per-address rate limiter (internal/proxy/server.go): allow, called  *)
(* by the accept loop for one connection at a time, and cleanup, run by    *)
(* cleanupLoop on a ticker.                                                *)
(*                                                                         *)
(* The map has a lock and every bucket has one.  allow gives up the map's  *)
(* lock before it takes the bucket's, and cleanup gives up the bucket's    *)
(* before it deletes the entry, so allow may fill a bucket that the map no *)
(* longer holds.                                                           *)
(*                                                                         *)
(* Times are ages, in ticks, and stop growing once the code cannot tell    *)
(* them apart: past Window for a timestamp, past Stale for lastSeen, whose *)
(* zero value is such an age too.  The order of a bucket's timestamps is   *)
(* never read, so they are a set; n tells apart the connections of one     *)
(* tick.  Buckets are numbered; a number is used again once nothing refers *)
(* to the bucket.                                                          *)
(***************************************************************************)
EXTENDS Integers, FiniteSets

CONSTANTS Ips,     \* client addresses
          Limit,   \* rate_limit
          Window,  \* one second
          Stale,   \* two minutes: cleanup's cutoff and the ticker's period
          NoIp     \* "no address"

ASSUME LimitAssumption == Limit \in Nat \ {0}
ASSUME TimesAssumption == Window \in Nat /\ Stale \in Nat /\ Window < Stale
ASSUME IpsAssumption == IsFiniteSet(Ips) /\ NoIp \notin Ips

None == 0
Buckets == 1..(Cardinality(Ips) + 1)

VARIABLES buckets,     \* rateLimiter.buckets
          timestamps,  \* ipBucket.timestamps
          lastSeen,    \* ipBucket.lastSeen, as an age
          pc, ip, b,   \* allow: where it is, its argument, its bucket
          cpc,         \* where cleanupLoop is
          old,         \* buckets last seen before the cutoff of cleanup's pass
          todo,        \* entries that cleanup's range has still to visit
          victim,      \* the entry found stale, about to be deleted
          sinceTick,   \* age of the ticker's last tick
          ticked,      \* a tick waits in ticker.C
          ctxDone,     \* ctx is done
          granted,     \* history: the connections let through in the last second
          strays       \* history: those of them counted in no bucket of the map

tableVars == <<buckets, timestamps, lastSeen>>
allowVars == <<pc, ip, b>>
cleanVars == <<cpc, old, todo, victim>>
tickVars == <<sinceTick, ticked, ctxDone>>
histVars == <<granted, strays>>
limiterVars == <<tableVars, allowVars, cleanVars, tickVars, histVars>>

Stamps == [age : 0..(Window + 1), n : Nat]

LimiterTypeOK ==
    /\ buckets \in [Ips -> Buckets \cup {None}]
    /\ timestamps \in [Buckets -> SUBSET Stamps]
    /\ lastSeen \in [Buckets -> 0..(Stale + 1)]
    /\ pc \in {"idle", "create", "bucket"}
    /\ ip \in Ips \cup {NoIp} /\ b \in Buckets \cup {None}
    /\ cpc \in {"wait", "lock", "clean", "delete", "off"}
    /\ old \subseteq Buckets /\ todo \subseteq Ips /\ victim \in Ips \cup {NoIp}
    /\ sinceTick \in 0..(Stale - 1) /\ ticked \in BOOLEAN /\ ctxDone \in BOOLEAN
    /\ granted \in [Ips -> SUBSET Stamps]
    /\ strays \in [Ips -> SUBSET Stamps]

-----------------------------------------------------------------------------
(* allow *)

\* The map's lock is free: cleanup holds it while it ranges over the map.
MapFree == cpc \in {"wait", "lock", "off"}

\* The first lookup, under the read lock.
Lookup(i) ==
    /\ pc = "idle" /\ MapFree
    /\ ip' = i
    /\ b' = buckets[i]
    /\ pc' = IF buckets[i] = None THEN "create" ELSE "bucket"
    /\ UNCHANGED <<tableVars, cleanVars, tickVars, histVars>>

\* The second lookup, under the write lock; a new bucket has the zero lastSeen,
\* which is before the cutoff of a pass that waits for the lock.
Create ==
    /\ pc = "create" /\ MapFree
    /\ IF buckets[ip] = None
       THEN LET new == CHOOSE k \in Buckets : \A i \in Ips : buckets[i] # k IN
            /\ b' = new
            /\ buckets' = [buckets EXCEPT ![ip] = new]
            /\ timestamps' = [timestamps EXCEPT ![new] = {}]
            /\ lastSeen' = [lastSeen EXCEPT ![new] = Stale + 1]
            /\ old' = IF cpc = "lock" THEN old \cup {new} ELSE old
       ELSE b' = buckets[ip] /\ UNCHANGED <<tableVars, old>>
    /\ pc' = "bucket"
    /\ UNCHANGED <<ip, cpc, todo, victim, tickVars, histVars>>

\* Faulty variant: a timestamp exactly as old as the window is dropped.
YoungerOnly(s) == {t \in s : t.age < Window}

\* t >= cutoff
InWindow(s) == {t \in s : t.age <= Window}

Fits(s) == Cardinality(s) < Limit

\* Tells this connection apart from the others of the same tick.
Serial(i) == Cardinality({t \in granted[i] : t.age = 0})

\* The bucket's critical section, whether or not the map still holds it.
Take ==
    /\ pc = "bucket"
    /\ lastSeen' = [lastSeen EXCEPT ![b] = 0]
    /\ old' = old \ {b}
    /\ LET kept == InWindow(timestamps[b])
           taken == IF Fits(kept) THEN {[age |-> 0, n |-> Serial(ip)]} ELSE {} IN
       /\ timestamps' = [timestamps EXCEPT ![b] = kept \cup taken]
       /\ granted' = [granted EXCEPT ![ip] = @ \cup taken]
       /\ strays' = IF buckets[ip] = b THEN strays ELSE [strays EXCEPT ![ip] = @ \cup taken]
    /\ pc' = "idle" /\ ip' = NoIp /\ b' = None
    /\ UNCHANGED <<buckets, cpc, todo, victim, tickVars>>

-----------------------------------------------------------------------------
(* cleanupLoop *)

\* Faulty variant: the comparison is the wrong way round.
Reversed(k) == lastSeen[k] < Stale

\* b.lastSeen.Before(cutoff), at the moment of the cutoff
BeforeCutoff(k) == lastSeen[k] > Stale

\* Faulty variant: a default in the select, so that passes do not wait for ticks.
CleanAlways ==
    /\ cpc = "wait"
    /\ old' = {k \in Buckets : BeforeCutoff(k)}
    /\ cpc' = "lock"
    /\ UNCHANGED <<tableVars, allowVars, todo, victim, tickVars, histVars>>

\* A tick is received; the cutoff is taken before the map's lock is.
CleanStart ==
    /\ cpc = "wait" /\ ticked
    /\ ticked' = FALSE
    /\ old' = {k \in Buckets : BeforeCutoff(k)}
    /\ cpc' = "lock"
    /\ UNCHANGED <<tableVars, allowVars, todo, victim, sinceTick, ctxDone, histVars>>

\* r.mu.Lock() is held by nobody between the steps of allow.
CleanLock ==
    /\ cpc = "lock"
    /\ todo' = {i \in Ips : buckets[i] # None}
    /\ cpc' = "clean"
    /\ UNCHANGED <<tableVars, allowVars, old, victim, tickVars, histVars>>

\* One iteration of the range, in an arbitrary order.
CleanCheck(i) ==
    /\ cpc = "clean" /\ i \in todo
    /\ todo' = todo \ {i}
    /\ victim' = IF buckets[i] \in old THEN i ELSE NoIp
    /\ cpc' = IF buckets[i] \in old THEN "delete" ELSE "clean"
    /\ UNCHANGED <<tableVars, allowVars, old, tickVars, histVars>>

\* The entry is deleted even if allow has used the bucket since it was looked at.
CleanDelete ==
    /\ cpc = "delete"
    /\ strays' = [strays EXCEPT ![victim] = @ \cup (granted[victim] \cap timestamps[buckets[victim]])]
    /\ buckets' = [buckets EXCEPT ![victim] = None]
    /\ victim' = NoIp
    /\ cpc' = "clean"
    /\ UNCHANGED <<timestamps, lastSeen, allowVars, old, todo, tickVars, granted>>

CleanEnd ==
    /\ cpc = "clean" /\ todo = {}
    /\ old' = {}
    /\ cpc' = "wait"
    /\ UNCHANGED <<tableVars, allowVars, todo, victim, tickVars, histVars>>

CleanExit ==
    /\ cpc = "wait" /\ ctxDone
    /\ cpc' = "off"
    /\ UNCHANGED <<tableVars, allowVars, old, todo, victim, tickVars, histVars>>

CleanNext ==
    CleanStart \/ CleanLock \/ (\E i \in Ips : CleanCheck(i)) \/ CleanDelete \/ CleanEnd \/ CleanExit

-----------------------------------------------------------------------------
(* Environment *)

Min2(x, y) == IF x < y THEN x ELSE y
Older(s) == {[age |-> Min2(t.age + 1, Window + 1), n |-> t.n] : t \in s}

\* What the histories keep: the connections of the last second.
Recent(s) == {t \in s : t.age <= Window}

\* Time passes; every Stale ticks the ticker sends, unless a tick still waits.
LimiterTick ==
    /\ timestamps' = [k \in Buckets |-> Older(timestamps[k])]
    /\ lastSeen' = [k \in Buckets |-> Min2(lastSeen[k] + 1, Stale + 1)]
    /\ granted' = [i \in Ips |-> Recent(Older(granted[i]))]
    /\ strays' = [i \in Ips |-> Recent(Older(strays[i]))]
    /\ sinceTick' = IF sinceTick + 1 = Stale THEN 0 ELSE sinceTick + 1
    /\ ticked' = (ticked \/ sinceTick' = 0)
    /\ UNCHANGED <<buckets, allowVars, cleanVars, ctxDone>>

LimiterCancel ==
    /\ ~ctxDone
    /\ ctxDone' = TRUE
    /\ UNCHANGED <<tableVars, allowVars, cleanVars, sinceTick, ticked, histVars>>

\* Nothing is pending, and a bucket that is not in the map has no contents.
LimiterInit ==
    /\ buckets = [i \in Ips |-> None]
    /\ timestamps = [k \in Buckets |-> {}]
    /\ lastSeen = [k \in Buckets |-> Stale + 1]
    /\ pc = "idle" /\ ip = NoIp /\ b = None
    /\ cpc = "wait" /\ old = {} /\ todo = {} /\ victim = NoIp
    /\ sinceTick = 0 /\ ticked = FALSE /\ ctxDone = FALSE
    /\ granted = [i \in Ips |-> {}] /\ strays = [i \in Ips |-> {}]

AllowNext == Create \/ Take
LimiterNext == (\E i \in Ips : Lookup(i)) \/ AllowNext \/ CleanNext \/ LimiterTick \/ LimiterCancel

LimiterSpec == LimiterInit /\ [][LimiterNext]_limiterVars

\* The two goroutines keep running and time passes; no client has to connect.
LimiterFairSpec ==
    LimiterSpec /\ WF_limiterVars(AllowNext) /\ WF_limiterVars(CleanNext) /\ WF_limiterVars(LimiterTick)

-----------------------------------------------------------------------------
(* Properties *)

\* Within any closed window of one second the limiter lets at most rate_limit
\* connections of an address through, apart from those it has forgotten because
\* cleanup took their bucket out of the map while allow was using it.
OnlyStraysExceed == \A i \in Ips : Cardinality(granted[i] \ strays[i]) <= Limit

\* The harm of that race is bounded: a pass of cleanup makes allow forget at
\* most one connection of an address, and no schedule of ticks, passes and
\* delays puts more than four of them into one window.
StraysBounded == \A i \in Ips : Cardinality(strays[i]) <= 4

\* The map does not grow for ever: the entry of an address that stops connecting
\* is deleted, unless the server shuts down first.
Forgotten ==
    \A i \in Ips : (<>[](ip # i)) => (<>[](buckets[i] = None) \/ <>ctxDone)
=============================================================================
