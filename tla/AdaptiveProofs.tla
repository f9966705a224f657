--------------------------- MODULE AdaptiveProofs ---------------------------
(***************************************************************************)
(* Proofs about Adaptive: the list and the map of the LRU cache stay one,  *)
(* a cached strategy has worked, an injection falls back once, and the     *)
(* counters add up, for the handlers at rest and for a Snapshot taken      *)
(* while they go on.                                                       *)
(***************************************************************************)
EXTENDS Adaptive, SequenceTheorems, FiniteSetTheorems, TLAPS

-----------------------------------------------------------------------------
(* The list of the cache *)

\* The sequence s lists the set I: every element once.
Listed(s, I) ==
    /\ s \in Seq(Keys)
    /\ \A i \in 1..Len(s) : s[i] \in I
    /\ \A k \in I : \E i \in 1..Len(s) : s[i] = k
    /\ \A i, j \in 1..Len(s) : s[i] = s[j] => i = j

\* A sequence without its i-th element.
LEMMA RemoveAtShape ==
    ASSUME NEW s \in Seq(Keys), NEW i \in 1..Len(s), NEW r, r = RemoveAt(s, i)
    PROVE  /\ r \in Seq(Keys) /\ Len(r) = Len(s) - 1
           /\ \A j \in 1..(Len(s) - 1) : r[j] = IF j < i THEN s[j] ELSE s[j + 1]
<1> DEFINE a == SubSeq(s, 1, i - 1)
           b == SubSeq(s, i + 1, Len(s))
<1>1. /\ Len(s) \in Nat /\ i - 1 \in Int /\ i + 1 \in Int
      /\ \A j \in 1..(i - 1) : s[j] \in Keys
      /\ \A j \in (i + 1)..Len(s) : s[j] \in Keys
  OBVIOUS
<1>2. a \in Seq(Keys) /\ Len(a) = i - 1 /\ \A j \in 1..(i - 1) : a[j] = s[j]
  BY <1>1, SubSeqProperties
<1>3. b \in Seq(Keys) /\ Len(b) = Len(s) - i /\ \A j \in 1..(Len(s) - i) : b[j] = s[i + j]
  BY <1>1, SubSeqProperties
<1>4. RemoveAt(s, i) = a \o b
  BY DEF RemoveAt
<1> HIDE DEF a, b
<1>5. /\ a \o b \in Seq(Keys) /\ Len(a \o b) = Len(s) - 1
      /\ \A j \in 1..(Len(s) - 1) : (a \o b)[j] = IF j < i THEN s[j] ELSE s[j + 1]
  <2>1. a \o b \in Seq(Keys) /\ Len(a \o b) = Len(a) + Len(b)
    BY <1>2, <1>3, ConcatProperties
  <2>2. Len(a \o b) = Len(s) - 1
    BY <1>1, <1>2, <1>3, <2>1
  <2>3. ASSUME NEW j \in 1..(Len(s) - 1)
        PROVE  (a \o b)[j] = IF j < i THEN s[j] ELSE s[j + 1]
    <3>1. /\ j \in 1..(Len(a) + Len(b))
          /\ j < i <=> j <= Len(a)
          /\ j >= i => j - Len(a) \in 1..(Len(s) - i) /\ i + (j - Len(a)) = j + 1
      <4>1. Len(s) \in Nat /\ Len(a) = i - 1 /\ Len(b) = Len(s) - i
        BY <1>1, <1>2, <1>3
      <4> QED
        BY <4>1
    <3>2. (a \o b)[j] = IF j <= Len(a) THEN a[j] ELSE b[j - Len(a)]
      BY <1>2, <1>3, <3>1, ConcatProperties
    <3>3. j < i => a[j] = s[j]
      BY <1>1, <1>2
    <3>4. j >= i => b[j - Len(a)] = s[j + 1]
      BY <1>3, <3>1
    <3> QED
      BY <1>1, <3>1, <3>2, <3>3, <3>4
  <2> QED
    BY <2>1, <2>2, <2>3
<1> QED
  BY <1>4, <1>5

\* Taking an element off the list.
LEMMA Removed ==
    ASSUME NEW s, NEW I, NEW k \in I, Listed(s, I)
    PROVE  Listed(RemoveFirst(s, k), I \ {k}) /\ Len(RemoveFirst(s, k)) = Len(s) - 1
<1>1. PICK i \in 1..Len(s) : s[i] = k
  BY DEF Listed
<1>2. {j \in 1..Len(s) : s[j] = k} = {i}
  BY <1>1 DEF Listed
<1>3. Min({i}) = i
  BY DEF Min
<1>4. SelectInSeq(s, LAMBDA v : v = k) = i
  BY <1>2, <1>3 DEF SelectInSeq
<1>5. RemoveFirst(s, k) = RemoveAt(s, i)
  BY <1>1, <1>4 DEF RemoveFirst
<1> DEFINE r == RemoveAt(s, i)
<1>6. /\ s \in Seq(Keys) /\ Len(s) \in Nat
      /\ r \in Seq(Keys) /\ Len(r) = Len(s) - 1
      /\ \A j \in 1..(Len(s) - 1) : r[j] = IF j < i THEN s[j] ELSE s[j + 1]
  <2>1. s \in Seq(Keys)
    BY DEF Listed
  <2> QED
    BY <2>1, RemoveAtShape, LenProperties
<1> HIDE DEF r
<1>7. ASSUME NEW j \in 1..Len(r) PROVE r[j] \in I \ {k}
  <2>1. PICK l \in 1..Len(s) : r[j] = s[l] /\ l # i
    <3>1. CASE j < i
      BY <1>6, <3>1
    <3>2. CASE ~(j < i)
      <4>1. j + 1 \in 1..Len(s) /\ j + 1 # i /\ r[j] = s[j + 1]
        BY <1>6, <3>2
      <4> QED
        BY <4>1
    <3> QED
      BY <3>1, <3>2
  <2> QED
    BY <1>1, <2>1 DEF Listed
<1>8. ASSUME NEW x \in I \ {k} PROVE \E j \in 1..Len(r) : r[j] = x
  <2>1. PICK j \in 1..Len(s) : s[j] = x
    BY DEF Listed
  <2>2. CASE j < i
    BY <1>6, <2>1, <2>2
  <2>3. CASE j > i
    <3>1. j - 1 \in 1..Len(r) /\ r[j - 1] = s[j]
      BY <1>6, <2>3
    <3> QED
      BY <2>1, <3>1
  <2> QED
    BY <1>1, <2>1, <2>2, <2>3
<1>9. ASSUME NEW j \in 1..Len(r), NEW l \in 1..Len(r), r[j] = r[l] PROVE j = l
  <2>1. /\ r[j] = IF j < i THEN s[j] ELSE s[j + 1]
        /\ r[l] = IF l < i THEN s[l] ELSE s[l + 1]
        /\ j \in 1..Len(s) /\ j + 1 \in 1..Len(s) /\ l \in 1..Len(s) /\ l + 1 \in 1..Len(s)
    BY <1>6
  <2>2. \A a, b \in 1..Len(s) : s[a] = s[b] => a = b
    BY DEF Listed
  <2>3. i \in Int /\ j \in Int /\ l \in Int
    BY <1>6
  <2>4. CASE j < i /\ l < i
    BY <1>9, <2>1, <2>2, <2>4
  <2>5. CASE j >= i /\ l >= i
    <3>1. r[j] = s[j + 1] /\ r[l] = s[l + 1]
      BY <2>1, <2>3, <2>5
    <3>2. j + 1 = l + 1
      BY <1>9, <2>1, <2>2, <3>1
    <3> QED
      BY <2>3, <3>2
  <2>6. CASE j < i /\ l >= i
    <3>1. r[j] = s[j] /\ r[l] = s[l + 1]
      BY <2>1, <2>3, <2>6
    <3>2. j = l + 1
      BY <1>9, <2>1, <2>2, <3>1
    <3> QED
      BY <2>3, <2>6, <3>2
  <2>7. CASE j >= i /\ l < i
    <3>1. r[j] = s[j + 1] /\ r[l] = s[l]
      BY <2>1, <2>3, <2>7
    <3>2. j + 1 = l
      BY <1>9, <2>1, <2>2, <3>1
    <3> QED
      BY <2>3, <2>7, <3>2
  <2> QED
    BY <2>3, <2>4, <2>5, <2>6, <2>7
<1> QED
  BY <1>5, <1>6, <1>7, <1>8, <1>9 DEF Listed, r

\* Taking off what is not on the list.
LEMMA NotRemoved ==
    ASSUME NEW s, NEW I, NEW k, k \notin I, Listed(s, I)
    PROVE  RemoveFirst(s, k) = s
BY DEF RemoveFirst, Listed

\* Putting an element in front.
LEMMA Pushed ==
    ASSUME NEW s, NEW I, NEW k \in Keys, k \notin I, Listed(s, I)
    PROVE  Listed(<<k>> \o s, I \cup {k}) /\ Len(<<k>> \o s) = Len(s) + 1
<1> DEFINE r == <<k>> \o s
<1>1. /\ s \in Seq(Keys) /\ Len(s) \in Nat
      /\ r \in Seq(Keys) /\ Len(r) = Len(s) + 1 /\ r[1] = k
      /\ \A j \in 1..Len(s) : r[j + 1] = s[j]
  BY DEF Listed
<1> HIDE DEF r
<1>2. \A j \in 1..Len(r) : j = 1 \/ (j - 1 \in 1..Len(s) /\ r[j] = s[j - 1])
  <2> SUFFICES ASSUME NEW j \in 1..Len(r), j # 1 PROVE j - 1 \in 1..Len(s) /\ r[j] = s[j - 1]
    OBVIOUS
  <2>1. j - 1 \in 1..Len(s) /\ (j - 1) + 1 = j
    BY <1>1
  <2> QED
    BY <1>1, <2>1
<1>3. \A j \in 1..Len(r) : r[j] \in I \cup {k}
  BY <1>1, <1>2 DEF Listed
<1>4. \A x \in I \cup {k} : \E j \in 1..Len(r) : r[j] = x
  <2>1. 1 \in 1..Len(r)
    BY <1>1
  <2>2. ASSUME NEW x \in I PROVE \E j \in 1..Len(r) : r[j] = x
    <3>1. PICK j \in 1..Len(s) : s[j] = x
      BY DEF Listed
    <3>2. j + 1 \in 1..Len(r) /\ r[j + 1] = x
      BY <1>1, <3>1
    <3> QED
      BY <3>2
  <2> QED
    BY <1>1, <2>1, <2>2
<1>5. ASSUME NEW j \in 1..Len(r), NEW l \in 1..Len(r), r[j] = r[l] PROVE j = l
  <2>1. \A a, b \in 1..Len(s) : s[a] = s[b] => a = b
    BY DEF Listed
  <2>2. \A a \in 1..Len(s) : s[a] # k
    BY DEF Listed
  <2>3. CASE j = 1 \/ l = 1
    BY <1>1, <1>2, <1>5, <2>2, <2>3
  <2>4. CASE j # 1 /\ l # 1
    <3>1. j - 1 \in 1..Len(s) /\ l - 1 \in 1..Len(s) /\ s[j - 1] = s[l - 1]
      BY <1>2, <1>5, <2>4
    <3>2. j - 1 = l - 1
      BY <2>1, <3>1
    <3> QED
      BY <1>1, <3>2
  <2> QED
    BY <2>3, <2>4
<1> QED
  BY <1>1, <1>3, <1>4, <1>5 DEF Listed, r

\* Dropping the oldest entry.
LEMMA Dropped ==
    ASSUME NEW s, NEW I, Listed(s, I), Len(s) > 0
    PROVE  Last(s) \in I /\ Listed(Front(s), I \ {Last(s)}) /\ Len(Front(s)) = Len(s) - 1
<1> DEFINE n == Len(s)
           r == Front(s)
<1>1. s \in Seq(Keys) /\ n \in Nat \ {0} /\ Last(s) = s[n]
  BY DEF Listed, Last
<1>2. r \in Seq(Keys) /\ Len(r) = n - 1 /\ \A j \in 1..(n - 1) : r[j] = s[j]
  <2>1. \A j \in 1..(n - 1) : s[j] \in Keys
    BY <1>1
  <2> DEFINE f == SubSeq(s, 1, n - 1)
  <2>2. f \in Seq(Keys) /\ Len(f) = (IF 1 <= n - 1 THEN n - 1 - 1 + 1 ELSE 0)
        /\ \A j \in 1..(n - 1 - 1 + 1) : f[j] = s[1 + j - 1]
    <3>1. 1 \in Int /\ n - 1 \in Int
      BY <1>1
    <3> QED
      BY <2>1, <3>1, SubSeqProperties
  <2>3. r = f
    BY DEF Front
  <2> HIDE DEF f, r
  <2>4. n - 1 - 1 + 1 = n - 1 /\ \A j \in 1..(n - 1) : 1 + j - 1 = j
    BY <1>1
  <2>5. Len(f) = n - 1
    <3>1. CASE n = 1
      BY <2>2, <3>1
    <3>2. CASE n > 1
      <4>1. 1 <= n - 1
        BY <1>1, <3>2
      <4> QED
        BY <2>2, <2>4, <4>1
    <3>3. n = 1 \/ n > 1
      <4>1. n \in Nat \ {0}
        BY <1>1
      <4> HIDE DEF n
      <4> QED
        BY <4>1
    <3> QED
      BY <3>1, <3>2, <3>3
  <2>6. \A j \in 1..(n - 1) : f[j] = s[j]
    BY <2>2, <2>4
  <2> QED
    BY <2>2, <2>3, <2>5, <2>6
<1> HIDE DEF r
<1>3. \A x \in I \ {Last(s)} : \E j \in 1..Len(r) : r[j] = x
  <2> SUFFICES ASSUME NEW x \in I \ {Last(s)} PROVE \E j \in 1..Len(r) : r[j] = x
    OBVIOUS
  <2>1. PICK j \in 1..n : s[j] = x
    BY DEF Listed
  <2> QED
    BY <1>1, <1>2, <2>1
<1>4. \A j \in 1..Len(r) : r[j] \in I \ {Last(s)}
  BY <1>1, <1>2 DEF Listed
<1>5. \A j, l \in 1..Len(r) : r[j] = r[l] => j = l
  BY <1>1, <1>2 DEF Listed
<1> QED
  BY <1>1, <1>2, <1>3, <1>4, <1>5 DEF Listed, r

\* Bringing an element to the front, or putting it there.
LEMMA InFront ==
    ASSUME NEW s, NEW I, NEW k \in Keys, Listed(s, I)
    PROVE  /\ Listed(ToFront(k, s), I \cup {k})
           /\ k \in I => Len(ToFront(k, s)) = Len(s)
           /\ k \notin I => Len(ToFront(k, s)) = Len(s) + 1
<1>1. CASE k \in I
  <2> DEFINE r == RemoveFirst(s, k)
  <2>1. Listed(r, I \ {k}) /\ Len(r) = Len(s) - 1 /\ Len(s) \in Nat
    <3>1. Len(s) \in Nat
      BY DEF Listed
    <3> QED
      BY <1>1, <3>1, Removed
  <2> HIDE DEF r
  <2>2. Listed(<<k>> \o r, (I \ {k}) \cup {k}) /\ Len(<<k>> \o r) = Len(r) + 1
    BY <2>1, Pushed
  <2>3. (I \ {k}) \cup {k} = I /\ I \cup {k} = I
    BY <1>1
  <2> QED
    <3>1. ToFront(k, s) = <<k>> \o r
      BY DEF ToFront, r
    <3>2. Listed(ToFront(k, s), I \cup {k})
      BY <2>2, <2>3, <3>1
    <3>3. Len(ToFront(k, s)) = Len(s)
      BY <2>1, <2>2, <3>1
    <3> QED
      BY <1>1, <3>2, <3>3
<1>2. CASE k \notin I
  BY <1>2, NotRemoved, Pushed DEF ToFront
<1> QED
  BY <1>1, <1>2

\* A list is as long as the set is large.
LEMMA ListLength ==
    ASSUME NEW s, NEW I, Listed(s, I)
    PROVE  ToSet(s) = I /\ Len(s) = Cardinality(I)
<1>1. s \in [1..Len(s) -> I] /\ Len(s) \in Nat
  BY DEF Listed
<1>2. ToSet(s) = I
  BY <1>1 DEF Listed, ToSet
<1>3. s \in Bijection(1..Len(s), I)
  BY <1>1 DEF Listed, Bijection, Injection, Surjection, IsInjective
<1> QED
  BY <1>1, <1>2, <1>3, FS_CountingElements DEF ExistsBijection

-----------------------------------------------------------------------------
(* The inductive invariant *)

Snaps == [at : 1..4, ok : Nat, fail : Nat, unread : SUBSET Strategies, sumOK : Nat, sumFail : Nat]

Typed == TypeOK /\ snap \in Snaps

CacheInv == Listed(order, items) /\ Len(order) <= Cap

\* What is about to be cached has just worked.
WorkedInv ==
    /\ CachedWorked
    /\ \A c \in Callers : pc[c] = "set" => strategy[c] \in worked[key[c]]

\* The strategies an injection for k may start with.
Base(k) == worked[k] \cup {WrongSeq}

\* The first strategy of an injection is one of those, the second follows one;
\* a second one whose outcome is being recorded has succeeded.
HopInv ==
    /\ OneHop
    /\ \A c \in Callers :
           /\ ~second[c] => strategy[c] \in Base(key[c])
           /\ second[c] => \E b \in Base(key[c]) : strategy[c] = next(b)
           /\ pc[c] = "idle" => ~second[c]
           /\ pc[c] = "set" => ok[c]
           /\ pc[c] \in {"lookup", "create", "add"} /\ second[c] => ok[c]

\* Callers that have recorded a success which the handler has not counted yet,
\* and callers that have recorded a failure and run the fallback.
Uncounted == {c \in Callers : pc[c] = "count"}
Falling == {c \in Callers : pc[c] = "run" /\ second[c]}

\* Counters that do not exist stand at zero; the others count what the
\* handlers have counted and are about to count.
CountInv ==
    /\ \A s \in Strategies : s \notin known => recOK[s] = 0 /\ recFail[s] = 0
    /\ \A c \in Callers : pc[c] = "add" => strategy[c] \in known
    /\ Total(recOK) = bypassOK + Cardinality(Uncounted)
    /\ Total(recFail) = bypassFail + fellBack + Cardinality(Falling)

\* A counter summed over the strategies of U.
Part(f, U, s) == IF s \in U THEN f[s] ELSE 0
Rest(f, U) == Part(f, U, WrongSeq) + Part(f, U, Fragment) + Part(f, U, DesyncBadCS) + Part(f, U, DesyncTTL)

\* What a reader has loaded and is still to load covers the totals it began with.
SnapInv ==
    /\ snap.at < 3 => snap.sumOK = 0 /\ snap.sumFail = 0
    /\ snap.at = 2 => snap.ok <= bypassOK
    /\ snap.at = 3 => /\ snap.ok <= snap.sumOK + Rest(recOK, snap.unread)
                      /\ snap.fail <= snap.sumFail + Rest(recFail, snap.unread)
    /\ snap.at = 4 => snap.ok <= snap.sumOK /\ snap.fail <= snap.sumFail

IInv == Typed /\ CacheInv /\ WorkedInv /\ HopInv /\ CountInv /\ SnapInv

\* get keeps the list and the map together, and adds no key.
LEMMA GetStep ==
    ASSUME NEW k \in Keys, CacheInv, Get(k)
    PROVE  CacheInv' /\ items' \subseteq items
<1>1. Listed(order, items) /\ Len(order) \in Nat /\ Len(order) <= Cap
  BY DEF CacheInv, Listed
<1>2. CASE Hit(k)
  <2>1. k \in items /\ items \cup {k} = items /\ order' = ToFront(k, order) /\ items' = items
    BY <1>2 DEF Hit, Get
  <2>2. Listed(ToFront(k, order), items) /\ Len(ToFront(k, order)) = Len(order)
    <3>1. Listed(ToFront(k, order), items \cup {k}) /\ (k \in items => Len(ToFront(k, order)) = Len(order))
      BY <1>1, InFront, Zenon
    <3> QED
      BY <2>1, <3>1, Zenon
  <2> QED
    BY <1>1, <2>1, <2>2 DEF CacheInv
<1>3. CASE ~Hit(k)
  <2>1. order' = RemoveFirst(order, k) /\ items' = items \ {k}
    BY <1>3 DEF Get
  <2>2. CASE k \in items
    <3>1. Listed(RemoveFirst(order, k), items \ {k}) /\ Len(RemoveFirst(order, k)) = Len(order) - 1
      BY <1>1, <2>2, Removed
    <3> QED
      BY <1>1, <2>1, <3>1, CapAssumption DEF CacheInv
  <2>3. CASE k \notin items
    <3>1. RemoveFirst(order, k) = order /\ items \ {k} = items
      BY <1>1, <2>3, NotRemoved
    <3> QED
      BY <1>1, <2>1, <3>1 DEF CacheInv
  <2> QED
    BY <2>2, <2>3
<1> QED
  BY <1>2, <1>3

\* set keeps the list and the map together, and adds its key only.
LEMMA SetStep ==
    ASSUME NEW k \in Keys, NEW s, CacheInv, Set(k, s)
    PROVE  CacheInv' /\ items' \subseteq items \cup {k}
<1>1. Listed(order, items) /\ Len(order) \in Nat /\ Len(order) <= Cap
  BY DEF CacheInv, Listed
<1>2. CASE k \notin items /\ Len(order) >= Cap
  <2> DEFINE f == Front(order)
             I == items \ {Last(order)}
  <2>1. order' = ToFront(k, f) /\ items' = I \cup {k}
    BY <1>2 DEF Set
  <2>2. Len(order) > 0
    BY <1>1, <1>2, CapAssumption
  <2>3. Listed(f, I) /\ Len(f) = Len(order) - 1
    BY <1>1, <2>2, Dropped
  <2>4. k \notin I
    BY <1>2
  <2> HIDE DEF f, I
  <2>5. Listed(ToFront(k, f), I \cup {k}) /\ Len(ToFront(k, f)) = Len(f) + 1
    BY <2>3, <2>4, InFront
  <2>6. Len(order') <= Cap
    BY <1>1, <2>1, <2>3, <2>5
  <2> QED
    BY <2>1, <2>5, <2>6 DEF CacheInv, I
<1>3. CASE ~(k \notin items /\ Len(order) >= Cap)
  <2>1. order' = ToFront(k, order) /\ items' = items \cup {k}
    BY <1>3 DEF Set
  <2>2. /\ Listed(ToFront(k, order), items \cup {k})
        /\ k \in items => Len(ToFront(k, order)) = Len(order)
        /\ k \notin items => Len(ToFront(k, order)) = Len(order) + 1
    BY <1>1, InFront
  <2>3. Len(order') <= Cap
    BY <1>1, <1>3, <2>1, <2>2, CapAssumption
  <2> QED
    BY <2>1, <2>2, <2>3 DEF CacheInv
<1> QED
  BY <1>2, <1>3

\* Every step keeps the list and the map together.
LEMMA CacheStep ==
    ASSUME Typed, CacheInv, [Next]_vars
    PROVE  CacheInv'
<1>1. ASSUME NEW c \in Callers, Begin(c) PROVE CacheInv'
  BY <1>1, GetStep DEF Begin
<1>2. ASSUME NEW c \in Callers, Cache(c) PROVE CacheInv'
  BY <1>2, SetStep DEF Cache, Typed, TypeOK
<1>3. CASE UNCHANGED <<order, items>>
  BY <1>3 DEF CacheInv
<1>4. ASSUME NEW c \in Callers, CallerNext(c), ~Begin(c), ~Cache(c) PROVE UNCHANGED <<order, items>>
  BY <1>4 DEF CallerNext, RunOk, RunFail, FallbackFail, Lookup, Create, AddOk, AddFail, Count, cacheVars
<1>5. SnapNext \/ Tick \/ UNCHANGED vars => UNCHANGED <<order, items>>
  BY DEF SnapNext, SnapLoadOK, SnapLoadFail, SnapLoadStrategy, SnapUnlock, SnapReturn, Tick, vars, cacheVars
<1> QED
  BY <1>1, <1>2, <1>3, <1>4, <1>5 DEF Next

\* A snapshot under way keeps its type.
LEMMA SnapTypeStep ==
    ASSUME Typed, SnapNext
    PROVE  snap' \in Snaps
<1> USE DEF Typed
<1>1. /\ snap \in Snaps /\ bypassOK \in Nat /\ bypassFail \in Nat /\ known \in SUBSET Strategies
      /\ recOK \in [Strategies -> Nat] /\ recFail \in [Strategies -> Nat]
  BY DEF TypeOK
<1>2. ASSUME NEW x \in Snaps, NEW i \in 1..4 PROVE SnapGoto(i, x) \in Snaps
  BY <1>1 DEF SnapGoto, Snaps
<1>3. CASE SnapLoadOK
  <2>1. [snap EXCEPT !.ok = bypassOK] \in Snaps /\ snap.at + 1 \in 1..4
    BY <1>1, <1>3 DEF SnapLoadOK, At, SnapOrder, Snaps
  <2> QED
    BY <1>2, <1>3, <2>1, Zenon DEF SnapLoadOK
<1>4. CASE SnapLoadFail
  <2>1. [snap EXCEPT !.fail = bypassFail] \in Snaps /\ snap.at + 1 \in 1..4
    BY <1>1, <1>4 DEF SnapLoadFail, At, SnapOrder, Snaps
  <2> QED
    BY <1>2, <1>4, <2>1, Zenon DEF SnapLoadFail
<1>5. ASSUME NEW s \in Strategies, SnapLoadStrategy(s) PROVE snap' \in Snaps
  <2>1. /\ snap.unread \ {s} \in SUBSET Strategies
        /\ snap.sumOK + recOK[s] \in Nat /\ snap.sumFail + recFail[s] \in Nat
    BY <1>1 DEF Snaps
  <2> QED
    BY <1>1, <1>5, <2>1 DEF SnapLoadStrategy, Snaps
<1>6. CASE SnapUnlock
  <2>1. snap.at + 1 \in 1..4
    BY <1>1, <1>6 DEF SnapUnlock, At, SnapOrder, Snaps
  <2> QED
    BY <1>1, <1>2, <1>6, <2>1, Zenon DEF SnapUnlock
<1>7. CASE SnapReturn
  <2>1. NoSnap \in Snaps /\ 1 \in 1..4
    BY DEF NoSnap, Snaps
  <2> QED
    BY <1>2, <1>7, <2>1, Zenon DEF SnapReturn
<1> QED
  BY <1>3, <1>4, <1>5, <1>6, <1>7 DEF SnapNext

\* The chain stays among the strategies.
LEMMA NextType == ASSUME NEW s \in Strategies PROVE next(s) \in Strategies
BY DEF next, Strategies, WrongSeq, DesyncTTL

\* A run is added to the history of its destination.
LEMMA Noted ==
    ASSUME NEW f \in [Keys -> SUBSET Strategies], NEW k \in Keys, NEW s \in Strategies, NEW g,
           g = [f EXCEPT ![k] = @ \cup {s}]
    PROVE  g \in [Keys -> SUBSET Strategies]
<1>1. f[k] \cup {s} \in SUBSET Strategies
  OBVIOUS
<1> QED
  BY <1>1

\* Every step keeps the types.
LEMMA TypedStep ==
    ASSUME Typed, CacheInv, [Next]_vars
    PROVE  Typed'
<1>1. order' \in Seq(Keys)
  BY CacheStep DEF CacheInv, Listed
<1>2. AnyKey \in Keys /\ WrongSeq \in Strategies
  BY SetsAssumption DEF AnyKey, Strategies, WrongSeq, DesyncTTL
<1>3. ASSUME NEW c \in Callers, Begin(c) PROVE Typed'
  <2>1. PICK k \in Keys :
          /\ key' = [key EXCEPT ![c] = k]
          /\ Get(k)
          /\ strategy' = [strategy EXCEPT ![c] = IF Hit(k) THEN strat[k] ELSE WrongSeq]
    BY <1>3 DEF Begin
  <2>2. items' \subseteq items
    BY <2>1, GetStep
  <2>3. strategy' \in [Callers -> Strategies] /\ key' \in [Callers -> Keys]
    <3>1. (IF Hit(k) THEN strat[k] ELSE WrongSeq) \in Strategies
      BY <1>2 DEF Typed, TypeOK
    <3> QED
      BY <2>1, <3>1 DEF Typed, TypeOK
  <2>4. runs' \in 0..MaxRuns /\ pc' \in [Callers -> {"idle", "run", "set", "lookup", "create", "add", "count"}]
    BY <1>3, TtlAssumption DEF Begin, Typed, TypeOK
  <2>5. UNCHANGED <<strat, left, second, ok, statVars, recVars, snap, histVars, bypassOK, bypassFail, fellBack,
                    known, recOK, recFail, worked, tried>>
    BY <1>3, <2>1 DEF Begin, Get, statVars, recVars, histVars
  <2> QED
    BY <1>1, <2>2, <2>3, <2>4, <2>5 DEF Typed, TypeOK
<1>4. ASSUME NEW c \in Callers, Cache(c) PROVE Typed'
  <2>1. items' \subseteq items \cup {key[c]} /\ key[c] \in Keys /\ strategy[c] \in Strategies
    BY <1>4, SetStep DEF Cache, Typed, TypeOK
  <2> QED
    BY <1>1, <1>4, <2>1, TtlAssumption DEF Cache, Set, Typed, TypeOK, statVars, recVars, histVars
<1>5. ASSUME NEW c \in Callers, RunOk(c) \/ RunFail(c) PROVE Typed'
  <2>1. /\ key[c] \in Keys /\ strategy[c] \in Strategies /\ Try(c)
        /\ worked' = worked \/ worked' = [worked EXCEPT ![key[c]] = worked[key[c]] \cup {strategy[c]}]
        /\ fellBack' = fellBack \/ fellBack' = fellBack + 1
        /\ ok' = ok \/ ok' = [ok EXCEPT ![c] = TRUE]
        /\ pc' = [pc EXCEPT ![c] = "set"] \/ pc' = [pc EXCEPT ![c] = "lookup"]
        /\ UNCHANGED <<cacheVars, key, strategy, second, runs, statVars, snap>>
    BY <1>5 DEF RunOk, RunFail, Typed, TypeOK
  <2>2. worked' \in [Keys -> SUBSET Strategies] /\ tried' \in [Keys -> SUBSET Strategies]
    BY <2>1, Noted DEF Try, Typed, TypeOK
  <2>3. fellBack' \in Nat
    BY <2>1 DEF Typed, TypeOK
  <2> QED
    BY <2>1, <2>2, <2>3 DEF Typed, TypeOK, cacheVars, statVars, recVars
<1>6. ASSUME NEW c \in Callers, FallbackFail(c) \/ Count(c) PROVE Typed'
  <2>1. /\ bypassOK' \in Nat /\ bypassFail' \in Nat
        /\ UNCHANGED <<cacheVars, runs, recVars, snap, fellBack, worked>>
    BY <1>6 DEF FallbackFail, Count, Typed, TypeOK, histVars
  <2>2. tried' \in [Keys -> SUBSET Strategies]
    <3>1. key[c] \in Keys /\ strategy[c] \in Strategies /\ tried \in [Keys -> SUBSET Strategies]
      BY DEF Typed, TypeOK
    <3>2. tried' = tried \/ tried' = [tried EXCEPT ![key[c]] = @ \cup {strategy[c]}]
      BY <1>6 DEF FallbackFail, Count, Try, histVars
    <3> QED
      BY <3>1, <3>2, Noted
  <2>3. Return(c)
    BY <1>6 DEF FallbackFail, Count
  <2> QED
    BY <1>2, <2>1, <2>2, <2>3 DEF Return, Typed, TypeOK, cacheVars, recVars
<1>7. ASSUME NEW c \in Callers, Lookup(c) PROVE Typed'
  BY <1>7 DEF Lookup, Typed, TypeOK, cacheVars, statVars, recVars, histVars
<1>8. ASSUME NEW c \in Callers, Create(c) PROVE Typed'
  BY <1>8 DEF Create, Created, NewCounters, Typed, TypeOK, cacheVars, recVars, histVars
<1>9. ASSUME NEW c \in Callers, AddOk(c) PROVE Typed'
  BY <1>9 DEF AddOk, Typed, TypeOK, cacheVars, histVars
<1>10. ASSUME NEW c \in Callers, AddFail(c) PROVE Typed'
  BY <1>10, NextType DEF AddFail, Typed, TypeOK, cacheVars, histVars
<1>11. CASE SnapNext
  <2>1. UNCHANGED <<cacheVars, callVars, statVars, histVars>>
    BY <1>11 DEF SnapNext, SnapLoadOK, SnapLoadFail, SnapLoadStrategy, SnapUnlock, SnapReturn
  <2>2. snap' \in Snaps
    BY <1>11, SnapTypeStep
  <2> QED
    BY <2>1, <2>2 DEF Typed, TypeOK, cacheVars, callVars, statVars, recVars, histVars
<1>12. CASE Tick
  BY <1>12, TtlAssumption DEF Tick, Typed, TypeOK, callVars, statVars, recVars, histVars
<1>13. CASE UNCHANGED vars
  BY <1>13 DEF vars, Typed, TypeOK, cacheVars, callVars, statVars, recVars, histVars
<1> QED
  BY <1>3, <1>4, <1>5, <1>6, <1>7, <1>8, <1>9, <1>10, <1>11, <1>12, <1>13 DEF Next, CallerNext

\* Every step leaves what is cached, and what is going to be, among what worked.
LEMMA WorkedStep ==
    ASSUME Typed, CacheInv, WorkedInv, [Next]_vars
    PROVE  WorkedInv'
<1> USE DEF WorkedInv, CachedWorked
<1>1. /\ items \subseteq Keys /\ key \in [Callers -> Keys] /\ strategy \in [Callers -> Strategies]
      /\ strat \in [Keys -> Strategies] /\ worked \in [Keys -> SUBSET Strategies]
      /\ pc \in [Callers -> {"idle", "run", "set", "lookup", "create", "add", "count"}]
  BY DEF Typed, TypeOK
<1>2. ASSUME NEW c \in Callers, Begin(c) PROVE WorkedInv'
  <2>1. PICK k \in Keys : key' = [key EXCEPT ![c] = k] /\ Get(k)
    BY <1>2 DEF Begin
  <2>2. items' \subseteq items /\ UNCHANGED <<strat, worked>>
    BY <1>2, <2>1, GetStep DEF Get, Begin, histVars
  <2>3. \A d \in Callers : pc'[d] = "set" => pc[d] = "set" /\ strategy'[d] = strategy[d] /\ key'[d] = key[d]
    BY <1>1, <1>2, <2>1 DEF Begin
  <2> QED
    BY <2>2, <2>3
<1>3. ASSUME NEW c \in Callers, Cache(c) PROVE WorkedInv'
  <2>1. items' \subseteq items \cup {key[c]} /\ UNCHANGED <<strategy, key, worked>>
    BY <1>1, <1>3, SetStep DEF Cache, histVars
  <2>2. strat' = [strat EXCEPT ![key[c]] = strategy[c]] /\ strategy[c] \in worked[key[c]]
    BY <1>3 DEF Cache, Set
  <2>3. \A d \in Callers : pc'[d] = "set" => pc[d] = "set"
    BY <1>1, <1>3 DEF Cache
  <2> QED
    BY <1>1, <2>1, <2>2, <2>3
<1>4. ASSUME NEW c \in Callers, RunOk(c) PROVE WorkedInv'
  <2>1. /\ UNCHANGED <<items, strat, key, strategy>>
        /\ worked' = [worked EXCEPT ![key[c]] = worked[key[c]] \cup {strategy[c]}]
    BY <1>4 DEF RunOk, cacheVars
  <2>2. \A k \in Keys : worked[k] \subseteq worked'[k]
    BY <1>1, <2>1
  <2>3. strategy[c] \in worked'[key[c]]
    BY <1>1, <2>1
  <2>4. \A d \in Callers : pc'[d] = "set" => pc[d] = "set" \/ d = c
    BY <1>1, <1>4 DEF RunOk
  <2> QED
    BY <1>1, <2>1, <2>2, <2>3, <2>4
<1>5. ASSUME NEW c \in Callers, CallerNext(c), ~Begin(c), ~Cache(c), ~RunOk(c) PROVE WorkedInv'
  <2>1. /\ UNCHANGED <<items, strat, worked>>
        /\ \A d \in Callers : pc'[d] = "set" => pc[d] = "set" /\ strategy'[d] = strategy[d] /\ key'[d] = key[d]
    BY <1>1, <1>5 DEF CallerNext, RunFail, FallbackFail, Lookup, Create, AddOk, AddFail, Count, Return,
                      cacheVars, histVars
  <2> QED
    BY <2>1
<1>6. CASE SnapNext \/ Tick \/ UNCHANGED vars
  BY <1>6 DEF SnapNext, SnapLoadOK, SnapLoadFail, SnapLoadStrategy, SnapUnlock, SnapReturn, Tick,
              vars, cacheVars, callVars, histVars
<1> QED
  BY <1>2, <1>3, <1>4, <1>5, <1>6 DEF Next

\* Every step keeps an injection within one hop of what has worked.
LEMMA HopStep ==
    ASSUME Typed, CacheInv, WorkedInv, HopInv, [Next]_vars
    PROVE  HopInv'
<1> DEFINE Caller(c) == /\ ~second[c] => strategy[c] \in Base(key[c])
                        /\ second[c] => \E b \in Base(key[c]) : strategy[c] = next(b)
                        /\ pc[c] = "idle" => ~second[c]
                        /\ pc[c] = "set" => ok[c]
                        /\ pc[c] \in {"lookup", "create", "add"} /\ second[c] => ok[c]
<1>1. /\ items \subseteq Keys /\ key \in [Callers -> Keys] /\ strategy \in [Callers -> Strategies]
      /\ strat \in [Keys -> Strategies] /\ worked \in [Keys -> SUBSET Strategies]
      /\ tried \in [Keys -> SUBSET Strategies]
      /\ second \in [Callers -> BOOLEAN] /\ ok \in [Callers -> BOOLEAN]
      /\ pc \in [Callers -> {"idle", "run", "set", "lookup", "create", "add", "count"}]
  BY DEF Typed, TypeOK
<1>2. /\ \A k \in Keys : \A s \in tried[k] : s \in Base(k) \/ \E b \in Base(k) : s = next(b)
      /\ \A c \in Callers : Caller(c)
  BY DEF HopInv, OneHop, Base
<1>3. ASSUME NEW c \in Callers,
             \A d \in Callers \ {c} :
                 /\ pc'[d] = pc[d] /\ key'[d] = key[d] /\ strategy'[d] = strategy[d]
                 /\ second'[d] = second[d] /\ ok'[d] = ok[d],
             \A k \in Keys : worked[k] \subseteq worked'[k],
             UNCHANGED tried \/ Try(c),
             Caller(c)'
      PROVE  HopInv'
  <2>1. \A k \in Keys : Base(k) \subseteq Base(k)'
    BY <1>3 DEF Base
  <2>2. ASSUME NEW k \in Keys, NEW s \in tried'[k]
        PROVE  s \in Base(k)' \/ \E b \in Base(k)' : s = next(b)
    <3>1. CASE s \in tried[k]
      BY <1>2, <2>1, <3>1
    <3>2. CASE s \notin tried[k]
      <4>1. k = key[c] /\ s = strategy[c]
        BY <1>1, <1>3, <2>2, <3>2 DEF Try
      <4>2. s \in Base(k) \/ \E b \in Base(k) : s = next(b)
        BY <1>2, <4>1
      <4> QED
        BY <2>1, <4>2
    <3> QED
      BY <3>1, <3>2
  <2>3. ASSUME NEW d \in Callers PROVE Caller(d)'
    <3>1. CASE d = c
      BY <1>3, <3>1
    <3>2. CASE d # c
      <4>1. Base(key[d]) \subseteq worked'[key[d]] \cup {WrongSeq}
        BY <1>1, <2>1 DEF Base
      <4>2. Caller(d) /\ d \in Callers \ {c}
        BY <1>2, <3>2
      <4> QED
        BY <1>3, <4>1, <4>2 DEF Base
    <3> QED
      BY <3>1, <3>2
  <2> HIDE DEF Caller
  <2>4. OneHop'
    BY <2>2 DEF OneHop, Base
  <2> QED
    BY <2>3, <2>4 DEF HopInv, Caller
<1>4. ASSUME NEW c \in Callers, Begin(c) PROVE HopInv'
  <2>1. PICK k \in Keys :
          /\ key' = [key EXCEPT ![c] = k]
          /\ strategy' = [strategy EXCEPT ![c] = IF Hit(k) THEN strat[k] ELSE WrongSeq]
    BY <1>4 DEF Begin
  <2>2. /\ pc' = [pc EXCEPT ![c] = "run"] /\ UNCHANGED <<second, ok, worked, tried>> /\ ~second[c]
    BY <1>2, <1>4 DEF Begin, histVars
  <2>3. (IF Hit(k) THEN strat[k] ELSE WrongSeq) \in worked[k] \cup {WrongSeq}
    BY DEF Hit, WorkedInv, CachedWorked
  <2>4. Caller(c)'
    BY <1>1, <2>1, <2>2, <2>3 DEF Base
  <2> QED
    BY <1>1, <1>3, <2>1, <2>2, <2>4
<1>5. ASSUME NEW c \in Callers, RunOk(c) PROVE HopInv'
  <2>1. /\ UNCHANGED <<key, strategy, second>> /\ Try(c)
        /\ worked' = [worked EXCEPT ![key[c]] = worked[key[c]] \cup {strategy[c]}]
        /\ ok' = [ok EXCEPT ![c] = TRUE] /\ pc' = [pc EXCEPT ![c] = "set"]
    BY <1>5 DEF RunOk
  <2>2. \A k \in Keys : worked[k] \subseteq worked'[k]
    BY <1>1, <2>1
  <2>3. Base(key[c]) \subseteq worked'[key[c]] \cup {WrongSeq} /\ Caller(c)
    BY <1>1, <1>2, <2>2 DEF Base
  <2>4. Caller(c)'
    BY <1>1, <2>1, <2>3 DEF Base
  <2> QED
    BY <1>1, <1>3, <2>1, <2>2, <2>4
<1>6. ASSUME NEW c \in Callers, RunFail(c) PROVE HopInv'
  <2>1. /\ UNCHANGED <<key, strategy, second, ok, worked>> /\ Try(c) /\ ~second[c]
        /\ pc' = [pc EXCEPT ![c] = "lookup"]
    BY <1>6 DEF RunFail
  <2>2. Caller(c)'
    BY <1>1, <1>2, <2>1 DEF Base
  <2> QED
    BY <1>1, <1>3, <2>1, <2>2
<1>7. ASSUME NEW c \in Callers, FallbackFail(c) \/ Count(c) PROVE HopInv'
  <2>1. UNCHANGED worked /\ Return(c) /\ (UNCHANGED tried \/ Try(c))
    BY <1>7 DEF FallbackFail, Count, histVars
  <2>2. Caller(c)'
    BY <1>1, <2>1 DEF Return, Base
  <2> QED
    BY <1>1, <1>3, <2>1, <2>2 DEF Return
<1>8. ASSUME NEW c \in Callers, Cache(c) \/ Lookup(c) \/ Create(c) \/ AddOk(c) PROVE HopInv'
  <2>1. /\ UNCHANGED <<key, strategy, second, ok, worked, tried>>
        /\ \/ pc[c] = "set" /\ pc' = [pc EXCEPT ![c] = "lookup"]
           \/ pc[c] \in {"lookup", "create"} /\ \E p \in {"create", "add"} : pc' = [pc EXCEPT ![c] = p]
           \/ pc[c] = "add" /\ pc' = [pc EXCEPT ![c] = "count"]
    BY <1>8 DEF Cache, Lookup, Create, AddOk, histVars
  <2>2. Caller(c)'
    BY <1>1, <1>2, <2>1 DEF Base
  <2> QED
    BY <1>1, <1>3, <2>1, <2>2
<1>9. ASSUME NEW c \in Callers, AddFail(c) PROVE HopInv'
  <2>1. /\ UNCHANGED <<key, ok, worked, tried>> /\ ~ok[c] /\ pc[c] = "add"
        /\ strategy' = [strategy EXCEPT ![c] = next(strategy[c])]
        /\ second' = [second EXCEPT ![c] = TRUE] /\ pc' = [pc EXCEPT ![c] = "run"]
    BY <1>9 DEF AddFail, histVars
  <2>2. strategy[c] \in worked[key[c]] \cup {WrongSeq}
    BY <1>2, <2>1 DEF Base
  <2>3. Caller(c)'
    BY <1>1, <2>1, <2>2 DEF Base
  <2> QED
    BY <1>1, <1>3, <2>1, <2>3
<1>10. CASE SnapNext \/ Tick \/ UNCHANGED vars
  <2>1. UNCHANGED <<pc, key, strategy, second, ok, worked, tried>>
    BY <1>10 DEF SnapNext, SnapLoadOK, SnapLoadFail, SnapLoadStrategy, SnapUnlock, SnapReturn, Tick,
                 vars, callVars, histVars
  <2> QED
    BY <2>1 DEF HopInv, OneHop, Base
<1> QED
  BY <1>4, <1>5, <1>6, <1>7, <1>8, <1>9, <1>10 DEF Next, CallerNext

-----------------------------------------------------------------------------
(* The counters *)

\* Adding or removing one element moves the cardinality by one.
LEMMA CountMove ==
    ASSUME NEW A, NEW B, IsFiniteSet(A), IsFiniteSet(B), NEW c,
           \A x : x # c => (x \in A <=> x \in B)
    PROVE  /\ Cardinality(A) \in Nat /\ Cardinality(B) \in Nat
           /\ (c \in A <=> c \in B) => Cardinality(B) = Cardinality(A)
           /\ c \notin A /\ c \in B => Cardinality(B) = Cardinality(A) + 1
           /\ c \in A /\ c \notin B => Cardinality(B) = Cardinality(A) - 1
<1>1. Cardinality(A) \in Nat /\ Cardinality(B) \in Nat
  BY FS_CardinalityType
<1>2. ASSUME c \in A <=> c \in B PROVE A = B
  BY <1>2
<1>3. ASSUME c \notin A, c \in B PROVE B = A \cup {c}
  BY <1>3
<1>4. ASSUME c \in A, c \notin B PROVE A = B \cup {c}
  BY <1>4
<1>5. c \in A /\ c \notin B => Cardinality(A) = Cardinality(B) + 1
  BY <1>4, FS_AddElement
<1>6. c \notin A /\ c \in B => Cardinality(B) = Cardinality(A) + 1
  BY <1>3, FS_AddElement
<1> QED
  BY <1>1, <1>2, <1>5, <1>6

\* A step of one caller moves that caller only.
LEMMA CallerMove ==
    ASSUME NEW c \in Callers, \A d \in Callers \ {c} : pc'[d] = pc[d] /\ second'[d] = second[d]
    PROVE  /\ Cardinality(Uncounted) \in Nat /\ Cardinality(Uncounted') \in Nat
           /\ (pc[c] = "count" <=> pc'[c] = "count") => Cardinality(Uncounted') = Cardinality(Uncounted)
           /\ pc[c] # "count" /\ pc'[c] = "count" => Cardinality(Uncounted') = Cardinality(Uncounted) + 1
           /\ pc[c] = "count" /\ pc'[c] # "count" => Cardinality(Uncounted') = Cardinality(Uncounted) - 1
           /\ Cardinality(Falling) \in Nat /\ Cardinality(Falling') \in Nat
           /\ (pc[c] = "run" /\ second[c] <=> pc'[c] = "run" /\ second'[c]) =>
                  Cardinality(Falling') = Cardinality(Falling)
           /\ ~(pc[c] = "run" /\ second[c]) /\ pc'[c] = "run" /\ second'[c] =>
                  Cardinality(Falling') = Cardinality(Falling) + 1
           /\ pc[c] = "run" /\ second[c] /\ ~(pc'[c] = "run" /\ second'[c]) =>
                  Cardinality(Falling') = Cardinality(Falling) - 1
<1> DEFINE A == Uncounted
           B == Uncounted'
           C == Falling
           D == Falling'
<1>1. IsFiniteSet(A) /\ IsFiniteSet(B) /\ IsFiniteSet(C) /\ IsFiniteSet(D)
  <2>1. A \subseteq Callers /\ B \subseteq Callers /\ C \subseteq Callers /\ D \subseteq Callers
    BY DEF Uncounted, Falling
  <2> QED
    BY <2>1, SetsAssumption, FS_Subset
<1>2. /\ \A x : x # c => (x \in A <=> x \in B)
      /\ \A x : x # c => (x \in C <=> x \in D)
      /\ c \in A <=> pc[c] = "count"
      /\ c \in B <=> pc'[c] = "count"
      /\ c \in C <=> pc[c] = "run" /\ second[c]
      /\ c \in D <=> pc'[c] = "run" /\ second'[c]
  BY DEF Uncounted, Falling
<1> HIDE DEF A, B, C, D
<1>3. /\ Cardinality(A) \in Nat /\ Cardinality(B) \in Nat
      /\ (c \in A <=> c \in B) => Cardinality(B) = Cardinality(A)
      /\ c \notin A /\ c \in B => Cardinality(B) = Cardinality(A) + 1
      /\ c \in A /\ c \notin B => Cardinality(B) = Cardinality(A) - 1
  BY <1>1, <1>2, CountMove
<1>4. /\ Cardinality(C) \in Nat /\ Cardinality(D) \in Nat
      /\ (c \in C <=> c \in D) => Cardinality(D) = Cardinality(C)
      /\ c \notin C /\ c \in D => Cardinality(D) = Cardinality(C) + 1
      /\ c \in C /\ c \notin D => Cardinality(D) = Cardinality(C) - 1
  BY <1>1, <1>2, CountMove
<1> QED
  BY <1>2, <1>3, <1>4 DEF A, B, C, D

\* The total follows its counters.
LEMMA TotalAdd ==
    ASSUME NEW f \in [Strategies -> Nat], NEW s \in Strategies, NEW g, g = [f EXCEPT ![s] = @ + 1]
    PROVE  Total(f) \in Nat /\ Total(g) = Total(f) + 1
<1>1. s = 0 \/ s = 1 \/ s = 2 \/ s = 3
  BY DEF Strategies, WrongSeq, DesyncTTL
<1>2. f[0] \in Nat /\ f[1] \in Nat /\ f[2] \in Nat /\ f[3] \in Nat
  BY DEF Strategies, WrongSeq, DesyncTTL
<1>3. g[s] = f[s] + 1 /\ \A r \in 0..3 : r # s => g[r] = f[r]
  BY DEF Strategies, WrongSeq, DesyncTTL
<1>4. g[0] + g[1] + g[2] + g[3] = f[0] + f[1] + f[2] + f[3] + 1
  BY <1>1, <1>2, <1>3
<1> QED
  BY <1>2, <1>4 DEF Total, WrongSeq, Fragment, DesyncBadCS, DesyncTTL

\* Creating counters changes no value.
LEMMA CreatedKeeps ==
    ASSUME Typed, CountInv, NEW s \in Strategies, Created(s)
    PROVE  UNCHANGED <<recOK, recFail>> /\ known' = known \cup {s}
<1>1. CASE s \in known
  BY <1>1 DEF Created, recVars
<1>2. CASE s \notin known
  <2>1. /\ known' = known \cup {s}
        /\ recOK' = [recOK EXCEPT ![s] = 0] /\ recFail' = [recFail EXCEPT ![s] = 0]
    BY <1>2 DEF Created, NewCounters
  <2>2. recOK[s] = 0 /\ recFail[s] = 0 /\ recOK \in [Strategies -> Nat] /\ recFail \in [Strategies -> Nat]
    BY <1>2 DEF CountInv, Typed, TypeOK
  <2> QED
    BY <2>1, <2>2
<1> QED
  BY <1>1, <1>2

\* Every step keeps the counters in line.
LEMMA CountStep ==
    ASSUME Typed, HopInv, CountInv, [Next]_vars
    PROVE  CountInv'
<1> DEFINE u == Cardinality(Uncounted)
           v == Cardinality(Falling)
<1>1. /\ strategy \in [Callers -> Strategies] /\ second \in [Callers -> BOOLEAN]
      /\ pc \in [Callers -> {"idle", "run", "set", "lookup", "create", "add", "count"}]
      /\ recOK \in [Strategies -> Nat] /\ recFail \in [Strategies -> Nat]
      /\ bypassOK \in Nat /\ bypassFail \in Nat /\ fellBack \in Nat
  BY DEF Typed, TypeOK
<1>2. /\ \A s \in Strategies : s \notin known => recOK[s] = 0 /\ recFail[s] = 0
      /\ \A c \in Callers : pc[c] = "add" => strategy[c] \in known
      /\ Total(recOK) = bypassOK + u
      /\ Total(recFail) = bypassFail + fellBack + v
  BY DEF CountInv
<1>3. ASSUME NEW c \in Callers, Begin(c) PROVE CountInv'
  <2>1. /\ UNCHANGED <<second, known, recOK, recFail, bypassOK, bypassFail, fellBack>>
        /\ pc[c] = "idle" /\ ~second[c] /\ pc' = [pc EXCEPT ![c] = "run"]
        /\ \A d \in Callers \ {c} : strategy'[d] = strategy[d]
    BY <1>1, <1>3 DEF Begin, HopInv, statVars, recVars, histVars
  <2>2. u' = u /\ v' = v
    BY <1>1, <2>1, CallerMove
  <2>3. \A d \in Callers : pc'[d] = "add" => strategy'[d] \in known'
    BY <1>1, <1>2, <2>1
  <2> QED
    BY <1>2, <2>1, <2>2, <2>3 DEF CountInv
<1>4. ASSUME NEW c \in Callers, RunOk(c) PROVE CountInv'
  <2>1. /\ UNCHANGED <<strategy, second, known, recOK, recFail, bypassOK, bypassFail>>
        /\ pc[c] = "run" /\ pc' = [pc EXCEPT ![c] = "set"]
        /\ second[c] => fellBack' = fellBack + 1
        /\ ~second[c] => fellBack' = fellBack
    BY <1>4 DEF RunOk, statVars, recVars
  <2>2. u' = u /\ v \in Nat /\ (second[c] => v' = v - 1) /\ (~second[c] => v' = v)
    BY <1>1, <2>1, CallerMove
  <2>3. fellBack' + v' = fellBack + v
    BY <1>1, <2>1, <2>2
  <2>4. \A d \in Callers : pc'[d] = "add" => strategy'[d] \in known'
    BY <1>1, <1>2, <2>1
  <2>5. v' \in Nat /\ fellBack' \in Nat
    BY <1>1, <2>1, CallerMove
  <2>6. bypassFail + fellBack' + v' = bypassFail + fellBack + v
    BY <1>1, <2>2, <2>3, <2>5
  <2> QED
    BY <1>2, <2>1, <2>2, <2>4, <2>6 DEF CountInv
<1>5. ASSUME NEW c \in Callers, RunFail(c) PROVE CountInv'
  <2>1. /\ UNCHANGED <<strategy, second, known, recOK, recFail, bypassOK, bypassFail, fellBack>>
        /\ pc[c] = "run" /\ ~second[c] /\ pc' = [pc EXCEPT ![c] = "lookup"]
    BY <1>5 DEF RunFail, statVars, recVars
  <2>2. u' = u /\ v' = v
    BY <1>1, <2>1, CallerMove
  <2>3. \A d \in Callers : pc'[d] = "add" => strategy'[d] \in known'
    BY <1>1, <1>2, <2>1
  <2> QED
    BY <1>2, <2>1, <2>2, <2>3 DEF CountInv
<1>6. ASSUME NEW c \in Callers, FallbackFail(c) PROVE CountInv'
  <2>1. /\ UNCHANGED <<known, recOK, recFail, bypassOK, fellBack>> /\ bypassFail' = bypassFail + 1
        /\ pc[c] = "run" /\ second[c] /\ Return(c)
    BY <1>6 DEF FallbackFail, recVars
  <2>2. u' = u /\ v' = v - 1 /\ v \in Nat
    BY <1>1, <2>1, CallerMove DEF Return
  <2>3. \A d \in Callers : pc'[d] = "add" => strategy'[d] \in known'
    BY <1>1, <1>2, <2>1 DEF Return
  <2>4. bypassFail' + fellBack + v' = bypassFail + fellBack + v
    BY <1>1, <2>1, <2>2
  <2> QED
    BY <1>2, <2>1, <2>2, <2>3, <2>4 DEF CountInv
<1>7. ASSUME NEW c \in Callers, Cache(c) \/ Lookup(c) PROVE CountInv'
  <2>1. /\ UNCHANGED <<strategy, second, known, recOK, recFail, bypassOK, bypassFail, fellBack>>
        /\ pc[c] \in {"set", "lookup"}
        /\ \E p \in {"lookup", "create", "add"} :
               pc' = [pc EXCEPT ![c] = p] /\ (p = "add" => strategy[c] \in known)
    BY <1>7 DEF Cache, Lookup, statVars, recVars, histVars
  <2>2. u' = u /\ v' = v
    BY <1>1, <2>1, CallerMove
  <2>3. \A d \in Callers : pc'[d] = "add" => strategy'[d] \in known'
    BY <1>1, <1>2, <2>1
  <2> QED
    BY <1>2, <2>1, <2>2, <2>3 DEF CountInv
<1>8. ASSUME NEW c \in Callers, Create(c) PROVE CountInv'
  <2>1. /\ UNCHANGED <<strategy, second, bypassOK, bypassFail, fellBack>>
        /\ pc[c] = "create" /\ pc' = [pc EXCEPT ![c] = "add"]
    BY <1>8 DEF Create, histVars
  <2>2. UNCHANGED <<recOK, recFail>> /\ known' = known \cup {strategy[c]}
    BY <1>1, <1>8, CreatedKeeps DEF Create
  <2>3. u' = u /\ v' = v
    BY <1>1, <2>1, CallerMove
  <2>4. \A d \in Callers : pc'[d] = "add" => strategy'[d] \in known'
    BY <1>1, <1>2, <2>1, <2>2
  <2> QED
    BY <1>2, <2>1, <2>2, <2>3, <2>4 DEF CountInv
<1>9. ASSUME NEW c \in Callers, AddOk(c) PROVE CountInv'
  <2>1. /\ UNCHANGED <<strategy, second, known, recFail, bypassOK, bypassFail, fellBack>>
        /\ pc[c] = "add" /\ pc' = [pc EXCEPT ![c] = "count"]
        /\ recOK' = [recOK EXCEPT ![strategy[c]] = @ + 1]
    BY <1>9 DEF AddOk, histVars
  <2>2. u' = u + 1 /\ v' = v /\ u \in Nat
    BY <1>1, <2>1, CallerMove
  <2>3. Total(recOK') = Total(recOK) + 1
    BY <1>1, <2>1, TotalAdd
  <2>4. \A s \in Strategies : s \notin known' => recOK'[s] = 0 /\ recFail'[s] = 0
    BY <1>1, <1>2, <2>1
  <2>5. \A d \in Callers : pc'[d] = "add" => strategy'[d] \in known'
    BY <1>1, <1>2, <2>1
  <2>6. Total(recOK)' = bypassOK + u + 1
    BY <1>2, <2>3 DEF Total
  <2> QED
    BY <1>1, <1>2, <2>1, <2>2, <2>4, <2>5, <2>6 DEF CountInv
<1>10. ASSUME NEW c \in Callers, AddFail(c) PROVE CountInv'
  <2>1. /\ UNCHANGED <<known, recOK, bypassOK, bypassFail, fellBack>>
        /\ pc[c] = "add" /\ pc' = [pc EXCEPT ![c] = "run"]
        /\ second' = [second EXCEPT ![c] = TRUE]
        /\ recFail' = [recFail EXCEPT ![strategy[c]] = @ + 1]
        /\ \A d \in Callers \ {c} : strategy'[d] = strategy[d]
    BY <1>1, <1>10 DEF AddFail, histVars
  <2>2. u' = u /\ v' = v + 1 /\ v \in Nat
    BY <1>1, <2>1, CallerMove
  <2>3. Total(recFail') = Total(recFail) + 1
    BY <1>1, <2>1, TotalAdd
  <2>4. \A s \in Strategies : s \notin known' => recOK'[s] = 0 /\ recFail'[s] = 0
    BY <1>1, <1>2, <2>1
  <2>5. \A d \in Callers : pc'[d] = "add" => strategy'[d] \in known'
    BY <1>1, <1>2, <2>1
  <2>6. Total(recFail)' = bypassFail + fellBack + v + 1
    BY <1>2, <2>3 DEF Total
  <2> QED
    BY <1>1, <1>2, <2>1, <2>2, <2>4, <2>5, <2>6 DEF CountInv
<1>11. ASSUME NEW c \in Callers, Count(c) PROVE CountInv'
  <2>1. /\ UNCHANGED <<known, recOK, recFail, bypassFail, fellBack>> /\ bypassOK' = bypassOK + 1
        /\ pc[c] = "count" /\ Return(c)
    BY <1>11 DEF Count, recVars, histVars
  <2>2. u' = u - 1 /\ v' = v /\ u \in Nat
    BY <1>1, <2>1, CallerMove DEF Return
  <2>3. \A d \in Callers : pc'[d] = "add" => strategy'[d] \in known'
    BY <1>1, <1>2, <2>1 DEF Return
  <2>4. bypassOK' + u' = bypassOK + u
    BY <1>1, <2>1, <2>2
  <2> QED
    BY <1>2, <2>1, <2>2, <2>3, <2>4 DEF CountInv
<1>12. CASE SnapNext \/ Tick \/ UNCHANGED vars
  <2>1. UNCHANGED <<pc, strategy, second, known, recOK, recFail, bypassOK, bypassFail, fellBack>>
    BY <1>12 DEF SnapNext, SnapLoadOK, SnapLoadFail, SnapLoadStrategy, SnapUnlock, SnapReturn, Tick,
                 vars, callVars, statVars, recVars, histVars
  <2> QED
    BY <2>1 DEF CountInv, Uncounted, Falling
<1> QED
  BY <1>3, <1>4, <1>5, <1>6, <1>7, <1>8, <1>9, <1>10, <1>11, <1>12 DEF Next, CallerNext

-----------------------------------------------------------------------------
(* The reader *)

\* The sum over no strategy, and over all that have counted something.
LEMMA RestFacts ==
    ASSUME NEW f \in [Strategies -> Nat], NEW U
    PROVE  /\ Rest(f, U) \in Nat
           /\ U = {} => Rest(f, U) = 0
           /\ (\A s \in Strategies : s \notin U => f[s] = 0) => Rest(f, U) = Total(f)
<1>1. f[0] \in Nat /\ f[1] \in Nat /\ f[2] \in Nat /\ f[3] \in Nat
  BY DEF Strategies, WrongSeq, DesyncTTL
<1>2. 0 \in Strategies /\ 1 \in Strategies /\ 2 \in Strategies /\ 3 \in Strategies
  BY DEF Strategies, WrongSeq, DesyncTTL
<1> QED
  BY <1>1, <1>2 DEF Rest, Part, Total, WrongSeq, Fragment, DesyncBadCS, DesyncTTL

\* Leaving out a strategy takes its counter off the sum.
LEMMA RestTake ==
    ASSUME NEW f \in [Strategies -> Nat], NEW U, NEW s \in Strategies, s \in U
    PROVE  Rest(f, U) = Rest(f, U \ {s}) + f[s]
<1>1. s = 0 \/ s = 1 \/ s = 2 \/ s = 3
  BY DEF Strategies, WrongSeq, DesyncTTL
<1>2. f[0] \in Nat /\ f[1] \in Nat /\ f[2] \in Nat /\ f[3] \in Nat
  BY DEF Strategies, WrongSeq, DesyncTTL
<1>3. /\ Part(f, U, s) = f[s] /\ Part(f, U \ {s}, s) = 0
      /\ \A r : r # s => Part(f, U \ {s}, r) = Part(f, U, r)
  BY DEF Part
<1>4. \A r \in 0..3 : Part(f, U, r) \in Nat
  BY <1>2 DEF Part, Strategies, WrongSeq, DesyncTTL
<1> DEFINE p(x) == Part(f, U, x)
           q(x) == Part(f, U \ {s}, x)
<1>5. /\ p(s) = f[s] /\ q(s) = 0 /\ f[s] \in Nat
      /\ \A x \in 0..3 : x # s => q(x) = p(x)
      /\ p(0) \in Nat /\ p(1) \in Nat /\ p(2) \in Nat /\ p(3) \in Nat
  BY <1>3, <1>4
<1> HIDE DEF p, q
<1>6. p(0) + p(1) + p(2) + p(3) = q(0) + q(1) + q(2) + q(3) + f[s]
  <2>1. CASE s = 0
    BY <1>5, <2>1
  <2>2. CASE s = 1
    BY <1>5, <2>2
  <2>3. CASE s = 2
    BY <1>5, <2>3
  <2>4. CASE s = 3
    BY <1>5, <2>4
  <2> QED
    BY <1>1, <2>1, <2>2, <2>3, <2>4
<1> QED
  BY <1>6 DEF p, q, Rest, WrongSeq, Fragment, DesyncBadCS, DesyncTTL

\* The sum grows with its counters.
LEMMA RestGrows ==
    ASSUME NEW f \in [Strategies -> Nat], NEW g \in [Strategies -> Nat], NEW U,
           \A s \in Strategies : f[s] <= g[s]
    PROVE  Rest(f, U) <= Rest(g, U)
<1>1. \A r \in 0..3 : Part(f, U, r) \in Nat /\ Part(g, U, r) \in Nat /\ Part(f, U, r) <= Part(g, U, r)
  BY DEF Part, Strategies, WrongSeq, DesyncTTL
<1> QED
  BY <1>1 DEF Rest, WrongSeq, Fragment, DesyncBadCS, DesyncTTL

\* While a handler goes on, no counter goes back.
LEMMA CountersGrow ==
    ASSUME Typed, CountInv, NEW c \in Callers, CallerNext(c)
    PROVE  /\ UNCHANGED snap /\ bypassOK' >= bypassOK
           /\ \A s \in Strategies : recOK[s] <= recOK'[s] /\ recFail[s] <= recFail'[s]
<1>1. /\ strategy[c] \in Strategies /\ recOK \in [Strategies -> Nat] /\ recFail \in [Strategies -> Nat]
      /\ bypassOK \in Nat
  BY DEF Typed, TypeOK
<1>2. UNCHANGED snap /\ (bypassOK' = bypassOK \/ bypassOK' = bypassOK + 1)
  BY DEF CallerNext, Begin, RunOk, RunFail, FallbackFail, Cache, Lookup, Create, AddOk, AddFail, Count, statVars
<1>3. CASE Create(c)
  BY <1>1, <1>2, <1>3, CreatedKeeps DEF Create
<1>4. CASE AddOk(c)
  BY <1>1, <1>2, <1>4 DEF AddOk
<1>5. CASE AddFail(c)
  BY <1>1, <1>2, <1>5 DEF AddFail
<1>6. CASE ~Create(c) /\ ~AddOk(c) /\ ~AddFail(c)
  <2>1. UNCHANGED <<recOK, recFail>>
    BY <1>6 DEF CallerNext, Begin, RunOk, RunFail, FallbackFail, Cache, Lookup, Count, statVars, recVars
  <2> QED
    BY <1>1, <1>2, <2>1
<1> QED
  BY <1>3, <1>4, <1>5, <1>6

\* Every step keeps what a reader has and is still to load above its totals.
LEMMA SnapStep ==
    ASSUME Typed, CountInv, SnapInv, [Next]_vars, Typed'
    PROVE  SnapInv'
<1>1. /\ snap \in Snaps /\ snap.at \in 1..4 /\ snap.ok \in Nat /\ snap.fail \in Nat
      /\ snap.sumOK \in Nat /\ snap.sumFail \in Nat
  BY DEF Typed, Snaps
<1>2. /\ bypassOK \in Nat /\ bypassFail \in Nat /\ bypassOK' \in Nat
      /\ recOK \in [Strategies -> Nat] /\ recFail \in [Strategies -> Nat]
      /\ recOK' \in [Strategies -> Nat] /\ recFail' \in [Strategies -> Nat]
  BY DEF Typed, TypeOK
<1>3. /\ bypassOK <= Total(recOK) /\ bypassFail <= Total(recFail)
      /\ Total(recOK) \in Nat /\ Total(recFail) \in Nat
  <2>1. Cardinality(Uncounted) \in Nat /\ Cardinality(Falling) \in Nat
    <3>1. Uncounted \subseteq Callers /\ Falling \subseteq Callers
      BY DEF Uncounted, Falling
    <3> QED
      BY <3>1, SetsAssumption, FS_Subset, FS_CardinalityType
  <2>2. fellBack \in Nat
    BY DEF Typed, TypeOK
  <2> QED
    BY <1>2, <2>1, <2>2 DEF CountInv
<1>4. /\ Rest(recOK, known) = Total(recOK) /\ Rest(recFail, known) = Total(recFail)
  BY <1>2, RestFacts DEF CountInv
<1>5. ASSUME NEW c \in Callers, CallerNext(c) PROVE SnapInv'
  <2>1. /\ UNCHANGED snap /\ bypassOK' >= bypassOK
        /\ \A s \in Strategies : recOK[s] <= recOK'[s] /\ recFail[s] <= recFail'[s]
    BY <1>5, CountersGrow
  <2>2. /\ Rest(recOK, snap.unread) <= Rest(recOK', snap.unread)
        /\ Rest(recFail, snap.unread) <= Rest(recFail', snap.unread)
        /\ Rest(recOK, snap.unread) \in Nat /\ Rest(recOK', snap.unread) \in Nat
        /\ Rest(recFail, snap.unread) \in Nat /\ Rest(recFail', snap.unread) \in Nat
    BY <1>2, <2>1, RestGrows, RestFacts
  <2>3. /\ Rest(recOK, snap.unread)' = Rest(recOK', snap.unread)
        /\ Rest(recFail, snap.unread)' = Rest(recFail', snap.unread)
    BY <2>1 DEF Rest, Part
  <2>4. snap.at = 2 => snap.ok <= bypassOK'
    BY <1>1, <1>2, <2>1 DEF SnapInv
  <2>5. snap.at = 3 => /\ snap.ok <= snap.sumOK + Rest(recOK, snap.unread)'
                       /\ snap.fail <= snap.sumFail + Rest(recFail, snap.unread)'
    BY <1>1, <2>2, <2>3 DEF SnapInv
  <2> QED
    BY <2>1, <2>4, <2>5 DEF SnapInv
<1>6. CASE SnapLoadOK
  <2>1. snap.at = 1 /\ UNCHANGED <<recOK, recFail, bypassOK>>
    BY <1>1, <1>6 DEF SnapLoadOK, At, SnapOrder, statVars, recVars
  <2>2. snap'.at = 2 /\ snap'.ok = bypassOK /\ snap'.sumOK = snap.sumOK /\ snap'.sumFail = snap.sumFail
    BY <1>1, <1>6, <2>1 DEF SnapLoadOK, SnapGoto, Snaps
  <2> QED
    BY <1>2, <2>1, <2>2 DEF SnapInv
<1>7. CASE SnapLoadFail
  <2>1. snap.at = 2 /\ UNCHANGED <<recOK, recFail, bypassOK>>
    BY <1>1, <1>7 DEF SnapLoadFail, At, SnapOrder, statVars, recVars
  <2>2. /\ snap'.at = 3 /\ snap'.ok = snap.ok /\ snap'.fail = bypassFail
        /\ snap'.sumOK = snap.sumOK /\ snap'.sumFail = snap.sumFail /\ snap'.unread = known
    BY <1>1, <1>7, <2>1 DEF SnapLoadFail, SnapGoto, SnapOrder, Snaps
  <2>3. snap.sumOK = 0 /\ snap.sumFail = 0 /\ snap.ok <= bypassOK
    BY <2>1 DEF SnapInv
  <2>4. Rest(recOK, snap.unread)' = Rest(recOK, known) /\ Rest(recFail, snap.unread)' = Rest(recFail, known)
    BY <2>1, <2>2 DEF Rest, Part
  <2>5. snap.ok <= 0 + Total(recOK) /\ bypassFail <= 0 + Total(recFail)
    BY <1>1, <1>2, <1>3, <2>3
  <2> QED
    BY <1>4, <2>2, <2>3, <2>4, <2>5 DEF SnapInv
<1>8. ASSUME NEW s \in Strategies, SnapLoadStrategy(s) PROVE SnapInv'
  <2>1. snap.at = 3 /\ UNCHANGED <<recOK, recFail, bypassOK>> /\ s \in snap.unread
    BY <1>1, <1>8 DEF SnapLoadStrategy, At, SnapOrder, statVars, recVars
  <2>2. /\ snap'.at = 3 /\ snap'.ok = snap.ok /\ snap'.fail = snap.fail
        /\ snap'.sumOK = snap.sumOK + recOK[s] /\ snap'.sumFail = snap.sumFail + recFail[s]
        /\ snap'.unread = snap.unread \ {s}
    BY <1>1, <1>8, <2>1 DEF SnapLoadStrategy, Snaps
  <2>3. /\ Rest(recOK, snap.unread) = Rest(recOK, snap.unread \ {s}) + recOK[s]
        /\ Rest(recFail, snap.unread) = Rest(recFail, snap.unread \ {s}) + recFail[s]
        /\ Rest(recOK, snap.unread \ {s}) \in Nat /\ Rest(recFail, snap.unread \ {s}) \in Nat
        /\ recOK[s] \in Nat /\ recFail[s] \in Nat
    BY <1>2, <2>1, RestTake, RestFacts
  <2>4. /\ Rest(recOK, snap.unread)' = Rest(recOK, snap.unread \ {s})
        /\ Rest(recFail, snap.unread)' = Rest(recFail, snap.unread \ {s})
    BY <2>1, <2>2 DEF Rest, Part
  <2>5. /\ snap.ok <= snap.sumOK + Rest(recOK, snap.unread)
        /\ snap.fail <= snap.sumFail + Rest(recFail, snap.unread)
    BY <2>1 DEF SnapInv
  <2>6. /\ snap.ok <= snap.sumOK + recOK[s] + Rest(recOK, snap.unread \ {s})
        /\ snap.fail <= snap.sumFail + recFail[s] + Rest(recFail, snap.unread \ {s})
    BY <1>1, <2>3, <2>5
  <2> QED
    BY <2>2, <2>4, <2>6 DEF SnapInv
<1>9. CASE SnapUnlock
  <2>1. snap.at = 3 /\ snap.unread = {}
    BY <1>1, <1>9 DEF SnapUnlock, At, SnapOrder
  <2>2. /\ snap'.at = 4 /\ snap'.ok = snap.ok /\ snap'.fail = snap.fail
        /\ snap'.sumOK = snap.sumOK /\ snap'.sumFail = snap.sumFail
    BY <1>1, <1>9, <2>1 DEF SnapUnlock, SnapGoto, SnapOrder, Snaps
  <2>3. Rest(recOK, snap.unread) = 0 /\ Rest(recFail, snap.unread) = 0
    BY <1>2, <2>1, RestFacts
  <2>4. snap.ok <= snap.sumOK /\ snap.fail <= snap.sumFail
    BY <1>1, <2>1, <2>3 DEF SnapInv
  <2> QED
    BY <2>2, <2>4 DEF SnapInv
<1>10. CASE SnapReturn
  <2>1. snap'.at = 1 /\ snap'.sumOK = 0 /\ snap'.sumFail = 0
    BY <1>10 DEF SnapReturn, SnapGoto, SnapOrder, NoSnap
  <2> QED
    BY <2>1 DEF SnapInv
<1>11. CASE Tick \/ UNCHANGED vars
  <2>1. UNCHANGED <<snap, bypassOK, recOK, recFail>>
    BY <1>11 DEF Tick, vars, statVars, recVars
  <2> QED
    BY <2>1 DEF SnapInv, Rest, Part
<1> QED
  BY <1>5, <1>6, <1>7, <1>8, <1>9, <1>10, <1>11 DEF Next, SnapNext

-----------------------------------------------------------------------------
(* What the engine promises *)

\* The invariant holds at the start.
LEMMA IInvInit == Init => IInv
<1> SUFFICES ASSUME Init PROVE IInv
  OBVIOUS
<1>1. AnyKey \in Keys /\ WrongSeq \in Strategies
  BY SetsAssumption DEF AnyKey, Strategies, WrongSeq, DesyncTTL
<1>2. TypeOK
  BY <1>1, TtlAssumption DEF Init, TypeOK
<1>3. snap \in Snaps
  BY DEF Init, NoSnap, Snaps
<1>4. CacheInv
  BY CapAssumption DEF Init, CacheInv, Listed
<1>5. WorkedInv
  BY DEF Init, WorkedInv, CachedWorked
<1>6. HopInv
  BY DEF Init, HopInv, OneHop, Base
<1>7. CountInv
  <2>1. Uncounted = {} /\ Falling = {}
    BY DEF Init, Uncounted, Falling
  <2>2. Cardinality(Uncounted) = 0 /\ Cardinality(Falling) = 0
    BY <2>1, FS_EmptySet
  <2>3. Total(recOK) = 0 /\ Total(recFail) = 0
    BY DEF Init, Total, Strategies, WrongSeq, Fragment, DesyncBadCS, DesyncTTL
  <2> QED
    BY <2>2, <2>3 DEF Init, CountInv
<1>8. SnapInv
  BY DEF Init, NoSnap, SnapInv
<1> QED
  BY <1>2, <1>3, <1>4, <1>5, <1>6, <1>7, <1>8 DEF IInv, Typed

\* Every step keeps the invariant.
LEMMA IInvStep == IInv /\ [Next]_vars => IInv'
BY CacheStep, TypedStep, WorkedStep, HopStep, CountStep, SnapStep DEF IInv

\* The invariant holds in every reachable state.
THEOREM Invariance == Spec => []IInv
BY IInvInit, IInvStep, PTL DEF Spec

\* The list and the map of the cache hold the same keys, each once, and no more
\* than the capacity.
THEOREM CacheStaysOne == Spec => []CacheConsistent
<1>1. IInv => CacheConsistent
  BY ListLength DEF IInv, CacheInv, CacheConsistent
<1> QED
  BY <1>1, Invariance, PTL

\* A cached strategy has succeeded for its destination.
THEOREM CachedHasWorked == Spec => []CachedWorked
BY Invariance, PTL DEF IInv, WorkedInv

\* An injection falls back once, so that it stays one hop from what has worked.
THEOREM FallsBackOnce == Spec => []OneHop
BY Invariance, PTL DEF IInv, HopInv

\* With no injection under way, the recorder and the handlers have counted alike.
THEOREM RecorderAgrees == Spec => []CountsAgree
<1>1. IInv => CountsAgree
  <2> SUFFICES ASSUME IInv, \A c \in Callers : pc[c] = "idle"
               PROVE  Total(recOK) = bypassOK /\ Total(recFail) = bypassFail + fellBack
    BY DEF CountsAgree
  <2>1. Uncounted = {} /\ Falling = {}
    BY DEF Uncounted, Falling
  <2>2. Cardinality(Uncounted) = 0 /\ Cardinality(Falling) = 0
    BY <2>1, FS_EmptySet
  <2>3. bypassOK \in Nat /\ bypassFail \in Nat /\ fellBack \in Nat
    BY DEF IInv, Typed, TypeOK
  <2> QED
    BY <2>2, <2>3 DEF IInv, CountInv
<1> QED
  BY <1>1, Invariance, PTL

\* A snapshot never shows more injections than its strategies account for.
THEOREM SnapshotCovers == Spec => []SnapshotConsistent
<1>1. IInv => SnapshotConsistent
  BY DEF IInv, Typed, Snaps, SnapInv, SnapshotConsistent, SnapDone, SnapOrder
<1> QED
  BY <1>1, Invariance, PTL
=============================================================================
