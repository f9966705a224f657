---------------------------- MODULE ServerProofs ----------------------------
(***************************************************************************)
(* Proofs about Server for any number of connections and workers, any      *)
(* channel capacity and connection limit, with and without a rate limit    *)
(* and a bypass; then, in the second half, about RateLimiter, for any      *)
(* number of addresses, any limit, window and cleanup period.              *)
(***************************************************************************)
EXTENDS Server, RateLimiter, FiniteSetTheorems, SequenceTheorems, TLAPS

-----------------------------------------------------------------------------
(* The inductive invariant *)

\* fn has been called.
Called == {"fn", "opened", "dial", "failing", "failed", "bypass", "prerelay", "sni", "relay",
           "unwind", "close", "done"}

\* ConnOpened has returned.
Counted == Called \ {"fn", "opened"}

\* What the accept loop holds follows from where it is.
CurInv ==
    /\ srv \in {"admit", "rate", "submit"} => cur \in Conns /\ phase[cur] = "held"
    /\ srv = "send" => cur \in Conns /\ phase[cur] = "queued"
    /\ srv \notin {"admit", "rate", "submit", "send"} => cur = NoConn

\* A connection in the channel is there once and nowhere else, uncalled.
WorkInv ==
    \A i \in 1..Len(work) :
        /\ phase[work[i]] = "queued"
        /\ work[i] # cur /\ work[i] \notin overflow
        /\ \A j \in 1..Len(work) : work[j] = work[i] => j = i

\* A worker's connection is served by no one else, and called when it runs.
WorkerInv ==
    \A w \in Workers :
        /\ wpc[w] \in {"idle", "exited"} <=> wconn[w] = NoConn
        /\ wpc[w] = "got" => phase[wconn[w]] = "queued"
        /\ wpc[w] = "run" => phase[wconn[w]] \in Called
        /\ wconn[w] # NoConn =>
              /\ wconn[w] # cur /\ wconn[w] \notin overflow
              /\ \A i \in 1..Len(work) : work[i] # wconn[w]
              /\ \A v \in Workers : wconn[v] = wconn[w] => v = w

OverflowInv == \A c \in overflow : phase[c] \in Called \cup {"queued"} /\ c # cur

\* No connection under way is lost.
Placed ==
    \A c \in Conns :
        phase[c] \notin {"new", "refused", "done"} =>
            \/ c = cur
            \/ c \in overflow
            \/ \E i \in 1..Len(work) : work[i] = c
            \/ \E w \in Workers : wconn[w] = c

\* How far drain has come.
DrainInv ==
    /\ closed <=> srv \in {"workers", "overflow", "returned"}
    /\ \A w \in Workers : wpc[w] = "exited" => closed /\ work = <<>>
    /\ srv \in {"overflow", "returned"} => \A w \in Workers : wpc[w] = "exited"
    /\ srv = "returned" => overflow = {}

Ownership == CurInv /\ WorkInv /\ WorkerInv /\ OverflowInv /\ Placed /\ DrainInv

\* The connections in one of the phases P, and the workers at one of the points P.
InPhase(P) == {c \in Conns : phase[c] \in P}
AtPoint(P) == {w \in Workers : wpc[w] \in P}

\* Every counter is a number of connections or workers.  The pool's:
QueuedCount ==
    queued = Len(work) + (IF srv = "send" THEN 1 ELSE 0) + Cardinality(AtPoint({"got"}))
OverflowCount == overflowN = Cardinality(overflow)

\* and the collector's; a connection between ConnOpened and its outcome is
\* dialling or being injected for.
ConnCounts ==
    /\ total = Cardinality(InPhase(Counted))
    /\ relayActive = Cardinality(InPhase({"sni", "relay"}))
    /\ Bypass => total = failed + bypassOK + bypassFail + Cardinality(InPhase({"dial", "bypass"}))

Counts == QueuedCount /\ OverflowCount /\ ConnCounts

IInv == TypeOK /\ Ownership /\ Counts

-----------------------------------------------------------------------------
(* Counting *)

\* Two finite sets that differ at most in c.
LEMMA CountMove ==
    ASSUME NEW A, NEW B, IsFiniteSet(A), IsFiniteSet(B), NEW c,
           \A x : x # c => (x \in A <=> x \in B)
    PROVE  /\ Cardinality(A) \in Nat /\ Cardinality(B) \in Nat
           /\ (c \in A <=> c \in B) => Cardinality(B) = Cardinality(A)
           /\ c \notin A /\ c \in B => Cardinality(B) = Cardinality(A) + 1
           /\ c \in A /\ c \notin B => Cardinality(B) = Cardinality(A) - 1
<1>1. Cardinality(A) \in Nat /\ Cardinality(B) \in Nat
  BY FS_CardinalityType
<1>2. ASSUME c \in A <=> c \in B PROVE Cardinality(B) = Cardinality(A)
  <2>1. A = B
    BY <1>2
  <2> QED
    BY <2>1
<1>3. ASSUME c \notin A, c \in B PROVE Cardinality(B) = Cardinality(A) + 1
  <2>1. B = A \cup {c}
    BY <1>3
  <2> QED
    BY <1>3, <2>1, FS_AddElement
<1>4. ASSUME c \in A, c \notin B PROVE Cardinality(B) = Cardinality(A) - 1
  <2>1. A = B \cup {c}
    BY <1>4
  <2>2. Cardinality(A) = Cardinality(B) + 1
    BY <1>4, <2>1, FS_AddElement
  <2> QED
    BY <2>2, <1>1
<1> QED
  BY <1>1, <1>2, <1>3, <1>4

\* SetPhase moves one connection between the sets that the collector counts.
LEMMA PhaseMove ==
    ASSUME TypeOK, NEW c \in Conns, NEW p, SetPhase(c, p), NEW P
    PROVE  /\ Cardinality(InPhase(P)) \in Nat
           /\ Cardinality(InPhase(P)') \in Nat
           /\ (phase[c] \in P <=> p \in P) => Cardinality(InPhase(P)') = Cardinality(InPhase(P))
           /\ phase[c] \notin P /\ p \in P => Cardinality(InPhase(P)') = Cardinality(InPhase(P)) + 1
           /\ phase[c] \in P /\ p \notin P => Cardinality(InPhase(P)') = Cardinality(InPhase(P)) - 1
<1> DEFINE A == InPhase(P)
           B == InPhase(P)'
<1>1. /\ \A x : x # c => (x \in A <=> x \in B)
      /\ c \in A <=> phase[c] \in P
      /\ c \in B <=> p \in P
  BY DEF TypeOK, SetPhase, InPhase
<1>2. IsFiniteSet(A) /\ IsFiniteSet(B)
  <2>1. A \subseteq Conns /\ B \subseteq Conns
    BY DEF InPhase
  <2> QED
    BY <2>1, ConnsAssumption, FS_Subset
<1> HIDE DEF A, B
<1>3. /\ Cardinality(A) \in Nat /\ Cardinality(B) \in Nat
      /\ (phase[c] \in P <=> p \in P) => Cardinality(B) = Cardinality(A)
      /\ phase[c] \notin P /\ p \in P => Cardinality(B) = Cardinality(A) + 1
      /\ phase[c] \in P /\ p \notin P => Cardinality(B) = Cardinality(A) - 1
  BY <1>1, <1>2, CountMove
<1> QED
  BY <1>3 DEF A, B

\* The same for a worker.
LEMMA WorkerMove ==
    ASSUME TypeOK, NEW w \in Workers, NEW p, wpc' = [wpc EXCEPT ![w] = p], NEW P
    PROVE  /\ Cardinality(AtPoint(P)) \in Nat
           /\ Cardinality(AtPoint(P)') \in Nat
           /\ (wpc[w] \in P <=> p \in P) => Cardinality(AtPoint(P)') = Cardinality(AtPoint(P))
           /\ wpc[w] \notin P /\ p \in P => Cardinality(AtPoint(P)') = Cardinality(AtPoint(P)) + 1
           /\ wpc[w] \in P /\ p \notin P => Cardinality(AtPoint(P)') = Cardinality(AtPoint(P)) - 1
<1> DEFINE A == AtPoint(P)
           B == AtPoint(P)'
<1>1. /\ \A x : x # w => (x \in A <=> x \in B)
      /\ w \in A <=> wpc[w] \in P
      /\ w \in B <=> p \in P
  BY DEF TypeOK, AtPoint
<1>2. IsFiniteSet(A) /\ IsFiniteSet(B)
  <2>1. A \subseteq Workers /\ B \subseteq Workers
    BY DEF AtPoint
  <2> QED
    BY <2>1, WorkersAssumption, FS_Subset
<1> HIDE DEF A, B
<1>3. /\ Cardinality(A) \in Nat /\ Cardinality(B) \in Nat
      /\ (wpc[w] \in P <=> p \in P) => Cardinality(B) = Cardinality(A)
      /\ wpc[w] \notin P /\ p \in P => Cardinality(B) = Cardinality(A) + 1
      /\ wpc[w] \in P /\ p \notin P => Cardinality(B) = Cardinality(A) - 1
  BY <1>1, <1>2, CountMove
<1> QED
  BY <1>3 DEF A, B

\* The sets that are counted are finite.
LEMMA CountsNat ==
    ASSUME NEW P, TypeOK
    PROVE  /\ Cardinality(InPhase(P)) \in Nat /\ Cardinality(AtPoint(P)) \in Nat
           /\ IsFiniteSet(overflow) /\ Cardinality(overflow) \in Nat
           /\ IsFiniteSet(InPhase(P)) /\ IsFiniteSet(AtPoint(P))
<1>1. IsFiniteSet(InPhase(P)) /\ IsFiniteSet(AtPoint(P)) /\ IsFiniteSet(overflow)
  <2>1. InPhase(P) \subseteq Conns /\ AtPoint(P) \subseteq Workers /\ overflow \subseteq Conns
    BY DEF InPhase, AtPoint, TypeOK
  <2> QED
    BY <2>1, FS_Subset, ConnsAssumption, WorkersAssumption
<1> QED
  BY <1>1, FS_CardinalityType

-----------------------------------------------------------------------------
(* Every connection is in one place *)

\* A step of Handle moves its connection among the called phases and touches
\* nothing of the loop and the pool.
LEMMA HandleShape ==
    ASSUME TypeOK, NEW c \in Conns, HandleNext(c)
    PROVE  /\ phase[c] \in Called \ {"done"}
           /\ \E p \in Called : SetPhase(c, p)
           /\ UNCHANGED <<loopVars, poolVars>>
<1>1. phase[c] \in Called \ {"done"}
  BY DEF HandleNext, ConnOpenedActive, ConnOpenedTotal, DialOk, ConnFailedTotal,
         ConnFailedActive, Inject, RelayStarted, SniRead, RelayDone,
         ConnClosed, ClientClose, Called
<1>2. \E p \in Called : SetPhase(c, p)
  BY DEF HandleNext, ConnOpenedActive, ConnOpenedTotal, DialOk, ConnFailedTotal,
         ConnFailedActive, Inject, RelayStarted, SniRead, RelayDone,
         ConnClosed, ClientClose, Called
<1>3. UNCHANGED <<loopVars, poolVars>>
  BY DEF HandleNext, ConnOpenedActive, ConnOpenedTotal, DialOk, ConnFailedTotal,
         ConnFailedActive, Inject, RelayStarted, SniRead, RelayDone,
         ConnClosed, ClientClose
<1> QED
  BY <1>1, <1>2, <1>3

\* Every step keeps every connection in its one place.
LEMMA OwnershipStep ==
    ASSUME TypeOK, Ownership, [Next]_vars
    PROVE  Ownership'
<1> USE DEF Ownership, loopVars, poolVars
<1>1. ASSUME NEW c \in Conns, Accept(c) PROVE Ownership'
  <2>1. CurInv'
    BY <1>1 DEF Accept, SetPhase, TypeOK, CurInv
  <2>2. WorkInv'
    BY <1>1 DEF Accept, SetPhase, WorkInv
  <2>3. WorkerInv'
    BY <1>1 DEF Accept, SetPhase, TypeOK, Called, WorkerInv
  <2>4. OverflowInv'
    BY <1>1 DEF Accept, SetPhase, Called, OverflowInv
  <2>5. Placed'
    BY <1>1, ConnsAssumption DEF Accept, SetPhase, CurInv, Placed
  <2>6. DrainInv'
    BY <1>1 DEF Accept, DrainInv
  <2> QED
    BY <2>1, <2>2, <2>3, <2>4, <2>5, <2>6
<1>2. CASE AcceptError
  BY <1>2 DEF AcceptError, CurInv, WorkInv, WorkerInv, OverflowInv, Placed, DrainInv
<1>3. CASE Admit
  BY <1>3, ConnsAssumption
  DEF Admit, Refuse, SetPhase, TypeOK, CurInv, WorkInv, WorkerInv, OverflowInv, Placed, DrainInv
<1>4. CASE RateCheck
  BY <1>4, ConnsAssumption
  DEF RateCheck, Refuse, SetPhase, TypeOK, CurInv, WorkInv, WorkerInv, OverflowInv, Placed,
      DrainInv
<1>5. CASE Submit
  <2>1. CurInv'
    BY <1>5 DEF Submit, SetPhase, TypeOK, CurInv
  <2>2. WorkInv'
    BY <1>5 DEF Submit, SetPhase, WorkInv
  <2>3. WorkerInv'
    BY <1>5 DEF Submit, SetPhase, WorkerInv
  <2>4. OverflowInv'
    BY <1>5 DEF Submit, SetPhase, OverflowInv
  <2>5. Placed'
    BY <1>5 DEF Submit, SetPhase, Placed
  <2>6. DrainInv'
    BY <1>5 DEF Submit, DrainInv
  <2> QED
    BY <2>1, <2>2, <2>3, <2>4, <2>5, <2>6
<1>6. CASE Send /\ SendBuffered
  <2>0. /\ Len(work') = Len(work) + 1
        /\ \A i \in 1..Len(work) : work'[i] = work[i]
        /\ work'[Len(work) + 1] = cur
    BY <1>6 DEF SendBuffered
  <2>1. CurInv'
    BY <1>6 DEF Send, CurInv
  <2>2. WorkInv'
    BY <1>6, ConnsAssumption DEF Send, SendBuffered, TypeOK, CurInv, WorkInv, OverflowInv
  <2>3. WorkerInv'
    BY <1>6 DEF Send, SendBuffered, WorkerInv
  <2>4. OverflowInv'
    BY <1>6, ConnsAssumption DEF Send, SendBuffered, TypeOK, OverflowInv
  <2>5. Placed'
    BY <1>6 DEF Send, SendBuffered, Placed
  <2>6. DrainInv'
    BY <1>6 DEF Send, SendBuffered, DrainInv
  <2> QED
    BY <2>1, <2>2, <2>3, <2>4, <2>5, <2>6
<1>7. CASE Send /\ Spill
  <2>1. CurInv'
    BY <1>7 DEF Send, CurInv
  <2>2. WorkInv'
    BY <1>7, ConnsAssumption DEF Send, Spill, TypeOK, WorkInv
  <2>3. WorkerInv'
    BY <1>7 DEF Send, Spill, WorkerInv
  <2>4. OverflowInv'
    BY <1>7, ConnsAssumption DEF Send, Spill, TypeOK, CurInv, OverflowInv
  <2>5. Placed'
    BY <1>7 DEF Send, Spill, Placed
  <2>6. DrainInv'
    BY <1>7 DEF Send, Spill, DrainInv
  <2> QED
    BY <2>1, <2>2, <2>3, <2>4, <2>5, <2>6
<1>8. CASE Drain
  BY <1>8 DEF Drain, CurInv, WorkInv, WorkerInv, OverflowInv, Placed, DrainInv
<1>9. CASE WaitWorkers
  BY <1>9 DEF WaitWorkers, CurInv, WorkInv, WorkerInv, OverflowInv, Placed, DrainInv
<1>10. CASE WaitOverflow
  BY <1>10 DEF WaitOverflow, CurInv, WorkInv, WorkerInv, OverflowInv, Placed, DrainInv
<1>11. CASE Cancel \/ CloseListener
  BY <1>11 DEF Cancel, CloseListener, CurInv, WorkInv, WorkerInv, OverflowInv, Placed, DrainInv
<1>12. ASSUME NEW w \in Workers, Receive(w) PROVE Ownership'
  <2>0. /\ Len(work) \in Nat \ {0} /\ Len(work') = Len(work) - 1
        /\ \A i \in 1..Len(work') : i + 1 \in 1..Len(work) /\ work'[i] = work[i + 1]
        /\ wconn'[w] = work[1] /\ work[1] \in Conns
    BY <1>12 DEF Receive, TypeOK
  <2>7. \A i \in 1..Len(work) : i = 1 \/ (i - 1 \in 1..Len(work') /\ work'[i - 1] = work[i])
    BY <2>0
  <2>1. CurInv'
    BY <1>12 DEF Receive, CurInv
  <2>2. WorkInv'
    <3> SUFFICES ASSUME NEW i \in 1..Len(work'), NEW j \in 1..Len(work')
                 PROVE  /\ phase'[work'[i]] = "queued"
                        /\ work'[i] # cur' /\ work'[i] \notin overflow'
                        /\ work'[j] = work'[i] => j = i
      BY DEF WorkInv
    <3>1. /\ i + 1 \in 1..Len(work) /\ work'[i] = work[i + 1]
          /\ j + 1 \in 1..Len(work) /\ work'[j] = work[j + 1]
      BY <2>0
    <3>2. /\ phase[work[i + 1]] = "queued"
          /\ work[i + 1] # cur /\ work[i + 1] \notin overflow
          /\ work[j + 1] = work[i + 1] => j + 1 = i + 1
      BY <3>1 DEF WorkInv
    <3> QED
      BY <1>12, <3>2 DEF Receive
  <2>3. WorkerInv'
    BY <1>12, ConnsAssumption DEF Receive, TypeOK, WorkInv, WorkerInv
  <2>4. OverflowInv'
    BY <1>12 DEF Receive, OverflowInv
  <2>5. Placed'
    <3> SUFFICES ASSUME NEW c \in Conns, phase'[c] \notin {"new", "refused", "done"},
                        c # cur', c \notin overflow'
                 PROVE  \/ \E i \in 1..Len(work') : work'[i] = c
                        \/ \E v \in Workers : wconn'[v] = c
      BY DEF Placed
    <3>1. CASE \E i \in 1..Len(work) : work[i] = c
      BY <3>1, <2>0, <2>7
    <3>2. CASE \E v \in Workers : wconn[v] = c
      <4>1. PICK v \in Workers : wconn[v] = c
        BY <3>2
      <4>2. v # w
        BY <4>1, <1>12, ConnsAssumption DEF WorkerInv, Receive
      <4> QED
        BY <4>1, <4>2, <1>12 DEF Receive
    <3> QED
      BY <1>12, <3>1, <3>2 DEF Placed, Receive
  <2>6. DrainInv'
    BY <1>12 DEF Receive, DrainInv
  <2> QED
    BY <2>1, <2>2, <2>3, <2>4, <2>5, <2>6
<1>13. ASSUME NEW w \in Workers, Call(w) PROVE Ownership'
  <2>0. wconn[w] = NoConn \/ wconn[w] \in Conns
    BY DEF TypeOK
  <2>1. CurInv'
    BY <1>13 DEF Call, SetPhase, CurInv, WorkerInv
  <2>2. WorkInv'
    BY <1>13 DEF Call, SetPhase, WorkInv, WorkerInv
  <2>3. WorkerInv'
    BY <1>13 DEF Call, SetPhase, TypeOK, Called, WorkerInv
  <2>4. OverflowInv'
    BY <1>13 DEF Call, SetPhase, WorkerInv, OverflowInv
  <2>5. Placed'
    BY <1>13 DEF Call, SetPhase, Placed
  <2>6. DrainInv'
    BY <1>13 DEF Call, DrainInv
  <2> QED
    BY <2>1, <2>2, <2>3, <2>4, <2>5, <2>6
<1>14. ASSUME NEW w \in Workers, Return(w) PROVE Ownership'
  <2>0. wconn[w] = NoConn \/ wconn[w] \in Conns
    BY DEF TypeOK
  <2>1. CurInv'
    BY <1>14 DEF Return, CurInv
  <2>2. WorkInv'
    BY <1>14 DEF Return, WorkInv
  <2>3. WorkerInv'
    BY <1>14 DEF Return, TypeOK, WorkerInv
  <2>4. OverflowInv'
    BY <1>14 DEF Return, OverflowInv
  <2>5. Placed'
    BY <1>14 DEF Return, Placed
  <2>6. DrainInv'
    BY <1>14 DEF Return, DrainInv
  <2> QED
    BY <2>1, <2>2, <2>3, <2>4, <2>5, <2>6
<1>15. ASSUME NEW w \in Workers, Exit(w) PROVE Ownership'
  <2>0. wconn[w] = NoConn \/ wconn[w] \in Conns
    BY DEF TypeOK
  <2>1. CurInv'
    BY <1>15 DEF Exit, CurInv
  <2>2. WorkInv'
    BY <1>15 DEF Exit, WorkInv
  <2>3. WorkerInv'
    BY <1>15 DEF Exit, WorkerInv
  <2>4. OverflowInv'
    BY <1>15 DEF Exit, OverflowInv
  <2>5. Placed'
    BY <1>15 DEF Exit, Placed
  <2>6. DrainInv'
    BY <1>15 DEF Exit, DrainInv
  <2> QED
    BY <2>1, <2>2, <2>3, <2>4, <2>5, <2>6
<1>16. ASSUME NEW c \in Conns, OverflowCall(c) PROVE Ownership'
  <2>1. CurInv'
    BY <1>16 DEF OverflowCall, SetPhase, CurInv, OverflowInv
  <2>2. WorkInv'
    BY <1>16 DEF OverflowCall, SetPhase, WorkInv
  <2>3. WorkerInv'
    BY <1>16 DEF OverflowCall, SetPhase, WorkerInv
  <2>4. OverflowInv'
    BY <1>16 DEF OverflowCall, SetPhase, Called, OverflowInv
  <2>5. Placed'
    BY <1>16 DEF OverflowCall, SetPhase, Placed
  <2>6. DrainInv'
    BY <1>16 DEF OverflowCall, DrainInv
  <2> QED
    BY <2>1, <2>2, <2>3, <2>4, <2>5, <2>6
<1>17. ASSUME NEW c \in Conns, OverflowReturn(c) PROVE Ownership'
  <2>1. CurInv'
    BY <1>17 DEF OverflowReturn, CurInv
  <2>2. WorkInv'
    BY <1>17 DEF OverflowReturn, WorkInv
  <2>3. WorkerInv'
    BY <1>17 DEF OverflowReturn, WorkerInv
  <2>4. OverflowInv'
    BY <1>17 DEF OverflowReturn, OverflowInv
  <2>5. Placed'
    BY <1>17 DEF OverflowReturn, Placed
  <2>6. DrainInv'
    BY <1>17 DEF OverflowReturn, DrainInv
  <2> QED
    BY <2>1, <2>2, <2>3, <2>4, <2>5, <2>6
<1>18. ASSUME NEW c \in Conns, HandleNext(c) PROVE Ownership'
  <2>0. /\ phase[c] \in Called \ {"done"}
        /\ \E p \in Called : SetPhase(c, p)
        /\ UNCHANGED <<loopVars, poolVars>>
    BY <1>18, HandleShape
  <2>1. CurInv'
    BY <2>0 DEF SetPhase, Called, CurInv
  <2>2. WorkInv'
    BY <2>0 DEF SetPhase, Called, WorkInv
  <2>3. WorkerInv'
    BY <2>0 DEF SetPhase, Called, WorkerInv
  <2>4. OverflowInv'
    BY <2>0 DEF SetPhase, OverflowInv
  <2>5. Placed'
    BY <2>0 DEF SetPhase, Called, Placed
  <2>6. DrainInv'
    BY <2>0 DEF DrainInv
  <2> QED
    BY <2>1, <2>2, <2>3, <2>4, <2>5, <2>6
<1>19. CASE UNCHANGED vars
  BY <1>19 DEF vars, CurInv, WorkInv, WorkerInv, OverflowInv, Placed, DrainInv
<1> QED
  BY <1>1, <1>2, <1>3, <1>4, <1>5, <1>6, <1>7, <1>8, <1>9, <1>10,
     <1>11, <1>12, <1>13, <1>14, <1>15, <1>16, <1>17, <1>18, <1>19
  DEF Next, LoopNext, WorkerNext, OverflowNext, Terminated, Send

-----------------------------------------------------------------------------
(* Every counter counts *)

\* A step that moves no connection into or out of a counted set and leaves the
\* collector alone keeps its counts.
LEMMA ConnCountsKept ==
    ASSUME TypeOK, ConnCounts, UNCHANGED metricVars,
           \/ UNCHANGED phase
           \/ \E c \in Conns, p \in Phases :
                 SetPhase(c, p) /\ p \notin Counted /\ phase[c] \notin Counted
    PROVE  ConnCounts'
<1> USE DEF metricVars
<1>1. CASE UNCHANGED phase
  BY <1>1 DEF ConnCounts, InPhase
<1>2. ASSUME NEW c \in Conns, NEW p \in Phases, SetPhase(c, p),
             p \notin Counted, phase[c] \notin Counted
      PROVE  ConnCounts'
  <2>1. \A P \in SUBSET (Counted) : Cardinality(InPhase(P)') = Cardinality(InPhase(P))
    BY <1>2, PhaseMove
  <2>2. {"sni", "relay"} \subseteq Counted /\ {"dial", "bypass"} \subseteq Counted
    BY DEF Counted, Called
  <2>3. /\ Cardinality(InPhase(Counted)') = Cardinality(InPhase(Counted))
        /\ Cardinality(InPhase({"sni", "relay"})') = Cardinality(InPhase({"sni", "relay"}))
        /\ Cardinality(InPhase({"dial", "bypass"})') = Cardinality(InPhase({"dial", "bypass"}))
    BY <2>1, <2>2
  <2> QED
    BY <2>3 DEF ConnCounts
<1> QED
  BY <1>1, <1>2

\* Every step of Handle keeps the collector's counts.
LEMMA ConnCountsStep ==
    ASSUME TypeOK, ConnCounts, NEW c \in Conns, HandleNext(c)
    PROVE  ConnCounts'
<1> DEFINE D == Cardinality(InPhase(Counted))
           R == Cardinality(InPhase({"sni", "relay"}))
           B == Cardinality(InPhase({"dial", "bypass"}))
<1>1. ASSUME NEW p, SetPhase(c, p), NEW P
      PROVE  /\ Cardinality(InPhase(P)) \in Nat
             /\ Cardinality(InPhase(P)') \in Nat
             /\ (phase[c] \in P <=> p \in P) => Cardinality(InPhase(P)') = Cardinality(InPhase(P))
             /\ phase[c] \notin P /\ p \in P => Cardinality(InPhase(P)') = Cardinality(InPhase(P)) + 1
             /\ phase[c] \in P /\ p \notin P => Cardinality(InPhase(P)') = Cardinality(InPhase(P)) - 1
  BY <1>1, PhaseMove
<1>2. /\ total \in Nat /\ failed \in Nat
      /\ bypassOK \in Nat /\ bypassFail \in Nat /\ relayActive \in Nat
  BY DEF TypeOK
<1>3. D \in Nat /\ R \in Nat /\ B \in Nat
  BY CountsNat
<1>4. CASE ConnOpenedActive(c)
  <2>1. SetPhase(c, "opened") /\ phase[c] = "fn"
    BY <1>4 DEF ConnOpenedActive
  <2>2. D' = D /\ R' = R /\ B' = B
    BY <2>1, <1>1 DEF Counted, Called
  <2> HIDE DEF D, R, B
  <2> QED
    BY <1>2, <1>3, <1>4, <2>2 DEF ConnCounts, ConnOpenedActive, metricVars, D, R, B
<1>5. CASE ConnOpenedTotal(c)
  <2>1. SetPhase(c, "dial") /\ phase[c] = "opened"
    BY <1>5 DEF ConnOpenedTotal
  <2>2. D' = D + 1 /\ R' = R /\ B' = B + 1
    BY <2>1, <1>1 DEF Counted, Called
  <2> HIDE DEF D, R, B
  <2> QED
    BY <1>2, <1>3, <1>5, <2>2 DEF ConnCounts, ConnOpenedTotal, metricVars, D, R, B
<1>6. CASE DialOk(c) /\ Bypass
  <2>1. SetPhase(c, "bypass") /\ phase[c] = "dial"
    BY <1>6 DEF DialOk
  <2>2. D' = D /\ R' = R /\ B' = B
    BY <2>1, <1>1 DEF Counted, Called
  <2> HIDE DEF D, R, B
  <2> QED
    BY <1>2, <1>3, <1>6, <2>2 DEF ConnCounts, DialOk, metricVars, D, R, B
<1>7. CASE DialOk(c) /\ ~Bypass
  <2>1. SetPhase(c, "prerelay") /\ phase[c] = "dial"
    BY <1>7 DEF DialOk
  <2>2. D' = D /\ R' = R /\ B' = B - 1
    BY <2>1, <1>1 DEF Counted, Called
  <2> HIDE DEF D, R, B
  <2> QED
    BY <1>2, <1>3, <1>7, <2>2 DEF ConnCounts, DialOk, metricVars, D, R, B
<1>8. CASE ConnFailedTotal(c)
  <2>1. SetPhase(c, "failing") /\ phase[c] = "dial"
    BY <1>8 DEF ConnFailedTotal
  <2>2. D' = D /\ R' = R /\ B' = B - 1
    BY <2>1, <1>1 DEF Counted, Called
  <2> HIDE DEF D, R, B
  <2> QED
    BY <1>2, <1>3, <1>8, <2>2 DEF ConnCounts, ConnFailedTotal, metricVars, D, R, B
<1>9. CASE ConnFailedActive(c)
  <2>1. SetPhase(c, "failed") /\ phase[c] = "failing"
    BY <1>9 DEF ConnFailedActive
  <2>2. D' = D /\ R' = R /\ B' = B
    BY <2>1, <1>1 DEF Counted, Called
  <2> HIDE DEF D, R, B
  <2> QED
    BY <1>2, <1>3, <1>9, <2>2 DEF ConnCounts, ConnFailedActive, metricVars, D, R, B
<1>10. CASE Inject(c)
  <2>1. SetPhase(c, "prerelay") /\ phase[c] = "bypass"
    BY <1>10 DEF Inject
  <2>2. D' = D /\ R' = R /\ B' = B - 1
    BY <2>1, <1>1 DEF Counted, Called
  <2> HIDE DEF D, R, B
  <2> QED
    BY <1>2, <1>3, <1>10, <2>2 DEF ConnCounts, Inject, metricVars, D, R, B
<1>11. CASE RelayStarted(c)
  <2>1. (\E p \in {"sni", "relay"} : SetPhase(c, p)) /\ phase[c] = "prerelay"
    BY <1>11 DEF RelayStarted
  <2>2. D' = D /\ R' = R + 1 /\ B' = B
    BY <2>1, <1>1 DEF Counted, Called
  <2> HIDE DEF D, R, B
  <2> QED
    BY <1>2, <1>3, <1>11, <2>2 DEF ConnCounts, RelayStarted, metricVars, D, R, B
<1>12. CASE SniRead(c)
  <2>1. SetPhase(c, "relay") /\ phase[c] = "sni"
    BY <1>12 DEF SniRead
  <2>2. D' = D /\ R' = R /\ B' = B
    BY <2>1, <1>1 DEF Counted, Called
  <2> HIDE DEF D, R, B
  <2> QED
    BY <1>2, <1>3, <1>12, <2>2 DEF ConnCounts, SniRead, metricVars, D, R, B
<1>13. CASE RelayDone(c)
  <2>1. SetPhase(c, "unwind") /\ phase[c] \in {"sni", "relay"}
    BY <1>13 DEF RelayDone
  <2>2. D' = D /\ R' = R - 1 /\ B' = B
    BY <2>1, <1>1 DEF Counted, Called
  <2> HIDE DEF D, R, B
  <2> QED
    BY <1>2, <1>3, <1>13, <2>2 DEF ConnCounts, RelayDone, metricVars, D, R, B
<1>14. CASE ConnClosed(c)
  <2>1. SetPhase(c, "close") /\ phase[c] \in {"failed", "unwind"}
    BY <1>14 DEF ConnClosed
  <2>2. D' = D /\ R' = R /\ B' = B
    BY <2>1, <1>1 DEF Counted, Called
  <2> HIDE DEF D, R, B
  <2> QED
    BY <1>2, <1>3, <1>14, <2>2 DEF ConnCounts, ConnClosed, metricVars, D, R, B
<1>15. CASE ClientClose(c)
  <2>1. SetPhase(c, "done") /\ phase[c] = "close"
    BY <1>15 DEF ClientClose
  <2>2. D' = D /\ R' = R /\ B' = B
    BY <2>1, <1>1 DEF Counted, Called
  <2> HIDE DEF D, R, B
  <2> QED
    BY <1>2, <1>3, <1>15, <2>2 DEF ConnCounts, ClientClose, metricVars, D, R, B
<1> QED
  BY <1>4, <1>5, <1>6, <1>7, <1>8, <1>9, <1>10, <1>11, <1>12, <1>13, <1>14, <1>15 DEF HandleNext

\* Every step keeps every count.
LEMMA CountsStep ==
    ASSUME TypeOK, Ownership, Counts, [Next]_vars
    PROVE  Counts'
<1> USE DEF Counts, loopVars, poolVars
<1>1. ConnCounts'
  <2>1. CASE \E c \in Conns : HandleNext(c)
    BY <2>1, ConnCountsStep
  <2>2. CASE \E c \in Conns : Accept(c) \/ OverflowCall(c)
    BY <2>2, ConnCountsKept DEF Accept, OverflowCall, Counted, Called, Phases
  <2>3. CASE Admit \/ RateCheck \/ Submit
    BY <2>3, ConnCountsKept DEF Admit, RateCheck, Refuse, Submit, Ownership, CurInv, Counted, Called, Phases
  <2>4. CASE \E w \in Workers : Call(w)
    <3>1. PICK w \in Workers : Call(w)
      BY <2>4
    <3>2. wconn[w] \in Conns /\ phase[wconn[w]] = "queued"
      BY <3>1 DEF Call, Ownership, WorkerInv, TypeOK
    <3> QED
      BY <3>1, <3>2, ConnCountsKept DEF Call, Counted, Called, Phases
  <2>5. CASE \/ AcceptError \/ Send \/ Drain \/ WaitWorkers \/ WaitOverflow \/ Cancel
             \/ CloseListener \/ Terminated \/ UNCHANGED vars
    BY <2>5, ConnCountsKept
    DEF AcceptError, Send, Drain, WaitWorkers, WaitOverflow, Cancel, CloseListener, Terminated, vars
  <2>6. CASE \/ \E w \in Workers : Receive(w) \/ Return(w) \/ Exit(w)
             \/ \E c \in Conns : OverflowReturn(c)
    BY <2>6, ConnCountsKept DEF Receive, Return, Exit, OverflowReturn
  <2> QED
    BY <2>1, <2>2, <2>3, <2>4, <2>5, <2>6 DEF Next, LoopNext, WorkerNext, OverflowNext
<1> DEFINE G == Cardinality(AtPoint({"got"}))
<1>2. /\ G \in Nat /\ queued \in Nat /\ Len(work) \in Nat /\ overflowN \in Nat
      /\ IsFiniteSet(overflow)
  BY CountsNat, LenProperties DEF TypeOK
<1>3. UNCHANGED wpc => UNCHANGED G
  BY DEF AtPoint
<1>4. QueuedCount'
  <2>1. ASSUME NEW c \in Conns, Accept(c) PROVE QueuedCount'
    BY <2>1, <1>3 DEF Accept, QueuedCount
  <2>2. CASE AcceptError \/ Admit \/ RateCheck
    BY <2>2, <1>3 DEF AcceptError, Admit, RateCheck, Refuse, QueuedCount
  <2>3. CASE Submit
    BY <2>3, <1>2, <1>3 DEF Submit, QueuedCount
  <2>4. CASE Send
    <3>1. CASE SendBuffered
      <4>1. Len(work') = Len(work) + 1
        BY <2>4, <3>1 DEF Send, SendBuffered, TypeOK, Ownership, CurInv
      <4> QED
        BY <2>4, <3>1, <4>1, <1>2, <1>3 DEF Send, SendBuffered, QueuedCount
    <3>2. CASE Spill
      BY <2>4, <3>2, <1>2, <1>3 DEF Send, Spill, QueuedCount
    <3> QED
      BY <2>4, <3>1, <3>2 DEF Send
  <2>5. CASE Drain \/ WaitWorkers \/ WaitOverflow \/ Cancel \/ CloseListener \/ UNCHANGED vars
    BY <2>5, <1>3
    DEF Drain, WaitWorkers, WaitOverflow, Cancel, CloseListener, vars, QueuedCount
  <2>6. ASSUME NEW w \in Workers, Receive(w) PROVE QueuedCount'
    <3>1. G' = G + 1
      BY <2>6, WorkerMove DEF Receive
    <3>2. Len(work') = Len(work) - 1
      BY <2>6 DEF Receive, TypeOK
    <3>3. queued' = queued /\ srv' = srv
      BY <2>6 DEF Receive
    <3> HIDE DEF G
    <3> QED
      BY <3>1, <3>2, <3>3, <1>2 DEF QueuedCount, G
  <2>7. ASSUME NEW w \in Workers, Call(w) PROVE QueuedCount'
    <3>1. wpc[w] \in {"got"} /\ "run" \notin {"got"} /\ wpc' = [wpc EXCEPT ![w] = "run"]
      BY <2>7 DEF Call
    <3>2. G' = G - 1
      BY <3>1, WorkerMove
    <3> QED
      BY <2>7, <3>2, <1>2 DEF Call, QueuedCount
  <2>8. ASSUME NEW w \in Workers, Return(w) \/ Exit(w) PROVE QueuedCount'
    <3>1. G' = G
      <4>1. PICK p \in {"idle", "exited"} : wpc[w] \in {"run", "idle"} /\ wpc' = [wpc EXCEPT ![w] = p]
        BY <2>8 DEF Return, Exit
      <4> QED
        BY <4>1, WorkerMove
    <3> QED
      BY <2>8, <3>1 DEF Return, Exit, QueuedCount
  <2>9. ASSUME NEW c \in Conns, OverflowNext(c) \/ HandleNext(c) PROVE QueuedCount'
    BY <2>9, <1>3, HandleShape DEF OverflowNext, OverflowCall, OverflowReturn, QueuedCount
  <2> QED
    BY <2>1, <2>2, <2>3, <2>4, <2>5, <2>6, <2>7, <2>8, <2>9
    DEF Next, LoopNext, WorkerNext, Terminated
<1>5. OverflowCount'
  <2>1. CASE Send /\ Spill
    <3>1. overflow' = overflow \cup {cur} /\ cur \notin overflow
      BY <2>1 DEF Spill, Ownership, OverflowInv
    <3> QED
      BY <2>1, <3>1, <1>2, FS_AddElement DEF Spill, OverflowCount
  <2>2. ASSUME NEW c \in Conns, OverflowReturn(c) PROVE OverflowCount'
    BY <2>2, <1>2, FS_RemoveElement DEF OverflowReturn, OverflowCount
  <2>3. ASSUME NEW c \in Conns, HandleNext(c) PROVE OverflowCount'
    BY <2>3, HandleShape DEF OverflowCount
  <2>4. CASE UNCHANGED <<overflow, overflowN>>
    BY <2>4 DEF OverflowCount
  <2> QED
    BY <2>1, <2>2, <2>3, <2>4
    DEF Next, LoopNext, WorkerNext, OverflowNext, Accept, AcceptError, Admit, RateCheck, Refuse,
        Submit, Send, SendBuffered, Drain, WaitWorkers, WaitOverflow, Cancel, CloseListener,
        Receive, Call, Return, Exit, OverflowCall, Terminated, vars
<1> QED
  BY <1>1, <1>4, <1>5

-----------------------------------------------------------------------------
(* Types *)

\* Every step keeps the types, given that the counts stay what they are: a
\* counter that is decremented has something to count.
LEMMA TypeStep ==
    ASSUME TypeOK, Ownership, Counts, Counts', [Next]_vars
    PROVE  TypeOK'
<1> USE DEF loopVars, poolVars, metricVars
<1>1. ASSUME NEW c \in Conns, Accept(c) PROVE TypeOK'
  BY <1>1 DEF Accept, SetPhase, TypeOK, Phases
<1>2. CASE AcceptError \/ Admit \/ RateCheck
  BY <1>2 DEF AcceptError, Admit, RateCheck, Refuse, SetPhase, TypeOK, Phases
<1>3. CASE Submit
  <2>1. queued' \in Nat
    BY <1>3 DEF Submit, TypeOK
  <2>2. phase' \in [Conns -> Phases]
    BY <1>3 DEF Submit, SetPhase, TypeOK, Phases
  <2> QED
    BY <1>3, <2>1, <2>2 DEF Submit, TypeOK
<1>4. CASE Send
  <2>1. cur \in Conns /\ phase' = phase
    BY <1>4 DEF Send, SendBuffered, Spill, Ownership, CurInv
  <2>2. CASE SendBuffered
    <3>1. work' \in Seq(Conns) /\ Len(work') = Len(work) + 1
      BY <2>1, <2>2 DEF SendBuffered, TypeOK
    <3>2. Len(work') <= ChanCap
      BY <2>2, <3>1, ChanCapAssumption, LenProperties DEF SendBuffered, TypeOK
    <3> QED
      BY <1>4, <2>2, <3>1, <3>2 DEF Send, SendBuffered, TypeOK
  <2>3. CASE Spill
    <3>1. queued' \in Nat
      <4>1. Len(work) \in Nat /\ Cardinality(AtPoint({"got"})) \in Nat
        BY CountsNat, LenProperties DEF TypeOK
      <4> QED
        BY <4>1, <2>3 DEF Spill, Counts, QueuedCount
    <3> QED
      BY <1>4, <2>1, <2>3, <3>1 DEF Send, Spill, TypeOK
  <2> QED
    BY <1>4, <2>2, <2>3 DEF Send
<1>5. CASE Drain \/ WaitWorkers \/ WaitOverflow \/ Cancel \/ CloseListener \/ UNCHANGED vars
  BY <1>5 DEF Drain, WaitWorkers, WaitOverflow, Cancel, CloseListener, vars, TypeOK
<1>6. ASSUME NEW w \in Workers, Receive(w) PROVE TypeOK'
  <2>1. work' \in Seq(Conns) /\ Len(work') <= ChanCap /\ Head(work) \in Conns
    BY <1>6, ChanCapAssumption DEF Receive, TypeOK
  <2> QED
    BY <1>6, <2>1 DEF Receive, TypeOK
<1>7. ASSUME NEW w \in Workers, Call(w) PROVE TypeOK'
  <2>1. queued' \in Nat
    <3>1. /\ Len(work) \in Nat /\ Cardinality(AtPoint({"got"})) \in Nat
          /\ Cardinality(AtPoint({"got"})') \in Nat
          /\ Cardinality(AtPoint({"got"})') = Cardinality(AtPoint({"got"})) - 1
      <4>1. wpc[w] \in {"got"} /\ "run" \notin {"got"} /\ wpc' = [wpc EXCEPT ![w] = "run"]
        BY <1>7 DEF Call
      <4>2. Len(work) \in Nat
        BY LenProperties DEF TypeOK
      <4> QED
        BY <4>1, <4>2, WorkerMove
    <3> QED
      BY <3>1, <1>7 DEF Call, Counts, QueuedCount
  <2> QED
    BY <1>7, <2>1 DEF Call, SetPhase, TypeOK, Phases
<1>8. ASSUME NEW w \in Workers, Return(w) \/ Exit(w) PROVE TypeOK'
  BY <1>8 DEF Return, Exit, TypeOK
<1>9. ASSUME NEW c \in Conns, OverflowCall(c) PROVE TypeOK'
  BY <1>9 DEF OverflowCall, SetPhase, TypeOK, Phases
<1>10. ASSUME NEW c \in Conns, OverflowReturn(c) PROVE TypeOK'
  <2>1. overflowN' \in Nat
    <3>1. IsFiniteSet(overflow) /\ overflow' = overflow \ {c}
      BY <1>10, CountsNat DEF OverflowReturn
    <3>2. Cardinality(overflow') \in Nat
      BY <3>1, FS_RemoveElement, FS_CardinalityType, <1>10 DEF OverflowReturn
    <3> QED
      BY <3>2 DEF Counts, OverflowCount
  <2> QED
    BY <1>10, <2>1 DEF OverflowReturn, TypeOK
<1>11. ASSUME NEW c \in Conns, RelayDone(c) PROVE TypeOK'
  <2>1. relayActive' \in Nat
    <3>1. Cardinality(InPhase({"sni", "relay"})') \in Nat
      BY <1>11, PhaseMove DEF RelayDone
    <3> QED
      BY <3>1 DEF Counts, ConnCounts
  <2> QED
    BY <1>11, <2>1 DEF RelayDone, SetPhase, TypeOK, Phases
<1>12. ASSUME NEW c \in Conns, HandleNext(c), ~RelayDone(c) PROVE TypeOK'
  <2>1. phase' \in [Conns -> Phases]
    BY <1>12, HandleShape DEF SetPhase, TypeOK, Phases, Called
  <2>2. /\ active' \in Int /\ total' \in Nat /\ failed' \in Nat
        /\ bypassOK' \in Nat /\ bypassFail' \in Nat /\ relayActive' \in Nat
    <3>1. /\ active \in Int /\ total \in Nat /\ failed \in Nat
          /\ bypassOK \in Nat /\ bypassFail \in Nat /\ relayActive \in Nat
      BY DEF TypeOK
    <3> QED
      BY <1>12, <3>1 DEF HandleNext, ConnOpenedActive, ConnOpenedTotal, DialOk, ConnFailedTotal,
                         ConnFailedActive, Inject, RelayStarted, SniRead,
                         ConnClosed, ClientClose
  <2> QED
    BY <1>12, <2>1, <2>2, HandleShape DEF TypeOK
<1> QED
  BY <1>1, <1>2, <1>3, <1>4, <1>5, <1>6, <1>7, <1>8, <1>9, <1>10, <1>11, <1>12
  DEF Next, LoopNext, WorkerNext, OverflowNext, Terminated

\* The invariant holds at the start.
LEMMA IInvInit == Init => IInv
<1> SUFFICES ASSUME Init PROVE IInv
  OBVIOUS
<1>1. TypeOK
  <2>1. work \in Seq(Conns) /\ Len(work) <= ChanCap
    BY ChanCapAssumption DEF Init
  <2>2. /\ wpc \in [Workers -> {"idle", "got", "run", "exited"}]
        /\ wconn \in [Workers -> Conns \cup {NoConn}]
        /\ phase \in [Conns -> Phases]
    BY DEF Init, Phases
  <2>3. cancelled \in BOOLEAN /\ lnClosed \in BOOLEAN /\ closed \in BOOLEAN
    BY DEF Init
  <2>4. /\ queued \in Nat /\ overflowN \in Nat /\ active \in Int /\ total \in Nat
        /\ failed \in Nat /\ bypassOK \in Nat /\ bypassFail \in Nat /\ relayActive \in Nat
    BY DEF Init
  <2> QED
    BY <2>1, <2>2, <2>3, <2>4 DEF Init, TypeOK
<1>2. Ownership
  BY ConnsAssumption DEF Init, Ownership, CurInv, WorkInv, WorkerInv, OverflowInv, Placed, DrainInv
<1>3. Counts
  <2>1. /\ AtPoint({"got"}) = {} /\ InPhase(Counted) = {}
        /\ InPhase({"sni", "relay"}) = {} /\ InPhase({"dial", "bypass"}) = {}
    BY DEF Init, AtPoint, InPhase, Counted, Called
  <2>2. Cardinality({}) = 0
    BY FS_EmptySet
  <2>3. QueuedCount
    <3>1. Len(work) = 0 /\ srv # "send" /\ queued = 0
      BY DEF Init
    <3>2. Cardinality(AtPoint({"got"})) = 0
      BY <2>1, <2>2
    <3> QED
      BY <3>1, <3>2 DEF QueuedCount
  <2>4. OverflowCount
    BY <2>2 DEF Init, OverflowCount
  <2>5. ConnCounts
    <3>1. /\ total = 0 /\ failed = 0 /\ bypassOK = 0 /\ bypassFail = 0
          /\ relayActive = 0
      BY DEF Init
    <3> QED
      BY <2>1, <2>2, <3>1 DEF ConnCounts
  <2> QED
    BY <2>3, <2>4, <2>5 DEF Counts
<1> QED
  BY <1>1, <1>2, <1>3 DEF IInv

\* Every step keeps the invariant.
LEMMA IInvStep == IInv /\ [Next]_vars => IInv'
BY OwnershipStep, CountsStep, TypeStep DEF IInv

\* The invariant holds in every reachable state.
THEOREM Invariance == Spec => []IInv
BY IInvInit, IInvStep, PTL DEF Spec

-----------------------------------------------------------------------------
(* What the server promises *)

\* Every variable of the server keeps its type: the channel never holds more
\* than its capacity, and no unsigned counter is decremented below zero.
THEOREM TypeCorrect == Spec => []TypeOK
BY Invariance, PTL DEF IInv

\* The queue gauge counts the closures in the channel, in submit's hands and
\* with a worker that has not uncounted its own, under every interleaving.
THEOREM QueueGaugeExact == Spec => []QueuedAccounting
<1>1. IInv => QueuedAccounting
  <2>1. AtPoint({"got"}) = {w \in Workers : wpc[w] = "got"}
    BY DEF AtPoint
  <2> QED
    BY <2>1 DEF IInv, Counts, QueuedCount, QueuedAccounting
<1> QED
  BY <1>1, Invariance, PTL

\* Submit's select neither loses a closure nor runs it twice: a connection is in
\* at most one place, and in exactly one while it is under way.
THEOREM ExactlyOneOwner == Spec => []OneOwner
<1>1. IInv => OneOwner
  <2> SUFFICES ASSUME IInv, NEW c \in Conns
               PROVE  /\ Owners(c) <= 1
                      /\ phase[c] \notin {"new", "refused", "done"} => Owners(c) = 1
    BY DEF OneOwner
  <2> DEFINE I == {i \in DOMAIN work : work[i] = c}
             W == {w \in Workers : wconn[w] = c}
             O == {c} \cap overflow
             H == {c} \cap {cur}
  <2>1. DOMAIN work = 1..Len(work) /\ c # NoConn
    BY ConnsAssumption, LenProperties DEF IInv, TypeOK
  <2>2. \A i, j \in I : i = j
    BY <2>1 DEF IInv, Ownership, WorkInv
  <2>3. \A v, w \in W : v = w
    BY <2>1 DEF IInv, Ownership, WorkerInv
  <2>4. /\ I # {} => W = {} /\ O = {} /\ H = {}
        /\ W # {} => I = {} /\ O = {} /\ H = {}
        /\ O # {} => I = {} /\ W = {} /\ H = {}
    BY <2>1 DEF IInv, Ownership, WorkInv, WorkerInv, OverflowInv
  <2>5. phase[c] \notin {"new", "refused", "done"} => I # {} \/ W # {} \/ O # {} \/ H # {}
    BY <2>1 DEF IInv, Ownership, Placed
  <2>6. /\ I = {} \/ Cardinality(I) = 1
        /\ W = {} \/ Cardinality(W) = 1
        /\ O = {} \/ Cardinality(O) = 1
        /\ H = {} \/ Cardinality(H) = 1
    <3>1. ASSUME NEW S, \A x, y \in S : x = y PROVE S = {} \/ Cardinality(S) = 1
      <4>1. S = {} \/ \E x : S = {x}
        BY <3>1
      <4> QED
        BY <4>1, FS_Singleton
    <3>2. (\A x, y \in O : x = y) /\ (\A x, y \in H : x = y)
      OBVIOUS
    <3> HIDE DEF I, W, O, H
    <3> QED
      BY <3>1, <3>2, <2>2, <2>3
  <2>7. Cardinality({}) = 0
    BY FS_EmptySet
  <2>8. Owners(c) = Cardinality(I) + Cardinality(W) + Cardinality(O) + Cardinality(H)
    BY DEF Owners
  <2> HIDE DEF I, W, O, H
  <2> QED
    BY <2>4, <2>5, <2>6, <2>7, <2>8
<1> QED
  BY <1>1, Invariance, PTL

\* When ListenAndServe returns, every admitted connection is done, the queue, the
\* overflow and the relays are empty, and the counters agree with each other.
THEOREM DrainIsComplete == Spec => []DrainComplete
<1>1. IInv => DrainComplete
  <2> SUFFICES ASSUME IInv, srv = "returned"
               PROVE  /\ \A c \in Admitted : phase[c] = "done"
                      /\ work = <<>> /\ queued = 0 /\ overflowN = 0
                      /\ total = Cardinality(Admitted) /\ relayActive = 0
                      /\ Bypass => total = failed + bypassOK + bypassFail
    BY DEF DrainComplete
  <2>1. /\ \A w \in Workers : wpc[w] = "exited" /\ wconn[w] = NoConn
        /\ overflow = {} /\ cur = NoConn
    BY DEF IInv, Ownership, DrainInv, WorkerInv, CurInv
  <2>2. work = <<>>
    BY <2>1, WorkersAssumption DEF IInv, Ownership, DrainInv
  <2>3. \A c \in Conns : phase[c] \in {"new", "refused", "done"}
    BY <2>1, <2>2, ConnsAssumption DEF IInv, Ownership, Placed
  <2>4. /\ AtPoint({"got"}) = {} /\ InPhase({"sni", "relay"}) = {} /\ InPhase({"dial", "bypass"}) = {}
    BY <2>1, <2>3 DEF AtPoint, InPhase
  <2>5. Admitted = InPhase(Counted)
    BY <2>3 DEF Admitted, InPhase, Counted, Called
  <2>6. Cardinality({}) = 0
    BY FS_EmptySet
  <2>7. queued = 0
    <3>1. Len(work) = 0 /\ Cardinality(AtPoint({"got"})) = 0
      BY <2>2, <2>4, <2>6
    <3> QED
      BY <3>1 DEF IInv, Counts, QueuedCount
  <2>8. overflowN = 0 /\ relayActive = 0 /\ total = Cardinality(Admitted)
    BY <2>1, <2>4, <2>5, <2>6 DEF IInv, Counts, OverflowCount, ConnCounts
  <2>9. Bypass => total = failed + bypassOK + bypassFail
    <3>1. failed \in Nat /\ bypassOK \in Nat /\ bypassFail \in Nat
      BY DEF IInv, TypeOK
    <3>2. Cardinality(InPhase({"dial", "bypass"})) = 0
      BY <2>4, <2>6
    <3>3. Bypass => total = failed + bypassOK + bypassFail
                              + Cardinality(InPhase({"dial", "bypass"}))
      BY DEF IInv, Counts, ConnCounts
    <3> QED
      BY <3>1, <3>2, <3>3
  <2>10. \A c \in Admitted : phase[c] = "done"
    BY <2>3 DEF Admitted
  <2> QED
    BY <2>2, <2>7, <2>8, <2>9, <2>10
<1> QED
  BY <1>1, Invariance, PTL

-----------------------------------------------------------------------------
(* The server implements JobPool *)

\* Every step of the server is a step of the pool or changes nothing of it.
LEMMA PoolStep ==
    ASSUME IInv, [Next]_vars
    PROVE  [Pool!Next]_Pool!vars
<1> DEFINE Waits == {c \in Conns : phase[c] = "queued"}
           Runs == {c \in Conns : phase[c] \in Running}
           Ends == {c \in Conns : phase[c] = "done"}
<1> USE DEF loopVars, poolVars, metricVars
<1>1. ASSUME UNCHANGED phase, srv' = "returned" <=> srv = "returned"
      PROVE  [Pool!Next]_Pool!vars
  BY <1>1 DEF Pool!vars
<1>2. ASSUME NEW c \in Conns, NEW p \in {"held", "refused"}, SetPhase(c, p),
             phase[c] \in {"new", "held"}, srv # "returned", srv' # "returned"
      PROVE  [Pool!Next]_Pool!vars
  <2>1. Waits' = Waits /\ Runs' = Runs /\ Ends' = Ends
    BY <1>2 DEF SetPhase, IInv, TypeOK, Running, Served
  <2> QED BY <1>2, <2>1 DEF Pool!vars
<1>3. ASSUME NEW c \in Conns, SetPhase(c, "queued"), phase[c] = "held",
             srv # "returned", srv' # "returned"
      PROVE  [Pool!Next]_Pool!vars
  <2>1. Waits' = Waits \cup {c} /\ Runs' = Runs /\ Ends' = Ends /\ c \notin Waits \cup Runs \cup Ends
    BY <1>3 DEF SetPhase, IInv, TypeOK, Running, Served
  <2> QED BY <1>3, <2>1 DEF Pool!Next, Pool!Submit
<1>4. ASSUME NEW c \in Conns, SetPhase(c, "fn"), phase[c] = "queued", srv' = srv
      PROVE  [Pool!Next]_Pool!vars
  <2>1. Waits' = Waits \ {c} /\ Runs' = Runs \cup {c} /\ Ends' = Ends /\ c \in Waits
    BY <1>4 DEF SetPhase, IInv, TypeOK, Running, Served
  <2> QED BY <1>4, <2>1 DEF Pool!Next, Pool!Start
<1>5. ASSUME NEW c \in Conns, HandleNext(c)
      PROVE  [Pool!Next]_Pool!vars
  <2>1. srv' = srv /\ phase[c] \in Running
    BY <1>5 DEF HandleNext, ConnOpenedActive, ConnOpenedTotal, DialOk, ConnFailedTotal,
                ConnFailedActive, Inject, RelayStarted, SniRead, RelayDone, ConnClosed, ClientClose, Running, Served
  <2>2. CASE ClientClose(c)
    <3>1. Waits' = Waits /\ Runs' = Runs \ {c} /\ Ends' = Ends \cup {c} /\ c \in Runs
      BY <2>2 DEF ClientClose, SetPhase, IInv, TypeOK, Running, Served
    <3> QED BY <2>1, <3>1 DEF Pool!Next, Pool!Finish
  <2>3. CASE ~ClientClose(c)
    <3>1. PICK p \in Running : SetPhase(c, p)
      BY <1>5, <2>3 DEF HandleNext, ConnOpenedActive, ConnOpenedTotal, DialOk, ConnFailedTotal,
                        ConnFailedActive, Inject, RelayStarted, SniRead, RelayDone, ConnClosed, Running, Served
    <3>2. Waits' = Waits /\ Runs' = Runs /\ Ends' = Ends
      BY <2>1, <3>1 DEF SetPhase, IInv, TypeOK, Running, Served
    <3> QED BY <2>1, <3>2 DEF Pool!vars
  <2> QED BY <2>2, <2>3
<1>6. CASE WaitOverflow
  <2>1. srv = "overflow" /\ overflow = {} /\ srv' = "returned" /\ phase' = phase
    BY <1>6 DEF WaitOverflow
  <2>2. cur = NoConn /\ \A w \in Workers : wpc[w] = "exited" /\ wconn[w] = NoConn
    BY <2>1 DEF IInv, Ownership, CurInv, DrainInv, WorkerInv
  <2>3. work = <<>>
    BY <2>2, WorkersAssumption DEF IInv, Ownership, DrainInv
  <2>4. Len(work) = 0
    BY <2>3
  <2>5. \A c \in Conns : phase[c] \in {"new", "refused", "done"}
    BY <2>1, <2>2, <2>4, ConnsAssumption DEF IInv, Ownership, Placed
  <2>6. Waits = {} /\ Runs = {}
    BY <2>5 DEF Running, Served
  <2> QED BY <2>1, <2>6 DEF Pool!Next, Pool!Drained
<1>7. CASE LoopNext
  <2>1. CASE Submit
    BY <1>3, <2>1 DEF Submit, IInv, Ownership, CurInv
  <2>2. CASE Refuse /\ srv \in {"admit", "rate"}
    BY <1>2, <2>2 DEF Refuse, IInv, Ownership, CurInv
  <2>3. CASE Admit /\ ~Refuse
    <3>1. UNCHANGED phase /\ srv # "returned" /\ srv' # "returned"
      BY <2>3 DEF Admit
    <3> QED BY <1>1, <3>1
  <2>4. CASE RateCheck /\ ~Refuse
    <3>1. UNCHANGED phase /\ srv # "returned" /\ srv' # "returned"
      BY <2>4 DEF RateCheck
    <3> QED BY <1>1, <3>1
  <2>5. CASE AcceptError \/ Send \/ Drain \/ WaitWorkers
    <3>1. UNCHANGED phase /\ srv # "returned" /\ srv' # "returned"
      BY <2>5 DEF AcceptError, Send, SendBuffered, Spill, Drain, WaitWorkers
    <3> QED BY <1>1, <3>1
  <2>6. Admit \/ RateCheck => srv \in {"admit", "rate"}
    BY DEF Admit, RateCheck
  <2> QED BY <1>6, <1>7, <2>1, <2>2, <2>3, <2>4, <2>5, <2>6 DEF LoopNext
<1>8. ASSUME NEW c \in Conns, Accept(c) PROVE [Pool!Next]_Pool!vars
  BY <1>2, <1>8 DEF Accept
<1>9. ASSUME NEW w \in Workers, WorkerNext(w) PROVE [Pool!Next]_Pool!vars
  <2>1. CASE Call(w)
    <3>1. wconn[w] \in Conns /\ phase[wconn[w]] = "queued"
      BY <2>1 DEF Call, IInv, TypeOK, Ownership, WorkerInv
    <3> QED BY <1>4, <2>1, <3>1 DEF Call
  <2> QED BY <1>1, <1>9, <2>1 DEF WorkerNext, Receive, Return, Exit
<1>10. ASSUME NEW c \in Conns, OverflowNext(c) PROVE [Pool!Next]_Pool!vars
  BY <1>1, <1>4, <1>10 DEF OverflowNext, OverflowCall, OverflowReturn
<1>11. CASE Cancel \/ CloseListener \/ Terminated \/ UNCHANGED vars
  BY <1>1, <1>11 DEF Cancel, CloseListener, Terminated, vars
<1> QED BY <1>5, <1>7, <1>8, <1>9, <1>10, <1>11 DEF Next

\* Channel, workers and overflow goroutines implement a pool of workers for any
\* number of connections and workers and any capacity: a connection is handled
\* once, and ListenAndServe returns when all that were taken have been.
THEOREM ServerIsJobPool == Spec => HandledOnce
<1>1. Init => Pool!Init
  BY DEF Init, Pool!Init, Running, Served
<1>2. IInv /\ [Next]_vars => [Pool!Next]_Pool!vars
  BY PoolStep
<1> QED
  BY <1>1, <1>2, Invariance, PTL DEF Spec, HandledOnce, Pool!Spec

-----------------------------------------------------------------------------
(* The rate limiter: the inductive invariant *)

\* allow knows its address, and its bucket once it has one; cleanup, which holds
\* the map's lock, is about to delete an entry that is there.
AllowInv ==
    /\ pc # "idle" => ip \in Ips
    /\ pc = "bucket" => b \in Buckets
    /\ cpc = "delete" => victim \in Ips /\ buckets[victim] \in Buckets

\* Buckets and histories are finite, and the histories hold recent connections.
StampInv ==
    /\ \A k \in Buckets : IsFiniteSet(timestamps[k]) /\ Cardinality(timestamps[k]) <= Limit
    /\ \A i \in Ips : /\ IsFiniteSet(granted[i]) /\ strays[i] \subseteq granted[i]
                      /\ \A t \in granted[i] : t.age <= Window

\* What is no stray is counted by the bucket that the map holds.
CountedInv ==
    \A i \in Ips : \A t \in granted[i] \ strays[i] :
        buckets[i] # None /\ t \in timestamps[buckets[i]]

\* A bucket serves one address.
OwnerInv ==
    /\ \A i, j \in Ips : buckets[i] # None /\ buckets[i] = buckets[j] => i = j
    /\ pc = "bucket" => \A i \in Ips : buckets[i] = b => i = ip

\* A bucket's recent timestamps are no older than it was last seen, and a bucket
\* last seen before the cutoff has none.
SeenInv ==
    /\ \A k \in Buckets : \A t \in timestamps[k] : t.age <= Window => lastSeen[k] <= t.age
    /\ \A k \in old : \A t \in timestamps[k] : t.age > Window

\* An entry about to be deleted was not used since it was found stale, or once.
VictimInv ==
    cpc = "delete" =>
        \/ buckets[victim] \in old
        \/ /\ pc # "bucket"
           /\ \A t, u \in timestamps[buckets[victim]] : t.age <= Window /\ u.age <= Window => t = u

\* The connections forgotten since the ticker's last tick.
SinceTick(i) == {t \in strays[i] : t.age <= sinceTick}

\* What may still make allow forget a connection without another tick: a lookup
\* that a pass has overtaken or may overtake, a pass that waits for the map's
\* lock, a tick that waits in the channel.
Exposed ==
    \/ pc = "bucket" /\ (cpc \in {"clean", "delete"} \/ buckets[ip] # b)
    \/ cpc = "delete" /\ \E t \in timestamps[buckets[victim]] : t.age <= Window
Threats ==
    (IF Exposed THEN 1 ELSE 0) + (IF cpc = "lock" THEN 1 ELSE 0) + (IF ticked THEN 1 ELSE 0)

StrayInv ==
    \A i \in Ips :
        /\ Cardinality(SinceTick(i)) + Threats <= 3
        /\ Cardinality(strays[i]) + Threats <= 4

\* The connections of this tick are numbered without gaps, and what a bucket
\* counts was let through.
SerialInv ==
    /\ \A i \in Ips : \A t \in granted[i] : t.age = 0 => t.n < Serial(i)
    /\ \A i \in Ips : buckets[i] # None =>
          \A t \in timestamps[buckets[i]] : t.age <= Window => t \in granted[i]
    /\ pc = "bucket" => \A t \in timestamps[b] : t.age <= Window => t \in granted[ip]

LimiterInv ==
    /\ LimiterTypeOK /\ AllowInv /\ StampInv /\ CountedInv
    /\ OwnerInv /\ SeenInv /\ VictimInv /\ StrayInv /\ SerialInv

-----------------------------------------------------------------------------
(* Lemmas about buckets and stamps *)

\* The image of a finite set has no more members than the set.
LEMMA ImageCount ==
    ASSUME NEW S, NEW T, NEW f \in [S -> T], IsFiniteSet(S)
    PROVE  IsFiniteSet({f[x] : x \in S}) /\ Cardinality({f[x] : x \in S}) <= Cardinality(S)
<1>1. f \in Surjection(S, {f[x] : x \in S})
  BY DEF Surjection
<1> QED BY <1>1, FS_Surjection

\* A map of as many entries as there are addresses leaves a bucket unused, so
\* Create finds one.
LEMMA FreeBucket ==
    ASSUME buckets \in [Ips -> Buckets \cup {None}]
    PROVE  \E k \in Buckets : \A i \in Ips : buckets[i] # k
<1> DEFINE used == {buckets[i] : i \in Ips}
<1>1. IsFiniteSet(used) /\ Cardinality(used) <= Cardinality(Ips)
  BY ImageCount, IpsAssumption
<1>2. Cardinality(Ips) \in Nat /\ Cardinality(used) \in Nat
  BY FS_CardinalityType, IpsAssumption, <1>1
<1>3. IsFiniteSet(Buckets) /\ Cardinality(Buckets) = Cardinality(Ips) + 1
  <2> DEFINE m == Cardinality(Ips) + 1
  <2>1. 1 \in Int /\ m \in Int /\ ~ (1 > m) /\ m - 1 + 1 = m
    BY <1>2
  <2> HIDE DEF m
  <2>2. IsFiniteSet(1..m) /\ Cardinality(1..m) = m
    BY <2>1, FS_Interval
  <2> QED BY <2>2 DEF Buckets, m
<1>4. ~ (Buckets \subseteq used)
  <2> SUFFICES ASSUME Buckets \subseteq used PROVE FALSE
    OBVIOUS
  <2>1. Cardinality(Buckets) <= Cardinality(used)
    BY <1>1, FS_Subset
  <2> QED BY <2>1, <1>1, <1>2, <1>3
<1> QED BY <1>4

\* Time makes no more stamps than there were.
LEMMA OlderCount ==
    ASSUME NEW S, IsFiniteSet(S)
    PROVE  IsFiniteSet(Older(S)) /\ Cardinality(Older(S)) <= Cardinality(S)
<1> DEFINE f == [t \in S |-> [age |-> Min2(t.age + 1, Window + 1), n |-> t.n]]
           T == {f[t] : t \in S}
<1>1. f \in [S -> T]
  OBVIOUS
<1>2. Older(S) = T
  BY DEF Older
<1> HIDE DEF f
<1>3. IsFiniteSet({f[t] : t \in S}) /\ Cardinality({f[t] : t \in S}) <= Cardinality(S)
  BY <1>1, ImageCount
<1> QED BY <1>2, <1>3

\* Every member of an aged set is a member of the set, one tick older.
LEMMA OlderMember ==
    ASSUME NEW S \in SUBSET Stamps
    PROVE  /\ Older(S) \in SUBSET Stamps
           /\ \A t \in Older(S) : \E u \in S :
                 /\ t = [age |-> Min2(u.age + 1, Window + 1), n |-> u.n]
                 /\ t.age >= 1
                 /\ t.age <= Window => t.age = u.age + 1
BY TimesAssumption DEF Older, Stamps, Min2

\* A member of a set is there one tick older.
LEMMA OlderKeeps ==
    ASSUME NEW S, NEW u \in S
    PROVE  [age |-> Min2(u.age + 1, Window + 1), n |-> u.n] \in Older(S)
BY DEF Older

\* The number of a new connection, and that it is a stamp.
LEMMA NewStamp ==
    ASSUME NEW i \in Ips, IsFiniteSet(granted[i])
    PROVE  Serial(i) \in Nat /\ [age |-> 0, n |-> Serial(i)] \in Stamps
<1>1. IsFiniteSet({t \in granted[i] : t.age = 0})
  BY FS_Subset
<1>2. Serial(i) \in Nat
  BY <1>1, FS_CardinalityType DEF Serial
<1> QED BY <1>2, TimesAssumption DEF Stamps

\* The second lookup either finds no entry and takes an unused bucket, or keeps
\* the bucket it finds.
LEMMA CreateShape ==
    ASSUME buckets \in [Ips -> Buckets \cup {None}], Create
    PROVE  \/ \E k \in Buckets :
                /\ \A i \in Ips : buckets[i] # k
                /\ buckets[ip] = None /\ b' = k
                /\ buckets' = [buckets EXCEPT ![ip] = k]
                /\ timestamps' = [timestamps EXCEPT ![k] = {}]
                /\ lastSeen' = [lastSeen EXCEPT ![k] = Stale + 1]
                /\ old' \subseteq old \cup {k}
           \/ buckets[ip] # None /\ b' = buckets[ip] /\ UNCHANGED <<buckets, timestamps, lastSeen, old>>
<1>1. CASE buckets[ip] # None
  BY <1>1 DEF Create, tableVars
<1>2. CASE buckets[ip] = None
  <2> DEFINE k == CHOOSE m \in Buckets : \A i \in Ips : buckets[i] # m
  <2>1. k \in Buckets /\ \A i \in Ips : buckets[i] # k
    BY FreeBucket
  <2>2. /\ b' = k
        /\ buckets' = [buckets EXCEPT ![ip] = k]
        /\ timestamps' = [timestamps EXCEPT ![k] = {}]
        /\ lastSeen' = [lastSeen EXCEPT ![k] = Stale + 1]
        /\ old' \subseteq old \cup {k}
    BY <1>2 DEF Create
  <2> HIDE DEF k
  <2> QED BY <1>2, <2>1, <2>2
<1> QED BY <1>1, <1>2

-----------------------------------------------------------------------------
(* The rate limiter: the invariant is inductive *)

LEMMA LimiterTypeStep ==
    ASSUME LimiterTypeOK, AllowInv, StampInv, [LimiterNext]_limiterVars
    PROVE  LimiterTypeOK'
<1> USE DEF limiterVars, tableVars, allowVars, cleanVars, tickVars, histVars
<1>1. ASSUME NEW i \in Ips, Lookup(i) PROVE LimiterTypeOK'
  BY <1>1 DEF Lookup, LimiterTypeOK
<1>2. CASE Create
  <2>1. Stale + 1 \in 0..(Stale + 1)
    BY TimesAssumption
  <2>2. ip \in Ips
    BY <1>2 DEF Create, AllowInv
  <2>3. /\ buckets' \in [Ips -> Buckets \cup {None}] /\ timestamps' \in [Buckets -> SUBSET Stamps]
        /\ lastSeen' \in [Buckets -> 0..(Stale + 1)]
        /\ b' \in Buckets \cup {None} /\ old' \subseteq Buckets
    BY <1>2, <2>1, <2>2, CreateShape DEF LimiterTypeOK
  <2> QED BY <1>2, <2>3 DEF Create, LimiterTypeOK
<1>3. CASE Take
  <2>1. 0 \in 0..(Stale + 1)
    BY TimesAssumption
  <2>2. ip \in Ips /\ b \in Buckets
    BY <1>3 DEF Take, AllowInv
  <2>3. [age |-> 0, n |-> Serial(ip)] \in Stamps
    BY <2>2, NewStamp DEF StampInv
  <2> HIDE DEF Stamps
  <2> QED BY <1>3, <2>1, <2>2, <2>3 DEF Take, InWindow, LimiterTypeOK
<1>4. CASE CleanNext
  BY <1>4 DEF CleanNext, CleanStart, CleanLock, CleanCheck, CleanDelete, CleanEnd, CleanExit,
              AllowInv, LimiterTypeOK
<1>5. CASE LimiterTick
  <2>1. \A k \in Buckets : Older(timestamps[k]) \in SUBSET Stamps
    BY OlderMember DEF LimiterTypeOK
  <2>2. \A i \in Ips : /\ Recent(Older(granted[i])) \in SUBSET Stamps
                       /\ Recent(Older(strays[i])) \in SUBSET Stamps
    BY OlderMember DEF LimiterTypeOK, Recent
  <2>3. \A k \in Buckets : Min2(lastSeen[k] + 1, Stale + 1) \in 0..(Stale + 1)
    BY TimesAssumption DEF LimiterTypeOK, Min2
  <2>4. sinceTick' \in 0..(Stale - 1)
    BY <1>5, TimesAssumption DEF LimiterTick, LimiterTypeOK
  <2> QED BY <1>5, <2>1, <2>2, <2>3, <2>4 DEF LimiterTick, LimiterTypeOK
<1>6. CASE LimiterCancel
  BY <1>6 DEF LimiterCancel, LimiterTypeOK
<1>7. CASE UNCHANGED limiterVars
  BY <1>7 DEF LimiterTypeOK
<1> QED BY <1>1, <1>2, <1>3, <1>4, <1>5, <1>6, <1>7 DEF LimiterNext, AllowNext

\* allow and cleanup keep hold of what they work on.
LEMMA AllowStep ==
    ASSUME LimiterTypeOK, AllowInv, [LimiterNext]_limiterVars
    PROVE  AllowInv'
<1> USE DEF limiterVars, tableVars, allowVars, cleanVars, tickVars, histVars
<1>1. ASSUME NEW i \in Ips, Lookup(i) PROVE AllowInv'
  BY <1>1 DEF Lookup, MapFree, LimiterTypeOK, AllowInv
<1>2. CASE Create
  <2>1. b' \in Buckets
    BY <1>2, CreateShape DEF Create, LimiterTypeOK, AllowInv
  <2> QED BY <1>2, <2>1 DEF Create, MapFree, AllowInv
<1>3. CASE Take
  BY <1>3 DEF Take, AllowInv
<1>4. CASE CleanNext
  BY <1>4 DEF CleanNext, CleanStart, CleanLock, CleanCheck, CleanDelete, CleanEnd, CleanExit,
              AllowInv, LimiterTypeOK
<1>5. CASE LimiterTick
  BY <1>5 DEF LimiterTick, AllowInv
<1>6. CASE LimiterCancel
  BY <1>6 DEF LimiterCancel, AllowInv
<1>7. CASE UNCHANGED limiterVars
  BY <1>7 DEF AllowInv
<1> QED BY <1>1, <1>2, <1>3, <1>4, <1>5, <1>6, <1>7 DEF LimiterNext, AllowNext

\* A bucket never holds more than Limit timestamps, and the histories stay what
\* they are said to be.
LEMMA StampStep ==
    ASSUME LimiterTypeOK, AllowInv, StampInv, [LimiterNext]_limiterVars
    PROVE  StampInv'
<1> USE DEF limiterVars, tableVars, allowVars, cleanVars, tickVars, histVars
<1>1. ASSUME NEW i \in Ips, Lookup(i) PROVE StampInv'
  BY <1>1 DEF Lookup, StampInv
<1>2. CASE Create
  <2>1. IsFiniteSet({}) /\ Cardinality({}) <= Limit
    BY FS_EmptySet, LimitAssumption
  <2>2. \A k \in Buckets : timestamps'[k] = {} \/ timestamps'[k] = timestamps[k]
    BY <1>2, CreateShape DEF LimiterTypeOK
  <2>3. UNCHANGED <<granted, strays>>
    BY <1>2 DEF Create
  <2> QED BY <2>1, <2>2, <2>3 DEF StampInv
<1>3. CASE Take
  <2> DEFINE kept == InWindow(timestamps[b])
             new == [age |-> 0, n |-> Serial(ip)]
  <2>1. ip \in Ips /\ b \in Buckets
    BY <1>3 DEF Take, AllowInv
  <2>2. IsFiniteSet(kept) /\ Cardinality(kept) <= Cardinality(timestamps[b])
    BY <2>1, FS_Subset DEF StampInv, InWindow
  <2>3. Cardinality(kept) \in Nat /\ Cardinality(timestamps[b]) \in Nat
    BY <2>1, <2>2, FS_CardinalityType DEF StampInv
  <2>4. /\ IsFiniteSet(kept \cup {new})
        /\ Fits(kept) => Cardinality(kept \cup {new}) <= Limit
    <3> HIDE DEF kept, new
    <3>1. /\ IsFiniteSet(kept \cup {new})
          /\ Cardinality(kept \cup {new}) = IF new \in kept THEN Cardinality(kept)
                                                            ELSE Cardinality(kept) + 1
      BY <2>2, FS_AddElement
    <3> QED BY <3>1, <2>3, LimitAssumption DEF Fits
  <2>5. Cardinality(kept) <= Limit
    BY <2>1, <2>2, <2>3, LimitAssumption DEF StampInv
  <2>6. /\ Fits(kept) => timestamps' = [timestamps EXCEPT ![b] = kept \cup {new}]
        /\ ~Fits(kept) => timestamps' = [timestamps EXCEPT ![b] = kept]
    BY <1>3 DEF Take, LimiterTypeOK
  <2>7. \A k \in Buckets : IsFiniteSet(timestamps'[k]) /\ Cardinality(timestamps'[k]) <= Limit
    <3> HIDE DEF kept, new
    <3> QED BY <2>1, <2>2, <2>4, <2>5, <2>6 DEF StampInv, LimiterTypeOK
  <2>8. \A i \in Ips : /\ granted'[i] = granted[i] \/ granted'[i] = granted[i] \cup {new}
                       /\ strays'[i] \subseteq granted'[i]
    BY <1>3, <2>1 DEF Take, StampInv, LimiterTypeOK
  <2>9. new.age <= Window
    BY TimesAssumption
  <2>10. \A i \in Ips : IsFiniteSet(granted[i] \cup {new})
    BY FS_AddElement DEF StampInv
  <2> HIDE DEF new, kept
  <2> QED BY <2>7, <2>8, <2>9, <2>10 DEF StampInv
<1>4. CASE CleanNext
  <2>1. CASE CleanDelete
    BY <2>1 DEF CleanDelete, AllowInv, StampInv, LimiterTypeOK
  <2> QED BY <1>4, <2>1 DEF CleanNext, CleanStart, CleanLock, CleanCheck, CleanEnd, CleanExit, StampInv
<1>5. CASE LimiterTick
  <2>1. ASSUME NEW k \in Buckets
        PROVE  IsFiniteSet(timestamps'[k]) /\ Cardinality(timestamps'[k]) <= Limit
    <3>1. timestamps'[k] = Older(timestamps[k]) /\ IsFiniteSet(timestamps[k])
      BY <1>5 DEF LimiterTick, StampInv
    <3>2. IsFiniteSet(Older(timestamps[k]))
      BY <3>1, OlderCount
    <3>3. Cardinality(Older(timestamps[k])) <= Cardinality(timestamps[k])
      BY <3>1, OlderCount
    <3>4. Cardinality(timestamps[k]) \in Nat /\ Cardinality(Older(timestamps[k])) \in Nat
      BY <3>1, <3>2, FS_CardinalityType
    <3> QED BY <3>1, <3>2, <3>3, <3>4, LimitAssumption DEF StampInv
  <2>2. ASSUME NEW i \in Ips
        PROVE  /\ IsFiniteSet(granted'[i]) /\ strays'[i] \subseteq granted'[i]
               /\ \A t \in granted'[i] : t.age <= Window
    <3>1. granted'[i] = Recent(Older(granted[i])) /\ strays'[i] = Recent(Older(strays[i]))
      BY <1>5 DEF LimiterTick
    <3>2. IsFiniteSet(Older(granted[i]))
      BY OlderCount DEF StampInv
    <3>3. IsFiniteSet(Recent(Older(granted[i])))
      BY <3>2, FS_Subset DEF Recent
    <3>4. strays[i] \subseteq granted[i]
      BY DEF StampInv
    <3> QED BY <3>1, <3>3, <3>4 DEF Recent, Older
  <2> QED BY <2>1, <2>2 DEF StampInv
<1>6. CASE LimiterCancel
  BY <1>6 DEF LimiterCancel, StampInv
<1>7. CASE UNCHANGED limiterVars
  BY <1>7 DEF StampInv
<1> QED BY <1>1, <1>2, <1>3, <1>4, <1>5, <1>6, <1>7 DEF LimiterNext, AllowNext

\* A connection that is no stray stays in the bucket that the map holds: only
\* cleanup takes a bucket out of the map, and it makes strays of what was in it.
LEMMA CountedStep ==
    ASSUME LimiterTypeOK, AllowInv, StampInv, CountedInv, [LimiterNext]_limiterVars
    PROVE  CountedInv'
<1> USE DEF limiterVars, tableVars, allowVars, cleanVars, tickVars, histVars
<1>1. ASSUME NEW i \in Ips, Lookup(i) PROVE CountedInv'
  BY <1>1 DEF Lookup, CountedInv
<1>2. CASE Create
  <2>1. ip \in Ips
    BY <1>2 DEF Create, AllowInv
  <2>2. UNCHANGED <<granted, strays>>
    BY <1>2 DEF Create
  <2> SUFFICES ASSUME NEW i \in Ips, NEW t \in granted[i], t \notin strays[i]
               PROVE  buckets'[i] # None /\ t \in timestamps'[buckets'[i]]
    BY <2>2 DEF CountedInv
  <2>3. buckets[i] # None /\ t \in timestamps[buckets[i]]
    BY DEF CountedInv
  <2> QED BY <1>2, <2>1, <2>3, CreateShape DEF LimiterTypeOK
<1>3. CASE Take
  <2>1. ip \in Ips /\ b \in Buckets
    BY <1>3 DEF Take, AllowInv
  <2> DEFINE new == [age |-> 0, n |-> Serial(ip)]
             taken == IF Fits(InWindow(timestamps[b])) THEN {new} ELSE {}
  <2>2. /\ \A k \in Buckets : timestamps'[k] = IF k = b THEN InWindow(timestamps[b]) \cup taken
                                                        ELSE timestamps[k]
        /\ \A i \in Ips : granted'[i] = IF i = ip THEN granted[i] \cup taken ELSE granted[i]
        /\ \A i \in Ips : strays'[i] = IF i = ip /\ buckets[ip] # b THEN strays[i] \cup taken
                                                                    ELSE strays[i]
        /\ buckets' = buckets
    BY <1>3, <2>1 DEF Take, LimiterTypeOK
  <2>3. \A i \in Ips : \A t \in granted[i] : t.age <= Window
    BY DEF StampInv
  <2> HIDE DEF taken
  <2> SUFFICES ASSUME NEW i \in Ips, NEW t \in granted'[i], t \notin strays'[i]
               PROVE  buckets[i] # None /\ t \in timestamps'[buckets[i]]
    BY <2>2 DEF CountedInv
  <2>4. CASE t \in granted[i]
    <3>1. t \notin strays[i]
      BY <2>2
    <3>2. buckets[i] # None /\ t \in timestamps[buckets[i]]
      BY <2>4, <3>1 DEF CountedInv
    <3>3. buckets[i] \in Buckets
      BY <3>2 DEF LimiterTypeOK
    <3> QED BY <2>2, <2>3, <2>4, <3>2, <3>3 DEF InWindow
  <2>5. CASE t \notin granted[i]
    <3>1. i = ip /\ t \in taken /\ buckets[ip] = b
      BY <2>2, <2>5
    <3> QED BY <2>1, <2>2, <3>1 DEF Buckets, None
  <2> QED BY <2>4, <2>5
<1>4. CASE CleanNext
  <2>1. CASE CleanDelete
    BY <2>1 DEF CleanDelete, AllowInv, CountedInv, LimiterTypeOK
  <2> QED BY <1>4, <2>1 DEF CleanNext, CleanStart, CleanLock, CleanCheck, CleanEnd, CleanExit, CountedInv
<1>5. CASE LimiterTick
  <2> SUFFICES ASSUME NEW i \in Ips, NEW t \in granted'[i], t \notin strays'[i]
               PROVE  buckets'[i] # None /\ t \in timestamps'[buckets'[i]]
    BY DEF CountedInv
  <2>1. t \in Older(granted[i]) /\ t.age <= Window
    BY <1>5 DEF LimiterTick, Recent
  <2>2. PICK u \in granted[i] : t = [age |-> Min2(u.age + 1, Window + 1), n |-> u.n]
    BY <2>1 DEF Older
  <2>3. u \notin strays[i]
    BY <1>5, <2>1, <2>2, OlderKeeps DEF LimiterTick, Recent
  <2>4. buckets[i] # None /\ u \in timestamps[buckets[i]]
    BY <2>3 DEF CountedInv
  <2> QED BY <1>5, <2>2, <2>4, OlderKeeps DEF LimiterTick, LimiterTypeOK
<1>6. CASE LimiterCancel
  BY <1>6 DEF LimiterCancel, CountedInv
<1>7. CASE UNCHANGED limiterVars
  BY <1>7 DEF CountedInv
<1> QED BY <1>1, <1>2, <1>3, <1>4, <1>5, <1>6, <1>7 DEF LimiterNext, AllowNext

\* Each bucket keeps its address.
LEMMA OwnerStep ==
    ASSUME LimiterTypeOK, AllowInv, OwnerInv, [LimiterNext]_limiterVars
    PROVE  OwnerInv'
<1> USE DEF limiterVars, tableVars, allowVars, cleanVars, tickVars, histVars
<1>1. ASSUME NEW i \in Ips, Lookup(i) PROVE OwnerInv'
  BY <1>1 DEF Lookup, OwnerInv
<1>2. CASE Create
  <2>1. ip \in Ips /\ ip' = ip
    BY <1>2 DEF Create, AllowInv
  <2>2. None \notin Buckets
    BY DEF None, Buckets
  <2>3. \A i \in Ips : buckets'[i] = b' => i = ip
    BY <1>2, <2>1, <2>2, CreateShape DEF LimiterTypeOK, OwnerInv
  <2>4. \A i, j \in Ips : buckets'[i] # None /\ buckets'[i] = buckets'[j] => i = j
    BY <1>2, <2>1, <2>2, CreateShape DEF LimiterTypeOK, OwnerInv
  <2> QED BY <2>1, <2>3, <2>4 DEF OwnerInv
<1>3. CASE Take
  BY <1>3 DEF Take, OwnerInv
<1>4. CASE CleanNext
  <2>1. CASE CleanDelete
    BY <2>1 DEF CleanDelete, AllowInv, OwnerInv, LimiterTypeOK, None, Buckets
  <2> QED BY <1>4, <2>1 DEF CleanNext, CleanStart, CleanLock, CleanCheck, CleanEnd, CleanExit, OwnerInv
<1>5. CASE LimiterTick
  BY <1>5 DEF LimiterTick, OwnerInv
<1>6. CASE LimiterCancel
  BY <1>6 DEF LimiterCancel, OwnerInv
<1>7. CASE UNCHANGED limiterVars
  BY <1>7 DEF OwnerInv
<1> QED BY <1>1, <1>2, <1>3, <1>4, <1>5, <1>6, <1>7 DEF LimiterNext, AllowNext

\* A bucket last seen before the cutoff has no recent timestamp until allow uses
\* it, which makes it one that cleanup does not find stale any more.
LEMMA SeenStep ==
    ASSUME LimiterTypeOK, AllowInv, SeenInv, [LimiterNext]_limiterVars
    PROVE  SeenInv'
<1> USE DEF limiterVars, tableVars, allowVars, cleanVars, tickVars, histVars
<1>1. ASSUME NEW i \in Ips, Lookup(i) PROVE SeenInv'
  BY <1>1 DEF Lookup, SeenInv
<1>2. CASE Create
  <2>1. \A k \in Buckets : timestamps'[k] = {} \/ (timestamps'[k] = timestamps[k] /\ lastSeen'[k] = lastSeen[k])
    BY <1>2, CreateShape DEF LimiterTypeOK
  <2>2. \A k \in old' : timestamps'[k] = {} \/ (k \in old /\ timestamps'[k] = timestamps[k])
    BY <1>2, CreateShape DEF LimiterTypeOK
  <2> QED BY <2>1, <2>2 DEF SeenInv
<1>3. CASE Take
  <2>1. b \in Buckets
    BY <1>3 DEF Take, AllowInv
  <2>2. lastSeen'[b] = 0 /\ old' = old \ {b}
    BY <1>3, <2>1 DEF Take, LimiterTypeOK
  <2>3. \A k \in Buckets : k # b => timestamps'[k] = timestamps[k] /\ lastSeen'[k] = lastSeen[k]
    BY <1>3 DEF Take, LimiterTypeOK
  <2>4. \A t \in timestamps'[b] : t.age \in Nat
    <3>1. \A t \in timestamps[b] : t.age \in Nat
      BY <2>1, TimesAssumption DEF LimiterTypeOK, Stamps
    <3> QED BY <1>3, <2>1, <3>1 DEF Take, LimiterTypeOK, InWindow
  <2>5. \A t \in timestamps'[b] : lastSeen'[b] <= t.age
    BY <2>2, <2>4
  <2> QED BY <2>2, <2>3, <2>5 DEF SeenInv, LimiterTypeOK
<1>4. CASE CleanNext
  <2>1. CASE CleanStart
    <3> SUFFICES ASSUME NEW k \in Buckets, BeforeCutoff(k), NEW t \in timestamps[k]
                 PROVE  t.age > Window
      BY <2>1 DEF CleanStart, SeenInv
    <3>1. lastSeen[k] > Stale /\ lastSeen[k] \in Int /\ t.age \in Int
      BY DEF BeforeCutoff, LimiterTypeOK, Stamps
    <3>2. t.age <= Window => lastSeen[k] <= t.age
      BY DEF SeenInv
    <3> QED BY <3>1, <3>2, TimesAssumption
  <2> QED BY <1>4, <2>1 DEF CleanNext, CleanLock, CleanCheck, CleanDelete, CleanEnd, CleanExit, SeenInv
<1>5. CASE LimiterTick
  <2>1. ASSUME NEW k \in Buckets, NEW t \in timestamps'[k]
        PROVE  \E u \in timestamps[k] :
                  /\ t.age = Min2(u.age + 1, Window + 1)
                  /\ u.age \in Nat
    <3>1. t \in Older(timestamps[k])
      BY <1>5 DEF LimiterTick
    <3>2. PICK u \in timestamps[k] : t = [age |-> Min2(u.age + 1, Window + 1), n |-> u.n]
      BY <3>1 DEF Older
    <3>3. u.age \in Nat
      BY TimesAssumption DEF LimiterTypeOK, Stamps
    <3> QED BY <3>2, <3>3
  <2>2. \A k \in Buckets : lastSeen'[k] = Min2(lastSeen[k] + 1, Stale + 1) /\ lastSeen[k] \in Nat
    BY <1>5, TimesAssumption DEF LimiterTick, LimiterTypeOK
  <2>3. ASSUME NEW k \in Buckets, NEW t \in timestamps'[k], t.age <= Window
        PROVE  lastSeen'[k] <= t.age
    BY <2>1, <2>2, <2>3, TimesAssumption DEF SeenInv, Min2
  <2>4. ASSUME NEW k \in old, NEW t \in timestamps'[k]
        PROVE  t.age > Window
    BY <2>1, <2>4, TimesAssumption DEF SeenInv, Min2, LimiterTypeOK
  <2> QED BY <1>5, <2>3, <2>4 DEF LimiterTick, SeenInv
<1>6. CASE LimiterCancel
  BY <1>6 DEF LimiterCancel, SeenInv
<1>7. CASE UNCHANGED limiterVars
  BY <1>7 DEF SeenInv
<1> QED BY <1>1, <1>2, <1>3, <1>4, <1>5, <1>6, <1>7 DEF LimiterNext, AllowNext

\* While cleanup holds the map's lock allow uses at most the bucket it has
\* looked up before, and that once.
LEMMA VictimStep ==
    ASSUME LimiterTypeOK, AllowInv, SeenInv, VictimInv, [LimiterNext]_limiterVars
    PROVE  VictimInv'
<1> USE DEF limiterVars, tableVars, allowVars, cleanVars, tickVars, histVars
<1>1. ASSUME NEW i \in Ips, Lookup(i) PROVE VictimInv'
  BY <1>1 DEF Lookup, MapFree, VictimInv
<1>2. CASE Create
  BY <1>2 DEF Create, MapFree, VictimInv
<1>3. CASE Take
  <2> SUFFICES ASSUME cpc = "delete"
               PROVE  \/ buckets[victim] \in old'
                      \/ \A t, u \in timestamps'[buckets[victim]] :
                            t.age <= Window /\ u.age <= Window => t = u
    BY <1>3 DEF Take, VictimInv
  <2>1. buckets[victim] \in old /\ b \in Buckets
    BY <1>3 DEF Take, VictimInv, AllowInv
  <2>2. CASE buckets[victim] = b
    <3>1. InWindow(timestamps[b]) = {}
      <4>1. \A t \in timestamps[b] : t.age > Window /\ t.age \in Int
        BY <2>1, <2>2 DEF SeenInv, LimiterTypeOK, Stamps
      <4> QED BY <4>1, TimesAssumption DEF InWindow
    <3>2. \E x : timestamps'[b] \subseteq {x}
      BY <1>3, <2>1, <3>1 DEF Take, LimiterTypeOK
    <3> QED BY <2>2, <3>2
  <2>3. CASE buckets[victim] # b
    BY <1>3, <2>1, <2>3 DEF Take
  <2> QED BY <2>2, <2>3
<1>4. CASE CleanNext
  BY <1>4 DEF CleanNext, CleanStart, CleanLock, CleanCheck, CleanDelete, CleanEnd, CleanExit, VictimInv
<1>5. CASE LimiterTick
  <2> SUFFICES ASSUME cpc = "delete", buckets[victim] \notin old,
                      NEW t \in timestamps'[buckets[victim]], NEW u \in timestamps'[buckets[victim]],
                      t.age <= Window, u.age <= Window
               PROVE  pc # "bucket" /\ t = u
    BY <1>5 DEF LimiterTick, VictimInv
  <2>1. buckets[victim] \in Buckets
    BY DEF AllowInv
  <2>2. /\ timestamps[buckets[victim]] \in SUBSET Stamps
        /\ timestamps'[buckets[victim]] = Older(timestamps[buckets[victim]])
    BY <1>5, <2>1 DEF LimiterTick, LimiterTypeOK
  <2>3. PICK x \in timestamps[buckets[victim]] :
            t = [age |-> Min2(x.age + 1, Window + 1), n |-> x.n] /\ t.age = x.age + 1
    BY <2>2, OlderMember
  <2>4. PICK y \in timestamps[buckets[victim]] :
            u = [age |-> Min2(y.age + 1, Window + 1), n |-> y.n] /\ u.age = y.age + 1
    BY <2>2, OlderMember
  <2>5. x.age <= Window /\ y.age <= Window
    BY <2>2, <2>3, <2>4, TimesAssumption DEF Stamps
  <2> QED BY <2>3, <2>4, <2>5 DEF VictimInv
<1>6. CASE LimiterCancel
  BY <1>6 DEF LimiterCancel, VictimInv
<1>7. CASE UNCHANGED limiterVars
  BY <1>7 DEF VictimInv
<1> QED BY <1>1, <1>2, <1>3, <1>4, <1>5, <1>6, <1>7 DEF LimiterNext, AllowNext

\* The counts of the strays are numbers, and so are the threats.
LEMMA StrayCounts ==
    ASSUME StampInv, NEW i \in Ips
    PROVE  /\ IsFiniteSet(strays[i]) /\ Cardinality(strays[i]) \in Nat
           /\ IsFiniteSet(SinceTick(i)) /\ Cardinality(SinceTick(i)) \in Nat
<1>1. IsFiniteSet(strays[i])
  BY FS_Subset DEF StampInv
<1>2. IsFiniteSet(SinceTick(i))
  BY <1>1, FS_Subset DEF SinceTick
<1> QED BY <1>1, <1>2, FS_CardinalityType

LEMMA ThreatsAre == Threats \in 0..3
BY DEF Threats

\* A step that makes no stray and no threat.
LEMMA StrayKept ==
    ASSUME StampInv, StrayInv, UNCHANGED <<strays, sinceTick>>, Threats' <= Threats
    PROVE  StrayInv'
<1> SUFFICES ASSUME NEW i \in Ips
             PROVE  /\ Cardinality(SinceTick(i)') + Threats' <= 3
                    /\ Cardinality(strays'[i]) + Threats' <= 4
  BY DEF StrayInv
<1>1. SinceTick(i)' = SinceTick(i) /\ strays'[i] = strays[i]
  BY DEF SinceTick
<1>2. Threats \in 0..3 /\ Threats' \in 0..3
  BY ThreatsAre DEF Threats
<1>3. Cardinality(SinceTick(i)) + Threats <= 3 /\ Cardinality(strays[i]) + Threats <= 4
  BY DEF StrayInv
<1>4. Cardinality(SinceTick(i)) \in Nat /\ Cardinality(strays[i]) \in Nat
  BY StrayCounts
<1> HIDE DEF Threats
<1> QED BY <1>1, <1>2, <1>3, <1>4

\* A step that makes one stray and takes a threat away.
LEMMA StrayTraded ==
    ASSUME StampInv, StrayInv, NEW j \in Ips, NEW x,
           strays \in [Ips -> SUBSET Stamps], strays' = [strays EXCEPT ![j] = @ \cup {x}],
           sinceTick' = sinceTick, Threats' + 1 <= Threats
    PROVE  StrayInv'
<1> SUFFICES ASSUME NEW i \in Ips
             PROVE  /\ Cardinality(SinceTick(i)') + Threats' <= 3
                    /\ Cardinality(strays'[i]) + Threats' <= 4
  BY DEF StrayInv
<1>1. strays'[i] \subseteq strays[i] \cup {x} /\ SinceTick(i)' \subseteq SinceTick(i) \cup {x}
  BY DEF SinceTick
<1>2. Threats \in 0..3 /\ Threats' \in 0..3
  BY ThreatsAre DEF Threats
<1>3. Cardinality(SinceTick(i)) + Threats <= 3 /\ Cardinality(strays[i]) + Threats <= 4
  BY DEF StrayInv
<1>4. /\ IsFiniteSet(strays[i]) /\ Cardinality(strays[i]) \in Nat
      /\ IsFiniteSet(SinceTick(i)) /\ Cardinality(SinceTick(i)) \in Nat
  BY StrayCounts
<1>5. ASSUME NEW S, NEW T, IsFiniteSet(S), T \subseteq S \cup {x}
      PROVE  Cardinality(T) \in Nat /\ Cardinality(T) <= Cardinality(S) + 1
  <2>1. IsFiniteSet(S \cup {x}) /\ Cardinality(S \cup {x}) <= Cardinality(S) + 1
    <3>1. Cardinality(S) \in Nat
      BY <1>5, FS_CardinalityType
    <3>2. /\ IsFiniteSet(S \cup {x})
          /\ \/ Cardinality(S \cup {x}) = Cardinality(S)
             \/ Cardinality(S \cup {x}) = Cardinality(S) + 1
      <4>1. CASE x \in S
        <5>1. S \cup {x} = S
          BY <4>1
        <5> QED BY <1>5, <5>1
      <4>2. CASE x \notin S
        BY <1>5, <4>2, FS_AddElement, Zenon
      <4> QED BY <4>1, <4>2
    <3> QED BY <3>1, <3>2
  <2>2. IsFiniteSet(T) /\ Cardinality(T) <= Cardinality(S \cup {x})
    BY <1>5, <2>1, FS_Subset
  <2>3. Cardinality(T) \in Nat /\ Cardinality(S) \in Nat /\ Cardinality(S \cup {x}) \in Nat
    BY <1>5, <2>1, <2>2, FS_CardinalityType
  <2> QED BY <2>1, <2>2, <2>3
<1>6. /\ Cardinality(strays'[i]) \in Nat /\ Cardinality(strays'[i]) <= Cardinality(strays[i]) + 1
      /\ Cardinality(SinceTick(i)') \in Nat
      /\ Cardinality(SinceTick(i)') <= Cardinality(SinceTick(i)) + 1
  BY <1>1, <1>4, <1>5
<1>7. \A m, n, p, q \in Nat : \A h \in {3, 4} :
          m <= n + 1 /\ p + 1 <= q /\ n + q <= h => m + p <= h
  OBVIOUS
<1>8. Threats \in Nat /\ Threats' \in Nat
  BY <1>2
<1> QED BY <1>3, <1>4, <1>6, <1>7, <1>8

\* Every stray is paid for by a threat, and the ticker brings a new threat only
\* when the strays made before its last tick have left the window.
LEMMA StrayStep ==
    ASSUME LimiterTypeOK, AllowInv, StampInv, OwnerInv, SeenInv, VictimInv, StrayInv,
           [LimiterNext]_limiterVars
    PROVE  StrayInv'
<1> USE DEF limiterVars, tableVars, allowVars, cleanVars, tickVars, histVars
<1>1. ASSUME NEW i \in Ips, Lookup(i) PROVE StrayInv'
  <2>1. ~Exposed'
    BY <1>1 DEF Lookup, MapFree, Exposed
  <2>2. Threats' <= Threats
    BY <1>1, <2>1 DEF Lookup, Threats
  <2> QED BY <1>1, <2>2, StrayKept DEF Lookup
<1>2. CASE Create
  <2>1. buckets'[ip] = b'
    BY <1>2, CreateShape DEF Create, AllowInv, LimiterTypeOK
  <2>2. ~Exposed'
    BY <1>2, <2>1 DEF Create, MapFree, Exposed
  <2>3. Threats' <= Threats
    BY <1>2, <2>2 DEF Create, Threats
  <2> QED BY <1>2, <2>3, StrayKept DEF Create
<1>3. CASE Take
  <2>1. ip \in Ips /\ b \in Buckets
    BY <1>3 DEF Take, AllowInv
  <2>2. ticked' = ticked /\ cpc' = cpc /\ sinceTick' = sinceTick /\ pc' # "bucket"
    BY <1>3 DEF Take
  <2>3. CASE strays' = strays
    <3>1. Exposed' => Exposed
      BY <1>3 DEF Take, Exposed
    <3>2. Threats' <= Threats
      BY <2>2, <3>1 DEF Threats
    <3> QED BY <2>2, <2>3, <3>2, StrayKept
  <2>4. CASE strays' # strays
    <3> DEFINE new == [age |-> 0, n |-> Serial(ip)]
    <3>1. buckets[ip] # b /\ strays' = [strays EXCEPT ![ip] = @ \cup {new}]
      BY <1>3, <2>4 DEF Take, LimiterTypeOK
    <3>2. Exposed
      BY <1>3, <3>1 DEF Take, Exposed
    <3>3. ASSUME cpc = "delete"
          PROVE  \A t \in timestamps'[buckets[victim]] : ~(t.age <= Window)
      <4>1. buckets[victim] \in old /\ victim \in Ips /\ buckets[victim] # b
        BY <1>3, <3>1, <3>3 DEF Take, VictimInv, AllowInv, OwnerInv
      <4>2. timestamps'[buckets[victim]] = timestamps[buckets[victim]]
        BY <1>3, <4>1 DEF Take, LimiterTypeOK
      <4>3. \A t \in timestamps[buckets[victim]] : t.age > Window /\ t.age \in Int
        BY <4>1 DEF SeenInv, LimiterTypeOK, Stamps
      <4> QED BY <4>2, <4>3, TimesAssumption
    <3>4. ~Exposed'
      BY <1>3, <2>2, <3>3 DEF Take, Exposed
    <3>5. Threats' + 1 <= Threats
      BY <2>2, <3>2, <3>4 DEF Threats
    <3> HIDE DEF new
    <3> QED BY <2>1, <2>2, <3>1, <3>5, StrayTraded DEF LimiterTypeOK
  <2> QED BY <2>3, <2>4
<1>4. CASE CleanStart
  <2>1. Exposed' <=> Exposed
    BY <1>4 DEF CleanStart, Exposed
  <2>2. Threats' <= Threats
    BY <1>4, <2>1 DEF CleanStart, Threats
  <2> QED BY <1>4, <2>2, StrayKept DEF CleanStart
<1>5. CASE CleanLock
  <2>1. Threats' <= Threats
    BY <1>5 DEF CleanLock, Threats
  <2> QED BY <1>5, <2>1, StrayKept DEF CleanLock
<1>6. ASSUME NEW i \in Ips, CleanCheck(i) PROVE StrayInv'
  <2>1. buckets[i] \in old => \A t \in timestamps[buckets[i]] : ~(t.age <= Window)
    <3> SUFFICES ASSUME buckets[i] \in old, NEW t \in timestamps[buckets[i]] PROVE ~(t.age <= Window)
      OBVIOUS
    <3>1. t.age > Window /\ t.age \in Int
      BY DEF SeenInv, LimiterTypeOK, Stamps
    <3> QED BY <3>1, TimesAssumption
  <2>2. Exposed' => Exposed
    BY <1>6, <2>1 DEF CleanCheck, Exposed
  <2>3. Threats' <= Threats
    BY <1>6, <2>2 DEF CleanCheck, Threats
  <2> QED BY <1>6, <2>3, StrayKept DEF CleanCheck
<1>7. CASE CleanDelete
  <2> DEFINE lost == granted[victim] \cap timestamps[buckets[victim]]
  <2>1. victim \in Ips /\ strays' = [strays EXCEPT ![victim] = @ \cup lost]
    BY <1>7 DEF CleanDelete, AllowInv
  <2>2. \A t \in lost : t \in timestamps[buckets[victim]] /\ t.age <= Window
    BY <2>1 DEF StampInv
  <2>3. CASE lost = {}
    <3>1. Exposed' => Exposed
      BY <1>7 DEF CleanDelete, Exposed
    <3>2. Threats' <= Threats
      BY <1>7, <3>1 DEF CleanDelete, Threats
    <3>3. strays' = strays
      BY <2>1, <2>3 DEF LimiterTypeOK
    <3> QED BY <1>7, <3>2, <3>3, StrayKept DEF CleanDelete
  <2>4. ASSUME NEW x \in lost PROVE StrayInv'
    <3>1. buckets[victim] \notin old
      <4> SUFFICES ASSUME buckets[victim] \in old PROVE FALSE
        OBVIOUS
      <4>1. x.age > Window /\ x.age \in Int
        BY <2>2, <2>4 DEF SeenInv, LimiterTypeOK, Stamps
      <4> QED BY <2>2, <4>1, TimesAssumption
    <3>2. pc # "bucket" /\ lost = {x}
      BY <1>7, <2>2, <3>1 DEF CleanDelete, VictimInv
    <3>3. Exposed /\ ~Exposed'
      BY <1>7, <2>2, <3>2 DEF CleanDelete, Exposed
    <3>4. Threats' + 1 <= Threats
      BY <1>7, <3>3 DEF CleanDelete, Threats
    <3>5. sinceTick' = sinceTick
      BY <1>7 DEF CleanDelete
    <3>6. strays' = [strays EXCEPT ![victim] = @ \cup {x}]
      BY <2>1, <3>2
    <3> QED BY <2>1, <3>4, <3>5, <3>6, StrayTraded DEF LimiterTypeOK
  <2> QED BY <2>3, <2>4
<1>8. CASE CleanEnd
  <2>1. Exposed' => Exposed
    BY <1>8 DEF CleanEnd, Exposed
  <2>2. Threats' <= Threats
    BY <1>8, <2>1 DEF CleanEnd, Threats
  <2> QED BY <1>8, <2>2, StrayKept DEF CleanEnd
<1>9. CASE CleanExit
  <2>1. Exposed' => Exposed
    BY <1>9 DEF CleanExit, Exposed
  <2>2. Threats' <= Threats
    BY <1>9, <2>1 DEF CleanExit, Threats
  <2> QED BY <1>9, <2>2, StrayKept DEF CleanExit
<1>10. CASE LimiterTick
  <2>1. Exposed' => Exposed
    <3>1. ASSUME cpc = "delete", NEW t \in timestamps'[buckets[victim]], t.age <= Window
          PROVE  \E u \in timestamps[buckets[victim]] : u.age <= Window
      <4>1. /\ timestamps[buckets[victim]] \in SUBSET Stamps
            /\ t \in Older(timestamps[buckets[victim]])
        BY <1>10, <3>1 DEF LimiterTick, LimiterTypeOK, AllowInv
      <4>2. PICK u \in timestamps[buckets[victim]] : t.age = u.age + 1
        BY <3>1, <4>1, OlderMember
      <4>3. u.age \in Int
        BY <4>1 DEF Stamps
      <4> QED BY <3>1, <4>2, <4>3, TimesAssumption
    <3> QED BY <1>10, <3>1 DEF LimiterTick, Exposed
  <2>2. Threats \in Nat /\ Threats' \in Nat /\ Threats' <= 3 /\ Threats' <= Threats + 1
    BY <1>10, <2>1 DEF LimiterTick, Threats
  <2>3. sinceTick' # 0 => Threats' <= Threats
    BY <1>10, <2>1 DEF LimiterTick, Threats, LimiterTypeOK
  <2> SUFFICES ASSUME NEW i \in Ips
               PROVE  /\ Cardinality(SinceTick(i)') + Threats' <= 3
                      /\ Cardinality(strays'[i]) + Threats' <= 4
    BY DEF StrayInv
  <2>4. \A t \in strays'[i] : \E u \in strays[i] :
            /\ t = [age |-> Min2(u.age + 1, Window + 1), n |-> u.n]
            /\ t.age \in Nat /\ u.age \in Nat
            /\ t.age = u.age + 1 /\ t.age <= Window
    <3>1. strays'[i] = Recent(Older(strays[i])) /\ strays[i] \in SUBSET Stamps
      BY <1>10 DEF LimiterTick, LimiterTypeOK
    <3>2. \A u \in strays[i] : u.age \in Nat
      BY <3>1, TimesAssumption DEF Stamps
    <3>3. \A t \in strays'[i] : \E u \in strays[i] :
            /\ t = [age |-> Min2(u.age + 1, Window + 1), n |-> u.n]
            /\ t.age = u.age + 1 /\ t.age <= Window
      BY <3>1, OlderMember DEF Recent
    <3> QED BY <3>2, <3>3
  <2>5. ASSUME NEW S, NEW T, IsFiniteSet(S), T \subseteq Older(S)
        PROVE  Cardinality(T) \in Nat /\ Cardinality(T) <= Cardinality(S)
    <3>1. IsFiniteSet(Older(S)) /\ Cardinality(Older(S)) <= Cardinality(S)
      BY <2>5, OlderCount
    <3>2. IsFiniteSet(T) /\ Cardinality(T) <= Cardinality(Older(S))
      BY <2>5, <3>1, FS_Subset
    <3>3. Cardinality(T) \in Nat /\ Cardinality(S) \in Nat /\ Cardinality(Older(S)) \in Nat
      BY <2>5, <3>1, <3>2, FS_CardinalityType
    <3> QED BY <3>1, <3>2, <3>3
  <2>6. /\ IsFiniteSet(strays[i]) /\ Cardinality(strays[i]) \in Nat
        /\ IsFiniteSet(SinceTick(i)) /\ Cardinality(SinceTick(i)) \in Nat
    BY StrayCounts
  <2>7. Cardinality(SinceTick(i)) + Threats <= 3 /\ Cardinality(strays[i]) + Threats <= 4
    BY DEF StrayInv
  <2>8. CASE sinceTick' # 0
    <3>1. sinceTick' = sinceTick + 1 /\ sinceTick \in Int
      BY <1>10, <2>8 DEF LimiterTick, LimiterTypeOK
    <3>2. strays'[i] \subseteq Older(strays[i]) /\ SinceTick(i)' \subseteq Older(SinceTick(i))
      BY <2>4, <3>1 DEF SinceTick, Older
    <3>3. /\ Cardinality(strays'[i]) \in Nat /\ Cardinality(strays'[i]) <= Cardinality(strays[i])
          /\ Cardinality(SinceTick(i)') \in Nat
          /\ Cardinality(SinceTick(i)') <= Cardinality(SinceTick(i))
      BY <2>5, <2>6, <3>2
    <3>4. \A m, n, p, q \in Nat : \A h \in {3, 4} : m <= n /\ p <= q /\ n + q <= h => m + p <= h
      OBVIOUS
    <3> QED BY <2>2, <2>3, <2>6, <2>7, <2>8, <3>3, <3>4
  <2>9. CASE sinceTick' = 0
    <3>1. sinceTick + 1 = Stale /\ sinceTick \in Int
      BY <1>10, <2>9 DEF LimiterTick, LimiterTypeOK
    <3>2. strays'[i] \subseteq Older(SinceTick(i))
      BY <2>4, <3>1, TimesAssumption DEF SinceTick, Older
    <3>3. SinceTick(i)' = {}
      BY <2>4, <2>9 DEF SinceTick
    <3>4. /\ Cardinality(strays'[i]) \in Nat
          /\ Cardinality(strays'[i]) <= Cardinality(SinceTick(i))
      BY <2>5, <2>6, <3>2
    <3>5. Cardinality(SinceTick(i)') = 0
      BY <3>3, FS_EmptySet
    <3>6. \A m, n, p, q \in Nat : m <= n /\ p <= q + 1 /\ n + q <= 3 => m + p <= 4
      OBVIOUS
    <3>7. Cardinality(strays'[i]) + Threats' <= 4
      BY <2>2, <2>6, <2>7, <3>4, <3>6
    <3>8. Cardinality(SinceTick(i)') + Threats' <= 3
      <4>1. \A p \in Nat : p <= 3 => 0 + p <= 3
        OBVIOUS
      <4> QED BY <2>2, <3>5, <4>1
    <3> QED BY <3>7, <3>8
  <2> QED BY <2>8, <2>9
<1>11. CASE LimiterCancel
  <2>1. Exposed' <=> Exposed
    BY <1>11 DEF LimiterCancel, Exposed
  <2>2. Threats' <= Threats
    BY <1>11, <2>1 DEF LimiterCancel, Threats
  <2> QED BY <1>11, <2>2, StrayKept DEF LimiterCancel
<1>12. CASE UNCHANGED limiterVars
  <2>1. Exposed' <=> Exposed
    BY <1>12 DEF Exposed
  <2>2. Threats' <= Threats
    BY <1>12, <2>1 DEF Threats
  <2> QED BY <1>12, <2>2, StrayKept
<1> QED BY <1>1, <1>2, <1>3, <1>4, <1>5, <1>6, <1>7, <1>8, <1>9, <1>10, <1>11, <1>12
        DEF LimiterNext, AllowNext, CleanNext

\* A connection let through gets a stamp that no other of its address has.
LEMMA SerialStep ==
    ASSUME LimiterTypeOK, AllowInv, StampInv, OwnerInv, SerialInv, [LimiterNext]_limiterVars
    PROVE  SerialInv'
<1> USE DEF limiterVars, tableVars, allowVars, cleanVars, tickVars, histVars
<1>1. ASSUME NEW i \in Ips, Lookup(i) PROVE SerialInv'
  BY <1>1 DEF Lookup, SerialInv, Serial
<1>2. CASE Create
  <2>1. granted' = granted /\ ip' = ip /\ ip \in Ips
    BY <1>2 DEF Create, AllowInv
  <2>2. \A i \in Ips : Serial(i)' = Serial(i)
    BY <2>1 DEF Serial
  <2>3. ASSUME NEW i \in Ips, buckets'[i] # None, NEW t \in timestamps'[buckets'[i]], t.age <= Window
        PROVE  t \in granted[i]
    BY <1>2, <2>1, <2>3, CreateShape DEF SerialInv, LimiterTypeOK
  <2>4. ASSUME NEW t \in timestamps'[b'], t.age <= Window
        PROVE  t \in granted[ip]
    BY <1>2, <2>1, <2>4, CreateShape DEF SerialInv, LimiterTypeOK
  <2> QED BY <2>1, <2>2, <2>3, <2>4 DEF SerialInv
<1>3. CASE Take
  <2> DEFINE new == [age |-> 0, n |-> Serial(ip)]
             taken == IF Fits(InWindow(timestamps[b])) THEN {new} ELSE {}
             now(i) == {t \in granted[i] : t.age = 0}
  <2>1. ip \in Ips /\ b \in Buckets /\ pc' # "bucket" /\ buckets' = buckets
    BY <1>3 DEF Take, AllowInv
  <2>2. /\ \A k \in Buckets : timestamps'[k] = IF k = b THEN InWindow(timestamps[b]) \cup taken
                                                        ELSE timestamps[k]
        /\ \A i \in Ips : granted'[i] = IF i = ip THEN granted[i] \cup taken ELSE granted[i]
    BY <1>3, <2>1 DEF Take, LimiterTypeOK
  <2>3. IsFiniteSet(now(ip)) /\ Serial(ip) = Cardinality(now(ip)) /\ Serial(ip) \in Nat
    <3>1. IsFiniteSet(now(ip))
      BY <2>1, FS_Subset DEF StampInv
    <3> QED BY <3>1, FS_CardinalityType DEF Serial
  <2>4. new \notin granted[ip]
    BY <2>1, <2>3 DEF SerialInv
  <2>5. ASSUME NEW i \in Ips, NEW t \in granted'[i], t.age = 0
        PROVE  t.n < Serial(i)'
    <3>1. CASE granted'[i] = granted[i]
      BY <2>5, <3>1 DEF SerialInv, Serial
    <3>2. CASE granted'[i] # granted[i]
      <4>1. i = ip /\ granted'[ip] = granted[ip] \cup {new}
        BY <2>2, <3>2
      <4>2. {x \in granted'[ip] : x.age = 0} = now(ip) \cup {new}
        BY <4>1
      <4>3. new \notin now(ip)
        BY <2>4
      <4>4. Cardinality(now(ip) \cup {new}) = Cardinality(now(ip)) + 1
        <5> HIDE DEF now, new
        <5> QED BY <2>3, <4>3, FS_AddElement
      <4>5. Serial(i)' = Serial(ip) + 1
        <5>1. Serial(i)' = Cardinality({x \in granted'[i] : x.age = 0})
          BY DEF Serial
        <5> QED BY <2>3, <4>1, <4>2, <4>4, <5>1
      <4>6. t = new \/ (t \in granted[ip] /\ t.n < Serial(ip))
        BY <2>1, <2>5, <4>1 DEF SerialInv
      <4>7. t.n \in Int
        BY <2>1, <2>3, <2>5, <4>1 DEF LimiterTypeOK, Stamps
      <4> QED BY <2>3, <4>5, <4>6, <4>7
    <3> QED BY <3>1, <3>2
  <2>6. ASSUME NEW i \in Ips, buckets[i] # None, NEW t \in timestamps'[buckets[i]], t.age <= Window
        PROVE  t \in granted'[i]
    <3>1. buckets[i] \in Buckets
      BY <2>6 DEF LimiterTypeOK
    <3>2. buckets[i] = b => i = ip
      BY <1>3 DEF Take, OwnerInv
    <3> HIDE DEF taken
    <3> QED BY <2>2, <2>6, <3>1, <3>2 DEF SerialInv, InWindow
  <2> QED BY <2>1, <2>5, <2>6 DEF SerialInv
<1>4. CASE CleanNext
  <2>1. granted' = granted /\ timestamps' = timestamps /\ pc' = pc /\ ip' = ip /\ b' = b
    BY <1>4 DEF CleanNext, CleanStart, CleanLock, CleanCheck, CleanDelete, CleanEnd, CleanExit
  <2>2. \A i \in Ips : buckets'[i] # None => buckets'[i] = buckets[i]
    BY <1>4 DEF CleanNext, CleanStart, CleanLock, CleanCheck, CleanDelete, CleanEnd, CleanExit,
                AllowInv, LimiterTypeOK
  <2> QED BY <2>1, <2>2 DEF SerialInv, Serial
<1>5. CASE LimiterTick
  <2>1. ASSUME NEW i \in Ips, NEW t \in granted'[i]
        PROVE  t.age >= 1
    <3>1. t \in Older(granted[i]) /\ granted[i] \in SUBSET Stamps
      BY <1>5 DEF LimiterTick, Recent, LimiterTypeOK
    <3> QED BY <3>1, OlderMember
  <2>2. ASSUME NEW i \in Ips, NEW k \in Buckets, NEW t \in timestamps'[k], t.age <= Window,
               \A u \in timestamps[k] : u.age <= Window => u \in granted[i]
        PROVE  t \in granted'[i]
    <3>1. t \in Older(timestamps[k]) /\ timestamps[k] \in SUBSET Stamps
      BY <1>5 DEF LimiterTick, LimiterTypeOK
    <3>2. PICK u \in timestamps[k] : /\ t = [age |-> Min2(u.age + 1, Window + 1), n |-> u.n]
                                     /\ t.age = u.age + 1
      BY <2>2, <3>1, OlderMember
    <3>3. u.age <= Window
      BY <2>2, <3>1, <3>2, TimesAssumption DEF Stamps
    <3>4. t \in Older(granted[i])
      BY <2>2, <3>2, <3>3, OlderKeeps
    <3> QED BY <1>5, <2>2, <3>4 DEF LimiterTick, Recent
  <2>3. \A i \in Ips : \A t \in granted'[i] : ~(t.age = 0)
    BY <2>1
  <2>4. UNCHANGED <<buckets, pc, ip, b>>
    BY <1>5 DEF LimiterTick
  <2>5. ASSUME NEW i \in Ips, buckets[i] # None, NEW t \in timestamps'[buckets[i]], t.age <= Window
        PROVE  t \in granted'[i]
    BY <2>2, <2>5 DEF SerialInv, LimiterTypeOK
  <2>6. ASSUME pc = "bucket", NEW t \in timestamps'[b], t.age <= Window
        PROVE  t \in granted'[ip]
    BY <2>2, <2>6 DEF SerialInv, AllowInv
  <2> QED BY <2>3, <2>4, <2>5, <2>6 DEF SerialInv
<1>6. CASE LimiterCancel
  BY <1>6 DEF LimiterCancel, SerialInv, Serial
<1>7. CASE UNCHANGED limiterVars
  BY <1>7 DEF SerialInv, Serial
<1> QED BY <1>1, <1>2, <1>3, <1>4, <1>5, <1>6, <1>7 DEF LimiterNext, AllowNext

-----------------------------------------------------------------------------
(* The rate limiter: theorems *)

LEMMA LimiterInitInv == LimiterInit => LimiterInv
<1> SUFFICES ASSUME LimiterInit PROVE LimiterInv
  OBVIOUS
<1>1. IsFiniteSet({}) /\ Cardinality({}) = 0
  BY FS_EmptySet
<1>2. Stale + 1 \in 0..(Stale + 1) /\ 0 \in 0..(Stale - 1)
  BY TimesAssumption
<1>3. LimiterTypeOK
  BY <1>2 DEF LimiterInit, LimiterTypeOK
<1>4. AllowInv /\ CountedInv /\ OwnerInv /\ SeenInv /\ VictimInv /\ SerialInv
  BY DEF LimiterInit, AllowInv, CountedInv, OwnerInv, SeenInv, VictimInv, SerialInv, None
<1>5. StampInv
  BY <1>1, LimitAssumption DEF LimiterInit, StampInv
<1>6. StrayInv
  <2>1. Threats = 0
    BY DEF LimiterInit, Threats, Exposed
  <2>2. \A i \in Ips : strays[i] = {} /\ SinceTick(i) = {}
    BY DEF LimiterInit, SinceTick
  <2> QED BY <1>1, <2>1, <2>2 DEF StrayInv
<1> QED BY <1>3, <1>4, <1>5, <1>6 DEF LimiterInv

\* The invariant of the rate limiter holds in every state it reaches.
THEOREM LimiterInvariance == LimiterSpec => []LimiterInv
<1>1. LimiterInv /\ [LimiterNext]_limiterVars => LimiterInv'
  BY LimiterTypeStep, AllowStep, StampStep, CountedStep, OwnerStep, SeenStep, VictimStep,
     StrayStep, SerialStep DEF LimiterInv
<1> QED BY <1>1, LimiterInitInv, PTL DEF LimiterSpec

\* For any limit, window and cleanup period: apart from the connections that
\* cleanup made allow forget, at most rate_limit connections of an address are
\* let through within a second.
THEOREM AtMostLimit == LimiterSpec => []OnlyStraysExceed
<1>1. LimiterInv => OnlyStraysExceed
  <2> SUFFICES ASSUME LimiterInv, NEW i \in Ips PROVE Cardinality(granted[i] \ strays[i]) <= Limit
    BY DEF OnlyStraysExceed
  <2>1. CASE granted[i] \ strays[i] = {}
    BY <2>1, FS_EmptySet, LimitAssumption
  <2>2. CASE granted[i] \ strays[i] # {}
    <3> DEFINE k == buckets[i]
    <3>1. k \in Buckets /\ granted[i] \ strays[i] \subseteq timestamps[k]
      BY <2>2 DEF LimiterInv, LimiterTypeOK, CountedInv
    <3>2. IsFiniteSet(timestamps[k]) /\ Cardinality(timestamps[k]) <= Limit
      BY <3>1 DEF LimiterInv, StampInv
    <3>3. IsFiniteSet(granted[i] \ strays[i])
      BY <3>1, <3>2, FS_Subset
    <3>4. Cardinality(granted[i] \ strays[i]) <= Cardinality(timestamps[k])
      BY <3>1, <3>2, FS_Subset
    <3>5. Cardinality(granted[i] \ strays[i]) \in Nat /\ Cardinality(timestamps[k]) \in Nat
      BY <3>2, <3>3, FS_CardinalityType
    <3> QED BY <3>2, <3>4, <3>5, LimitAssumption
  <2> QED BY <2>1, <2>2
<1> QED BY <1>1, LimiterInvariance, PTL

\* For any limit, and any cleanup period longer than the window: at most four
\* connections of an address are forgotten within a second.
THEOREM FewStrays == LimiterSpec => []StraysBounded
<1>1. LimiterInv => StraysBounded
  <2> SUFFICES ASSUME LimiterInv, NEW i \in Ips PROVE Cardinality(strays[i]) <= 4
    BY DEF StraysBounded
  <2>1. Cardinality(strays[i]) + Threats <= 4
    BY DEF LimiterInv, StrayInv
  <2>2. Cardinality(strays[i]) \in Nat
    BY StrayCounts DEF LimiterInv
  <2>3. Threats \in 0..3
    BY ThreatsAre
  <2> HIDE DEF Threats
  <2> QED BY <2>1, <2>2, <2>3
<1> QED BY <1>1, LimiterInvariance, PTL

\* The two together: no address gets more than rate_limit + 4 connections
\* through the limiter within a second, whatever cleanup does.
THEOREM RateBound == LimiterSpec => [](\A i \in Ips : Cardinality(granted[i]) <= Limit + 4)
<1>1. LimiterInv /\ OnlyStraysExceed /\ StraysBounded => \A i \in Ips : Cardinality(granted[i]) <= Limit + 4
  <2> SUFFICES ASSUME LimiterInv, OnlyStraysExceed, StraysBounded, NEW i \in Ips
               PROVE  Cardinality(granted[i]) <= Limit + 4
    OBVIOUS
  <2> DEFINE A == granted[i] \ strays[i]
             S == strays[i]
  <2>1. IsFiniteSet(granted[i]) /\ S \subseteq granted[i]
    BY DEF LimiterInv, StampInv
  <2>2. IsFiniteSet(A) /\ IsFiniteSet(S) /\ granted[i] = A \cup S /\ A \cap S = {}
    BY <2>1, FS_Subset
  <2>3. Cardinality(A \cup S) = Cardinality(A) + Cardinality(S) - Cardinality(A \cap S)
    BY <2>2, FS_Union
  <2>4. Cardinality(A \cap S) = 0
    BY <2>2, FS_EmptySet
  <2>5. Cardinality(A) \in Nat /\ Cardinality(S) \in Nat
    BY <2>2, FS_CardinalityType
  <2>6. Cardinality(A) <= Limit /\ Cardinality(S) <= 4
    BY DEF OnlyStraysExceed, StraysBounded
  <2> HIDE DEF A, S
  <2> QED BY <2>2, <2>3, <2>4, <2>5, <2>6, LimitAssumption
<1> QED BY <1>1, LimiterInvariance, AtMostLimit, FewStrays, PTL

\* The connection that allow is about to let through is told apart from every
\* other that its bucket or the history counts, so that the sets count what the
\* code's slice counts.
THEOREM StampsDistinct ==
    LimiterSpec =>
        [](pc = "bucket" => [age |-> 0, n |-> Serial(ip)] \notin granted[ip] \cup timestamps[b])
<1>1. LimiterInv /\ pc = "bucket"
          => [age |-> 0, n |-> Serial(ip)] \notin granted[ip] \cup timestamps[b]
  <2> SUFFICES ASSUME LimiterInv, pc = "bucket"
               PROVE  [age |-> 0, n |-> Serial(ip)] \notin granted[ip] \cup timestamps[b]
    OBVIOUS
  <2> DEFINE new == [age |-> 0, n |-> Serial(ip)]
  <2>1. ip \in Ips /\ b \in Buckets
    BY DEF LimiterInv, AllowInv
  <2>2. Serial(ip) \in Nat
    BY <2>1, NewStamp DEF LimiterInv, StampInv
  <2>3. new \notin granted[ip]
    BY <2>1, <2>2 DEF LimiterInv, SerialInv
  <2>4. new \in timestamps[b] => new \in granted[ip]
    BY TimesAssumption DEF LimiterInv, SerialInv
  <2> QED BY <2>3, <2>4
<1> QED BY <1>1, LimiterInvariance, PTL
=============================================================================
