---------------------------- MODULE RelayProofs ----------------------------
(***************************************************************************)
(* Proofs about Relay: every direction of a connection is a byte pipe, and *)
(* the bytes counted are the bytes delivered.                              *)
(*                                                                         *)
(* A byte that a peer has sent is delivered, held back (by readSNI or in   *)
(* the buffer of copyLoop), received and not yet read, or lost.  As long   *)
(* as a direction is up, the first three are consecutive stretches of what *)
(* the peer has sent: that is the inductive invariant.  Only a socket that *)
(* is dead has lost bytes, and those are the last ones.                    *)
(***************************************************************************)
EXTENDS Relay, SequenceTheorems, TLAPS

-----------------------------------------------------------------------------
(* Stretches of a stream *)

\* The sequence s holds the bytes after the first m, in order.
Stretch(s, m) == \A i \in 1..Len(s) : s[i] = m + i

\* The first n elements, and the others.
LEMMA TakeDrop ==
    ASSUME NEW s \in Bytes, NEW n \in 0..Len(s)
    PROVE  /\ Take(s, n) \in Bytes /\ Len(Take(s, n)) = n
           /\ \A i \in 1..n : Take(s, n)[i] = s[i]
           /\ Drop(s, n) \in Bytes /\ Len(Drop(s, n)) = Len(s) - n
           /\ \A i \in 1..(Len(s) - n) : Drop(s, n)[i] = s[n + i]
<1> DEFINE B == 1..MaxBytes
           a == SubSeq(s, 1, n)
           b == SubSeq(s, n + 1, Len(s))
<1>0. s \in Seq(B) /\ Len(s) \in Nat /\ n \in Nat /\ n <= Len(s)
  BY DEF Bytes
<1> HIDE DEF B
<1>1. /\ s \in Seq(B) /\ Len(s) \in Nat /\ n \in Nat /\ n <= Len(s)
      /\ \A i \in 1..n : s[i] \in B
      /\ \A i \in (n + 1)..Len(s) : s[i] \in B
  BY <1>0, ElementOfSeq
<1>2. a \in Seq(B) /\ Len(a) = n /\ \A i \in 1..n : a[i] = s[i]
  BY <1>1, SubSeqProperties
<1>3. b \in Seq(B) /\ Len(b) = Len(s) - n /\ \A i \in 1..(Len(s) - n) : b[i] = s[n + i]
  BY <1>1, SubSeqProperties
<1> QED
  BY <1>2, <1>3 DEF Take, Drop, Bytes, B

\* One sequence after another.
LEMMA Joined ==
    ASSUME NEW s \in Bytes, NEW t \in Bytes
    PROVE  /\ s \o t \in Bytes /\ Len(s \o t) = Len(s) + Len(t)
           /\ \A i \in 1..Len(s) : (s \o t)[i] = s[i]
           /\ \A i \in 1..Len(t) : (s \o t)[Len(s) + i] = t[i]
<1> DEFINE B == 1..MaxBytes
<1>1. s \in Seq(B) /\ t \in Seq(B) /\ Len(s) \in Nat /\ Len(t) \in Nat
  BY DEF Bytes
<1> HIDE DEF B
<1>2. /\ s \o t \in Seq(B) /\ Len(s \o t) = Len(s) + Len(t)
      /\ \A i \in 1..(Len(s) + Len(t)) : (s \o t)[i] = IF i <= Len(s) THEN s[i] ELSE t[i - Len(s)]
  BY <1>1, ConcatProperties
<1>3. \A i \in 1..Len(s) : i \in 1..(Len(s) + Len(t)) /\ i <= Len(s)
  BY <1>1
<1>4. \A i \in 1..Len(t) : /\ Len(s) + i \in 1..(Len(s) + Len(t)) /\ ~(Len(s) + i <= Len(s))
                           /\ (Len(s) + i) - Len(s) = i
  BY <1>1
<1> QED
  BY <1>2, <1>3, <1>4 DEF Bytes, B

\* A stretch and the next one make one stretch.
LEMMA JoinedStretch ==
    ASSUME NEW s \in Bytes, NEW t \in Bytes, NEW m \in Nat, Stretch(s, m), Stretch(t, m + Len(s))
    PROVE  Stretch(s \o t, m)
<1>1. /\ Len(s) \in Nat /\ Len(t) \in Nat /\ Len(s \o t) = Len(s) + Len(t)
      /\ \A i \in 1..Len(s) : (s \o t)[i] = s[i]
      /\ \A i \in 1..Len(t) : (s \o t)[Len(s) + i] = t[i]
  BY Joined DEF Bytes
<1> SUFFICES ASSUME NEW i \in 1..(Len(s) + Len(t)) PROVE (s \o t)[i] = m + i
  BY <1>1 DEF Stretch
<1>2. CASE i <= Len(s)
  BY <1>1, <1>2 DEF Stretch
<1>3. CASE i > Len(s)
  <2>1. PICK j \in 1..Len(t) : i = Len(s) + j
    <3>1. i - Len(s) \in 1..Len(t) /\ i = Len(s) + (i - Len(s))
      BY <1>1, <1>3
    <3> QED
      BY <3>1
  <2>2. (s \o t)[i] = t[j] /\ t[j] = m + Len(s) + j
    BY <1>1, <2>1 DEF Stretch
  <2> QED
    BY <1>1, <2>1, <2>2
<1> QED
  BY <1>1, <1>2, <1>3

\* A part of a stretch is one.
LEMMA PartStretch ==
    ASSUME NEW s \in Bytes, NEW n \in 0..Len(s), NEW m \in Nat, Stretch(s, m)
    PROVE  Stretch(Take(s, n), m) /\ Stretch(Drop(s, n), m + n)
<1>1. /\ Len(s) \in Nat
      /\ Len(Take(s, n)) = n /\ \A i \in 1..n : Take(s, n)[i] = s[i]
      /\ Len(Drop(s, n)) = Len(s) - n /\ \A i \in 1..(Len(s) - n) : Drop(s, n)[i] = s[n + i]
  BY TakeDrop DEF Bytes
<1>2. \A i \in 1..n : i \in 1..Len(s)
  BY <1>1
<1>3. \A i \in 1..(Len(s) - n) : n + i \in 1..Len(s) /\ m + (n + i) = m + n + i
  BY <1>1
<1>4. Stretch(Take(s, n), m)
  BY <1>1, <1>2 DEF Stretch
<1>5. Stretch(Drop(s, n), m + n)
  BY <1>1, <1>3 DEF Stretch
<1> QED
  BY <1>4, <1>5

\* Taking everything is taking the sequence itself.
LEMMA TakeAll == ASSUME NEW s \in Bytes PROVE Take(s, Len(s)) = s
<1>1. Len(s) \in 0..Len(s) /\ s \in Seq(1..MaxBytes)
  BY DEF Bytes
<1>2. Take(s, Len(s)) \in Seq(1..MaxBytes) /\ Len(Take(s, Len(s))) = Len(s)
  BY <1>1, TakeDrop DEF Bytes
<1>3. \A i \in 1..Len(s) : Take(s, Len(s))[i] = s[i]
  BY <1>1, TakeDrop
<1> QED
  BY <1>1, <1>2, <1>3, SeqEqual

-----------------------------------------------------------------------------
(* One direction *)

\* Of the first n bytes of a direction, got are delivered; as long as it is up,
\* held follow and then box, and nothing is lost unless the source is dead.
Piped(got, held, box, n, up, dead) ==
    /\ Stretch(got, 0) /\ Len(got) <= n
    /\ up => /\ Stretch(held, Len(got)) /\ Stretch(box, Len(got) + Len(held))
             /\ Len(got) + Len(held) + Len(box) <= n
             /\ ~dead => Len(got) + Len(held) + Len(box) = n
    /\ dead => box = <<>>

\* A byte sent to a live socket is received after the others.
LEMMA PipedSend ==
    ASSUME NEW got \in Bytes, NEW held \in Bytes, NEW box \in Bytes, NEW n \in Nat, n < MaxBytes,
           NEW up \in BOOLEAN, NEW dead \in BOOLEAN, ~dead, Piped(got, held, box, n, up, dead)
    PROVE  Append(box, n + 1) \in Bytes /\ Piped(got, held, Append(box, n + 1), n + 1, up, dead)
<1> DEFINE B == 1..MaxBytes
           new == Append(box, n + 1)
<1>1. /\ Len(got) \in Nat /\ Len(held) \in Nat /\ Len(box) \in Nat /\ box \in Seq(B) /\ n + 1 \in B
  BY SizesAssumption DEF Bytes
<1> HIDE DEF B
<1>2. /\ new \in Seq(B) /\ Len(new) = Len(box) + 1 /\ new[Len(box) + 1] = n + 1
      /\ \A i \in 1..Len(box) : new[i] = box[i]
  BY <1>1, AppendProperties
<1> HIDE DEF new
<1>3. ASSUME up PROVE Stretch(new, Len(got) + Len(held))
  <2>1. /\ \A i \in 1..Len(box) : box[i] = (Len(got) + Len(held)) + i
        /\ Len(got) + Len(held) + Len(box) = n
    BY <1>3 DEF Piped, Stretch
  <2> SUFFICES ASSUME NEW i \in 1..(Len(box) + 1) PROVE new[i] = (Len(got) + Len(held)) + i
    BY <1>2 DEF Stretch
  <2>2. CASE i \in 1..Len(box)
    BY <1>2, <2>1, <2>2
  <2>3. CASE i = Len(box) + 1
    BY <1>1, <1>2, <2>1, <2>3
  <2> QED
    BY <1>1, <2>2, <2>3
<1>4. Piped(got, held, new, n + 1, up, dead)
  BY <1>1, <1>2, <1>3 DEF Piped
<1> QED
  BY <1>2, <1>4 DEF new, Bytes, B

\* A reset or a close loses what is not read.
LEMMA PipedLose ==
    ASSUME NEW got \in Bytes, NEW held \in Bytes, NEW box \in Bytes, NEW n \in Nat,
           NEW up \in BOOLEAN, NEW dead \in BOOLEAN, Piped(got, held, box, n, up, dead)
    PROVE  Piped(got, held, <<>>, n, up, TRUE)
<1>1. Len(got) \in Nat /\ Len(held) \in Nat /\ Len(box) \in Nat /\ Len(<<>>) = 0
  BY DEF Bytes
<1>2. \A m : Stretch(<<>>, m)
  BY <1>1 DEF Stretch
<1> QED
  BY <1>1, <1>2 DEF Piped

\* Bytes that are read are held back, after those that were.
LEMMA PipedRead ==
    ASSUME NEW got \in Bytes, NEW held \in Bytes, NEW box \in Bytes, NEW k \in Nat, k <= Len(box),
           Stretch(held, Len(got)), Stretch(box, Len(got) + Len(held))
    PROVE  /\ held \o Take(box, k) \in Bytes /\ Len(held \o Take(box, k)) = Len(held) + k
           /\ Stretch(held \o Take(box, k), Len(got))
           /\ Drop(box, k) \in Bytes /\ Len(Drop(box, k)) = Len(box) - k
           /\ Stretch(Drop(box, k), Len(got) + Len(held) + k)
<1> DEFINE t == Take(box, k)
           r == Drop(box, k)
<1>1. /\ Len(got) \in Nat /\ Len(held) \in Nat /\ Len(box) \in Nat
      /\ k \in 0..Len(box) /\ Len(got) + Len(held) \in Nat
  BY DEF Bytes
<1>2. t \in Bytes /\ Len(t) = k /\ r \in Bytes /\ Len(r) = Len(box) - k
  BY <1>1, TakeDrop
<1>3. Stretch(t, Len(got) + Len(held)) /\ Stretch(r, (Len(got) + Len(held)) + k)
  BY <1>1, PartStretch
<1> HIDE DEF t, r
<1>4. held \o t \in Bytes /\ Len(held \o t) = Len(held) + k
  BY <1>2, Joined
<1>5. Stretch(held \o t, Len(got))
  BY <1>1, <1>2, <1>3, JoinedStretch
<1> QED
  BY <1>2, <1>3, <1>4, <1>5, Zenon DEF t, r

\* Writing what is held back delivers it.
LEMMA PipedWrite ==
    ASSUME NEW got \in Bytes, NEW held \in Bytes, NEW box \in Bytes, NEW n \in Nat,
           NEW up \in BOOLEAN, up, NEW dead \in BOOLEAN, Piped(got, held, box, n, up, dead)
    PROVE  /\ got \o held \in Bytes /\ Len(got \o held) = Len(got) + Len(held)
           /\ Piped(got \o held, <<>>, box, n, up, dead)
<1> DEFINE g == got \o held
<1>1. Len(got) \in Nat /\ Len(held) \in Nat /\ Len(box) \in Nat /\ Len(<<>>) = 0
  BY DEF Bytes
<1>2. g \in Bytes /\ Len(g) = Len(got) + Len(held)
  BY Joined
<1>3. /\ Stretch(got, 0) /\ Stretch(held, Len(got)) /\ Stretch(box, Len(got) + Len(held))
      /\ Len(got) + Len(held) + Len(box) <= n
      /\ ~dead => Len(got) + Len(held) + Len(box) = n
      /\ dead => box = <<>>
  BY DEF Piped
<1>4. 0 \in Nat /\ Len(got) = 0 + Len(got)
  BY <1>1
<1>5. Stretch(held, 0 + Len(got))
  BY <1>3, <1>4
<1>6. Stretch(g, 0)
  BY <1>3, <1>4, <1>5, JoinedStretch
<1>7. \A m : Stretch(<<>>, m)
  BY <1>1 DEF Stretch
<1> HIDE DEF g
<1>8. Len(got) + Len(held) = Len(g) + Len(<<>>)
  BY <1>1, <1>2
<1>9. Stretch(box, Len(g) + Len(<<>>))
  BY <1>3, <1>8
<1>10. Piped(g, <<>>, box, n, up, dead)
  BY <1>1, <1>2, <1>3, <1>6, <1>7, <1>9 DEF Piped
<1> QED
  BY <1>2, <1>10 DEF g

\* So does writing a part of it.
LEMMA PipedPart ==
    ASSUME NEW got \in Bytes, NEW held \in Bytes, NEW n \in Nat, NEW k \in 0..Len(held),
           Stretch(got, 0), Stretch(held, Len(got)), Len(got) + Len(held) <= n
    PROVE  /\ got \o Take(held, k) \in Bytes /\ Len(got \o Take(held, k)) = Len(got) + k
           /\ Stretch(got \o Take(held, k), 0) /\ Len(got) + k <= n
<1> DEFINE t == Take(held, k)
           g == got \o t
<1>1. Len(got) \in Nat /\ Len(held) \in Nat /\ k \in Nat /\ k <= Len(held)
  BY DEF Bytes
<1>2. t \in Bytes /\ Len(t) = k
  BY TakeDrop
<1>4. Stretch(t, Len(got)) /\ 0 \in Nat /\ Len(got) = 0 + Len(got)
  BY <1>1, PartStretch
<1>5. Stretch(t, 0 + Len(got))
  BY <1>4
<1> HIDE DEF t
<1>6. g \in Bytes /\ Len(g) = Len(got) + k /\ Stretch(g, 0)
  BY <1>2, <1>4, <1>5, Joined, JoinedStretch
<1> HIDE DEF g
<1>7. Len(got) + k <= n
  BY <1>1
<1> QED
  BY <1>6, <1>7 DEF g, t

\* What is read and not yet written: by readSNI, or by copyLoop.
Held(d) == IF d = "in" /\ lpc[d] = "off" THEN acc ELSE buf[d]

-----------------------------------------------------------------------------
(* The inductive invariant *)

\* The loops run between the SNI phase and the return; only the SNI phase fills
\* acc, and only a loop about to write has bytes in its buffer.
Control ==
    /\ pc \in {"sni", "sniwrite"} => \A d \in Dirs : lpc[d] = "off"
    /\ pc = "relay" => \A d \in Dirs : lpc[d] # "off"
    /\ pc = "returned" => \A d \in Dirs : lpc[d] \in {"off", "done"}
    /\ pc \in {"relay", "returned"} => acc = <<>>
    /\ \A d \in Dirs : lpc[d] # "write" => buf[d] = <<>>

\* Each direction is a stretch of its stream.
StreamAt(d) == Piped(delivered[d], Held(d), inbox[d], nsent[d], Up(d), Dead(Src(d)))
Stream == \A d \in Dirs : StreamAt(d)

\* What is delivered is counted, except by a connection whose loops never
\* started and never will.
Counted ==
    \A d \in Dirs :
        /\ result[d] <= metric[d] /\ metric[d] <= Len(delivered[d])
        /\ (lpc[d] # "off" \/ pc # "returned") => metric[d] = Len(delivered[d])

IInv == TypeOK /\ Control /\ Stream /\ Counted

\* The two directions and their ends.
LEMMA Ends ==
    /\ Dirs = {"in", "out"} /\ Src("in") = "client" /\ Src("out") = "server"
    /\ \A d \in Dirs : Src(d) \in Socks
  BY DEF Dirs, Socks, Src

\* The types of what one direction consists of.
LEMMA DirTypes ==
    ASSUME TypeOK, NEW d \in Dirs
    PROVE  /\ delivered[d] \in Bytes /\ Held(d) \in Bytes /\ inbox[d] \in Bytes /\ buf[d] \in Bytes
           /\ nsent[d] \in Nat /\ nsent[d] <= MaxBytes
           /\ Up(d) \in BOOLEAN /\ Dead(Src(d)) \in BOOLEAN
           /\ metric[d] \in Nat /\ result[d] \in Nat /\ Len(delivered[d]) \in Nat
<1>1. /\ delivered \in [Dirs -> Bytes] /\ inbox \in [Dirs -> Bytes] /\ buf \in [Dirs -> Bytes]
      /\ acc \in Bytes /\ nsent \in [Dirs -> 0..MaxBytes]
      /\ metric \in [Dirs -> 0..MaxBytes] /\ result \in [Dirs -> 0..MaxBytes]
  BY DEF TypeOK
<1>2. delivered[d] \in Bytes /\ Held(d) \in Bytes /\ inbox[d] \in Bytes /\ buf[d] \in Bytes
  BY <1>1 DEF Held
<1>3. /\ nsent[d] \in Nat /\ nsent[d] <= MaxBytes /\ metric[d] \in Nat /\ result[d] \in Nat
  BY <1>1, SizesAssumption
<1>4. Up(d) \in BOOLEAN /\ Dead(Src(d)) \in BOOLEAN
  BY DEF Up, Dead
<1>5. Len(delivered[d]) \in Nat
  BY <1>2 DEF Bytes
<1> QED
  BY <1>2, <1>3, <1>4, <1>5

\* A direction that a step leaves alone, or takes down, stays a stretch of its
\* stream.
LEMMA StreamKept ==
    ASSUME NEW d \in Dirs, StreamAt(d),
           delivered'[d] = delivered[d], inbox'[d] = inbox[d], nsent'[d] = nsent[d],
           Dead(Src(d))' <=> Dead(Src(d)),
           Up(d)' => Up(d) /\ Held(d)' = Held(d)
    PROVE  StreamAt(d)'
  BY DEF StreamAt, Piped

\* A socket that dies loses what it received, and nothing else.
LEMMA LoseStep ==
    ASSUME IInv, NEW s \in Socks, broken' \cup closed' = broken \cup closed \cup {s},
           inbox' = [d \in Dirs |-> IF Src(d) = s THEN <<>> ELSE inbox[d]],
           UNCHANGED <<pc, acc, nsent, buf, lpc, delivered>>
    PROVE  Stream' /\ inbox' \in [Dirs -> Bytes]
<1>1. ASSUME NEW d \in Dirs PROVE StreamAt(d)'
  <2>1. /\ delivered'[d] = delivered[d] /\ nsent'[d] = nsent[d] /\ Held(d)' = Held(d)
        /\ Up(d)' = Up(d) /\ inbox'[d] = IF Src(d) = s THEN <<>> ELSE inbox[d]
    BY DEF Held, Up
  <2>2. Dead(Src(d))' <=> (Dead(Src(d)) \/ Src(d) = s)
    BY DEF Dead
  <2>3. StreamAt(d)
    BY DEF IInv, Stream
  <2>4. CASE Src(d) = s
    <3>1. Piped(delivered[d], Held(d), <<>>, nsent[d], Up(d), TRUE)
      BY <2>3, DirTypes, PipedLose DEF IInv, StreamAt
    <3> QED
      BY <2>1, <2>2, <2>4, <3>1 DEF StreamAt, Piped
  <2>5. CASE Src(d) # s
    BY <2>1, <2>2, <2>3, <2>5, StreamKept
  <2> QED
    BY <2>4, <2>5
<1>2. <<>> \in Bytes /\ \A d \in Dirs : inbox[d] \in Bytes
  BY DirTypes DEF IInv, Bytes
<1>3. inbox' \in [Dirs -> Bytes]
  BY <1>2
<1> QED
  BY <1>1, <1>3 DEF Stream

-----------------------------------------------------------------------------
(* The steps of the peers, the caller and the closers *)

\* PeerSend keeps the invariant.
LEMMA PeerSendStep == ASSUME IInv, NEW e \in Dirs, PeerSend(e) PROVE IInv'
<1>1. /\ nsent[e] < MaxBytes /\ ~Dead(Src(e)) /\ nsent[e] \in Nat /\ nsent[e] + 1 \in 0..MaxBytes
      /\ nsent' = [nsent EXCEPT ![e] = nsent[e] + 1]
      /\ inbox' = [inbox EXCEPT ![e] = Append(inbox[e], nsent[e] + 1)]
      /\ UNCHANGED <<pc, conf, acc, fin, broken, loopVars, delivered, metric, ctxVars>>
  BY DirTypes, SizesAssumption DEF PeerSend, IInv
<1>2. /\ Append(inbox[e], nsent[e] + 1) \in Bytes
      /\ Piped(delivered[e], Held(e), Append(inbox[e], nsent[e] + 1), nsent[e] + 1, Up(e), Dead(Src(e)))
  BY <1>1, DirTypes, PipedSend DEF IInv, Stream, StreamAt
<1>3. /\ nsent' \in [Dirs -> 0..MaxBytes] /\ inbox' \in [Dirs -> Bytes]
      /\ nsent'[e] = nsent[e] + 1 /\ inbox'[e] = Append(inbox[e], nsent[e] + 1)
      /\ \A d \in Dirs \ {e} : nsent'[d] = nsent[d] /\ inbox'[d] = inbox[d]
  BY <1>1, <1>2 DEF IInv, TypeOK
<1>4. TypeOK' /\ Control' /\ Counted'
  BY <1>1, <1>3 DEF IInv, TypeOK, Control, Counted, loopVars, ctxVars
<1>5. ASSUME NEW d \in Dirs PROVE StreamAt(d)'
  <2>1. /\ delivered'[d] = delivered[d] /\ Held(d)' = Held(d) /\ Up(d)' = Up(d)
        /\ Dead(Src(d))' = Dead(Src(d))
    BY <1>1 DEF Held, Up, Dead, loopVars, ctxVars
  <2>2. CASE d = e
    BY <1>2, <1>3, <2>1, <2>2 DEF StreamAt
  <2>3. CASE d # e
    BY <1>3, <2>1, <2>3, StreamKept DEF IInv, Stream
  <2> QED
    BY <2>2, <2>3
<1> QED
  BY <1>4, <1>5 DEF IInv, Stream

\* So does a step that touches neither bytes nor program counters.
LEMMA QuietStep ==
    ASSUME IInv, fin' \subseteq Dirs, parent' \in BOOLEAN,
           UNCHANGED <<pc, conf, acc, nsent, broken, inbox, loopVars, delivered, metric, inner, closed>>
    PROVE  IInv'
<1>1. TypeOK' /\ Control' /\ Counted'
  BY DEF IInv, TypeOK, Control, Counted, loopVars
<1>2. ASSUME NEW d \in Dirs PROVE StreamAt(d)'
  BY DEF IInv, Stream, StreamAt, Held, Up, Dead, loopVars
<1> QED
  BY <1>1, <1>2 DEF IInv, Stream

\* A reset or a close of the socket s.
LEMMA DeathStep ==
    ASSUME IInv, NEW s \in Socks, broken' \cup closed' = broken \cup closed \cup {s},
           broken' \subseteq Socks, closed' \subseteq Socks,
           inbox' = [d \in Dirs |-> IF Src(d) = s THEN <<>> ELSE inbox[d]],
           UNCHANGED <<pc, conf, acc, nsent, fin, loopVars, delivered, metric, parent, inner>>
    PROVE  IInv'
<1>1. Stream' /\ inbox' \in [Dirs -> Bytes]
  BY LoseStep DEF loopVars
<1>2. TypeOK' /\ Control' /\ Counted'
  BY <1>1 DEF IInv, TypeOK, Control, Counted, loopVars
<1> QED
  BY <1>1, <1>2 DEF IInv

\* PeerReset, Closer and HandleClose keep the invariant.
LEMMA DeathSteps ==
    ASSUME IInv, (\E s \in Socks : PeerReset(s)) \/ Closer \/ HandleClose
    PROVE  IInv'
<1>0. broken \subseteq Socks /\ closed \subseteq Socks
  BY DEF IInv, TypeOK
<1>1. ASSUME NEW s \in Socks, PeerReset(s) PROVE IInv'
  <2>1. /\ broken' = broken \cup {s} /\ closed' = closed
        /\ inbox' = [d \in Dirs |-> IF Src(d) = s THEN <<>> ELSE inbox[d]]
        /\ UNCHANGED <<pc, conf, acc, nsent, fin, loopVars, delivered, metric, parent, inner>>
    BY <1>1 DEF PeerReset, ctxVars
  <2> QED
    BY <1>0, <2>1, DeathStep
<1>2. ASSUME Closer \/ HandleClose PROVE IInv'
  <2>1. PICK s \in Socks : CloseSock(s)
    BY <1>2 DEF Closer, HandleClose, Socks
  <2>2. /\ broken' = broken /\ closed' = closed \cup {s}
        /\ inbox' = [d \in Dirs |-> IF Src(d) = s THEN <<>> ELSE inbox[d]]
        /\ UNCHANGED <<pc, conf, acc, nsent, fin, loopVars, delivered, metric, parent, inner>>
    BY <1>2, <2>1 DEF Closer, HandleClose, CloseSock, peerVars
  <2> QED
    BY <1>0, <2>2, DeathStep
<1> QED
  BY <1>1, <1>2

\* What reading from a direction that is up makes of it.
LEMMA ReadFrom ==
    ASSUME IInv, NEW e \in Dirs, Up(e), NEW k \in Nat, k # 0, k <= Len(inbox[e])
    PROVE  /\ Held(e) \o Take(inbox[e], k) \in Bytes /\ Drop(inbox[e], k) \in Bytes
           /\ Piped(delivered[e], Held(e) \o Take(inbox[e], k), Drop(inbox[e], k), nsent[e],
                    Up(e), Dead(Src(e)))
<1> DEFINE g == delivered[e]
           b == Held(e)
           x == inbox[e]
           h == b \o Take(x, k)
           r == Drop(x, k)
<1>1. g \in Bytes /\ b \in Bytes /\ x \in Bytes /\ nsent[e] \in Nat
  BY DirTypes DEF IInv
<1>2. Piped(g, b, x, nsent[e], Up(e), Dead(Src(e))) /\ k <= Len(x)
  BY DEF IInv, Stream, StreamAt
<1> HIDE DEF g, b, x
<1>3. Len(g) \in Nat /\ Len(b) \in Nat /\ Len(x) \in Nat
  BY <1>1 DEF Bytes
<1>4. ~Dead(Src(e))
  <2>1. x # <<>>
    BY <1>2, <1>3
  <2> QED
    BY <1>2, <2>1 DEF Piped
<1>5. /\ Stretch(g, 0) /\ Len(g) <= nsent[e]
      /\ Stretch(b, Len(g)) /\ Stretch(x, Len(g) + Len(b))
      /\ Len(g) + Len(b) + Len(x) = nsent[e]
  BY <1>2, <1>4 DEF Piped
<1>6. /\ h \in Bytes /\ Len(h) = Len(b) + k /\ Stretch(h, Len(g))
      /\ r \in Bytes /\ Len(r) = Len(x) - k /\ Stretch(r, Len(g) + Len(b) + k)
  BY <1>1, <1>2, <1>5, PipedRead
<1> HIDE DEF h, r
<1>7. Len(g) + Len(h) = Len(g) + Len(b) + k /\ Len(g) + Len(h) + Len(r) = nsent[e]
  BY <1>1, <1>3, <1>5, <1>6
<1>8. Stretch(r, Len(g) + Len(h))
  BY <1>6, <1>7
<1>9. Piped(g, h, r, nsent[e], Up(e), Dead(Src(e)))
  BY <1>1, <1>4, <1>5, <1>6, <1>7, <1>8 DEF Piped
<1> QED
  BY <1>6, <1>9 DEF h, r, g, b, x

-----------------------------------------------------------------------------
(* The steps of the SNI phase *)

\* In the SNI phase both directions are up and the client's bytes are in acc.
LEMMA SniPhase ==
    ASSUME IInv, pc \in {"sni", "sniwrite"}
    PROVE  /\ \A d \in Dirs : lpc[d] = "off" /\ Up(d) /\ buf[d] = <<>>
           /\ Held("in") = acc /\ Held("out") = <<>>
           /\ \A d \in Dirs : metric[d] = Len(delivered[d])
  BY Ends DEF IInv, Control, Counted, Up, Held

\* ReadSNI keeps the invariant.
LEMMA ReadSNIStep == ASSUME IInv, ReadSNI PROVE IInv'
<1>1. PICK n \in 1..Least(SniRead, Len(inbox["in"])) :
         /\ acc' = acc \o Take(inbox["in"], n)
         /\ inbox' = [inbox EXCEPT !["in"] = Drop(inbox["in"], n)]
         /\ pc' = IF SniOver(Len(acc) + n) THEN "sniwrite" ELSE "sni"
  BY DEF ReadSNI
<1>2. /\ pc = "sni" /\ pc' \in {"sni", "sniwrite"} /\ "in" \in Dirs
      /\ UNCHANGED <<conf, peerVars, loopVars, delivered, metric, ctxVars>>
  BY <1>1, Ends DEF ReadSNI
<1>3. /\ \A d \in Dirs : lpc[d] = "off" /\ Up(d) /\ buf[d] = <<>>
      /\ Held("in") = acc
  BY <1>2, SniPhase
<1>4. n \in Nat /\ n # 0 /\ n <= Len(inbox["in"])
  <2>1. Len(inbox["in"]) \in Nat /\ SniRead \in Nat
    BY <1>2, DirTypes, SizesAssumption DEF IInv, Bytes
  <2> QED
    BY <2>1, <1>1 DEF Least
<1>5. /\ acc' \in Bytes /\ Drop(inbox["in"], n) \in Bytes
      /\ Piped(delivered["in"], acc', Drop(inbox["in"], n), nsent["in"], Up("in"), Dead(Src("in")))
  <2>1. acc' = Held("in") \o Take(inbox["in"], n) /\ Up("in")
    BY <1>1, <1>2, <1>3
  <2> QED
    BY <1>2, <1>4, <2>1, ReadFrom
<1>6. /\ inbox' \in [Dirs -> Bytes] /\ inbox'["in"] = Drop(inbox["in"], n)
      /\ inbox'["out"] = inbox["out"]
  BY <1>1, <1>5, Ends DEF IInv, TypeOK
<1>7. TypeOK' /\ Control' /\ Counted'
  <2>1. TypeOK'
    BY <1>2, <1>5, <1>6 DEF IInv, TypeOK, peerVars, loopVars, ctxVars
  <2>2. Control'
    BY <1>2, <1>3 DEF IInv, Control, loopVars
  <2>3. Counted'
    BY <1>2 DEF IInv, Counted, loopVars
  <2> QED
    BY <2>1, <2>2, <2>3
<1>8. \A d \in Dirs : /\ Up(d)' /\ Up(d) /\ (Dead(Src(d))' <=> Dead(Src(d)))
                      /\ delivered'[d] = delivered[d] /\ nsent'[d] = nsent[d]
  BY <1>2, <1>3 DEF Up, Dead, peerVars, loopVars, ctxVars
<1>9. Held("in")' = acc' /\ Held("out")' = Held("out")
  BY <1>2, <1>3, Ends DEF Held, loopVars
<1>10. StreamAt("in")'
  BY <1>2, <1>5, <1>6, <1>8, <1>9 DEF StreamAt, Piped
<1>11. StreamAt("out")'
  BY <1>6, <1>8, <1>9, Ends, StreamKept DEF IInv, Stream
<1> QED
  BY <1>7, <1>10, <1>11, Ends DEF IInv, Stream

\* ReadSNIError keeps the invariant.
LEMMA ReadSNIErrorStep == ASSUME IInv, ReadSNIError PROVE IInv'
<1>1. /\ pc = "sni" /\ pc' = "sniwrite"
      /\ UNCHANGED <<conf, acc, peerVars, inbox, loopVars, delivered, metric, ctxVars>>
  BY DEF ReadSNIError
<1>2. TypeOK' /\ Control' /\ Counted'
  BY <1>1 DEF IInv, TypeOK, Control, Counted, peerVars, loopVars, ctxVars
<1>3. ASSUME NEW d \in Dirs PROVE StreamAt(d)'
  <2>1. /\ delivered'[d] = delivered[d] /\ inbox'[d] = inbox[d] /\ nsent'[d] = nsent[d]
        /\ (Dead(Src(d))' <=> Dead(Src(d))) /\ Held(d)' = Held(d) /\ Up(d)
    BY <1>1, SniPhase DEF Dead, Held, peerVars, loopVars, ctxVars
  <2> QED
    BY <2>1, StreamKept DEF IInv, Stream
<1> QED
  BY <1>2, <1>3 DEF IInv, Stream

\* WriteAccumulated keeps the invariant.
LEMMA WriteAccumulatedStep == ASSUME IInv, WriteAccumulated PROVE IInv'
<1>1. /\ pc = "sniwrite" /\ pc' = "relay" /\ acc' = <<>> /\ "in" \in Dirs
      /\ delivered' = [delivered EXCEPT !["in"] = delivered["in"] \o acc]
      /\ metric' = [metric EXCEPT !["in"] = metric["in"] + Len(acc)]
      /\ lpc' = [d \in Dirs |-> "read"]
      /\ UNCHANGED <<conf, peerVars, inbox, buf, result, firstErr, ctxVars>>
  BY Ends DEF WriteAccumulated, StartLoops
<1>2. /\ \A d \in Dirs : Up(d) /\ buf[d] = <<>> /\ metric[d] = Len(delivered[d])
      /\ Held("in") = acc /\ Held("out") = <<>>
  BY <1>1, SniPhase
<1>3. /\ delivered["in"] \in Bytes /\ inbox["in"] \in Bytes /\ nsent["in"] \in Nat
      /\ nsent["in"] <= MaxBytes /\ Up("in") \in BOOLEAN /\ Dead(Src("in")) \in BOOLEAN
      /\ Len(delivered["in"]) \in Nat /\ result["in"] \in Nat
  BY <1>1, DirTypes DEF IInv
<1>4. acc \in Bytes /\ Len(acc) \in Nat /\ MaxBytes \in Nat
  BY SizesAssumption DEF IInv, TypeOK, Bytes
<1>5. LET g == delivered["in"] \o acc
      IN  /\ g \in Bytes /\ Len(g) = Len(delivered["in"]) + Len(acc)
          /\ Piped(g, <<>>, inbox["in"], nsent["in"], Up("in"), Dead(Src("in")))
  <2>1. Piped(delivered["in"], acc, inbox["in"], nsent["in"], Up("in"), Dead(Src("in")))
    BY <1>1, <1>2 DEF IInv, Stream, StreamAt
  <2> QED
    BY <1>1, <1>2, <1>3, <1>4, <2>1, PipedWrite
<1>6. /\ delivered' \in [Dirs -> Bytes] /\ delivered'["in"] = delivered["in"] \o acc
      /\ delivered'["out"] = delivered["out"]
  BY <1>1, <1>5, Ends DEF IInv, TypeOK
<1>7. Len(delivered'["in"]) <= nsent["in"] /\ Len(delivered'["in"]) = Len(delivered["in"]) + Len(acc)
  BY <1>5, <1>6 DEF Piped
<1>8. metric["in"] + Len(acc) \in 0..MaxBytes
  BY <1>1, <1>2, <1>3, <1>4, <1>7
<1>9. /\ metric' \in [Dirs -> 0..MaxBytes] /\ metric'["in"] = metric["in"] + Len(acc)
      /\ metric'["out"] = metric["out"]
  BY <1>1, <1>8, Ends DEF IInv, TypeOK
<1>10. TypeOK'
  <2>1. acc' \in Bytes /\ lpc' \in [Dirs -> {"off", "read", "write", "exit", "done"}]
    BY <1>1 DEF Bytes
  <2> QED
    BY <1>1, <1>6, <1>9, <2>1 DEF IInv, TypeOK, peerVars, ctxVars
<1>11. Control'
  BY <1>1, <1>2 DEF Control
<1>12. Counted'
  <2>1. \A d \in Dirs : /\ metric'[d] = Len(delivered'[d]) /\ result'[d] = result[d]
                        /\ metric[d] <= metric'[d] /\ metric[d] \in Nat /\ metric'[d] \in Nat
    BY <1>1, <1>2, <1>3, <1>4, <1>7, <1>6, <1>9, Ends, DirTypes DEF IInv
  <2>2. \A d \in Dirs : result[d] <= metric[d] /\ result[d] \in Nat
    BY DirTypes DEF IInv, Counted
  <2> QED
    BY <2>1, <2>2 DEF Counted
<1>13. \A d \in Dirs : /\ Up(d)' /\ Held(d)' = <<>> /\ (Dead(Src(d))' <=> Dead(Src(d)))
                       /\ inbox'[d] = inbox[d] /\ nsent'[d] = nsent[d]
  BY <1>1, <1>2 DEF Up, Held, Dead, peerVars, ctxVars
<1>14. StreamAt("in")'
  BY <1>1, <1>2, <1>5, <1>6, <1>13 DEF StreamAt, Piped
<1>15. StreamAt("out")'
  BY <1>2, <1>6, <1>13, Ends, StreamKept DEF IInv, Stream
<1> QED
  BY <1>10, <1>11, <1>12, <1>14, <1>15, Ends DEF IInv, Stream

\* WriteAccumulatedError keeps the invariant.
LEMMA WriteAccumulatedErrorStep == ASSUME IInv, WriteAccumulatedError PROVE IInv'
<1>1. /\ pc = "sniwrite" /\ pc' = "returned" /\ acc' = <<>> /\ "in" \in Dirs
      /\ UNCHANGED <<conf, peerVars, inbox, loopVars, metric, ctxVars>>
  BY Ends DEF WriteAccumulatedError
<1>0. acc \in Bytes /\ Len(acc) \in Nat
  BY DEF IInv, TypeOK, Bytes
<1>2. PICK n \in 0..Len(acc) :
         delivered' = [delivered EXCEPT !["in"] = delivered["in"] \o Take(acc, n)]
  <2>1. \E n \in 0..(Len(acc) - 1) :
           delivered' = [delivered EXCEPT !["in"] = delivered["in"] \o Take(acc, n)]
    BY DEF WriteAccumulatedError
  <2>2. \A m \in Nat : 0..(m - 1) \subseteq 0..m
    OBVIOUS
  <2> QED
    BY <1>0, <2>1, <2>2, Zenon
<1>3. /\ \A d \in Dirs : Up(d) /\ lpc[d] = "off" /\ buf[d] = <<>> /\ metric[d] = Len(delivered[d])
      /\ Held("in") = acc
  BY <1>1, SniPhase
<1>4. /\ delivered["in"] \in Bytes /\ inbox["in"] \in Bytes /\ nsent["in"] \in Nat
      /\ Up("in") \in BOOLEAN /\ Dead(Src("in")) \in BOOLEAN /\ Len(delivered["in"]) \in Nat
  BY <1>1, DirTypes DEF IInv
<1>5. acc \in Bytes /\ n \in 0..Len(acc) /\ n \in Nat
  BY <1>0, <1>2
<1>6. /\ delivered["in"] \o Take(acc, n) \in Bytes
      /\ Len(delivered["in"] \o Take(acc, n)) = Len(delivered["in"]) + n
      /\ Stretch(delivered["in"] \o Take(acc, n), 0) /\ Len(delivered["in"]) + n <= nsent["in"]
  <2>1. Piped(delivered["in"], acc, inbox["in"], nsent["in"], Up("in"), Dead(Src("in")))
    BY <1>1, <1>3 DEF IInv, Stream, StreamAt
  <2>2. /\ Stretch(delivered["in"], 0) /\ Stretch(acc, Len(delivered["in"]))
        /\ Len(delivered["in"]) + Len(acc) <= nsent["in"]
    <3>1. Len(acc) \in Nat /\ Len(inbox["in"]) \in Nat
      BY <1>4, <1>5 DEF Bytes
    <3>2. /\ Stretch(delivered["in"], 0) /\ Stretch(acc, Len(delivered["in"]))
          /\ Len(delivered["in"]) + Len(acc) + Len(inbox["in"]) <= nsent["in"]
      <4>1. Up("in")
        BY <1>1, <1>3
      <4> QED
        BY <2>1, <4>1 DEF Piped
    <3>3. \A a, b, c, m \in Nat : a + b + c <= m => a + b <= m
      OBVIOUS
    <3> QED
      BY <1>4, <3>1, <3>2, <3>3, Zenon
  <2> QED
    BY <1>4, <1>5, <2>2, PipedPart
<1>7. /\ delivered' \in [Dirs -> Bytes] /\ delivered'["in"] = delivered["in"] \o Take(acc, n)
      /\ delivered'["out"] = delivered["out"]
  BY <1>2, <1>6, Ends DEF IInv, TypeOK
<1>8. TypeOK'
  <2>1. acc' \in Bytes
    BY <1>1 DEF Bytes
  <2> QED
    BY <1>1, <1>7, <2>1 DEF IInv, TypeOK, peerVars, loopVars, ctxVars
<1>9. Control'
  BY <1>1, <1>3 DEF Control, loopVars
<1>10. Counted'
  <2>1. \A d \in Dirs : /\ lpc'[d] = "off" /\ metric'[d] = metric[d] /\ result'[d] = result[d]
                        /\ metric[d] <= Len(delivered'[d])
    BY <1>1, <1>3, <1>4, <1>5, <1>6, <1>7, Ends, DirTypes DEF IInv, loopVars
  <2> QED
    BY <1>1, <2>1 DEF IInv, Counted
<1>11. \A d \in Dirs : /\ ~Up(d)' /\ (Dead(Src(d))' <=> Dead(Src(d)))
                       /\ inbox'[d] = inbox[d] /\ nsent'[d] = nsent[d]
  BY <1>1 DEF Up, Dead, peerVars, ctxVars
<1>12. StreamAt("in")'
  <2>1. Dead(Src("in")) => inbox["in"] = <<>>
    BY <1>1 DEF IInv, Stream, StreamAt, Piped
  <2> QED
    BY <1>1, <1>6, <1>7, <1>11, <2>1 DEF StreamAt, Piped
<1>13. StreamAt("out")'
  BY <1>7, <1>11, Ends, StreamKept DEF IInv, Stream
<1> QED
  BY <1>8, <1>9, <1>10, <1>12, <1>13, Ends DEF IInv, Stream

-----------------------------------------------------------------------------
(* The steps of copyLoop *)

\* A loop that has not ended runs in Relay, and its direction is up.
LEMMA LoopPhase ==
    ASSUME IInv, NEW e \in Dirs, lpc[e] \in {"read", "write"}
    PROVE  /\ pc = "relay" /\ acc = <<>> /\ \A d \in Dirs : lpc[d] # "off"
           /\ Up(e) /\ Held(e) = buf[e] /\ metric[e] = Len(delivered[e])
           /\ lpc[e] = "read" => buf[e] = <<>>
<1>1. pc = "relay"
  BY DEF IInv, TypeOK, Control
<1>2. acc = <<>> /\ \A d \in Dirs : lpc[d] # "off"
  BY <1>1 DEF IInv, Control
<1>3. Up(e) /\ Held(e) = buf[e] /\ metric[e] = Len(delivered[e])
  BY <1>1, <1>2 DEF IInv, Counted, Up, Held
<1> QED
  BY <1>1, <1>2, <1>3 DEF IInv, Control

\* A step of one loop leaves the other direction alone.
LEMMA OtherLoop ==
    ASSUME IInv, NEW e \in Dirs, NEW d \in Dirs, d # e, NEW l, LoopGoto(e, l), lpc[e] # "off",
           delivered'[d] = delivered[d], inbox'[d] = inbox[d], buf'[d] = buf[d],
           UNCHANGED <<pc, acc, peerVars, ctxVars>>
    PROVE  StreamAt(d)'
<1>1. lpc'[d] = lpc[d]
  BY DEF IInv, TypeOK, LoopGoto
<1>2. /\ nsent'[d] = nsent[d] /\ (Dead(Src(d))' <=> Dead(Src(d)))
      /\ Up(d)' = Up(d) /\ Held(d)' = Held(d)
  BY <1>1 DEF Dead, Up, Held, peerVars, ctxVars
<1> QED
  BY <1>2, StreamKept DEF IInv, Stream

\* Read keeps the invariant.
LEMMA ReadStep == ASSUME IInv, NEW e \in Dirs, Read(e) PROVE IInv'
<1>1. /\ lpc[e] = "read" /\ LoopGoto(e, "write")
      /\ UNCHANGED <<pc, conf, acc, peerVars, result, firstErr, delivered, metric, ctxVars>>
  BY DEF Read
<1>2. PICK n \in 1..Least(BufSize, Len(inbox[e])) :
         /\ buf' = [buf EXCEPT ![e] = Take(inbox[e], n)]
         /\ inbox' = [inbox EXCEPT ![e] = Drop(inbox[e], n)]
  BY DEF Read
<1>3. /\ pc = "relay" /\ acc = <<>> /\ \A d \in Dirs : lpc[d] # "off"
      /\ Up(e) /\ Held(e) = buf[e] /\ buf[e] = <<>>
  BY <1>1, LoopPhase
<1>4. n \in Nat /\ n # 0 /\ n <= Len(inbox[e]) /\ n \in 0..Len(inbox[e])
  <2>1. Len(inbox[e]) \in Nat /\ BufSize \in Nat
    BY DirTypes, SizesAssumption DEF IInv, Bytes
  <2> QED
    BY <2>1, <1>2 DEF Least
<1>5. /\ Take(inbox[e], n) \in Bytes /\ Drop(inbox[e], n) \in Bytes
      /\ Piped(delivered[e], Take(inbox[e], n), Drop(inbox[e], n), nsent[e], Up(e), Dead(Src(e)))
  <2>1. Take(inbox[e], n) \in Bytes
    BY <1>4, TakeDrop, DirTypes DEF IInv
  <2>2. Take(inbox[e], n) = Held(e) \o Take(inbox[e], n)
    BY <1>3, <2>1, ConcatEmptySeq DEF Bytes
  <2> QED
    BY <1>3, <1>4, <2>2, ReadFrom
<1>6. /\ inbox' \in [Dirs -> Bytes] /\ inbox'[e] = Drop(inbox[e], n)
      /\ buf' \in [Dirs -> Bytes] /\ buf'[e] = Take(inbox[e], n)
      /\ \A d \in Dirs \ {e} : inbox'[d] = inbox[d] /\ buf'[d] = buf[d]
  BY <1>2, <1>5 DEF IInv, TypeOK
<1>7. /\ lpc' \in [Dirs -> {"off", "read", "write", "exit", "done"}] /\ lpc'[e] = "write"
      /\ \A d \in Dirs \ {e} : lpc'[d] = lpc[d]
  BY <1>1 DEF IInv, TypeOK, LoopGoto
<1>8. TypeOK'
  BY <1>1, <1>6, <1>7 DEF IInv, TypeOK, peerVars, ctxVars
<1>9. Control'
  <2>1. \A d \in Dirs : lpc'[d] # "write" => buf'[d] = <<>>
    BY <1>6, <1>7 DEF IInv, Control
  <2>2. \A d \in Dirs : lpc'[d] # "off"
    BY <1>3, <1>7
  <2> QED
    BY <1>1, <1>3, <2>1, <2>2 DEF Control
<1>10. Counted'
  BY <1>1, <1>3 DEF IInv, Counted
<1>11. StreamAt(e)'
  <2>1. /\ Up(e)' /\ Held(e)' = Take(inbox[e], n) /\ (Dead(Src(e))' <=> Dead(Src(e)))
        /\ delivered'[e] = delivered[e] /\ nsent'[e] = nsent[e]
    BY <1>1, <1>3, <1>6, <1>7 DEF Up, Held, Dead, peerVars, ctxVars
  <2> QED
    BY <1>3, <1>5, <1>6, <2>1 DEF StreamAt, Piped
<1>12. ASSUME NEW d \in Dirs, d # e PROVE StreamAt(d)'
  BY <1>1, <1>6, <1>12, OtherLoop
<1> QED
  BY <1>8, <1>9, <1>10, <1>11, <1>12 DEF IInv, Stream

\* ReadEnd, ReadError and Exit keep the invariant: the direction goes down, and
\* no byte moves.
LEMMA DownStep ==
    ASSUME IInv, NEW e \in Dirs, NEW l \in {"exit", "done"}, LoopGoto(e, l), firstErr' \in BOOLEAN,
           inner' \in BOOLEAN, lpc[e] \in {"read", "exit"},
           UNCHANGED <<pc, conf, acc, peerVars, inbox, buf, result, delivered, metric, parent, closed>>
    PROVE  IInv'
<1>1. /\ lpc' \in [Dirs -> {"off", "read", "write", "exit", "done"}] /\ lpc'[e] = l
      /\ \A d \in Dirs \ {e} : lpc'[d] = lpc[d]
  BY DEF IInv, TypeOK, LoopGoto
<1>2. TypeOK'
  BY <1>1 DEF IInv, TypeOK, peerVars
<1>3. pc = "relay" /\ acc = <<>> /\ \A d \in Dirs : lpc[d] # "off"
  BY DEF IInv, TypeOK, Control
<1>4. Control'
  <2>1. \A d \in Dirs : lpc'[d] # "write" => buf'[d] = <<>>
    BY <1>1 DEF IInv, Control
  <2>2. \A d \in Dirs : lpc'[d] # "off"
    BY <1>1, <1>3
  <2> QED
    BY <1>3, <2>1, <2>2 DEF Control
<1>5. Counted'
  BY <1>3 DEF IInv, Counted
<1>6. ASSUME NEW d \in Dirs PROVE StreamAt(d)'
  <2>1. Up(d)' => Up(d) /\ Held(d)' = Held(d)
    BY <1>1, <1>3 DEF Up, Held
  <2>2. /\ delivered'[d] = delivered[d] /\ inbox'[d] = inbox[d] /\ nsent'[d] = nsent[d]
        /\ (Dead(Src(d))' <=> Dead(Src(d)))
    BY DEF Dead, peerVars
  <2> QED
    BY <2>1, <2>2, StreamKept DEF IInv, Stream
<1> QED
  BY <1>2, <1>4, <1>5, <1>6 DEF IInv, Stream

\* What writing the first k held-back bytes of a loop makes of its direction.
LEMMA WriteTo ==
    ASSUME IInv, NEW e \in Dirs, lpc[e] = "write", NEW k \in 0..Len(buf[e])
    PROVE  /\ delivered[e] \o Take(buf[e], k) \in Bytes
           /\ Len(delivered[e] \o Take(buf[e], k)) = Len(delivered[e]) + k
           /\ Stretch(delivered[e] \o Take(buf[e], k), 0) /\ Len(delivered[e]) + k <= nsent[e]
<1>1. /\ delivered[e] \in Bytes /\ buf[e] \in Bytes /\ inbox[e] \in Bytes /\ nsent[e] \in Nat
  BY DirTypes DEF IInv
<1>2. Up(e) /\ Held(e) = buf[e]
  BY LoopPhase
<1>3. /\ Stretch(delivered[e], 0) /\ Stretch(buf[e], Len(delivered[e]))
      /\ Len(delivered[e]) + Len(buf[e]) + Len(inbox[e]) <= nsent[e]
  BY <1>2 DEF IInv, Stream, StreamAt, Piped
<1>4. Len(delivered[e]) \in Nat /\ Len(buf[e]) \in Nat /\ Len(inbox[e]) \in Nat
  BY <1>1 DEF Bytes
<1>5. Len(delivered[e]) + Len(buf[e]) <= nsent[e]
  <2>1. \A a, b, c, m \in Nat : a + b + c <= m => a + b <= m
    OBVIOUS
  <2> QED
    BY <1>1, <1>3, <1>4, <2>1, Zenon
<1> QED
  BY <1>1, <1>3, <1>5, PipedPart

\* The bytes a loop writes are typed and counted, and the other direction is
\* left alone.
LEMMA WrittenStep ==
    ASSUME IInv, NEW e \in Dirs, lpc[e] = "write", NEW k \in 0..Len(buf[e]), Written(e, k),
           NEW l \in {"read", "exit"}, LoopGoto(e, l), firstErr' \in BOOLEAN,
           UNCHANGED <<pc, conf, acc, peerVars, inbox, ctxVars>>
    PROVE  /\ TypeOK' /\ Control' /\ Counted' /\ \A d \in Dirs \ {e} : StreamAt(d)'
           /\ delivered'[e] = delivered[e] \o Take(buf[e], k) /\ buf'[e] = <<>> /\ lpc'[e] = l
<1>1. /\ delivered' = [delivered EXCEPT ![e] = delivered[e] \o Take(buf[e], k)]
      /\ metric' = [metric EXCEPT ![e] = metric[e] + k]
      /\ result' = [result EXCEPT ![e] = result[e] + k]
      /\ buf' = [buf EXCEPT ![e] = <<>>]
  BY DEF Written
<1>2. /\ delivered[e] \o Take(buf[e], k) \in Bytes
      /\ Len(delivered[e] \o Take(buf[e], k)) = Len(delivered[e]) + k
      /\ Len(delivered[e]) + k <= nsent[e]
  BY WriteTo
<1>3. /\ pc = "relay" /\ acc = <<>> /\ \A d \in Dirs : lpc[d] # "off"
      /\ metric[e] = Len(delivered[e])
  BY LoopPhase
<1>4. /\ k \in Nat /\ metric[e] \in Nat /\ result[e] \in Nat /\ result[e] <= metric[e]
      /\ nsent[e] \in Nat /\ nsent[e] <= MaxBytes /\ MaxBytes \in Nat
  <2>1. Len(buf[e]) \in Nat
    BY DirTypes DEF IInv, Bytes
  <2>2. k \in Nat
    BY <2>1
  <2> QED
    BY <2>2, DirTypes, SizesAssumption DEF IInv, Counted
<1>5. /\ metric[e] + k \in 0..MaxBytes /\ result[e] + k \in 0..MaxBytes
      /\ result[e] + k <= metric[e] + k
  BY <1>2, <1>3, <1>4
<1>6. /\ delivered' \in [Dirs -> Bytes] /\ delivered'[e] = delivered[e] \o Take(buf[e], k)
      /\ \A d \in Dirs \ {e} : delivered'[d] = delivered[d]
  BY <1>1, <1>2 DEF IInv, TypeOK
<1>7. /\ metric' \in [Dirs -> 0..MaxBytes] /\ metric'[e] = metric[e] + k
      /\ result' \in [Dirs -> 0..MaxBytes] /\ result'[e] = result[e] + k
      /\ \A d \in Dirs \ {e} : metric'[d] = metric[d] /\ result'[d] = result[d]
  BY <1>1, <1>5 DEF IInv, TypeOK
<1>8. /\ buf' \in [Dirs -> Bytes] /\ buf'[e] = <<>>
      /\ \A d \in Dirs \ {e} : buf'[d] = buf[d]
  <2>1. <<>> \in Bytes
    BY DEF Bytes
  <2> QED
    BY <1>1, <2>1 DEF IInv, TypeOK
<1>9. /\ lpc' \in [Dirs -> {"off", "read", "write", "exit", "done"}] /\ lpc'[e] = l
      /\ \A d \in Dirs \ {e} : lpc'[d] = lpc[d]
  BY DEF IInv, TypeOK, LoopGoto
<1>10. TypeOK'
  BY <1>6, <1>7, <1>8, <1>9 DEF IInv, TypeOK, peerVars, ctxVars
<1>11. Control'
  <2>1. \A d \in Dirs : lpc'[d] # "write" => buf'[d] = <<>>
    BY <1>8, <1>9 DEF IInv, Control
  <2>2. \A d \in Dirs : lpc'[d] # "off"
    BY <1>3, <1>9
  <2> QED
    BY <1>3, <2>1, <2>2 DEF Control
<1>12. Counted'
  <2>1. result'[e] <= metric'[e] /\ metric'[e] = Len(delivered'[e]) /\ metric'[e] \in Nat
    <3>1. metric[e] + k \in Nat /\ metric[e] + k = Len(delivered[e]) + k
      BY <1>3, <1>4
    <3> QED
      BY <1>2, <1>5, <1>6, <1>7, <3>1, Zenon
  <2>2. ASSUME NEW d \in Dirs \ {e}
        PROVE  /\ result'[d] <= metric'[d] /\ metric'[d] <= Len(delivered'[d])
               /\ metric'[d] = Len(delivered'[d])
    BY <1>3, <1>6, <1>7 DEF IInv, Counted
  <2>3. metric'[e] <= Len(delivered'[e])
    BY <2>1
  <2> QED
    BY <2>1, <2>2, <2>3 DEF Counted
<1>13. ASSUME NEW d \in Dirs \ {e} PROVE StreamAt(d)'
  BY <1>6, <1>8, OtherLoop
<1> QED
  BY <1>6, <1>8, <1>9, <1>10, <1>11, <1>12, <1>13

\* Write keeps the invariant.
LEMMA WriteStep == ASSUME IInv, NEW e \in Dirs, Write(e) PROVE IInv'
<1>1. /\ lpc[e] = "write" /\ Written(e, Len(buf[e])) /\ LoopGoto(e, "read")
      /\ UNCHANGED <<pc, conf, acc, peerVars, inbox, firstErr, ctxVars>>
  BY DEF Write
<1>2. Len(buf[e]) \in 0..Len(buf[e]) /\ firstErr' \in BOOLEAN /\ buf[e] \in Bytes
  <2>1. Len(buf[e]) \in Nat /\ buf[e] \in Bytes
    BY DirTypes DEF IInv, Bytes
  <2> QED
    BY <1>1, <2>1 DEF IInv, TypeOK
<1>3. /\ TypeOK' /\ Control' /\ Counted' /\ \A d \in Dirs \ {e} : StreamAt(d)'
      /\ delivered'[e] = delivered[e] \o Take(buf[e], Len(buf[e])) /\ buf'[e] = <<>>
      /\ lpc'[e] = "read"
  BY <1>1, <1>2, WrittenStep
<1>4. /\ pc = "relay" /\ Up(e) /\ Held(e) = buf[e]
  BY <1>1, LoopPhase
<1> DEFINE g == delivered'[e]
<1>5. /\ g \in Bytes /\ Len(g) = Len(delivered[e]) + Len(buf[e])
      /\ Stretch(g, 0) /\ Len(g) <= nsent[e]
  BY <1>1, <1>2, <1>3, WriteTo
<1>6. /\ Stretch(inbox[e], Len(g) + 0) /\ Len(g) + 0 + Len(inbox[e]) <= nsent[e]
      /\ ~Dead(Src(e)) => Len(g) + 0 + Len(inbox[e]) = nsent[e]
      /\ Dead(Src(e)) => inbox[e] = <<>>
  <2>1. /\ Stretch(inbox[e], Len(delivered[e]) + Len(buf[e]))
        /\ Len(delivered[e]) + Len(buf[e]) + Len(inbox[e]) <= nsent[e]
        /\ ~Dead(Src(e)) => Len(delivered[e]) + Len(buf[e]) + Len(inbox[e]) = nsent[e]
        /\ Dead(Src(e)) => inbox[e] = <<>>
    BY <1>4 DEF IInv, Stream, StreamAt, Piped
  <2> HIDE DEF g
  <2>2. Len(g) \in Nat
    <3>1. g \in Bytes
      BY <1>5
    <3> QED
      BY <3>1 DEF Bytes
  <2>3. \A m \in Nat : m + 0 = m
    OBVIOUS
  <2> QED
    BY <1>5, <2>1, <2>2, <2>3, Zenon
<1>7. StreamAt(e)'
  <2>1. /\ Up(e)' /\ Held(e)' = <<>> /\ (Dead(Src(e))' <=> Dead(Src(e)))
        /\ inbox'[e] = inbox[e] /\ nsent'[e] = nsent[e]
    BY <1>1, <1>3, <1>4 DEF Up, Held, Dead, peerVars, ctxVars
  <2>2. Len(<<>>) = 0 /\ Stretch(<<>>, Len(g))
    BY DEF Stretch
  <2> HIDE DEF g
  <2>3. Piped(g, <<>>, inbox[e], nsent[e], Up(e)', Dead(Src(e)))
    BY <1>5, <1>6, <2>1, <2>2 DEF Piped
  <2> QED
    BY <2>1, <2>3 DEF StreamAt, Piped, g
<1> QED
  BY <1>3, <1>7 DEF IInv, Stream

\* WriteError keeps the invariant.
LEMMA WriteErrorStep == ASSUME IInv, NEW e \in Dirs, WriteError(e) PROVE IInv'
<1>1. /\ lpc[e] = "write" /\ LoopGoto(e, "exit") /\ firstErr' \in BOOLEAN
      /\ UNCHANGED <<pc, conf, acc, peerVars, inbox, ctxVars>>
  BY DEF WriteError
<1>2. PICK k \in 0..Len(buf[e]) : Written(e, k)
  <2>1. \E k \in 0..(Len(buf[e]) - 1) : Written(e, k)
    BY DEF WriteError
  <2>2. Len(buf[e]) \in Nat
    BY DirTypes DEF IInv, Bytes
  <2>3. \A m \in Nat : 0..(m - 1) \subseteq 0..m
    OBVIOUS
  <2> QED
    BY <2>1, <2>2, <2>3, Zenon
<1>3. /\ TypeOK' /\ Control' /\ Counted' /\ \A d \in Dirs \ {e} : StreamAt(d)'
      /\ delivered'[e] = delivered[e] \o Take(buf[e], k) /\ lpc'[e] = "exit"
  BY <1>1, <1>2, WrittenStep
<1>4. /\ Stretch(delivered[e] \o Take(buf[e], k), 0) /\ Len(delivered[e]) + k <= nsent[e]
      /\ Len(delivered[e] \o Take(buf[e], k)) = Len(delivered[e]) + k
  BY <1>1, WriteTo
<1>5. StreamAt(e)'
  <2>1. Dead(Src(e)) => inbox[e] = <<>>
    BY DEF IInv, Stream, StreamAt, Piped
  <2>2. /\ ~Up(e)' /\ (Dead(Src(e))' <=> Dead(Src(e)))
        /\ inbox'[e] = inbox[e] /\ nsent'[e] = nsent[e]
    BY <1>1, <1>3 DEF Up, Dead, peerVars, ctxVars
  <2> QED
    BY <1>3, <1>4, <2>1, <2>2 DEF StreamAt, Piped
<1> QED
  BY <1>3, <1>5 DEF IInv, Stream

\* RelayReturn keeps the invariant: both directions are down.
LEMMA RelayReturnStep == ASSUME IInv, RelayReturn PROVE IInv'
<1>1. /\ pc = "relay" /\ pc' = "returned" /\ \A d \in Dirs : lpc[d] = "done"
      /\ UNCHANGED <<conf, acc, peerVars, inbox, loopVars, delivered, metric, ctxVars>>
  BY DEF RelayReturn
<1>2. TypeOK' /\ Control' /\ Counted'
  BY <1>1 DEF IInv, TypeOK, Control, Counted, peerVars, loopVars, ctxVars
<1>3. ASSUME NEW d \in Dirs PROVE StreamAt(d)'
  <2>1. /\ delivered'[d] = delivered[d] /\ inbox'[d] = inbox[d] /\ nsent'[d] = nsent[d]
        /\ (Dead(Src(d))' <=> Dead(Src(d))) /\ ~Up(d)'
    BY <1>1 DEF Dead, Up, peerVars, ctxVars
  <2> QED
    BY <2>1, StreamKept DEF IInv, Stream
<1> QED
  BY <1>2, <1>3 DEF IInv, Stream

-----------------------------------------------------------------------------
(* The theorems *)

\* A connection starts with nothing sent, held or delivered.
LEMMA InitInv == ASSUME Init PROVE IInv
<1>1. <<>> \in Bytes /\ Len(<<>>) = 0 /\ 0 \in 0..MaxBytes /\ 0 \in Nat
  BY SizesAssumption DEF Bytes
<1>2. TypeOK
  BY <1>1 DEF Init, TypeOK, LogSNI
<1>3. Control /\ Counted
  BY <1>1, SizesAssumption DEF Init, Control, Counted, LogSNI
<1>4. ASSUME NEW d \in Dirs PROVE StreamAt(d)
  <2>1. /\ delivered[d] = <<>> /\ inbox[d] = <<>> /\ Held(d) = <<>> /\ nsent[d] = 0
    BY DEF Init, Held
  <2>2. ~Dead(Src(d)) /\ \A m : Stretch(<<>>, m)
    BY <1>1 DEF Init, Dead, Stretch
  <2> QED
    BY <1>1, <2>1, <2>2 DEF StreamAt, Piped
<1> QED
  BY <1>2, <1>3, <1>4 DEF IInv, Stream

\* Every step keeps the invariant.
LEMMA NextInv == ASSUME IInv, [Next]_vars PROVE IInv'
<1>1. ASSUME NEW d \in Dirs, PeerFin(d) PROVE IInv'
  <2>1. /\ fin' \subseteq Dirs /\ parent' \in BOOLEAN
        /\ UNCHANGED <<pc, conf, acc, nsent, broken, inbox, loopVars, delivered, metric, inner, closed>>
    BY <1>1 DEF PeerFin, IInv, TypeOK, ctxVars
  <2> QED
    BY <2>1, QuietStep
<1>2. CASE Cancel
  <2>1. /\ fin' \subseteq Dirs /\ parent' \in BOOLEAN
        /\ UNCHANGED <<pc, conf, acc, nsent, broken, inbox, loopVars, delivered, metric, inner, closed>>
    BY <1>2 DEF Cancel, IInv, TypeOK, peerVars
  <2> QED
    BY <2>1, QuietStep
<1>3. CASE Over \/ UNCHANGED vars
  <2>1. /\ fin' \subseteq Dirs /\ parent' \in BOOLEAN
        /\ UNCHANGED <<pc, conf, acc, nsent, broken, inbox, loopVars, delivered, metric, inner, closed>>
    BY <1>3 DEF Over, vars, IInv, TypeOK, peerVars, ctxVars
  <2> QED
    BY <2>1, QuietStep
<1>4. ASSUME NEW d \in Dirs, LoopNext(d) PROVE IInv'
  <2>1. CASE ReadEnd(d) \/ ReadError(d)
    <3>1. /\ "exit" \in {"exit", "done"} /\ LoopGoto(d, "exit") /\ firstErr' \in BOOLEAN
          /\ inner' \in BOOLEAN /\ lpc[d] \in {"read", "exit"}
          /\ UNCHANGED <<pc, conf, acc, peerVars, inbox, buf, result, delivered, metric, parent, closed>>
      BY <2>1 DEF ReadEnd, ReadError, IInv, TypeOK, ctxVars
    <3> QED
      BY <3>1, DownStep
  <2>2. CASE Exit(d)
    <3>1. /\ "done" \in {"exit", "done"} /\ LoopGoto(d, "done") /\ firstErr' \in BOOLEAN
          /\ inner' \in BOOLEAN /\ lpc[d] \in {"read", "exit"}
          /\ UNCHANGED <<pc, conf, acc, peerVars, inbox, buf, result, delivered, metric, parent, closed>>
      BY <2>2 DEF Exit, IInv, TypeOK
    <3> QED
      BY <3>1, DownStep
  <2> QED
    BY <1>4, <2>1, <2>2, ReadStep, WriteStep, WriteErrorStep DEF LoopNext
<1>5. CASE SniNext
  BY <1>5, ReadSNIStep, ReadSNIErrorStep, WriteAccumulatedStep, WriteAccumulatedErrorStep DEF SniNext
<1> QED
  BY <1>1, <1>2, <1>3, <1>4, <1>5, PeerSendStep, DeathSteps, RelayReturnStep DEF Next

\* IInv is an invariant of the relay.
THEOREM Invariance == Spec => []IInv
  BY InitInv, NextInv, PTL DEF Spec

\* Every variable keeps its type: in particular no counter exceeds what the
\* peers have sent.
THEOREM TypeCorrect == Spec => []TypeOK
<1>1. IInv => TypeOK
  BY DEF IInv
<1> QED
  BY <1>1, Invariance, PTL

\* The bytes reported to onBytesIn and onBytesOut never exceed those delivered,
\* and match them once a loop has nothing in flight, whatever the sizes of the
\* buffers and the order of reads, short writes, resets and closes.
THEOREM BytesAreCounted == Spec => []BytesCounted
<1>1. IInv => BytesCounted
  BY DEF IInv, Counted, BytesCounted
<1> QED
  BY <1>1, Invariance, PTL

-----------------------------------------------------------------------------
(* Each direction implements BytePipe *)

\* What a peer has sent, as a sequence.
LEMMA SentSeq ==
    ASSUME NEW m \in 0..MaxBytes, NEW t, t = [i \in 1..m |-> i]
    PROVE  t \in Bytes /\ Len(t) = m /\ \A i \in 1..m : t[i] = i
<1>1. m \in Nat /\ t \in [1..m -> 1..MaxBytes]
  BY SizesAssumption
<1>2. DOMAIN t = 1..m /\ \A i \in 1..m : t[i] = i
  OBVIOUS
<1>3. t \in Seq(1..MaxBytes)
  BY <1>1, SeqDef
<1>4. Len(t) = m
  BY <1>1, <1>2, <1>3, LenProperties
<1> QED
  BY <1>2, <1>3, <1>4 DEF Bytes

\* A stretch from the beginning is a prefix of what was sent.
LEMMA IsPrefix ==
    ASSUME NEW s \in Bytes, Stretch(s, 0), NEW t \in Bytes, NEW n \in Nat, Len(t) = n, Len(s) <= n,
           \A i \in 1..n : t[i] = i
    PROVE  SubSeq(t, 1, Len(s)) = s
<1>1. Len(s) \in Nat /\ Len(s) \in 0..Len(t)
  BY DEF Bytes
<1>2. /\ Take(t, Len(s)) \in Bytes /\ Len(Take(t, Len(s))) = Len(s)
      /\ \A i \in 1..Len(s) : Take(t, Len(s))[i] = t[i]
  BY <1>1, TakeDrop
<1>3. \A i \in 1..Len(s) : t[i] = i /\ s[i] = i
  BY <1>1 DEF Stretch
<1>4. \A i \in 1..Len(s) : Take(t, Len(s))[i] = s[i]
  BY <1>2, <1>3
<1>5. Take(t, Len(s)) \in Seq(1..MaxBytes) /\ s \in Seq(1..MaxBytes)
  BY <1>2 DEF Bytes
<1>6. Take(t, Len(s)) = s
  BY <1>2, <1>4, <1>5, SeqEqual
<1> QED
  BY <1>6 DEF Take

\* What a step of the relay does to one direction: its peer sends a byte, or it
\* delivers while it is up, perhaps going down, or it is left alone.
LEMMA DirStep ==
    ASSUME IInv, IInv', [Next]_vars, NEW d \in Dirs
    PROVE  \/ nsent'[d] = nsent[d] + 1 /\ delivered'[d] = delivered[d] /\ Up(d)' = Up(d)
           \/ nsent'[d] = nsent[d] /\ delivered'[d] = delivered[d] /\ Up(d)' = Up(d)
           \/ nsent'[d] = nsent[d] /\ Up(d) /\ Len(delivered[d]) <= Len(delivered'[d])
<1> DEFINE Pushes == nsent'[d] = nsent[d] + 1 /\ delivered'[d] = delivered[d] /\ Up(d)' = Up(d)
           Stutters == nsent'[d] = nsent[d] /\ delivered'[d] = delivered[d] /\ Up(d)' = Up(d)
           Delivers == nsent'[d] = nsent[d] /\ Up(d) /\ Len(delivered[d]) <= Len(delivered'[d])
<1> SUFFICES Pushes \/ Stutters \/ Delivers
  OBVIOUS
<1>0. /\ delivered \in [Dirs -> Bytes] /\ nsent \in [Dirs -> 0..MaxBytes] /\ "in" \in Dirs
      /\ lpc \in [Dirs -> {"off", "read", "write", "exit", "done"}] /\ Len(delivered[d]) \in Nat
      /\ metric \in [Dirs -> 0..MaxBytes] /\ metric[d] \in Nat /\ metric'[d] \in Nat
      /\ Len(delivered'[d]) \in Nat /\ metric'[d] <= Len(delivered'[d])
  <2>1. Len(delivered'[d]) \in Nat /\ metric'[d] \in Nat
    <3>1. delivered'[d] \in Bytes /\ metric'[d] \in 0..MaxBytes /\ MaxBytes \in Nat
      BY SizesAssumption DEF IInv, TypeOK
    <3>2. delivered'[d] \in Bytes
      BY <3>1
    <3> QED
      BY <3>1, <3>2 DEF Bytes
  <2> QED
    BY <2>1, DirTypes, Ends DEF IInv, TypeOK, Counted
<1>1. ASSUME NEW e \in Dirs, PeerSend(e) PROVE Pushes \/ Stutters
  <2>1. /\ nsent' = [nsent EXCEPT ![e] = nsent[e] + 1] /\ UNCHANGED <<pc, lpc, delivered>>
    BY <1>1 DEF PeerSend, loopVars
  <2>2. nsent'[d] = nsent[d] + 1 \/ nsent'[d] = nsent[d]
    BY <1>0, <2>1
  <2> QED
    BY <2>1, <2>2 DEF Up
<1>2. ASSUME UNCHANGED <<pc, nsent, lpc, delivered>> PROVE Stutters
  BY <1>2 DEF Up
<1>3. ASSUME NEW e \in Dirs, PeerFin(e) PROVE Stutters
  BY <1>2, <1>3 DEF PeerFin, loopVars
<1>4. ASSUME (\E s \in Socks : PeerReset(s)) \/ Closer \/ HandleClose \/ Cancel PROVE Stutters
  BY <1>2, <1>4 DEF PeerReset, Closer, HandleClose, Cancel, loopVars, peerVars
<1>5. ASSUME Over \/ UNCHANGED vars PROVE Stutters
  BY <1>2, <1>5 DEF Over, vars, loopVars, peerVars
<1>6. CASE ReadSNI \/ ReadSNIError
  <2>1. UNCHANGED <<nsent, lpc, delivered>> /\ pc # "returned" /\ pc' # "returned"
    BY <1>6 DEF ReadSNI, ReadSNIError, loopVars, peerVars
  <2> QED
    BY <2>1 DEF Up
<1>7. CASE WriteAccumulated \/ WriteAccumulatedError
  <2>1. pc = "sniwrite" /\ UNCHANGED nsent
    BY <1>7 DEF WriteAccumulated, WriteAccumulatedError, peerVars
  <2>2. Up(d) /\ metric[d] = Len(delivered[d])
    BY <2>1, SniPhase
  <2>3. metric[d] <= metric'[d]
    <3>1. Len(acc) \in Nat
      BY DEF IInv, TypeOK, Bytes
    <3>2. metric' = [metric EXCEPT !["in"] = metric["in"] + Len(acc)] \/ metric' = metric
      BY <1>7 DEF WriteAccumulated, WriteAccumulatedError
    <3> QED
      BY <1>0, <3>1, <3>2
  <2>4. \A a, b, c \in Nat : a <= b /\ b <= c => a <= c
    OBVIOUS
  <2>5. Len(delivered[d]) <= Len(delivered'[d])
    BY <1>0, <2>2, <2>3, <2>4, Zenon
  <2> QED
    BY <2>1, <2>2, <2>5
<1>8. ASSUME NEW e \in Dirs, Write(e) \/ WriteError(e) PROVE Stutters \/ Delivers
  <2>1. PICK n \in Nat : Written(e, n)
    <3>1. Len(buf[e]) \in Nat
      BY DirTypes DEF IInv, Bytes
    <3>2. \A m \in Nat : m \in Nat /\ 0..(m - 1) \subseteq Nat
      OBVIOUS
    <3>3. Written(e, Len(buf[e])) \/ \E n \in 0..(Len(buf[e]) - 1) : Written(e, n)
      BY <1>8 DEF Write, WriteError
    <3> QED
      BY <3>1, <3>2, <3>3, Zenon
  <2>2. /\ lpc[e] = "write" /\ UNCHANGED <<pc, nsent>>
        /\ (lpc' = [lpc EXCEPT ![e] = "read"] \/ lpc' = [lpc EXCEPT ![e] = "exit"])
    BY <1>8 DEF Write, WriteError, LoopGoto, peerVars
  <2>3. CASE d = e
    <3>1. Up(d) /\ metric[d] = Len(delivered[d])
      BY <2>2, <2>3, LoopPhase
    <3>2. metric'[d] = metric[d] + n
      BY <1>0, <2>1, <2>3 DEF Written
    <3>3. metric[d] <= metric'[d]
      BY <1>0, <3>2
    <3>4. \A a, b, c \in Nat : a <= b /\ b <= c => a <= c
      OBVIOUS
    <3>5. Len(delivered[d]) <= Len(delivered'[d])
      BY <1>0, <3>1, <3>3, <3>4, Zenon
    <3> QED
      BY <2>2, <3>1, <3>5
  <2>4. CASE d # e
    <3>1. delivered'[d] = delivered[d] /\ lpc'[d] = lpc[d]
      BY <1>0, <2>1, <2>2, <2>4 DEF Written
    <3> QED
      BY <2>2, <3>1 DEF Up
  <2> QED
    BY <2>3, <2>4
<1>9. ASSUME NEW e \in Dirs, Read(e) \/ Exit(e) PROVE Stutters
  <2>1. /\ UNCHANGED <<pc, nsent, delivered>>
        /\ \/ lpc[e] = "read" /\ lpc' = [lpc EXCEPT ![e] = "write"]
           \/ lpc[e] = "exit" /\ lpc' = [lpc EXCEPT ![e] = "done"]
    BY <1>9 DEF Read, Exit, LoopGoto, peerVars
  <2>2. lpc[d] \in {"off", "read", "write"} <=> lpc'[d] \in {"off", "read", "write"}
    BY <1>0, <2>1
  <2>3. Up(d)' = Up(d)
    BY <2>1, <2>2 DEF Up
  <2> QED
    BY <2>1, <2>3
<1>10. ASSUME NEW e \in Dirs, ReadEnd(e) \/ ReadError(e) PROVE Stutters \/ Delivers
  <2>1. UNCHANGED <<pc, nsent, delivered>> /\ lpc[e] = "read" /\ lpc' = [lpc EXCEPT ![e] = "exit"]
    BY <1>10 DEF ReadEnd, ReadError, LoopGoto, peerVars
  <2>2. CASE d = e
    <3>1. Up(d)
      BY <2>1, <2>2, LoopPhase
    <3>2. Len(delivered[d]) <= Len(delivered'[d])
      BY <1>0, <2>1
    <3> QED
      BY <2>1, <3>1, <3>2
  <2>3. CASE d # e
    <3>1. lpc'[d] = lpc[d]
      BY <1>0, <2>1, <2>3
    <3> QED
      BY <2>1, <3>1 DEF Up
  <2> QED
    BY <2>2, <2>3
<1>11. CASE RelayReturn
  <2>1. UNCHANGED <<nsent, delivered, lpc>> /\ lpc[d] = "done"
    BY <1>11 DEF RelayReturn, loopVars, peerVars
  <2> QED
    BY <2>1 DEF Up
<1> HIDE DEF Pushes, Stutters, Delivers
<1> QED
  BY <1>1, <1>3, <1>4, <1>5, <1>6, <1>7, <1>8, <1>9, <1>10, <1>11 DEF Next, SniNext, LoopNext

\* The three kinds of step are steps of BytePipe.
LEMMA PipeStep ==
    ASSUME IInv, IInv', [Next]_vars, NEW d \in Dirs
    PROVE  \/ /\ Len(Sent(d)') = Len(Sent(d)) + 1 /\ SubSeq(Sent(d)', 1, Len(Sent(d))) = Sent(d)
              /\ delivered'[d] = delivered[d] /\ Up(d)' = Up(d)
           \/ Sent(d)' = Sent(d) /\ delivered'[d] = delivered[d] /\ Up(d)' = Up(d)
           \/ /\ Up(d)
              /\ \E n \in Len(delivered[d])..Len(Sent(d)) : delivered'[d] = SubSeq(Sent(d), 1, n)
              /\ Up(d)' \in BOOLEAN
              /\ Sent(d)' = Sent(d)
<1>1. /\ Sent(d) \in Bytes /\ Len(Sent(d)) = nsent[d] /\ \A i \in 1..nsent[d] : Sent(d)[i] = i
      /\ nsent[d] \in Nat
  <2>1. nsent[d] \in 0..MaxBytes /\ Sent(d) = [i \in 1..nsent[d] |-> i]
    BY DEF IInv, TypeOK, Sent
  <2> QED
    BY <2>1, SentSeq, DirTypes DEF IInv
<1>2. /\ Sent(d)' \in Bytes /\ Len(Sent(d)') = nsent'[d] /\ \A i \in 1..nsent'[d] : Sent(d)'[i] = i
      /\ nsent'[d] \in Nat /\ delivered'[d] \in Bytes /\ Stretch(delivered'[d], 0)
      /\ Len(delivered'[d]) <= nsent'[d]
  <2>1. /\ nsent'[d] \in 0..MaxBytes /\ Sent(d)' = [i \in 1..nsent'[d] |-> i]
        /\ delivered'[d] \in Bytes
    BY DEF IInv, TypeOK, Sent
  <2>2. Stretch(delivered'[d], 0) /\ Len(delivered'[d]) <= nsent'[d]
    BY DEF IInv, Stream, StreamAt, Piped
  <2>3. nsent'[d] \in Nat
    BY <2>1, SizesAssumption
  <2> QED
    BY <2>1, <2>2, <2>3, SentSeq
<1>3. CASE nsent'[d] = nsent[d] + 1 /\ delivered'[d] = delivered[d] /\ Up(d)' = Up(d)
  <2>1. Stretch(Sent(d), 0) /\ nsent[d] <= nsent'[d]
    BY <1>1, <1>3 DEF Stretch
  <2>2. SubSeq(Sent(d)', 1, Len(Sent(d))) = Sent(d)
    BY <1>1, <1>2, <2>1, IsPrefix
  <2> QED
    BY <1>1, <1>2, <1>3, <2>2
<1>4. ASSUME nsent'[d] = nsent[d] PROVE Sent(d)' = Sent(d)
  BY <1>4 DEF Sent
<1>5. CASE nsent'[d] = nsent[d] /\ Up(d) /\ Len(delivered[d]) <= Len(delivered'[d])
  <2>1. SubSeq(Sent(d), 1, Len(delivered'[d])) = delivered'[d]
    BY <1>1, <1>2, <1>5, IsPrefix
  <2>2. Len(delivered[d]) \in Nat /\ Len(delivered'[d]) \in Nat
    BY <1>2, DirTypes DEF IInv, Bytes
  <2>3. Len(delivered'[d]) \in Len(delivered[d])..Len(Sent(d))
    BY <1>1, <1>2, <1>5, <2>2
  <2>4. Up(d)' \in BOOLEAN
    BY DEF Up
  <2> QED
    BY <1>4, <1>5, <2>1, <2>3, <2>4
<1> QED
  BY <1>3, <1>4, <1>5, DirStep

\* Initially nothing has been sent.
LEMMA PipeInit == ASSUME Init, NEW d \in Dirs PROVE Sent(d) = <<>> /\ delivered[d] = <<>> /\ Up(d) = TRUE
<1>1. /\ nsent[d] = 0 /\ delivered[d] = <<>>
  BY DEF Init
<1>2. Sent(d) = <<>>
  BY <1>1 DEF Sent
<1>3. Up(d) = TRUE
  BY DEF Init, Up, LogSNI
<1> QED
  BY <1>1, <1>2, <1>3

\* RelayWithSNI and the two copy loops implement a byte pipe in each direction:
\* whatever the buffer sizes, the receiver gets a prefix of what was sent, in
\* order and without repetition, and nothing once its direction is down.
THEOREM RelayIsTwoPipes == Spec => BothPipes
<1>1. Init => InPipe!Init /\ OutPipe!Init
  BY PipeInit, Ends DEF InPipe!Init, OutPipe!Init
<1>2. IInv /\ IInv' /\ [Next]_vars => [InPipe!Next]_InPipe!vars
  BY PipeStep, Ends DEF InPipe!Next, InPipe!Push, InPipe!Deliver, InPipe!vars
<1>3. IInv /\ IInv' /\ [Next]_vars => [OutPipe!Next]_OutPipe!vars
  BY PipeStep, Ends DEF OutPipe!Next, OutPipe!Push, OutPipe!Deliver, OutPipe!vars
<1> QED
  BY <1>1, <1>2, <1>3, Invariance, PTL DEF Spec, BothPipes, InPipe!Spec, OutPipe!Spec
=============================================================================
