--------------------------- MODULE InjectionProofs ---------------------------
(***************************************************************************)
(* Proofs about Injection for any sequence space, any odd checksum space,  *)
(* any payload and fragment size and any receive window.                   *)
(***************************************************************************)
EXTENDS Injection, SequenceTheorems, TLAPS

-----------------------------------------------------------------------------
(* Arithmetic modulo the sequence space *)

\* The remainder of a number within one turn.
LEMMA Within ==
    ASSUME NEW S \in Nat \ {0}, NEW x \in 0..(S - 1)
    PROVE  x % S = x
OBVIOUS

\* The remainder of a number one turn above.
LEMMA Above ==
    ASSUME NEW S \in Nat \ {0}, NEW x \in S..(2 * S - 1)
    PROVE  x % S = x - S
OBVIOUS

\* The remainder of a number one turn below.
LEMMA Under ==
    ASSUME NEW S \in Nat \ {0}, NEW x \in (-S)..(-1)
    PROVE  x % S = x + S
OBVIOUS

\* Two advances that together stay within one turn are one advance.
LEMMA AdvanceTwice ==
    ASSUME NEW S \in Nat \ {0}, NEW f \in 0..(S - 1), NEW a \in Nat, NEW b \in Nat, a + b <= S
    PROVE  (((f + a) % S) + b) % S = (f + a + b) % S
<1>1. CASE f + a < S
  <2>1. f + a \in 0..(S - 1)
    BY <1>1
  <2>2. (f + a) % S = f + a
    BY <2>1, Within
  <2> QED
    BY <2>2
<1>2. CASE f + a >= S
  <2>1. f + a \in S..(2 * S - 1) /\ f + a - S + b \in 0..(S - 1) /\ f + a + b \in S..(2 * S - 1)
    BY <1>2
  <2>2. (f + a) % S = f + a - S
    BY <2>1, Above
  <2>3. (f + a - S + b) % S = f + a - S + b
    BY <2>1, Within
  <2>4. (f + a + b) % S = f + a + b - S
    BY <2>1, Above
  <2> QED
    BY <2>2, <2>3, <2>4
<1> QED
  BY <1>1, <1>2

\* How far an advance of at most one turn has gone.
LEMMA Advance ==
    ASSUME NEW S \in Nat \ {0}, NEW f \in 0..(S - 1), NEW a \in 0..S
    PROVE  (((f + a) % S) - f) % S = a % S
<1>1. CASE f + a < S
  <2>1. f + a \in 0..(S - 1)
    BY <1>1
  <2>2. (f + a) % S = f + a
    BY <2>1, Within
  <2> QED
    BY <2>2
<1>2. CASE f + a >= S
  <2>1. f + a \in S..(2 * S - 1)
    BY <1>2
  <2>2. (f + a) % S = f + a - S
    BY <2>1, Above
  <2>3. (a - S) % S = a % S
    <3>1. CASE a = S
      <4>1. a \in S..(2 * S - 1) /\ a - S \in 0..(S - 1)
        BY <3>1
      <4>2. a % S = a - S
        BY <4>1, Above
      <4>3. (a - S) % S = a - S
        BY <4>1, Within
      <4> QED
        BY <4>2, <4>3
    <3>2. CASE a < S
      <4>1. a \in 0..(S - 1) /\ a - S \in (-S)..(-1)
        BY <3>2
      <4>2. a % S = a
        BY <4>1, Within
      <4>3. (a - S) % S = a - S + S
        BY <4>1, Under
      <4> QED
        BY <4>2, <4>3
    <3> QED
      BY <3>1, <3>2
  <2>4. f + a - S - f = a - S
    OBVIOUS
  <2> QED
    BY <2>2, <2>3, <2>4
<1> QED
  BY <1>1, <1>2

\* Where a payload of length n starts that ends just below the stream, whose
\* first byte has number s + 1.
LEMMA Start ==
    ASSUME NEW S \in Nat \ {0}, NEW s \in 0..(S - 1), NEW n \in 1..S
    PROVE  \/ n <= s + 1 /\ (s + 1 - n) % S = s + 1 - n
           \/ n > s + 1 /\ (s + 1 - n) % S = s + 1 - n + S
<1>1. CASE n <= s + 1
  <2>1. s + 1 - n \in 0..(S - 1)
    BY <1>1
  <2> QED
    BY <1>1, <2>1, Within
<1>2. CASE n > s + 1
  <2>1. s + 1 - n \in (-S)..(-1)
    BY <1>2
  <2> QED
    BY <1>2, <2>1, Under
<1> QED
  BY <1>1, <1>2

\* The number m places below another one, given up to a turn of the space.
LEMMA Backward ==
    ASSUME NEW S \in Nat \ {0}, NEW m \in 1..S, NEW x \in Int, x = -m \/ x = S - m
    PROVE  x % S = S - m
<1>1. CASE x = -m
  <2>1. x \in (-S)..(-1)
    BY <1>1
  <2>2. x % S = x + S
    BY <2>1, Under
  <2> QED
    BY <1>1, <2>2
<1>2. CASE x = S - m
  <2>1. x \in 0..(S - 1)
    BY <1>2
  <2>2. x % S = x
    BY <2>1, Within
  <2> QED
    BY <1>2, <2>2
<1> QED
  BY <1>1, <1>2

-----------------------------------------------------------------------------
(* The inductive invariant *)

\* Bytes sent so far.
Offset == length - rest

\* The run is as far as its segments say: cur is the first number not sent, and
\* only fragment pauses with a part sent.
Progress ==
    /\ cur = (FirstSeq + Offset) % Seqs
    /\ Len(sent) <= Offset /\ (Len(sent) = 0 => Offset = 0)
    /\ Len(sent) > 0 => cur = (sent[Len(sent)].seq + sent[Len(sent)].len) % Seqs
    /\ ok = 1 <=> rest = 0
    /\ pc # "end" => ok = 0 /\ fail = 0
    /\ strategy # "fragment" => rest \in {0, length}

\* Every segment is a part of the payload, with the headers of its strategy.
SegmentOK(s) ==
    /\ \E o \in 0..length : o + s.len <= length /\ s.seq = (FirstSeq + o) % Seqs
    /\ s.ttl = 1 <=> strategy = "desync_ttl"
    /\ s.right \in Checksums /\ s.sum = SumSent(s.right)

SegmentsOK == \A i \in 1..Len(sent) : SegmentOK(sent[i])

IInv == TypeOK /\ Progress /\ SegmentsOK /\ Tiles

\* The sequence space holds any payload and its numbers start within it.
LEMMA Space ==
    ASSUME TypeOK
    PROVE  /\ Seqs \in Nat \ {0} /\ length \in 1..Seqs /\ length + Window <= Seqs
           /\ FirstSeq \in 0..(Seqs - 1) /\ (synSeq + 1) % Seqs \in 0..(Seqs - 1)
<1>1. Seqs \in Nat \ {0} /\ length \in 1..Seqs /\ length + Window <= Seqs
  BY SeqsAssumption, LenAssumption, SpaceAssumption DEF TypeOK
<1>2. \A x \in Int : x % Seqs \in 0..(Seqs - 1)
  BY <1>1
<1>3. synSeq + 1 \in Int /\ synSeq + 1 - length \in Int
  BY <1>1 DEF TypeOK
<1> QED
  BY <1>1, <1>2, <1>3 DEF FirstSeq, BelowSyn

\* chunkBytes always has something to send and never more than is left.
LEMMA NextLenOK ==
    ASSUME TypeOK, Progress, pc # "end"
    PROVE  NextLen \in 1..rest
<1>1. rest \in 1..length /\ length \in Nat /\ fragSize \in Nat
  BY LenAssumption DEF TypeOK, Progress
<1>2. Size \in Nat
  BY <1>1 DEF Size, SplitPoint
<1>3. Chunk \in 1..rest
  BY <1>1, <1>2 DEF Chunk
<1> QED
  BY <1>1, <1>3 DEF NextLen, Progress

\* The invariant holds at the start.
LEMMA IInvInit == Init => IInv
<1> SUFFICES ASSUME Init PROVE IInv
  OBVIOUS
<1>1. /\ length \in 1..MaxLen /\ synSeq \in 0..(Seqs - 1)
      /\ rest = length /\ sent = <<>> /\ Len(sent) = 0 /\ ok = 0 /\ fail = 0 /\ pc = "delay"
  BY DEF Init, getTCPSeqNums
<1>2. Seqs \in Nat \ {0} /\ length \in Nat \ {0} /\ synSeq \in Nat
  BY <1>1, SeqsAssumption, LenAssumption, SpaceAssumption
<1>3. FirstSeq \in 0..(Seqs - 1)
  <2>1. \A x \in Int : x % Seqs \in 0..(Seqs - 1)
    BY <1>2
  <2>2. synSeq + 1 \in Int /\ synSeq + 1 - length \in Int
    BY <1>2
  <2> QED
    BY <2>1, <2>2 DEF FirstSeq, BelowSyn
<1>4. TypeOK
  <2>1. sent \in Seq(Segments) /\ Len(sent) <= length
    BY <1>1, <1>2
  <2>2. rest \in 0..length /\ cur \in 0..(Seqs - 1) /\ ok \in 0..1 /\ fail \in 0..1
    BY <1>1, <1>2, <1>3 DEF Init
  <2> QED
    BY <1>1, <2>1, <2>2 DEF Init, TypeOK
<1>5. Progress
  <2>1. FirstSeq % Seqs = FirstSeq /\ FirstSeq + 0 = FirstSeq
    BY <1>2, <1>3, Within
  <2> QED
    BY <1>1, <1>2, <2>1 DEF Init, Progress, Offset
<1>6. SegmentsOK /\ Tiles
  BY <1>1 DEF SegmentsOK, Tiles
<1> QED
  BY <1>4, <1>5, <1>6 DEF IInv

\* A step that sends nothing and leaves the sequence of segments alone.
LEMMA QuietStep ==
    ASSUME IInv, UNCHANGED <<params, rest, cur, sent, ok>>,
           pc' \in {"delay", "check", "send", "end"}, expired' \in BOOLEAN, fail' \in 0..1,
           pc' # "end" => pc # "end" /\ fail' = fail
    PROVE  IInv'
<1> USE DEF params
<1>1. TypeOK'
  BY DEF IInv, TypeOK
<1>2. FirstSeq' = FirstSeq
  BY DEF FirstSeq, BelowSyn
<1>3. Progress'
  BY <1>2 DEF IInv, Progress, Offset
<1>4. SegmentsOK'
  BY <1>2 DEF IInv, SegmentsOK, SegmentOK, Checksums, SumSent
<1>5. Tiles'
  BY <1>2 DEF IInv, Tiles
<1> QED
  BY <1>1, <1>3, <1>4, <1>5 DEF IInv

\* Sending the next segment keeps the invariant.
LEMMA SendStep ==
    ASSUME IInv, Send
    PROVE  IInv'
<1> DEFINE n == NextLen
<1>1. PICK right \in Checksums :
          sent' = Append(sent, [seq |-> cur, len |-> n, psh |-> Push(n),
                                ttl |-> IF strategy = "desync_ttl" THEN 1 ELSE 64,
                                sum |-> SumSent(right), right |-> right])
  BY DEF Send
<1> DEFINE x == [seq |-> cur, len |-> n, psh |-> Push(n),
                 ttl |-> IF strategy = "desync_ttl" THEN 1 ELSE 64,
                 sum |-> SumSent(right), right |-> right]
<1>2. /\ TypeOK /\ Progress /\ SegmentsOK /\ Tiles
      /\ pc = "send" /\ ok = 0 /\ fail = 0
  BY DEF IInv, Progress, Send
<1>3. n \in 1..rest /\ rest \in 1..length /\ length \in Nat
  BY <1>2, NextLenOK, LenAssumption DEF TypeOK
<1>4. /\ Seqs \in Nat \ {0} /\ length \in 1..Seqs /\ FirstSeq \in 0..(Seqs - 1)
  BY <1>2, Space
<1>5. /\ rest' = rest - n /\ cur' = (cur + n) % Seqs
      /\ pc' = (IF n = rest THEN "end" ELSE "check")
      /\ ok' = (IF n = rest THEN 1 ELSE 0) /\ fail' = 0
      /\ UNCHANGED params /\ expired' = expired
      /\ FirstSeq' = FirstSeq
  BY <1>2 DEF Send, Advanced, params, FirstSeq, BelowSyn
<1>6. /\ x.seq = cur /\ x.len = n /\ x.psh = (n = rest) /\ x.right = right
      /\ x.sum = SumSent(right) /\ (x.ttl = 1 <=> strategy = "desync_ttl")
  BY DEF Push
<1>7. x \in Segments
  <2>1. right \in 0..Sums /\ SumSent(right) \in 0..Sums
    BY SeqsAssumption DEF Checksums, SumSent
  <2>2. n \in 0..MaxLen /\ cur \in 0..(Seqs - 1)
    BY <1>2, <1>3, LenAssumption DEF TypeOK
  <2> QED
    BY <2>1, <2>2 DEF Segments, Push
<1> HIDE DEF x, n
<1>8. /\ sent' = Append(sent, x) /\ sent \in Seq(Segments) /\ Len(sent) \in Nat
      /\ sent' \in Seq(Segments) /\ Len(sent') = Len(sent) + 1
      /\ \A i \in 1..Len(sent) : sent'[i] = sent[i]
      /\ sent'[Len(sent')] = x
  <2>1. sent' = Append(sent, x) /\ sent \in Seq(Segments)
    BY <1>1, <1>2 DEF x, n, TypeOK
  <2> QED
    BY <2>1, <1>7, AppendProperties, LenProperties
<1>9. Offset \in Nat /\ Offset' \in Nat /\ Offset' = Offset + n /\ Offset' <= length
  BY <1>2, <1>3, <1>5 DEF Offset, params, TypeOK
<1>10. Len(sent) <= Offset
  BY <1>2 DEF Progress
<1>11. TypeOK'
  <2>1. cur' \in 0..(Seqs - 1)
    BY <1>2, <1>3, <1>4, <1>5 DEF TypeOK
  <2>2. Len(sent') <= length'
    BY <1>3, <1>5, <1>8, <1>9, <1>10 DEF params
  <2>3. rest' \in 0..length' /\ ok' \in 0..1 /\ fail' \in 0..1
    BY <1>3, <1>5 DEF params
  <2> QED
    BY <1>2, <1>5, <1>8, <2>1, <2>2, <2>3 DEF TypeOK, params
<1>12. Progress'
  <2>1. cur' = (FirstSeq' + Offset') % Seqs
    <3>1. cur = (FirstSeq + Offset) % Seqs
      BY <1>2 DEF Progress
    <3>2. Offset + n <= Seqs
      BY <1>4, <1>9
    <3>3. (((FirstSeq + Offset) % Seqs) + n) % Seqs = (FirstSeq + Offset + n) % Seqs
      BY <1>3, <1>4, <1>9, <3>2, AdvanceTwice
    <3>4. FirstSeq + Offset + n = FirstSeq' + Offset'
      BY <1>4, <1>5, <1>9, <1>3
    <3> QED
      BY <1>5, <3>1, <3>3, <3>4
  <2>2. Len(sent') <= Offset' /\ Len(sent') # 0 /\ Len(sent') > 0
    BY <1>3, <1>8, <1>9, <1>10
  <2>3. cur' = (sent'[Len(sent')].seq + sent'[Len(sent')].len) % Seqs
    BY <1>5, <1>6, <1>8
  <2>4. (ok' = 1 <=> rest' = 0) /\ (pc' # "end" => ok' = 0 /\ fail' = 0)
    BY <1>3, <1>5
  <2>5. strategy' # "fragment" => rest' \in {0, length'}
    BY <1>2, <1>3, <1>5 DEF Progress, params, NextLen, n
  <2> QED
    BY <2>1, <2>2, <2>3, <2>4, <2>5 DEF Progress
<1>13. SegmentsOK'
  <2>2. SegmentOK(x)
    <3>1. Offset \in 0..length /\ Offset + x.len <= length /\ x.seq = (FirstSeq + Offset) % Seqs
      BY <1>2, <1>3, <1>5, <1>6, <1>9 DEF Progress, params
    <3> QED
      BY <1>6, <3>1 DEF SegmentOK
  <2>3. ASSUME NEW i \in 1..Len(sent') PROVE SegmentOK(sent[i])'
    <3>1. CASE i \in 1..Len(sent)
      <4>1. SegmentOK(sent[i]) /\ sent'[i] = sent[i]
        BY <1>2, <1>8, <3>1 DEF SegmentsOK
      <4>2. SegmentOK(sent'[i])
        BY <4>1
      <4> QED
        BY <1>5, <4>2 DEF SegmentOK, Checksums, SumSent, params
    <3>2. CASE i = Len(sent')
      <4>1. SegmentOK(sent'[i])
        BY <1>8, <2>2, <3>2
      <4> QED
        BY <1>5, <4>1 DEF SegmentOK, Checksums, SumSent, params
    <3> QED
      BY <1>8, <3>1, <3>2
  <2> QED
    BY <2>3 DEF SegmentsOK
<1>14. Tiles'
  <2>1. ASSUME NEW i \in 1..Len(sent')
        PROVE  /\ i = 1 => sent'[i].seq = FirstSeq'
               /\ i > 1 => sent'[i].seq = (sent'[i - 1].seq + sent'[i - 1].len) % Seqs
               /\ sent'[i].psh <=> (i = Len(sent') /\ ok' = 1)
    <3>1. CASE i \in 1..Len(sent)
      <4>1. sent'[i] = sent[i] /\ (i > 1 => sent'[i - 1] = sent[i - 1]) /\ i # Len(sent')
        BY <1>8, <3>1
      <4> QED
        BY <1>2, <1>5, <3>1, <4>1 DEF Tiles
    <3>2. CASE i = Len(sent')
      <4>1. sent'[i] = x
        BY <1>8, <3>2
      <4>2. i = 1 => x.seq = FirstSeq'
        <5>1. Len(sent) = 0 => cur = FirstSeq
          <6>1. Len(sent) = 0 => cur = (FirstSeq + 0) % Seqs
            BY <1>2 DEF Progress
          <6>2. FirstSeq + 0 = FirstSeq /\ FirstSeq % Seqs = FirstSeq
            BY <1>4, Within
          <6> QED
            BY <6>1, <6>2
        <5> QED
          BY <1>5, <1>6, <1>8, <3>2, <5>1
      <4>3. i > 1 => x.seq = (sent'[i - 1].seq + sent'[i - 1].len) % Seqs
        <5>1. i > 1 => Len(sent) > 0 /\ i - 1 = Len(sent) /\ sent'[i - 1] = sent[Len(sent)]
          BY <1>8, <3>2
        <5> QED
          BY <1>2, <1>6, <5>1 DEF Progress
      <4>4. x.psh <=> ok' = 1
        <5>1. ok' = 1 <=> n = rest
          BY <1>5
        <5> QED
          BY <1>6, <5>1, Zenon
      <4> QED
        BY <3>2, <4>1, <4>2, <4>3, <4>4
    <3> QED
      BY <1>8, <3>1, <3>2
  <2>2. ok' = 1 => rest' = 0 /\ (cur' - FirstSeq') % Seqs = length' % Seqs
    <3>1. ok' = 1 => rest' = 0
      BY <1>12 DEF Progress
    <3>2. rest' = 0 => Offset' = length
      BY <1>3, <1>5 DEF Offset, params
    <3>3. Offset' = length => cur' = (FirstSeq + length) % Seqs
      BY <1>12, <1>5 DEF Progress
    <3>4. (((FirstSeq + length) % Seqs) - FirstSeq) % Seqs = length % Seqs
      <4>1. length \in 0..Seqs
        BY <1>4
      <4> QED
        BY <1>4, <4>1, Advance
    <3> QED
      BY <1>5, <3>1, <3>2, <3>3, <3>4 DEF params
  <2> QED
    BY <2>1, <2>2 DEF Tiles
<1> QED
  BY <1>11, <1>12, <1>13, <1>14 DEF IInv

\* Every step keeps the invariant.
LEMMA IInvStep == IInv /\ [Next]_vars => IInv'
<1> SUFFICES ASSUME IInv, [Next]_vars PROVE IInv'
  OBVIOUS
<1>1. TypeOK /\ (pc # "end" => fail = 0) /\ fail \in 0..1
  BY DEF IInv, Progress, TypeOK
<1>2. CASE BuildFails \/ SendFails \/ DelayCancelled
  BY <1>1, <1>2, QuietStep DEF BuildFails, SendFails, DelayCancelled, Fail, TypeOK
<1>3. CASE DelayElapsed
  BY <1>1, <1>3, QuietStep DEF DelayElapsed, TypeOK
<1>4. CASE Check
  BY <1>1, <1>4, QuietStep DEF Check, Fail, TypeOK
<1>5. CASE Send
  BY <1>5, SendStep
<1>6. CASE Expire
  BY <1>1, <1>6, QuietStep DEF Expire, TypeOK
<1>7. CASE UNCHANGED vars
  BY <1>1, <1>7, QuietStep DEF vars, TypeOK
<1> QED
  BY <1>2, <1>3, <1>4, <1>5, <1>6, <1>7 DEF Next

\* The invariant holds in every reachable state.
THEOREM Invariance == Spec => []IInv
BY IInvInit, IInvStep, PTL DEF Spec

-----------------------------------------------------------------------------
(* What a run promises *)

\* Every variable of a run keeps its type: the sequence numbers stay within
\* their space, and a run counts one success or one failure.
THEOREM TypeCorrect == Spec => []TypeOK
BY Invariance, PTL DEF IInv

\* The segments of a run tile the payload, whatever the fragment size.
THEOREM SegmentsTile == Spec => []Tiles
BY Invariance, PTL DEF IInv

\* A segment that the server takes for valid lies below the stream, given the
\* right SynSeq, as long as a payload and a window fit into the sequence space.
THEOREM NothingInStream == Spec => []BelowStream
<1>1. IInv => BelowStream
  <2> SUFFICES ASSUME IInv, NEW i \in 1..Len(sent), sent[i].ttl # 1, sent[i].sum = sent[i].right,
                      NEW k \in 0..(sent[i].len - 1)
               PROVE  ~((sent[i].seq + k - (synSeq + 1)) % Seqs < Window)
    BY DEF BelowStream, Overlaps
  <2> DEFINE s == sent[i]
  <2>1. TypeOK /\ SegmentOK(s)
    BY DEF IInv, SegmentsOK
  <2>2. /\ Seqs \in Nat \ {0} /\ length \in 1..Seqs /\ length + Window <= Seqs
        /\ synSeq \in 0..(Seqs - 1) /\ s.len \in Nat
    <3>1. s \in Segments
      BY <2>1, ElementOfSeq DEF TypeOK
    <3>2. synSeq \in 0..(Seqs - 1)
      BY <2>1 DEF TypeOK
    <3>3. s.len \in Nat
      BY <3>1, LenAssumption DEF Segments
    <3> QED
      BY <2>1, <3>2, <3>3, Space
  <2>3. strategy # "desync_bad_cs"
    <3>1. CASE strategy = "desync_bad_cs"
      <4>1. s.right \in 0..(Sums - 1) /\ s.sum = Sums - s.right
        BY <2>1, <3>1 DEF SegmentOK, Checksums, SumSent
      <4> QED
        BY <4>1, SeqsAssumption, SumsAssumption
    <3> QED
      BY <3>1
  <2>4. FirstSeq = (synSeq + 1 - length) % Seqs
    BY <2>3 DEF FirstSeq, BelowSyn
  <2>5. PICK o \in 0..length : o + s.len <= length /\ s.seq = (FirstSeq + o) % Seqs
    BY <2>1 DEF SegmentOK
  <2> HIDE DEF s
  <2>6. o \in Nat /\ k \in Nat /\ o + k < length
    BY <2>2, <2>5 DEF s
  <2>7. (s.seq + k - (synSeq + 1)) % Seqs = Seqs - (length - o - k)
    <3> DEFINE z == FirstSeq + o
               x == s.seq + k - (synSeq + 1)
               m == length - o - k
    <3>1. \/ length <= synSeq + 1 /\ FirstSeq = synSeq + 1 - length
          \/ length > synSeq + 1 /\ FirstSeq = synSeq + 1 - length + Seqs
      BY <2>2, <2>4, Start
    <3> HIDE DEF FirstSeq
    <3>2. z \in 0..(Seqs - 1) \/ (length > synSeq + 1 /\ z \in Seqs..(2 * Seqs - 1))
      <4>1. CASE length <= synSeq + 1
        <5>1. FirstSeq = synSeq + 1 - length
          BY <2>2, <3>1, <4>1
        <5> QED
          BY <2>2, <2>6, <4>1, <5>1
      <4>2. CASE length > synSeq + 1
        <5>1. FirstSeq = synSeq + 1 - length + Seqs
          BY <2>2, <3>1, <4>2
        <5>2. z \in 0..(2 * Seqs - 1)
          BY <2>2, <2>6, <4>2, <5>1
        <5> QED
          BY <2>2, <4>2, <5>2
      <4> QED
        BY <2>2, <4>1, <4>2
    <3>3. s.seq = z \/ (length > synSeq + 1 /\ s.seq = z - Seqs)
      <4>1. z \in 0..(Seqs - 1) => z % Seqs = z
        BY <2>2, Within
      <4>2. z \in Seqs..(2 * Seqs - 1) => z % Seqs = z - Seqs
        BY <2>2, Above
      <4> QED
        BY <2>5, <3>2, <4>1, <4>2
    <3>4. m \in 1..Seqs /\ x \in Int /\ (x = -m \/ x = Seqs - m)
      BY <2>2, <2>6, <3>1, <3>3
    <3> HIDE DEF x, m
    <3>5. x % Seqs = Seqs - m
      BY <2>2, <3>4, Backward
    <3> QED
      BY <3>5 DEF x, m
  <2>8. ~(Seqs - (length - o - k) < Window)
    BY <2>2, <2>6, LenAssumption
  <2> QED
    BY <2>7, <2>8 DEF s
<1> QED
  BY <1>1, Invariance, PTL

\* The server drops the segment of desync_bad_cs unless its checksum is zero.
THEOREM BadChecksumDropped == Spec => []OnlyZeroSumSurvives
<1>1. IInv => OnlyZeroSumSurvives
  <2> SUFFICES ASSUME IInv, strategy = "desync_bad_cs", NEW i \in 1..Len(sent)
               PROVE  Received(sent[i]) <=> sent[i].right = 0
    BY DEF OnlyZeroSumSurvives
  <2> DEFINE s == sent[i]
             d == s.sum - s.right
  <2>1. SegmentOK(s)
    BY DEF IInv, SegmentsOK
  <2>2. s.ttl # 1 /\ s.right \in 0..(Sums - 1) /\ s.sum = Sums - s.right
    BY <2>1 DEF SegmentOK, Checksums, SumSent
  <2> HIDE DEF s
  <2>3. Sums \in Nat \ {0} /\ d = Sums - 2 * s.right
    BY <2>2, SeqsAssumption
  <2>4. d % Sums = 0 <=> s.right = 0
    <3>1. CASE s.right = 0
      <4>1. d = Sums /\ d \in Sums..(2 * Sums - 1)
        BY <2>3, <3>1
      <4>2. d % Sums = d - Sums
        BY <2>3, <4>1, Above
      <4> QED
        BY <2>3, <3>1, <4>1, <4>2
    <3>2. CASE s.right # 0
      <4>1. d # 0 /\ (d \in 0..(Sums - 1) \/ d \in (-Sums)..(-1)) /\ d # -Sums
        <5>1. s.right \in 1..(Sums - 1)
          BY <2>2, <2>3, <3>2
        <5>2. d # 0
          BY <2>3, <5>1, SumsAssumption
        <5> QED
          BY <2>3, <5>1, <5>2
      <4>2. d % Sums = d \/ d % Sums = d + Sums
        BY <2>3, <4>1, Within, Under
      <4> QED
        BY <2>2, <2>3, <3>2, <4>1, <4>2
    <3> QED
      BY <3>1, <3>2
  <2> QED
    BY <2>2, <2>4 DEF Received, s
<1> QED
  BY <1>1, Invariance, PTL

=============================================================================
