----------------------------- MODULE Injection -----------------------------
(***************************************************************************)
(* One run of an injection strategy: WrongSeqBypass.Inject,                *)
(* FragmentBypass.Inject and DesyncBypass.Inject (internal/bypass), with   *)
(* the headers that CraftPacket gives the segments they send and the       *)
(* sequence number that getTCPSeqNums (internal/proxy/tcpinfo_linux.go)    *)
(* hands them.                                                             *)
(*                                                                         *)
(* Sequence numbers are modulo Seqs, 2^32 in the code; the one's           *)
(* complement checksum of a segment is a number up to Sums, 2^16 - 1 in    *)
(* the code.  The sequence number of the connection's own SYN is taken as  *)
(* zero, the origin from which the others are counted.  Payload bytes are  *)
(* counted, not spelled out.  The context of the run may end at any step.  *)
(***************************************************************************)
EXTENDS Integers, Sequences

CONSTANTS Seqs,    \* number of sequence numbers
          Sums,    \* largest checksum
          MaxLen,  \* largest payload (a fake ClientHello)
          MaxFrag, \* largest fragment_size
          Window   \* receive window of the server

ASSUME SeqsAssumption == Seqs \in Nat /\ Sums \in Nat \ {0}
\* 2^16 - 1 is odd, so no checksum is its own inverse.
ASSUME SumsAssumption == Sums % 2 = 1
ASSUME LenAssumption == MaxLen \in Nat \ {0} /\ MaxFrag \in Nat /\ Window \in Nat
\* A ClientHello and a window are far smaller than the sequence space.
ASSUME SpaceAssumption == MaxLen + Window <= Seqs

Strategies == {"wrong_seq", "fragment", "desync_bad_cs", "desync_ttl"}

VARIABLES strategy, length, fragSize,  \* the run's parameters
          synSeq,    \* SynSeq, what getTCPSeqNums takes for the connection's ISN
          pc, expired,
          rest,      \* payload bytes that are not sent yet
          cur,       \* the sequence number of the next segment
          sent,      \* the segments handed to the raw socket
          ok, fail   \* BypassStats

params == <<strategy, length, fragSize, synSeq>>
vars == <<params, pc, expired, rest, cur, sent, ok, fail>>

Segments == [seq : 0..(Seqs - 1), len : 0..MaxLen, psh : BOOLEAN, ttl : {1, 64},
             sum : 0..Sums, right : 0..Sums]

\* A run sends at most one segment per payload byte.
TypeOK ==
    /\ strategy \in Strategies /\ length \in 1..MaxLen /\ fragSize \in 0..MaxFrag
    /\ synSeq \in 0..(Seqs - 1)
    /\ pc \in {"delay", "check", "send", "end"} /\ expired \in BOOLEAN
    /\ rest \in 0..length /\ cur \in 0..(Seqs - 1)
    /\ sent \in Seq(Segments) /\ Len(sent) <= length
    /\ ok \in 0..1 /\ fail \in 0..1

-----------------------------------------------------------------------------

\* Faulty variant: the fake ends on the first byte of the stream.
OneTooHigh == (synSeq + 2 - length) % Seqs

\* p.SynSeq + 1 - uint32(len(payload))
BelowSyn == (synSeq + 1 - length) % Seqs

\* desync_bad_cs sits on the stream itself, and relies on its checksum.
FirstSeq == IF strategy = "desync_bad_cs" THEN (synSeq + 1) % Seqs ELSE BelowSyn

\* fragment_size, or the split point (1 byte of any payload of 10 or more); a
\* size that does not split the payload is replaced by half of it.
SplitPoint == IF length < 10 THEN length \div 2 ELSE 1
Size ==
    LET asked == IF fragSize <= 0 THEN SplitPoint ELSE fragSize IN
    IF asked <= 0 \/ asked >= length THEN length \div 2 ELSE asked

\* chunkBytes: the length of the next chunk.
Chunk == IF Size <= 0 \/ Size > rest THEN rest ELSE Size
NextLen == IF strategy = "fragment" THEN Chunk ELSE length

\* What marshal may compute: no segment sums up to zero, so never Sums.  Only
\* desync_bad_cs does anything with it.
Checksums == IF strategy = "desync_bad_cs" THEN 0..(Sums - 1) ELSE {0}

\* Faulty variant: marshal computes the checksum again after the inversion.
SumRestored(right) == right

\* badChecksum inverts the two bytes of the checksum that marshal computed.
SumSent(right) == IF strategy = "desync_bad_cs" THEN Sums - right ELSE right

Fail == pc' = "end" /\ fail' = fail + 1 /\ UNCHANGED <<params, expired, rest, cur, sent, ok>>

\* builder.Build, CraftPacket or the raw socket returns an error; wrong_seq is
\* the only strategy that builds its payload itself, before the delay.
BuildFails == pc = "delay" /\ strategy = "wrong_seq" /\ Fail
SendFails == pc = "send" /\ Fail

\* The select on ctx.Done() and the delay that AdaptiveDelay computes, here any
\* time; with a delay of zero, or with both ready, the run may go on after the
\* context has ended.
DelayCancelled == pc = "delay" /\ expired /\ Fail
DelayElapsed ==
    /\ pc = "delay"
    /\ pc' = "check"
    /\ UNCHANGED <<params, expired, rest, cur, sent, ok, fail>>

\* The context is looked at once more before every segment.
Check ==
    /\ pc = "check"
    /\ \/ expired /\ Fail
       \/ /\ ~expired
          /\ pc' = "send"
          /\ UNCHANGED <<params, expired, rest, cur, sent, ok, fail>>

\* Faulty variant: cur is not advanced.
Standing(n) == cur

Push(n) == n = rest
Advanced(n) == (cur + n) % Seqs

\* CraftPacket and Send: the last segment carries PSH and ends the run, with a
\* pause that does not look at the context before the next one.
Send ==
    /\ pc = "send"
    /\ LET n == NextLen IN
       /\ \E right \in Checksums :
              sent' = Append(sent, [seq |-> cur, len |-> n, psh |-> Push(n),
                                    ttl |-> IF strategy = "desync_ttl" THEN 1 ELSE 64,
                                    sum |-> SumSent(right), right |-> right])
       /\ cur' = Advanced(n)
       /\ rest' = rest - n
       /\ pc' = IF n = rest THEN "end" ELSE "check"
       /\ ok' = IF n = rest THEN ok + 1 ELSE ok
    /\ UNCHANGED <<params, expired, fail>>

\* bypass_timeout, or a shutdown.
Expire ==
    /\ ~expired /\ pc # "end"
    /\ expired' = TRUE
    /\ UNCHANGED <<params, pc, rest, cur, sent, ok, fail>>

\* getTCPSeqNums returns the tx_queue column of /proc/net/tcp, bytes waiting in
\* the socket, or a hash of the addresses: neither depends on the connection's
\* sequence number.
getTCPSeqNums == 0..(Seqs - 1)

Init ==
    /\ strategy \in Strategies
    /\ length \in 1..MaxLen
    /\ fragSize \in 0..MaxFrag
    /\ synSeq \in getTCPSeqNums
    /\ pc = "delay" /\ expired = FALSE
    /\ rest = length
    /\ cur = FirstSeq
    /\ sent = <<>> /\ ok = 0 /\ fail = 0

Next == BuildFails \/ SendFails \/ DelayCancelled \/ DelayElapsed \/ Check \/ Send \/ Expire

Spec == Init /\ [][Next]_vars

-----------------------------------------------------------------------------
(* Properties *)

\* What the server makes of a segment: a TTL of 1 dies on the way, and a
\* checksum is verified in one's complement, where 0 and Sums are the same.
Received(s) == s.ttl # 1 /\ (s.sum - s.right) % Sums = 0
Overlaps(s, base) == \E k \in 0..(s.len - 1) : (s.seq + k - (base + 1)) % Seqs < Window

\* The segments of a run, in the order of sending, tile the payload: each
\* starts where the one before ended, whatever the fragment size and wherever
\* the sequence numbers wrap; only the last one is pushed, and a run that counts
\* as a success has sent the whole payload.
Tiles ==
    /\ \A i \in 1..Len(sent) :
           /\ i = 1 => sent[i].seq = FirstSeq
           /\ i > 1 => sent[i].seq = (sent[i - 1].seq + sent[i - 1].len) % Seqs
           /\ sent[i].psh <=> (i = Len(sent) /\ ok = 1)
    /\ ok = 1 => rest = 0 /\ (cur - FirstSeq) % Seqs = length % Seqs

\* No segment that is sent with its own checksum covers a sequence number that
\* the client's bytes will use, given the right SynSeq: the server drops it as
\* a repetition of what it has.
BelowStream ==
    \A i \in 1..Len(sent) :
        LET s == sent[i] IN
        s.ttl # 1 /\ s.sum = s.right => ~Overlaps(s, synSeq)

\* "malformed checksum" (docs/en/technical.md): the server drops the segment of
\* desync_bad_cs, which lies on the first bytes of the stream.  The one
\* exception is a segment whose checksum is zero: inverted it is the other
\* representation of zero, and the segment stays valid.
OnlyZeroSumSurvives ==
    strategy = "desync_bad_cs" =>
        \A i \in 1..Len(sent) : Received(sent[i]) <=> sent[i].right = 0
=============================================================================
