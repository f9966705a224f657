-------------------------------- MODULE Relay --------------------------------
(***************************************************************************)
(* One relayed connection (internal/proxy/relay.go): the optional SNI      *)
(* phase of RelayWithSNI, the two copyLoop goroutines, the goroutine that  *)
(* closes both sockets when the context is done, and the two peers.        *)
(*                                                                         *)
(* Direction "in" copies client to server, "out" server to client.  The    *)
(* i-th byte a peer sends is the number i, so that loss, duplication and   *)
(* reordering show.  A Read on a TCP socket returns bytes or an error,     *)
(* never both.  Deadlines are not timed: with an idle timeout a read with  *)
(* nothing to read, and any write, may time out.                           *)
(***************************************************************************)
EXTENDS Integers, Sequences

CONSTANTS MaxBytes,  \* bytes each peer sends at most
          BufSize,   \* size of a relay buffer (65536 in the code)
          SniBuf,    \* RelayWithSNI's maxSNIBuf (16384 in the code)
          SniRead    \* bytes readSNI reads at a time (4096 in the code)

ASSUME SizesAssumption == {MaxBytes, BufSize, SniBuf, SniRead} \subseteq Nat \ {0}

Dirs == {"in", "out"}
Socks == {"client", "server"}
Src(d) == IF d = "in" THEN "client" ELSE "server"
Dst(d) == IF d = "in" THEN "server" ELSE "client"

VARIABLES pc,         \* where RelayWithSNI / Relay is
          conf,       \* configuration and ClientHello, which never change
          acc,        \* readSNI's acc
          nsent,      \* bytes each source peer has sent
          fin,        \* source peers that have shut down their sending side
          broken,     \* sockets whose peer has reset the connection
          inbox,      \* received and not yet read
          lpc,        \* where each copyLoop is
          buf,        \* what each copyLoop has read and not yet written
          delivered,  \* bytes accepted by the destination of each direction
          metric,     \* bytes reported to onBytesIn / onBytesOut
          result,     \* the totals copyLoop returns: RelayResult
          firstErr,   \* Relay's firstErr is set
          parent,     \* the caller's ctx is done
          inner,      \* Relay's own cancel has been called
          closed      \* sockets closed on our side

peerVars == <<nsent, fin, broken>>
loopVars == <<lpc, buf, result, firstErr>>
ctxVars == <<parent, inner, closed>>
vars == <<pc, conf, acc, peerVars, inbox, loopVars, delivered, metric, ctxVars>>

Bytes == Seq(1..MaxBytes)

\* logSNI: log_client_sni, that is RelayWithSNI rather than Relay;
\* idle: idle_timeout > 0;
\* hello: bytes after which parseSNI is done; a hello that is not done before
\* the buffer is full is taken up to there, whatever its length.
Confs == [logSNI : BOOLEAN, idle : BOOLEAN, hello : 1..SniBuf]
LogSNI == conf.logSNI
Idle == conf.idle

TypeOK ==
    /\ pc \in {"sni", "sniwrite", "relay", "returned"}
    /\ conf \in Confs
    /\ acc \in Bytes
    /\ nsent \in [Dirs -> 0..MaxBytes] /\ fin \subseteq Dirs /\ broken \subseteq Socks
    /\ inbox \in [Dirs -> Bytes]
    /\ lpc \in [Dirs -> {"off", "read", "write", "exit", "done"}]
    /\ buf \in [Dirs -> Bytes]
    /\ delivered \in [Dirs -> Bytes]
    /\ metric \in [Dirs -> 0..MaxBytes] /\ result \in [Dirs -> 0..MaxBytes]
    /\ firstErr \in BOOLEAN /\ parent \in BOOLEAN /\ inner \in BOOLEAN
    /\ closed \subseteq Socks

Take(s, n) == SubSeq(s, 1, n)
Drop(s, n) == SubSeq(s, n + 1, Len(s))
Least(a, b) == IF a < b THEN a ELSE b

CtxDone == parent \/ inner
Dead(s) == s \in broken \/ s \in closed

-----------------------------------------------------------------------------
(* The peers and the caller *)

PeerSend(d) ==
    /\ nsent[d] < MaxBytes /\ d \notin fin /\ ~Dead(Src(d))
    /\ nsent' = [nsent EXCEPT ![d] = @ + 1]
    /\ inbox' = [inbox EXCEPT ![d] = Append(@, nsent[d] + 1)]
    /\ UNCHANGED <<pc, conf, acc, fin, broken, loopVars, delivered, metric, ctxVars>>

PeerFin(d) ==
    /\ d \notin fin /\ ~Dead(Src(d))
    /\ fin' = fin \cup {d}
    /\ UNCHANGED <<pc, conf, acc, nsent, broken, inbox, loopVars, delivered, metric, ctxVars>>

\* A reset loses what was not read.
PeerReset(s) ==
    /\ ~Dead(s)
    /\ broken' = broken \cup {s}
    /\ inbox' = [d \in Dirs |-> IF Src(d) = s THEN <<>> ELSE inbox[d]]
    /\ UNCHANGED <<pc, conf, acc, nsent, fin, loopVars, delivered, metric, ctxVars>>

Cancel ==
    /\ ~parent
    /\ parent' = TRUE
    /\ UNCHANGED <<pc, conf, acc, peerVars, inbox, loopVars, delivered, metric, inner, closed>>

-----------------------------------------------------------------------------
(* readSNI and the write of what it accumulated *)

\* parseSNI's second result: the first record holds the whole ClientHello, or
\* is no ClientHello.  A hello split over records is never done.
ParseDone(n) == n >= conf.hello

\* readSNI's loop condition and its early return.
SniOver(n) == ParseDone(n) \/ n >= SniBuf

ReadSNI ==
    /\ pc = "sni" /\ inbox["in"] # <<>>
    /\ \E n \in 1..Least(SniRead, Len(inbox["in"])) :
           /\ acc' = acc \o Take(inbox["in"], n)
           /\ inbox' = [inbox EXCEPT !["in"] = Drop(@, n)]
           /\ pc' = IF SniOver(Len(acc) + n) THEN "sniwrite" ELSE "sni"
    /\ UNCHANGED <<conf, peerVars, loopVars, delivered, metric, ctxVars>>

\* conn.Read fails: end of stream, reset or idle timeout.  ctx is not watched
\* and nothing closes the socket here.
ReadSNIError ==
    /\ pc = "sni" /\ inbox["in"] = <<>>
    /\ "in" \in fin \/ "client" \in broken \/ Idle
    /\ pc' = "sniwrite"
    /\ UNCHANGED <<conf, acc, peerVars, inbox, loopVars, delivered, metric, ctxVars>>

StartLoops == lpc' = [d \in Dirs |-> "read"] /\ pc' = "relay"

\* Faulty variant: the accumulated bytes are not written.
WriteNothing ==
    /\ pc = "sniwrite"
    /\ acc' = <<>>
    /\ StartLoops
    /\ UNCHANGED <<conf, peerVars, inbox, buf, result, firstErr, delivered, metric, ctxVars>>

\* server.Write(accumulated), counted, and then Relay.
WriteAccumulated ==
    /\ pc = "sniwrite" /\ (acc # <<>> => "server" \notin broken)
    /\ delivered' = [delivered EXCEPT !["in"] = @ \o acc]
    /\ metric' = [metric EXCEPT !["in"] = @ + Len(acc)]
    /\ acc' = <<>>
    /\ StartLoops
    /\ UNCHANGED <<conf, peerVars, inbox, buf, result, firstErr, ctxVars>>

\* The write fails: return without Relay, and without counting what was
\* written before the failure.
WriteAccumulatedError ==
    /\ pc = "sniwrite" /\ acc # <<>>
    /\ "server" \in broken \/ Idle
    /\ \E n \in 0..(Len(acc) - 1) :
           delivered' = [delivered EXCEPT !["in"] = @ \o Take(acc, n)]
    /\ acc' = <<>>
    /\ pc' = "returned"
    /\ UNCHANGED <<conf, peerVars, inbox, loopVars, metric, ctxVars>>

SniNext == ReadSNI \/ ReadSNIError \/ WriteAccumulated \/ WriteAccumulatedError

-----------------------------------------------------------------------------
(* copyLoop *)

LoopGoto(d, l) == lpc' = [lpc EXCEPT ![d] = l]

Read(d) ==
    /\ lpc[d] = "read" /\ ~Dead(Src(d)) /\ inbox[d] # <<>>
    /\ \E n \in 1..Least(BufSize, Len(inbox[d])) :
           /\ buf' = [buf EXCEPT ![d] = Take(inbox[d], n)]
           /\ inbox' = [inbox EXCEPT ![d] = Drop(@, n)]
    /\ LoopGoto(d, "write")
    /\ UNCHANGED <<pc, conf, acc, peerVars, result, firstErr, delivered, metric, ctxVars>>

\* io.EOF and an idle timeout end the loop without an error.
ReadEnd(d) ==
    /\ lpc[d] = "read" /\ ~Dead(Src(d)) /\ inbox[d] = <<>>
    /\ d \in fin \/ Idle
    /\ LoopGoto(d, "exit")
    /\ UNCHANGED <<pc, conf, acc, peerVars, inbox, buf, result, firstErr, delivered, metric, ctxVars>>

\* A reset, or "use of closed network connection" after the closer has run.
ReadError(d) ==
    /\ lpc[d] = "read" /\ Dead(Src(d))
    /\ firstErr' = TRUE
    /\ LoopGoto(d, "exit")
    /\ UNCHANGED <<pc, conf, acc, peerVars, inbox, buf, result, delivered, metric, ctxVars>>

\* Faulty variant: the read length is counted, not the written length.
WrittenAll(d, n) ==
    /\ delivered' = [delivered EXCEPT ![d] = @ \o Take(buf[d], n)]
    /\ metric' = [metric EXCEPT ![d] = @ + Len(buf[d])]
    /\ result' = [result EXCEPT ![d] = @ + Len(buf[d])]
    /\ buf' = [buf EXCEPT ![d] = <<>>]

\* The first n bytes of buf reach the destination and are counted.
Written(d, n) ==
    /\ delivered' = [delivered EXCEPT ![d] = @ \o Take(buf[d], n)]
    /\ metric' = [metric EXCEPT ![d] = @ + n]
    /\ result' = [result EXCEPT ![d] = @ + n]
    /\ buf' = [buf EXCEPT ![d] = <<>>]

Write(d) ==
    /\ lpc[d] = "write" /\ ~Dead(Dst(d))
    /\ Written(d, Len(buf[d]))
    /\ LoopGoto(d, "read")
    /\ UNCHANGED <<pc, conf, acc, peerVars, inbox, firstErr, ctxVars>>

\* Faulty variant: a short write is taken for a whole one.
WriteErrorIgnored(d) ==
    /\ lpc[d] = "write"
    /\ Dead(Dst(d)) \/ Idle
    /\ \E n \in 0..(Len(buf[d]) - 1) : Written(d, n)
    /\ LoopGoto(d, "read")
    /\ UNCHANGED <<pc, conf, acc, peerVars, inbox, firstErr, ctxVars>>

\* dst.Write fails, perhaps after a part: the part is counted.
WriteError(d) ==
    /\ lpc[d] = "write"
    /\ Dead(Dst(d)) \/ Idle
    /\ \E n \in 0..(Len(buf[d]) - 1) : Written(d, n)
    /\ firstErr' = TRUE
    /\ LoopGoto(d, "exit")
    /\ UNCHANGED <<pc, conf, acc, peerVars, inbox, ctxVars>>

\* Faulty variant: a loop that ends does not call cancel().
ExitQuietly(d) ==
    /\ lpc[d] = "exit"
    /\ LoopGoto(d, "done")
    /\ UNCHANGED <<pc, conf, acc, peerVars, inbox, buf, result, firstErr, delivered, metric, ctxVars>>

\* cancel(); wg.Done()
Exit(d) ==
    /\ lpc[d] = "exit"
    /\ inner' = TRUE
    /\ LoopGoto(d, "done")
    /\ UNCHANGED <<pc, conf, acc, peerVars, inbox, buf, result, firstErr, delivered, metric, parent, closed>>

LoopNext(d) ==
    \/ Read(d)
    \/ ReadEnd(d)
    \/ ReadError(d)
    \/ Write(d)
    \/ WriteError(d)
    \/ Exit(d)

-----------------------------------------------------------------------------
(* Relay's frame *)

\* Closing a socket loses what was received and not read.
CloseSock(s) ==
    /\ closed' = closed \cup {s}
    /\ inbox' = [d \in Dirs |-> IF Src(d) = s THEN <<>> ELSE inbox[d]]

\* Faulty variant: the closer waits for Relay's own cancel only.
CloserIgnoresCaller ==
    /\ lpc["in"] # "off" /\ inner
    /\ \/ "client" \notin closed /\ CloseSock("client")
       \/ "client" \in closed /\ "server" \notin closed /\ CloseSock("server")
    /\ UNCHANGED <<pc, conf, acc, peerVars, loopVars, delivered, metric, parent, inner>>

\* The goroutine that waits for ctx.Done(): client.Close(), server.Close().
Closer ==
    /\ lpc["in"] # "off" /\ CtxDone
    /\ \/ "client" \notin closed /\ CloseSock("client")
       \/ "client" \in closed /\ "server" \notin closed /\ CloseSock("server")
    /\ UNCHANGED <<pc, conf, acc, peerVars, loopVars, delivered, metric, parent, inner>>

\* wg.Wait() and return.
RelayReturn ==
    /\ pc = "relay" /\ \A d \in Dirs : lpc[d] = "done"
    /\ pc' = "returned"
    /\ UNCHANGED <<conf, acc, peerVars, inbox, loopVars, delivered, metric, ctxVars>>

\* Faulty variant: Handle closes the server side only.
HandleCloseServer ==
    /\ pc = "returned" /\ "server" \notin closed
    /\ CloseSock("server")
    /\ UNCHANGED <<pc, conf, acc, peerVars, loopVars, delivered, metric, parent, inner>>

\* Handle's deferred server.Close() and client.Close().
HandleClose ==
    /\ pc = "returned"
    /\ \/ "server" \notin closed /\ CloseSock("server")
       \/ "server" \in closed /\ "client" \notin closed /\ CloseSock("client")
    /\ UNCHANGED <<pc, conf, acc, peerVars, loopVars, delivered, metric, parent, inner>>

Init ==
    /\ conf \in Confs
    /\ LogSNI \/ conf.hello = 1
    /\ pc = IF LogSNI THEN "sni" ELSE "relay"
    /\ acc = <<>>
    /\ nsent = [d \in Dirs |-> 0] /\ fin = {} /\ broken = {}
    /\ inbox = [d \in Dirs |-> <<>>]
    /\ lpc = [d \in Dirs |-> IF LogSNI THEN "off" ELSE "read"]
    /\ buf = [d \in Dirs |-> <<>>]
    /\ delivered = [d \in Dirs |-> <<>>]
    /\ metric = [d \in Dirs |-> 0] /\ result = [d \in Dirs |-> 0]
    /\ firstErr = FALSE /\ parent = FALSE /\ inner = FALSE
    /\ closed = {}

Over == pc = "returned" /\ closed = Socks /\ UNCHANGED vars

Next ==
    \/ \E d \in Dirs : PeerSend(d) \/ PeerFin(d) \/ LoopNext(d)
    \/ \E s \in Socks : PeerReset(s)
    \/ Cancel
    \/ SniNext
    \/ Closer
    \/ RelayReturn
    \/ HandleClose
    \/ Over

Spec == Init /\ [][Next]_vars

\* Our goroutines keep running; the peers promise nothing.  A read that has
\* bytes, an error or an elapsed deadline returns; a write that can neither
\* fail nor time out may block for ever on a peer that does not read, so Write
\* itself is not fair.
LoopProgress(d) == Read(d) \/ ReadEnd(d) \/ ReadError(d) \/ WriteError(d) \/ Exit(d)
SniProgress == ReadSNI \/ ReadSNIError \/ WriteAccumulatedError \/ (acc = <<>> /\ WriteAccumulated)
Fairness ==
    /\ \A d \in Dirs : WF_vars(LoopProgress(d))
    /\ WF_vars(SniProgress) /\ WF_vars(Closer) /\ WF_vars(RelayReturn) /\ WF_vars(HandleClose)

FairSpec == Spec /\ Fairness

-----------------------------------------------------------------------------
(* Properties *)

Sent(d) == [i \in 1..nsent[d] |-> i]
Up(d) == lpc[d] \in {"off", "read", "write"} /\ pc # "returned"

InPipe == INSTANCE BytePipe WITH sent <- Sent("in"), got <- delivered["in"], up <- Up("in")
OutPipe == INSTANCE BytePipe WITH sent <- Sent("out"), got <- delivered["out"], up <- Up("out")

\* Each direction is a byte pipe: the server gets a prefix of what the client
\* sent, in order and without repetition, across the hand-over from readSNI's
\* buffer to copyLoop, across short writes and across the closer's race with
\* both loops.
BothPipes == InPipe!Spec /\ OutPipe!Spec

\* The byte counters never exceed what was delivered, and once the relay has
\* returned they match it: copyLoop counts short writes, and the bytes held
\* back for the SNI are counted when they are written.  Only a failed write of
\* those held-back bytes goes uncounted, which is when the loops never start.
BytesCounted ==
    \A d \in Dirs :
        /\ metric[d] <= Len(delivered[d])
        /\ lpc[d] \in {"read", "done"} => metric[d] = Len(delivered[d])

\* When one direction ends, by end of stream, error or idle timeout, the other
\* one is ended too and Relay returns, even if it is blocked on a peer that
\* neither sends nor reads and there is no idle timeout: cancel() wakes the
\* closer, whose Close fails the blocked call.
OneEndsBoth == \A d \in Dirs : lpc[d] = "exit" ~> pc = "returned"

\* No socket is left open after the relay: both are closed in the end.
SocketsClosed == pc = "returned" ~> closed = Socks

\* "graceful shutdown path": once the context is done the relay returns, which
\* is what drain waits for.  It does if there is an idle timeout, or as soon as
\* Relay itself runs; without one readSNI, which does not watch ctx, waits for
\* a silent client, and the write that follows it for a server that does not
\* read.
CancelReturns == parent /\ (Idle \/ lpc["in"] # "off") ~> pc = "returned"
=============================================================================
