------------------------------- MODULE Server -------------------------------
(***************************************************************************)
(* The proxy server: the accept loop of ListenAndServe, the worker pool    *)
(* with its bounded channel and its overflow goroutines                    *)
(* (internal/proxy/server.go), and the life of one connection in Handle    *)
(* (internal/proxy/handler.go) as far as the shared counters of            *)
(* internal/metrics/collector.go see it.                                   *)
(*                                                                         *)
(* phase[c] follows one connection.  Dialling, injecting and relaying are  *)
(* one step each with every outcome; Router, Adaptive and Relay open them  *)
(* up.                                                                     *)
(***************************************************************************)
EXTENDS Integers, Sequences, FiniteSets

CONSTANTS Conns,          \* connections the listener may be offered
          Workers,        \* worker_pool_size goroutines
          ChanCap,        \* capacity of the work channel, 4 * size in the code
          MaxConnections, \* max_connections, 0 = unlimited
          RateLimited,    \* rate_limit > 0
          Bypass,         \* adaptive != nil
          LogClientSNI,   \* log_client_sni
          NoConn          \* "no connection"

ASSUME ConnsAssumption == IsFiniteSet(Conns) /\ NoConn \notin Conns
ASSUME WorkersAssumption == IsFiniteSet(Workers) /\ Workers # {}
ASSUME ChanCapAssumption == ChanCap \in Nat \ {0}
ASSUME MaxAssumption == MaxConnections \in Nat
ASSUME FlagsAssumption == {RateLimited, Bypass, LogClientSNI} \subseteq BOOLEAN

VARIABLES srv,        \* where ListenAndServe is
          cur,        \* the connection the accept loop holds
          cancelled,  \* ctx is done
          lnClosed,   \* the listener is closed
          work,       \* workerPool.work, the connections its closures serve
          closed,     \* close(p.work) has happened
          queued,     \* workerPool.queued
          overflow,   \* connections whose overflow goroutine has not ended
          overflowN,  \* workerPool.overflow_
          wpc,        \* where each worker is
          wconn,      \* the connection each worker serves
          phase,      \* where each connection is in its life
          active, total, failed, bypassOK, bypassFail, relayActive  \* Collector

loopVars == <<srv, cur, cancelled, lnClosed>>
poolVars == <<work, closed, queued, overflow, overflowN, wpc, wconn>>
metricVars == <<active, total, failed, bypassOK, bypassFail, relayActive>>
vars == <<loopVars, poolVars, phase, metricVars>>

\* "new" not offered yet, "held" by the accept loop, "refused" by a limit,
\* "queued" in the channel or handed to a goroutine that has not called fn,
\* then Handle: "fn" to "close", and "done" when fn has returned.
Phases == {"new", "held", "refused", "queued", "fn", "opened", "dial", "failing", "failed",
           "bypass", "prerelay", "sni", "relay", "unwind", "close", "done"}

\* From the dial to the deferred ConnClosed, unless the dial fails.
Served == {"dial", "bypass", "prerelay", "sni", "relay", "unwind"}
\* Between the call of fn and its return.
Running == Served \cup {"fn", "opened", "failing", "failed", "close"}

TypeOK ==
    /\ srv \in {"accept", "admit", "rate", "submit", "send", "drain", "workers", "overflow", "returned"}
    /\ cur \in Conns \cup {NoConn}
    /\ cancelled \in BOOLEAN /\ lnClosed \in BOOLEAN /\ closed \in BOOLEAN
    /\ work \in Seq(Conns) /\ Len(work) <= ChanCap
    /\ queued \in Nat /\ overflow \subseteq Conns /\ overflowN \in Nat
    /\ wpc \in [Workers -> {"idle", "got", "run", "exited"}]
    /\ wconn \in [Workers -> Conns \cup {NoConn}]
    /\ phase \in [Conns -> Phases]
    /\ active \in Int
    /\ total \in Nat /\ failed \in Nat /\ bypassOK \in Nat /\ bypassFail \in Nat
    /\ relayActive \in Nat

-----------------------------------------------------------------------------
(* ListenAndServe *)

SetPhase(c, p) == phase' = [phase EXCEPT ![c] = p]

\* ln.Accept returns a connection; until ln.Close it may do so after ctx is
\* done.
Accept(c) ==
    /\ srv = "accept" /\ ~lnClosed /\ phase[c] = "new"
    /\ SetPhase(c, "held")
    /\ cur' = c
    /\ srv' = "admit"
    /\ UNCHANGED <<cancelled, lnClosed, poolVars, metricVars>>

\* ln.Accept fails and ctx is done.  With a live ctx the loop logs the error,
\* sleeps and tries again, which changes nothing.
AcceptError ==
    /\ srv = "accept" /\ cancelled
    /\ srv' = "drain"
    /\ UNCHANGED <<cur, cancelled, lnClosed, poolVars, phase, metricVars>>

\* conn.Close(); continue
Refuse ==
    /\ SetPhase(cur, "refused")
    /\ cur' = NoConn
    /\ srv' = "accept"
    /\ UNCHANGED <<cancelled, lnClosed, poolVars, metricVars>>

Full == MaxConnections > 0 /\ active >= MaxConnections

\* The max_connections check reads the gauge that handlers maintain.
Admit ==
    /\ srv = "admit"
    /\ \/ Full /\ Refuse
       \/ /\ ~Full
          /\ srv' = IF RateLimited THEN "rate" ELSE "submit"
          /\ UNCHANGED <<cur, cancelled, lnClosed, poolVars, phase, metricVars>>

\* rl.allow(ip) with either answer.
RateCheck ==
    /\ srv = "rate"
    /\ \/ Refuse
       \/ /\ srv' = "submit"
          /\ UNCHANGED <<cur, cancelled, lnClosed, poolVars, phase, metricVars>>

\* submit: p.queued.Add(1) comes before the send.
Submit ==
    /\ srv = "submit"
    /\ queued' = queued + 1
    /\ SetPhase(cur, "queued")
    /\ srv' = "send"
    /\ UNCHANGED <<cur, cancelled, lnClosed, work, closed, overflow, overflowN, wpc, wconn, metricVars>>

\* select { case p.work <- fn: ... }
SendBuffered ==
    /\ srv = "send" /\ Len(work) < ChanCap
    /\ work' = Append(work, cur)
    /\ UNCHANGED <<closed, queued, overflow, overflowN, wpc, wconn>>

\* Faulty variants: queued is not taken back, or the closure is sent as well.
SpillLeak ==
    /\ srv = "send" /\ Len(work) >= ChanCap
    /\ overflow' = overflow \cup {cur}
    /\ overflowN' = overflowN + 1
    /\ UNCHANGED <<work, closed, queued, wpc, wconn>>
SpillTwice ==
    /\ srv = "send" /\ Len(work) < ChanCap
    /\ work' = Append(work, cur)
    /\ overflow' = overflow \cup {cur}
    /\ overflowN' = overflowN + 1
    /\ UNCHANGED <<closed, queued, wpc, wconn>>

\* default: an overflow goroutine of its own.
Spill ==
    /\ srv = "send" /\ Len(work) >= ChanCap
    /\ queued' = queued - 1
    /\ overflow' = overflow \cup {cur}
    /\ overflowN' = overflowN + 1
    /\ UNCHANGED <<work, closed, wpc, wconn>>

Send ==
    /\ SendBuffered \/ Spill
    /\ srv' = "accept"
    /\ cur' = NoConn
    /\ UNCHANGED <<cancelled, lnClosed, phase, metricVars>>

\* drain: close(p.work); p.wg.Wait(); p.overflow.Wait()
Drain ==
    /\ srv = "drain"
    /\ closed' = TRUE
    /\ srv' = "workers"
    /\ UNCHANGED <<cur, cancelled, lnClosed, work, queued, overflow, overflowN, wpc, wconn, phase, metricVars>>

\* Faulty variant: drain does not wait for the overflow goroutines.
WaitWorkersOnly ==
    /\ srv = "workers"
    /\ \A w \in Workers : wpc[w] = "exited"
    /\ srv' = "returned"
    /\ UNCHANGED <<cur, cancelled, lnClosed, poolVars, phase, metricVars>>

WaitWorkers ==
    /\ srv = "workers"
    /\ \A w \in Workers : wpc[w] = "exited"
    /\ srv' = "overflow"
    /\ UNCHANGED <<cur, cancelled, lnClosed, poolVars, phase, metricVars>>

WaitOverflow ==
    /\ srv = "overflow"
    /\ overflow = {}
    /\ srv' = "returned"
    /\ UNCHANGED <<cur, cancelled, lnClosed, poolVars, phase, metricVars>>

LoopNext == AcceptError \/ Admit \/ RateCheck \/ Submit \/ Send \/ Drain \/ WaitWorkers \/ WaitOverflow

Cancel ==
    /\ ~cancelled
    /\ cancelled' = TRUE
    /\ UNCHANGED <<srv, cur, lnClosed, poolVars, phase, metricVars>>

\* Faulty variant: nobody closes the listener.
KeepListener == FALSE /\ UNCHANGED vars

\* go func() { <-ctx.Done(); ln.Close() }()
CloseListener ==
    /\ cancelled /\ ~lnClosed
    /\ lnClosed' = TRUE
    /\ UNCHANGED <<srv, cur, cancelled, poolVars, phase, metricVars>>

-----------------------------------------------------------------------------
(* workerPool.run and the overflow goroutines *)

Receive(w) ==
    /\ wpc[w] = "idle" /\ work # <<>>
    /\ wpc' = [wpc EXCEPT ![w] = "got"]
    /\ wconn' = [wconn EXCEPT ![w] = Head(work)]
    /\ work' = Tail(work)
    /\ UNCHANGED <<loopVars, closed, queued, overflow, overflowN, phase, metricVars>>

\* p.queued.Add(-1); fn()
Call(w) ==
    /\ wpc[w] = "got"
    /\ queued' = queued - 1
    /\ wpc' = [wpc EXCEPT ![w] = "run"]
    /\ SetPhase(wconn[w], "fn")
    /\ UNCHANGED <<loopVars, work, closed, overflow, overflowN, wconn, metricVars>>

\* fn has returned: back to the range over the channel.
Return(w) ==
    /\ wpc[w] = "run" /\ phase[wconn[w]] = "done"
    /\ wpc' = [wpc EXCEPT ![w] = "idle"]
    /\ wconn' = [wconn EXCEPT ![w] = NoConn]
    /\ UNCHANGED <<loopVars, work, closed, queued, overflow, overflowN, phase, metricVars>>

\* Faulty variant: a closed channel ends the range although it is not empty.
ExitAtClose(w) ==
    /\ wpc[w] = "idle" /\ closed
    /\ wpc' = [wpc EXCEPT ![w] = "exited"]
    /\ UNCHANGED <<loopVars, work, closed, queued, overflow, overflowN, wconn, phase, metricVars>>

\* The range ends when the channel is closed and empty.
Exit(w) ==
    /\ wpc[w] = "idle" /\ closed /\ work = <<>>
    /\ wpc' = [wpc EXCEPT ![w] = "exited"]
    /\ UNCHANGED <<loopVars, work, closed, queued, overflow, overflowN, wconn, phase, metricVars>>

OverflowCall(c) ==
    /\ c \in overflow /\ phase[c] = "queued"
    /\ SetPhase(c, "fn")
    /\ UNCHANGED <<loopVars, poolVars, metricVars>>

\* overflow_.Add(-1), then overflow.Done()
OverflowReturn(c) ==
    /\ c \in overflow /\ phase[c] = "done"
    /\ overflow' = overflow \ {c}
    /\ overflowN' = overflowN - 1
    /\ UNCHANGED <<loopVars, work, closed, queued, wpc, wconn, phase, metricVars>>

WorkerNext(w) == Receive(w) \/ Call(w) \/ Return(w) \/ Exit(w)
OverflowNext(c) == OverflowCall(c) \/ OverflowReturn(c)

-----------------------------------------------------------------------------
(* Handle *)

\* metrics.ConnOpened(): two atomic counters, one after the other.
ConnOpenedActive(c) ==
    /\ phase[c] = "fn"
    /\ active' = active + 1
    /\ SetPhase(c, "opened")
    /\ UNCHANGED <<loopVars, poolVars, total, failed, bypassOK, bypassFail, relayActive>>
ConnOpenedTotal(c) ==
    /\ phase[c] = "opened"
    /\ total' = total + 1
    /\ SetPhase(c, "dial")
    /\ UNCHANGED <<loopVars, poolVars, active, failed, bypassOK, bypassFail, relayActive>>

DialOk(c) ==
    /\ phase[c] = "dial"
    /\ SetPhase(c, IF Bypass THEN "bypass" ELSE "prerelay")
    /\ UNCHANGED <<loopVars, poolVars, metricVars>>

\* dialWithRetry gave up: metrics.ConnFailed(), two counters again.  It takes
\* the connection out of the gauge, as the deferred ConnClosed will.
ConnFailedTotal(c) ==
    /\ phase[c] = "dial"
    /\ failed' = failed + 1
    /\ SetPhase(c, "failing")
    /\ UNCHANGED <<loopVars, poolVars, active, total, bypassOK, bypassFail, relayActive>>
ConnFailedActive(c) ==
    /\ phase[c] = "failing"
    /\ active' = active - 1
    /\ SetPhase(c, "failed")
    /\ UNCHANGED <<loopVars, poolVars, total, failed, bypassOK, bypassFail, relayActive>>

\* adaptive.Inject: a failure is counted and the connection is relayed all
\* the same.
Inject(c) ==
    /\ phase[c] = "bypass"
    /\ \/ bypassOK' = bypassOK + 1 /\ bypassFail' = bypassFail
       \/ bypassFail' = bypassFail + 1 /\ bypassOK' = bypassOK
    /\ SetPhase(c, "prerelay")
    /\ UNCHANGED <<loopVars, poolVars, active, total, failed, relayActive>>

RelayStarted(c) ==
    /\ phase[c] = "prerelay"
    /\ relayActive' = relayActive + 1
    /\ SetPhase(c, IF LogClientSNI THEN "sni" ELSE "relay")
    /\ UNCHANGED <<loopVars, poolVars, active, total, failed, bypassOK, bypassFail>>

\* readSNI is done with the client and what it read is written; until then the
\* handler waits for the sockets alone and does not see ctx.
SniRead(c) ==
    /\ phase[c] = "sni"
    /\ SetPhase(c, "relay")
    /\ UNCHANGED <<loopVars, poolVars, metricVars>>

\* The relay ends, by itself or because ctx is done, or that first write has
\* failed; the deferred RelayDone runs first (server.Close follows).
RelayDone(c) ==
    /\ phase[c] \in {"sni", "relay"}
    /\ relayActive' = relayActive - 1
    /\ SetPhase(c, "unwind")
    /\ UNCHANGED <<loopVars, poolVars, active, total, failed, bypassOK, bypassFail>>

\* The deferred metrics.ConnClosed()
ConnClosed(c) ==
    /\ phase[c] \in {"failed", "unwind"}
    /\ active' = active - 1
    /\ SetPhase(c, "close")
    /\ UNCHANGED <<loopVars, poolVars, total, failed, bypassOK, bypassFail, relayActive>>

\* The deferred client.Close()
ClientClose(c) ==
    /\ phase[c] = "close"
    /\ SetPhase(c, "done")
    /\ UNCHANGED <<loopVars, poolVars, metricVars>>

HandleNext(c) ==
    \/ ConnOpenedActive(c) \/ ConnOpenedTotal(c)
    \/ DialOk(c)
    \/ ConnFailedTotal(c) \/ ConnFailedActive(c)
    \/ Inject(c)
    \/ RelayStarted(c)
    \/ SniRead(c)
    \/ RelayDone(c)
    \/ ConnClosed(c)
    \/ ClientClose(c)

-----------------------------------------------------------------------------

Init ==
    /\ srv = "accept" /\ cur = NoConn /\ cancelled = FALSE /\ lnClosed = FALSE
    /\ work = <<>> /\ closed = FALSE /\ queued = 0 /\ overflow = {} /\ overflowN = 0
    /\ wpc = [w \in Workers |-> "idle"]
    /\ wconn = [w \in Workers |-> NoConn]
    /\ phase = [c \in Conns |-> "new"]
    /\ active = 0 /\ total = 0 /\ failed = 0
    /\ bypassOK = 0 /\ bypassFail = 0 /\ relayActive = 0

\* ListenAndServe has returned; what is left is the end of startProxy.
Terminated == srv = "returned" /\ lnClosed /\ UNCHANGED vars

Next ==
    \/ \E c \in Conns : Accept(c)
    \/ LoopNext
    \/ Cancel
    \/ CloseListener
    \/ \E w \in Workers : WorkerNext(w)
    \/ \E c \in Conns : OverflowNext(c)
    \/ \E c \in Conns : HandleNext(c)
    \/ Terminated

Spec == Init /\ [][Next]_vars

\* Goroutines keep running, a dial and an injection end within their timeouts,
\* Accept fails once the listener is closed, and a relay ends once ctx is done.
\* A relay with a live ctx may last for ever, the wait for a client's SNI may
\* last for ever whatever ctx is, and nobody has to connect.
HandleProgress(c) == HandleNext(c) /\ phase[c] # "sni" /\ (phase[c] = "relay" => cancelled)
LoopProgress == LoopNext /\ (srv = "accept" => lnClosed)
Fairness ==
    /\ WF_vars(LoopProgress)
    /\ WF_vars(CloseListener)
    /\ \A w \in Workers : WF_vars(WorkerNext(w))
    /\ \A c \in Conns : WF_vars(OverflowNext(c)) /\ WF_vars(HandleProgress(c))

FairSpec == Spec /\ Fairness

-----------------------------------------------------------------------------
(* Properties *)

Admitted == {c \in Conns : phase[c] \notin {"new", "held", "refused"}}

\* The queue gauge never lies by more than the steps in flight: it counts the
\* closures in the channel, the one submit is sending and the ones a worker has
\* received but not yet uncounted.  submit and run update it outside any lock,
\* so it is non-negative only because submit counts before it sends.
QueuedAccounting ==
    queued = Len(work) + (IF srv = "send" THEN 1 ELSE 0)
                       + Cardinality({w \in Workers : wpc[w] = "got"})

\* Every admitted connection is in exactly one place: in submit's hands, in the
\* channel once, with one worker, or with its overflow goroutine, until done.
\* submit's select can neither lose a closure nor run it twice.
Owners(c) ==
    Cardinality({i \in DOMAIN work : work[i] = c}) + Cardinality({w \in Workers : wconn[w] = c})
        + Cardinality({c} \cap overflow) + Cardinality({c} \cap {cur})
OneOwner ==
    \A c \in Conns :
        /\ Owners(c) <= 1
        /\ phase[c] \notin {"new", "refused", "done"} => Owners(c) = 1

\* When ListenAndServe returns, every admitted connection has been handled to
\* the end: main closes the injectors and the logger right after, which a
\* handler that still ran would use.  Nothing is in flight any more, so the
\* counters that many goroutines update without a common lock agree at last:
\* every admitted connection was opened once, and either failed to dial or was
\* injected for once.
DrainComplete ==
    srv = "returned" =>
        /\ \A c \in Admitted : phase[c] = "done"
        /\ work = <<>> /\ queued = 0 /\ overflowN = 0
        /\ total = Cardinality(Admitted) /\ relayActive = 0
        /\ Bypass => total = failed + bypassOK + bypassFail

Pool == INSTANCE JobPool WITH
    Jobs <- Conns,
    waiting <- {c \in Conns : phase[c] = "queued"},
    running <- {c \in Conns : phase[c] \in Running},
    finished <- {c \in Conns : phase[c] = "done"},
    over <- srv = "returned"

\* Channel, workers and overflow goroutines together are a pool of workers: a
\* connection is handed to one goroutine, handled by it once from fn to its end,
\* and drain returns only when the last one has ended, whether it went through
\* the channel or past it.
HandledOnce == Pool!Spec

\* The gauge of active connections counts the connections being served.  Those
\* that are about to be counted, or whose dial has failed, may be counted or not.
ActiveIsCount ==
    LET Count(P) == Cardinality({c \in Conns : phase[c] \in P})
    IN  active \in Count(Served)..Count(Running)

\* A shutdown signal ends the server: the accept loop notices, the workers and
\* the overflow goroutines finish what was queued, and drain returns.  It takes
\* that no handler waits for ever in readSNI, which an idle timeout ensures and
\* which nothing does without one.
ShutdownCompletes ==
    (\A c \in Conns : []<>(phase[c] # "sni")) => (cancelled ~> srv = "returned")

=============================================================================
