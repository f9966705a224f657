----------------------------- MODULE Lifecycle -----------------------------
(***************************************************************************)
(* The process: startProxy with its signal goroutine and its deferred      *)
(* calls (cmd/ghostnet/main.go), the asynchronous logger                   *)
(* (internal/log/logger.go), the configuration's RWMutex                   *)
(* (internal/config/config.go), and the background goroutines that log on  *)
(* their own: health probes (routing/router.go) and the stats loop.        *)
(*                                                                         *)
(* The server is one step here: it returns once ctx is cancelled, and its  *)
(* handlers are gone by then (Server: DrainComplete, ShutdownCompletes).   *)
(* Log lines are counted, not spelt; the level filter is left out.         *)
(***************************************************************************)
EXTENDS Integers, Sequences

CONSTANTS Emitters,    \* goroutines that log and are waited for by nobody
          LogCap,      \* capacity of Logger.ch (4096 in the code)
          Signals,     \* the signals that may arrive: "term", "hup"
          MaxSignals,  \* bound: signals sent to the process
          ConfigOK,    \* the outcomes config.Load may have on reload
          ListenOK     \* the outcomes net.Listen may have

ASSUME LogCapAssumption == LogCap \in Nat \ {0}
ASSUME SignalsAssumption == Signals \subseteq {"term", "hup"} /\ MaxSignals \in Nat
ASSUME ConfigAssumption == ConfigOK \subseteq BOOLEAN /\ ListenOK \subseteq BOOLEAN

VARIABLES main,       \* where startProxy is
          sigCh,      \* the signal channel, capacity 1
          sigpc,      \* where the signal goroutine is
          sent,       \* signals sent so far
          termTaken,  \* ... and reached the channel
          mu,         \* Config.mu
          cancelled,  \* ctx is done
          emitter,    \* the background goroutines
          pending,    \* lines in Logger.ch
          chClosed,   \* Logger.ch is closed
          writer,     \* writeLoop
          crash       \* why the process died, if it did

sigVars == <<sigCh, sigpc, sent, termTaken, mu>>
logVars == <<pending, chClosed, writer>>
vars == <<main, sigVars, cancelled, emitter, logVars, crash>>

TypeOK ==
    /\ main \in {"listen", "serve", "defers", "closelog", "waitlog", "exited"}
    /\ sigCh \in Seq(Signals) /\ Len(sigCh) <= 1
    /\ sigpc \in {"wait", "load", "lock", "assign", "unlock", "cancel", "gone"}
    /\ sent \in 0..MaxSignals /\ termTaken \in BOOLEAN
    /\ mu \in {"free", "writer"}
    /\ cancelled \in BOOLEAN
    /\ emitter \in [Emitters -> {"idle", "busy", "off"}]
    /\ pending \in 0..LogCap /\ chClosed \in BOOLEAN
    /\ writer \in {"loop", "done"}
    /\ crash \in {"none", "unlock", "send"}

Alive == crash = "none" /\ main # "exited"

-----------------------------------------------------------------------------
(* Logger *)

\* emit: a non-blocking send, which drops the line when the channel is full
\* and panics when it is closed.
Emit ==
    \/ chClosed /\ crash' = "send" /\ pending' = pending
    \/ ~chClosed /\ crash' = crash /\ pending' = IF pending < LogCap THEN pending + 1 ELSE pending

\* One line of writeLoop.
WriteLine ==
    /\ Alive /\ pending > 0
    /\ pending' = pending - 1
    /\ UNCHANGED <<main, sigVars, cancelled, emitter, chClosed, writer, crash>>

\* The range ends when the channel is closed and drained.
WriterDone ==
    /\ Alive /\ writer = "loop" /\ chClosed /\ pending = 0
    /\ writer' = "done"
    /\ UNCHANGED <<main, sigVars, cancelled, emitter, pending, chClosed, crash>>

-----------------------------------------------------------------------------
(* Signals *)

\* signal.Notify's sender does not block: with the channel full the signal is
\* lost.
Signal(s) ==
    /\ Alive /\ sent < MaxSignals
    /\ sent' = sent + 1
    /\ sigCh' = IF sigCh = <<>> THEN <<s>> ELSE sigCh
    /\ termTaken' = (termTaken \/ (s = "term" /\ sigCh = <<>>))
    /\ UNCHANGED <<main, sigpc, mu, cancelled, emitter, logVars, crash>>

\* for sig := range sigCh, and the line it logs first.
TakeSignal ==
    /\ Alive /\ sigpc = "wait" /\ sigCh # <<>>
    /\ sigpc' = IF Head(sigCh) = "hup" THEN "load" ELSE "cancel"
    /\ sigCh' = <<>>
    /\ Emit
    /\ UNCHANGED <<main, sent, termTaken, mu, cancelled, emitter, chClosed, writer>>

\* config.Load(cfgFile); on an error: log it, continue.
LoadConfig ==
    /\ Alive /\ sigpc = "load"
    /\ \/ /\ TRUE \in ConfigOK
          /\ sigpc' = "lock"
          /\ UNCHANGED <<pending, crash>>
       \/ /\ FALSE \in ConfigOK
          /\ sigpc' = "wait"
          /\ Emit
    /\ UNCHANGED <<main, sigCh, sent, termTaken, mu, cancelled, emitter, chClosed, writer>>

\* cfg.Lock()
LockConfig ==
    /\ Alive /\ sigpc = "lock" /\ mu = "free"
    /\ mu' = "writer"
    /\ sigpc' = "assign"
    /\ UNCHANGED <<main, sigCh, sent, termTaken, cancelled, emitter, logVars, crash>>

\* *cfg = safe: every field, the mutex too, which SafeCopy has zeroed.
AssignConfig ==
    /\ Alive /\ sigpc = "assign"
    /\ mu' = "free"
    /\ sigpc' = "unlock"
    /\ UNCHANGED <<main, sigCh, sent, termTaken, cancelled, emitter, logVars, crash>>

\* cfg.Unlock(): fatal on a mutex that is not locked.  What follows it in the
\* code (SetLevel and two log lines) is therefore never reached.
UnlockConfig ==
    /\ Alive /\ sigpc = "unlock"
    /\ crash' = IF mu = "writer" THEN crash ELSE "unlock"
    /\ mu' = "free"
    /\ sigpc' = "wait"
    /\ UNCHANGED <<main, sigCh, sent, termTaken, cancelled, emitter, logVars>>

\* Faulty variant: the goroutine returns without cancel().
ReturnOnly ==
    /\ Alive /\ sigpc = "cancel"
    /\ sigpc' = "gone"
    /\ UNCHANGED <<main, sigCh, sent, termTaken, mu, cancelled, emitter, logVars, crash>>

\* cancel(); return: no signal is received any more.
CancelCtx ==
    /\ Alive /\ sigpc = "cancel"
    /\ cancelled' = TRUE
    /\ sigpc' = "gone"
    /\ UNCHANGED <<main, sigCh, sent, termTaken, mu, emitter, logVars, crash>>

SigNext == TakeSignal \/ LoadConfig \/ LockConfig \/ AssignConfig \/ UnlockConfig \/ CancelCtx

-----------------------------------------------------------------------------
(* startProxy *)

\* net.Listen: on an error ListenAndServe returns at once, with the signal
\* goroutine, the health checks and the stats loop already started.
Listen ==
    /\ Alive /\ main = "listen"
    /\ \E ok \in ListenOK : main' = IF ok THEN "serve" ELSE "defers"
    /\ UNCHANGED <<sigVars, cancelled, emitter, logVars, crash>>

\* ListenAndServe and its handlers log while they run.
ServeLog ==
    /\ Alive /\ main = "serve"
    /\ Emit
    /\ UNCHANGED <<main, sigVars, cancelled, emitter, chClosed, writer>>

\* ListenAndServe returns: ctx is done and the pool drained.
ServeReturn ==
    /\ Alive /\ main = "serve" /\ cancelled
    /\ main' = "defers"
    /\ UNCHANGED <<sigVars, cancelled, emitter, logVars, crash>>

\* defer adaptive.Close(), defer cancel()
Defers ==
    /\ Alive /\ main = "defers"
    /\ cancelled' = TRUE
    /\ main' = "closelog"
    /\ UNCHANGED <<sigVars, emitter, logVars, crash>>

\* Faulty variant: the logger is closed before ctx is cancelled.
CloseLogFirst ==
    /\ Alive /\ main \in {"defers", "closelog"}
    /\ chClosed' = TRUE
    /\ main' = "waitlog"
    /\ UNCHANGED <<sigVars, cancelled, emitter, pending, writer, crash>>

\* defer logger.Close(): close(l.ch)
CloseLog ==
    /\ Alive /\ main = "closelog"
    /\ chClosed' = TRUE
    /\ main' = "waitlog"
    /\ UNCHANGED <<sigVars, cancelled, emitter, pending, writer, crash>>

\* Faulty variant: Close does not wait for writeLoop.
NoWaitLog ==
    /\ Alive /\ main = "waitlog"
    /\ main' = "exited"
    /\ UNCHANGED <<sigVars, cancelled, emitter, logVars, crash>>

\* <-l.done, and the process ends.
WaitLog ==
    /\ Alive /\ main = "waitlog" /\ writer = "done"
    /\ main' = "exited"
    /\ UNCHANGED <<sigVars, cancelled, emitter, logVars, crash>>

MainNext == Listen \/ ServeReturn \/ Defers \/ CloseLog \/ WaitLog

-----------------------------------------------------------------------------
(* Health probes and the stats loop *)

\* A tick of the ticker starts a round of work.  The select may choose it even
\* when ctx is done as well.
StartRound(e) ==
    /\ Alive /\ emitter[e] = "idle"
    /\ emitter' = [emitter EXCEPT ![e] = "busy"]
    /\ UNCHANGED <<main, sigVars, cancelled, logVars, crash>>

\* The round ends with a log line: after a probe of up to 3 s, after Snapshot.
EndRound(e) ==
    /\ Alive /\ emitter[e] = "busy"
    /\ emitter' = [emitter EXCEPT ![e] = "idle"]
    /\ Emit
    /\ UNCHANGED <<main, sigVars, cancelled, chClosed, writer>>

\* case <-ctx.Done(): return
Stop(e) ==
    /\ Alive /\ emitter[e] = "idle" /\ cancelled
    /\ emitter' = [emitter EXCEPT ![e] = "off"]
    /\ UNCHANGED <<main, sigVars, cancelled, logVars, crash>>

EmitterNext(e) == StartRound(e) \/ EndRound(e) \/ Stop(e)

-----------------------------------------------------------------------------

Init ==
    /\ main = "listen"
    /\ sigCh = <<>> /\ sigpc = "wait" /\ sent = 0
    /\ termTaken = FALSE /\ mu = "free"
    /\ cancelled = FALSE
    /\ emitter = [e \in Emitters |-> "idle"]
    /\ pending = 0 /\ chClosed = FALSE /\ writer = "loop"
    /\ crash = "none"

Ended == ~Alive /\ UNCHANGED vars

Next ==
    \/ \E s \in Signals : Signal(s)
    \/ SigNext
    \/ ServeLog
    \/ MainNext
    \/ WriteLine
    \/ WriterDone
    \/ \E e \in Emitters : EmitterNext(e)
    \/ Ended

Spec == Init /\ [][Next]_vars

\* The runtime schedules every goroutine; the server returns once ctx is done
\* (Server's ShutdownCompletes).  Nobody has to send a signal.
Fairness ==
    /\ WF_vars(SigNext) /\ WF_vars(MainNext)
    /\ WF_vars(WriteLine) /\ WF_vars(WriterDone)
    /\ \A e \in Emitters : WF_vars(EndRound(e))

FairSpec == Spec /\ Fairness

-----------------------------------------------------------------------------
(* Properties *)

\* A process that ends on its own terms has written every line the logger
\* accepted: Close waits until writeLoop has drained the closed channel.
LogFlushed == main = "exited" => pending = 0 /\ writer = "done"

\* A background goroutine that logs too late panics, which ends the process at
\* once.  That happens only after ListenAndServe has returned, with ctx done and
\* main in Close: it costs lines of the log, never a connection.
PanicIsLate == crash = "send" => main = "waitlog" /\ cancelled

\* A shutdown signal that the signal goroutine gets to see ends the process,
\* whatever reloads went before it.
TermEndsProcess == termTaken ~> ~Alive

\* "Live config reload (no restart)": a reload does not end the process.
ReloadSurvives == crash # "unlock"
=============================================================================
