--------------------------- MODULE LifecycleProofs ---------------------------
(***************************************************************************)
(* Proofs about Lifecycle for any set of background goroutines, capacity   *)
(* of the log channel, number of signals, and outcome of Listen and of the *)
(* reload.                                                                 *)
(***************************************************************************)
EXTENDS Lifecycle, TLAPS

\* Between the close of the channel and the exit: the channel is closed by Close
\* and by nothing else, writeLoop ends only on a closed and empty channel, which
\* stays empty since a send on it panics, and the process ends after writeLoop.
\* Before the close ctx is cancelled, and a send panics only after it.
CloseOrder ==
    /\ chClosed <=> main \in {"waitlog", "exited"}
    /\ main \in {"closelog", "waitlog", "exited"} => cancelled
    /\ crash = "send" => main = "waitlog"
    /\ writer = "done" => chClosed /\ pending = 0
    /\ main = "exited" => writer = "done"

\* The mutex is held by the reload alone, from Lock to the assignment that
\* overwrites it; so Unlock always finds it free.
MutexOrder == mu = "writer" <=> sigpc = "assign"

IInv == TypeOK /\ CloseOrder /\ MutexOrder

\* The invariant holds at the start.
LEMMA IInvInit == Init => IInv
<1> SUFFICES ASSUME Init PROVE IInv
  OBVIOUS
<1>1. TypeOK
  <2>1. sigCh \in Seq(Signals) /\ Len(sigCh) <= 1
    BY DEF Init
  <2>2. sent \in 0..MaxSignals /\ pending \in 0..LogCap
    BY LogCapAssumption, SignalsAssumption DEF Init
  <2> QED
    BY <2>1, <2>2 DEF Init, TypeOK
<1>2. CloseOrder /\ MutexOrder
  BY DEF Init, CloseOrder, MutexOrder
<1> QED
  BY <1>1, <1>2 DEF IInv

\* A line that is emitted never overfills the channel, and changes nothing of a
\* closed one.
LEMMA EmitType ==
    ASSUME TypeOK, Emit
    PROVE  /\ pending' \in 0..LogCap /\ crash' \in {"none", "unlock", "send"}
           /\ chClosed => pending' = pending
           /\ ~chClosed => crash' = crash
BY LogCapAssumption DEF TypeOK, Emit

\* Every step keeps the invariant.
LEMMA IInvStep == IInv /\ [Next]_vars => IInv'
<1> SUFFICES ASSUME IInv, [Next]_vars PROVE IInv'
  OBVIOUS
<1> USE DEF IInv, sigVars, logVars, Alive
<1>1. ASSUME NEW s \in Signals, Signal(s) PROVE IInv'
  <2>1. sigCh' \in Seq(Signals) /\ Len(sigCh') <= 1
    BY <1>1 DEF Signal, TypeOK
  <2>2. sent' \in 0..MaxSignals
    BY <1>1, SignalsAssumption DEF Signal, TypeOK
  <2>3. termTaken' \in BOOLEAN
    BY <1>1 DEF Signal
  <2> QED
    BY <1>1, <2>1, <2>2, <2>3 DEF Signal, TypeOK, CloseOrder, MutexOrder
<1>2. CASE TakeSignal
  <2>1. sigCh' \in Seq(Signals) /\ Len(sigCh') <= 1
    BY <1>2 DEF TakeSignal
  <2> QED
    BY <1>2, <2>1, EmitType DEF TakeSignal, TypeOK, CloseOrder, MutexOrder
<1>3. CASE LoadConfig
  BY <1>3, EmitType DEF LoadConfig, TypeOK, CloseOrder, MutexOrder
<1>4. CASE LockConfig \/ AssignConfig \/ UnlockConfig
  BY <1>4 DEF LockConfig, AssignConfig, UnlockConfig, TypeOK, CloseOrder, MutexOrder
<1>5. CASE CancelCtx
  BY <1>5 DEF CancelCtx, TypeOK, CloseOrder, MutexOrder
<1>6. CASE ServeLog
  BY <1>6, EmitType DEF ServeLog, TypeOK, CloseOrder, MutexOrder
<1>7. CASE Listen \/ ServeReturn \/ Defers
  <2>1. main \in {"listen", "serve", "defers"} /\ main' \in {"serve", "defers", "closelog"}
    BY <1>7 DEF Listen, ServeReturn, Defers
  <2>2. cancelled' \in BOOLEAN
    BY <1>7 DEF Listen, ServeReturn, Defers, TypeOK
  <2> QED
    BY <1>7, <2>1, <2>2 DEF Listen, ServeReturn, Defers, TypeOK, CloseOrder, MutexOrder
<1>8. CASE CloseLog \/ WaitLog
  BY <1>8 DEF CloseLog, WaitLog, TypeOK, CloseOrder, MutexOrder
<1>9. CASE WriteLine
  <2>1. pending' \in 0..LogCap
    BY <1>9, LogCapAssumption DEF WriteLine, TypeOK
  <2> QED
    BY <1>9, <2>1 DEF WriteLine, TypeOK, CloseOrder, MutexOrder
<1>10. CASE WriterDone
  BY <1>10 DEF WriterDone, TypeOK, CloseOrder, MutexOrder
<1>11. ASSUME NEW e \in Emitters, StartRound(e) \/ Stop(e) PROVE IInv'
  BY <1>11 DEF StartRound, Stop, TypeOK, CloseOrder, MutexOrder
<1>12. ASSUME NEW e \in Emitters, EndRound(e) PROVE IInv'
  <2>1. emitter' \in [Emitters -> {"idle", "busy", "off"}]
    BY <1>12 DEF EndRound, TypeOK
  <2> QED
    BY <1>12, <2>1, EmitType DEF EndRound, TypeOK, CloseOrder, MutexOrder
<1>13. CASE UNCHANGED vars
  BY <1>13 DEF vars, TypeOK, CloseOrder, MutexOrder
<1> QED
  BY <1>1, <1>2, <1>3, <1>4, <1>5, <1>6, <1>7, <1>8, <1>9, <1>10, <1>11, <1>12, <1>13
  DEF Next, SigNext, MainNext, EmitterNext, Ended

\* The invariant holds in every reachable state.
THEOREM Invariance == Spec => []IInv
BY IInvInit, IInvStep, PTL DEF Spec

\* A process that ends on its own terms has written every line its logger took.
THEOREM ExitFlushesLog == Spec => []LogFlushed
<1>1. IInv => LogFlushed
  BY DEF IInv, CloseOrder, LogFlushed
<1> QED
  BY <1>1, Invariance, PTL

\* A line logged too late costs no connection: the panic comes after
\* ListenAndServe has returned and ctx is done, while main waits in Close.
THEOREM PanicOnlyInClose == Spec => []PanicIsLate
<1>1. IInv => PanicIsLate
  BY DEF IInv, CloseOrder, PanicIsLate
<1> QED
  BY <1>1, Invariance, PTL

\* A reload that loads its file is fatal, whatever else happens meanwhile: the
\* assignment has overwritten the mutex, so Unlock never finds it locked.
THEOREM ReloadIsFatal == Spec => [][UnlockConfig => crash' = "unlock"]_vars
<1>1. IInv /\ UnlockConfig => crash' = "unlock"
  BY DEF IInv, MutexOrder, UnlockConfig, TypeOK
<1>2. IInv /\ [Next]_vars => [UnlockConfig => crash' = "unlock"]_vars
  BY <1>1
<1> QED
  BY <1>2, Invariance, PTL DEF Spec
=============================================================================
