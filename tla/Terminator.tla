----------------------------- MODULE Terminator -----------------------------
(***************************************************************************)
(* The shutdown protocol of the agent: the collector loop waits on a       *)
(* terminator (a mutex, a condition variable and a flag), and the handler  *)
(* of SIGINT and SIGTERM logs a line and kills the terminator from inside  *)
(* the signal handler, on whichever thread the kernel delivers the signal  *)
(* to.  While a handler runs, the code it interrupted on that thread does  *)
(* not; a std::mutex that the interrupted code holds stays held.           *)
(*                                                                         *)
(* The loop is seen through its locks only: a call of the logger, which    *)
(* holds the asynchronous queue's mutex for a moment (the warning of a     *)
(* wait_for without time left is such a call), or a wait.                  *)
(***************************************************************************)
CONSTANTS DeliverTo   \* the threads a signal can be delivered to

\* The collecting thread, the thread that drains the log queue, and one of a
\* vendor library, which takes none of the locks modelled here.
Threads == {"main", "logger", "library"}

ASSUME TerminatorAssumption == DeliverTo \subseteq Threads

Signals == {"SIGINT", "SIGTERM"}

\* Who can own a mutex: the program of a thread, or the handler running on it.
Program(t) == <<"program", t>>
Handler(t) == <<"handler", t>>
Nobody == <<"nobody", "nobody">>
Owners == ({"program", "handler"} \X Threads) \cup {Nobody}

VARIABLES pc,           \* where the collector loop is
          drainer,      \* "idle" or "draining": the thread of the log queue
          handler,      \* for each thread, where the handler running on it is
          disposition,  \* for each signal, "handle" or "default"
          m,            \* owner of terminator::m
          queue,        \* owner of the log queue's mutex
          terminate,    \* terminator::terminate
          waiter,       \* "none", "waiting" or "notified": the loop on the cv
          timedOut,     \* whether the wait in progress ran out of time
          dead          \* whether a signal's default action ended the process

vars == <<pc, drainer, handler, disposition, m, queue, terminate, waiter,
          timedOut, dead>>

PCs == {"work", "logging", "checking", "blocking", "blocked", "ended"}
HandlerPCs == {"none", "log", "logging", "kill", "locked", "set"}

Init ==
    /\ pc = "work"
    /\ drainer = "idle"
    /\ handler = [t \in Threads |-> "none"]
    /\ disposition = [s \in Signals |-> "handle"]
    /\ m = Nobody
    /\ queue = Nobody
    /\ terminate = FALSE
    /\ waiter = "none"
    /\ timedOut = FALSE
    /\ dead = FALSE

\* A thread runs its program only while no handler runs on it.
Runs(t) == ~dead /\ handler[t] = "none"

-----------------------------------------------------------------------------
\* The collector loop.
LogBegin ==
    /\ Runs("main")
    /\ pc = "work"
    /\ queue = Nobody
    /\ queue' = Program("main")
    /\ pc' = "logging"
    /\ UNCHANGED <<drainer, handler, disposition, m, terminate, waiter,
                   timedOut, dead>>

LogEnd ==
    /\ Runs("main")
    /\ pc = "logging"
    /\ queue' = Nobody
    /\ pc' = "work"
    /\ UNCHANGED <<drainer, handler, disposition, m, terminate, waiter,
                   timedOut, dead>>

\* wait_for with time left: the mutex is taken ...
WaitLock ==
    /\ Runs("main")
    /\ pc = "work"
    /\ m = Nobody
    /\ m' = Program("main")
    /\ timedOut' = FALSE
    /\ pc' = "checking"
    /\ UNCHANGED <<drainer, handler, disposition, queue, terminate, waiter,
                   dead>>

\* ... the predicate looked at: true, or false with no time left, it ends the
\* wait and the mutex is released ...
AfterCheckNoRecheck ==
    IF timedOut THEN "work" ELSE IF terminate THEN "ended" ELSE "blocking"
AfterCheck ==
    IF terminate THEN "ended" ELSE IF timedOut THEN "work" ELSE "blocking"

WaitCheck ==
    /\ Runs("main")
    /\ pc = "checking"
    /\ pc' = AfterCheck
    /\ m' = IF pc' = "blocking" THEN m ELSE Nobody
    /\ UNCHANGED <<drainer, handler, disposition, queue, terminate, waiter,
                   timedOut, dead>>

\* ... and otherwise given up and the thread blocked, in one step.
WaitBlock ==
    /\ Runs("main")
    /\ pc = "blocking"
    /\ m' = Nobody
    /\ waiter' = "waiting"
    /\ pc' = "blocked"
    /\ UNCHANGED <<drainer, handler, disposition, queue, terminate, timedOut,
                   dead>>

\* Notified, timed out or spurious, the wake-up takes the mutex first; the
\* time may also run out while a notified thread waits for the mutex.
WaitWake ==
    /\ Runs("main")
    /\ pc = "blocked"
    /\ m = Nobody
    /\ m' = Program("main")
    /\ timedOut' \in BOOLEAN
    /\ waiter' = "none"
    /\ pc' = "checking"
    /\ UNCHANGED <<drainer, handler, disposition, queue, terminate, dead>>

-----------------------------------------------------------------------------
\* The thread that drains the asynchronous log queue.
DrainBegin ==
    /\ Runs("logger")
    /\ drainer = "idle"
    /\ queue = Nobody
    /\ queue' = Program("logger")
    /\ drainer' = "draining"
    /\ UNCHANGED <<pc, handler, disposition, m, terminate, waiter, timedOut,
                   dead>>

DrainEnd ==
    /\ Runs("logger")
    /\ drainer = "draining"
    /\ queue' = Nobody
    /\ drainer' = "idle"
    /\ UNCHANGED <<pc, handler, disposition, m, terminate, waiter, timedOut,
                   dead>>

-----------------------------------------------------------------------------
\* handle_signal, run on thread t.
At(t, here, next) ==
    /\ ~dead
    /\ handler[t] = here
    /\ handler' = [handler EXCEPT ![t] = next]

\* The kernel delivers a signal: to the handler once (SA_RESETHAND), with
\* every signal blocked on that thread (sigfillset), then to the default
\* action, which ends the process.
Deliver(s, t) ==
    /\ disposition[s] = "handle"
    /\ At(t, "none", "log")
    /\ disposition' = [disposition EXCEPT ![s] = "default"]
    /\ UNCHANGED <<pc, drainer, m, queue, terminate, waiter, timedOut, dead>>

DeliverDefault(s, t) ==
    /\ disposition[s] = "default"
    /\ Runs(t)
    /\ dead' = TRUE
    /\ UNCHANGED <<pc, drainer, handler, disposition, m, queue, terminate,
                   waiter, timedOut>>

HandlerLogBegin(t) ==
    /\ At(t, "log", "logging")
    /\ queue = Nobody
    /\ queue' = Handler(t)
    /\ UNCHANGED <<pc, drainer, disposition, m, terminate, waiter, timedOut,
                   dead>>

HandlerLogEnd(t) ==
    /\ At(t, "logging", "kill")
    /\ queue' = Nobody
    /\ UNCHANGED <<pc, drainer, disposition, m, terminate, waiter, timedOut,
                   dead>>

\* terminator::kill: lock, set, notify, unlock.
KillLockSkipped(t) ==
    /\ At(t, "kill", "locked")
    /\ UNCHANGED <<pc, drainer, disposition, m, queue, terminate, waiter,
                   timedOut, dead>>

KillLock(t) ==
    /\ At(t, "kill", "locked")
    /\ m = Nobody
    /\ m' = Handler(t)
    /\ UNCHANGED <<pc, drainer, disposition, queue, terminate, waiter,
                   timedOut, dead>>

KillSet(t) ==
    /\ At(t, "locked", "set")
    /\ terminate' = TRUE
    /\ UNCHANGED <<pc, drainer, disposition, m, queue, waiter, timedOut, dead>>

KillNotifyStillLocked(t) ==
    /\ At(t, "set", "none")
    /\ waiter' = IF waiter = "waiting" THEN "notified" ELSE waiter
    /\ UNCHANGED <<pc, drainer, disposition, m, queue, terminate, timedOut, dead>>

KillNotify(t) ==
    /\ At(t, "set", "none")
    /\ waiter' = IF waiter = "waiting" THEN "notified" ELSE waiter
    /\ m' = Nobody
    /\ UNCHANGED <<pc, drainer, disposition, queue, terminate, timedOut, dead>>

-----------------------------------------------------------------------------
Main == LogBegin \/ LogEnd \/ WaitLock \/ WaitCheck
        \/ WaitBlock \/ WaitWake
Drain == DrainBegin \/ DrainEnd
HandlerStep(t) ==
    \/ HandlerLogBegin(t)
    \/ HandlerLogEnd(t)
    \/ KillLock(t)
    \/ KillSet(t)
    \/ KillNotify(t)
Kernel ==
    \E t \in DeliverTo, s \in Signals : Deliver(s, t) \/ DeliverDefault(s, t)

\* The process, or its loop, is over.
Halted == (dead \/ pc = "ended") /\ UNCHANGED vars

Next == Main \/ Drain \/ (\E t \in Threads : HandlerStep(t)) \/ Kernel \/ Halted

Spec == Init /\ [][Next]_vars

(***************************************************************************)
(* Every thread is scheduled.  A mutex that is free again and again is     *)
(* obtained by whoever keeps asking for it, and a loop that keeps up with  *)
(* its schedule waits again and again (AgentLoop!KillStopsLoop says when   *)
(* it does).  No signal has to come.                                       *)
(***************************************************************************)
FairSpec ==
    /\ Spec
    /\ WF_vars(LogEnd)
    /\ WF_vars(WaitCheck \/ WaitBlock)
    /\ SF_vars(WaitLock)
    /\ SF_vars(WaitWake)
    /\ WF_vars(DrainEnd)
    /\ \A t \in Threads : SF_vars(HandlerStep(t))

-----------------------------------------------------------------------------
(***************************************************************************)
(* Every variable has its type, and each mutex is owned by whoever is at a *)
(* point of its code between the lock and the unlock.                      *)
(***************************************************************************)
Types ==
    /\ pc \in PCs
    /\ drainer \in {"idle", "draining"}
    /\ handler \in [Threads -> HandlerPCs]
    /\ disposition \in [Signals -> {"handle", "default"}]
    /\ m \in Owners
    /\ queue \in Owners
    /\ terminate \in BOOLEAN
    /\ waiter \in {"none", "waiting", "notified"}
    /\ timedOut \in BOOLEAN
    /\ dead \in BOOLEAN

Ownership ==
    /\ m = Program("main") <=> pc \in {"checking", "blocking"}
    /\ queue = Program("main") <=> pc = "logging"
    /\ queue = Program("logger") <=> drainer = "draining"
    /\ \A t \in Threads :
          /\ m = Handler(t) <=> handler[t] \in {"locked", "set"}
          /\ queue = Handler(t) <=> handler[t] = "logging"

TypeOK == Types /\ Ownership

(***************************************************************************)
(* A kill that has come and gone leaves no loop asleep: if the flag is set *)
(* and the handler that set it is past its notification, a loop blocked on *)
(* the condition variable has been notified.                               *)
(***************************************************************************)
NoLostWakeup ==
    terminate /\ pc = "blocked" =>
        waiter = "notified" \/ \E t \in Threads : handler[t] = "set"

(***************************************************************************)
(* A signal that was handled ends the loop, or the process if it is sent   *)
(* again: atlas-agent.h:24, "Graceful-shutdown coordination shared by      *)
(* main()'s signal handler (which kills it) and the collector loops (which *)
(* wait on it)".                                                           *)
(***************************************************************************)
SignalEndsLoop ==
    (\E s \in Signals : disposition[s] = "default") ~> (pc = "ended" \/ dead)

(***************************************************************************)
(* It does if the kernel happens to deliver the signals to a thread that   *)
(* takes none of the agent's locks: the handler gets the log queue and the *)
(* mutex of the terminator from threads that go on running, and the loop   *)
(* leaves its wait, wherever it was when the signal came.                  *)
(***************************************************************************)
HandlerElsewhereEndsLoop ==
    [](handler["main"] = "none" /\ handler["logger"] = "none")
        => SignalEndsLoop

-----------------------------------------------------------------------------
\* The promise the terminator makes: see AtomicWait.
Atomic == INSTANCE AtomicWait WITH
    killed <- terminate,
    loop <- CASE pc \in {"checking", "blocking", "blocked"} -> "waiting"
              [] pc = "ended" -> "ended"
              [] OTHER -> "running"

\* Locks, flag and condition variable together behave as AtomicWait does.
ImplementsAtomicWait == Atomic!Spec
=============================================================================
