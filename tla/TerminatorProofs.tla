-------------------------- MODULE TerminatorProofs --------------------------
(* What TLAPS proves of Terminator, for signals delivered to any threads.  *)
EXTENDS Terminator, TLAPS

(***************************************************************************)
(* The inductive invariant: the owners of the mutexes (TypeOK), the loop   *)
(* is registered with the condition variable exactly while it is blocked,  *)
(* and between its check of the flag and its blocking the flag stays down. *)
(* The last is what holding terminator::m is for.                          *)
(***************************************************************************)
Registered == pc = "blocked" <=> waiter # "none"
FlagDown == pc = "blocking" => ~terminate

IInv == TypeOK /\ Registered /\ FlagDown /\ NoLostWakeup

LEMMA OwnersDiffer ==
    /\ \A t \in Threads : Program(t) \in Owners /\ Handler(t) \in Owners
    /\ Nobody \in Owners
    /\ \A t, u \in Threads : Program(t) # Handler(u)
    /\ \A t, u \in Threads : Program(t) = Program(u) => t = u
    /\ \A t, u \in Threads : Handler(t) = Handler(u) => t = u
    /\ \A t \in Threads : Program(t) # Nobody /\ Handler(t) # Nobody
    /\ "main" \in Threads /\ "logger" \in Threads
    /\ Program("main") # Program("logger")
BY DEF Owners, Program, Handler, Nobody, Threads

LEMMA InitInvariant == Init => IInv
<1> SUFFICES ASSUME Init PROVE IInv
  OBVIOUS
<1>1. terminate = FALSE /\ timedOut = FALSE /\ dead = FALSE
  BY DEF Init
<1>2. pc = "work" /\ drainer = "idle" /\ waiter = "none" /\ m = Nobody /\ queue = Nobody
  BY DEF Init
<1>3. handler = [t \in Threads |-> "none"] /\ disposition = [s \in Signals |-> "handle"]
  BY DEF Init
<1>4. Types
  <2>1. terminate \in BOOLEAN /\ timedOut \in BOOLEAN /\ dead \in BOOLEAN
    BY <1>1
  <2>2. handler \in [Threads -> HandlerPCs]
    BY <1>3 DEF HandlerPCs
  <2>3. disposition \in [Signals -> {"handle", "default"}]
    BY <1>3
  <2> QED BY <1>2, <2>1, <2>2, <2>3, OwnersDiffer DEF Types, PCs
<1>5. Ownership
  BY <1>2, <1>3, OwnersDiffer DEF Ownership
<1>6. Registered /\ FlagDown /\ NoLostWakeup
  BY <1>1, <1>2 DEF Registered, FlagDown, NoLostWakeup
<1> QED BY <1>4, <1>5, <1>6 DEF IInv, TypeOK

-----------------------------------------------------------------------------
LEMMA StepInvariant == IInv /\ [Next]_vars => IInv'
<1> SUFFICES ASSUME IInv, [Next]_vars PROVE IInv'
  OBVIOUS
<1> USE OwnersDiffer
    DEF IInv, TypeOK, Types, Ownership, Registered, FlagDown, NoLostWakeup, PCs
<1>1. CASE LogBegin
  BY <1>1 DEF LogBegin, Runs
<1>2. CASE LogEnd
  BY <1>2 DEF LogEnd, Runs
<1>3. CASE WaitLock
  BY <1>3 DEF WaitLock, Runs
<1>4. CASE WaitCheck
  BY <1>4 DEF WaitCheck, AfterCheck, Runs
<1>5. CASE WaitBlock
  BY <1>5 DEF WaitBlock, Runs
<1>6. CASE WaitWake
  BY <1>6 DEF WaitWake, Runs
<1>7. CASE DrainBegin
  BY <1>7 DEF DrainBegin, Runs
<1>8. CASE DrainEnd
  BY <1>8 DEF DrainEnd, Runs
<1>9. ASSUME NEW t \in Threads, HandlerLogBegin(t)
      PROVE  IInv'
  BY <1>9 DEF HandlerLogBegin, At, HandlerPCs
<1>10. ASSUME NEW t \in Threads, HandlerLogEnd(t)
       PROVE  IInv'
  BY <1>10 DEF HandlerLogEnd, At, HandlerPCs
<1>11. ASSUME NEW t \in Threads, KillLock(t)
       PROVE  IInv'
  BY <1>11 DEF KillLock, At, HandlerPCs
<1>12. ASSUME NEW t \in Threads, KillSet(t)
       PROVE  IInv'
  BY <1>12 DEF KillSet, At, HandlerPCs
<1>13. ASSUME NEW t \in Threads, KillNotify(t)
       PROVE  IInv'
  BY <1>13 DEF KillNotify, At, HandlerPCs
<1>14. ASSUME NEW t \in Threads, NEW s \in Signals, Deliver(s, t)
       PROVE  IInv'
  BY <1>14 DEF Deliver, At, HandlerPCs
<1>15. ASSUME NEW t \in Threads, NEW s \in Signals, DeliverDefault(s, t)
       PROVE  IInv'
  BY <1>15 DEF DeliverDefault
<1>16. CASE UNCHANGED vars
  BY <1>16 DEF vars
<1> QED
  BY <1>1, <1>2, <1>3, <1>4, <1>5, <1>6, <1>7, <1>8, <1>9, <1>10, <1>11, <1>12,
     <1>13, <1>14, <1>15, <1>16, TerminatorAssumption
  DEF Next, Main, Drain, HandlerStep, Kernel, Halted

LEMMA Invariant == Spec => []IInv
BY InitInvariant, StepInvariant, PTL DEF Spec

(* The mutexes are owned by whoever is between a lock and an unlock: at    *)
(* most one thread, or the handler that interrupted one, at a time.        *)
THEOREM LocksExclusive == Spec => []TypeOK
<1>1. IInv => TypeOK
  BY DEF IInv
<1> QED BY <1>1, Invariant, PTL

(* No kill is lost on a loop that is about to block (lines 39-46 of        *)
(* atlas-agent.h).                                                         *)
THEOREM NoKillLost == Spec => []NoLostWakeup
<1>1. IInv => NoLostWakeup
  BY DEF IInv
<1> QED BY <1>1, Invariant, PTL

-----------------------------------------------------------------------------
LEMMA StepRefines ==
    ASSUME IInv, [Next]_vars
    PROVE  [Atomic!Next]_(Atomic!avars)
<1> USE DEF IInv, TypeOK, Types, PCs, Atomic!Next, Atomic!avars
<1>1. CASE LogBegin
  BY <1>1 DEF LogBegin
<1>2. CASE LogEnd
  BY <1>2 DEF LogEnd
<1>3. CASE WaitLock
  BY <1>3 DEF WaitLock, Atomic!Begin
<1>4. CASE WaitCheck
  BY <1>4 DEF WaitCheck, AfterCheck, Atomic!GoOn, Atomic!EndLoop
<1>5. CASE WaitBlock
  BY <1>5 DEF WaitBlock
<1>6. CASE WaitWake
  BY <1>6 DEF WaitWake
<1>7. CASE Drain
  BY <1>7 DEF Drain, DrainBegin, DrainEnd
<1>8. ASSUME NEW t \in Threads, HandlerStep(t)
      PROVE  [Atomic!Next]_(Atomic!avars)
  <2>1. CASE KillSet(t)
    BY <2>1 DEF KillSet, Atomic!Kill
  <2>2. CASE HandlerLogBegin(t) \/ HandlerLogEnd(t) \/ KillLock(t) \/ KillNotify(t)
    BY <2>2 DEF HandlerLogBegin, HandlerLogEnd, KillLock, KillNotify
  <2> QED BY <1>8, <2>1, <2>2 DEF HandlerStep
<1>9. CASE Kernel
  BY <1>9 DEF Kernel, Deliver, DeliverDefault
<1>10. CASE UNCHANGED vars
  BY <1>10 DEF vars
<1> QED
  BY <1>1, <1>2, <1>3, <1>4, <1>5, <1>6, <1>7, <1>8, <1>9, <1>10
  DEF Next, Main, Halted

(* Mutex, flag and condition variable together implement AtomicWait: each  *)
(* wait and each kill takes effect at one instant.                         *)
THEOREM TerminatorImplementsAtomicWait == Spec => ImplementsAtomicWait
<1>1. Init => Atomic!Init
  BY DEF Init, Atomic!Init
<1>2. IInv /\ [Next]_vars => [Atomic!Next]_(Atomic!avars)
  BY StepRefines
<1> QED
  BY <1>1, <1>2, Invariant, PTL DEF Spec, ImplementsAtomicWait, Atomic!Spec
=============================================================================
