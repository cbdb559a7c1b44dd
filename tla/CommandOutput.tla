--------------------------- MODULE CommandOutput ----------------------------
(***************************************************************************)
(* read_output_string: the agent runs a command under a shell and reads    *)
(* what it prints, giving up when nothing comes for Timeout ticks.  The    *)
(* shell may become the command or keep it as a child of its own, which    *)
(* then holds the pipe as well.  Both may die at any time; a command may   *)
(* print late, or now and then for ever, or hang, or close its output and  *)
(* live on: nothing is assumed of it.                                      *)
(*                                                                         *)
(* Output is chunks, of which the pipe holds some and the agent has read   *)
(* some or none.  Time is what select has left to wait.                    *)
(***************************************************************************)
EXTENDS Integers

CONSTANTS Timeout,   \* timeout_millis, in ticks
          PipeSize   \* chunks that the pipe holds

ASSUME CommandAssumption == {Timeout, PipeSize} \subseteq Nat \ {0}

VARIABLES call,        \* "none", "select", "read", "wait" or "returned"
          left,        \* of select's timeout
          collected,   \* whether read_with_timeout has read output
          result,      \* whether read_output_string returns it
          alive,       \* processes that run, of {"shell", "command"}
          writers,     \* processes that hold the writing end of the pipe
          unread,      \* chunks in the pipe
          reading,     \* whether the agent holds the reading end
          interrupted  \* whether select or read failed, a history variable

processes == <<alive, writers, unread>>
agent == <<call, left, collected, result, reading, interrupted>>
commandVars == <<agent, processes>>

CommandInit ==
    /\ call = "none"
    /\ left = 0
    /\ collected = FALSE
    /\ result = FALSE
    /\ alive = {}
    /\ writers = {}
    /\ unread = 0
    /\ reading = FALSE
    /\ interrupted = FALSE

-----------------------------------------------------------------------------
(* The processes. *)

\* The one that prints: the command if the shell forked it.
Printer == IF "command" \in alive THEN "command" ELSE "shell"

Dies(p) ==
    /\ alive' = alive \ {p}
    /\ writers' = writers \ {p}

\* Printing waits for room in the pipe; it is fatal when nobody reads.
PrintChunk ==
    /\ Printer \in alive \cap writers
    /\ \/ /\ reading
          /\ unread < PipeSize
          /\ unread' = unread + 1
          /\ UNCHANGED <<alive, writers>>
       \/ /\ ~reading
          /\ Dies(Printer)
          /\ UNCHANGED unread
    /\ UNCHANGED agent

CloseOutput ==
    /\ \E p \in alive \cap writers : writers' = writers \ {p}
    /\ UNCHANGED <<alive, unread, agent>>

Exits(p) ==
    /\ p \in alive
    /\ Dies(p)
    /\ UNCHANGED <<unread, agent>>

-----------------------------------------------------------------------------
(* The agent. *)

\* pipe() or fork() may fail; nothing is left of the attempt.  A command that
\* outlived the shell of the previous call is not the agent's any more.
Call ==
    /\ call \in {"none", "returned"}
    /\ result' = FALSE
    /\ collected' = FALSE
    /\ unread' = 0
    /\ interrupted' = FALSE
    /\ \/ /\ call' = "select"
          /\ left' = Timeout
          /\ reading' = TRUE
          /\ alive' \in {{"shell"}, {"shell", "command"}}
          /\ writers' = alive'
       \/ /\ call' = "returned"
          /\ left' = 0
          /\ reading' = FALSE
          /\ alive' = {}
          /\ writers' = {}

\* Data, or the end of the output.
Ready == unread > 0 \/ writers = {}

SelectTick ==
    /\ call = "select"
    /\ ~Ready
    /\ left > 0
    /\ left' = left - 1
    /\ UNCHANGED <<call, collected, result, reading, interrupted, processes>>

SelectReady ==
    /\ call = "select"
    /\ Ready
    /\ call' = "read"
    /\ UNCHANGED <<left, collected, result, reading, interrupted, processes>>

\* The next select waits for the whole timeout again.
ReadSome ==
    /\ call = "read"
    /\ \E n \in 1 .. unread : unread' = unread - n
    /\ collected' = TRUE
    /\ call' = "select"
    /\ left' = Timeout
    /\ UNCHANGED <<result, reading, interrupted, alive, writers>>

\* What read_output_string does once read_with_timeout returned output.
StopReading(output) ==
    /\ result' = output
    /\ reading' = FALSE
    /\ call' = "wait"
    /\ left' = 0
    /\ UNCHANGED <<collected, unread>>

ReadEnd ==
    /\ call = "read"
    /\ unread = 0
    /\ StopReading(collected)
    /\ UNCHANGED <<interrupted, alive, writers>>

\* kill(pid, SIGKILL), which reaches the shell and not its child.
SelectTimeoutSpares ==
    /\ call = "select"
    /\ ~Ready
    /\ left = 0
    /\ StopReading(FALSE)
    /\ UNCHANGED <<interrupted, alive, writers>>
SelectTimeoutPartial ==
    /\ call = "select"
    /\ ~Ready
    /\ left = 0
    /\ StopReading(collected)
    /\ Dies("shell")
    /\ UNCHANGED interrupted
SelectTimeout ==
    /\ call = "select"
    /\ ~Ready
    /\ left = 0
    /\ StopReading(FALSE)
    /\ Dies("shell")
    /\ UNCHANGED interrupted

\* select fails, with EINTR when a signal's handler ran: nobody is killed.
SelectFails ==
    /\ call \in {"select", "read"}
    /\ StopReading(FALSE)
    /\ interrupted' = TRUE
    /\ UNCHANGED <<alive, writers>>

\* waitpid, with no timeout.
WaitPid ==
    /\ call = "wait"
    /\ "shell" \notin alive
    /\ call' = "returned"
    /\ UNCHANGED <<left, collected, result, reading, interrupted, processes>>

Reading == SelectTick \/ SelectReady \/ ReadSome \/ ReadEnd \/ SelectTimeout \/ WaitPid

CommandNext ==
    \/ Call \/ Reading \/ SelectFails
    \/ PrintChunk \/ CloseOutput \/ \E p \in {"shell", "command"} : Exits(p)

\* The agent's thread runs.  Of the processes nothing is assumed, not even that
\* one that has nothing left to print exits.
CommandFairness == WF_commandVars(Reading)

FairCommandSpec == CommandInit /\ [][CommandNext]_commandVars /\ CommandFairness

-----------------------------------------------------------------------------
CommandTypeOK ==
    /\ call \in {"none", "select", "read", "wait", "returned"}
    /\ left \in 0 .. Timeout
    /\ unread \in 0 .. PipeSize
    /\ writers \subseteq alive
    /\ alive \subseteq {"shell", "command"}
    /\ {collected, result, reading, interrupted} \subseteq BOOLEAN

(***************************************************************************)
(* util.cpp:154-159 and 206-220: what a caller parses is either nothing or *)
(* all that was printed, never the part that came before a timeout or an   *)
(* error: with output returned, nothing of it is left in the pipe and no   *)
(* process can add to it.                                                  *)
(***************************************************************************)
WholeOrNothing ==
    call = "returned" /\ result => unread = 0 /\ writers = {}

(***************************************************************************)
(* util.cpp:134-145, 209-213 and 222-227: the agent's thread is free again *)
(* and again, or a call holds it for good in one of two ways, neither of   *)
(* which the timeout ends: output that comes for ever, as each read starts *)
(* the timeout anew, or waitpid on a shell that lives on after all output  *)
(* was closed or the read was interrupted.  A command that hangs with its  *)
(* output open does not hold it, nor does one that outlives its shell.     *)
(***************************************************************************)
HeldOnlyByCommand ==
    \/ []<>(call \in {"none", "returned"})
    \/ []<><<ReadSome>>_commandVars
    \/ <>[](call = "wait" /\ "shell" \in alive /\ (writers = {} \/ interrupted))
=============================================================================
