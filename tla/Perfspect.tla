----------------------------- MODULE Perfspect ------------------------------
(***************************************************************************)
(* The PerfSpect collector and the process it runs.  PerfSpect needs a few *)
(* seconds to start, writes a header and a line of data, and then a line   *)
(* of data every five seconds into a pipe.  GatherMetrics, every five      *)
(* seconds too, starts the process when it is not running, lets the        *)
(* asynchronous reads that are ready complete, and publishes the last line *)
(* they extracted; an error of the stream makes it start a new process.    *)
(*                                                                         *)
(* Time is counted in seconds by two counters running down: to the next    *)
(* gather and to the next output of the process.  A line is a record of    *)
(* what it is and of which process wrote it (their numbers, modulo 2).     *)
(***************************************************************************)
EXTENDS Integers, Sequences

CONSTANTS Interval,   \* seconds between lines and between gathers (5)
          StartupMin, \* seconds PerfSpect takes to start (4 to 7)
          StartupMax,
          MaxLate,    \* bound: seconds a gather is late
          MaxFaults   \* bound: exits, failed starts and lines that do not parse

ASSUME PerfspectAssumption ==
    /\ Interval \in Nat \ {0}
    /\ StartupMin \in Nat \ {0}
    /\ StartupMax \in Nat
    /\ StartupMin <= StartupMax
    /\ MaxLate \in 0 .. Interval - 1
    /\ MaxFaults \in Nat

VARIABLES process,        \* scriptProcess: "none", "running" or "exited"
          number,         \* which process it is, modulo 2
          pipe,           \* its output that no read has consumed
          untilOutput,    \* seconds until it writes
          headerOut,      \* whether it has written its header
          untilGather,    \* seconds until a gather is due
          polling,        \* GatherMetrics is past its test of running()
          firstIteration, \* firstIteration
          pendingLine,    \* pendingLine, <<>> or <<line>>
          lastAsyncError, \* lastAsyncError.failed()
          published,      \* the line published this second, <<>> or <<line>>
          faults          \* how many faults there were

reader == <<firstIteration, pendingLine, lastAsyncError>>
script == <<process, number, pipe, untilOutput, headerOut>>
vars == <<script, untilGather, polling, reader, published, faults>>

Lines == [kind : {"header", "data", "garbled"}, process : {0, 1}]

Init ==
    /\ process = "none"
    /\ number = 0
    /\ pipe = <<>>
    /\ untilOutput = 0
    /\ headerOut = FALSE
    /\ untilGather \in 0 .. Interval
    /\ polling = FALSE
    /\ firstIteration = TRUE
    /\ pendingLine = <<>>
    /\ lastAsyncError = FALSE
    /\ published = <<>>
    /\ faults = 0

Fault == faults < MaxFaults /\ faults' = faults + 1

-----------------------------------------------------------------------------
\* The clock and the process.
Tick ==
    /\ ~polling
    /\ untilGather > -MaxLate
    /\ process = "running" => untilOutput > 0
    /\ untilGather' = untilGather - 1
    /\ untilOutput' = IF process = "running" THEN untilOutput - 1 ELSE untilOutput
    /\ published' = <<>>
    /\ UNCHANGED <<process, number, pipe, headerOut, polling, reader, faults>>

Writes(kind) == pipe' = Append(pipe, [kind |-> kind, process |-> number])

WriteHeader ==
    /\ process = "running"
    /\ untilOutput = 0
    /\ ~headerOut
    /\ Writes("header")
    /\ headerOut' = TRUE
    /\ UNCHANGED <<process, number, untilOutput, untilGather, polling, reader,
                   published, faults>>

WriteData ==
    /\ process = "running"
    /\ untilOutput = 0
    /\ headerOut
    /\ \/ Writes("data") /\ UNCHANGED faults
       \/ Writes("garbled") /\ Fault
    /\ untilOutput' = Interval
    /\ UNCHANGED <<process, number, headerOut, untilGather, polling, reader,
                   published>>

Exit ==
    /\ process = "running"
    /\ Fault
    /\ process' = "exited"
    /\ UNCHANGED <<number, pipe, untilOutput, headerOut, untilGather, polling,
                   reader, published>>

-----------------------------------------------------------------------------
\* What the reads that are ready extract: every line of the pipe, the first
\* one of the process being its header, each taking the place of the last.
DataLines == IF firstIteration /\ pipe # <<>> THEN Tail(pipe) ELSE pipe
Extracted ==
    IF DataLines = <<>> THEN pendingLine ELSE <<DataLines[Len(DataLines)]>>

\* StartScript: CleanupProcess, which drops everything of the old process but
\* lastAsyncError, then a new process and its first asynchronous read.
CleanupKeepsLine ==
    /\ pipe' = <<>>
    /\ pendingLine' = IF polling THEN Extracted ELSE pendingLine
    /\ firstIteration' = TRUE
CleanupKeepsFirstIteration ==
    /\ pipe' = <<>>
    /\ pendingLine' = <<>>
    /\ firstIteration' = (firstIteration /\ (polling => pipe = <<>>))
Cleanup ==
    pipe' = <<>> /\ pendingLine' = <<>> /\ firstIteration' = TRUE

Launch ==
    /\ process' = "running"
    /\ number' = 1 - number
    /\ headerOut' = FALSE
    /\ untilOutput' \in StartupMin .. StartupMax

StartScript ==
    \/ Cleanup /\ Launch /\ UNCHANGED faults
    \/ /\ Cleanup  \* the child cannot be created
       /\ process' = "none"
       /\ Fault
       /\ UNCHANGED <<number, headerOut, untilOutput>>

\* The old process cannot be terminated: it stays as it is.
StartScriptFails ==
    /\ process = "running"
    /\ Fault
    /\ UNCHANGED <<script, firstIteration, pendingLine>>

NextGather == untilGather' = untilGather + Interval

\* GatherMetrics when scriptProcess is not there or not running ...
GatherStarts ==
    /\ untilGather <= 0
    /\ ~polling
    /\ process # "running"
    /\ StartScript
    /\ NextGather
    /\ published' = <<>>
    /\ UNCHANGED <<polling, lastAsyncError>>

\* ... and when it is.
GatherChecks ==
    /\ untilGather <= 0
    /\ ~polling
    /\ process = "running"
    /\ polling' = TRUE
    /\ UNCHANGED <<script, untilGather, reader, published, faults>>

\* ExtractLine records the outcome of every read, the end of file included;
\* without a completed read the last outcome stands.
StreamErrorSticky == process = "exited" \/ lastAsyncError
StreamError ==
    \/ process = "exited"
    \/ pipe = <<>> /\ lastAsyncError

\* ReadOutput reports an error: the line goes with the process.
PollError ==
    /\ polling
    /\ StreamError
    /\ lastAsyncError' = TRUE
    /\ StartScript \/ StartScriptFails
    /\ published' = <<>>
    /\ polling' = FALSE
    /\ NextGather

PollEmpty ==
    /\ polling
    /\ ~StreamError
    /\ Extracted = <<>>
    /\ lastAsyncError' = FALSE
    /\ firstIteration' = (firstIteration /\ pipe = <<>>)
    /\ pipe' = <<>>
    /\ published' = <<>>
    /\ polling' = FALSE
    /\ NextGather
    /\ UNCHANGED <<process, number, untilOutput, headerOut, pendingLine, faults>>

\* A line that does not parse is dropped; one that does is published.
PollLine ==
    /\ polling
    /\ ~StreamError
    /\ Extracted # <<>>
    /\ published' = IF Extracted[1].kind = "data" THEN Extracted ELSE <<>>
    /\ pendingLine' = <<>>
    /\ lastAsyncError' = FALSE
    /\ firstIteration' = (firstIteration /\ pipe = <<>>)
    /\ pipe' = <<>>
    /\ polling' = FALSE
    /\ NextGather
    /\ UNCHANGED <<process, number, untilOutput, headerOut, faults>>

Script == WriteHeader \/ WriteData
GatherMetrics == GatherStarts \/ GatherChecks \/ PollError \/ PollEmpty \/ PollLine

Next == Tick \/ Script \/ Exit \/ GatherMetrics

Spec == Init /\ [][Next]_vars

\* Time passes, the process writes when it is time to, and the loop gathers.
FairSpec == Spec /\ WF_vars(Tick \/ Script \/ GatherMetrics)

-----------------------------------------------------------------------------
(***************************************************************************)
(* Every variable has its type, and no line outlives the gather that       *)
(* extracted it.                                                           *)
(***************************************************************************)
TypeOK ==
    /\ process \in {"none", "running", "exited"}
    /\ number \in {0, 1}
    /\ pipe \in Seq(Lines)
    /\ untilOutput \in 0 .. StartupMax + Interval
    /\ headerOut \in BOOLEAN
    /\ untilGather \in -MaxLate .. Interval
    /\ polling \in BOOLEAN
    /\ firstIteration \in BOOLEAN
    /\ pendingLine = <<>>
    /\ lastAsyncError \in BOOLEAN
    /\ published = <<>> \/ published[1] \in Lines
    /\ faults \in 0 .. MaxFaults

(***************************************************************************)
(* The reader and the process agree on which line is the header through    *)
(* every restart: the line the reader is going to skip is the header, and  *)
(* it skips no other.                                                      *)
(***************************************************************************)
StreamAligned ==
    /\ \A i \in DOMAIN pipe :
          pipe[i].kind = "header" <=> i = 1 /\ firstIteration
    /\ ~firstIteration => headerOut

(***************************************************************************)
(* What is published was written by the process that is running: a line of *)
(* an earlier process is never published after a restart.                  *)
(***************************************************************************)
PublishedIsCurrent == published # <<>> => published[1].process = number

(***************************************************************************)
(* A process that stops failing is published from in the end: lines are    *)
(* published again and again.  perfspect.cpp:337-339, "PerfSpect requires  *)
(* 4-7 seconds to startup / We may try to GatherMetrics and read from the  *)
(* stream / before it has produced any output, so we need to handle that   *)
(* case gracefully".                                                       *)
(***************************************************************************)
KeepsPublishing == []<>(published # <<>>)

(***************************************************************************)
(* Only the error an earlier process left behind can keep the agent from   *)
(* publishing for good: unless gathers find it on a healthy process that   *)
(* has not written yet again and again, lines are published again and      *)
(* again, after whatever exits, failed starts and malformed lines.         *)
(***************************************************************************)
FoundStaleError ==
    polling /\ process = "running" /\ ~headerOut /\ lastAsyncError

StaleErrorsOnlySilence == []<>FoundStaleError \/ KeepsPublishing
=============================================================================
