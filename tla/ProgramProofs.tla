--------------------------- MODULE ProgramProofs ----------------------------
(***************************************************************************)
(* Proofs about the programs the agent runs: what it takes from their      *)
(* pipes is what they wrote, from the beginning and to the end, whichever  *)
(* of them fail and when.  A program shares no state with another.         *)
(***************************************************************************)
EXTENDS Perfspect, CommandOutput, TLAPS

-----------------------------------------------------------------------------
(* Perfspect: what the pipe holds is from the process that runs, and       *)
(* begins with its header unless the reader has skipped that already.      *)

HeaderFirst ==
    /\ firstIteration /\ pipe # <<>> => headerOut
    /\ process = "running" /\ firstIteration /\ headerOut => pipe # <<>>

ReaderInv ==
    /\ number \in {0, 1}
    /\ pipe \in Seq(Lines)
    /\ firstIteration \in BOOLEAN /\ headerOut \in BOOLEAN
    /\ pendingLine = <<>>
    /\ HeaderFirst
    /\ StreamAligned
    /\ \A i \in DOMAIN pipe : pipe[i].process = number
    /\ PublishedIsCurrent

LEMMA NoLine == <<>> \in Seq(Lines) /\ DOMAIN <<>> = {}
    OBVIOUS

LEMMA ReaderInvInit == Init => ReaderInv
<1> SUFFICES ASSUME Init PROVE ReaderInv
    OBVIOUS
<1>1. /\ number = 0 /\ pipe = <<>> /\ firstIteration = TRUE /\ headerOut = FALSE
      /\ pendingLine = <<>> /\ published = <<>>
    BY DEF Init
<1>2. HeaderFirst /\ StreamAligned /\ PublishedIsCurrent
    BY <1>1, NoLine DEF HeaderFirst, StreamAligned, PublishedIsCurrent
<1> QED
    BY <1>1, <1>2, NoLine DEF ReaderInv

\* A line that the process writes, the header first.
LEMMA WriteStep ==
    ASSUME ReaderInv, NEW kind \in {"header", "data", "garbled"}, Writes(kind),
           kind = "header" <=> ~headerOut, headerOut' = TRUE, process = "running",
           number' = number, firstIteration' = firstIteration, pendingLine' = pendingLine,
           published' = published, process' = process
    PROVE  ReaderInv'
<1> DEFINE line == [kind |-> kind, process |-> number]
<1>1. /\ pipe' = Append(pipe, line) /\ pipe \in Seq(Lines)
      /\ line \in Lines /\ line.kind = kind /\ line.process = number
    BY DEF Writes, ReaderInv, Lines
<1> HIDE DEF line
<1>2. /\ pipe' \in Seq(Lines) /\ DOMAIN pipe = 1 .. Len(pipe)
      /\ DOMAIN pipe' = 1 .. Len(pipe) + 1 /\ Len(pipe) \in Nat
      /\ pipe'[Len(pipe) + 1] = line
      /\ \A i \in 1 .. Len(pipe) : pipe'[i] = pipe[i]
      /\ pipe' # <<>>
      /\ pipe = <<>> <=> Len(pipe) = 0
    BY <1>1
<1>3. kind = "header" <=> Len(pipe) + 1 = 1 /\ firstIteration
  <2>1. CASE headerOut
      BY <2>1, <1>2 DEF ReaderInv, HeaderFirst
  <2>2. CASE ~headerOut
      BY <2>2, <1>2 DEF ReaderInv, HeaderFirst, StreamAligned
  <2> QED
      BY <2>1, <2>2
<1>4. StreamAligned'
  <2>1. ASSUME NEW i \in 1 .. Len(pipe) + 1
        PROVE  pipe'[i].kind = "header" <=> i = 1 /\ firstIteration
    <3>1. CASE i = Len(pipe) + 1
        BY <3>1, <1>1, <1>2, <1>3
    <3>2. CASE i # Len(pipe) + 1
      <4>1. i \in 1 .. Len(pipe)
          BY <3>2, <2>1, <1>2
      <4> QED
          BY <4>1, <1>2 DEF ReaderInv, StreamAligned
    <3> QED
        BY <3>1, <3>2
  <2> QED
      BY <2>1, <1>2 DEF StreamAligned
<1>5. \A i \in 1 .. Len(pipe) + 1 : pipe'[i].process = number
  <2> SUFFICES ASSUME NEW i \in 1 .. Len(pipe) + 1 PROVE pipe'[i].process = number
      OBVIOUS
  <2>1. CASE i = Len(pipe) + 1
      BY <2>1, <1>1, <1>2
  <2>2. CASE i # Len(pipe) + 1
    <3>1. i \in 1 .. Len(pipe)
        BY <2>2, <1>2
    <3> QED
        BY <3>1, <1>2 DEF ReaderInv
  <2> QED
      BY <2>1, <2>2
<1>6. HeaderFirst' /\ PublishedIsCurrent'
    BY <1>2 DEF ReaderInv, HeaderFirst, PublishedIsCurrent
<1> QED
    BY <1>2, <1>4, <1>5, <1>6 DEF ReaderInv

\* StartScript leaves nothing of the old process.
LEMMA StartScriptStep ==
    ASSUME ReaderInv, StartScript, published' = <<>>
    PROVE  ReaderInv'
<1>1. pipe' = <<>> /\ pendingLine' = <<>> /\ firstIteration' = TRUE
    BY DEF StartScript, Cleanup
<1>2. \/ process' = "running" /\ number' = 1 - number /\ headerOut' = FALSE
      \/ process' = "none" /\ number' = number /\ headerOut' = headerOut
    BY DEF StartScript, Launch
<1>3. number' \in {0, 1} /\ headerOut' \in BOOLEAN
  <2>1. number \in {0, 1} /\ headerOut \in BOOLEAN
      BY DEF ReaderInv
  <2>2. number' \in {0, 1}
      BY <1>2, <2>1
  <2> QED
      BY <1>2, <2>1, <2>2, Zenon
<1>4. HeaderFirst'
    BY <1>1, <1>2 DEF HeaderFirst
<1>5. StreamAligned' /\ PublishedIsCurrent'
    BY <1>1, NoLine DEF StreamAligned, PublishedIsCurrent
<1> QED
    BY <1>1, <1>3, <1>4, <1>5, NoLine DEF ReaderInv

\* The reads of a poll empty the pipe, and take the header from it if it was there.
LEMMA PollStep ==
    ASSUME ReaderInv, pipe' = <<>>, pendingLine' = <<>>,
           firstIteration' = (firstIteration /\ pipe = <<>>),
           published' = <<>> \/ (published' = Extracted /\ Extracted # <<>>),
           process' = process, number' = number, headerOut' = headerOut
    PROVE  ReaderInv'
<1>1. HeaderFirst' /\ StreamAligned'
  <2>1. CASE firstIteration = TRUE /\ pipe = <<>>
    <3>1. firstIteration' = TRUE /\ ~(process' = "running" /\ headerOut')
        BY <2>1 DEF ReaderInv, HeaderFirst
    <3> QED
        BY <3>1, NoLine DEF HeaderFirst, StreamAligned
  <2>2. CASE ~(firstIteration = TRUE /\ pipe = <<>>)
    <3>1. firstIteration' = FALSE /\ headerOut' = TRUE
        BY <2>2 DEF ReaderInv, HeaderFirst, StreamAligned
    <3> QED
        BY <3>1, NoLine DEF HeaderFirst, StreamAligned
  <2> QED
      BY <2>1, <2>2
<1>2. ASSUME Extracted # <<>> PROVE Extracted[1].process = number
  <2>1. Extracted = <<DataLines[Len(DataLines)]>> /\ DataLines # <<>>
      BY <1>2 DEF Extracted, ReaderInv
  <2>2. pipe \in Seq(Lines) /\ pipe # <<>> /\ DataLines \in {pipe, Tail(pipe)}
      BY <2>1 DEF DataLines, ReaderInv
  <2>3. DataLines[Len(DataLines)] = pipe[Len(pipe)] /\ Len(pipe) \in DOMAIN pipe
    <3>1. Len(pipe) \in Nat \ {0} /\ DOMAIN pipe = 1 .. Len(pipe)
        BY <2>2
    <3>2. CASE DataLines = Tail(pipe)
      <4>1. Len(Tail(pipe)) = Len(pipe) - 1 /\ Len(Tail(pipe)) \in Nat \ {0}
          BY <2>1, <2>2, <3>1, <3>2
      <4>2. Tail(pipe)[Len(pipe) - 1] = pipe[Len(pipe)]
          BY <2>2, <3>1, <4>1
      <4> QED
          BY <3>1, <3>2, <4>1, <4>2
    <3> QED
        BY <2>2, <3>1, <3>2
  <2> QED
      BY <2>1, <2>3 DEF ReaderInv
<1>3. PublishedIsCurrent'
    BY <1>2 DEF PublishedIsCurrent
<1>4. firstIteration' \in BOOLEAN
    BY DEF ReaderInv
<1> QED
    BY <1>1, <1>3, <1>4, NoLine DEF ReaderInv

LEMMA ReaderInvStep == ReaderInv /\ [Next]_vars => ReaderInv'
<1> SUFFICES ASSUME ReaderInv, [Next]_vars PROVE ReaderInv'
    OBVIOUS
<1> USE DEF script, reader
<1>1. ASSUME number' = number, pipe' = pipe, firstIteration' = firstIteration,
             headerOut' = headerOut, pendingLine' = pendingLine,
             process' = process \/ process' # "running",
             published' = published \/ published' = <<>>
      PROVE  ReaderInv'
    BY <1>1 DEF ReaderInv, HeaderFirst, StreamAligned, PublishedIsCurrent
<1>2. CASE Tick
    BY <1>1, <1>2 DEF Tick
<1>3. CASE WriteHeader
    BY <1>3, WriteStep DEF WriteHeader, ReaderInv
<1>4. CASE WriteData
    BY <1>4, WriteStep DEF WriteData, ReaderInv
<1>5. CASE Exit
    BY <1>1, <1>5 DEF Exit
<1>6. CASE GatherStarts
    BY <1>6, StartScriptStep DEF GatherStarts
<1>7. CASE GatherChecks
    BY <1>1, <1>7 DEF GatherChecks
<1>8. CASE PollError
  <2>1. CASE StartScript
      BY <1>8, <2>1, StartScriptStep DEF PollError
  <2>2. CASE StartScriptFails
      BY <1>1, <1>8, <2>2 DEF PollError, StartScriptFails
  <2> QED
      BY <1>8, <2>1, <2>2 DEF PollError
<1>9. CASE PollEmpty
  <2>1. pendingLine' = <<>>
      BY <1>9 DEF PollEmpty, ReaderInv
  <2>2. pipe' = <<>> /\ published' = <<>>
      BY <1>9 DEF PollEmpty
  <2>3. firstIteration' = (firstIteration /\ pipe = <<>>)
      BY <1>9, Zenon DEF PollEmpty
  <2>4. process' = process /\ number' = number /\ headerOut' = headerOut
      BY <1>9 DEF PollEmpty
  <2> QED
      BY <2>1, <2>2, <2>3, <2>4, PollStep
<1>10. CASE PollLine
    BY <1>10, PollStep DEF PollLine
<1>11. CASE UNCHANGED vars
    BY <1>1, <1>11 DEF vars
<1> QED
    BY <1>2, <1>3, <1>4, <1>5, <1>6, <1>7, <1>8, <1>9, <1>10, <1>11
       DEF Next, Script, GatherMetrics

\* perfspect.cpp:205-252: through any number of failures and however long the start
\* takes, the line that the reader skips is the header.
THEOREM HeaderSkipped == Spec => []StreamAligned
<1>1. ReaderInv => StreamAligned
    BY DEF ReaderInv
<1> QED
    BY <1>1, ReaderInvInit, ReaderInvStep, PTL DEF Spec

\* perfspect.cpp:160-183 and 396-411: a line that is published is of the process that
\* is running, whatever was left of the others.
THEOREM NeverAnOldLine == Spec => []PublishedIsCurrent
<1>1. ReaderInv => PublishedIsCurrent
    BY DEF ReaderInv
<1> QED
    BY <1>1, ReaderInvInit, ReaderInvStep, PTL DEF Spec

-----------------------------------------------------------------------------
(* CommandOutput: the agent reads the end only of a pipe that is empty and *)
(* that nobody can write to any more, and with any other end has nothing.  *)

OutputInv ==
    /\ unread \in Nat
    /\ collected \in BOOLEAN /\ result \in BOOLEAN /\ reading \in BOOLEAN
    /\ writers \subseteq alive
    /\ call \in {"none", "select", "read", "wait", "returned"}
    /\ call \in {"select", "read"} <=> reading = TRUE
    /\ call = "read" => Ready
    /\ reading = FALSE /\ result = TRUE => unread = 0 /\ writers = {}

LEMMA OutputInvInit == CommandInit => OutputInv
<1> SUFFICES ASSUME CommandInit PROVE OutputInv
    OBVIOUS
<1>1. /\ call = "none" /\ collected = FALSE /\ result = FALSE /\ alive = {}
      /\ writers = {} /\ unread = 0 /\ reading = FALSE
    BY DEF CommandInit
<1> QED
    BY <1>1 DEF OutputInv

LEMMA ProcessesStep ==
    ASSUME OutputInv,
           PrintChunk \/ CloseOutput \/ \E p \in {"shell", "command"} : Exits(p)
    PROVE  OutputInv'
<1>1. call' = call /\ collected' = collected /\ result' = result /\ reading' = reading
    BY DEF PrintChunk, CloseOutput, Exits, agent
<1>2. writers' \subseteq writers /\ writers' \subseteq alive'
    BY DEF PrintChunk, CloseOutput, Exits, Dies, OutputInv
<1>3. unread' = unread \/ (reading = TRUE /\ unread' = unread + 1)
    BY DEF PrintChunk, CloseOutput, Exits
<1>4. unread' \in Nat
    BY <1>3 DEF OutputInv
<1>5. call = "read" => Ready'
    BY <1>2, <1>3 DEF OutputInv, Ready
<1>6. reading = FALSE /\ result = TRUE => unread' = 0 /\ writers' = {}
    BY <1>2, <1>3 DEF OutputInv
<1> QED
    BY <1>1, <1>2, <1>4, <1>5, <1>6 DEF OutputInv

LEMMA CallStep == OutputInv /\ Call => OutputInv'
<1> SUFFICES ASSUME OutputInv, Call PROVE OutputInv'
    OBVIOUS
<1>1. /\ result' = FALSE /\ collected' = FALSE /\ unread' = 0
      /\ writers' \subseteq alive'
      /\ \/ call' = "select" /\ reading' = TRUE
         \/ call' = "returned" /\ reading' = FALSE
    BY DEF Call
<1>2. call' = "select" <=> reading' = TRUE
    BY <1>1
<1>3. reading' \in BOOLEAN /\ call' # "read" /\ (call' = "select" \/ call' = "returned")
    BY <1>1
<1> QED
    BY <1>1, <1>2, <1>3 DEF OutputInv

LEMMA StopStep ==
    ASSUME OutputInv, NEW output, StopReading(output), writers' \subseteq alive',
           output \in BOOLEAN, output = TRUE => unread = 0 /\ writers' = {}
    PROVE  OutputInv'
    BY DEF StopReading, OutputInv

LEMMA ReadingStep == OutputInv /\ (Reading \/ SelectFails) => OutputInv'
<1> SUFFICES ASSUME OutputInv, Reading \/ SelectFails PROVE OutputInv'
    OBVIOUS
<1> USE DEF processes
<1>1. CASE SelectTick
    BY <1>1 DEF SelectTick, OutputInv, Ready
<1>2. CASE SelectReady
    BY <1>2 DEF SelectReady, OutputInv, Ready
<1>3. CASE ReadSome
  <2>1. PICK n \in 1 .. unread : unread' = unread - n
      BY <1>3 DEF ReadSome
  <2>2. /\ call = "read" /\ call' = "select" /\ result' = result /\ reading' = reading
        /\ alive' = alive /\ writers' = writers /\ collected' = TRUE
      BY <1>3 DEF ReadSome
  <2>3. unread' \in Nat
      BY <2>1 DEF OutputInv
  <2> QED
      BY <2>2, <2>3 DEF OutputInv
<1>4. CASE ReadEnd
  <2>1. call = "read" /\ unread = 0 /\ StopReading(collected) /\ alive' = alive /\ writers' = writers
      BY <1>4 DEF ReadEnd
  <2>2. writers = {} /\ collected \in BOOLEAN
      BY <2>1 DEF OutputInv, Ready
  <2> QED
      BY <2>1, <2>2, StopStep DEF OutputInv
<1>5. CASE SelectTimeout
    BY <1>5, StopStep DEF SelectTimeout, Dies, OutputInv
<1>6. CASE WaitPid
    BY <1>6 DEF WaitPid, OutputInv
<1>7. CASE SelectFails
    BY <1>7, StopStep DEF SelectFails, OutputInv
<1> QED
    BY <1>1, <1>2, <1>3, <1>4, <1>5, <1>6, <1>7 DEF Reading

LEMMA OutputInvStep == OutputInv /\ [CommandNext]_commandVars => OutputInv'
<1> SUFFICES ASSUME OutputInv, [CommandNext]_commandVars PROVE OutputInv'
    OBVIOUS
<1>1. CASE UNCHANGED commandVars
    BY <1>1 DEF commandVars, agent, processes, OutputInv, Ready
<1> QED
    BY <1>1, CallStep, ReadingStep, ProcessesStep DEF CommandNext

\* util.cpp:154-159 and 206-220: for any timeout, any size of the pipe and any output,
\* all of it or nothing.
THEOREM OutputWhole == FairCommandSpec => []WholeOrNothing
<1>1. OutputInv => WholeOrNothing
    BY DEF OutputInv, WholeOrNothing
<1> QED
    BY <1>1, OutputInvInit, OutputInvStep, PTL DEF FairCommandSpec
=============================================================================
