----------------------------- MODULE ProcessCount -----------------------------
(***************************************************************************)
(* Proc::process_stats: the agent walks the directory of the processes,    *)
(* and in it the directory of the tasks of each entry, while processes and *)
(* tasks start and end.  readdir hands out entries that it has read some   *)
(* at a time: a process may be gone, and its number be another's, when its *)
(* tasks are counted, and a task that was counted may be.                  *)
(*                                                                         *)
(* A task is the number of its process and an identity of its own, that no *)
(* other task of the walk has.                                             *)
(***************************************************************************)
EXTENDS Integers, FiniteSets, FiniteSetsExt

CONSTANTS MaxPid,     \* numbers of processes are 1 .. MaxPid
          MaxTasks,   \* bound: of a process, in a walk
          MaxForks    \* bound: processes and tasks that start or end in a walk

ASSUME ProcessAssumption == {MaxPid, MaxTasks, MaxForks} \subseteq Nat

VARIABLES alive,     \* the tasks there are
          lived,     \* those there were at some time of this walk, and ...
          atStart,   \* ... at its start, history variables
          forks,     \* in this walk, a history variable
          walk,      \* "none", "on", or "done"
          position,  \* the last entry that was read
          entries,   \* those read and not yet handed out
          handed,    \* those handed out, a history variable
          dir,       \* the process whose directory of tasks is open, or NoDir
          given,     \* the tasks that were read of the directories so far
          pids,      \* processes counted
          tasks      \* tasks counted

processVars == <<alive, lived, atStart, forks, walk, position, entries, handed, dir, given,
                 pids, tasks>>

Pids == 1 .. MaxPid
Tasks == Pids \X (1 .. MaxTasks)
NoDir == 0

Process(t) == t[1]
TasksOf(p, S) == {t \in S : Process(t) = p}
Processes(S) == {Process(t) : t \in S}

ProcessInit ==
    /\ alive \in {{t \in Tasks : t[2] <= n[Process(t)]} : n \in [Pids -> 0 .. MaxTasks]}
    /\ lived = alive
    /\ atStart = alive
    /\ forks = 0
    /\ walk = "none"
    /\ position = 0
    /\ entries = {}
    /\ handed = {}
    /\ dir = NoDir
    /\ given = {}
    /\ pids = 0
    /\ tasks = 0

-----------------------------------------------------------------------------
(* The kernel, while the agent walks. *)

Fork ==
    /\ walk = "on"
    /\ forks < MaxForks
    /\ forks' = forks + 1
    /\ UNCHANGED <<atStart, walk, position, entries, handed, given, pids, tasks>>

\* In a process that there is, or as the first of one.
StartTask(t) ==
    /\ t \notin lived
    /\ alive' = alive \cup {t}
    /\ lived' = lived \cup {t}
    /\ UNCHANGED dir
    /\ Fork

\* Nothing more is read of the directory of a process that has ended.
EndTasks(S) ==
    /\ alive' = alive \ S
    /\ dir' = IF TasksOf(dir, alive \ S) = {} THEN NoDir ELSE dir
    /\ UNCHANGED lived
    /\ Fork

EndTask(t) == t \in alive /\ EndTasks({t})

EndProcess(p) == TasksOf(p, alive) # {} /\ EndTasks(TasksOf(p, alive))

-----------------------------------------------------------------------------
(* The agent. *)

\* The start of process_stats.
OpenProc ==
    /\ walk # "on"
    /\ walk' = "on"
    /\ lived' = alive
    /\ atStart' = alive
    /\ forks' = 0
    /\ position' = 0
    /\ entries' = {}
    /\ handed' = {}
    /\ given' = {}
    /\ pids' = 0
    /\ tasks' = 0
    /\ UNCHANGED <<alive, dir>>

\* readdir, out of entries: the kernel gives the next ones, in their order, of
\* the processes that there are; the walk is over when there are none.
ReadEntries ==
    /\ walk = "on"
    /\ dir = NoDir
    /\ entries = {}
    /\ LET ahead == {p \in Processes(alive) : p > position}
       IN  \/ /\ ahead = {}
              /\ walk' = "done"
              /\ UNCHANGED <<position, entries>>
           \/ /\ ahead # {}
              /\ \E last \in ahead :
                    /\ position' = last
                    /\ entries' = {p \in ahead : p <= last}
              /\ UNCHANGED walk
    /\ UNCHANGED <<alive, lived, atStart, forks, handed, dir, given, pids, tasks>>

\* The loop body up to the start of count_tasks, which finds no directory when
\* the process is gone.
OpenEntryUntilGone ==
    /\ dir = NoDir
    /\ entries # {}
    /\ LET p == Min(entries)
           gone == TasksOf(p, alive) = {}
       IN  /\ entries' = IF gone THEN {} ELSE entries \ {p}
           /\ walk' = IF gone THEN "done" ELSE "on"
           /\ handed' = handed \cup {p}
           /\ pids' = pids + 1
           /\ dir' = IF gone THEN NoDir ELSE p
    /\ UNCHANGED <<alive, lived, atStart, forks, position, given, tasks>>

OpenEntry ==
    /\ dir = NoDir
    /\ entries # {}
    /\ LET p == Min(entries)
       IN  /\ entries' = entries \ {p}
           /\ handed' = handed \cup {p}
           /\ pids' = pids + 1
           /\ dir' = IF TasksOf(p, alive) = {} THEN NoDir ELSE p
    /\ UNCHANGED <<alive, lived, atStart, forks, walk, position, given, tasks>>

\* readdir in count_tasks: the kernel gives some of the tasks that it has not
\* given.  Each will be counted, whatever becomes of it: it is counted here.
ReadTasks ==
    /\ dir # NoDir
    /\ \E some \in SUBSET (TasksOf(dir, alive) \ given) :
          /\ some # {}
          /\ given' = given \cup some
          /\ tasks' = tasks + Cardinality(some)
    /\ UNCHANGED <<alive, lived, atStart, forks, walk, position, entries, handed, dir, pids>>

\* readdir in count_tasks: there are no more.  The kernel finds its place by the
\* number of tasks before it when the one it was at has ended, and may then pass
\* over some.
LastTask ==
    /\ dir # NoDir
    /\ TasksOf(dir, alive) \subseteq given \/ TasksOf(dir, lived \ alive) # {}
    /\ dir' = NoDir
    /\ UNCHANGED <<alive, lived, atStart, forks, walk, position, entries, handed, given, pids,
                   tasks>>

ProcessNext ==
    \/ \E t \in Tasks : StartTask(t) \/ EndTask(t)
    \/ \E p \in Pids : EndProcess(p)
    \/ OpenProc \/ ReadEntries \/ OpenEntry \/ ReadTasks \/ LastTask

ProcessSpec == ProcessInit /\ [][ProcessNext]_processVars
-----------------------------------------------------------------------------
ProcessTypeOK ==
    /\ {alive, lived, atStart, given} \subseteq SUBSET Tasks
    /\ forks \in 0 .. MaxForks
    /\ walk \in {"none", "on", "done"}
    /\ position \in 0 .. MaxPid
    /\ {entries, handed} \subseteq SUBSET Pids
    /\ dir \in Pids \cup {NoDir}
    /\ pids \in 0 .. MaxPid
    /\ tasks \in 0 .. MaxPid * MaxTasks

\* The tasks that were there all through the walk, and those of them whose
\* process lost none.
Lasting == atStart \cap alive
Undisturbed == {t \in Lasting : TasksOf(Process(t), lived) \subseteq alive}

(***************************************************************************)
(* proc.cpp:1012-1058, "sys.currentProcesses" and "sys.currentThreads": no *)
(* instant need have had what the walk counted, and there may never have   *)
(* been as many tasks at once; but it counts each process of a task that   *)
(* lived all through it, none that did not live in it, each task that lived*)
(* all through it in a process of which no task ended, and no task twice.  *)
(***************************************************************************)
ProcessesCounted ==
    walk = "done" =>
       /\ Cardinality(Processes(Lasting)) <= pids
       /\ pids <= Cardinality(Processes(lived))
       /\ Cardinality(Undisturbed) <= tasks
       /\ tasks <= Cardinality(lived)
=============================================================================
