# atlas-system-agent in TLA+

This directory specifies atlas-system-agent, the daemon that reads an
instance's counters (`/proc`, cgroups, systemd, GPUs, PerfSpect, the EC2
metadata service) and publishes them as metrics. The modules are translated
from the C++ sources under `src/`; TLC checks them on small instances, and TLAPS
proves the properties that matter most for every value of their constants.

The agent is a single collecting thread. What makes it hard is not many threads
but time: a schedule kept on the system clock and slept for on another one,
collectors that take longer than their period, baselines that outlive what they
were read from, a child process that writes when it wants, and a signal handler
that takes locks.

## 1. Inventory

| Component | State it keeps | Operations | Interacts with | Makes it correct |
|---|---|---|---|---|
| Collector loop (`system-agent.cpp`, `titus-agent.cpp`, `k8s-agent.cpp`) | `next_run`, `next_five_second_run`, `next_sixty_second_run` | one iteration: gather, advance slots, sleep | calls every collector, waits on `terminator` | no slot skipped, served early or overtaken; rests only when caught up; stops after a kill |
| Initial delay (`atlas-agent.cpp`) | none | `initial_polling_delay`, the first wait | `terminator` | first publication away from the minute boundary |
| `terminator` and `handle_signal` | mutex, condition variable, flag; the logger's queue | `wait_for`, `kill` | loop, signal handler, log thread | no wake-up lost; a signal ends the loop |
| ServiceMonitor | monitored services, two CPU trackers for each | initialization, a cycle over the services | systemd over D-Bus, `/proc`, cgroup files | a percentage is about one generation of a service and never above what it used |
| CpuRateTracker | baseline: identity, counter, time | `update` | ServiceMonitor | as above |
| Perfspect | child process, pipe, buffer, pending line, last error | `GatherMetrics`, read handler, start and clean-up | PerfSpect, boost::asio | aligned with the current process; keeps publishing |
| HttpClient | none between requests | `perform` with retries | libcurl, the registry's request log | bounded time, one final entry for a request |
| Aws | credentials URL | `collect` | HttpClient, metadata service | token outlives the collect; recovers from outages |
| Proc, `/proc/stat` | baselines of peak and minute gauges, per-core baselines and sums | `CpuStats` | the loop (which of the series are due) | percentages up to 100; a minute's average is over that minute |
| CGroup | cpu.stat baselines, io.stat baselines, times of last updates | one-, five- and sixty-second gathers | cgroup files | nothing used beyond what was available; a device's I/O published once, late at most |
| Disk, MonotonicTimer | `last_updated_`, `last_ms_doing_io`, timers | `disk_stats` | `/proc/diskstats`, the mount table, statvfs | nothing published that did not happen; busy within the interval and the gathers; the figures of a filesystem are its own |
| EBS | the configured devices | `gather_metrics` | an NVMe ioctl | the figures of a path are those of the volume there |
| Proc, the processes | none | `process_stats` | `/proc` while processes start and end | counts what lived all through the walk, nothing that did not live in it |
| PerfMetrics | a perf descriptor and a previous value for each CPU | `open_events`, `collect` | perf_event_open | deltas of one counter |
| Command output (util) | none | `read_output_string` | fork, pipe, waitpid | the output is whole or nothing; only output without end, or a shell that lives on, holds the call |
| AMD SMI GPU | support latches, xgmi baseline | `GPUMetrics` | SMI library | a refused call is made once; an xgmi rate is no more than what the links moved |
| NVML GPU | the functions found | `gpu_metrics` | NVML library | a lost GPU or reading costs only itself |
| DCGM | none | `Collect` | `dcgmi`, its service | all GPUs of the output or none, each once |
| NTP | `lastSampleTime_` | `collect` | two commands of chrony | an age that some server's sample has |
| Ethtool, PressureStall, CpuFreq | none that a step depends on | read and copy to meters | commands, files | the copy is of the right field |
| Logger, files, options, registry | set up once | | everything | |

Hard behaviours, by kind (the list with lines is `hazards` in PROJECT.json):

* *time*: overruns of a second, of five, of sixty; late sleeps; a stepped system
  clock; an elapsed time taken from the wall clock; one `now` for a whole cycle;
* *interleaving*: a signal at any instruction of the loop; a unit that stops or
  restarts between two D-Bus reads; output that arrives between two polls;
* *failure*: unreadable files, half-finished initializations, child processes that
  exit or do not start, an HTTP service that fails, times out or comes back;
* *stale state*: baselines over restarts, an error that outlives the process it
  was about, sums that a failed read leaves for the next minute, cached URLs;
* *boundaries*: zero elapsed time, unsigned differences, divisors that are
  constants of the schedule and not of what happened.

## 2. Modules

| Module | Models | Code |
|---|---|---|
| `Schedule` | abstract: two series of slots, when the loop may rest and stop | |
| `AgentLoop` | the loop of all three agents, `wait_for`, the kill, the clock | `system-agent.cpp:98-145`, `atlas-agent.h:26-53` |
| `StartupDelay` | the agent from its start: delay, first wait, first publication, then `AgentLoop` | `atlas-agent.cpp:57-86`, `system-agent.cpp:85-96` |
| `AtomicWait` | abstract: a kill and a wait that happen at one instant each | |
| `Terminator` | mutexes, condition variable, signal handlers on threads | `atlas-agent.h:26-53`, `atlas-agent.cpp:24-55` |
| `CpuRateTracker` | the tracker's operators | `cpu_rate_tracker.h` |
| `TrackedCounter` | abstract: one counter, its restarts and samples | `service_monitor.cpp:124-180` |
| `ServiceMonitor` | initialization and cycle, refines a TrackedCounter for each counter of each service | `service_monitor.cpp`, `service_monitor_utils.cpp` |
| `Perfspect` | process, pipe, reader and poll | `perfspect.cpp` |
| `HttpClient` | attempts of a request | `http_client.cpp:174-263`, `log_entry.h` |
| `Aws` | token, profile, credentials, on top of `HttpClient` | `aws.h` |
| `ProcCpu` | gauges of the aggregate line, two baselines | `proc_cpu.h`, `proc.cpp:586-600, 772-795` |
| `CoreUtilization` | the per-core sums, composed with `AgentLoop` | `proc.cpp:626-701` |
| `MonotonicTimer` | the timer of a disk's requests and the device behind it | `monotonic_timer.cpp`, `disk.cpp:258-284` |
| `DiskIo` | the busy percentage: two clock readings, two baselines | `disk.cpp:176-184, 235-300` |
| `CgroupCpu` | a container's CPU: three series from one read of `cpu.stat` | `cgroup.cpp:63-219` |
| `CgroupIo` | a container's I/O and its share of the limit | `cgroup.cpp:314-615` |
| `DiskSpace` | the space of filesystems: the choice of a mount for each, then statvfs by its path | `disk.cpp:13-148, 302-350` |
| `Ebs` | the configured devices, the ioctl and its buffer, what is published of a volume | `ebs.cpp:35-275` |
| `ProcessCount` | the walk over the processes and their tasks | `proc.cpp:1000-1059` |
| `AmdGpu` | AMD GPUs: discovery, calls and fields that are latched off, the xgmi rate | `amd_smi.cpp`, `gpumetrics.cpp` |
| `Nvml` | NVIDIA GPUs through a library that may lack functions | `nvml.cpp`, `nvml/src/gpumetrics.h` |
| `Dcgm` | NVIDIA GPUs through the output of `dcgmi` | `dcgm_stats.cpp` |
| `Sums` | the sum of a count over a finite set, for `AmdGpu` and `ProcessCount` | |
| `Ntp` | the time server's last sample, from two commands | `ntp.cpp:9-84` |
| `PerfMetrics` | hardware counters for each CPU, reopened on hotplug | `perf_metrics.h:71-217`, `perf_metrics.cpp` |
| `CommandOutput` | a shell, the command it may fork, the pipe, the timeout | `util.cpp:117-230` |
| `MC*` | constants TLC's configurations cannot write; `MCCollectors` checks collectors that share no state in one run, one of them in each behavior | |
| `LoopProofs` | theorems about `AgentLoop`, `StartupDelay`, `CoreUtilization` | |
| `TerminatorProofs`, `ServiceMonitorProofs` | theorems about `Terminator` and `ServiceMonitor` | |
| `RequestProofs` | theorems about `HttpClient` and `Aws` | |
| `ProgramProofs` | theorems about `Perfspect` and `CommandOutput` | |
| `KernelProofs` | theorems about `TrackedCounter`, `ProcCpu`, `ProcessCount`, `PerfMetrics`, `CgroupCpu`, `CgroupIo` | |
| `DeviceProofs` | theorems about `MonotonicTimer`, `DiskIo`, `DiskSpace`, `Ebs`, `AmdGpu`, `Nvml`, `Dcgm`, `Ntp`, and about all of `MCCollectors` | |
| `DataInduction` | lemmas: induction over numbers and finite sets, loops over sequences, sums, largest elements | |

### How state and actions correspond to the code

*AgentLoop.* `pc` is the point of the iteration; `time` is `system_clock::now()` in
ticks, `Second` ticks a second, so that gathers can take fractions of one. Each
gather is an action that takes any time up to its bound, with the schedule
update that follows it in the code. `wait_for` is `WaitZero` (no time left: returns
true without looking at the flag), `WaitTimeout` (its predicate was false to the
end) and `WaitKilled`. A collector is only its duration here; what a collector
does is in a module of its own, and `CoreUtilization` composes one with the loop,
where the property depends on which iterations are due what.

*StartupDelay.* Before the loop time is the second of the minute, and the
distributions are sets of delays; from `stage = "loop"` on the steps are those of
`AgentLoop`, whose clock starts at the reading it takes there.

*Terminator.* A thread is a program and at most one handler on top of it; while the
handler runs the program does not, and a mutex the program holds stays held.
The loop is seen through its locks: a log call or a wait. The asynchronous
logger's queue mutex is a second lock, taken by every logging thread and by the
thread that drains the queue.

*TrackedCounter, ServiceMonitor.* A counter is CPU time in ticks. A restart starts
a new counter under a new identity (a PID) or under the same one (the path of a
cgroup). `used` is the CPU time over all generations, `base` what was true at the
baseline; both are history variables that no step of the code depends on. A rate
is the pair of differences the code divides. The monitor reads `MainPID`, `ActiveState`, `SubState`,
`ControlGroup` and the two counters in separate actions and the environment moves between
any two of them. The control group of a unit that has stopped may be empty, and an empty one names the root
cgroup (`RootPath`), whose counter `machine` is the CPU time of everything.

*Perfspect.* Time is two counters running down, to the next gather and to the
next output. The test of `running()` and the poll are separate actions, so the process may
exit between them. The pipe holds whole lines; a line is its kind and the
process it is from.

*HttpClient, Aws.* Time in units of 100 ms. `Finish` and `TryAgain` are the two ways an
attempt ends. Aws extends HttpClient: `Ask` starts a request, `Transfer` is a
step of it, whose outcome the metadata service decides, and the other actions
are what `collect` does with the status. The token ages with every transfer and
pause.

*ProcCpu, CoreUtilization.* A percentage is kept as numerator and denominator.
Counters have `Width` bits. In `CoreUtilization` a core is busy or idle all the
time, so that the right value of the gauge is known.

*MonotonicTimer, DiskIo.* One device name. `Added` is what `update` adds to its two
counters; `unpublished`, a history variable, what the device did and they do not have. A gather
of `DiskIo` is three actions, because the clock is read before the mount points and
after the devices; `percentBusy` is the pair the code divides, with what the property
needs to know of the gather.

*CgroupCpu.* A call is a read of `cpu.stat` followed by the series that are due, each
reading the clock at its own time (`stage` says which is next). The four counters
that go through the same code are one; the clock is not stepped. `stats.at` throws
in a `noexcept` function, which ends the agent: `CpuStatUnreadable`, and a
supervisor that starts it again, with its baselines gone and the registry's counters kept.

*CgroupIo.* A sample is one action: nothing it reads is read twice. The four counters are one,
and the limit is what the kernel enforces, so the moves of a tick are within it.

*PerfMetrics.* Three counters: instructions, whose failure to open disables everything,
and the two of one rate. A descriptor is the event count at its opening. Scaling by
the time a multiplexed event was counted is left out. `aborted` is the failed
`assert`; the default build type is Debug (`build.sh:11-14`).

*DiskSpace.* `table` is `/proc/self/mountinfo`, in the order of the mounts; `Resolve` is the
kernel's lookup of a path, which the last mount on the way decides. A gather is the choice
(`GatherSpace`), then one `StatFs` for each candidate in any order (the code walks a hash
table), between which mounts come and go. A path is a sequence of directories, so that "starts with" and
"is shorter" are about sequences; the directories left out are the set `Excluded`. `figures` is what
was published: by which mount, of which filesystem, and whether the table was still the one read.

*Ebs.* One page of one counter. `page` is the buffer of the device last queried; `Buffer`,
what an ioctl finds in it, is the fresh `stats{}` of each turn of the loop. A volume may be moved
between any two queries. `ops` starts different for each volume, so that the count tells which
volume was read.

A scan that keeps one candidate for each filesystem is a recursive function over the
table, one `AfterMount` for each mount.

*ProcessCount.* Two nested loops over `readdir`. `ReadEntries` takes the next processes from the
kernel, `OpenEntry` is one turn of the outer loop up to `count_tasks`, `ReadTasks` and `LastTask`
are the loop of `count_tasks`; tasks and processes start and end between any two of them. The
directory of tasks gives none twice, and may pass over some when the one it was at has ended, as
the kernel finds its place by counting. A task has an identity that no other of the walk has; a process number may be
used again. `lived`, `atStart`, `handed` and `given` are history variables.

*AmdGpu.* `CollectGpu` is `Collect` for one GPU: the three calls, of which the memory one is two of
the library's, the fields of the metrics table, and `RecordXgmi`. Accumulators count in the unit of the rate and
wrap nowhere near; reads and writes are one. `latched` is the set of `FirmwareSupport` objects that are
off. A minute's seconds are `BytesConversion`, and the property multiplies instead of dividing.

*Nvml.* A call of the library for one GPU is one action (`GetHandle`, `Ask`), and a GPU can be lost or
recover between two of them. `throughout` and `ever` are history variables: what worked all
through the gather, and at some time of it.

*Dcgm.* A line is its GPU and whether its values are numbers, text or too few. `Outputs` includes
a line cut off and a GPU with two lines. `SetToSeq` picks the order of lines, which nothing depends on.
`Parse` is a recursive function over the lines.

*Ntp.* `Clock::now()` is the wall clock: the time plus an offset that chrony steps, back as well
as forward, at any point. The two commands, the loop over the lines and the setting of the gauge are four actions;
`answered` is when the second command answered, and the answer
is used up to `MaxLag` later, an assumption on the commands, whose end the code waits for without a limit (`HeldOnlyByCommand`). `lastRx` is empty when the command failed, has no line for a server
without a sample, and may have text or a number out of `stoll`'s range in place of the age; `chrony_stats`
catches what the first throws, and the second ends the agent (`OutOfRange`). The agent's own kernel
clock reading (`ntp_stats`) is left out.

*MCCollectors, MCPrograms.* Behaviors of one collector with the others in one initial state, so
that one run of TLC explores the sum and not the product of their states.
`NvidiaWhole`, `FiguresAttributed` and `CollectorsTypeOK` are conjunctions of what the
collectors' modules state; `OnlyStaleErrorsSilence` is `StaleErrorsOnlySilence` of Perfspect where it runs.

*CommandOutput.* `sh -c` may become the command or fork it, so the writers of the pipe
are one process or two, of which only the first is killed and waited for. A chunk
is what one `read` returns at least, and how often chunks come has no bound: only what the pipe holds has. `select` has
its whole timeout again after each chunk. A shell may close its output and live on.


## 3. What the runs show

Bounds are constants named in the configurations.

| Run | Shows | Bounds |
|---|---|---|
| `AgentLoop` | `NoSlotOvertaken`, `SleepsAtMostASecond`, `PublishesAwayFromBoundary`, `ImplementsSchedule`, `KillStopsLoop`. The agent from its start: it publishes first away from the minute boundary; then, with gathers that overrun, late sleeps and a clock stepped forward, no slot is skipped, served early or overtaken, the loop refines the schedule it promises, and a kill ends it through whatever backlog there is. | Periods of 2 and 8 seconds of 3 ticks, gathers of up to 1, 1 and 7 ticks, sleeps 1 late, one forward step of 1 or 7, a kill within 50 ticks, 240 to stop in; every second of the minute to start at |
| `Terminator` | `NoLostWakeup`, `ImplementsAtomicWait`, `HandlerElsewhereEndsLoop`. Signals on any thread: no kill is lost between the test of the flag and the wait, kill and wait take effect at one instant each, and handlers on a thread that takes none of the agent's locks end the loop. | None: signals may reach each of the three threads |
| `TerminatorMain` (violation) | `SignalEndsLoop`. A signal delivered to the collecting thread while it holds the log queue's or the terminator's mutex leaves the agent running for good. | None: signals reach the collecting thread |
| `Collectors` | `CollectorsTypeOK`, `NeverOverestimates`, `ExactWithinGeneration`, `RateBounded`, `AtMostHundredPercent`, `ProcessesCounted`, `TimersNeverInvent`, `BusyWithinInterval`, `FiguresAttributed`, `UsedWithinAvailable`, `IoAccounted`, `DeltasExact`, `LatchedOnce`, `XgmiNeverInvents`, `NvidiaWhole`, `AgeHonest`, `EachSeriesExact`. Collectors that share nothing, one in each behavior. A service's counter that may keep its identity over restarts is never overestimated, is exact within a generation, and is bounded by the cores and the lag of its read; the percentages of /proc/stat stay below 100 through corrections of iowait, and each of the two series is exact since its own last read; a walk counts the processes and the tasks that lived all through it, and none that did not live in it; a disk's timers and busy time, a container's CPU time and I/O, and the events of a CPU account for what happened, through replaced devices, lines and reads that fail, late calls and restarts of the agent; the space of a filesystem and the figures of a volume are of that one, whatever is mounted over it or attached in its place; a GPU's refused calls are never made again, its links' rate is no more than what they moved, and a GPU that is lost costs the others nothing (NVML) or everything (DCGM); the age of the time server's sample is that of the server that was followed, but for the steps of the wall clock since. | Tracker: 2 cores, 3 ticks, 2 restarts. `/proc/stat`: 8-bit counters, 4 jiffies, 2 minute reads. Timer: 3 requests, 2 replacements. Disk: 1 device, attached again once, 3 ticks, a clock stepped by 1. Container: 1 CPU, 3 ticks, calls up to 1 late, 1 abort. I/O: 2 devices, 2 ticks, 1 readded. Perf: 2 CPUs, 4-bit values, 1 event each, 1 hotplug. Walk: 2 numbers, up to 3 tasks each, 2 starts or ends. Space: 3 filesystems, one nodev, 3 mount paths, 3 mounts, 3 changes. EBS: 2 paths in 2 files, 2 volumes, 1 operation each, 2 moves. AMD: 1 GPU of 2 links, 3 ticks, 2 answers short of full. NVML: 2 GPUs, 2 readings, 2 faults. DCGM: 2 GPUs, 2 changes. NTP: 2 servers, 3 ticks, a wall clock right or off by 2, answers used up to 1 late |
| `TrackedCgroupRecreated` (violation) | `OneGeneration`. A recreated cgroup with the old path does not reset the baseline. | 2 cores, 4 ticks, 2 restarts |
| `PerfReadFails` (violation) | `SizesAsserted`. A read that fails for one of the two counters of a rate leaves lists of different sizes, which the code asserts are equal. | 1 CPU, 1 event |
| `ServiceMonitor` | `MonitorsFirstMatches`, `SuccessMeansSampled`, `ImplementsTrackedCounters`. Every interleaving of a service's stops and restarts with the monitor's reads, its control group empty once it has stopped: each of its counters is a TrackedCounter. The first matches are monitored, up to the limit, through failed and interrupted initializations, and a successful cycle has sampled all of them, and never the root cgroup in their place. | 4 units, 3 matching, limit 2, 1 unit that runs and restarts once, 2 ticks |
| `Programs` | `StreamAligned`, `PublishedIsCurrent`, `WholeOrNothing`, `OnlyStaleErrorsSilence`, `HeldOnlyByCommand`. The two ways the agent runs a program. Through exits, failed starts and malformed lines of PerfSpect the reader stays aligned with the header of the current process and publishes its lines only, and nothing but the stale error of an earlier process keeps it from publishing for good; the output of a command is whole or nothing, and the call that reads it holds the agent for good only through output without end, or a shell that lives on after its output was closed or reading it failed. | Start-up of 4 to 7 s, gathers up to 2 s late, 3 faults. Command: a timeout of 2 ticks, a pipe of 2 chunks |
| `PerfspectSlowStart` (violation) | `KeepsPublishing`. A PerfSpect that needs more than one interval to start is replaced at every gather after the first error of the stream, and nothing is published any more. | Start-up of 4 to 7 s, 1 fault |
| `Aws` | `OneFinalEntry`, `TimeBounded`, `TokenOutlivesCollect`, `RecoversFromOutages`. The AWS collector on top of the HTTP client: with a wall clock that may be set back in any transfer, a request is counted once and takes bounded time, and the token outlives the collect; outages are recovered from. | Timeouts of 1 s, transfers of 0, 1 and 2 s, a wall clock set back by 0 or 2 s in each, one change of profile |
| `CoreUtilization` | `SteadyMinute`, `BoundedByFailures`. The per-core sums driven by the loop: every full minute of a busy core is published as 100% when reads succeed, and a failed read keeps the sums of one minute at most. | 2 cores, periods of 2 and 6 seconds of 2 ticks, 2 failures, 40 ticks |
| `CoreMissedMinute` (violation) | `NeverAboveHundred`. A read of /proc/stat that fails at the minute leaves its sums to the next one, which is published above 100%. | The same with 1 failure |

Why the bounds are enough. The loop's actions depend on times only through
differences, and a gather may overrun by more than a period of the short
series, on top of a clock that jumps by more than another, so every relation
between `time` and the two slots occurs; the work of a minute fits the minute,
which is what `KillStopsLoop` needs, and 240 ticks are more than the longest
backlog takes. `Terminator` has no bound at all: its state space is
finite. Two restarts give a tracked counter three generations, the least where
a stale baseline can be two behind. Of the monitored units one runs, and the
others are listed, enrolled and skipped: the trackers of two units share
nothing. Three faults let Perfspect fail, fail to restart and fail again. `ProcCpu`
uses a counter width larger than the jiffies counted: wrap-around of a 64-bit
jiffy counter is not reached by any machine. `CoreUtilization` has the divisor
scaled with the periods (three readings a minute and not twelve) and runs
through three minutes.

In `Collectors` each behavior is one of a single collector, so the bounds of one do
not constrain another. Two replacements give a timer devices with lower and higher
counters than the baseline; a disk needs three ticks, one in each of the two gathers and one
between, to be busier than the interval; a call of `CpuStats` may be late by as long as
the first interval stands in for, which is what its assumption allows; `IOStats`
needs a line that fails between two that do not; one unplugged CPU of two reopens
the other's counters. Three mounts let one filesystem be mounted twice with another in between
or over it, three changes let a mount come and go after the table was read;
two moves take a volume from one configured path and put another one there; two links let one
drop out while the other counts, and two answers short of full are a refusal and a dropped link, or a link
that is gone and comes back; two GPUs are one lost and one that is not, before and after it; a pipe of two chunks
is the least of which the first can be read alone. Two processes of up to three tasks let a walk count a task that has
ended and one that started since, in the same process and in two, and pass over a third. A wall clock that is right or off by two is
stepped both ways, by more than the lag of an answer.

`CHECK_DEADLOCK FALSE` is set in `Terminator` and `TerminatorMain` only, where a
handler that waits for a mutex of the thread it interrupted really stops the
system: `TerminatorMain` is about that.

### Disagreements between the code and its comments

Runs that expect a violation, each with an entry in `findings` that quotes the
comment:

* `PerfspectSlowStart` (`KeepsPublishing`, `src/lib/collectors/perfspect/src/perfspect.cpp:249`): ReadOutput reports the last error although no read of the new process has completed, and CleanupProcess does not clear it; perfspect.cpp:337-339 says "PerfSpect requires 4-7 seconds to startup / We may try to GatherMetrics and read from the stream / before it has produced any output, so we need to handle that case gracefully". After one end of stream a PerfSpect that starts slower than the five-second poll is restarted at every poll.
* `TrackedCgroupRecreated` (`OneGeneration`, `src/lib/collectors/service_monitor/src/service_monitor.cpp:170`): systemd recreates a unit's control group under the same path, so the baseline of the old one stays when its counter has been passed; service_monitor.cpp:170 says "The tracker keys on the control-group path, so a recreated cgroup resets the baseline."
* `TerminatorMain` (`SignalEndsLoop`, `src/AtlasAgent/src/atlas-agent.cpp:41`): The handler logs and locks the terminator's mutex on the thread it interrupted; when that thread holds the logger's queue or the mutex, it never returns. atlas-agent.h:24-25 says "Graceful-shutdown coordination shared by main()'s signal handler (which kills it) and the collector loops (which wait on it)."
* `CoreMissedMinute` (`NeverAboveHundred`, `src/lib/collectors/proc/src/proc.cpp:775`): CpuStats returns early when /proc/stat has no usable lines, the sums of the minute stay and the next minute is published above 100; proc.cpp:637-638 says the gauge is "the maximum average CPU usage across all cores over a 60-second window".
* `PerfReadFails` (`SizesAsserted`, `src/lib/collectors/perf_metrics/src/perf_metrics.cpp:121`): read_delta returns an empty vector when a read fails (perf_metrics.h:174-178), and update_rate reads two counters one after the other; when one of the two fails, perf_metrics.cpp:121 "assert(a_values.size() == b_values.size());" ends the agent, and without assertions (NDEBUG) a failed read of the second makes line 126 read past the end of its list.

Read off the models without a run of their own: `wait_for` returns true after a
kill when no time is left (`WaitZero`, against `atlas-agent.h:30`, "returns false
if killed"); a kill during the initial delay makes the agent publish at once
(`DelayKilled`, against `system-agent.cpp:85`); a wall clock set back during a
transfer has a read timeout retried (`TransferFails` of `HttpClient`, against `http_client.cpp:218`, "retry connect
timeouts if possible, not read timeouts"), which `TimeBounded` and `TokenOutlivesCollect` show to cost
no more than the attempts there are; a unit whose control group is empty in two cycles in a row, between whose states it
stopped each time, publishes the CPU time of the whole machine as its own (`OfRoot` of `ServiceMonitor`; `NeverOverestimates`
and its like are about the gauges of `own` counters, and `SuccessMeansSampled` says that such cycles
report a failure); the published age of the time server's sample is off by what the wall
clock was stepped by since the sample was found, and negative when that was far enough back (`AgeHonest` names the step);
an age in `sources` beyond the range of `stoll` ends the agent, as `chrony_stats` is `noexcept` and catches
`std::invalid_argument` only (`OutOfRange`); the tasks that a walk counts may be more than there ever were at once
(`ProcessesCounted`); a command that prints now and then for ever, or a shell that closes its output and lives on,
holds the agent for good, the timeout notwithstanding (`HeldOnlyByCommand`); two lines
ready at one poll are merged into the last (`Extracted`, against
`perfspect.cpp:211-212`); the first minute of the core utilization sums one
reading less than the twelve it divides by (`SteadyMinute` starts at the second);
and a counter read later than the `now` it is taken to be of gives more than 100%
for a busy core (`RateBounded` has the lag).

## 4. Fairness

* `AgentLoop!FairSpec`: weak fairness of the loop as a whole. The kernel schedules
  the thread, collectors return, a timeout or a notification wakes the condition
  variable. No fairness of the kill or of the clock. `KillStopsLoop` needs gathers
  that fit their periods on average (the bounds of the run): a loop that never
  catches up never sees the kill.
* `StartupDelay!FairAgentSpec`: the same from the start of the agent.
* `Terminator!FairSpec`: each critical section ends (weak), a mutex that is free
  again and again is obtained (strong), and the loop waits again and again. That
  is what pthreads and the loop's schedule give; no signal has to come.
* `Perfspect!FairSpec`, and the same of its steps in `MCPrograms!ProgramsSpec`: time passes, the process writes when it is due, the loop
  gathers. Faults are bounded and never forced.
* `CommandOutput!CommandFairness`, part of `MCPrograms!ProgramsSpec`: the agent's own steps
  (a timeout of `select` ends, a killed process is gone). Nothing is assumed of the shell or of the
  command: either may hang, print for ever, close its output and live on, or hold the pipe after
  the shell is dead. `HeldOnlyByCommand` names what can hold the agent: it is free again and again, or it reads
  again and again, or it waits for a shell that lives on.
* `Aws!FairAwsSpec`: the loop collects and a transfer ends; outages may last for
  ever, and `RecoversFromOutages` is about those that do not.

## 5. What is proved

TLAPS checks these for all values of the constants that satisfy the modules'
named assumptions.

* `LoopProofs!LoopTyped`: Every variable of the loop has its type, for every period, bound and clock step.
* `LoopProofs!SlotsServed` (`NoSlotOvertaken`): No iteration ends with its schedule past an unserved slot, for all periods and all durations, when the clock is not set back.
* `LoopProofs!SleepsCaughtUp`: The loop sleeps only when exactly the due slots are served.
* `LoopProofs!SleepsBounded` (`SleepsAtMostASecond`): The loop never asks for more than a second of sleep.
* `LoopProofs!LoopImplementsSchedule` (`ImplementsSchedule`): The loop implements the schedule it promises.
* `LoopProofs!SixtyRunsWithFive`: When the long period is a multiple of the short one, an iteration that has the long one due has the short one due, whatever the clock does.
* `LoopProofs!DelayLandsInside`: Every delay drawn in any second of the minute ends at least ten seconds away from a boundary.
* `LoopProofs!FirstPublishPlaced` (`PublishesAwayFromBoundary`): The first publication of an agent nobody kills is not near a minute boundary, for every lateness below ten seconds.
* `LoopProofs!AgentImplementsLoop`: The agent with its start-up delay implements the loop by itself, so every theorem about the loop holds of the agent.
* `TerminatorProofs!LocksExclusive`: The owner of each mutex is the thread inside its critical section, whichever threads signals are delivered to.
* `TerminatorProofs!NoKillLost` (`NoLostWakeup`): The loop is never waiting on the condition variable with a kill behind it that will not notify it.
* `TerminatorProofs!TerminatorImplementsAtomicWait` (`ImplementsAtomicWait`): The mutex protocol implements a kill and a wait that take effect at one instant each.
* `KernelProofs!CounterTyped`: Every variable of the tracked counter has its type.
* `KernelProofs!CounterNeverOverestimates` (`NeverOverestimates`): No delta published of the service's own counter exceeds the CPU time used since the baseline, restarts of any kind and samples of the root cgroup in between included.
* `KernelProofs!CounterRateBounded` (`RateBounded`): A published delta, of the service or of the root cgroup, is at most what the cores can do in the elapsed time and the lag.
* `KernelProofs!CounterExact` (`ExactWithinGeneration`): Within a generation the published delta is exactly the CPU time used since the previous sample, skipped cycles included.
* `KernelProofs!CounterOneGeneration`: With identities that are not reused, baseline and sample are of the same generation.
* `RequestProofs!RequestTimeBounded` (`TimeBounded`): A request takes at most three timeouts and the two waits, for all timeouts and however far the wall clock is set back or forward during a transfer.
* `RequestProofs!RequestsCountedOnce` (`OneFinalEntry`): A request has exactly one final entry in the log, after its retries.
* `DeviceProofs!TimersHonest` (`TimersNeverInvent`): No timer publishes a request or time that did not happen since it was created, for any number of requests and of devices replaced.
* `DeviceProofs!VolumesAttributed`: What is published of a block device is of the volume that was at its path when it was asked, and the gather succeeds when every device asked so far answered in full, for any volumes, paths and faults.
* `DeviceProofs!LostGpuCostsItself`: What worked all the while of a GPU the walk is past is shown, and only what worked at some time, for any number of GPUs and of faults of the others.
* `DeviceProofs!SampleAgeHonest` (`AgeHonest`): The published age is that of the sample the followed server had, or of the last one found so, but for the lag of the answer and the steps of the wall clock since, in either direction; for any servers, offsets and lag, through failed commands and ends of the agent.
* `DeviceProofs!RefusedOnce` (`LatchedOnce`): No call is refused twice and nothing is logged twice, for any GPUs, fields and links.
* `KernelProofs!ContainerWithinCapacity` (`UsedWithinAvailable`): What a container is published to have used is within what is published as available, for any number of CPUs and any delay of a call up to the first interval, through restarts of the agent.
* `DeviceProofs!BusyHonest` (`BusyWithinInterval`): A disk is published above 100% busy by the time the two gathers took at most, however long that is, for a device that was read before and a clock that was not stepped.
* `KernelProofs!CpuWithinHundred` (`AtMostHundredPercent`): The percentages of the CPU add up to 100% at most, whatever iowait is corrected to, for any width of the counters.
* `KernelProofs!SeriesExact` (`EachSeriesExact`): The peak tells the time since the last read and the minute's utilization the time since the last minute's read, exactly but for corrections of iowait, in any order of reads: neither series disturbs the other's baseline.
* `KernelProofs!PerfDeltasExact` (`DeltasExact`): A hardware counter's delta is of exactly the events since the last reading, for any CPUs, failures and hotplugs, unless the CPU was reopened over a previous value.
* `KernelProofs!IoNeverLost` (`IoAccounted`): What a container's device moved is published once and within its limit, for any devices, limits and lines that do not parse.
* `ProgramProofs!HeaderSkipped` (`StreamAligned`): The line the reader skips is the header and the only one, through any failures and starts of any length.
* `ProgramProofs!NeverAnOldLine` (`PublishedIsCurrent`): No line of an earlier process is published.
* `ProgramProofs!OutputWhole` (`WholeOrNothing`): A caller gets all that was printed or nothing, for any timeout, pipe and output, finite or not.
* `RequestProofs!AwsImplementsHttp`: The collector's requests are requests of HttpClient one after the other, so the theorems about a request hold of the collector.
* `RequestProofs!TokenLasts` (`TokenOutlivesCollect`): The token outlives every attempt of the requests that use it, for all timeouts, if it lasts seven timeouts and the pauses of two requests.
* `ServiceMonitorProofs!MonitorTypes`: Every variable of the monitor has its type and the service being read is on its list, for all listings, limits and restarts.
* `ServiceMonitorProofs!FirstMatchesMonitored` (`MonitorsFirstMatches`): An initialization that nothing interrupted has enrolled exactly the first matching units, in order and each once; one that was interrupted keeps within the limit. For any listings, of any length.
* `ServiceMonitorProofs!SuccessIsComplete` (`SuccessMeansSampled`): A cycle that reports success has left no monitored service out and taken no other counter for a service's, for any services, stops and failures between its reads, empty control groups included.
* `ServiceMonitorProofs!MonitorImplementsTrackedCounters` (`ImplementsTrackedCounters`): Every counter of every service behaves as TrackedCounter says: a main process is sampled under its own generation's identity, and the root cgroup's counter under the empty path only, although PID, states, control group and counter are read one after another.
* `LoopProofs!MinuteAddsUp`: Where every five-second slot is read before the next one is due, a busy core's minute is exactly 100% when no read failed, and above it by no more than a minute for each that did.
* `LoopProofs!SlotsReadOnTime`: Every five-second slot is read before the next one is due when a five-second iteration and a late sleep fit a period, and a sixty-second iteration fits two with them.
* `LoopProofs!BusyCoreAtHundred` (`SteadyMinute`): The two together: a busy core's minute is exactly 100%, for all periods, gathers and waits within those bounds.
* `LoopProofs!FailuresBounded` (`BoundedByFailures`): Within those bounds a busy core's minute is above 100% by no more than a minute's worth for each read that failed.
* `KernelProofs!WalkCounts` (`ProcessesCounted`): A walk over /proc and the directories of tasks counts every process that lived all through it, every task that did in a process that lost none, and none that did not live in it, and nothing twice; for any processes, tasks and changes between any two reads of a directory.
* `DeviceProofs!SpaceHonest`: A gather asks once for each filesystem of interest, by its shortest path, and in a table that has not changed the figures are of another one only when a mount listed later covers the path; for any table, paths and changes.
* `DeviceProofs!XgmiHonest` (`XgmiNeverInvents`): An increment of the links' traffic is never negative and no more than what they moved, for any links, resets, failed reads and populations of links.
* `DeviceProofs!AllOrNoGpus`: A gather of dcgmi sets the gauges of all the GPUs of its output or of none, for any output.
* `DeviceProofs!CollectorsAttribute` (`FiguresAttributed`): The figures of a filesystem and of a volume are of that one, whichever of the collectors runs.
* `DeviceProofs!CollectorsShowGpus` (`NvidiaWhole`): A lost NVIDIA GPU costs itself (NVML) or the whole gather (DCGM), whichever of the collectors runs.
* `DeviceProofs!CollectorsTyped` (`CollectorsTypeOK`): Every variable of the fourteen collectors has its type, for all constants.

Along which argument:

* *AgentLoop.* No safety property of the loop is inductive. The invariant `IInv`
  adds, for each point of the iteration, where the clock and `next_run` are
  relative to the two slots: an iteration that starts at `start` found every slot
  at most `start` due, `next_run` is at most `start` when it starts, and a slot is
  behind `next_run` only until its gather. It holds when the clock is only stepped forward
  (`ClockSteps \subseteq Nat`, an assumption of those theorems, not of the module);
  a step back breaks it, and the agent then really sleeps as long as the step.
  `SixtyRunsWithFive` needs no assumption on the clock: the long slot is always at
  a multiple of the short period, and never before the short one.
* *Terminator.* Ownership of the two mutexes by program point, and then the
  lost-wake-up property with the handler between `set` and `notify`.
* *StartupDelay.* While the agent waits, its delay fits the second it started at;
  the steps of the loop are `AgentLoop`'s own, so `AgentImplementsLoop` carries the
  theorems of the loop over to the agent.
* *TrackedCounter.* `Accounted` relates the baseline's counter to the CPU time used
  since, with a counter that was reset as the case that makes the difference
  smaller; `Busy` bounds the use by cores and time.
* *MonotonicTimer.* `Owed`: at least what the device counted since the last update is
  unpublished, which is less than nothing when the device was replaced.
* *DiskIo.* `SinceRead` is the time since a device was read, in what the code has at each point of a
  gather: the interval it divides by and the time spent in gathers, which it leaves out. A
  device is busy for no longer, until a step of the clock, whose effect ends with a gather.
* *ProcCpu.* `Behind`: no baseline is ahead of the kernel, and all counters together are
  of the jiffies that passed, so no difference wraps around (`GaugeExact`). `SeriesExact`: each baseline is behind
  by the time counted since the last read of its own series (`sinceSecond`, `sinceMinute`), but for iowait.
* *PerfMetrics.* `ReadingKept`: the last reading of an open CPU is what its descriptor and
  previous value add up to, or it was reopened over an old value.
* *CgroupCpu.* `Baseline`: what was used since the baseline of a series is within what
  the CPUs could do since `cpu.stat` was read for it. `Ahead`: the capacity is ahead of the
  use by what the CPUs could do in the delay of the last call, which the five seconds given
  at the first call cover (`MaxCpuDelay` is at most `FirstInterval`, an assumption of
  the module); without it the use of a delayed first call is never made up for.
* *CgroupIo.* `SinceSample`: what a device moved since its sample is unpublished and within
  what the limit allowed since then.
* *Ebs.* A device still to be queried in this gather has published nothing, so whether it
  succeeds depends on those queried.
* *Ntp.* The age on a line of `sources`, counted back from when the command
  answered, is that of the sample its server had then; what is computed from it later is off by the time in between,
  and by the offset of the wall clock at that moment, which `basis` keeps.
* *Nvml.* What worked all through works now and worked at some time; of the GPU the walk is at,
  `Wanted` readings that were asked for are shown.
* *AmdGpu.* A call that is made was never refused, so a refusal is the first
  (`LatchStep`). The fields of the table must not have the names of calls, which is an
  assumption of the module.
* *Perfspect.* `HeaderFirst`: while the process runs and nothing was read of it, the pipe holds
  something just if the header is out; `StreamAligned` alone does not say that a line of data never
  comes first.
* *CommandOutput.* While the agent reads, what it has and what is in the pipe are all that
  was printed, and it is to read an end only when nobody can write.
* *HttpClient.* `Paced` bounds the time spent by the number of attempts made; `Logged`
  relates log entries to attempts. *Aws* implements HttpClient; with `Paced` carried
  over, `Aged` bounds the token's age by the requests made since it was issued.

* *CoreUtilization.* `CoreInv` counts the reads since the minute began by the slots that the
  loop's schedule is past: `Divisor` of them between two minutes, unless a slot is read after the
  next one was due (`ReadsOnTime`). `MinuteAddsUp` has that as its hypothesis, and
  `SlotsReadOnTime` derives it from bounds on the gathers and on the lateness of a sleep
  (`Unhurried`) and from a sixty-second period of `Divisor` five-second ones (`Aligned`); the
  agent's twelve times five seconds is one, and the constants of `CoreUtilization.cfg` satisfy both.
  Without the bounds two slots can be read in one period, and the sum of a minute is then of too few usages.
* *ServiceMonitor.* The loop of `init_monitored_services` is followed unit by unit: after n units
  the list is that of the first matching ones among them. `SuccessIsComplete` needs, at
  each point of a cycle, that every service before the current one is done, or a failure was recorded. For the
  refinement the identity that the cycle holds is related to the generation that was running
  when it was read; a read that succeeds later is of the same generation, because another one would
  have another PID, and the process of the old one is gone. An empty control group (`Gone`) was read of a unit that
  had stopped since its main PID was read, so that its process cannot be read any more: a cycle that samples
  the root cgroup for a service has already failed.
* *ProcessCount.* `OnceEach` and `NoneMissed`: at each point of a walk each process that lasts is ahead of it or counted, each
  task that lasts undisturbed is in a process that is ahead, in the directory that is open, or counted, and
  what was counted lived in the walk and was counted once.
* *DiskSpace.* The candidates after each mount of the table: for each filesystem the first of its
  shortest paths. A mount that covers another is listed after it, since the kernel appends.
* *AmdGpu, the rate.* `CountedMoved`: the links that were in the baseline have counted no more
  since then than was moved; a reset starts them at 0 again (`SumOfZeros`). The links of the next sample
  are among those and the ones that came back, which the property allows (`SumOverLess`, `SumDisjoint`).
* *Dcgm.* What `Parse` has after each line: the GPUs of the lines so far, each once, if all were good.
* *All collectors.* `EachAlone`: a behavior of `MCSpec` is one of each collector's own specification,
  so `CollectorsTyped`, `CollectorsAttribute` and `CollectorsShowGpus` join the
  theorems of the collectors.

Induction over data. Library theorems that take a predicate as a parameter cannot be applied by the
provers, so `DataInduction` states induction with a set in its place: a set that has 0 and the successor
of each member has all naturals, one that has `{}` and each member with an element added has all subsets. They
rest on the well-foundedness of the strict subsets of a finite set. From them come: a loop over a
sequence has a result after each element (`LoopOver`), a recursive sum is defined, does not depend on the
order, is monotonic and bounded, and a finite set of numbers has a largest and a smallest one. What the
recursive functions of `ServiceMonitor`, `DiskSpace` and `Dcgm` and the sums of `AmdGpu` and
`ProcessCount` compute is proved that way, for inputs of any length.

Assumptions on constants that deserve a word. systemd lists a unit once
(`MonitorAssumption`). The sets that are summed or enumerated are finite. There is room for the root
in the table of mounts, and for a first moment on the clock of `Ntp`
(`MaxMounts` and `MaxNtpTime` above 0), because both models start there. `2 ^ Width \in Nat` is among the assumptions
of `ProcCpu` and `PerfMetrics` because the provers do not know the exponential. The prover and
TLC do not parse `SUBSET S \ T` alike, so the models write parentheses.

Only model-checked: liveness (`KillStopsLoop`, `SignalEndsLoop`, `HandlerElsewhereEndsLoop`,
`KeepsPublishing`, `OnlyStaleErrorsSilence`, `HeldOnlyByCommand`, `RecoversFromOutages`), since TLAPS has
neither fairness nor ENABLED here, and the properties of the runs that expect a violation. Every invariant
of a passing run is a theorem.
`VolumesAttributed`, `SpaceHonest`, `LostGpuCostsItself` and `AllOrNoGpus` are the parts of
`FiguresAttributed` and `NvidiaWhole`. `TypeOK` of `AgentLoop`, `Terminator` and `ServiceMonitor`
and `SixtyOnlyWithFive` are proved and not checked by a run.

## 6. Not modelled

* Gauges and monotonic counters that copy a field of a file or a driver's
  reading: no state of the agent is involved, and a unit test with a sample file
  reaches all of it.
* Parsing and formatting: a line parses or does not.
* Third-party code (spectator-cpp, spdlog, boost, libcurl, sdbus-c++): external
  actions, as the code under `src/` uses them.
* What a read of a destroyed boost::asio object does (`perfspect.cpp:178-179`).

## 7. Plan

Done: the loop and its abstract schedule, the start-up delay, the terminator,
the tracked counters and the monitor, Perfspect, HttpClient, Aws,
`/proc/stat`, the disks and their filesystems, EBS volumes, the
container's CPU and I/O, the hardware counters, the processes, AMD and
NVIDIA GPUs, the time server's sample, the command's output;
the proofs of section 5.

Next, in this order:

1. `CgroupCpu` driven by the loop, so that the five- and sixty-second series are due when the
   schedule says, as `CoreUtilization` already is.
2. Perf values that are scaled by the time counted, and a refusal of the kernel for some CPUs.
3. Proofs: the safety part of `KillStopsLoop` (how many iterations a backlog takes), and of
   `OnlyStaleErrorsSilence` (what state of the reader it is that silences it).
