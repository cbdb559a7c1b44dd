---------------------------- MODULE MCCollectors ----------------------------
(***************************************************************************)
(* The collectors that share no state, in one run of TLC: each behavior is *)
(* one of a single collector, with the others at rest in an initial state. *)
(***************************************************************************)
EXTENDS TrackedCounter, ProcCpu, ProcessCount, MonotonicTimer, DiskIo, DiskSpace, Ebs,
        CgroupCpu, CgroupIo, PerfMetrics, AmdGpu, Nvml, Dcgm, Ntp

VARIABLE collector   \* the one that runs

proc == <<vars, cpuVars, processVars>>
disks == <<timerVars, diskVars, spaceVars, ebsVars>>
cgroup == <<cgroupCpuVars, ioVars>>
gpus == <<amdVars, nvmlVars, dcgmVars>>
all == <<collector, proc, disks, cgroup, perfVars, gpus, ntpVars>>

\* Values of constants that a configuration file cannot express.
MCGpus == {<<0, 0>>}
MCMountPaths == {<<"a">>, <<"b">>, <<"a", "b">>}
MCExcluded == {<<"b">>}
MCConfigFiles == <<{"nvme1"}, {"nvme1", "nvme2"}>>

\* A collector that does not run is in one initial state of its own ...
AtRest(c, rest) == IF collector = c THEN TRUE ELSE rest

MCInit ==
    /\ collector \in {"tracker", "cpu", "processes", "timer", "disk", "space", "ebs", "cgroup cpu",
                       "cgroup io", "perf", "amd", "nvml", "dcgm", "ntp"}
    /\ Init
    /\ CpuInit
    /\ ProcessInit /\ AtRest("processes", alive = {})
    /\ TimerInit /\ AtRest("timer", device = NoRequests)
    /\ DiskInit /\ AtRest("disk", busyTime = [d \in Devices |-> 0])
    /\ SpaceInit /\ AtRest("space", table[1].fs = CHOOSE f \in Filesystems \ (NoDev \cup Memory) : TRUE)
    /\ EbsInit /\ AtRest("ebs", /\ volumeAt = [p \in Paths |-> Absent]
                                 /\ ops = CHOOSE o \in [Volumes -> 0 .. MaxOps] : EbsOps(o))
    /\ CgroupCpuInit /\ AtRest("cgroup cpu", usage = 0)
    /\ IoInit /\ AtRest("cgroup io", listed = {} /\ io = [d \in Disks |-> 0])
    /\ PerfInit /\ AtRest("perf", online = Cpus)
    /\ AmdInit /\ AtRest("amd", found = {})
    /\ NvmlInit /\ AtRest("nvml", nvml = "off" /\ working = [g \in GpuIds |-> {}])
    /\ DcgmInit /\ AtRest("dcgm", ~dcgmi /\ ~dcgmService /\ readings = [g \in DcgmGpus |-> "gone"])
    /\ NtpInit /\ AtRest("ntp", /\ sampled = [s \in Servers |-> Never]
                                 /\ wallOffset = CHOOSE o \in Offsets : TRUE)

\* ... and stays in it.
LeftAlone(c, v) == IF collector = c THEN TRUE ELSE UNCHANGED v

MCNext ==
    /\ \/ collector = "tracker" /\ Next
       \/ collector = "cpu" /\ CpuNext
       \/ collector = "processes" /\ ProcessNext
       \/ collector = "timer" /\ TimerNext
       \/ collector = "disk" /\ DiskNext
       \/ collector = "space" /\ SpaceNext
       \/ collector = "ebs" /\ EbsNext
       \/ collector = "cgroup cpu" /\ CgroupCpuNext
       \/ collector = "cgroup io" /\ IoNext
       \/ collector = "perf" /\ PerfNext
       \/ collector = "amd" /\ AmdNext
       \/ collector = "nvml" /\ NvmlNext
       \/ collector = "dcgm" /\ DcgmNext
       \/ collector = "ntp" /\ NtpNext
    /\ LeftAlone("tracker", vars)
    /\ LeftAlone("cpu", cpuVars)
    /\ LeftAlone("processes", processVars)
    /\ LeftAlone("timer", timerVars)
    /\ LeftAlone("disk", diskVars)
    /\ LeftAlone("space", spaceVars)
    /\ LeftAlone("ebs", ebsVars)
    /\ LeftAlone("cgroup cpu", cgroupCpuVars)
    /\ LeftAlone("cgroup io", ioVars)
    /\ LeftAlone("perf", perfVars)
    /\ LeftAlone("amd", amdVars)
    /\ LeftAlone("nvml", nvmlVars)
    /\ LeftAlone("dcgm", dcgmVars)
    /\ LeftAlone("ntp", ntpVars)
    /\ UNCHANGED collector

MCSpec == MCInit /\ [][MCNext]_all

-----------------------------------------------------------------------------
\* Every variable of every collector has its type.
CollectorsTypeOK ==
    /\ TypeOK /\ CpuTypeOK /\ ProcessTypeOK
    /\ TimerTypeOK /\ DiskTypeOK /\ SpaceTypeOK /\ EbsTypeOK
    /\ CgroupCpuTypeOK /\ IoTypeOK
    /\ PerfTypeOK
    /\ AmdTypeOK /\ NvmlTypeOK /\ DcgmTypeOK
    /\ NtpTypeOK

(***************************************************************************)
(* The two collectors of NVIDIA GPUs: what cannot be read of one GPU costs *)
(* the others nothing through NVML, and everything through dcgmi.          *)
(***************************************************************************)
NvidiaWhole == GpusIndependent /\ DcgmWhole

(***************************************************************************)
(* What is published for a filesystem or a volume is of that one, whatever *)
(* is mounted over it or attached in its place.                            *)
(***************************************************************************)
FiguresAttributed == SpaceAttributed /\ EbsAttributed
=============================================================================
