\* A service of two cores that restarts twice, and may keep its cgroup path or
\* read the root's; /proc/stat with corrections of iowait by any amount, reads
\* in any order; a walk over two processes of up to three tasks, of which two
\* start; a device that is replaced twice, one that is detached and attached
\* again, with the clock stepped; mounts of three filesystems over each other;
\* two paths for volumes that move; a container of one CPU whose calls are late
\* by a tick; two devices of which one comes back; two CPUs of which one may be
\* unplugged; GPUs that lose links, readings and themselves; two time servers
\* and a wall clock that is stepped.
SPECIFICATION MCSpec
CONSTANTS
    Cores = 2
    FreshIdentities = FALSE
    MaxTime = 3
    MaxGeneration = 2
    Width = 8
    MaxJiffies = 4
    MaxReads = 2
    MaxRequests = 3
    MaxReplaced = 2
    Devices = {"sda"}
    MaxDiskTime = 3
    MaxAttached = 1
    CpuCount = 1
    FirstInterval = 1
    MinuteInterval = 3
    MaxCpuDelay = 1
    MaxCpuTime = 3
    MaxAborts = 1
    Disks = {"sda", "sdb"}
    Limit = 1
    Interval = 1
    MaxIoTime = 2
    MaxReadded = 1
    Cpus = {0, 1}
    PerfWidth = 4
    MaxEvents = 1
    MaxHotplugs = 1
    MaxPid = 2
    MaxTasks = 3
    MaxForks = 2
    Filesystems = {"xvda", "xvdb", "cgroup"}
    NoDev = {"cgroup"}
    Memory = {}
    MountPaths <- MCMountPaths
    Excluded <- MCExcluded
    MaxMounts = 3
    MaxRemounts = 3
    Paths = {"nvme1", "nvme2"}
    ConfigFiles <- MCConfigFiles
    Volumes = {"vol1", "vol2"}
    MaxOps = 1
    MaxMoves = 2
    Gpus <- MCGpus
    Scalars = {"power"}
    Links = {0, 1}
    BytesConversion = 2
    XgmiWidth = 64
    MaxGpuTime = 3
    MaxOdd = 2
    GpuCount = 2
    Readings = {"memory", "temperature"}
    MaxFaults = 2
    DcgmGpus = {"gpu0", "gpu1"}
    MaxRestarts = 2
    Servers = {"s1", "s2"}
    Offsets = {0, 2}
    MaxNtpTime = 3
    MaxLag = 1
INVARIANTS CollectorsTypeOK NeverOverestimates ExactWithinGeneration RateBounded AtMostHundredPercent ProcessesCounted TimersNeverInvent BusyWithinInterval FiguresAttributed UsedWithinAvailable IoAccounted DeltasExact LatchedOnce XgmiNeverInvents NvidiaWhole EachSeriesExact AgeHonest
