-------------------------------- MODULE Nvml --------------------------------
(***************************************************************************)
(* GpuMetrics over the NVML library, which is loaded when the agent starts *)
(* and may lack functions.  Once a minute the agent asks it for the number *)
(* of GPUs and then, for one after the other, for a handle and for some    *)
(* readings.  A GPU may be lost, and recover, between any two calls.       *)
(***************************************************************************)
EXTENDS Integers

CONSTANTS GpuCount,   \* GPUs of the machine, which are 0 .. GpuCount - 1
          Readings,   \* memory, utilization, performance state, temperature
          MaxFaults   \* bound: readings that stop or start to work

ASSUME NvmlAssumption == {GpuCount, MaxFaults} \subseteq Nat

VARIABLES symbols,    \* nvml_symtab: the functions that were found
          nvml,       \* "loaded" (not initialized), "on", or "off"
          working,    \* readings of each GPU that the driver answers
          faults,     \* a history variable
          gpuCount,   \* gpu.count
          index,      \* the GPU the gather is at, NoGpu between gathers
          toAsk,      \* readings it has still to ask that GPU for
          shown,      \* readings of each GPU that the gather published
          throughout, \* those that worked all through it, a history variable
          ever        \* those that worked at some time of it, a history variable

nvmlVars == <<symbols, nvml, working, faults, gpuCount, index, toAsk, shown, throughout, ever>>

NoGpu == -1
GpuIds == 0 .. GpuCount - 1
Functions == Readings \cup {"init", "count", "handle"}

\* dlopen has succeeded, or there is nothing to collect; a handle works like a
\* reading.
NvmlInit ==
    /\ symbols = {}
    /\ nvml \in {"loaded", "off"}
    /\ working \in [GpuIds -> {Readings \cup {"handle"}, {}}]
    /\ faults = 0
    /\ gpuCount = 0
    /\ index = NoGpu
    /\ toAsk = {}
    /\ shown = [g \in GpuIds |-> {}]
    /\ throughout = working
    /\ ever = working

-----------------------------------------------------------------------------
\* A GPU is lost or back, or a reading of it stops or starts to work.
Fault ==
    /\ faults < MaxFaults
    /\ faults' = faults + 1
    /\ \E g \in GpuIds, S \in {Readings \cup {"handle"}} \cup {{r} : r \in Readings} :
          /\ working' \in {[working EXCEPT ![g] = @ \cup S], [working EXCEPT ![g] = @ \ S]}
          /\ working' # working
    /\ throughout' = [g \in GpuIds |-> throughout[g] \cap working'[g]]
    /\ ever' = [g \in GpuIds |-> ever[g] \cup working'[g]]
    /\ UNCHANGED <<symbols, nvml, gpuCount, index, toAsk, shown>>

\* Nvml::initialize: nvmlInit is missing or fails, or collection is on.
Initialize ==
    /\ nvml = "loaded"
    /\ symbols' \in SUBSET Functions
    /\ \/ "init" \in symbols' /\ nvml' = "on"
       \/ nvml' = "off"
    /\ UNCHANGED <<working, faults, gpuCount, index, toAsk, shown, throughout, ever>>

\* A call of the library for GPU g gives a result; to_bool.
Answers(function, g) == function \in symbols /\ function \in working[g]

\* GpuMetrics::Collect without the library, or without a count.
NothingToAsk ==
    /\ \/ nvml = "off"
       \/ nvml = "on" /\ "count" \notin symbols
    /\ UNCHANGED nvmlVars

\* The start of gpu_metrics.
GetCount ==
    /\ nvml = "on"
    /\ index = NoGpu
    /\ "count" \in symbols
    /\ gpuCount' = GpuCount
    /\ index' = IF GpuCount > 0 THEN 0 ELSE NoGpu
    /\ toAsk' = {}
    /\ shown' = [g \in GpuIds |-> {}]
    /\ throughout' = working
    /\ ever' = working
    /\ UNCHANGED <<symbols, nvml, working, faults>>

NextGpu(g) == IF g + 1 < gpuCount THEN g + 1 ELSE NoGpu

\* The loop body for a GPU whose handle cannot be had ...
StopAtLost ==
    /\ index # NoGpu
    /\ toAsk = {}
    /\ ~Answers("handle", index)
    /\ index' = NoGpu
    /\ UNCHANGED <<symbols, nvml, working, faults, gpuCount, toAsk, shown, throughout, ever>>
SkipLost ==
    /\ index # NoGpu
    /\ toAsk = {}
    /\ ~Answers("handle", index)
    /\ index' = NextGpu(index)
    /\ UNCHANGED <<symbols, nvml, working, faults, gpuCount, toAsk, shown, throughout, ever>>

\* ... and for one that gives it: the readings that it still gives when asked
\* for them are published.
GetHandle ==
    /\ index # NoGpu
    /\ toAsk = {}
    /\ Answers("handle", index)
    /\ toAsk' = Readings
    /\ UNCHANGED <<symbols, nvml, working, faults, gpuCount, index, shown, throughout, ever>>

Ask(r) ==
    /\ r \in toAsk
    /\ toAsk' = toAsk \ {r}
    /\ shown' = [shown EXCEPT ![index] = IF Answers(r, index) THEN @ \cup {r} ELSE @]
    /\ index' = IF toAsk' = {} THEN NextGpu(index) ELSE index
    /\ UNCHANGED <<symbols, nvml, working, faults, gpuCount, throughout, ever>>

NvmlNext ==
    Fault \/ Initialize \/ NothingToAsk \/ GetCount \/ SkipLost \/ GetHandle \/ \E r \in Readings : Ask(r)

NvmlSpec == NvmlInit /\ [][NvmlNext]_nvmlVars

-----------------------------------------------------------------------------
NvmlTypeOK ==
    /\ symbols \subseteq Functions
    /\ nvml \in {"loaded", "on", "off"}
    /\ working \in [GpuIds -> SUBSET (Readings \cup {"handle"})]
    /\ gpuCount \in {0, GpuCount}
    /\ index \in GpuIds \cup {NoGpu}
    /\ toAsk \subseteq Readings
    /\ shown \in [GpuIds -> SUBSET Readings]

(***************************************************************************)
(* nvml/src/gpumetrics.h:75-120: a reading that is lost costs nothing but  *)
(* itself.  A gather publishes every reading that its GPU, reachable all   *)
(* the while, gives all the while, and none that it never gave, whichever  *)
(* functions the library lacks and whatever becomes of the other GPUs.     *)
(***************************************************************************)
GpusIndependent ==
    \A g \in GpuIds :
       /\ shown[g] \subseteq ever[g] \cap symbols
       /\ (index = NoGpu \/ g < index) /\ gpuCount > 0
             /\ {"handle", "count"} \subseteq symbols /\ "handle" \in throughout[g]
             => throughout[g] \cap symbols \cap Readings \subseteq shown[g]
=============================================================================
