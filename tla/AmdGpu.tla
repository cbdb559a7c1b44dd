------------------------------- MODULE AmdGpu -------------------------------
(***************************************************************************)
(* GpuMetricsAMD over AmdSmi: once a minute the agent reads each GPU with  *)
(* three calls, of which one is a table of fields.  A call the firmware    *)
(* does not support is never made again; a field it leaves unpopulated is  *)
(* skipped; any other failure is forgotten.  The xgmi rate is a difference *)
(* of two sums over the links of a GPU.                                    *)
(*                                                                         *)
(* A GPU is a pair of a socket and a device.  The scalar fields go through *)
(* the same code, and reads and writes of xgmi too: there is one counter   *)
(* for each link, in the unit of the rate.                                 *)
(***************************************************************************)
EXTENDS FiniteSets, Sums

CONSTANTS Gpus,
          Scalars,        \* fields with a value of their own
          Links,          \* AMDSMI_MAX_NUM_XGMI_LINKS of them
          BytesConversion,\* kBytesConversion
          XgmiWidth,      \* counters wrap around at it
          MaxGpuTime,     \* bound: ticks
          MaxOdd          \* bound: answers of the firmware other than a full one

ASSUME AmdAssumption ==
    /\ IsFiniteSet(Links) /\ IsFiniteSet(Scalars)
    /\ Scalars \cap {"memory", "pcie", "metrics", "xgmi"} = {}
    /\ {BytesConversion, XgmiWidth} \subseteq Nat \ {0}
    /\ {MaxGpuTime, MaxOdd} \subseteq Nat

VARIABLES gpuTime,   \* the steady clock
          odd,       \* answers that were not full, a history variable
          acc,       \* the accumulator of each link
          found,     \* handles_; {} when nothing is collected
          toRead,    \* GPUs that the gather has still to read
          latched,   \* what FirmwareSupport has latched off, for each GPU
          logged,    \* errors logged for each of those, a history variable
          refused,   \* calls answered with "unsupported", a history variable
          lastXgmi,  \* last_xgmi_
          xgmi,      \* the last increment of gpu.xgmi.bytes
          moved      \* what the links moved since the baseline, a history variable

amdVars == <<gpuTime, odd, acc, found, toRead, latched, logged, refused, lastXgmi, xgmi, moved>>

Calls == {"memory", "pcie", "metrics"}
Statuses == {"success", "not supported", "other"}
NoSample == [set |-> FALSE]
NoIncrement == [made |-> FALSE]

\* The constructors of AmdSmi and GpuMetricsAMD: a library that does not
\* initialize has no handles, a socket whose devices cannot be listed gives
\* none, and neither does a device without the type of a GPU.
Discovered(initialized, listed, typed) ==
    IF initialized THEN {g \in Gpus : g[1] \in listed /\ g \in typed} ELSE {}

AmdInit ==
    /\ gpuTime = 0
    /\ odd = 0
    /\ acc = [g \in Gpus |-> [l \in Links |-> 0]]
    /\ \E initialized \in BOOLEAN, listed \in SUBSET {g[1] : g \in Gpus}, typed \in SUBSET Gpus :
          found = Discovered(initialized, listed, typed)
    /\ toRead = {}
    /\ latched = [g \in Gpus |-> {}]
    /\ logged = [g \in Gpus |-> [c \in Calls \cup Scalars \cup {"xgmi"} |-> 0]]
    /\ refused = [g \in Gpus |-> [c \in Calls |-> 0]]
    /\ lastXgmi = [g \in Gpus |-> NoSample]
    /\ xgmi = [g \in Gpus |-> NoIncrement]
    /\ moved = [g \in Gpus |-> 0]

-----------------------------------------------------------------------------
(* The GPUs. *)

\* A tick, in which a link of a GPU may move a unit.
Traffic ==
    /\ gpuTime < MaxGpuTime
    /\ gpuTime' = gpuTime + 1
    /\ \/ \E g \in found, l \in Links :
             /\ acc' = [acc EXCEPT ![g][l] = @ + 1]
             /\ moved' = [moved EXCEPT ![g] = @ + 1]
       \/ UNCHANGED <<acc, moved>>
    /\ UNCHANGED <<odd, found, toRead, latched, logged, refused, lastXgmi, xgmi>>

\* The driver resets a GPU, and its accumulators start from 0.
Reset(g) ==
    /\ g \in found
    /\ odd < MaxOdd
    /\ odd' = odd + 1
    /\ acc' = [acc EXCEPT ![g] = [l \in Links |-> 0]]
    /\ UNCHANGED <<gpuTime, found, toRead, latched, logged, refused, lastXgmi, xgmi, moved>>

-----------------------------------------------------------------------------
(* The gather. *)

ClassifyAnyError(status) == IF status = "success" THEN "Ok" ELSE "Unsupported"
Classify(status) ==
    IF status = "success" THEN "Ok"
    ELSE IF status = "not supported" THEN "Unsupported" ELSE "Error"

\* Two calls of the library, of which the second is made when the first is Ok.
ReadMemory(total, usage) ==
    IF Classify(total) # "Ok" THEN Classify(total) ELSE Classify(usage)

\* GpuMetricsAMD::GPUMetrics.
GPUMetrics ==
    /\ toRead = {}
    /\ toRead' = found
    /\ xgmi' = [g \in Gpus |-> NoIncrement]
    /\ UNCHANGED <<gpuTime, odd, acc, found, latched, logged, refused, lastXgmi, moved>>

\* Gather: the calls that are made.
MadeAlways(g) == Calls
Made(g) == Calls \ latched[g]

\* FirmwareSupport::Unsupported for each of `items`.
Unsupported(g, items) ==
    /\ latched' = [latched EXCEPT ![g] = @ \cup items]
    /\ logged' = [logged EXCEPT ![g] =
                     [c \in DOMAIN @ |-> @[c] + (IF c \in items \ latched[g] THEN 1 ELSE 0)]]

\* SumXgmiKb, without the links that are not populated.
SumXgmiKb(g, missing) == SumOver(acc[g], Links \ missing)

DeltaWraps(g, sum) == (sum - lastXgmi[g].sum) % XgmiWidth
XgmiDelta(g, sum) == IF sum >= lastXgmi[g].sum THEN sum - lastXgmi[g].sum ELSE 0

\* What links that were not in the baseline had accumulated when they came back.
Returned(g, missing) == SumOver(acc[g], lastXgmi[g].missing \ missing)

\* RecordXgmi.
RecordXgmi(g, missing) ==
    LET sum == SumXgmiKb(g, missing)
        sample == [set |-> TRUE, at |-> gpuTime, sum |-> sum, missing |-> missing]
        dt == gpuTime - lastXgmi[g].at
    IN  \/ /\ ~lastXgmi[g].set
           /\ lastXgmi' = [lastXgmi EXCEPT ![g] = sample]
           /\ moved' = [moved EXCEPT ![g] = 0]
           /\ UNCHANGED xgmi
        \/ /\ lastXgmi[g].set
           /\ dt <= 0
           /\ UNCHANGED <<lastXgmi, moved, xgmi>>
        \/ /\ lastXgmi[g].set
           /\ dt > 0
           /\ xgmi' = [xgmi EXCEPT ![g] =
                         [made |-> TRUE,
                          bytes |-> (XgmiDelta(g, sum) \div dt) * BytesConversion,
                          span |-> dt,
                          within |-> moved[g] + Returned(g, missing)]]
           /\ lastXgmi' = [lastXgmi EXCEPT ![g] = sample]
           /\ moved' = [moved EXCEPT ![g] = 0]

\* What the library answers to its calls, with at most `n` that are not a success.
LibraryAnswers(n) ==
    {s \in [{"total", "usage", "pcie", "metrics"} -> Statuses] :
        Cardinality({c \in DOMAIN s : s[c] # "success"}) <= n}

\* The calls of the agent that the firmware has refused, for those it made.
Refused(s, made) ==
    {c \in made : \/ c # "memory" /\ s[c] = "not supported"
                  \/ c = "memory" /\ \/ s["total"] = "not supported"
                                     \/ s["total"] = "success" /\ s["usage"] = "not supported"}

\* GpuMetricsAMD::Collect for one GPU.  `lacking` are the scalar fields that are
\* not populated, a power that neither of its two fields has among them.
CollectGpu(g) ==
    /\ g \in toRead
    /\ toRead' = toRead \ {g}
    /\ \E s \in LibraryAnswers(MaxOdd - odd), lacking \in SUBSET Scalars, missing \in SUBSET Links :
          LET answer == [memory |-> ReadMemory(s["total"], s["usage"]),
                         pcie |-> Classify(s["pcie"]), metrics |-> Classify(s["metrics"])]
              table == "metrics" \in Made(g) /\ answer["metrics"] = "Ok"
              fields == lacking \cup (IF missing # {} THEN {"xgmi"} ELSE {})
          IN  /\ table \/ fields = {}
              /\ odd' = odd + Cardinality({c \in DOMAIN s : s[c] # "success"})
                            + Cardinality(lacking) + Cardinality(missing)
              /\ odd' <= MaxOdd
              /\ Unsupported(g, {c \in Made(g) : answer[c] = "Unsupported"} \cup fields)
              /\ refused' = [refused EXCEPT ![g] =
                                [c \in Calls |-> @[c] + (IF c \in Refused(s, Made(g)) THEN 1 ELSE 0)]]
              /\ IF table THEN RecordXgmi(g, missing) ELSE UNCHANGED <<lastXgmi, xgmi, moved>>
    /\ UNCHANGED <<gpuTime, acc, found>>

AmdNext == Traffic \/ GPUMetrics \/ (\E g \in Gpus : Reset(g) \/ CollectGpu(g))

AmdSpec == AmdInit /\ [][AmdNext]_amdVars

-----------------------------------------------------------------------------
AmdTypeOK ==
    /\ gpuTime \in 0 .. MaxGpuTime
    /\ odd \in 0 .. MaxOdd
    /\ toRead \subseteq found
    /\ found \subseteq Gpus
    /\ \A g \in Gpus : latched[g] \subseteq Calls \cup Scalars \cup {"xgmi"}

(***************************************************************************)
(* gpumetrics.h:91-94, amd_smi.cpp:21-25: a call is refused once and then  *)
(* never made, what is refused is logged once, and an error that may pass  *)
(* latches nothing.                                                        *)
(***************************************************************************)
LatchedOnce ==
    \A g \in Gpus :
       /\ \A c \in Calls : refused[g][c] <= 1 /\ (c \in latched[g] <=> refused[g][c] = 1)
       /\ \A c \in DOMAIN logged[g] : logged[g][c] = (IF c \in latched[g] THEN 1 ELSE 0)

(***************************************************************************)
(* gpumetrics.cpp:56-70 and 224-255: an increment, over the time since the *)
(* baseline and for the seconds of a minute, is of no more than what the   *)
(* links moved since then, whichever links are populated, when the GPU is  *)
(* reset and when reads fail in between; but links that come back bring    *)
(* all they ever counted.                                                  *)
(***************************************************************************)
XgmiNeverInvents ==
    \A g \in Gpus : xgmi[g].made =>
       /\ xgmi[g].bytes >= 0
       /\ xgmi[g].bytes * xgmi[g].span <= xgmi[g].within * BytesConversion
=============================================================================
