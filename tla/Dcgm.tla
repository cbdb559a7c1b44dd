--------------------------------- MODULE Dcgm ---------------------------------
(***************************************************************************)
(* GpuMetricsDCGM: once a minute, while its service runs, "dcgmi dmon"     *)
(* prints two lines of headers and then a line for each GPU, from which    *)
(* eleven gauges and counters are set.  The service may stop between the   *)
(* two, and a GPU be lost.                                                 *)
(*                                                                         *)
(* A line is the GPU's number and what its values are: all numbers, one    *)
(* that is not, or fewer or more of them than there should be.             *)
(***************************************************************************)
EXTENDS SequencesExt

CONSTANTS DcgmGpus,
          MaxRestarts   \* bound: changes of the service and of its GPUs

ASSUME DcgmAssumption == IsFiniteSet(DcgmGpus) /\ MaxRestarts \in Nat

VARIABLES dcgmi,       \* whether the collector was created
          dcgmService,     \* whether the service runs
          restarts,    \* a history variable
          readings,    \* what the service has of each GPU
          dcgmStep,    \* "idle", "execute" or "parse"
          dcgmLines,   \* what dcgmi printed
          dcgmShown    \* GPUs whose gauges and counters the gather set

dcgmVars == <<dcgmi, dcgmService, restarts, readings, dcgmStep, dcgmLines, dcgmShown>>

Readable == {"numbers", "text"}

DcgmInit ==
    /\ dcgmi \in BOOLEAN            \* is_file_present
    /\ dcgmService \in BOOLEAN
    /\ restarts = 0
    /\ readings \in [DcgmGpus -> Readable \cup {"gone"}]
    /\ dcgmStep = "idle"
    /\ dcgmLines = <<>>
    /\ dcgmShown = {}

ServiceChange ==
    /\ restarts < MaxRestarts
    /\ restarts' = restarts + 1
    /\ dcgmService' \in BOOLEAN
    /\ \E g \in DcgmGpus, v \in Readable \cup {"gone"} : readings' = [readings EXCEPT ![g] = v]
    /\ UNCHANGED <<dcgmi, dcgmStep, dcgmLines, dcgmShown>>

\* GpuMetricsDCGM::Collect.
SkipDcgm == ~(dcgmi /\ dcgmService) /\ dcgmStep = "idle" /\ UNCHANGED dcgmVars
CollectDcgm ==
    /\ dcgmi /\ dcgmService
    /\ dcgmStep = "idle"
    /\ dcgmStep' = "execute"
    /\ dcgmShown' = {}
    /\ dcgmLines' = <<>>
    /\ UNCHANGED <<dcgmi, dcgmService, restarts, readings>>

\* What follows the headers: a line for each GPU, of which the last may be cut
\* off, or be followed by one for a GPU that has had its line.
Outputs ==
    LET order == SetToSeq({g \in DcgmGpus : readings[g] \in Readable})
        lines == [i \in DOMAIN order |-> [gpu |-> order[i], values |-> readings[order[i]]]]
    IN  {lines} \cup {Append(lines, lines[i]) : i \in DOMAIN lines}
                \cup {[lines EXCEPT ![i].values = "short"] : i \in DOMAIN lines \cap {Len(lines)}}

\* execute_dcgmi; without its service, or when it hangs, it prints no lines.
ExecuteDcgmi ==
    /\ dcgmStep = "execute"
    /\ dcgmStep' = "parse"
    /\ dcgmLines' \in {<<>>} \cup (IF dcgmService THEN Outputs ELSE {})
    /\ UNCHANGED <<dcgmi, dcgmService, restarts, readings, dcgmShown>>

\* The body of parse_lines' loop, for the GPUs in dataMap so far.
SkipBadLine(parsed, line) ==
    IF line.values = "numbers" THEN [parsed EXCEPT !.gpus = @ \cup {line.gpu}] ELSE parsed
ParseLine(parsed, line) ==
    IF parsed.good /\ line.values = "numbers" /\ line.gpu \notin parsed.gpus
    THEN [parsed EXCEPT !.gpus = @ \cup {line.gpu}]
    ELSE [parsed EXCEPT !.good = FALSE]

\* parse_lines, which wants at least one line.
Parse(lines) ==
    LET parsed[n \in 0 .. Len(lines)] ==
          IF n = 0 THEN [good |-> lines # <<>>, gpus |-> {}] ELSE ParseLine(parsed[n - 1], lines[n])
    IN  parsed[Len(lines)]

\* The rest of gather_metrics: update_metrics of what was parsed.
UpdateDcgm ==
    /\ dcgmStep = "parse"
    /\ dcgmStep' = "idle"
    /\ dcgmShown' = IF Parse(dcgmLines).good THEN Parse(dcgmLines).gpus ELSE {}
    /\ UNCHANGED <<dcgmi, dcgmService, restarts, readings, dcgmLines>>

DcgmNext == ServiceChange \/ SkipDcgm \/ CollectDcgm \/ ExecuteDcgmi \/ UpdateDcgm

DcgmSpec == DcgmInit /\ [][DcgmNext]_dcgmVars

-----------------------------------------------------------------------------
DcgmTypeOK ==
    /\ {dcgmi, dcgmService} \subseteq BOOLEAN
    /\ restarts \in 0 .. MaxRestarts
    /\ readings \in [DcgmGpus -> Readable \cup {"gone"}]
    /\ dcgmStep \in {"idle", "execute", "parse"}
    /\ dcgmShown \subseteq DcgmGpus

(***************************************************************************)
(* dcgm_stats.cpp:35-70 and 150-171: a gather sets the values of all the   *)
(* GPUs that dcgmi printed, each of them once and in full, or of none: a   *)
(* GPU with a value that is no number, or a line cut off, silences all,    *)
(* and the counters are never half of a minute's.                          *)
(***************************************************************************)
DcgmWhole ==
    dcgmShown # {} =>
       /\ dcgmShown = {dcgmLines[i].gpu : i \in DOMAIN dcgmLines}
       /\ \A i, j \in DOMAIN dcgmLines :
             dcgmLines[i].values = "numbers" /\ (dcgmLines[i].gpu = dcgmLines[j].gpu => i = j)
=============================================================================
