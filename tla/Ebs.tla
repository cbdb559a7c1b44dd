-------------------------------- MODULE Ebs ---------------------------------
(***************************************************************************)
(* EBSCollector: once a minute an ioctl reads the statistics page of each  *)
(* device in the configuration into a buffer, and what it holds is         *)
(* published under the device's path.  Volumes are attached and detached   *)
(* all the while, and another one may be found at a path.                  *)
(*                                                                         *)
(* All counters of a page are one; the bins of the two histograms are      *)
(* whether there are too many.                                             *)
(***************************************************************************)
EXTENDS Integers

CONSTANTS Paths,       \* of devices
          ConfigFiles, \* the devices that each configuration file lists
          Volumes,     \* EBS volumes
          MaxOps,      \* bound: operations on all volumes
          MaxMoves     \* bound: attachments and detachments

ASSUME EbsAssumption ==
    /\ \A f \in DOMAIN ConfigFiles : ConfigFiles[f] \subseteq Paths
    /\ {MaxOps, MaxMoves} \subseteq Nat

VARIABLES volumeAt,  \* the volume at each path, Absent or InstanceStore
          ops,       \* the counter of each volume
          moves,     \* a history variable
          configured,\* the collector's config; {} when it is disabled
          unqueried, \* devices the gather has still to query
          page,      \* nvme_get_amzn_stats_logpage stats, of the last device queried
          ebsSuccess,\* gather_metrics' success
          ebsShown   \* what the gather published for each device

ebsVars == <<volumeAt, ops, moves, configured, unqueried, page, ebsSuccess, ebsShown>>

Absent == "absent"
InstanceStore == "instance store"
NoFigures == [parts |-> {}]
Parts == {"counters", "read histogram", "write histogram"}
BlankPage == [magic |-> FALSE, volume |-> Absent, ops |-> 0]

\* ebs_parse_regex_config_file and parse_ebs_config_directory: a file with a
\* device that does not exist counts for none of its devices.
Config(unreadable) ==
    UNION {ConfigFiles[f] : f \in {g \in DOMAIN ConfigFiles \ unreadable :
                                      \A p \in ConfigFiles[g] : volumeAt[p] # Absent}}

\* Volumes that begin with different counts can be told apart.
EbsOps(o) == \A v, w \in Volumes : o[v] = o[w] => v = w

EbsInit ==
    /\ volumeAt \in {a \in [Paths -> Volumes \cup {Absent, InstanceStore}] :
                        \A p, q \in Paths : a[p] = a[q] /\ a[p] \in Volumes => p = q}
    /\ ops \in {o \in [Volumes -> 0 .. MaxOps] : EbsOps(o)}
    /\ moves = 0
    /\ \E unreadable \in SUBSET DOMAIN ConfigFiles : configured = Config(unreadable)
    /\ unqueried = configured
    /\ page = BlankPage
    /\ ebsSuccess = TRUE
    /\ ebsShown = [p \in Paths |-> NoFigures]

-----------------------------------------------------------------------------
(* The devices. *)

Operate(v) ==
    /\ v \in {volumeAt[p] : p \in Paths}
    /\ ops[v] < MaxOps
    /\ ops' = [ops EXCEPT ![v] = @ + 1]
    /\ UNCHANGED <<volumeAt, moves, configured, unqueried, page, ebsSuccess, ebsShown>>

Move(p, v) ==
    /\ moves < MaxMoves
    /\ moves' = moves + 1
    /\ v \in Volumes => \A q \in Paths : volumeAt[q] # v
    /\ volumeAt' = [volumeAt EXCEPT ![p] = v]
    /\ UNCHANGED <<ops, configured, unqueried, page, ebsSuccess, ebsShown>>

-----------------------------------------------------------------------------
(* The gather. *)

\* gather_metrics.
GatherEbs ==
    /\ unqueried = {}
    /\ unqueried' = configured
    /\ ebsSuccess' = TRUE
    /\ ebsShown' = [p \in Paths |-> NoFigures]
    /\ page' = BlankPage
    /\ UNCHANGED <<volumeAt, ops, moves, configured>>

\* The buffer as the ioctl finds it.
BufferKept == page
Buffer == BlankPage

\* query_stats_from_device: the ioctl returns a status of the device, which is
\* not below 0, and leaves the buffer; or it succeeds on whatever is there.
QueryPage(d, accepted) ==
    IF accepted /\ volumeAt[d] \in Volumes
    THEN [magic |-> TRUE, volume |-> volumeAt[d], ops |-> ops[volumeAt[d]]]
    ELSE Buffer

\* One device of gather_metrics.  open or the ioctl fail, the magic number is
\* missing, or update_metrics publishes all but the histograms that it cannot.
QueryDevice(d) ==
    /\ d \in unqueried
    /\ unqueried' = unqueried \ {d}
    /\ \/ /\ page' = Buffer
          /\ ebsSuccess' = FALSE
          /\ UNCHANGED ebsShown
       \/ /\ volumeAt[d] # Absent
          /\ \E accepted \in BOOLEAN : page' = QueryPage(d, accepted)
          /\ \/ /\ ~page'.magic
                /\ ebsSuccess' = FALSE
                /\ UNCHANGED ebsShown
             \/ /\ page'.magic
                /\ \E bad \in SUBSET (Parts \ {"counters"}) :
                      /\ ebsShown' = [ebsShown EXCEPT ![d] =
                            [parts |-> Parts \ bad, of |-> page'.volume, ops |-> page'.ops,
                             asked |-> volumeAt[d], least |-> IF volumeAt[d] \in Volumes
                                                              THEN ops[volumeAt[d]] ELSE 0]]
                      /\ ebsSuccess' = (ebsSuccess /\ bad = {})
    /\ UNCHANGED <<volumeAt, ops, moves, configured>>

EbsNext ==
    \/ \E v \in Volumes : Operate(v)
    \/ \E p \in Paths : \E v \in Volumes \cup {Absent, InstanceStore} : Move(p, v)
    \/ GatherEbs
    \/ \E d \in Paths : QueryDevice(d)

EbsSpec == EbsInit /\ [][EbsNext]_ebsVars

-----------------------------------------------------------------------------
EbsTypeOK ==
    /\ volumeAt \in [Paths -> Volumes \cup {Absent, InstanceStore}]
    /\ ops \in [Volumes -> 0 .. MaxOps]
    /\ moves \in 0 .. MaxMoves
    /\ unqueried \subseteq configured
    /\ configured \subseteq Paths
    /\ ebsSuccess \in BOOLEAN

(***************************************************************************)
(* ebs.cpp:146-185 and 250-274: what a gather publishes under a path is    *)
(* the current count of the volume that was at the path, whatever queries  *)
(* before it did, refusals of the ioctl's command and paths whose volume   *)
(* is gone or replaced included; and the gather succeeds just if each      *)
(* device of the configuration was published in full.                      *)
(***************************************************************************)
EbsAttributed ==
    /\ \A p \in Paths : ebsShown[p].parts # {} =>
          ebsShown[p].of = ebsShown[p].asked /\ ebsShown[p].ops = ebsShown[p].least
    /\ ebsSuccess <=> \A p \in configured \ unqueried : ebsShown[p].parts = Parts
=============================================================================
