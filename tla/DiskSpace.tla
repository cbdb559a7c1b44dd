------------------------------ MODULE DiskSpace ------------------------------
(***************************************************************************)
(* Disk, the space of the filesystems: once a minute the agent reads the   *)
(* table of mounts, keeps one mount of each filesystem of interest, and    *)
(* asks statvfs for the figures of each, by its path.  Filesystems are     *)
(* mounted, over others too, and unmounted all the while.                  *)
(*                                                                         *)
(* A path is the sequence of its directories, one character each.          *)
(***************************************************************************)
EXTENDS SequencesExt

CONSTANTS Filesystems, \* by the numbers of their devices; one is at the root
          NoDev,       \* those of types that /proc/filesystems calls nodev, but not
                       \* of tmpfs
          Memory,      \* those on loop devices and ram disks
          MountPaths,  \* where they are mounted
          Excluded,    \* paths under the directories that are left out
          MaxMounts,   \* bound: entries of the table
          MaxRemounts  \* bound: mounts and unmounts

ASSUME SpaceAssumption ==
    /\ NoDev \cup Memory \subseteq Filesystems
    /\ \A p \in MountPaths : p \in Seq(STRING)
    /\ Excluded \subseteq MountPaths
    /\ MaxMounts \in Nat \ {0} /\ MaxRemounts \in Nat

VARIABLES table,    \* /proc/self/mountinfo: each mount by its filesystem, its
                    \* path, and whether it is of the filesystem's own root
          remounts, \* a history variable
          seen,     \* mount_points, as the gather read them
          nodev,    \* unwanted_filesystems, as it read them
          toStat,   \* mounts it has still to call statvfs for
          figures   \* what it has published

spaceVars == <<table, remounts, seen, nodev, toStat, figures>>

Mounts == [fs : Filesystems, path : MountPaths, whole : BOOLEAN]

SpaceInit ==
    /\ \E f \in Filesystems \ (NoDev \cup Memory) : table = <<[fs |-> f, path |-> <<>>, whole |-> TRUE]>>
    /\ remounts = 0
    /\ seen = <<>>
    /\ nodev = {}
    /\ toStat = {}
    /\ figures = {}

-----------------------------------------------------------------------------
(* The mounts. *)

Related(p, q) == IsPrefix(p, q) \/ IsPrefix(q, p)

Mount(m) ==
    /\ remounts < MaxRemounts
    /\ Len(table) < MaxMounts
    /\ remounts' = remounts + 1
    /\ table' = Append(table, m)
    /\ UNCHANGED <<seen, nodev, toStat, figures>>

\* A mount that no later one is on or over.
Unmount(i) ==
    /\ remounts < MaxRemounts
    /\ \A j \in i + 1 .. Len(table) : ~Related(table[i].path, table[j].path)
    /\ remounts' = remounts + 1
    /\ table' = RemoveAt(table, i)
    /\ UNCHANGED <<seen, nodev, toStat, figures>>

\* The filesystem that a path leads to: the last mount on the way.
Resolve(path) ==
    LET onTheWay == {i \in DOMAIN table : IsPrefix(table[i].path, path)}
    IN  table[CHOOSE i \in onTheWay : \A j \in onTheWay : j <= i].fs

-----------------------------------------------------------------------------
(* The gather. *)

\* get_mount_points, with what it takes for unwanted, and the conditions of
\* filter_interesting_mount_points.
Interesting(m, unwanted) ==
    m.whole /\ m.fs \notin unwanted \cup Memory /\ m.path \notin Excluded

Longer(m, candidate) == Len(m.path) > Len(candidate.path)
Shorter(m, candidate) == Len(m.path) < Len(candidate.path)

\* The loop of filter_interesting_mount_points: one candidate for each device.
AfterMount(candidates, m, unwanted) ==
    IF \/ ~Interesting(m, unwanted)
       \/ m.fs \in DOMAIN candidates /\ ~Shorter(m, candidates[m.fs])
    THEN candidates
    ELSE [f \in DOMAIN candidates \cup {m.fs} |-> IF f = m.fs THEN m ELSE candidates[f]]

Candidates(mounts, unwanted) ==
    LET after[n \in 0 .. Len(mounts)] ==
          IF n = 0 THEN <<>> ELSE AfterMount(after[n - 1], mounts[n], unwanted)
    IN  after[Len(mounts)]

\* stats_for_interesting_mps; /proc/filesystems and mountinfo may not open.
GatherSpace ==
    /\ toStat = {}
    /\ nodev' \in {NoDev, {}}
    /\ seen' \in {table, <<>>}
    /\ LET candidates == Candidates(seen', nodev')
       IN  toStat' = {candidates[f] : f \in DOMAIN candidates}
    /\ figures' = {}
    /\ UNCHANGED <<table, remounts>>

\* update_stats_for, when statvfs succeeds and when it fails.
StatFs(m) ==
    /\ m \in toStat
    /\ toStat' = toStat \ {m}
    /\ \E of \in {{Resolve(m.path)}, {}} :
          figures' = figures \cup {[mount |-> m, of |-> of, asRead |-> table = seen]}
    /\ UNCHANGED <<table, remounts, seen, nodev>>

SpaceNext ==
    \/ \E m \in Mounts : Mount(m)
    \/ \E i \in 2 .. Len(table) : Unmount(i)
    \/ GatherSpace
    \/ \E m \in toStat : StatFs(m)

SpaceSpec == SpaceInit /\ [][SpaceNext]_spaceVars

-----------------------------------------------------------------------------
SpaceTypeOK ==
    /\ Len(table) \in 1 .. MaxMounts
    /\ remounts \in 0 .. MaxRemounts
    /\ Len(seen) <= MaxMounts
    /\ nodev \subseteq NoDev
    /\ toStat \subseteq Mounts \cup {[fs |-> f, path |-> <<>>, whole |-> TRUE] : f \in Filesystems}

\* The mounts of interest that the gather read.
Read == {i \in DOMAIN seen : Interesting(seen[i], nodev)}

(***************************************************************************)
(* disk.cpp:128-129 and 314-327: "if both /foo and /foo/bar are mounted on *)
(* /dev/xvda we just keep /foo".  A gather asks once for each filesystem   *)
(* of interest, by a path that is the shortest of its; and the figures are *)
(* the filesystem's own, however mounts cover each other, unless the table *)
(* has changed since or a later mount covers the path.                     *)
(***************************************************************************)
SpaceAttributed ==
    /\ {f.mount.fs : f \in figures} \cup {m.fs : m \in toStat} = {seen[i].fs : i \in Read}
    /\ \A f, g \in figures : f.mount.fs = g.mount.fs => f = g
    /\ \A f \in figures, i \in Read : seen[i].fs = f.mount.fs => Len(f.mount.path) <= Len(seen[i].path)
    /\ \A f \in figures : f.asRead /\ f.of \notin {{}, {f.mount.fs}} =>
          \E i \in Read, j \in DOMAIN seen :
             seen[i] = f.mount /\ i < j /\ IsPrefix(seen[j].path, f.mount.path)
=============================================================================
