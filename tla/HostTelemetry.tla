---------------------------- MODULE HostTelemetry ----------------------------
(***************************************************************************)
(* The storage that a heartbeat reports: collectStorageTelemetry and       *)
(* parseTelemetryMounts of internal/agent/telemetry.go.  A mount table is  *)
(* a sequence of entries; a device may be mounted at several points, and a *)
(* later entry for the same point lies over an earlier one.  (A mount over *)
(* a directory that contains mount points is left out.)                    *)
(***************************************************************************)
EXTENDS Naturals, FiniteSets, Sequences

CONSTANTS Devices, VirtualDevices, \* VirtualDevices: proc, tmpfs and the like
          Points,         \* mount points, in the order in which they are reported
          Unreachable,    \* points that statfs fails for
          MaxCandidates,  \* maxTelemetryMountCandidates
          MaxMounts,      \* maxTelemetryMounts
          MaxEntries      \* bound: entries of a mount table

ASSUME TelemetryAssumption ==
    /\ VirtualDevices \subseteq Devices
    /\ Points \subseteq Nat /\ Unreachable \subseteq Points
    /\ MaxCandidates \in Nat /\ MaxMounts \in Nat /\ MaxEntries \in Nat

Entries == [device : Devices, point : Points]
MountTables == UNION {[1..n -> Entries] : n \in 0..MaxEntries}

Real(table) == {i \in DOMAIN table : table[i].device \notin VirtualDevices}

\* parseTelemetryMounts: the first entry of each point that is not virtual.
Wanted(table) ==
    {i \in Real(table) : \A j \in Real(table) : j < i => table[j].point # table[i].point}

Candidates(table) ==
    {i \in Wanted(table) : Cardinality({j \in Wanted(table) : j < i}) < MaxCandidates}

\* Another line follows the last candidate.
CandidatesCut(table) ==
    /\ Cardinality(Candidates(table)) = MaxCandidates
    /\ \A i \in Candidates(table) : i < Len(table)

\* collectStorageTelemetry sorts the candidates by their points and asks for the
\* usage of each until it has MaxMounts.
Before(table, i) == {j \in Candidates(table) : table[j].point < table[i].point}
Reached(table, S) == {i \in S : table[i].point \notin Unreachable}
Considered(table) ==
    {i \in Candidates(table) : Cardinality(Reached(table, Before(table, i))) < MaxMounts}
Mounts(table) == Reached(table, Considered(table))

StorageTruncated(table) == CandidatesCut(table) \/ Considered(table) # Candidates(table)

\* Mutation of Counted: the usage of every mount is added.
CountedAlways(table) == Mounts(table)

\* The mounts whose usage is added to the total: the first of each device.
Counted(table) ==
    {i \in Mounts(table) : \A j \in Mounts(table) \intersect Before(table, i) :
                               table[j].device # table[i].device}

\* statfs answers for what lies on top.
OnTop(table, point) ==
    LET there == {i \in DOMAIN table : table[i].point = point}
    IN table[CHOOSE i \in there : \A j \in there : j <= i].device

\* How often the usage of a device is in the total.
TimesCounted(table, device) ==
    Cardinality({i \in Counted(table) : OnTop(table, table[i].point) = device})

Overmounted(table) ==
    \E i, j \in DOMAIN table : i # j /\ table[i].point = table[j].point
=============================================================================
