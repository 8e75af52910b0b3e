--------------------------- MODULE PhysicalDisks ---------------------------
(***************************************************************************)
(* How Storage's tick collects what is mounted: once per device, onto the  *)
(* physical disks below it, which it finds by following the slaves of      *)
(* mapped devices in sysfs; a ZFS pool, which has no device, is a disk of  *)
(* its own.  Devices come in the order of a hash, which is any.            *)
(***************************************************************************)
EXTENDS Integers, SequencesExt, FiniteSetsExt

CONSTANTS
    Nodes,        \* block devices in sysfs
    PartitionOf,  \* partition -> its disk
    Datasets,     \* the devices that mounts of ZFS have, of one pool
    Pool,
    Size,         \* device -> bytes of its file system, all different
    MaxMounts     \* bound on what is mounted

PhysicalDisksAssumption ==
    /\ Nodes \cap Datasets = {} /\ Pool \notin Nodes
    /\ DOMAIN PartitionOf \subseteq Nodes
    /\ Size \in [Nodes \cup Datasets -> Nat \ {0}] /\ IsInjective(Size)

Devices == Nodes \cup Datasets

VARIABLES
    slaves,   \* node -> sequence of the nodes it is mapped to
    mounts,   \* what QStorageInfo lists: [device, isRoot]
    byDisk    \* what the last tick found
vars == <<slaves, mounts, byDisk>>

Mounted == {m.device : m \in mounts}

\* ------------------------------------------------------------ resolving

MaxDepth == 8

\* A disk that two slaves share is listed twice.
MutWith(out, d) == out \o <<d>>

\* out.append, unless it is there
With(out, d) == IF Contains(out, d) THEN out ELSE Append(out, d)

\* resolveAtNode, resolveByDevt
RECURSIVE Resolve(_, _)
Resolve(node, depth) ==
    IF depth > MaxDepth THEN <<>>
    ELSE IF node \in DOMAIN PartitionOf THEN <<PartitionOf[node]>>
    ELSE IF slaves[node] = <<>> THEN <<node>>
    ELSE FoldLeft(LAMBDA out, s : FoldLeft(With, out, Resolve(s, depth + 1)), <<>>, slaves[node])

\* ----------------------------------------------------------- collecting

\* Whether another data set represents its pool: that of /, else the largest
Replaces(a, e) == ~a.hasRoot /\ (e.hasRoot \/ e.total > a.total)

Nothing == [total |-> 0, hasRoot |-> FALSE]
OnDisk(all, d) == IF d \in DOMAIN all THEN all[d] ELSE Nothing
Put(all, d, a) == [x \in DOMAIN all \cup {d} |-> IF x = d THEN a ELSE all[x]]

\* byDevice, in an order: the entry of a device has / if one of its mounts does.
Entries(order) ==
    [i \in DOMAIN order |-> [device |-> order[i], isRoot |-> [device |-> order[i], isRoot |-> TRUE] \in mounts]]

AddEntry(all, e) ==
    LET new == [total |-> Size[e.device], hasRoot |-> e.isRoot]
        Add(sums, d) == Put(sums, d, [total |-> OnDisk(sums, d).total + new.total,
                                      hasRoot |-> OnDisk(sums, d).hasRoot \/ new.hasRoot]) IN
    IF e.device \in Nodes THEN FoldLeft(Add, all, Resolve(e.device, 0))
    ELSE Put(all, Pool, IF Replaces(OnDisk(all, Pool), new) THEN new ELSE OnDisk(all, Pool))

\* tick, up to the DiskInfos
Tick ==
    /\ \E order \in SetToSeqs(Mounted) :
         byDisk' = FoldLeft(AddEntry, [d \in {} |-> Nothing], Entries(order))
    /\ UNCHANGED <<slaves, mounts>>

\* Mapped devices do not form a cycle: each is above those after it.
Graphs ==
    {s \in [Nodes -> BoundedSeq(Nodes, 2)] :
       \A n \in Nodes : /\ n \in DOMAIN PartitionOf => s[n] = <<>>
                        /\ \A i \in DOMAIN s[n] : s[n][i] < n
                        /\ IsInjective(s[n])}

Mount(ms) == mounts = {} /\ mounts' = ms /\ UNCHANGED <<slaves, byDisk>>
MountSets == UNION {kSubset(k, [device : Devices, isRoot : BOOLEAN]) : k \in 0..MaxMounts}

Init == slaves \in Graphs /\ mounts = {} /\ byDisk = [d \in {} |-> Nothing]

Next ==
    \/ Tick
    \/ \E ms \in MountSets : Mount(ms)
Spec == Init /\ [][Next]_vars

\* --------------------------------------------------------- properties

\* The disks at the end of the slaves of a node
RECURSIVE Below(_)
Below(n) ==
    IF n \in DOMAIN PartitionOf THEN {PartitionOf[n]}
    ELSE IF slaves[n] = <<>> THEN {n} ELSE UNION {Below(slaves[n][i]) : i \in DOMAIN slaves[n]}

HasRoot(ds) == \E m \in mounts : m.isRoot /\ m.device \in ds

\* "Dedupe by source device so the filesystem only contributes once per
\* disk": a disk has the sizes of the file systems that reach it, each once
\* though mounted twice or mapped to it in two ways, in whatever order.
CountsOncePerDisk ==
    Tick => \A d \in Nodes :
         LET on == {n \in Nodes \cap Mounted : d \in Below(n)} IN
         /\ d \in DOMAIN byDisk' <=> on # {}
         /\ on # {} => byDisk'[d] = [total |-> MapThenSumSet(LAMBDA n : Size[n], on),
                                     hasRoot |-> HasRoot(on)]
OncePerDisk == [][CountsOncePerDisk]_vars

\* "keep a single representative entry per pool (preferring the root dataset,
\* else the largest)", in whatever order.  One data set is mounted at /.
RepresentsThePool ==
    Tick => LET pool == Datasets \cap Mounted
                   rooted == {d \in pool : HasRoot({d})} IN
         Cardinality(rooted) <= 1 =>
         /\ Pool \in DOMAIN byDisk' <=> pool # {}
         /\ pool # {} => byDisk'[Pool] =
              [total |-> Max({Size[d] : d \in IF rooted # {} THEN rooted ELSE pool}),
               hasRoot |-> rooted # {}]
PoolIsRepresented == [][RepresentsThePool]_vars
=============================================================================
