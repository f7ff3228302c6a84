------------------------------ MODULE Storage ------------------------------
(***************************************************************************)
(* One call of CollectStorage (storage.go) on the UI thread: the names in  *)
(* /sys/block are read, then the mount table, then disk by disk the        *)
(* attributes, the partitions, their device-mapper or md holders, and      *)
(* statfs of each mount point.  The kernel is the environment: disks are   *)
(* pulled (none is plugged in), file systems mounted and unmounted,        *)
(* encrypted volumes unlocked and locked, between any two reads.           *)
(* A definition marked "Slip" is a plausible mistake in the code of the    *)
(* definition that follows it; it takes no part in Next.                   *)
(***************************************************************************)
EXTENDS Naturals, Sequences, FiniteSets, Listing

CONSTANTS
  Names,       \* the sequence of names /sys/block may list, in name order
  Pseudo,      \* those isPseudoBlockDevice filters out; the mappers among them
  Usb, Removable,  \* disks on a USB bus, disks with the removable flag
  Parts,       \* Parts[d]: the sequence of d's partition directories
  Named,       \* mappers with a dm/name (md arrays have none)
  MountPoints,
  None,        \* no mount point, no usage, no disk
  Parent,      \* the file system that holds the mount points
  MaxMounts,   \* bound: lines of /proc/mounts
  MaxChanges   \* bound: changes of the kernel's state during a call

Disks      == {Names[k] : k \in DOMAIN Names} \ Pseudo
Mappers    == {Names[k] : k \in DOMAIN Names} \cap Pseudo
Partitions == UNION {{Parts[d][k] : k \in DOMAIN Parts[d]} : d \in Disks}
Holdable   == Partitions \cup Mappers
Volumes    == Disks \cup Holdable

\* The device paths of /proc/mounts: /dev/<kernel name> and /dev/mapper/<name>.
Paths  == [dir : {"dev"}, vol : Volumes] \cup [dir : {"mapper"}, vol : Named]
Mounts == [src : Paths, at : MountPoints]

ASSUME StorageAssumption ==
  /\ Names \in Seq({Names[k] : k \in DOMAIN Names})
  /\ \A j, k \in DOMAIN Names : Names[j] = Names[k] => j = k
  /\ Parts \in [Disks -> Seq(Partitions)]
  /\ \A c, d \in Disks : \A j \in DOMAIN Parts[c], k \in DOMAIN Parts[d] :
       Parts[c][j] = Parts[d][k] => c = d
  /\ Partitions \cap (Disks \cup Mappers) = {}
  /\ Usb \cup Removable \subseteq Disks /\ Named \subseteq Mappers
  /\ MaxMounts \in Nat /\ MaxChanges \in Nat
  /\ None \notin Volumes \cup MountPoints /\ Parent \notin Volumes \cup {None}

VARIABLES
  plugged, holders, mounts,  \* the kernel: disks present, who holds what, /proc/mounts
  changes, touched,     \* changes during the call; what they were about, and
                        \* what could not be read
  stage,                \* where the call stands
  names, table,         \* disks not yet scanned; result of readMounts
  cur, todo,            \* the disk being scanned and its partitions not yet seen
  devs                  \* the list being built

kernelVars == <<plugged, holders, mounts>>
callVars   == <<stage, names, table, cur, todo, devs>>
vars == <<kernelVars, changes, touched, callVars>>
-----------------------------------------------------------------------------
(* The kernel *)

DiskOf(p) == CHOOSE d \in Disks : \E k \in DOMAIN Parts[d] : Parts[d][k] = p

Active(m) == \E v \in Holdable : m \in holders[v]
Exists(v) == CASE v \in Disks      -> v \in plugged
               [] v \in Partitions -> DiskOf(v) \in plugged
               [] OTHER            -> Active(v)
IsMounted(v) == \E k \in DOMAIN mounts : mounts[k].src.vol = v
Held(v) == v \in Holdable /\ holders[v] # {}

Mountable(v) == /\ Exists(v) /\ ~Held(v)
                /\ v \in Disks => Parts[v] = <<>>

\* The file system on top at a mount point.
Top(at) == LET on == {k \in DOMAIN mounts : mounts[k].at = at}
           IN  IF on = {} THEN Parent
               ELSE mounts[CHOOSE k \in on : \A j \in on : j <= k].src.vol

Changed(things) ==
  /\ stage \in {"mounts", "disk", "parts"} /\ changes < MaxChanges
  /\ changes' = changes + 1 /\ touched' = touched \cup things
  /\ UNCHANGED callVars

MountFS ==
  \E m \in Mounts :
    /\ Mountable(m.src.vol) /\ Len(mounts) < MaxMounts
    /\ mounts' = Append(mounts, m)
    /\ Changed({m.src.vol, m.at}) /\ UNCHANGED <<plugged, holders>>

UnmountFS ==
  \E k \in DOMAIN mounts :
    /\ \A j \in DOMAIN mounts : j > k => mounts[j].at # mounts[k].at
    /\ mounts' = SubSeq(mounts, 1, k - 1) \o SubSeq(mounts, k + 1, Len(mounts))
    /\ Changed({mounts[k].src.vol, mounts[k].at}) /\ UNCHANGED <<plugged, holders>>

\* cryptsetup, LVM or mdadm put a mapper on a volume, or take it away.
Hold ==
  \E v \in Holdable, m \in Mappers :
    /\ Exists(v) /\ ~IsMounted(v) /\ ~Active(m) /\ m # v
    /\ holders' = [holders EXCEPT ![v] = @ \cup {m}]
    /\ Changed({v, m}) /\ UNCHANGED <<plugged, mounts>>

Release ==
  \E v \in Holdable, m \in Mappers :
    /\ m \in holders[v] /\ ~IsMounted(m) /\ ~Held(m)
    /\ holders' = [holders EXCEPT ![v] = @ \ {m}]
    /\ Changed({v, m}) /\ UNCHANGED <<plugged, mounts>>

\* A disk that is pulled leaves its mounts behind.
Unplug ==
  \E d \in plugged \cap Usb :
    /\ plugged' = plugged \ {d}
    /\ Changed({d} \cup {Parts[d][k] : k \in DOMAIN Parts[d]})
    /\ UNCHANGED <<holders, mounts>>
-----------------------------------------------------------------------------
(* CollectStorage *)

Read(failed) == touched' = touched \cup failed /\ UNCHANGED <<kernelVars, changes>>
Idle   == Read({})
Unread == Read(Volumes \cup MountPoints)

\* os.ReadDir: the entries of a directory in name order.
NameBefore(a, b) == \E i, j \in DOMAIN Names : i < j /\ Names[i] = a /\ Names[j] = b
ReadDir(S) ==
  {s \in [1..Cardinality(S) -> S] : \A j, k \in DOMAIN s : j < k => NameBefore(s[j], s[k])}
First(S) == CHOOSE n \in S : \A m \in S : m = n \/ NameBefore(n, m)

\* /sys/block, less the pseudo devices; an error gives nil.
isPseudoBlockDevice(name) == name \in Pseudo
ListDisks ==
  /\ stage = "idle"
  /\ \/ /\ names' \in ReadDir({n \in Disks \cup Mappers : Exists(n) /\ ~isPseudoBlockDevice(n)})
        /\ stage' = "mounts"
        /\ Idle
     \/ UNCHANGED names /\ stage' = "done" /\ Unread
  /\ UNCHANGED <<table, cur, todo, devs>>

\* Slip: what has been seen is the mount point.
FirstOfMountPoint(path) ==
  LET of == {k \in DOMAIN mounts : /\ mounts[k].src = path
                                   /\ \A j \in 1..(k - 1) : mounts[j].at # mounts[k].at}
  IN  IF of = {} THEN None ELSE mounts[CHOOSE k \in of : \A j \in of : k <= j].at

\* The first mount point seen for each path; an error gives a nil map.
FirstMount(path) ==
  LET of == {k \in DOMAIN mounts : mounts[k].src = path}
  IN  IF of = {} THEN None ELSE mounts[CHOOSE k \in of : \A j \in of : k <= j].at

readMounts ==
  /\ stage = "mounts"
  /\ \/ table' = [path \in Paths |-> FirstMount(path)] /\ Idle
     \/ table' = [path \in Paths |-> None] /\ Unread
  /\ stage' = "disk"
  /\ UNCHANGED <<names, cur, todo, devs>>

\* The attributes and the partition directories of the next disk; a disk that
\* has gone since shows neither.
OpenDisk ==
  /\ stage = "disk" /\ names # <<>>
  /\ LET d == Head(names)
     IN  /\ cur' = [name |-> d, usb |-> d \in plugged \cap Usb,
                    removable |-> d \in plugged \cap Removable, parts |-> <<>>]
         /\ todo' = IF d \in plugged THEN Parts[d] ELSE <<>>
  /\ names' = Tail(names) /\ stage' = "parts"
  /\ Idle /\ UNCHANGED <<table, devs>>

\* statfs: what it says is identified with the volume it says it of.  It may
\* fail or find no blocks; where nothing is mounted any more it answers for
\* the file system of the directory.
\* newPartitionFromMount: an entry whatever statfs says.
FromMount(name, at) == {[name |-> name, at |-> at, usage |-> u] : u \in {None, Top(at)}}
Failed(e) == IF e.usage = None THEN {e.at} \ {None} ELSE {}

Mapped(h) == h \in Named /\ table[[dir |-> "mapper", vol |-> h]] # None
\* Slip: the ok of the map access is dropped.
DirectUnchecked(v) == TRUE
Direct(v) == table[[dir |-> "dev", vol |-> v]] # None

HoldersOf(p) == IF DiskOf(p) \in plugged THEN holders[p] ELSE {}

\* Slip: only the mapper's name is tried ...
HolderMountByName(h) == IF h \in Named THEN table[[dir |-> "mapper", vol |-> h]] ELSE None
\* ... or the name of the holder before stays in alt.
AltKept(hs, h) == First(hs)

\* A holder is looked up by its mapper name, then by its kernel name.
HolderMount(h) == IF Mapped(h) THEN table[[dir |-> "mapper", vol |-> h]]
                               ELSE table[[dir |-> "dev", vol |-> h]]
Alt(hs, h) == h

\* The first holder that is mounted; a "locked" entry when there are holders
\* and none is.
holderPartition(p) ==
  LET hs == HoldersOf(p)
      on == {h \in hs : HolderMount(h) # None}
  IN  IF hs = {} THEN {}
      ELSE IF on = {} THEN {[name |-> p, at |-> None, usage |-> None]}
      ELSE FromMount(Alt(hs, First(on)), HolderMount(First(on)))

\* One round of collectPartitions.
ScanPartition ==
  /\ stage = "parts" /\ todo # <<>>
  /\ LET p == Head(todo)
         found == IF Direct(p) THEN FromMount(p, table[[dir |-> "dev", vol |-> p]])
                               ELSE holderPartition(p)
     IN  \/ found = {} /\ UNCHANGED cur /\ Idle
         \/ \E e \in found : cur' = [cur EXCEPT !.parts = Append(@, e)] /\ Read(Failed(e))
  /\ todo' = Tail(todo)
  /\ UNCHANGED <<stage, names, table, devs>>

\* A disk without entries is tried as a whole, and listed in any case.
CloseDisk ==
  /\ stage = "parts" /\ todo = <<>>
  /\ IF cur.parts = <<>> /\ Direct(cur.name)
     THEN \E e \in FromMount(cur.name, table[[dir |-> "dev", vol |-> cur.name]]) :
            devs' = Append(devs, [cur EXCEPT !.parts = <<e>>]) /\ Read(Failed(e))
     ELSE devs' = Append(devs, cur) /\ Idle
  /\ stage' = "disk" /\ cur' = None
  /\ UNCHANGED <<names, table, todo>>

\* Slip: many USB drives do not set the removable flag.
BeforeRemovable(a, b) ==
  IF a.removable # b.removable THEN b.removable ELSE NameBefore(a.name, b.name)

External(d) == d.removable \/ d.usb
Before(a, b) == IF External(a) # External(b) THEN External(b) ELSE NameBefore(a.name, b.name)

SortDisks ==
  /\ stage = "disk" /\ names = <<>>
  /\ devs' = StableSort(devs, [j \in DOMAIN devs |->
                               [k \in DOMAIN devs |-> Before(devs[j], devs[k])]])
  /\ stage' = "done"
  /\ Idle /\ UNCHANGED <<names, table, cur, todo>>

Returned == stage = "done" /\ UNCHANGED vars
-----------------------------------------------------------------------------
(* renderStoragePanel: a header for each disk, then its status or a line     *)
(* for each entry.                                                           *)

Kind(d) == IF d.usb THEN "usb" ELSE IF d.removable THEN "removable" ELSE "internal"
EntryLine(d, e) ==
  [disk |-> d.name, kind |-> IF e.usage = None THEN "locked / no mount" ELSE "usage",
   name |-> e.name, at |-> e.at, usage |-> e.usage]
Header(d, kind) == [disk |-> d.name, kind |-> kind, name |-> None, at |-> None, usage |-> None]

DiskLines(d) ==
  <<Header(d, Kind(d))>> \o (IF d.parts = <<>> THEN <<Header(d, "no mount")>>
                             ELSE [k \in DOMAIN d.parts |-> EntryLine(d, d.parts[k])])
Panel == {l \in UNION {{DiskLines(devs[i])[k] : k \in DOMAIN DiskLines(devs[i])}
                       : i \in DOMAIN devs} : l.kind \in {"usage", "locked / no mount"}}
-----------------------------------------------------------------------------
MountLists == UNION {[1..n -> Mounts] : n \in 0..MaxMounts}

\* One behaviour is one call, in any state the kernel may be in.
Init ==
  /\ plugged \in {P \in SUBSET Disks : Disks \ Usb \subseteq P}
  /\ holders \in [Holdable -> SUBSET Mappers]
  /\ \A v \in Holdable : holders[v] # {} => Exists(v) /\ v \notin holders[v]
  /\ mounts \in MountLists
  /\ \A k \in DOMAIN mounts : Mountable(mounts[k].src.vol)
  /\ changes = 0 /\ touched = {}
  /\ stage = "idle" /\ names = <<>> /\ table = [path \in Paths |-> None]
  /\ cur = None /\ todo = <<>> /\ devs = <<>>

Kernel == MountFS \/ UnmountFS \/ Hold \/ Release \/ Unplug
CollectStorage == ListDisks \/ readMounts \/ OpenDisk \/ ScanPartition \/ CloseDisk \/ SortDisks
Next == Kernel \/ CollectStorage \/ Returned
Spec == Init /\ [][Next]_vars
-----------------------------------------------------------------------------
(* Properties *)

Entry == [name : Volumes, at : MountPoints, usage : Volumes \cup {Parent, None}]
         \cup [name : Partitions, at : {None}, usage : {None}]
Device == [name : Disks, usb : BOOLEAN, removable : BOOLEAN, parts : Seq(Entry)]

TypeOK ==
  /\ plugged \subseteq Disks /\ holders \in [Holdable -> SUBSET Mappers]
  /\ mounts \in Seq(Mounts)
  /\ changes \in 0..MaxChanges /\ touched \subseteq Volumes \cup MountPoints
  /\ stage \in {"idle", "mounts", "disk", "parts", "done"}
  /\ names \in Seq(Disks \cup Mappers) /\ table \in [Paths -> MountPoints \cup {None}]
  /\ cur \in Device \cup {None} /\ todo \in Seq(Partitions) /\ devs \in Seq(Device)

Done == stage = "done"
Undisturbed(things) == things \cap touched = {}
OwnDisk(v) == IF v \in Disks THEN v ELSE DiskOf(v)
MountedAt(v, at) == \E k \in DOMAIN mounts : mounts[k].src.vol = v /\ mounts[k].at = at
Stacked(at) == \E v, w \in Volumes : v # w /\ MountedAt(v, at) /\ MountedAt(w, at)

\* storage.go:37-39: every disk has its place in the list, also one with
\* nothing mounted on it: once, internal drives ahead of removable and USB
\* ones, and each kind in the order of names - whatever is pulled meanwhile.
DisksInOrder ==
  Done =>
    /\ \A d \in plugged : Undisturbed({d}) => \E k \in DOMAIN devs : devs[k].name = d
    /\ \A j, k \in DOMAIN devs : j < k =>
         LET a == devs[j].name  b == devs[k].name  Ext == Usb \cup Removable
         IN  /\ a # b
             /\ Undisturbed({a, b}) => /\ a \in Ext => b \in Ext
                                       /\ (a \in Ext <=> b \in Ext) => NameBefore(a, b)

\* A partition, or a disk without partitions, that is mounted all along has a
\* line under its disk with a mount point of its own, and a bar if statfs
\* works there - whatever else is mounted or pulled meanwhile.
MountedIsShown ==
  Done => \A v \in Disks \cup Partitions :
    IsMounted(v) /\ OwnDisk(v) \in plugged /\ Undisturbed({v, OwnDisk(v)})
      => \E l \in Panel : /\ l.disk = OwnDisk(v) /\ l.name = v /\ MountedAt(v, l.at)
                          /\ l.at \in touched \/ l.kind = "usage"

\* A partition with holders never disappears, and is shown as locked exactly
\* if none of its holders is mounted (storage.go:169-171, 195-197).
HeldIsShown ==
  Done => \A p \in Partitions :
    Held(p) /\ DiskOf(p) \in plugged /\ Undisturbed({p, DiskOf(p)} \cup holders[p])
      => \E l \in Panel : l.disk = DiskOf(p) /\
           IF \E h \in holders[p] : IsMounted(h)
           THEN l.name \in holders[p] /\ MountedAt(l.name, l.at)
           ELSE l.name = p /\ l.at = None

\* A bar tells the usage of the volume it is named after, unless something was
\* mounted over it, or mounted or unmounted while the call ran: then statfs
\* answers for another file system (storage.go:204).
UsageIsOwn ==
  Done => \A l \in Panel :
    l.kind = "usage" /\ Undisturbed({l.name, l.at}) /\ ~Stacked(l.at)
      => l.usage = l.name

\* README.md:107-108: "Encrypted-but-locked or otherwise unmounted partitions
\* show locked / no mount".  Without a holder they have no line at all
\* (storage.go:175-177), and a locked one has no holder.
UnmountedIsShown ==
  Done /\ touched = {} => \A p \in Partitions :
    DiskOf(p) \in plugged => \E l \in Panel : l.disk = DiskOf(p) /\ l.name \in {p} \cup holders[p]
=============================================================================
