--------------------------- MODULE StorageProofs ---------------------------
(***************************************************************************)
(* The storage list, proved for any disks, partitions, mappers and mount   *)
(* points, any number of mounts and any number of changes during a call.   *)
(***************************************************************************)
EXTENDS Storage, ListingProofs

PartsOf(d)  == {Parts[d][k] : k \in DOMAIN Parts[d]}
Entries(d)  == {d.parts[k] : k \in DOMAIN d.parts}
InOrder(s)  == \A j, k \in DOMAIN s : j < k => NameBefore(s[j], s[k])
Mounted(m)  == \E k \in DOMAIN mounts : mounts[k] = m
Untouched(things) == things \cap touched = {}

\* The kernel mounts neither a volume that is held nor a disk with partitions.
KernelInv ==
  \A m \in Mounts : Mounted(m) =>
    ~Held(m.src.vol) /\ (m.src.vol \in Disks => Parts[m.src.vol] = <<>>)

\* The mount table is right about every volume that is left alone.
TableInv ==
  stage \in {"disk", "parts"} =>
    \A path \in Paths : path.vol \notin touched =>
      IF table[path] = None THEN \A at \in MountPoints : ~Mounted([src |-> path, at |-> at])
                            ELSE Mounted([src |-> path, at |-> table[path]])

\* The disks done, the one at hand and those to come are in the order of
\* names, and none that is left alone is missing.
NamesInv ==
  /\ stage \in {"idle", "mounts"} => devs = <<>>
  /\ stage \in {"idle", "done"} => names = <<>>
  /\ stage = "parts" => cur \in Device /\ \A k \in DOMAIN todo : todo[k] \in PartsOf(cur.name)
  /\ InOrder(names)
  /\ \A j \in DOMAIN devs, k \in DOMAIN names : NameBefore(devs[j].name, names[k])
  /\ stage = "parts" =>
       /\ \A k \in DOMAIN names : NameBefore(cur.name, names[k])
       /\ \A j \in DOMAIN devs : NameBefore(devs[j].name, cur.name)
  /\ \A j, k \in DOMAIN devs : j < k =>
       IF stage = "done" THEN devs[j].name # devs[k].name /\ Before(devs[j], devs[k])
                         ELSE NameBefore(devs[j].name, devs[k].name)
  /\ \A k \in DOMAIN names : names[k] \in Disks /\ names[k] \in plugged \cup touched
  /\ stage # "idle" => \A d \in plugged \ touched :
       \/ \E k \in DOMAIN names : names[k] = d
       \/ stage = "parts" /\ cur.name = d
       \/ \E k \in DOMAIN devs : devs[k].name = d

\* What is known of a disk once the entries of the volumes vols were built.
Attributes(d) ==
  d.name \notin touched => (d.usb <=> d.name \in Usb) /\ (d.removable <=> d.name \in Removable)
OwnUsage(d) ==
  \A e \in Entries(d) :
    e.usage # None /\ Untouched({e.name, e.at}) /\ ~Stacked(e.at) => e.usage = e.name
ShowsMounted(d, v) ==
  IsMounted(v) /\ d.name \in plugged /\ Untouched({v, d.name}) =>
    \E e \in Entries(d) : /\ e.name = v /\ MountedAt(v, e.at)
                          /\ e.at \in touched \/ e.usage # None
ShowsHeld(d, p) ==
  Held(p) /\ d.name \in plugged /\ Untouched({p, d.name} \cup holders[p]) =>
    \E e \in Entries(d) :
      IF \E h \in holders[p] : IsMounted(h)
      THEN e.name \in holders[p] /\ MountedAt(e.name, e.at)
      ELSE e.name = p /\ e.at = None
Shows(d, vols) ==
  /\ Attributes(d) /\ OwnUsage(d)
  /\ \A v \in vols : ShowsMounted(d, v) /\ (v \in Partitions => ShowsHeld(d, v))

EntriesInv ==
  /\ stage = "parts" => Shows(cur, PartsOf(cur.name) \ {todo[k] : k \in DOMAIN todo})
  /\ stage = "parts" /\ cur.parts # <<>> => Parts[cur.name] # <<>>
  /\ \A k \in DOMAIN devs : Shows(devs[k], {devs[k].name} \cup PartsOf(devs[k].name))

Inv == TypeOK /\ KernelInv /\ TableInv /\ NamesInv /\ EntriesInv
-----------------------------------------------------------------------------
(* Names and mount points in order *)

LEMMA NameOrder ==
  /\ \A a : ~NameBefore(a, a)
  /\ \A a, b, c : NameBefore(a, b) /\ NameBefore(b, c) => NameBefore(a, c)
  /\ \A a, b \in Disks \cup Mappers : a # b => NameBefore(a, b) \/ NameBefore(b, a)
<1> DEFINE n == Len(Names)
<1>1. n \in Nat /\ DOMAIN Names = 1..n /\ \A j, k \in 1..n : Names[j] = Names[k] => j = k
  BY StorageAssumption, LenProperties
<1> HIDE DEF n
<1>2. \A a : ~NameBefore(a, a)
  BY <1>1 DEF NameBefore
<1>3. \A a, b, c : NameBefore(a, b) /\ NameBefore(b, c) => NameBefore(a, c)
  <2> SUFFICES ASSUME NEW a, NEW b, NEW c, NameBefore(a, b), NameBefore(b, c)
               PROVE  NameBefore(a, c)
    OBVIOUS
  <2>1. PICK i \in 1..n, j \in 1..n : i < j /\ Names[i] = a /\ Names[j] = b
    BY <1>1 DEF NameBefore
  <2>2. PICK k \in 1..n, l \in 1..n : k < l /\ Names[k] = b /\ Names[l] = c
    BY <1>1 DEF NameBefore
  <2>3. i < l
    BY <1>1, <2>1, <2>2
  <2> QED
    BY <1>1, <2>1, <2>2, <2>3 DEF NameBefore
<1>4. \A a, b \in Disks \cup Mappers : a # b => NameBefore(a, b) \/ NameBefore(b, a)
  <2> SUFFICES ASSUME NEW a \in Disks \cup Mappers, NEW b \in Disks \cup Mappers, a # b
               PROVE  NameBefore(a, b) \/ NameBefore(b, a)
    OBVIOUS
  <2>1. PICK i \in 1..n, j \in 1..n : Names[i] = a /\ Names[j] = b
    BY <1>1 DEF Disks, Mappers
  <2>2. i < j \/ j < i
    BY <2>1
  <2> QED
    BY <1>1, <2>1, <2>2 DEF NameBefore
<1> QED
  BY <1>2, <1>3, <1>4

\* A set of names has a first one.
LEMMA FirstOf ==
  ASSUME NEW S \in SUBSET (Disks \cup Mappers), S # {}
  PROVE  First(S) \in S
<1> DEFINE n == Len(Names)
           K == {k \in 1..n : Names[k] \in S}
<1>1. n \in Nat /\ DOMAIN Names = 1..n
  BY StorageAssumption, LenProperties
<1>2. \A x \in S : \E k \in K : Names[k] = x
  BY <1>1 DEF Disks, Mappers
<1>3. K \in SUBSET (1..n) /\ K # {}
  BY <1>2
<1>4. PICK i \in K : \A j \in K : i <= j
  <2> HIDE DEF K, n
  <2> QED
    BY <1>1, <1>3, LeastPlace
<1>5. \A m \in S : m = Names[i] \/ NameBefore(Names[i], m)
  <2> SUFFICES ASSUME NEW m \in S, m # Names[i] PROVE NameBefore(Names[i], m)
    OBVIOUS
  <2>1. PICK j \in K : Names[j] = m
    BY <1>2
  <2>2. i \in 1..n /\ j \in 1..n /\ i < j
    BY <1>4, <2>1
  <2> QED
    BY <1>1, <2>1, <2>2 DEF NameBefore
<1> QED
  BY <1>4, <1>5 DEF First

\* A directory's listing has all of its entries, in order.
LEMMA ReadDirLists ==
  ASSUME NEW S \in SUBSET (Disks \cup Mappers), NEW s \in ReadDir(S)
  PROVE  s \in Seq(S) /\ InOrder(s) /\ \A x \in S : \E k \in DOMAIN s : s[k] = x
<1> DEFINE n == Len(Names)
           all == {Names[k] : k \in 1..n}
<1>1. n \in Nat /\ DOMAIN Names = 1..n /\ Names \in Seq({Names[k] : k \in DOMAIN Names})
  BY StorageAssumption, LenProperties
<1>2. IsFiniteSet(S)
  <2>1. IsFiniteSet(1..n)
    BY <1>1, FS_Interval
  <2>2. Names \in [1..n -> all]
    BY <1>1
  <2>3. Names \in Surjection(1..n, all)
    BY <2>2 DEF Surjection
  <2>4. IsFiniteSet(all)
    BY <2>1, <2>3, FS_Surjection
  <2>5. S \in SUBSET all
    BY <1>1 DEF Disks, Mappers
  <2> QED
    BY <2>4, <2>5, FS_Subset
<1>3. s \in [1..Cardinality(S) -> S] /\ InOrder(s)
  BY DEF ReadDir, InOrder
<1>4. Cardinality(S) \in Nat
  BY <1>2, FS_CardinalityType
<1>5. \A j, k \in DOMAIN s : s[j] = s[k] => j = k
  <2> SUFFICES ASSUME NEW j \in DOMAIN s, NEW k \in DOMAIN s, s[j] = s[k], j # k PROVE FALSE
    OBVIOUS
  <2>1. j < k \/ k < j
    BY <1>3, <1>4
  <2> QED
    BY <1>3, <2>1, NameOrder DEF InOrder
<1> QED
  BY <1>2, <1>3, <1>5, Enumerates

\* The mount that statfs sees, and the one that the table keeps of a path.
LEMMA TopIsMounted ==
  ASSUME mounts \in Seq(Mounts), NEW at, \E m \in Mounts : Mounted(m) /\ m.at = at
  PROVE  \E m \in Mounts : Mounted(m) /\ m.at = at /\ Top(at) = m.src.vol
<1> DEFINE n == Len(mounts)
           on == {k \in DOMAIN mounts : mounts[k].at = at}
<1>1. n \in Nat /\ DOMAIN mounts = 1..n /\ \A k \in 1..n : mounts[k] \in Mounts
  BY LenProperties, ElementOfSeq
<1>2. on \in SUBSET (1..n) /\ on # {}
  BY <1>1 DEF Mounted
<1>3. \E k \in on : \A j \in on : j <= k
  <2> HIDE DEF on, n
  <2> QED
    BY <1>1, <1>2, GreatestPlace
<1>4. PICK k \in on : Top(at) = mounts[k].src.vol
  BY <1>2, <1>3 DEF Top
<1> QED
  BY <1>1, <1>4 DEF Mounted

LEMMA FirstIsMounted ==
  ASSUME mounts \in Seq(Mounts), None \notin MountPoints, NEW path \in Paths
  PROVE  IF FirstMount(path) = None THEN \A at \in MountPoints : ~Mounted([src |-> path, at |-> at])
         ELSE FirstMount(path) \in MountPoints /\ Mounted([src |-> path, at |-> FirstMount(path)])
<1> DEFINE n == Len(mounts)
           of == {k \in DOMAIN mounts : mounts[k].src = path}
<1>1. n \in Nat /\ DOMAIN mounts = 1..n /\ \A k \in 1..n : mounts[k] \in Mounts
  BY LenProperties, ElementOfSeq
<1>2. CASE of = {}
  BY <1>2 DEF FirstMount, Mounted
<1>3. CASE of # {}
  <2>1. of \in SUBSET (1..n)
    BY <1>1
  <2>2. \E k \in of : \A j \in of : k <= j
    <3> HIDE DEF of, n
    <3> QED
      BY <1>1, <1>3, <2>1, LeastPlace
  <2>3. PICK k \in of : FirstMount(path) = mounts[k].at
    BY <1>3, <2>2 DEF FirstMount
  <2>4. mounts[k] \in Mounts /\ mounts[k].src = path
    BY <1>1, <2>3
  <2>5. mounts[k].at \in MountPoints /\ mounts[k] = [src |-> path, at |-> mounts[k].at]
    BY <2>4 DEF Mounts
  <2> QED
    BY <2>3, <2>5 DEF Mounted
<1> QED
  BY <1>2, <1>3
-----------------------------------------------------------------------------
(* The kernel's steps *)

\* What a step does not touch stays as it was.
Steady ==
  /\ touched \subseteq touched' /\ plugged' \subseteq plugged
  /\ plugged \ touched' \subseteq plugged'
  /\ \A v \in Holdable : v \notin touched' => holders'[v] = holders[v]
  /\ \A m \in Mounts : m.src.vol \notin touched' \/ m.at \notin touched' =>
       (Mounted(m)' <=> Mounted(m))

KernelType ==
  /\ plugged \subseteq Disks /\ holders \in [Holdable -> SUBSET Mappers]
  /\ mounts \in Seq(Mounts)
  /\ changes \in 0..MaxChanges /\ touched \subseteq Volumes \cup MountPoints

LEMMA ChangedType ==
  ASSUME KernelType, NEW things, things \subseteq Volumes \cup MountPoints, Changed(things)
  PROVE  /\ changes' \in 0..MaxChanges /\ touched' \subseteq Volumes \cup MountPoints
         /\ touched' = touched \cup things /\ UNCHANGED callVars
BY StorageAssumption DEF Changed, KernelType

LEMMA MountStep ==
  ASSUME KernelType, KernelInv, MountFS
  PROVE  Steady /\ KernelType' /\ KernelInv' /\ UNCHANGED callVars
<1>1. PICK m \in Mounts :
        /\ Mountable(m.src.vol) /\ mounts' = Append(mounts, m)
        /\ Changed({m.src.vol, m.at}) /\ UNCHANGED <<plugged, holders>>
  BY DEF MountFS
<1>2. m.src.vol \in Volumes /\ m.at \in MountPoints
  BY StorageAssumption DEF Mounts, Paths, Volumes, Holdable
<1>3. /\ changes' \in 0..MaxChanges /\ touched' \subseteq Volumes \cup MountPoints
      /\ touched' = touched \cup {m.src.vol, m.at} /\ UNCHANGED callVars
  BY <1>1, <1>2, ChangedType
<1>4. /\ mounts' \in Seq(Mounts) /\ Len(mounts') = Len(mounts) + 1
      /\ Len(mounts) \in Nat /\ DOMAIN mounts = 1..Len(mounts)
      /\ DOMAIN mounts' = 1..(Len(mounts) + 1)
      /\ \A k \in 1..Len(mounts) : mounts'[k] = mounts[k]
      /\ mounts'[Len(mounts) + 1] = m
  BY <1>1, LenProperties, AppendProperties DEF KernelType
<1>5. \A x : Mounted(x)' <=> Mounted(x) \/ x = m
  BY <1>4 DEF Mounted
<1>6. Steady
  BY <1>1, <1>3, <1>5 DEF Steady
<1>7. KernelInv'
  BY <1>1, <1>5 DEF KernelInv, Mountable, Held
<1> QED
  BY <1>1, <1>3, <1>4, <1>6, <1>7 DEF KernelType

LEMMA UnmountStep ==
  ASSUME KernelType, KernelInv, UnmountFS
  PROVE  Steady /\ KernelType' /\ KernelInv' /\ UNCHANGED callVars
<1>1. PICK k \in DOMAIN mounts :
        /\ mounts' = SubSeq(mounts, 1, k - 1) \o SubSeq(mounts, k + 1, Len(mounts))
        /\ Changed({mounts[k].src.vol, mounts[k].at}) /\ UNCHANGED <<plugged, holders>>
  BY DEF UnmountFS
<1>2. mounts[k] \in Mounts
  BY ElementOfSeq, LenProperties DEF KernelType
<1>3. mounts[k].src.vol \in Volumes /\ mounts[k].at \in MountPoints
  BY <1>2, StorageAssumption DEF Mounts, Paths, Volumes, Holdable
<1>4. /\ changes' \in 0..MaxChanges /\ touched' \subseteq Volumes \cup MountPoints
      /\ touched' = touched \cup {mounts[k].src.vol, mounts[k].at} /\ UNCHANGED callVars
  BY <1>1, <1>3, ChangedType
<1>5. /\ mounts' \in Seq(Mounts)
      /\ \A j \in DOMAIN mounts' : \E i \in DOMAIN mounts : i # k /\ mounts'[j] = mounts[i]
      /\ \A i \in DOMAIN mounts : i # k => \E j \in DOMAIN mounts' : mounts'[j] = mounts[i]
  <2>1. mounts \in Seq(Mounts)
    BY DEF KernelType
  <2> QED
    BY <1>1, <2>1, Removed
<1>6. \A x : x # mounts[k] => (Mounted(x)' <=> Mounted(x))
  BY <1>5 DEF Mounted
<1>7. \A x : Mounted(x)' => Mounted(x)
  BY <1>5 DEF Mounted
<1>8. Steady
  BY <1>1, <1>4, <1>6 DEF Steady
<1>9. KernelInv'
  BY <1>1, <1>7 DEF KernelInv, Held
<1> QED
  BY <1>1, <1>4, <1>5, <1>8, <1>9 DEF KernelType

LEMMA HoldStep ==
  ASSUME KernelType, KernelInv, Hold
  PROVE  Steady /\ KernelType' /\ KernelInv' /\ UNCHANGED callVars
<1>1. PICK v \in Holdable, m \in Mappers :
        /\ ~IsMounted(v) /\ holders' = [holders EXCEPT ![v] = @ \cup {m}]
        /\ Changed({v, m}) /\ UNCHANGED <<plugged, mounts>>
  BY DEF Hold
<1>2. /\ changes' \in 0..MaxChanges /\ touched' \subseteq Volumes \cup MountPoints
      /\ touched' = touched \cup {v, m} /\ UNCHANGED callVars
  BY <1>1, ChangedType DEF Volumes, Holdable
<1>3. /\ holders' \in [Holdable -> SUBSET Mappers]
      /\ \A w \in Holdable : w # v => holders'[w] = holders[w]
  BY <1>1 DEF KernelType
<1>4. \A x : Mounted(x)' <=> Mounted(x)
  BY <1>1 DEF Mounted
<1>5. Steady
  BY <1>1, <1>2, <1>3, <1>4 DEF Steady
<1>6. \A x : Mounted(x) => x.src.vol # v
  BY <1>1 DEF Mounted, IsMounted
<1>7. KernelInv'
  BY <1>3, <1>4, <1>6 DEF KernelInv, Held
<1> QED
  BY <1>1, <1>2, <1>3, <1>5, <1>7 DEF KernelType

LEMMA ReleaseStep ==
  ASSUME KernelType, KernelInv, Release
  PROVE  Steady /\ KernelType' /\ KernelInv' /\ UNCHANGED callVars
<1>1. PICK v \in Holdable, m \in Mappers :
        /\ holders' = [holders EXCEPT ![v] = @ \ {m}]
        /\ Changed({v, m}) /\ UNCHANGED <<plugged, mounts>>
  BY DEF Release
<1>2. /\ changes' \in 0..MaxChanges /\ touched' \subseteq Volumes \cup MountPoints
      /\ touched' = touched \cup {v, m} /\ UNCHANGED callVars
  BY <1>1, ChangedType DEF Volumes, Holdable
<1>3. /\ holders' \in [Holdable -> SUBSET Mappers]
      /\ \A w \in Holdable : w # v => holders'[w] = holders[w]
      /\ \A w \in Holdable : holders'[w] \subseteq holders[w]
  BY <1>1 DEF KernelType
<1>4. \A x : Mounted(x)' <=> Mounted(x)
  BY <1>1 DEF Mounted
<1>5. Steady
  BY <1>1, <1>2, <1>3, <1>4 DEF Steady
<1>6. KernelInv'
  BY <1>3, <1>4 DEF KernelInv, Held
<1> QED
  BY <1>1, <1>2, <1>3, <1>5, <1>6 DEF KernelType

LEMMA UnplugStep ==
  ASSUME KernelType, KernelInv, Unplug
  PROVE  Steady /\ KernelType' /\ KernelInv' /\ UNCHANGED callVars
<1>1. PICK d \in plugged \cap Usb :
        /\ plugged' = plugged \ {d}
        /\ Changed({d} \cup {Parts[d][k] : k \in DOMAIN Parts[d]})
        /\ UNCHANGED <<holders, mounts>>
  BY DEF Unplug
<1>2. {d} \cup {Parts[d][k] : k \in DOMAIN Parts[d]} \subseteq Volumes \cup MountPoints
  BY DEF KernelType, Volumes, Holdable, Partitions
<1>3. /\ changes' \in 0..MaxChanges /\ touched' \subseteq Volumes \cup MountPoints
      /\ touched' = touched \cup {d} \cup {Parts[d][k] : k \in DOMAIN Parts[d]}
      /\ UNCHANGED callVars
  BY <1>1, <1>2, ChangedType
<1>4. \A x : Mounted(x)' <=> Mounted(x)
  BY <1>1 DEF Mounted
<1>5. Steady
  BY <1>1, <1>3, <1>4 DEF Steady
<1>6. KernelInv'
  BY <1>1, <1>4 DEF KernelInv, Held
<1> QED
  BY <1>1, <1>3, <1>5, <1>6 DEF KernelType

LEMMA KernelStep ==
  ASSUME KernelType, KernelInv, Kernel
  PROVE  Steady /\ KernelType' /\ KernelInv' /\ UNCHANGED callVars
BY MountStep, UnmountStep, HoldStep, ReleaseStep, UnplugStep DEF Kernel

\* A step of the call reads the kernel's state, and may fail to.
LEMMA ReadStep ==
  ASSUME KernelType, KernelInv, NEW failed, failed \subseteq Volumes \cup MountPoints,
         Read(failed)
  PROVE  Steady /\ KernelType' /\ KernelInv' /\ touched' = touched \cup failed
<1>1. touched' = touched \cup failed /\ UNCHANGED <<plugged, holders, mounts, changes>>
  BY DEF Read, kernelVars
<1>2. \A x : Mounted(x)' <=> Mounted(x)
  BY <1>1 DEF Mounted
<1> QED
  BY <1>1, <1>2 DEF Steady, KernelType, KernelInv, Held
-----------------------------------------------------------------------------
(* What was found out stays right while nothing touches it *)

LEMMA MountedAtIs ==
  ASSUME mounts \in Seq(Mounts)
  PROVE  /\ \A v, at : MountedAt(v, at) <=>
              \E m \in Mounts : Mounted(m) /\ m.src.vol = v /\ m.at = at
         /\ \A v : IsMounted(v) <=> \E m \in Mounts : Mounted(m) /\ m.src.vol = v
<1>1. \A k \in DOMAIN mounts : mounts[k] \in Mounts
  BY ElementOfSeq, LenProperties
<1> QED
  BY <1>1 DEF MountedAt, IsMounted, Mounted

LEMMA MountedAtIsNext ==
  ASSUME mounts' \in Seq(Mounts)
  PROVE  /\ \A v, at : MountedAt(v, at)' <=>
              \E m \in Mounts : Mounted(m)' /\ m.src.vol = v /\ m.at = at
         /\ \A v : IsMounted(v)' <=> \E m \in Mounts : Mounted(m)' /\ m.src.vol = v
<1>1. \A k \in DOMAIN mounts' : mounts'[k] \in Mounts
  BY ElementOfSeq, LenProperties
<1> QED
  BY <1>1 DEF MountedAt, IsMounted, Mounted

LEMMA MountedKept ==
  ASSUME KernelType, KernelType', Steady
  PROVE  /\ \A v, at : v \notin touched' \/ at \notin touched' =>
              (MountedAt(v, at)' <=> MountedAt(v, at))
         /\ \A v : v \notin touched' => (IsMounted(v)' <=> IsMounted(v))
<1>1. \A m \in Mounts : m.src.vol \notin touched' \/ m.at \notin touched' =>
        (Mounted(m)' <=> Mounted(m))
  BY DEF Steady
<1>2. mounts \in Seq(Mounts) /\ mounts' \in Seq(Mounts)
  BY DEF KernelType
<1> QED
  BY <1>1, <1>2, MountedAtIs, MountedAtIsNext

LEMMA StillMounted ==
  ASSUME KernelType, KernelType', Steady, NEW d, NEW v,
         IsMounted(v) /\ d.name \in plugged /\ Untouched({v, d.name}) =>
           \E e \in Entries(d) : /\ e.name = v /\ MountedAt(v, e.at)
                                 /\ e.at \in touched' \/ e.usage # None
  PROVE  ShowsMounted(d, v)'
<1>0. touched \subseteq touched' /\ plugged' \subseteq plugged
  BY DEF Steady
<1> SUFFICES ASSUME IsMounted(v)', d.name \in plugged', v \notin touched', d.name \notin touched'
             PROVE  \E e \in Entries(d) : /\ e.name = v /\ MountedAt(v, e.at)'
                                          /\ e.at \in touched' \/ e.usage # None
  BY DEF ShowsMounted, Entries, Untouched
<1>1. IsMounted(v) /\ d.name \in plugged /\ Untouched({v, d.name})
  BY <1>0, MountedKept DEF Untouched
<1>2. PICK e \in Entries(d) : /\ e.name = v /\ MountedAt(v, e.at)
                              /\ e.at \in touched' \/ e.usage # None
  BY <1>1
<1> QED
  BY <1>2, MountedKept

LEMMA StillHeld ==
  ASSUME KernelType, KernelType', Steady, NEW d, NEW p \in Partitions, ShowsHeld(d, p)
  PROVE  ShowsHeld(d, p)'
<1>0. /\ touched \subseteq touched' /\ plugged' \subseteq plugged
      /\ \A v \in Holdable : v \notin touched' => holders'[v] = holders[v]
  BY DEF Steady
<1> SUFFICES ASSUME Held(p)', d.name \in plugged', Untouched({p, d.name} \cup holders[p])'
             PROVE  \E e \in Entries(d) :
                      IF \E h \in holders'[p] : IsMounted(h)'
                      THEN e.name \in holders'[p] /\ MountedAt(e.name, e.at)'
                      ELSE e.name = p /\ e.at = None
  BY DEF ShowsHeld, Entries
<1>1. p \notin touched' /\ holders'[p] = holders[p]
  BY <1>0 DEF Held, Untouched
<1>2. \A h \in holders[p] : h \notin touched'
  BY <1>1 DEF Untouched
<1>3. Held(p) /\ d.name \in plugged /\ Untouched({p, d.name} \cup holders[p])
  BY <1>0, <1>1 DEF Held, Untouched
<1>4. PICK e \in Entries(d) :
        IF \E h \in holders[p] : IsMounted(h)
        THEN e.name \in holders[p] /\ MountedAt(e.name, e.at)
        ELSE e.name = p /\ e.at = None
  BY <1>3 DEF ShowsHeld
<1>5. (\E h \in holders[p] : IsMounted(h)') <=> (\E h \in holders[p] : IsMounted(h))
  BY <1>2, MountedKept
<1>6. e.name \in holders[p] /\ MountedAt(e.name, e.at) => MountedAt(e.name, e.at)'
  BY <1>2, MountedKept
<1> QED
  BY <1>1, <1>4, <1>5, <1>6

LEMMA ShowsKept ==
  ASSUME KernelType, KernelType', Steady, NEW d, NEW vols, Shows(d, vols)
  PROVE  Shows(d, vols)'
<1>0. touched \subseteq touched'
  BY DEF Steady
<1>1. Attributes(d)'
  BY <1>0 DEF Shows, Attributes
<1>2. OwnUsage(d)'
  <2> SUFFICES ASSUME NEW e \in Entries(d), e.usage # None, Untouched({e.name, e.at})',
                      ~Stacked(e.at)'
               PROVE  e.usage = e.name
    BY DEF OwnUsage, Entries
  <2>1. e.name \notin touched' /\ e.at \notin touched'
    BY DEF Untouched
  <2>2. ~Stacked(e.at)
    BY <2>1, MountedKept DEF Stacked
  <2> QED
    BY <1>0, <2>1, <2>2 DEF Shows, OwnUsage, Untouched
<1>3. \A v \in vols : ShowsMounted(d, v)'
  BY <1>0, StillMounted DEF Shows, ShowsMounted
<1>4. \A p \in vols : p \in Partitions => ShowsHeld(d, p)'
  BY StillHeld DEF Shows
<1> QED
  BY <1>1, <1>2, <1>3, <1>4 DEF Shows

LEMMA TableKept ==
  ASSUME KernelType, Steady, TableInv, UNCHANGED table,
         stage' \in {"disk", "parts"} => stage \in {"disk", "parts"}
  PROVE  TableInv'
<1> SUFFICES ASSUME stage \in {"disk", "parts"}, NEW path \in Paths, path.vol \notin touched'
             PROVE  IF table[path] = None
                    THEN \A at \in MountPoints : ~Mounted([src |-> path, at |-> at])'
                    ELSE Mounted([src |-> path, at |-> table[path]])'
  BY DEF TableInv
<1>1. path.vol \notin touched
  BY DEF Steady
<1>2. \A at \in MountPoints :
        Mounted([src |-> path, at |-> at])' <=> Mounted([src |-> path, at |-> at])
  BY DEF Steady, Mounts
<1>3. IF table[path] = None THEN \A at \in MountPoints : ~Mounted([src |-> path, at |-> at])
                            ELSE Mounted([src |-> path, at |-> table[path]])
  BY <1>1 DEF TableInv
<1>4. Mounted([src |-> path, at |-> table[path]]) => table[path] \in MountPoints
  <2>1. \A k \in DOMAIN mounts : mounts[k] \in Mounts
    BY ElementOfSeq, LenProperties DEF KernelType
  <2> QED
    BY <2>1 DEF Mounted, Mounts
<1> QED
  BY <1>2, <1>3, <1>4
-----------------------------------------------------------------------------
(* What the mount table and the holders say of a volume *)

CallType ==
  /\ stage \in {"idle", "mounts", "disk", "parts", "done"}
  /\ names \in Seq(Disks \cup Mappers) /\ table \in [Paths -> MountPoints \cup {None}]
  /\ cur \in Device \cup {None} /\ todo \in Seq(Partitions) /\ devs \in Seq(Device)

Dev(v)   == [dir |-> "dev", vol |-> v]
Found(p) == IF Direct(p) THEN FromMount(p, table[Dev(p)]) ELSE holderPartition(p)

LEMMA TypeParts == TypeOK <=> KernelType /\ CallType
BY DEF TypeOK, KernelType, CallType

\* The three kinds of volumes have no name in common.
LEMMA Kinds ==
  /\ Disks \cap Mappers = {} /\ Partitions \cap (Disks \cup Mappers) = {}
  /\ Named \subseteq Mappers /\ Holdable = Partitions \cup Mappers
  /\ Volumes = Disks \cup Partitions \cup Mappers
  /\ \A v \in Volumes : Dev(v) \in Paths
  /\ \A v \in Named : [dir |-> "mapper", vol |-> v] \in Paths
  /\ \A path \in Paths :
       /\ path.vol \in Volumes
       /\ \/ path = Dev(path.vol)
          \/ path.vol \in Named /\ path = [dir |-> "mapper", vol |-> path.vol]
  /\ None \notin Volumes /\ None \notin MountPoints
<1>1. /\ Disks \cap Mappers = {} /\ Partitions \cap (Disks \cup Mappers) = {}
      /\ Named \subseteq Mappers /\ None \notin Volumes /\ None \notin MountPoints
  BY StorageAssumption DEF Disks, Mappers
<1>2. Holdable = Partitions \cup Mappers /\ Volumes = Disks \cup Partitions \cup Mappers
  BY DEF Holdable, Volumes
<1>3. \A v \in Volumes : Dev(v) \in Paths
  BY DEF Paths, Dev
<1>4. \A v \in Named : [dir |-> "mapper", vol |-> v] \in Paths
  BY DEF Paths
<1>5. ASSUME NEW path \in Paths
      PROVE  /\ path.vol \in Volumes
             /\ \/ path = Dev(path.vol)
                \/ path.vol \in Named /\ path = [dir |-> "mapper", vol |-> path.vol]
  <2>1. CASE path \in [dir : {"dev"}, vol : Volumes]
    BY <2>1 DEF Dev
  <2>2. CASE path \in [dir : {"mapper"}, vol : Named]
    BY <1>1, <1>2, <2>2
  <2> QED
    BY <2>1, <2>2 DEF Paths
<1>6. \A path \in Paths :
        /\ path.vol \in Volumes
        /\ \/ path = Dev(path.vol)
           \/ path.vol \in Named /\ path = [dir |-> "mapper", vol |-> path.vol]
  BY <1>5
<1> QED
  BY <1>1, <1>2, <1>3, <1>4, <1>6

\* A partition is one of one disk.
LEMMA OnItsDisk ==
  ASSUME NEW d \in Disks, NEW p \in PartsOf(d)
  PROVE  p \in Partitions /\ DiskOf(p) = d
<1>1. p \in Partitions /\ \E k \in DOMAIN Parts[d] : Parts[d][k] = p
  BY DEF PartsOf, Partitions
<1>2. \A c \in Disks : (\E k \in DOMAIN Parts[c] : Parts[c][k] = p) => c = d
  BY StorageAssumption DEF PartsOf
<1> QED
  BY <1>1, <1>2 DEF DiskOf

LEMMA DiskIsKnown ==
  ASSUME NEW p \in Partitions
  PROVE  DiskOf(p) \in Disks /\ p \in PartsOf(DiskOf(p))
BY DEF Partitions, DiskOf, PartsOf

\* For a volume left alone, the table has a mount point exactly if there is one.
LEMMA TableFinds ==
  ASSUME KernelType, CallType, TableInv, stage \in {"disk", "parts"},
         NEW v \in Volumes, v \notin touched
  PROVE  /\ Direct(v) => MountedAt(v, table[Dev(v)])
         /\ v \notin Mappers /\ IsMounted(v) => Direct(v)
         /\ v \in Mappers => /\ HolderMount(v) # None => MountedAt(v, HolderMount(v))
                             /\ IsMounted(v) => HolderMount(v) # None
<1>1. mounts \in Seq(Mounts)
  BY DEF KernelType
<1>2. ASSUME NEW path \in Paths, path.vol = v
      PROVE  /\ table[path] # None => MountedAt(v, table[path])
             /\ \A m \in Mounts : Mounted(m) /\ m.src = path => table[path] # None
  <2>1. IF table[path] = None THEN \A at \in MountPoints : ~Mounted([src |-> path, at |-> at])
                              ELSE Mounted([src |-> path, at |-> table[path]])
    BY <1>2 DEF TableInv
  <2>2. ASSUME table[path] # None PROVE MountedAt(v, table[path])
    <3>1. Mounted([src |-> path, at |-> table[path]])
      BY <2>1, <2>2
    <3> QED
      BY <1>2, <3>1 DEF Mounted, MountedAt
  <2>3. \A m \in Mounts : m.src = path => m = [src |-> path, at |-> m.at] /\ m.at \in MountPoints
    BY DEF Mounts
  <2> QED
    BY <2>1, <2>2, <2>3
<1>3. /\ Dev(v) \in Paths /\ Dev(v).vol = v
      /\ v \in Named => /\ [dir |-> "mapper", vol |-> v] \in Paths
                        /\ [dir |-> "mapper", vol |-> v].vol = v
  BY Kinds DEF Dev
<1>4. Direct(v) => MountedAt(v, table[Dev(v)])
  BY <1>2, <1>3 DEF Direct, Dev
<1>5. ASSUME IsMounted(v)
      PROVE  Direct(v) \/ Mapped(v)
  <2>1. PICK m \in Mounts : Mounted(m) /\ m.src.vol = v
    BY <1>1, <1>5, MountedAtIs
  <2>2. m.src \in Paths
    BY DEF Mounts
  <2>3. m.src = Dev(v) \/ (v \in Named /\ m.src = [dir |-> "mapper", vol |-> v])
    BY <2>1, <2>2, Kinds
  <2> QED
    BY <1>2, <1>3, <2>1, <2>3 DEF Direct, Mapped, Dev
<1>6. v \notin Mappers => ~Mapped(v)
  BY Kinds DEF Mapped
<1>7. HolderMount(v) # None => MountedAt(v, HolderMount(v))
  BY <1>2, <1>3 DEF HolderMount, Mapped, Dev
<1>8. Direct(v) \/ Mapped(v) => HolderMount(v) # None
  BY DEF HolderMount, Mapped, Direct
<1> QED
  BY <1>4, <1>5, <1>6, <1>7, <1>8

\* The bar of an entry is that of the file system on top.
LEMMA TopIsOwn ==
  ASSUME KernelType, NEW v \in Volumes, NEW at, MountedAt(v, at), ~Stacked(at)
  PROVE  Top(at) = v
<1>1. mounts \in Seq(Mounts)
  BY DEF KernelType
<1>2. PICK m \in Mounts : Mounted(m) /\ m.at = at /\ Top(at) = m.src.vol
  BY <1>1, MountedAtIs, TopIsMounted
<1>3. MountedAt(m.src.vol, at) /\ m.src.vol \in Volumes
  BY <1>1, <1>2, MountedAtIs, Kinds DEF Mounts
<1> QED
  BY <1>2, <1>3 DEF Stacked

\* An entry built for a volume at a mount point.
LEMMA EntryMade ==
  ASSUME KernelType, NEW v \in Volumes, NEW at \in MountPoints, NEW e \in FromMount(v, at)
  PROVE  /\ e \in Entry /\ e.name = v /\ e.at = at /\ e.usage \in {None, Top(at)}
         /\ Failed(e) \subseteq MountPoints /\ (e.usage = None => e.at \in Failed(e))
<1>1. PICK u \in {None, Top(at)} : e = [name |-> v, at |-> at, usage |-> u]
  BY DEF FromMount
<1>2. Top(at) \in Volumes \cup {Parent}
  <2>1. CASE {k \in DOMAIN mounts : mounts[k].at = at} = {}
    BY <2>1 DEF Top
  <2>2. CASE {k \in DOMAIN mounts : mounts[k].at = at} # {}
    <3>1. mounts \in Seq(Mounts) /\ \A k \in DOMAIN mounts : mounts[k] \in Mounts
      BY ElementOfSeq, LenProperties DEF KernelType
    <3>2. \E m \in Mounts : Mounted(m) /\ m.at = at
      BY <2>2, <3>1 DEF Mounted
    <3> QED
      BY <3>1, <3>2, TopIsMounted, Kinds DEF Mounts
  <2> QED
    BY <2>1, <2>2
<1> QED
  BY <1>1, <1>2, Kinds DEF Entry, Failed

Right(e) ==
  /\ e \in Entry /\ Failed(e) \subseteq MountPoints
  /\ e.usage # None /\ Untouched({e.name, e.at}) /\ ~Stacked(e.at) => e.usage = e.name

\* A volume of which the table has a mount point is shown there.
LEMMA MountShown ==
  ASSUME KernelType, NEW v \in Volumes, NEW at \in MountPoints,
         v \notin touched => MountedAt(v, at), NEW e \in FromMount(v, at)
  PROVE  /\ Right(e) /\ e.name = v /\ e.at = at
         /\ v \notin touched => MountedAt(v, e.at)
         /\ e.at \in Failed(e) \/ e.usage # None
<1>1. /\ e \in Entry /\ e.name = v /\ e.at = at /\ e.usage \in {None, Top(at)}
      /\ Failed(e) \subseteq MountPoints /\ (e.usage = None => e.at \in Failed(e))
  BY EntryMade
<1>2. ASSUME e.usage # None, Untouched({e.name, e.at}), ~Stacked(e.at)
      PROVE  e.usage = e.name
  <2>1. MountedAt(v, at) /\ ~Stacked(at) /\ e.usage = Top(at)
    BY <1>1, <1>2 DEF Untouched
  <2> QED
    BY <1>1, <2>1, TopIsOwn
<1> QED
  BY <1>1, <1>2 DEF Right

LEMMA DirectShown ==
  ASSUME KernelType, CallType, TableInv, stage \in {"disk", "parts"},
         NEW v \in Volumes, Direct(v), NEW e \in FromMount(v, table[Dev(v)])
  PROVE  /\ Right(e) /\ e.name = v /\ (v \notin touched => MountedAt(v, e.at))
         /\ e.at \in Failed(e) \/ e.usage # None
<1>1. table[Dev(v)] \in MountPoints
  BY Kinds DEF CallType, Direct, Dev
<1>2. v \notin touched => MountedAt(v, table[Dev(v)])
  BY TableFinds
<1> QED
  BY <1>1, <1>2, MountShown

\* What is found of a partition.
LEMMA FoundShown ==
  ASSUME KernelType, CallType, KernelInv, TableInv, stage = "parts",
         NEW d \in Disks, NEW p \in PartsOf(d)
  PROVE  /\ \A e \in Found(p) : Right(e)
         /\ IsMounted(p) /\ p \notin touched =>
              /\ Found(p) # {}
              /\ \A e \in Found(p) : /\ e.name = p /\ MountedAt(p, e.at)
                                     /\ e.at \in Failed(e) \/ e.usage # None
         /\ Held(p) /\ d \in plugged /\ Untouched({p, d} \cup holders[p]) =>
              /\ Found(p) # {}
              /\ \A e \in Found(p) :
                   IF \E h \in holders[p] : IsMounted(h)
                   THEN e.name \in holders[p] /\ MountedAt(e.name, e.at)
                   ELSE e.name = p /\ e.at = None
<1> DEFINE hs == HoldersOf(p)
           on == {h \in hs : HolderMount(h) # None}
<1>1. p \in Partitions /\ DiskOf(p) = d /\ p \in Volumes /\ p \notin Mappers /\ p \in Holdable
  BY OnItsDisk, Kinds
<1>2. hs \in SUBSET Mappers /\ (d \in plugged => hs = holders[p])
  BY <1>1 DEF HoldersOf, KernelType
<1>3. CASE Direct(p)
  <2>1. Found(p) = FromMount(p, table[Dev(p)]) /\ Found(p) # {}
    BY <1>3 DEF Found, FromMount
  <2>2. \A e \in Found(p) : /\ Right(e) /\ e.name = p /\ (p \notin touched => MountedAt(p, e.at))
                            /\ e.at \in Failed(e) \/ e.usage # None
    BY <1>1, <1>3, <2>1, DirectShown
  <2>3. Held(p) => p \in touched
    <3>1. p \notin touched => MountedAt(p, table[Dev(p)])
      BY <1>1, <1>3, TableFinds
    <3>2. \A at : MountedAt(p, at) => ~Held(p)
      BY MountedAtIs DEF KernelInv, KernelType
    <3> QED
      BY <3>1, <3>2
  <2> QED
    BY <2>1, <2>2, <2>3 DEF Untouched
<1>4. CASE ~Direct(p)
  <2>1. /\ IsMounted(p) => p \in touched
        /\ Found(p) = holderPartition(p)
    BY <1>1, <1>4, TableFinds DEF Found
  <2>2. CASE hs = {}
    BY <1>2, <2>1, <2>2 DEF holderPartition, Held
  <2>3. CASE hs # {} /\ on = {}
    <3>1. Found(p) = {[name |-> p, at |-> None, usage |-> None]}
      BY <2>1, <2>3 DEF holderPartition
    <3>2. \A e \in Found(p) : Right(e) /\ e.name = p /\ e.at = None
      BY <1>1, <3>1 DEF Right, Entry, Failed
    <3>3. d \in plugged /\ Untouched(holders[p]) => ~ \E h \in holders[p] : IsMounted(h)
      <4> SUFFICES ASSUME d \in plugged, NEW h \in holders[p], h \notin touched
                   PROVE  ~IsMounted(h)
        BY DEF Untouched
      <4>1. h \in hs /\ h \in Mappers /\ h \in Volumes /\ HolderMount(h) = None
        BY <1>2, <2>3, Kinds
      <4> QED
        BY <4>1, TableFinds
    <3> QED
      BY <2>1, <3>1, <3>2, <3>3 DEF Untouched
  <2>4. CASE on # {}
    <3> DEFINE h == First(on)
    <3>1. h \in on /\ h \in hs /\ h \in Mappers /\ h \in Volumes
      BY <1>2, <2>4, FirstOf, Kinds
    <3>2. Found(p) = FromMount(h, HolderMount(h))
      BY <2>1, <2>4 DEF holderPartition, Alt
    <3>3. HolderMount(h) \in MountPoints
      BY <3>1, Kinds DEF HolderMount, CallType, Mapped, Dev
    <3>4. h \notin touched => MountedAt(h, HolderMount(h))
      BY <3>1, TableFinds
    <3> HIDE DEF h
    <3>5. \A e \in Found(p) : Right(e) /\ e.name = h /\ (h \notin touched => MountedAt(h, e.at))
      BY <3>1, <3>2, <3>3, <3>4, MountShown
    <3>6. Found(p) # {}
      BY <3>2 DEF FromMount
    <3>7. \A at : MountedAt(h, at) => IsMounted(h)
      BY DEF MountedAt, IsMounted
    <3> QED
      BY <1>2, <2>1, <3>1, <3>5, <3>6, <3>7 DEF Untouched
  <2> QED
    BY <2>2, <2>3, <2>4
<1> QED
  BY <1>3, <1>4
-----------------------------------------------------------------------------
(* The steps *)

\* A step that leaves the call where it is.
LEMMA CallKept ==
  ASSUME Inv, Steady, KernelType', KernelInv', UNCHANGED callVars
  PROVE  Inv'
<1>1. KernelType /\ CallType /\ TypeOK'
  BY TypeParts DEF Inv, TypeOK, KernelType, callVars
<1>2. TableInv'
  BY <1>1, TableKept DEF Inv, callVars
<1>3. NamesInv'
  BY DEF Inv, NamesInv, Steady, callVars, InOrder
<1>4. EntriesInv'
  <2>1. PICK c, left : c = cur /\ left = PartsOf(cur.name) \ {todo[k] : k \in DOMAIN todo}
    OBVIOUS
  <2>2. stage = "parts" => Shows(c, left)'
    BY <1>1, <2>1, ShowsKept DEF Inv, EntriesInv
  <2>3. \A d, vols : Shows(d, vols) => Shows(d, vols)'
    BY <1>1, ShowsKept
  <2> QED
    BY <2>1, <2>2, <2>3 DEF Inv, EntriesInv, callVars, PartsOf
<1> QED
  BY <1>1, <1>2, <1>3, <1>4 DEF Inv

LEMMA ListDisksStep ==
  ASSUME Inv, ListDisks
  PROVE  Inv'
<1>1. KernelType /\ CallType /\ KernelInv
  BY TypeParts DEF Inv
<1>2. stage = "idle" /\ names = <<>> /\ devs = <<>> /\ UNCHANGED <<table, cur, todo, devs>>
  BY DEF ListDisks, Inv, NamesInv
<1>3. CASE /\ names' \in ReadDir({n \in Disks \cup Mappers : Exists(n) /\ ~isPseudoBlockDevice(n)})
           /\ stage' = "mounts" /\ Idle
  <2> DEFINE S == {n \in Disks \cup Mappers : Exists(n) /\ ~isPseudoBlockDevice(n)}
  <2>1. KernelType' /\ KernelInv' /\ touched' = touched /\ plugged' = plugged
    BY <1>1, <1>3, ReadStep DEF Idle, Read, kernelVars
  <2>2. S = plugged
    <3>1. \A n \in Disks : n \notin Pseudo /\ (Exists(n) <=> n \in plugged)
      <4> SUFFICES ASSUME NEW n \in Disks PROVE n \notin Pseudo /\ (Exists(n) <=> n \in plugged)
        OBVIOUS
      <4>1. n \notin Pseudo /\ n \notin Partitions
        BY Kinds DEF Disks
      <4> QED
        BY <4>1 DEF Exists
    <3>2. \A n \in Mappers : n \in Pseudo
      BY DEF Mappers
    <3> QED
      BY <1>1, <3>1, <3>2 DEF KernelType, isPseudoBlockDevice
  <2>3. names' \in Seq(S) /\ InOrder(names') /\ \A x \in S : \E k \in DOMAIN names' : names'[k] = x
    BY <1>3, ReadDirLists
  <2> HIDE DEF S
  <2>4. \A k \in DOMAIN names' : names'[k] \in plugged
    BY <2>2, <2>3
  <2>5. plugged \subseteq Disks
    BY <1>1 DEF KernelType
  <2>6. CallType'
    BY <1>1, <1>2, <1>3, <2>2, <2>3, <2>5 DEF CallType
  <2>7. NamesInv'
    BY <1>2, <1>3, <2>1, <2>2, <2>3, <2>4, <2>5 DEF NamesInv, InOrder
  <2>8. TypeOK'
    BY <2>1, <2>6 DEF TypeOK, KernelType, CallType
  <2> QED
    BY <1>2, <1>3, <2>1, <2>7, <2>8 DEF Inv, TableInv, EntriesInv
<1>4. CASE UNCHANGED names /\ stage' = "done" /\ Unread
  <2>1. /\ KernelType' /\ KernelInv' /\ plugged' \subseteq touched'
    BY <1>1, <1>4, ReadStep DEF Unread, KernelType, Volumes
  <2>2. TypeOK'
    BY <1>1, <1>2, <1>4, <2>1 DEF TypeOK, KernelType, CallType
  <2>3. NamesInv'
    BY <1>2, <1>4, <2>1 DEF NamesInv, InOrder
  <2> QED
    BY <1>2, <1>4, <2>1, <2>2, <2>3 DEF Inv, TableInv, EntriesInv
<1> QED
  BY <1>3, <1>4 DEF ListDisks

LEMMA readMountsStep ==
  ASSUME Inv, readMounts
  PROVE  Inv'
<1>1. KernelType /\ CallType /\ KernelInv
  BY TypeParts DEF Inv
<1>2. /\ stage = "mounts" /\ stage' = "disk" /\ devs = <<>> /\ UNCHANGED <<names, cur, todo, devs>>
  BY DEF readMounts, Inv, NamesInv
<1>3. mounts \in Seq(Mounts) /\ None \notin MountPoints
  BY <1>1, Kinds DEF KernelType
<1>4. /\ table' \in [Paths -> MountPoints \cup {None}] /\ TableInv'
      /\ Steady /\ KernelType' /\ KernelInv'
  <2>1. CASE table' = [path \in Paths |-> FirstMount(path)] /\ Idle
    <3>1. Steady /\ KernelType' /\ KernelInv' /\ touched' = touched /\ mounts' = mounts
      BY <1>1, <2>1, ReadStep DEF Idle, Read, kernelVars
    <3>2. \A path \in Paths :
            IF FirstMount(path) = None
            THEN \A at \in MountPoints : ~Mounted([src |-> path, at |-> at])
            ELSE /\ FirstMount(path) \in MountPoints
                 /\ Mounted([src |-> path, at |-> FirstMount(path)])
      BY <1>3, FirstIsMounted
    <3>3. table' \in [Paths -> MountPoints \cup {None}]
      BY <2>1, <3>2
    <3>4. \A x : Mounted(x)' <=> Mounted(x)
      BY <3>1 DEF Mounted
    <3>5. TableInv'
      BY <2>1, <3>2, <3>4 DEF TableInv
    <3> QED
      BY <3>1, <3>3, <3>5
  <2>2. CASE table' = [path \in Paths |-> None] /\ Unread
    <3>1. Steady /\ KernelType' /\ KernelInv' /\ touched' = touched \cup Volumes \cup MountPoints
      BY <1>1, <2>2, ReadStep DEF Unread
    <3>2. \A path \in Paths : path.vol \in touched'
      BY <3>1, Kinds
    <3> QED
      BY <2>2, <3>1, <3>2 DEF TableInv
  <2> QED
    BY <2>1, <2>2 DEF readMounts
<1>5. TypeOK'
  BY <1>1, <1>2, <1>4 DEF TypeOK, KernelType, CallType
<1>6. NamesInv'
  BY <1>2, <1>4 DEF Inv, NamesInv, Steady, InOrder
<1> QED
  BY <1>2, <1>4, <1>5, <1>6 DEF Inv, EntriesInv

\* One element taken from the front, and one put at the end.
LEMMA TailOf ==
  ASSUME NEW S, NEW s \in Seq(S), s # <<>>
  PROVE  /\ 1 \in DOMAIN s /\ s[1] = Head(s) /\ Tail(s) \in Seq(S)
         /\ \A k \in DOMAIN Tail(s) : k + 1 \in DOMAIN s /\ Tail(s)[k] = s[k + 1] /\ 1 < k + 1
         /\ \A k \in DOMAIN s :
              k = 1 \/ (k - 1 \in DOMAIN Tail(s) /\ Tail(s)[k - 1] = s[k])
<1>1. /\ Len(s) \in Nat /\ Len(s) >= 1 /\ DOMAIN s = 1..Len(s)
      /\ Tail(s) \in Seq(S) /\ Len(Tail(s)) = Len(s) - 1
      /\ \A k \in 1..(Len(s) - 1) : Tail(s)[k] = s[k + 1]
      /\ Head(s) = s[1]
  BY HeadTailProperties, LenProperties, EmptySeq
<1>2. DOMAIN Tail(s) = 1..(Len(s) - 1)
  BY <1>1, LenProperties
<1> QED
  BY <1>1, <1>2

LEMMA AppendOf ==
  ASSUME NEW S, NEW s \in Seq(S), NEW x \in S
  PROVE  /\ Append(s, x) \in Seq(S) /\ Append(s, x) # <<>>
         /\ DOMAIN s = 1..Len(s) /\ Len(s) \in Nat
         /\ DOMAIN Append(s, x) = 1..(Len(s) + 1) /\ Append(s, x)[Len(s) + 1] = x
         /\ \A k \in 1..Len(s) : Append(s, x)[k] = s[k]
         /\ {Append(s, x)[k] : k \in DOMAIN Append(s, x)} = {s[k] : k \in DOMAIN s} \cup {x}
<1>1. /\ Append(s, x) \in Seq(S) /\ Len(s) \in Nat /\ DOMAIN s = 1..Len(s)
      /\ Len(Append(s, x)) = Len(s) + 1 /\ Append(s, x)[Len(s) + 1] = x
      /\ \A k \in 1..Len(s) : Append(s, x)[k] = s[k]
  BY AppendProperties, LenProperties
<1>2. DOMAIN Append(s, x) = 1..(Len(s) + 1)
  BY <1>1, LenProperties
<1> QED
  BY <1>1, <1>2, EmptySeq

LEMMA OpenDiskStep ==
  ASSUME Inv, OpenDisk
  PROVE  Inv'
<1>1. KernelType /\ CallType /\ KernelInv /\ NamesInv /\ TableInv
  BY TypeParts DEF Inv
<1>2. PICK d : d = Head(names)
  OBVIOUS
<1>3. /\ stage = "disk" /\ stage' = "parts" /\ names # <<>> /\ names' = Tail(names)
      /\ cur' = [name |-> d, usb |-> d \in plugged \cap Usb,
                 removable |-> d \in plugged \cap Removable, parts |-> <<>>]
      /\ todo' = IF d \in plugged THEN Parts[d] ELSE <<>>
      /\ Idle /\ UNCHANGED <<table, devs>>
  BY <1>2 DEF OpenDisk
<1>4. /\ Steady /\ KernelType' /\ KernelInv' /\ touched' = touched /\ plugged' = plugged
  BY <1>1, <1>3, ReadStep DEF Idle, Read, kernelVars
<1>5. /\ 1 \in DOMAIN names /\ names[1] = d
      /\ names' \in Seq(Disks \cup Mappers)
      /\ \A k \in DOMAIN names' : k + 1 \in DOMAIN names /\ names'[k] = names[k + 1] /\ 1 < k + 1
      /\ \A k \in DOMAIN names : k = 1 \/ (k - 1 \in DOMAIN names' /\ names'[k - 1] = names[k])
  BY <1>1, <1>2, <1>3, TailOf DEF CallType
<1>6. d \in Disks /\ (d \in plugged \/ d \in touched)
  BY <1>1, <1>5 DEF NamesInv
<1>7. Parts[d] \in Seq(Partitions) /\ <<>> \in Seq(Partitions) /\ <<>> \in Seq(Entry)
  BY <1>6, StorageAssumption
<1>8. cur' \in Device
  BY <1>3, <1>6, <1>7 DEF Device
<1>9. TypeOK'
  BY <1>1, <1>3, <1>4, <1>5, <1>7, <1>8 DEF TypeOK, KernelType, CallType
<1>10. TableInv'
  BY <1>1, <1>3, <1>4, TableKept
<1>11. NamesInv'
  <2>1. \A k \in DOMAIN names' : /\ NameBefore(d, names'[k])
                                 /\ names'[k] \in Disks /\ names'[k] \in plugged \cup touched
                                 /\ \A j \in DOMAIN devs : NameBefore(devs[j].name, names'[k])
    BY <1>1, <1>5 DEF NamesInv, InOrder
  <2>2. \A j \in DOMAIN devs : NameBefore(devs[j].name, d)
    BY <1>1, <1>5 DEF NamesInv
  <2>3. InOrder(names')
    <3> SUFFICES ASSUME NEW j \in DOMAIN names', NEW k \in DOMAIN names', j < k
                 PROVE  NameBefore(names'[j], names'[k])
      BY DEF InOrder
    <3>1. j \in Nat /\ k \in Nat
      BY <1>5, LenProperties
    <3>2. j + 1 < k + 1
      BY <3>1
    <3> QED
      BY <1>1, <1>5, <3>2 DEF NamesInv, InOrder
  <2>4. \A c \in plugged \ touched : \/ \E k \in DOMAIN names' : names'[k] = c
                                     \/ d = c
                                     \/ \E k \in DOMAIN devs : devs[k].name = c
    <3> SUFFICES ASSUME NEW c \in plugged \ touched, NEW k \in DOMAIN names, names[k] = c
                 PROVE  d = c \/ \E j \in DOMAIN names' : names'[j] = c
      BY <1>1, <1>3 DEF NamesInv
    <3> QED
      BY <1>5
  <2>5. cur'.name = d /\ \A k \in DOMAIN todo' : todo'[k] \in PartsOf(d)
    BY <1>3 DEF PartsOf
  <2>6. \A j, k \in DOMAIN devs : j < k => NameBefore(devs[j].name, devs[k].name)
    BY <1>1, <1>3 DEF NamesInv
  <2> QED
    BY <1>3, <1>4, <1>8, <2>1, <2>2, <2>3, <2>4, <2>5, <2>6 DEF NamesInv, InOrder, PartsOf
<1>12. EntriesInv'
  <2>1. \A c, vols : Shows(c, vols) => Shows(c, vols)'
    BY <1>1, <1>4, ShowsKept
  <2>2. PICK c, left : c = cur' /\ left = (PartsOf(cur.name) \ {todo[k] : k \in DOMAIN todo})'
    OBVIOUS
  <2>3. c.name = d /\ c.parts = <<>> /\ Entries(c) = {}
    BY <1>3, <2>2 DEF Entries
  <2>4. left \subseteq PartsOf(d) /\ (d \in plugged => left = {})
    BY <1>3, <2>2 DEF PartsOf
  <2>5. Attributes(c) /\ OwnUsage(c)
    BY <1>3, <1>6, <2>2, <2>3 DEF Attributes, OwnUsage
  <2>6. \A v \in left : ShowsMounted(c, v) /\ ShowsHeld(c, v)
    BY <2>3, <2>4 DEF ShowsMounted, ShowsHeld
  <2>7. Shows(c, left)'
    BY <2>1, <2>5, <2>6 DEF Shows
  <2>8. cur'.parts = <<>>
    BY <1>3
  <2> QED
    BY <1>3, <2>1, <2>2, <2>7, <2>8 DEF Inv, EntriesInv, PartsOf
<1> QED
  BY <1>4, <1>9, <1>10, <1>11, <1>12 DEF Inv

\* One more entry that is right leaves the list right.
LEMMA MoreShown ==
  ASSUME NEW c, NEW d, NEW e, NEW vols, Shows(c, vols), Right(e),
         d.name = c.name, d.usb = c.usb, d.removable = c.removable,
         Entries(d) = Entries(c) \cup {e}
  PROVE  Shows(d, vols)
<1>1. Attributes(d) /\ OwnUsage(d)
  BY DEF Shows, Attributes, OwnUsage, Right
<1>2. \A v : ShowsMounted(c, v) => ShowsMounted(d, v)
  BY DEF ShowsMounted
<1>3. \A p : ShowsHeld(c, p) => ShowsHeld(d, p)
  BY DEF ShowsHeld
<1> QED
  BY <1>1, <1>2, <1>3 DEF Shows

LEMMA AnEntryMore ==
  ASSUME NEW c \in Device, NEW e \in Entry, NEW d, d = [c EXCEPT !.parts = Append(@, e)]
  PROVE  /\ d \in Device /\ d.name = c.name /\ d.usb = c.usb /\ d.removable = c.removable
         /\ d.parts # <<>> /\ Entries(d) = Entries(c) \cup {e}
<1>1. c.parts \in Seq(Entry) /\ d.parts = Append(c.parts, e)
  BY DEF Device
<1>2. d.parts \in Seq(Entry) /\ d.parts # <<>> /\ Entries(d) = Entries(c) \cup {e}
  BY <1>1, AppendOf DEF Entries
<1> QED
  BY <1>2 DEF Device

LEMMA ScanPartitionStep ==
  ASSUME Inv, ScanPartition
  PROVE  Inv'
<1>1. KernelType /\ CallType /\ KernelInv /\ NamesInv /\ TableInv /\ EntriesInv
  BY TypeParts DEF Inv
<1>2. PICK c, p, rest : /\ c = cur /\ p = Head(todo)
                        /\ rest = PartsOf(cur.name) \ {todo[k] : k \in DOMAIN todo}
  OBVIOUS
<1>3. /\ stage = "parts" /\ todo # <<>> /\ todo' = Tail(todo)
      /\ UNCHANGED <<stage, names, table, devs>>
      /\ \/ Found(p) = {} /\ cur' = c /\ Idle
         \/ \E e \in Found(p) : cur' = [c EXCEPT !.parts = Append(@, e)] /\ Read(Failed(e))
  BY <1>2 DEF ScanPartition, Found, Dev
<1>4. c \in Device /\ c.name \in Disks
  BY <1>1, <1>2, <1>3 DEF NamesInv, Device
<1>5. /\ p \in PartsOf(c.name) /\ todo' \in Seq(Partitions)
      /\ \A k \in DOMAIN todo' : todo'[k] \in PartsOf(c.name)
      /\ PartsOf(c.name) \ {todo'[k] : k \in DOMAIN todo'} \subseteq rest \cup {p}
  <2>1. todo \in Seq(Partitions) /\ cur = c /\ \A k \in DOMAIN todo : todo[k] \in PartsOf(c.name)
    BY <1>1, <1>2, <1>3 DEF CallType, NamesInv
  <2>2. /\ 1 \in DOMAIN todo /\ todo[1] = p /\ todo' \in Seq(Partitions)
        /\ \A k \in DOMAIN todo' : \E j \in DOMAIN todo : todo'[k] = todo[j]
        /\ \A k \in DOMAIN todo : todo[k] = p \/ \E j \in DOMAIN todo' : todo'[j] = todo[k]
    <3>1. /\ 1 \in DOMAIN todo /\ todo[1] = p /\ todo' \in Seq(Partitions)
          /\ \A k \in DOMAIN todo' : k + 1 \in DOMAIN todo /\ todo'[k] = todo[k + 1]
          /\ \A k \in DOMAIN todo :
               k = 1 \/ (k - 1 \in DOMAIN todo' /\ todo'[k - 1] = todo[k])
      BY <1>2, <1>3, <2>1, TailOf
    <3>2. \A k \in DOMAIN todo' : \E j \in DOMAIN todo : todo'[k] = todo[j]
      BY <3>1
    <3>3. \A k \in DOMAIN todo : todo[k] = p \/ \E j \in DOMAIN todo' : todo'[j] = todo[k]
      BY <3>1
    <3> QED
      BY <3>1, <3>2, <3>3
  <2> QED
    BY <1>2, <2>1, <2>2
<1>6. /\ \A e \in Found(p) : Right(e)
      /\ IsMounted(p) /\ p \notin touched =>
           /\ Found(p) # {}
           /\ \A e \in Found(p) : /\ e.name = p /\ MountedAt(p, e.at)
                                  /\ e.at \in Failed(e) \/ e.usage # None
      /\ Held(p) /\ c.name \in plugged /\ Untouched({p, c.name} \cup holders[p]) =>
           /\ Found(p) # {}
           /\ \A e \in Found(p) :
                IF \E h \in holders[p] : IsMounted(h)
                THEN e.name \in holders[p] /\ MountedAt(e.name, e.at)
                ELSE e.name = p /\ e.at = None
  BY <1>1, <1>3, <1>4, <1>5, FoundShown
<1>7. PICK d : d = cur'
  OBVIOUS
<1> DEFINE Scanned ==
             /\ d \in Device /\ d.name = c.name /\ Shows(d, rest)
             /\ Steady /\ KernelType' /\ KernelInv' /\ plugged' = plugged
             /\ d.parts = c.parts \/ Parts[c.name] # <<>>
             /\ IsMounted(p) /\ d.name \in plugged /\ Untouched({p, d.name}) =>
                  \E e \in Entries(d) : /\ e.name = p /\ MountedAt(p, e.at)
                                        /\ e.at \in touched' \/ e.usage # None
             /\ ShowsHeld(d, p)
<1>8. Scanned
  <2>1. Shows(c, rest)
    BY <1>1, <1>2, <1>3 DEF EntriesInv
  <2>2. CASE Found(p) = {} /\ cur' = c /\ Idle
    <3>1. Steady /\ KernelType' /\ KernelInv' /\ plugged' = plugged
      BY <1>1, <2>2, ReadStep DEF Idle, Read, kernelVars
    <3>2. ShowsHeld(d, p)
      BY <1>6, <1>7, <2>2 DEF ShowsHeld
    <3> QED
      BY <1>4, <1>6, <1>7, <2>1, <2>2, <3>1, <3>2 DEF Untouched
  <2>3. ASSUME NEW e \in Found(p), cur' = [c EXCEPT !.parts = Append(@, e)], Read(Failed(e))
        PROVE  Scanned
    <3>1. Right(e) /\ e \in Entry /\ Failed(e) \subseteq Volumes \cup MountPoints
      BY <1>6 DEF Right
    <3>2. /\ Steady /\ KernelType' /\ KernelInv' /\ plugged' = plugged
          /\ touched' = touched \cup Failed(e)
      BY <1>1, <2>3, <3>1, ReadStep DEF Read, kernelVars
    <3>3. /\ d \in Device /\ d.name = c.name /\ d.usb = c.usb /\ d.removable = c.removable
          /\ Entries(d) = Entries(c) \cup {e} /\ e \in Entries(d)
      BY <1>4, <1>7, <2>3, <3>1, AnEntryMore
    <3>4. Shows(d, rest)
      BY <2>1, <3>1, <3>3, MoreShown
    <3>5. ShowsHeld(d, p)
      BY <1>6, <3>3 DEF ShowsHeld
    <3>6. IsMounted(p) /\ Untouched({p, d.name}) =>
            e.name = p /\ MountedAt(p, e.at) /\ (e.at \in touched' \/ e.usage # None)
      BY <1>6, <3>2 DEF Untouched
    <3>7. Parts[c.name] # <<>>
      BY <1>5, EmptySeq DEF PartsOf
    <3> QED
      BY <3>2, <3>3, <3>4, <3>5, <3>6, <3>7
  <2> QED
    BY <1>3, <2>2, <2>3
<1>9. TypeOK'
  BY <1>1, <1>3, <1>5, <1>7, <1>8 DEF TypeOK, KernelType, CallType
<1>10. TableInv'
  BY <1>1, <1>3, <1>8, TableKept
<1>11. NamesInv'
  <2>1. cur' \in Device /\ cur'.name = cur.name
    BY <1>2, <1>7, <1>8
  <2>2. \A k \in DOMAIN todo' : todo'[k] \in PartsOf(cur'.name)
    BY <1>5, <1>7, <1>8
  <2> QED
    BY <1>1, <1>3, <1>8, <2>1, <2>2 DEF NamesInv, Steady, InOrder, PartsOf
<1>12. EntriesInv'
  <2>1. \A b, vols : Shows(b, vols) => Shows(b, vols)'
    BY <1>1, <1>8, ShowsKept
  <2>2. PICK left : left = (PartsOf(cur.name) \ {todo[k] : k \in DOMAIN todo})'
    OBVIOUS
  <2>3. left \subseteq rest \cup {p} /\ p \in Partitions
    BY <1>4, <1>5, <1>7, <1>8, <2>2, OnItsDisk DEF PartsOf
  <2>4. Shows(d, rest)' /\ ShowsMounted(d, p)' /\ ShowsHeld(d, p)'
    BY <1>1, <1>8, <2>1, <2>3, StillMounted, StillHeld
  <2>5. Shows(d, left)'
    BY <2>3, <2>4 DEF Shows
  <2>6. d.parts # <<>> => Parts[d.name] # <<>>
    BY <1>1, <1>2, <1>3, <1>8 DEF EntriesInv
  <2>7. \A k \in DOMAIN devs : Shows(devs[k], {devs[k].name} \cup PartsOf(devs[k].name))'
    BY <1>1, <1>3, <2>1 DEF EntriesInv, PartsOf
  <2>8. /\ Shows(cur, PartsOf(cur.name) \ {todo[k] : k \in DOMAIN todo})'
        /\ cur'.parts # <<>> => Parts[cur'.name] # <<>>
    BY <1>7, <2>2, <2>5, <2>6
  <2> QED
    BY <1>3, <2>7, <2>8 DEF EntriesInv
<1> QED
  BY <1>8, <1>9, <1>10, <1>11, <1>12 DEF Inv

LEMMA CloseDiskStep ==
  ASSUME Inv, CloseDisk
  PROVE  Inv'
<1>1. KernelType /\ CallType /\ KernelInv /\ NamesInv /\ TableInv /\ EntriesInv
  BY TypeParts DEF Inv
<1>2. PICK c : c = cur
  OBVIOUS
<1>3. /\ stage = "parts" /\ todo = <<>> /\ stage' = "disk" /\ cur' = None
      /\ UNCHANGED <<names, table, todo>>
      /\ IF c.parts = <<>> /\ Direct(c.name)
         THEN \E e \in FromMount(c.name, table[Dev(c.name)]) :
                devs' = Append(devs, [c EXCEPT !.parts = <<e>>]) /\ Read(Failed(e))
         ELSE devs' = Append(devs, c) /\ Idle
  BY <1>2 DEF CloseDisk, Dev
<1>4. /\ c \in Device /\ c.name \in Disks /\ c.name \in Volumes /\ c.name \notin Mappers
      /\ c.name \notin Partitions
  BY <1>1, <1>2, <1>3, Kinds DEF NamesInv, Device
<1>5. Shows(c, PartsOf(c.name)) /\ (c.parts # <<>> => Parts[c.name] # <<>>)
  <2>1. PartsOf(cur.name) \ {todo[k] : k \in DOMAIN todo} = PartsOf(c.name)
    BY <1>2, <1>3
  <2> QED
    BY <1>1, <1>2, <1>3, <2>1 DEF EntriesInv
<1>6. IsMounted(c.name) /\ c.name \notin touched => c.parts = <<>> /\ Direct(c.name)
  <2>1. IsMounted(c.name) => Parts[c.name] = <<>>
    BY <1>1, <1>4, MountedAtIs DEF KernelInv, KernelType
  <2> QED
    BY <1>1, <1>3, <1>4, <1>5, <2>1, TableFinds
<1> DEFINE Closed(d) ==
             /\ devs' = Append(devs, d)
             /\ d \in Device /\ d.name = c.name /\ Shows(d, PartsOf(c.name))
             /\ Steady /\ KernelType' /\ KernelInv' /\ plugged' = plugged
             /\ IsMounted(c.name) /\ d.name \in plugged /\ Untouched({c.name, d.name}) =>
                  \E e \in Entries(d) : /\ e.name = c.name /\ MountedAt(c.name, e.at)
                                        /\ e.at \in touched' \/ e.usage # None
<1>7. PICK d : Closed(d)
  <2>1. ASSUME c.parts = <<>>, Direct(c.name), NEW e \in FromMount(c.name, table[Dev(c.name)]),
               devs' = Append(devs, [c EXCEPT !.parts = <<e>>]), Read(Failed(e))
        PROVE  \E d : Closed(d)
    <3>1. /\ Right(e) /\ e.name = c.name /\ (c.name \notin touched => MountedAt(c.name, e.at))
          /\ e.at \in Failed(e) \/ e.usage # None
      BY <1>1, <1>3, <1>4, <2>1, DirectShown
    <3>2. /\ Steady /\ KernelType' /\ KernelInv' /\ plugged' = plugged
          /\ touched' = touched \cup Failed(e)
      BY <1>1, <2>1, <3>1, ReadStep DEF Read, kernelVars, Right
    <3>3. PICK d : d = [c EXCEPT !.parts = Append(@, e)]
      OBVIOUS
    <3>4. /\ d \in Device /\ d.name = c.name /\ d.usb = c.usb /\ d.removable = c.removable
          /\ Entries(d) = Entries(c) \cup {e} /\ e \in Entries(d)
      BY <1>4, <3>1, <3>3, AnEntryMore DEF Right
    <3>5. Shows(d, PartsOf(c.name))
      BY <1>5, <3>1, <3>4, MoreShown
    <3>6. devs' = Append(devs, d)
      BY <1>4, <2>1, <3>3 DEF Device
    <3> QED
      BY <3>1, <3>2, <3>4, <3>5, <3>6 DEF Untouched
  <2>2. ASSUME ~(c.parts = <<>> /\ Direct(c.name)), devs' = Append(devs, c), Idle
        PROVE  Closed(c)
    <3>1. Steady /\ KernelType' /\ KernelInv' /\ plugged' = plugged
      BY <1>1, <2>2, ReadStep DEF Idle, Read, kernelVars
    <3> QED
      BY <1>4, <1>5, <1>6, <2>2, <3>1 DEF Untouched
  <2> QED
    BY <1>3, <2>1, <2>2
<1>8. /\ devs' \in Seq(Device) /\ DOMAIN devs = 1..Len(devs) /\ Len(devs) \in Nat
      /\ DOMAIN devs' = 1..(Len(devs) + 1) /\ devs'[Len(devs) + 1] = d
      /\ \A k \in 1..Len(devs) : devs'[k] = devs[k]
  BY <1>1, <1>7, AppendOf DEF CallType
<1>9. TypeOK'
  BY <1>1, <1>3, <1>7, <1>8 DEF TypeOK, KernelType, CallType
<1>10. TableInv'
  BY <1>1, <1>3, <1>7, TableKept
<1>11. NamesInv'
  <2>1. \A j \in DOMAIN devs' : \/ j \in DOMAIN devs /\ devs'[j] = devs[j]
                                \/ j = Len(devs) + 1 /\ devs'[j] = d
    BY <1>8
  <2>2. \A j \in DOMAIN devs', k \in DOMAIN names : NameBefore(devs'[j].name, names[k])
    BY <1>1, <1>2, <1>3, <1>7, <2>1 DEF NamesInv
  <2>3. \A j, k \in DOMAIN devs' : j < k => NameBefore(devs'[j].name, devs'[k].name)
    <3> SUFFICES ASSUME NEW j \in DOMAIN devs', NEW k \in DOMAIN devs', j < k
                 PROVE  NameBefore(devs'[j].name, devs'[k].name)
      OBVIOUS
    <3>1. j \in DOMAIN devs /\ devs'[j] = devs[j]
      BY <1>8
    <3>2. CASE k \in DOMAIN devs
      BY <1>1, <1>3, <1>8, <3>1, <3>2 DEF NamesInv
    <3>3. CASE devs'[k] = d
      BY <1>1, <1>2, <1>3, <1>7, <3>1, <3>3 DEF NamesInv
    <3> QED
      BY <2>1, <3>2, <3>3
  <2>4. \A x \in plugged \ touched : \/ \E k \in DOMAIN names : names[k] = x
                                     \/ \E k \in DOMAIN devs' : devs'[k].name = x
    <3>1. \E k \in DOMAIN devs' : devs'[k].name = c.name
      BY <1>7, <1>8
    <3>2. \A k \in DOMAIN devs : k \in DOMAIN devs' /\ devs'[k] = devs[k]
      BY <1>8
    <3> QED
      BY <1>1, <1>2, <1>3, <3>1, <3>2 DEF NamesInv
  <2>5. touched \subseteq touched'
    BY <1>7 DEF Steady
  <2> QED
    BY <1>1, <1>3, <1>7, <2>2, <2>3, <2>4, <2>5 DEF NamesInv, InOrder
<1>12. EntriesInv'
  <2>1. \A b, vols : Shows(b, vols) => Shows(b, vols)'
    BY <1>1, <1>7, ShowsKept
  <2>2. Shows(d, PartsOf(c.name))' /\ ShowsMounted(d, c.name)'
    BY <1>1, <1>7, <2>1, StillMounted
  <2>3. Shows(d, {c.name} \cup PartsOf(c.name))'
    BY <1>4, <2>2 DEF Shows
  <2>4. \A k \in DOMAIN devs :
          Shows(devs[k], {devs[k].name} \cup PartsOf(devs[k].name))
    BY <1>1 DEF EntriesInv
  <2>5. ASSUME NEW k \in DOMAIN devs'
        PROVE  Shows(devs[k], {devs[k].name} \cup PartsOf(devs[k].name))'
    <3>1. PICK b : b = devs'[k]
      OBVIOUS
    <3>2. Shows(b, {b.name} \cup PartsOf(b.name))'
      <4>1. CASE k \in DOMAIN devs
        <5>1. b = devs[k]
          BY <1>8, <3>1, <4>1
        <5>2. PICK W : W = {b.name} \cup PartsOf(b.name)
          OBVIOUS
        <5>3. Shows(b, W)
          BY <2>4, <4>1, <5>1, <5>2
        <5>4. Shows(b, W)'
          BY <2>1, <5>3
        <5> QED
          BY <5>2, <5>4 DEF PartsOf
      <4>2. CASE b = d
        BY <1>7, <2>3, <4>2 DEF PartsOf
      <4> QED
        BY <1>8, <3>1, <4>1, <4>2
    <3> QED
      BY <3>1, <3>2 DEF PartsOf
  <2> QED
    BY <1>3, <2>5 DEF EntriesInv
<1> QED
  BY <1>7, <1>9, <1>10, <1>11, <1>12 DEF Inv

\* The order of the list: total on disks with different names.
LEMMA BeforeIsOrder ==
  /\ \A a, b \in Device : a.name # b.name => Before(a, b) \/ Before(b, a)
  /\ \A a \in Device : ~Before(a, a)
  /\ \A a, b, c \in Device : Before(a, b) /\ Before(b, c) => Before(a, c)
  /\ \A a, b, c \in Device : Before(a, c) => Before(a, b) \/ Before(b, c)
<1>1. \A a \in Device : a.name \in Disks \cup Mappers /\ External(a) \in BOOLEAN
  BY DEF Device, External
<1>2. \A a, b \in Device : a.name # b.name => Before(a, b) \/ Before(b, a)
  BY <1>1, NameOrder DEF Before
<1>3. \A a \in Device : ~Before(a, a)
  BY NameOrder DEF Before
<1>4. \A a, b, c \in Device : Before(a, b) /\ Before(b, c) => Before(a, c)
  BY <1>1, NameOrder DEF Before
<1>5. \A a, b, c \in Device : Before(a, c) => Before(a, b) \/ Before(b, c)
  BY <1>1, NameOrder DEF Before
<1> QED
  BY <1>2, <1>3, <1>4, <1>5

LEMMA SortDisksStep ==
  ASSUME Inv, SortDisks
  PROVE  Inv'
<1>1. KernelType /\ CallType /\ KernelInv /\ NamesInv /\ TableInv /\ EntriesInv
  BY TypeParts DEF Inv
<1> DEFINE less == [j \in DOMAIN devs |-> [k \in DOMAIN devs |-> Before(devs[j], devs[k])]]
<1>2. /\ stage = "disk" /\ names = <<>> /\ stage' = "done" /\ devs' = StableSort(devs, less)
      /\ Idle /\ UNCHANGED <<names, table, cur, todo>>
  BY DEF SortDisks
<1>3. /\ Steady /\ KernelType' /\ KernelInv' /\ touched' = touched /\ plugged' = plugged
  BY <1>1, <1>2, ReadStep DEF Idle, Read, kernelVars
<1>4. /\ devs \in Seq(Device) /\ DOMAIN devs = 1..Len(devs) /\ Len(devs) \in Nat
      /\ \A k \in DOMAIN devs : devs[k] \in Device
  BY <1>1, LenProperties, ElementOfSeq DEF CallType
<1>5. \A j, k \in DOMAIN devs : less[j][k] <=> Before(devs[j], devs[k])
  OBVIOUS
<1> HIDE DEF less
<1>6. StrictWeakOrder(less, DOMAIN devs)
  BY <1>4, <1>5, BeforeIsOrder DEF StrictWeakOrder
<1>7. devs' \in Seq(Device) /\ DOMAIN devs' = DOMAIN devs
  BY <1>2, <1>4, <1>6, StableSorts
<1>8. PICK p : SortedBy(less, DOMAIN devs, p) /\ \A k \in DOMAIN devs : devs'[k] = devs[p[k]]
  <2>1. \E p : /\ SortedBy(less, DOMAIN devs, p)
               /\ \A k \in DOMAIN devs : StableSort(devs, less)[k] = devs[p[k]]
    BY <1>4, <1>6, StableSorts
  <2> QED
    BY <1>2, <2>1
<1>9. /\ \A k \in DOMAIN devs : p[k] \in DOMAIN devs
      /\ \A j, k \in DOMAIN devs : j # k => p[j] # p[k]
      /\ \A i \in DOMAIN devs : \E k \in DOMAIN devs : p[k] = i
      /\ \A j, k \in DOMAIN devs : j < k => Earlier(less, p[j], p[k])
  BY <1>8 DEF SortedBy
<1>10. \A i, j \in DOMAIN devs : i # j => devs[i].name # devs[j].name
  <2> SUFFICES ASSUME NEW i \in DOMAIN devs, NEW j \in DOMAIN devs, i # j,
                      devs[i].name = devs[j].name
               PROVE  FALSE
    OBVIOUS
  <2>1. i < j \/ j < i
    BY <1>4
  <2>2. NameBefore(devs[i].name, devs[j].name) \/ NameBefore(devs[j].name, devs[i].name)
    BY <1>1, <1>2, <2>1 DEF NamesInv
  <2> QED
    BY <2>2, NameOrder
<1>11. \A j, k \in DOMAIN devs' : j < k =>
         devs'[j].name # devs'[k].name /\ Before(devs'[j], devs'[k])
  <2> SUFFICES ASSUME NEW j \in DOMAIN devs, NEW k \in DOMAIN devs, j < k
               PROVE  devs'[j].name # devs'[k].name /\ Before(devs'[j], devs'[k])
    BY <1>7
  <2>0. j # k
    BY <1>4
  <2>1. p[j] \in DOMAIN devs /\ p[k] \in DOMAIN devs /\ p[j] # p[k] /\ Earlier(less, p[j], p[k])
    BY <1>9, <2>0
  <2>2. devs[p[j]].name # devs[p[k]].name
    BY <1>10, <2>1
  <2>3. ~less[p[k]][p[j]] => less[p[j]][p[k]]
    BY <1>4, <1>5, <2>1, <2>2, BeforeIsOrder
  <2>4. less[p[j]][p[k]]
    BY <2>1, <2>3 DEF Earlier
  <2> QED
    BY <1>5, <1>8, <2>1, <2>2, <2>4
<1>12. TypeOK'
  BY <1>1, <1>2, <1>3, <1>7 DEF TypeOK, KernelType, CallType
<1>13. NamesInv'
  <2>1. \A c \in plugged \ touched : \E k \in DOMAIN devs' : devs'[k].name = c
    <3> SUFFICES ASSUME NEW i \in DOMAIN devs
                 PROVE  \E k \in DOMAIN devs' : devs'[k].name = devs[i].name
      BY <1>1, <1>2 DEF NamesInv
    <3>1. PICK k \in DOMAIN devs : p[k] = i
      BY <1>9
    <3> QED
      BY <1>7, <1>8, <3>1
  <2>2. DOMAIN names = {}
    BY <1>2
  <2> QED
    BY <1>2, <1>3, <1>11, <2>1, <2>2 DEF NamesInv, InOrder
<1>14. EntriesInv'
  <2>1. ASSUME NEW k \in DOMAIN devs'
        PROVE  Shows(devs[k], {devs[k].name} \cup PartsOf(devs[k].name))'
    <3>1. PICK b, W : b = devs'[k] /\ W = {b.name} \cup PartsOf(b.name)
      OBVIOUS
    <3>2. PICK i \in DOMAIN devs : b = devs[i]
      BY <1>7, <1>8, <1>9, <3>1
    <3>3. Shows(b, W)
      BY <1>1, <3>1, <3>2 DEF EntriesInv
    <3>4. Shows(b, W)'
      BY <1>1, <1>3, <3>3, ShowsKept
    <3> QED
      BY <3>1, <3>4 DEF PartsOf
  <2> QED
    BY <1>2, <2>1 DEF EntriesInv
<1> QED
  BY <1>2, <1>3, <1>12, <1>13, <1>14 DEF Inv, TableInv

LEMMA InitInv == Init => Inv
<1> SUFFICES ASSUME Init PROVE Inv
  OBVIOUS
<1>1. mounts \in Seq(Mounts)
  BY StorageAssumption DEF Init, MountLists
<1>2. \A k \in DOMAIN mounts : mounts[k] \in Mounts
  BY <1>1, ElementOfSeq, LenProperties
<1>3. TypeOK
  <2>1. table \in [Paths -> MountPoints \cup {None}]
    BY DEF Init
  <2> QED
    BY <1>1, <2>1, StorageAssumption DEF Init, TypeOK
<1>4. KernelInv
  BY DEF Init, KernelInv, Mounted, Mountable, Held
<1>5. NamesInv /\ TableInv /\ EntriesInv
  <2>1. devs = <<>> /\ names = <<>> /\ stage = "idle" /\ DOMAIN devs = {} /\ DOMAIN names = {}
    BY DEF Init
  <2> QED
    BY <2>1 DEF NamesInv, TableInv, EntriesInv, InOrder
<1> QED
  BY <1>3, <1>4, <1>5 DEF Inv

\* Whatever is plugged, mounted or held meanwhile, the call knows what it may
\* rely on: the order of the disks, the mount table and the entries are right
\* about everything that was left alone.
THEOREM Invariance == Spec => []Inv
<1>1. ASSUME Inv, [Next]_vars PROVE Inv'
  <2>1. CASE Kernel
    <3>1. KernelType /\ KernelInv
      BY <1>1, TypeParts DEF Inv
    <3>2. Steady /\ KernelType' /\ KernelInv' /\ UNCHANGED callVars
      BY <2>1, <3>1, KernelStep
    <3> QED
      BY <1>1, <3>2, CallKept
  <2>2. CASE ListDisks
    BY <1>1, <2>2, ListDisksStep
  <2>3. CASE readMounts
    BY <1>1, <2>3, readMountsStep
  <2>4. CASE OpenDisk
    BY <1>1, <2>4, OpenDiskStep
  <2>5. CASE ScanPartition
    BY <1>1, <2>5, ScanPartitionStep
  <2>6. CASE CloseDisk
    BY <1>1, <2>6, CloseDiskStep
  <2>7. CASE SortDisks
    BY <1>1, <2>7, SortDisksStep
  <2>8. CASE UNCHANGED vars
    <3>1. Read({}) /\ UNCHANGED callVars
      BY <2>8 DEF Read, vars, kernelVars
    <3>2. Steady /\ KernelType' /\ KernelInv'
      BY <1>1, <3>1, TypeParts, ReadStep DEF Inv
    <3> QED
      BY <1>1, <3>1, <3>2, CallKept
  <2> QED
    BY <1>1, <2>1, <2>2, <2>3, <2>4, <2>5, <2>6, <2>7, <2>8 DEF Next, CollectStorage, Returned
<1> QED
  BY <1>1, InitInv, PTL DEF Spec
-----------------------------------------------------------------------------
(* What the panel shows *)

\* One element put at the front.
LEMMA Preceded ==
  ASSUME NEW S, NEW x \in S, NEW t \in Seq(S), NEW s, s = <<x>> \o t
  PROVE  /\ 1 \in DOMAIN s /\ s[1] = x
         /\ \A k \in DOMAIN t : k + 1 \in DOMAIN s /\ s[k + 1] = t[k]
         /\ \A k \in DOMAIN s : k = 1 \/ (k - 1 \in DOMAIN t /\ s[k] = t[k - 1])
<1> DEFINE h == <<x>>
<1>1. h \in Seq(S) /\ Len(h) = 1 /\ h[1] = x
  OBVIOUS
<1>2. DOMAIN t = 1..Len(t) /\ Len(t) \in Nat
  BY LenProperties
<1> HIDE DEF h
<1>3. /\ s \in Seq(S) /\ Len(s) = 1 + Len(t)
      /\ \A k \in 1..(1 + Len(t)) : s[k] = IF k <= 1 THEN h[k] ELSE t[k - 1]
  <2>1. s = h \o t
    BY DEF h
  <2> QED
    BY <1>1, <2>1, ConcatProperties
<1>4. DOMAIN s = 1..(1 + Len(t))
  BY <1>3, LenProperties
<1> QED
  BY <1>1, <1>2, <1>3, <1>4

LEMMA PanelLines ==
  ASSUME CallType, NEW l
  PROVE  l \in Panel <=> \E i \in DOMAIN devs : \E e \in Entries(devs[i]) : l = EntryLine(devs[i], e)
<1>1. ASSUME NEW i \in DOMAIN devs
      PROVE  (\E k \in DOMAIN DiskLines(devs[i]) : /\ l = DiskLines(devs[i])[k]
                                                   /\ l.kind \in {"usage", "locked / no mount"})
               <=> \E e \in Entries(devs[i]) : l = EntryLine(devs[i], e)
  <2> PICK d : d = devs[i]
    OBVIOUS
  <2> DEFINE t == IF d.parts = <<>> THEN <<Header(d, "no mount")>>
                                    ELSE [k \in DOMAIN d.parts |-> EntryLine(d, d.parts[k])]
  <2>1. d.parts \in Seq(Entry) /\ DOMAIN d.parts = 1..Len(d.parts) /\ Len(d.parts) \in Nat
    <3>1. d \in Device
      BY ElementOfSeq, LenProperties DEF CallType
    <3> QED
      BY <3>1, LenProperties DEF Device
  <2>2. PICK S : /\ Header(d, Kind(d)) \in S /\ Header(d, "no mount") \in S
                 /\ \A k \in DOMAIN d.parts : EntryLine(d, d.parts[k]) \in S
    <3>1. /\ Header(d, Kind(d)) \in {Header(d, Kind(d)), Header(d, "no mount")}
                                      \cup {EntryLine(d, e) : e \in Entries(d)}
          /\ Header(d, "no mount") \in {Header(d, Kind(d)), Header(d, "no mount")}
                                      \cup {EntryLine(d, e) : e \in Entries(d)}
          /\ \A k \in DOMAIN d.parts :
               EntryLine(d, d.parts[k]) \in {Header(d, Kind(d)), Header(d, "no mount")}
                                              \cup {EntryLine(d, e) : e \in Entries(d)}
      BY DEF Entries
    <3> QED
      BY <3>1
  <2>3. d.parts = <<>> => DOMAIN t = {1} /\ t[1] = Header(d, "no mount")
    <3>1. ASSUME NEW x PROVE DOMAIN <<x>> = {1} /\ <<x>>[1] = x
      OBVIOUS
    <3> QED
      BY <3>1
  <2>4. d.parts # <<>> => /\ DOMAIN t = DOMAIN d.parts
                          /\ \A k \in DOMAIN t : t[k] = EntryLine(d, d.parts[k])
    OBVIOUS
  <2>5. t \in Seq(S)
    <3>1. CASE d.parts = <<>>
      <4>1. ASSUME NEW x \in S PROVE <<x>> \in Seq(S)
        OBVIOUS
      <4> QED
        BY <2>2, <3>1, <4>1
    <3>2. CASE d.parts # <<>>
      <4>1. DOMAIN t = 1..Len(d.parts) /\ \A k \in 1..Len(d.parts) : t[k] \in S
        BY <2>1, <2>2, <2>4, <3>2
      <4>2. t = [k \in 1..Len(d.parts) |-> t[k]]
        BY <2>1, <3>2
      <4> HIDE DEF t
      <4> QED
        BY <2>1, <4>1, <4>2
    <3> QED
      BY <3>1, <3>2
  <2>6. DiskLines(d) = <<Header(d, Kind(d))>> \o t
    BY DEF DiskLines
  <2> HIDE DEF t
  <2>8. /\ 1 \in DOMAIN DiskLines(d) /\ DiskLines(d)[1] = Header(d, Kind(d))
        /\ \A k \in DOMAIN t : k + 1 \in DOMAIN DiskLines(d) /\ DiskLines(d)[k + 1] = t[k]
        /\ \A k \in DOMAIN DiskLines(d) :
             k = 1 \/ (k - 1 \in DOMAIN t /\ DiskLines(d)[k] = t[k - 1])
    <3>1. PICK x, lines : x = Header(d, Kind(d)) /\ lines = DiskLines(d)
      OBVIOUS
    <3>2. x \in S /\ lines = <<x>> \o t
      BY <2>2, <2>6, <3>1
    <3>3. /\ 1 \in DOMAIN lines /\ lines[1] = x
          /\ \A k \in DOMAIN t : k + 1 \in DOMAIN lines /\ lines[k + 1] = t[k]
          /\ \A k \in DOMAIN lines : k = 1 \/ (k - 1 \in DOMAIN t /\ lines[k] = t[k - 1])
      BY <2>5, <3>2, Preceded
    <3> QED
      BY <3>1, <3>3
  <2>9. /\ Header(d, Kind(d)).kind \notin {"usage", "locked / no mount"}
        /\ Header(d, "no mount").kind \notin {"usage", "locked / no mount"}
        /\ \A e : EntryLine(d, e).kind \in {"usage", "locked / no mount"}
    BY DEF Header, Kind, EntryLine
  <2>10. ASSUME NEW k \in DOMAIN DiskLines(d), l = DiskLines(d)[k],
                l.kind \in {"usage", "locked / no mount"}
         PROVE  \E e \in Entries(d) : l = EntryLine(d, e)
    <3>1. k - 1 \in DOMAIN t /\ l = t[k - 1]
      BY <2>8, <2>9, <2>10
    <3>2. d.parts # <<>>
      BY <2>3, <2>9, <2>10, <3>1
    <3> QED
      BY <2>4, <3>1, <3>2 DEF Entries
  <2>11. ASSUME NEW e \in Entries(d), l = EntryLine(d, e)
         PROVE  \E k \in DOMAIN DiskLines(d) : /\ l = DiskLines(d)[k]
                                               /\ l.kind \in {"usage", "locked / no mount"}
    <3>1. PICK k \in DOMAIN d.parts : e = d.parts[k]
      BY DEF Entries
    <3>2. d.parts # <<>>
      BY <3>1
    <3>3. k \in DOMAIN t /\ t[k] = l
      BY <2>4, <2>11, <3>1, <3>2
    <3> QED
      BY <2>8, <2>9, <2>11, <3>3
  <2> QED
    BY <2>10, <2>11
<1>2. l \in Panel <=> \E i \in DOMAIN devs : \E k \in DOMAIN DiskLines(devs[i]) :
        l = DiskLines(devs[i])[k] /\ l.kind \in {"usage", "locked / no mount"}
  <2> DEFINE linesOf(i) == {DiskLines(devs[i])[k] : k \in DOMAIN DiskLines(devs[i])}
  <2>1. Panel = {x \in UNION {linesOf(i) : i \in DOMAIN devs} : x.kind \in {"usage", "locked / no mount"}}
    BY DEF Panel
  <2>2. l \in UNION {linesOf(i) : i \in DOMAIN devs} <=> \E i \in DOMAIN devs : l \in linesOf(i)
    <3> HIDE DEF linesOf
    <3> QED
      OBVIOUS
  <2>3. \A i : l \in linesOf(i) <=> \E k \in DOMAIN DiskLines(devs[i]) : l = DiskLines(devs[i])[k]
    OBVIOUS
  <2> HIDE DEF linesOf
  <2> QED
    BY <2>1, <2>2, <2>3
<1> QED
  BY <1>1, <1>2

\* storage.go:17-34: the state of the kernel and of the call has its type at
\* every point of a call; every entry belongs to a volume.
THEOREM TypeCorrect == Spec => []TypeOK
<1>1. Inv => TypeOK
  BY DEF Inv
<1> QED
  BY <1>1, Invariance, PTL

\* storage.go:37-39, 152-159: every disk that is left alone is in the list
\* once, and the disks left alone are in order, internal ones first.
THEOREM EveryDiskInOrder == Spec => []DisksInOrder
<1>1. Inv => DisksInOrder
  <2> SUFFICES ASSUME Inv, Done PROVE DisksInOrder
    BY DEF DisksInOrder
  <2>1. NamesInv /\ EntriesInv /\ stage = "done" /\ CallType /\ DOMAIN names = {}
    BY TypeParts DEF Inv, Done, NamesInv
  <2>2. \A d \in plugged : Undisturbed({d}) => \E k \in DOMAIN devs : devs[k].name = d
    BY <2>1 DEF NamesInv, Undisturbed
  <2>3. \A k \in DOMAIN devs : devs[k].name \notin touched =>
          (External(devs[k]) <=> devs[k].name \in Usb \cup Removable)
    BY <2>1 DEF EntriesInv, Shows, Attributes, External
  <2>4. ASSUME NEW j \in DOMAIN devs, NEW k \in DOMAIN devs, j < k
        PROVE  /\ devs[j].name # devs[k].name
               /\ Undisturbed({devs[j].name, devs[k].name}) =>
                    /\ devs[j].name \in Usb \cup Removable => devs[k].name \in Usb \cup Removable
                    /\ (devs[j].name \in Usb \cup Removable <=> devs[k].name \in Usb \cup Removable)
                         => NameBefore(devs[j].name, devs[k].name)
    <3>1. devs[j].name # devs[k].name /\ Before(devs[j], devs[k])
      BY <2>1, <2>4 DEF NamesInv
    <3>2. devs[j] \in Device /\ devs[k] \in Device
      BY <2>1, ElementOfSeq, LenProperties DEF CallType
    <3>3. External(devs[j]) \in BOOLEAN /\ External(devs[k]) \in BOOLEAN
      BY <3>2 DEF Device, External
    <3> QED
      BY <2>3, <3>1, <3>3 DEF Before, Undisturbed
  <2> QED
    BY <2>2, <2>4 DEF DisksInOrder
<1> QED
  BY <1>1, Invariance, PTL

\* storage.go:120-144: what is mounted and left alone has its line, with a
\* mount point of its own and a bar wherever statfs works.
THEOREM EveryMountShown == Spec => []MountedIsShown
<1>1. Inv => MountedIsShown
  <2> SUFFICES ASSUME Inv, Done, NEW v \in Disks \cup Partitions, IsMounted(v),
                      OwnDisk(v) \in plugged, Undisturbed({v, OwnDisk(v)})
               PROVE  \E l \in Panel : /\ l.disk = OwnDisk(v) /\ l.name = v /\ MountedAt(v, l.at)
                                       /\ l.at \in touched \/ l.kind = "usage"
    BY DEF MountedIsShown
  <2>1. NamesInv /\ EntriesInv /\ stage = "done" /\ CallType /\ DOMAIN names = {}
    BY TypeParts DEF Inv, Done, NamesInv
  <2>2. PICK i \in DOMAIN devs : devs[i].name = OwnDisk(v)
    BY <2>1 DEF NamesInv, Undisturbed
  <2>3. v \in {OwnDisk(v)} \cup PartsOf(OwnDisk(v))
    BY DiskIsKnown DEF OwnDisk
  <2>4. ShowsMounted(devs[i], v)
    BY <2>1, <2>2, <2>3 DEF EntriesInv, Shows
  <2>5. PICK e \in Entries(devs[i]) : /\ e.name = v /\ MountedAt(v, e.at)
                                      /\ e.at \in touched \/ e.usage # None
    BY <2>2, <2>4 DEF ShowsMounted, Undisturbed, Untouched
  <2>6. PICK l : l = EntryLine(devs[i], e)
    OBVIOUS
  <2>7. l \in Panel
    BY <2>1, <2>6, PanelLines
  <2>8. /\ l.disk = devs[i].name /\ l.name = e.name /\ l.at = e.at
        /\ e.usage # None => l.kind = "usage"
    BY <2>6 DEF EntryLine
  <2> QED
    BY <2>2, <2>5, <2>7, <2>8
<1> QED
  BY <1>1, Invariance, PTL

\* storage.go:169-198: a partition with holders is shown by the one that is
\* mounted, and as locked exactly if none is.
THEOREM EveryHeldShown == Spec => []HeldIsShown
<1>1. Inv => HeldIsShown
  <2> SUFFICES ASSUME Inv, Done, NEW p \in Partitions, Held(p), DiskOf(p) \in plugged,
                      Undisturbed({p, DiskOf(p)} \cup holders[p])
               PROVE  \E l \in Panel : l.disk = DiskOf(p) /\
                        IF \E h \in holders[p] : IsMounted(h)
                        THEN l.name \in holders[p] /\ MountedAt(l.name, l.at)
                        ELSE l.name = p /\ l.at = None
    BY DEF HeldIsShown
  <2>1. NamesInv /\ EntriesInv /\ stage = "done" /\ CallType /\ DOMAIN names = {}
    BY TypeParts DEF Inv, Done, NamesInv
  <2>2. PICK i \in DOMAIN devs : devs[i].name = DiskOf(p)
    BY <2>1 DEF NamesInv, Undisturbed
  <2>3. ShowsHeld(devs[i], p)
    BY <2>1, <2>2, DiskIsKnown DEF EntriesInv, Shows
  <2>4. PICK e \in Entries(devs[i]) :
          IF \E h \in holders[p] : IsMounted(h)
          THEN e.name \in holders[p] /\ MountedAt(e.name, e.at)
          ELSE e.name = p /\ e.at = None
    BY <2>2, <2>3 DEF ShowsHeld, Undisturbed, Untouched
  <2>5. PICK l : l = EntryLine(devs[i], e)
    OBVIOUS
  <2>6. l \in Panel
    BY <2>1, <2>5, PanelLines
  <2>7. l.disk = devs[i].name /\ l.name = e.name /\ l.at = e.at
    BY <2>5 DEF EntryLine
  <2> QED
    BY <2>2, <2>4, <2>6, <2>7
<1> QED
  BY <1>1, Invariance, PTL

\* storage.go:202-222: a bar is that of the volume it is named after, unless
\* something is or was mounted over it.
THEOREM EveryBarOwn == Spec => []UsageIsOwn
<1>1. Inv => UsageIsOwn
  <2> SUFFICES ASSUME Inv, Done, NEW l \in Panel, l.kind = "usage",
                      Undisturbed({l.name, l.at}), ~Stacked(l.at)
               PROVE  l.usage = l.name
    BY DEF UsageIsOwn
  <2>1. EntriesInv /\ CallType
    BY TypeParts DEF Inv
  <2>2. PICK i \in DOMAIN devs : \E e \in Entries(devs[i]) : l = EntryLine(devs[i], e)
    BY <2>1, PanelLines
  <2>3. PICK e \in Entries(devs[i]) : l = EntryLine(devs[i], e)
    BY <2>2
  <2>4. e.usage # None /\ l.name = e.name /\ l.at = e.at /\ l.usage = e.usage
    BY <2>3 DEF EntryLine
  <2> QED
    BY <2>1, <2>4 DEF EntriesInv, Shows, OwnUsage, Undisturbed, Untouched
<1> QED
  BY <1>1, Invariance, PTL
=============================================================================
