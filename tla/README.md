# dgx-monitor in TLA+

`dgx-monitor` is a terminal dashboard written in Go (`src/`, about 2500 lines,
no tests): one select loop that samples `/proc`, `/sys` and NVML once a second
and paints panels, and a modal dialog that controls Wi-Fi through `nmcli`. This
directory models the parts of it whose correctness depends on order, on
concurrency or on state kept between two calls; model-checks them on small
instances; and proves their safety properties for instances of every size.

## 1. The program

| Component | Source | State it keeps | Operations | Talks to |
|---|---|---|---|---|
| Main event loop | `main.go:688-745` | `wifiAvailable`, the ticker | one event per iteration: key, resize, result, tick | dialog, update, termui |
| Wi-Fi dialog | `wifi_ui.go` | `mode`, interface, scan list, password buffer, pending network, message, two shared widgets, `OpCh` | `Open`, `Close`, `HandleEvent`, `HandleResult`, `Render`, `beginScan/Connect/Op` | goroutines through `OpCh`; loop by calls |
| nmcli operations | `wifi.go` | none | scan, connect, disconnect, reconnect, radio | one goroutine per operation |
| Dashboard update | `main.go:141-147, 360-685` | histories, current and peak values, storage list and its age | `update` | every collector, termui |
| CPU usage | `cpu.go:12-161` | `prevCPUSamples` | `CollectCPU` | `/proc/stat`, cpufreq |
| Memory | `cpu.go:163-200` | none | `CollectSysMem` | `/proc/meminfo` |
| Network rates | `net.go:15-215` | `prevNetSamples` | `CollectNet` | `/proc/net/dev`, `/sys/class/net` |
| Local and public IP | `net.go:217-306` | `publicIPCache` (atomic) | `LocalIP`, `PublicIP`, background refresher | HTTP |
| TCP connections | `net_connections.go:1-166` | none | `CollectConnections` | `/proc/net/tcp`, `tcp6` |
| Reverse DNS | `net_connections.go:168-208` | `dnsCache`, `dnsInProgress` (two `sync.Map`s) | `ResolveAsync` and its goroutine | resolver |
| Storage discovery | `storage.go` | none (the list is kept by update) | `CollectStorage` | `/sys/block`, `/proc/mounts`, `statfs` |
| GPU collector | `gpu.go` | NVML handle | `Collect` | NVML |
| Layout and texts | `main.go`, `wifi_ui.go` | widgets | bars, gauges, columns, formats | termui |

What is hard about it, and what would make each part correct:

* **Dialog** (`WifiModal`). nmcli runs in goroutines while the loop goes on
  handling keys, ticks and resizes. Closures of `disconnect` and `reconnect`
  read `w.iface` from the goroutine. `HandleResult` puts whatever screen it
  likes on the terminal, whatever is there. One list widget and one prompt
  widget serve several screens, so a selected row, a colour, a scan list or a
  password can outlive the screen it belonged to. Correct means: never two
  operations, never a result for a screen that did not ask, commands sent with
  what the user chose, no index out of range, no leftover password.
* **Resolver** (`DnsResolver`). Two maps, each safe, together not atomic.
  Correct means: one lookup per address, answer stored before the address is
  released, nobody locked out.
* **Update** (`Dashboard`). Collectors fail one by one, ticks come late, the
  dialog suspends updates. Correct means: histories aligned, charts never given
  a series the widget panics on, peaks that cover the bars, a storage list as
  fresh as promised.
* **CPU, network** (`CpuUsage`, `NetRates`). Differences of counters between
  calls, while CPUs and interfaces come and go and counters restart. Correct
  means: the figure on the screen is what happened.
* **Storage, connections, scan list** (`Storage`, `Connections`, `ScanList`).
  Nothing is kept between calls, but the lists come from several reads of a
  kernel that goes on changing, or from nmcli in whatever order it likes.
  Correct means: what stays put is listed, once, in one order, under its own
  name; filtering in place loses nothing; escaping is undone.
* **The loop** (`Monitor`). Keys, results and ticks compete in one `select`,
  `Open()` blocks it on nmcli, the ticker drops ticks, a goroutine keeps the
  public address. Correct means: each part behaves as it does alone, and the
  dashboard goes on.

`PROJECT.json` lists the hazards line by line.

## 2. The modules

| Module | Role |
|---|---|
| `WifiSession` | abstract: what the dialog promises (a job is started, performed once, reported truthfully) |
| `WifiModal` | the dialog, its goroutines, `OpCh` and the loop that feeds it |
| `WifiModalRefinement` | refinement mapping from `WifiModal` to `WifiSession` |
| `WifiModalKeys` | `WifiModal` with the last key visible, to state what the key tables of the README say |
| `WifiModalProofs` | TLAPS: safety of `WifiModal`; it implements `WifiSession` |
| `DnsResolver` | the resolver |
| `Dashboard`, `DashboardProofs` | state of `update()` between repaints, and its proofs |
| `Monitor`, `MonitorProofs` | the whole loop: `WifiModal` and `Dashboard` composed, the ticker, the public IP refresher; and its proofs |
| `CpuUsage` | `CollectCPU` |
| `NetRates`, `RatesProofs` | `CollectNet`, and the proofs of both |
| `Storage`, `StorageProofs` | `CollectStorage` and the panel painted from it, and its proofs |
| `Connections`, `ConnectionsProofs` | `CollectConnections`; its proofs and those of the resolver, which names its rows |
| `ScanList`, `ScanListProofs` | `WifiScan` and `splitNmcliLine`, and their proofs |
| `Listing`, `ListingProofs` | `sort.SliceStable`, used by the three above, and what it does to every list; places, enumerations |
| `MC*` | the constants' values of an instance |

`Monitor` has the variables of `WifiModal` and of `Dashboard`, except that the
dashboard's `dialog` is `mode # "wifiOff"`, the modal's `Active()`. Its actions
are built from theirs.

A definition whose comment says **Slip** is a plausible mistake in the code of
the definition that follows it (a forgotten reset, a dropped guard, `>` for
`>=`). It is not part of `Next`. Putting it in the place of that definition
must make the property named in `PROJECT.json` under "mutants" fail: it shows
that the property can tell the difference.

### WifiModal and the code

`mode`, `interfaces`, `iface`, `networks`, `password`, `pendingNet`, `msg`,
`msgErr` are the fields of `wifiUI`; `rows` and `sel` the list widget's rows and
`SelectedRow`; `promptErr` whether the shared prompt is styled red; `opCh` the
channel; `workers` the goroutines; `shown` the screen painted last; `uiCall`
says that the UI thread is inside the nmcli call of `Open`. One operator per
`case` of `HandleEvent` (`PickIfaceKey`, `ActionKey`, `ListKey`, `PasswordKey`,
`ResultKey`; the busy screen has none), one action per `case` of the select
loop (`ModalKey`/`Quit`/`OpenCall`, `Resize`, `ReceiveResult`, `Tick`). Every
handler is atomic, because one thread runs them all; a goroutine takes two
steps, because `disconnect` and `reconnect` read `w.iface` only when they run
(`WorkerStart`), and send when nmcli is done (`WorkerFinish`). `Open` takes two
(`OpenCall`, `OpenReturn`), with goroutines in between.

Abstracted: a message is the operation, interface and network it names; keys
are the named special keys, one (`<C-c>`) for all the others, and a few typed
characters, among them `<`, `q`, `r` and `w` (which stands for `W` too); a scan
yields any list of distinct networks that interface can see.

### DnsResolver and the code

`CacheHit`/`CacheMiss` are `dnsCache.Load` with the TTL test,
`AlreadyBusy`/`StartLookup` are `dnsInProgress.LoadOrStore` and the `go`
statement, then `LookupReturns`, `StoreName`, and `DeleteInProgress` for the
deferred `Delete`. Between any two of them the others run and time passes.
`ResolveAsync` is called from `update` only, so one call at a time. The code
keeps a timestamp and asks for `time.Since`; the model counts an entry's age,
and stops at the TTL because the code tells no greater age apart.

### Dashboard, Monitor and the code

`gpu`, `mem`, `rx`, `tx` are each a history with its current and peak value;
`storageDevs` and `storageAge` are the list and the time since `storageLast`;
`ticked` is the ticker's channel, which has room for one tick and drops the
others, and `phase` the time since it last fired. Time goes by in units, several
to a tick (`RefreshRate` of them): `CollectStorage` may stall for up to
`MaxStall`, `storageLast` is taken when it is over, so that the list's age and
the ticks are not in step (`Enumerate`, `Elapse`). What else `update` does takes
less than a unit. Ages stop at `MaxAge`, a tick past the rate. `Update` is one
`update()` with any outcome of each collector; `pending` says whether a tick was
waiting when it began. `Start`, `Tick` and `CloseDialog` are its three callers;
`TimePasses` is time between them.

In `Monitor` the cases of the `select` are `ModalKey` (with the `update()` that
follows a key that closed the dialog, `AfterKey`), `OtherCase` (keys of the
dashboard, resizes, results) and `Tick` (`AfterTick` suspends the update while
the dialog is open). While `uiCall` holds, the UI thread is inside `Open()` and
takes none of them; `TimePasses`, `Refresher` and the operation goroutines go
on. `publicIPCache` is the atomic value, `public` the address in the header
panel.

### CpuUsage, NetRates and the code

Both follow calls of the collector (`CollectCPU`, `CollectCPUFails`;
`CollectNet`, `CollectNetFails`), one call a step, with the kernel as
environment, and two ghost variables for the truth: what really happened since
the last good sample, and on which CPUs or interfaces. `cpuMetrics` and
`metrics` are what the last step returned. Counters of CPU jiffies wrap modulo
`Width` as the code's unsigned subtraction does. Floats are rounded down to
whole percents and whole bytes per second. An iowait counter that goes back,
which the kernel allows, is left out: it would break `UsageIsTrue` the way
hotplug breaks `UsageIsPercent`.

### Storage, Connections, ScanList and the code

A behaviour is one call, started in any state the kernel or nmcli may be in,
and one step is one read of the call. In `Storage` the reads are
`/sys/block` (`ListDisks`), `/proc/mounts` (`readMounts`), a disk's attributes
and partition directories (`OpenDisk`), one partition with its holders and
`statfs` (`ScanPartition`), the disk as a whole (`CloseDisk`), and the sort;
disks are unplugged, volumes mounted, unmounted, unlocked and locked between
them. What a `statfs` says is identified with the volume it says it of, `usage`;
`touched` keeps what changed during the call or could not be read, so that the
properties speak of everything else. `Panel` is the set of lines the panel
shows.

In `Connections` an address is its bytes; `KernelHex` is the kernel's printing
in little-endian words, `parseHexIPv4` and `parseHexIPv6` undo it. `conns` is
the array that the loop reads and, through `out := conns[:0]`, writes; `lines`
keeps what was read. `peer` in a socket is the truth that the properties
compare with: the host at the other end, or none, for a socket that is not
established or whose remote is loopback or unspecified (`NoRemote`). Hosts on
the same link (`OnLink`) are hosts too; the code drops them, against its
comment (see 6), and the properties name that exception (`Routed`).

In `ScanList` text is a sequence of members of the constant `Runes`, and
`splitNmcliLine` takes one rune a step, as the code does; signals have one
digit, and white space around fields is left out. nmcli's escaping, `Rests`, is
the recursion that inverts it, for fields of any length. A line that is not
about an access point, `Noise`, is assumed to have two colons at most, because
the code takes a line of four parts for an access point whatever it says.

## 3. What the runs show

| Run | Bounds | Shows |
|---|---|---|
| `wifi_modal` | 2 adapters that see different networks, 1 open and 2 secured networks, lists of up to 2, passwords of up to 2 runes, 2 goroutines, `OpCh` of 4 | type invariant and safety properties of the dialog; it implements `WifiSession`; under fairness each operation is reported |
| `dns` | 2 addresses, 2 names, 2 goroutines, TTL of 2 | safety - one lookup at a time, no settled answer replaced - and under fairness every lookup ends and every miss is answered |
| `dashboard` | histories of 3, 2 units to a tick, rate of 4 units, an enumeration of up to 3, panels of width 0, 7, 8, 9, 20 | alignment, plots, peaks, freshness |
| `monitor` | 1 adapter, 1 network, 1 goroutine, histories of 2, 2 units to a tick, rate of 2 units, an enumeration of up to 1, collectors that fail, 1 address | the loop implements both views, the refresh goes on, an address that arrives is shown |
| `cpu` | 2 CPUs, counters modulo 4, up to 3 jiffies between samples | usages are the true ones |
| `net` | 2 Ethernet adapters and loopback, up to 2 bytes and 2 s, one direction | rates and totals are true, rows have one order |
| `storage` | a USB stick and an internal disk without partitions, a disk with 2, a LUKS mapper, an md array, 2 mount points, 2 mounts, 1 change during the call | what stays put is shown, in order, with its own usage |
| `connections` | 12 kinds of socket, 4 at a time, in any order, 1 change between the two files | the in-place filter loses nothing, rows are the remote ends, hosts on the same link excepted |
| `scan` | 7 access points, lists of up to 3 in any order, a warning in front or not | escaping is undone, one row per network, strongest first |
| `cpu_percent`, `storage_unmounted`, `typing_appends` | as their component | each refutes one statement of a doc or a comment, see 6 |

Why the bounds are enough. Two adapters with different networks let a list or a
target outlive a change of adapter; one open and one secured network on the
same adapter give both ways to connect; lists of 0, 1 and 2 give each way
`Open` and a scan can go and a rescan that shrinks; two goroutines would let a
second operation start. Two runes allow deleting a part of a password. Two
goroutines and two addresses let one address be looked up twice or two at the
same time. Histories of 3 fill, roll and are cut; the widths are those where
the plot switches from the minimum of 2 points, and 0. Two units to a tick let
an enumeration end between two ticks, and a stall of 3 last longer than a tick,
which is then waiting when it ends. The bound of `StorageFresh` is tight: with
`StorageRate` alone for it TLC finds the list that is not yet due at the tick
where it would be, had `storageLast` been the tick's time. Two CPUs suffice for
one to take the place of another, and 3 < 4 jiffies is the largest true
difference that unsigned counters of width 4 can tell. In `NetRates` reception
and transmission are the same code twice, so one direction is explored. In
`Storage` two mounts can be of one volume, at one place, or of two volumes; the
two mappers, one without a mapper name, can hold one partition, two, or each
other, and the USB stick sorts before an internal disk; one change can fall
between any two reads. In `Connections` four sockets allow a duplicate, a
skipped one and two kept ones in every order; the kinds are one of each class
the code tells apart. In `ScanList` the SSIDs have a colon, a backslash, and
both; three lines allow two access points of one network with another between.
`Monitor` composes parts that have runs of their own: the smallest instance in
which an operation runs, the dialog opens and closes, ticks are lost and the
list falls due is enough to see how they interfere.

Fairness is assumed of what the code really drives: a goroutine that may run
does; nmcli returns; `select` picks among ready cases at random and starves
none (`ReceiveResult`; in `Monitor` a strong fairness of `Tick`, because a
blocked `Open()` disables it again and again); `net.LookupAddr` gives up after
the resolver's timeouts; seconds pass. Users and resizes are not fair, except
that a call of `ResolveAsync` once begun is finished. That nmcli returns is an
assumption: the code sets no timeout, and if it hangs the busy screen stays.

No run sets `CHECK_DEADLOCK FALSE`: after `q` the models of the loop stutter
(`Exited`), and those of one call do after its return (`Returned`).

## 4. What is proved

By TLAPS, for sets, lists and texts of every size - interfaces, networks,
goroutines, addresses, names, readings, widths, disks and their partitions,
sockets, access points and the runes of an SSID, network interfaces, CPUs and
the width of their counters - from the named assumptions on constants only
(`ConstantsAssumption`, `ResolverAssumption`, `DashboardAssumption`,
`StorageAssumption`, `ConnectionsAssumption`, `ScanListAssumption`,
`NetAssumption`, `CpuAssumption`, `MonitorAssumption`), which TLC evaluates in
the runs. What `DnsResolver` and `CpuUsage` define is named with `Dns` and
`Cpu`, so that one module of proofs can extend them beside `Connections` and
`NetRates`.

* `WifiModalProofs`: `TypeCorrect`, `SingleFlight`, `Targets`,
  `ListsAreCurrent`, `RowInRange`, `NoPasswordLeft`, `ScreenIsCurrent` and
  `OpensOnRequest`, every safety property of the run `wifi_modal`; and
  `SessionImplemented`, the refinement of `WifiSession`.
* `DashboardProofs`: `TypeCorrect`, `InStep`, `PeakIsHighest`, `PlotsAreSafe`,
  `StorageIsFresh`: every property of the run `dashboard`.
* `ListingProofs`: `StableSorts`, what Go's stable sort does to any list with
  any strict weak order.
* `StorageProofs`: `TypeCorrect`, `EveryDiskInOrder`, `EveryMountShown`,
  `EveryHeldShown`, `EveryBarOwn`: every property of the run `storage`.
* `ConnectionsProofs`: `TypeCorrect`, `FiltersInPlace`, `RowsTellRemotes`:
  every property of the run `connections`; `CacheTyped`, `OneLookup`,
  `StoreThenDelete`, `AnswersStay`: every safety property of the run `dns`.
* `RatesProofs`: `TypeCorrect`, `RatesTrue`, `RowsStay`: every property of the
  run `net`; `CpuTyped`, `UsagesTrue`, `FreqsAreInOrder`: every property of the
  run `cpu`.
* `ScanListProofs`: `SplitUndoesEscaping`, `OneRowPerNetwork`: every property
  of the run `scan`.
* `MonitorProofs`: `LoopImplements`; and, of the program as a whole,
  `ProgramKeepsDialogSafe`, `ProgramImplementsSession` and
  `ProgramKeepsPanelsSafe`.

**The dialog.** None of its properties is inductive by itself. `TypeOK` needs
to know which list the widget shows, for `interfaces[sel + 1]` to be an
interface (`ListOnScreen`), and that an interface is selected whenever a scan
runs (`IfaceSelected`). `OneOperation` is the keystone: no key does anything on
the busy screen, so nothing can change `iface`, `pendingNet` or `password`
under a goroutine that runs; with it, `SelectionInv` follows, which also says
what is in the channel (the list of a scan that has finished but was not
received was scanned on the selected interface) and that there is no password
while anything but a connection runs. `ScreenInv` adds that the prompt is not
red on the list, password and busy screens: the list cannot be reached from a
red result except through the busy screen, which restyles the prompt. `Inv` is
their conjunction; `Invariance` proves `Init => Inv` and, action by action,
`Inv /\ [Next]_vars => Inv'`.

The refinement rests on the same invariant. The job is found by its goroutine
or by the result that the goroutine left; `OneOperation` makes it unique, so
that a goroutine that gets to run changes nothing of the session, one that
finishes is `Perform`, and the result received is `Report` of that very job.
Keys are `Start`, `Dismiss`, `Close` or a stutter.

**Resolver and dashboard.** For the resolver the strengthening is
`StoredBeforeDelete`: a goroutine about to delete its address has stored an
answer for it. `AnswersStay` rests on `OneLookup`: a settled answer has no
goroutine on its address, since one that had would keep it in `dnsInProgress`,
so nobody can store over it; and no question is on its way, so a lookup needs a
new question, which hits. What the code does allow, a lookup started right
after one ended, is thereby confined to a question that read the cache before
the answer was stored. For the dashboard the histories' alignment and peaks are
kept by lemmas about `AppendHistory` and `TailBars` for all lengths. Freshness
is inductive with the ranges of age and phase: a tick handled or a dialog
closed restores it, since a list that is due is then enumerated, and time that
goes by moves age and phase alike until the ticker fires (`Elapsed`).

**Sorting.** `StableSort` is defined by ranks: the k-th element is the one with
k - 1 elements before it. `StableSorts` shows that ranks are a bijection, by
cardinalities of initial segments, for any `less` that is a strict weak order;
the three collectors show that theirs is one. `LeastPlace` and `GreatestPlace`,
which do the work of an induction elsewhere, are consequences.

**Storage.** The invariant says what the call has got right so far about
everything that was not touched: `KernelInv`, what the environment keeps (a
volume that is held or has partitions is not itself mounted); `TableInv`, the
mount table that was read is still right about every volume left alone;
`NamesInv`, the disks done, the one in hand and those to come are in the order
of names, and none that was left alone is missing; `EntriesInv`, what each disk
done shows of its partitions, and the one in hand of those it has behind it
(`Shows`). The kernel's steps touch what they change, so that they cannot
break it; the steps of the call move a partition or a disk from what is to
come to what is done.

**Connections.** For the filter, `FilterInPlace` is nearly inductive: what has
to be added is that every remote end in `seen` was kept, and how long the
arrays are before the loop. For the rows, `StayedInv` follows each socket that
stays from its file to its line, and `RowsInv` says that the sorted rows are
those kept. That bytes, mapped addresses and classes of addresses are read
right is a matter of lemmas on addresses of 4 and 16 bytes (`Bytes4`,
`Bytes16`, `To4IsPlain`, `ClassOf`, `ParsedLine`).

**Scan lists.** The escaped text of a field is defined by recursion from its
end. `RestExists` shows that this recursion has a solution by taking the least
place from which it has one; `RestsAreText` has the same argument.
`SplitInv` is the loop invariant of `splitNmcliLine`: the split has taken k
runes of the j-th field, of which an escaped one counts only once its backslash
and itself are taken (`Within`); of a line that is something else it has found
only parts that a colon ends (`WithinNoise`). `FieldStep` moves it on by a rune,
and `AllTaken` says that nothing is left but the four fields when the line is
used up. `RowsInv` says that each network among the lines read has the row of
one of its access points, whatever the order of the rows; `SortedInv`, that the
sort has put them into order.

**Rates.** `CountersInv` says how the counters, the samples and the truth are
related: the counter of an interface that stayed is ahead of its sample by what
it moved, that of one that came back counts nothing older than the sample. A
rate is then at most what was moved (`RateIs`). The total is the library's sum
over a set, a recursion: `SumExists` shows that the recursion has a solution,
`SumsAgree` that it has only one, and `SetInduction`, with a set where an
induction has a predicate, that a sum of greater terms over a larger set is
greater (`SumAtMost`). `SortedOnce` is the uniqueness of a sorted enumeration:
two of them have no first place where they differ.

**CPU.** Counters wrap, so the invariant does not subtract: `Advanced` says
that a counter is where it was, plus what ran, or a turn less. Since less than
a turn ran between two samples (`MaxRan < Width`: 2^64 jiffies in the code),
the unsigned difference is what ran (`MinusIs`), of the totals too although
each of them may have wrapped on its own (`UsageOf`). `SampleInv` has this of
every sample and the CPU it was taken of, by place in the list; that the list
of the same CPUs is the same list is `InOrder`. `AllInRange` goes along the
frequencies: as long as none was read there is only the sentinel, after that
minimum, mean and maximum are in order.

**The program.** The composition needs no invariant: each action of `Monitor`
is, projected, an action of the one view and an action or a stutter of the
other. The theorems of the dialog and of the dashboard are then instantiated
(`MP`, `DP`, the latter with `mode # "wifiOff"` for `dialog`), so that what was
proved of the parts, the abstract session included, is proved of the program,
with its blocked calls, dropped ticks and suspended updates.

Only model-checked:

* Liveness - `BusyEnds`, `LookupEnds`, `RefreshGoesOn`, `AddressShown` - and
  what rests on fairness are out of this prover's reach.
* That the code departs from its documents (section 6) is shown by
  counterexamples.

## 5. What is not modelled

`PROJECT.json` names every component left out. Texts, colours, gauges and the
grid are recomputed from the readings at every repaint and carry no state.
`CollectSysMem` is one subtraction of two numbers of a file, the GPU collector
a list of reads, `LocalIP` a choice among addresses: none keeps anything or
runs beside anything. `ui.PollEvents()` is evaluated anew in every iteration of
the loop and asks for a new channel each time (`main.go:699`); what that does
to events depends on termui and termbox, which are not in the repository: in
the models an event that arrives is handled, and one that is lost is a key not
pressed, on which no property depends.

Within the modelled parts: the columns of `/proc` files are taken as parsed; a
counter of iowait that goes back is left out; a mount's source is
`/dev/<name>` or `/dev/mapper/<name>`.

## 6. Where code and documents disagree

| Run | The documents | The code |
|---|---|---|
| `typing_appends` | README: typing appends to the password | a typed `<` is taken for the start of an event name and dropped (`wifi_ui.go:313`): such a password cannot be entered |
| `cpu_percent` | `cpu.go:34`: usage is 0-100 per core | not when one CPU took the place of another between two samples (`cpu.go:146-150`) |
| `storage_unmounted` | README:107-108, `storage.go:13-15`: a locked or otherwise unmounted partition shows `locked / no mount` | a partition that is neither mounted nor held yields nil and is dropped (`storage.go:162-164, 175-177`) |

Noted without a run.

*Dialog and loop.* `q` does not close the dialog from the network list
(`wifi_ui.go:276-296`), and Ctrl-C does not quit while it is open
(`main.go:700-718`), though the README's key table says so; `Open` calls nmcli
on the UI thread (`wifi_ui.go:81`), though `wifi_ui.go:32-33` says that all
nmcli calls happen in goroutines; the radio actions switch all adapters, though
README:195-196 says that only the selected one is touched.

*Dashboard.* An empty storage list is enumerated on every tick (`main.go:645`),
though `main.go:641-642` says at most once every two minutes; after a failed
GPU reading the chart's newest bar is 0 and its title keeps the old value
(`main.go:503-523`); README:111 says that the list refreshes every two minutes,
but `storageLast` is taken after the enumeration (`main.go:645-647`), so that
it normally does at the 121st tick (the 120th finds it just short of two
minutes old) - what holds is `StorageFresh`, a tick more; README:79 says that
the public address shows `—` without internet, but a refresh that fails leaves
the last address there (`net.go:274-276`), so that an outage after the first
answer does not show; an idle wireless adapter is listed above an active
Ethernet one (`net.go:176-178`); with a CPU off line the labels and frequencies
of the following cores belong to other CPUs (`cpu.go:104`).

*Storage.* Of several holders of a partition the first that is mounted is
shown, so that the second volume of an LVM group is missing, though
`storage.go:37-39` speaks of every mounted partition; holders are followed one
level deep, so that LVM inside LUKS shows as locked although it is mounted; a
volume that spans two partitions is listed under each; a disk encrypted as a
whole shows `no mount`; a failed `statfs` shows as `locked / no mount`, though
`storage.go:200-201` says that nil is returned.

*Lists.* Remote hosts on the same link, 169.254/16 and fe80::/10, are dropped
(`net_connections.go:53`), though `net_connections.go:38-39` promises every
established connection to a remote that is neither loopback nor unspecified;
connections are sorted by remote only, not "then by hostname"
(`net_connections.go:40-41`), and the direction of the arrow depends on which of
several sockets to one remote end was listed first; of a network with several
access points the first line of nmcli's is kept, so that the in-use mark and
the strongest signal depend on nmcli's order (`wifi.go:75-78`); an expired name
is not shown while it is looked up again (`net_connections.go:190`); two lookups
of one address can follow each other without need, when the first ends between
the second's two map accesses (`net_connections.go:188, 194`).

## 7. Plan

Done: the dialog with its goroutines and abstract session, the resolver, the
state of the dashboard, the composed loop, CPU and network rates, storage,
connections and scan lists; proofs of every safety property of the runs, of both
refinements, and of the program as a whole from those of its parts.

Left, in this order:

1. Holders several levels deep in `Storage`, to show which volumes the panel
   misses.
2. Layout: column-wise cells and bars for every width and number of cores.
