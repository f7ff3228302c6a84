---------------------------- MODULE DnsResolver ----------------------------
(***************************************************************************)
(* Reverse DNS for the connections panel (net_connections.go:168-208).     *)
(* The UI thread asks ResolveAsync for a name on every repaint and never   *)
(* waits: it reads the dnsCache map, and on a miss tries to enter the      *)
(* address into dnsInProgress and starts a goroutine for it.  The          *)
(* goroutine looks the name up, stores it, and leaves dnsInProgress (the   *)
(* deferred Delete).  The two maps are separate sync.Maps: every access is *)
(* a step of its own, and the goroutines run between any two.              *)
(* A definition marked "Slip" is a plausible mistake in the code of the    *)
(* definition that follows it; it takes no part in DnsNext.                *)
(***************************************************************************)
EXTENDS Naturals

CONSTANTS
  Addrs,       \* remote addresses
  Names,       \* PTR names
  Goroutines,  \* identities of lookup goroutines
  TTL,         \* dnsTTL, in units of time
  NoName,      \* "": no PTR name, or not resolved
  None         \* no cache entry, no question, idle goroutine

Entry  == [name : Names \cup {NoName}, age : 0..TTL]
Lookup == [addr : Addrs, stage : {"lookup", "store", "delete"}, name : Names \cup {NoName}]

ASSUME ResolverAssumption ==
  /\ TTL \in Nat \ {0}
  /\ NoName \notin Names
  /\ None \notin Addrs \cup Entry \cup Lookup

VARIABLES
  dnsCache,       \* address -> entry, with the time since its ts
  dnsInProgress,  \* addresses entered by LoadOrStore and not yet deleted
  lookups,        \* goroutine -> the lookup it runs
  missed,         \* address the UI thread missed in the cache and has not
                  \* yet tried to enter into dnsInProgress
  answer          \* what ResolveAsync last returned, and for which address

dnsVars == <<dnsCache, dnsInProgress, lookups, missed, answer>>

Fresh(a) == dnsCache[a] # None /\ dnsCache[a].age < TTL
-----------------------------------------------------------------------------
(* ResolveAsync, on the UI thread *)

\* dnsCache.Load and the TTL test.
CacheHit(a) ==
  /\ missed = None /\ Fresh(a)
  /\ answer' = [addr |-> a, name |-> dnsCache[a].name]
  /\ UNCHANGED <<dnsCache, dnsInProgress, lookups, missed>>

CacheMiss(a) ==
  /\ missed = None /\ ~Fresh(a)
  /\ missed' = a
  /\ UNCHANGED <<dnsCache, dnsInProgress, lookups, answer>>

\* dnsInProgress.LoadOrStore: somebody is on it, or a goroutine is started.
Return == answer' = [addr |-> missed, name |-> NoName] /\ missed' = None

\* Slip: Store instead of LoadOrStore.
NeverLoaded == FALSE
Loaded == missed \in dnsInProgress

AlreadyBusy ==
  /\ missed # None /\ Loaded
  /\ Return
  /\ UNCHANGED <<dnsCache, dnsInProgress, lookups>>

StartLookup ==
  /\ missed # None /\ ~Loaded
  /\ dnsInProgress' = dnsInProgress \cup {missed}
  /\ \E g \in Goroutines :
       /\ lookups[g] = None
       /\ lookups' = [lookups EXCEPT ![g] =
            [addr |-> missed, stage |-> "lookup", name |-> NoName]]
  /\ Return
  /\ UNCHANGED dnsCache
-----------------------------------------------------------------------------
(* The goroutine *)

At(g, stage) == lookups[g] # None /\ lookups[g].stage = stage

\* net.LookupAddr returns names, of which the first is taken, or none.
\* Slip: names[0] without the test for an error and an empty list.
FirstNameUntested(first) == first
FirstName(first) == IF first = None THEN NoName ELSE first

\* Slip: the address is released as soon as the lookup is over.
LookupReleases(g) ==
  /\ At(g, "lookup")
  /\ \E n \in Names \cup {None} :
       lookups' = [lookups EXCEPT ![g].stage = "store", ![g].name = FirstName(n)]
  /\ dnsInProgress' = dnsInProgress \ {lookups[g].addr}
  /\ UNCHANGED <<dnsCache, missed, answer>>

LookupReturns(g) ==
  /\ At(g, "lookup")
  /\ \E n \in Names \cup {None} :
       lookups' = [lookups EXCEPT ![g].stage = "store", ![g].name = FirstName(n)]
  /\ UNCHANGED <<dnsCache, dnsInProgress, missed, answer>>

\* Slip: a failed lookup leaves nothing in the cache.
StoreFound(g) ==
  /\ At(g, "store")
  /\ dnsCache' = [dnsCache EXCEPT ![lookups[g].addr] =
       IF lookups[g].name = NoName THEN @ ELSE [name |-> lookups[g].name, age |-> 0]]
  /\ lookups' = [lookups EXCEPT ![g].stage = "delete"]
  /\ UNCHANGED <<dnsInProgress, missed, answer>>

StoreName(g) ==
  /\ At(g, "store")
  /\ dnsCache' = [dnsCache EXCEPT ![lookups[g].addr] = [name |-> lookups[g].name, age |-> 0]]
  /\ lookups' = [lookups EXCEPT ![g].stage = "delete"]
  /\ UNCHANGED <<dnsInProgress, missed, answer>>

DeleteInProgress(g) ==
  /\ At(g, "delete")
  /\ dnsInProgress' = dnsInProgress \ {lookups[g].addr}
  /\ lookups' = [lookups EXCEPT ![g] = None]
  /\ UNCHANGED <<dnsCache, missed, answer>>

\* Time, of which the code sees only time.Since(e.ts) < dnsTTL: an age of TTL
\* stands for every age from there on.
Older(e) == IF e # None /\ e.age < TTL THEN [e EXCEPT !.age = @ + 1] ELSE e

TimePasses ==
  /\ dnsCache' = [a \in Addrs |-> Older(dnsCache[a])]
  /\ UNCHANGED <<dnsInProgress, lookups, missed, answer>>
-----------------------------------------------------------------------------
DnsInit ==
  /\ dnsCache = [a \in Addrs |-> None] /\ dnsInProgress = {}
  /\ lookups = [g \in Goroutines |-> None]
  /\ missed = None /\ answer = None

DnsNext ==
  \/ \E a \in Addrs : CacheHit(a) \/ CacheMiss(a)
  \/ AlreadyBusy \/ StartLookup \/ TimePasses
  \/ \E g \in Goroutines : LookupReturns(g) \/ StoreName(g) \/ DeleteInProgress(g)

\* LookupAddr gives up after the resolver's own timeouts, so a goroutine keeps
\* running, and so does the UI thread in the middle of a call.  It need not
\* ask again: the panel may be gone or the dialog open.
DnsFairness ==
  /\ WF_dnsVars(AlreadyBusy \/ StartLookup)
  /\ \A g \in Goroutines :
       WF_dnsVars(LookupReturns(g)) /\ WF_dnsVars(StoreName(g)) /\ WF_dnsVars(DeleteInProgress(g))

DnsSpec == DnsInit /\ [][DnsNext]_dnsVars
DnsFairSpec == DnsSpec /\ DnsFairness
-----------------------------------------------------------------------------
(* Properties *)

DnsTypeOK ==
  /\ dnsCache \in [Addrs -> Entry \cup {None}]
  /\ dnsInProgress \subseteq Addrs
  /\ lookups \in [Goroutines -> Lookup \cup {None}]
  /\ missed \in Addrs \cup {None}
  /\ answer \in [addr : Addrs, name : Names \cup {NoName}] \cup {None}

\* One lookup at most is under way for an address, however often the panel
\* asks and however its calls interleave with a lookup that is ending, and
\* the address is in dnsInProgress for exactly as long: no address is locked
\* out by an entry nobody will delete.
SingleLookup ==
  /\ \A g, h \in Goroutines :
       lookups[g] # None /\ lookups[h] # None /\ lookups[g].addr = lookups[h].addr => g = h
  /\ \A a \in Addrs :
       a \in dnsInProgress <=> \E g \in Goroutines : lookups[g] # None /\ lookups[g].addr = a

\* An address leaves dnsInProgress only with an answer in the cache ("whose
\* result will be available on subsequent calls", net_connections.go:185-186):
\* were it the other way round, a call in between would find neither, and start
\* a second lookup.
AnsweredWhenReleased ==
  [][\A a \in Addrs : a \in dnsInProgress /\ a \notin dnsInProgress' => dnsCache[a] # None]_dnsVars

\* An answer is settled when it is fresh, no goroutine is on its address, and
\* no question that missed it is still on its way to dnsInProgress.
Settled(a) == Fresh(a) /\ a \notin dnsInProgress /\ missed # a

\* A settled answer holds until it expires: no question starts a lookup for it
\* and no goroutine of an earlier one comes late and replaces the name, or
\* blanks it.  A redundant lookup, after a fresh answer was stored, is so
\* confined to a question that read the cache before (net_connections.go:188-205).
AnswersHold ==
  [][\A a \in Addrs :
       Settled(a) /\ Fresh(a)' => Settled(a)' /\ dnsCache'[a].name = dnsCache[a].name]_dnsVars

\* Every lookup ends with an answer in the cache and the address released, so
\* that it can be looked up again when the answer has expired.
LookupEnds ==
  \A a \in Addrs : a \in dnsInProgress ~> a \notin dnsInProgress /\ dnsCache[a] # None
=============================================================================
