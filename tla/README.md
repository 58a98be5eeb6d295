# Verification of bundled references

Bundled references give linked data structures linearizable range queries, and
the repository compares them with other ways of doing so: versioned fields (vCAS),
epoch-based reclamation with a readers-writer lock, and more.
Every link of the structure has a *bundle*: a list of entries, newest first,
that says what the link pointed to and from which timestamp on. An update
takes a label from a global clock and records it in the bundles of the links it
changes; a range query reads the clock once and follows each bundle as of that
timestamp. This directory holds TLA+ models of that algorithm, of two of its
competitors and of what they all stand on (epochs and RCU), written from the
C++ code; the TLC configurations that check them on small instances; and proofs
checked by TLAPS that hold for any number of processes, links and updates.

Paths below are relative to the repository (`src/`).

## 1. The system

| Component | Code | State it keeps | Operations | What makes it correct |
|---|---|---|---|---|
| Linked bundle | `bundle/linked_bundle.h` | list of (label, pointer), newest first; the head may be *pending* | `prepare`, `finalize`, `getPtr`, `getPtrByTimestamp`, `reclaimEntries` | labels in order; one pending entry, the head; a read at `ts` finds the newest entry labelled `<= ts`; reclamation keeps what a query needs |
| Bundled provider | `rq/rq_bundle.h` | the clock; per process `rq_flag` and `rq_lin_time` | `getNextTS`, `start_traversal`, `end_traversal`, `prepare_bundles`, `linearize_update_at_write`, `finalize_bundles`, `get_oldest_active_rq`, the cleaner thread | updates are atomic at their label; queries see one instant; the cleaner's bound is below every query |
| Bundled lazy list | `bundle_lazylist/` | sorted nodes: key, next, lock, mark, bundle | insert-if-absent, `erase`, `contains`, `rangeQuery`, `cleanup` | a linearizable set; every timestamp holds a whole sorted list; operations return |
| Bundled skip list | `bundle_skiplist_lock/` | towers; the bottom level has bundles | the same | the same; only fully linked nodes count |
| Bundled Citrus tree | `bundle_citrus/` | internal tree; per node a key, a lock, a mark and two links, each with a tag and a bundle | the same | every timestamp holds a search tree; an erase with two children changes up to six bundles at one label, and waits for readers in between |
| RCU | `citrus/urcu_impl.h` | a counter per thread | `readLock`, `readUnlock`, `synchronize` | `synchronize` returns after every section that was open when it was called |
| Circular bundle | `bundle/circular_bundle.h` | ring of entries, one word of state bits | `prepare`, `finalize`, growth, reclamation | growth, reclamation and reads exclude one another |
| vCAS provider and structures | `rq/rq_vcas.h`, `vcas_*/` | version lists, a clock | `takeSnapshot`, `initTS`, vCAS, versioned read | a version's timestamp is fixed before anyone orders by it, so that the past stays fixed |
| EBR-based providers | `rq/rq_rwlock.h`, `rq_lockfree.h`, `rq_htm_rwlock.h` | clock, insertion and deletion times, announcements, limbo bags | update at write/CAS, query traversal and limbo scan | a query collects exactly the nodes alive at its timestamp |
| DCSS | `dcss_plus/`, `descriptors/` | reusable descriptors | double-compare-single-swap with helping | one effect per operation, in spite of helpers and reuse |
| Record manager (DEBRA) | `recordmgr/reclaimer_debra.h` | epochs and announcements, a ring of bags of retired records per process | `leaveQuiescentState`, `enterQuiescentState`, `retire`, `getSafeBlockbags` | no record is freed while someone may hold it; a range query finds in three bags per process what was deleted under it |
| Others | `lazylist/`, `skiplist_lock/`, `citrus/`, `lockfree_list/`, `bst/`, `bslack_reuse/`, `bundle_bst/`, `unsafe/`, `rlu*/`, `rq/snapcollector/`, `rq_unsafe.h` | - | - | baselines and competitors |
| Benchmarks | `microbench/`, `macrobench/` | workloads, statistics, DBx1000 | drivers | - |

How they interact. A data structure locks the nodes it is about to change,
validates them, and calls the provider: `prepare_bundles` puts a pending entry
at the head of each bundle, `linearize_update_at_write` takes the label and
writes the link (or the mark), `finalize_bundles` labels the entries. A range
query takes no lock: it searches along raw links, calls `start_traversal`, and
reads bundles from then on, waiting on a pending entry that might belong to its
snapshot. `contains` follows the newest entries. The cleaner thread scans the
announcements and cuts off the tails of the bundles. The record manager
postpones the reuse of erased nodes. The lists of the other two providers do the
same with versioned fields, or with plain fields and times in the nodes; there a
query of the lock-based provider also goes through the other processes'
announcements of deletions and through the bags of the record manager.

What is hard. Several updates may share a label (`getNextTS` skips the increment
if the clock moved between its two loads). The label, the raw link and each
bundle of an update change at different moments, and queries, lookups and
searches look at different ones. A query's search is over before it has a
timestamp. The second-entry shortcut of `getPtrByTimestamp` looks past a pending
entry. The cleaner races with queries that are announcing themselves. A version
gets its timestamp after it is in place, from whoever is fastest. A node's
insertion and deletion times are filled in after the update took effect, and
a deleted node moves from the list to an announcement to a bag while a query
looks in these places one after the other. An epoch announcement can be late.
`PROJECT.json` lists these hazards with their lines, and the properties aimed
at them.

## 2. Modules

| Module | Models | Built on |
|---|---|---|
| `LinkedBundle` | the bundle as a value, and `prepare`, `finalize`, `reclaimEntries` as operators on it | - |
| `Bundles` | the provider and the reads of a bundle, one action per shared-memory access | `LinkedBundle` |
| `SnapshotStore` | abstract: a store updated atomically and read as of one instant | - |
| `LinearizableSet` | abstract: an observer of calls and returns of a set | - |
| `BundledList` | the lazy list on top of the provider | `Bundles`, `LinearizableSet` |
| `Urcu` | the RCU of the Citrus tree | - |
| `CitrusTree` | the bundled Citrus tree | `Bundles`, `Urcu`, `LinearizableSet` |
| `Debra` | the epoch-based record manager, under any data structure | - |
| `VersionedCas` | the vCAS provider, under any client | - |
| `LazyList` | what two lazy lists have in common: searches, locks, validation | `LinearizableSet` |
| `VcasList` | the lazy list on versioned fields | `LazyList`, `VersionedCas` |
| `RwlockProvider` | the provider with a readers-writer lock | - |
| `RwlockList` | the plain lazy list with that provider | `LazyList`, `RwlockProvider` |
| `MCBundles`, `MCBundledList`, `MCCitrus`, `MCDebra`, `MCVcasList`, `MCRwlockList` | small instances for TLC | |
| `BundlesProof` | types, order of labels, settled past; the announcement handshake, entries kept; range queries read a snapshot; the provider implements `SnapshotStore` | `Bundles` |
| `ObserverProof` | lemmas about the observer, for the proofs of linearizability | `LinearizableSet` |
| `ListProof` | the bundled list: its use of the provider, links and bundles, whole snapshots, what queries collect, linearizability | `BundledList`, `BundlesProof`, `ObserverProof` |
| `CitrusProof` | grace periods; the bundled tree: its use of the RCU and of the provider, types, links and bundles, what queries can read | `CitrusTree`, `BundlesProof` |
| `DebraProof` | nothing held is freed; three bags are enough | `Debra` |
| `VcasProof` | versions in order, fixed past | `VersionedCas` |
| `VcasListProof` | the list on versioned fields: locks, reads as of a snapshot | `VcasList`, `VcasProof` |
| `RwlockProof` | the plain list with the readers-writer lock: what queries collect, where deleted nodes are, linearizability | `RwlockList`, `ObserverProof` |

### State and code

**A bundle** is a record. `entries` is every entry it was ever given, oldest first,
so an entry pointer is an index and `next_` is "one less"; `low` is the oldest
entry still linked. The entries below `low` have been freed and stay in the
record as history only. A read of a freed entry is undefined, so the
actions let it come out any way.

**`Bundles`**: `clock` is `curr_timestamp_`; `flag` and `lin` are the announcement
table; `pc` says where each process is. The other variables are its locals: `upd`, `idx`
and `ts` of an update, `qts`, `at`, `cur` and `out` of a query (timestamp,
bundle, entry, result), `cpc`, `oldest`, `scan`, `cbun` and `chead` of the
cleaner. `owner` stands for the lock of the node a bundle belongs to, which
"must be locked" when the provider is called (`rq/rq_bundle.h:366-368`).

| Actions | Code |
|---|---|
| `BeginUpdate`, `Prepare` | `prepare_bundles`, an action per bundle |
| `LoadTS`, `ReloadTS`, `FetchAdd` | `getNextTS`, an action per access to the clock |
| `Finalize`, `EndUpdate` | `finalize_bundles`, an action per bundle; the caller unlocks |
| `StartTraversal`, `ReadClock`, `Announce`, `ClearFlag` | `start_traversal` |
| `BeginLookup`, `CheckFirst`, `LoadSecond`, `CheckSecond`, `AwaitLabel`, `Walk` | `getPtrByTimestamp`: load of the head, comparison, load of the second entry, comparison, spin, walk |
| `EndTraversal` | `end_traversal` |
| `BeginGet`, `Get`, `EndGet` | `getPtr`, as `contains` uses it |
| `CleanStart`, `CleanAwaitFlag`, `CleanReadLin` | `get_oldest_active_rq` |
| `CleanLoadHead`, `CleanCut`, `CleanEnd` | `reclaimEntries` on the bundles `cleanup()` visits |

**`BundledList`** adds the fields of the nodes and a second program counter `lpc`
for the list operation around a provider call. Its actions are conjunctions of
a step of the list and a step of `Bundles`: `BeginInsert` is the allocation and locking of the
new node with `BeginUpdate`, `PrepareAndLabel` is the provider's own steps,
`LinWrite` the write of `linearize_update_at_write`, and so on. `configs` is the
observer: every state of a sequential set, with the calls that took effect,
that explains the results so far.

**`CitrusTree`** is composed the same way, of a tree (`tpc`, node fields), the
provider and the RCU. A link, and its bundle, is a pair of a node and a side. `my`
has the local variables of an operation: what the search found, the
successor and its parent, the locks held, the stack of a query.

| Actions | Code (`bundle_citrus_impl.h`) |
|---|---|
| `Begin`, `Search`, `EndSearch` | `search` inside a read-side section |
| `LockPrev`, `LockCurr`, `Invalid`, `Unlock` | the locks of insert and erase, `validate`, the retry |
| `BeginInsert`, `BeginErase` | insert; an erase of a node with at most one child |
| `FindSucc`, `NextSucc`, `LockSucc`, `InvalidSucc` | the search for and validation of the successor |
| `BeginMove`, `LinWrite`, `Synchronize`, `UnlinkSucc`, `RaiseTag` | the erase that moves a successor up |
| `FollowNewest`, `EndContains` | `contains`: the raw search, then the newest entries |
| `StartQuery` to `EndQuery` | the three phases of `rangeQuery` |

**`Urcu`**: `time` is a thread's counter, even inside a section; `times` is the copy a
synchronizing thread made. `before` is history: the sections that were open when
a `synchronize` began.

**`Debra`**: `epoch`, `announced`, `bag`, `index`, `checked`, `opsSince` are the code's;
`ReadEpoch`, `Announce`, `Rotate`, `Scan`, `CheckOther` and `Advance` are
`leaveQuiescentState`, one action per access to shared memory; `Retire` and
`EndOperation` are the others. `linked`, `unlinked`, `early`, `freed` and `holds`
stand for the data structure: an operation may come to hold a pointer to whatever is linked
while it runs, and the code retires a record before or after it unlinks it.

**`VersionedCas`**: `versions[o]` lists the versions of a field, oldest first. A process is
in one call of the provider at a time (`vpc`, `call`). `LoadClock` and `Stamp` are
`initTS`; `BeginCas`, `Install` and `Reload` are `cas_vcas`; `TakeSnapshot`, `ReadAgain`
and `FetchAndAdd` are `takeSnapshot`. `VcasSpec` lets any client make any call in
any order; `VcasList` is one client. There `new_node` is two actions, one for each field
it creates.

**`RwlockProvider`**: `itime` and `dtime` are in the nodes; `announcements`,
`numAnnouncements` and `bag` are per process.

| Actions | Code (`rq/rq_rwlock.h`) |
|---|---|
| `BeginUpdate`, `ReadLocked`, `LinWrite`, `ReadUnlock`, `SetTimes` | `linearize_update_at_write`: the announcement's absence, the lock, the write, the times |
| `Announce`, `CountAnnouncement`, `Unlinked`, `Retire`, `Withdraw` | `announce_physical_deletion`, the unlinking, `physical_deletion_succeeded` |
| `StartTraversal`, `AdvanceClock`, `WriteUnlock` | `traversal_start` |
| `Consider`, `AwaitITime`, `ReadMark`, `ReadDTime` | `traversal_try_add` for a node, wherever it was found |
| `EndTraversal`, `ReadCount`, `ReadEntry`, `OpenBags`, `VisitBag`, `EndQuery` | `traversal_end`: the announcements, then the bags |

### Assumptions and abstractions

* Memory is sequentially consistent. The code relies on x86 for this: `prepare`
  publishes the head with relaxed stores under the node's lock, and
  `rq_lin_time` is volatile rather than atomic.
* A node is not reused while an operation may hold a pointer to it. Nodes in the
  lists and in the tree are never reused; `Debra` shows (and proves) that this is what the
  record manager provides. The bags that `RwlockProvider` scans hold every node
  retired since the query began: that is `SafeBagsSuffice` of `Debra`, and
  `RwlockProvider` keeps one bag per process that is never emptied.
* The clock and the labels stay below `BUNDLE_PENDING_TIMESTAMP`, which is
  `LLONG_MAX`. The guards of `LoadTS` and `FetchAdd` say so. The clock of vCAS is
  an `int` and wraps after 2^31 snapshots; the model stays below.
* `CleanCut` is one step. Below the head `reclaimEntries` walks finalized
  entries, whose labels do not change and whose `next_` only the cleaner writes.
* A read of a pointer of an entry is in one step with the last read of its
  label: the pointer never changes.
* `BeginLookup` requires that the link has a value at the query's timestamp. A
  query reaches a link only through its snapshot. That this holds of the list
  and of the tree is checked there (`EntryFound`), where the guard makes no
  difference.
* A validation reads its fields in one step. They belong to nodes the process
  has locked, or are written only by an eraser that holds one of those locks.
* In the lists and the tree, steps that touch only a process's own variables are
  joined with the next access. In `BundledList` an erase retires the node in the
  step that unlinks it.
* `Debra` frees any part of a bag where the code frees the full blocks of it, and
  has one type of record.
* In `RwlockList` the query's read of the link at which it leaves the list is joined with the read of the
  clock that begins `traversal_end`. The code may read a later time there; it serves only to pass over
  nodes deleted after the traversal, and a later one passes over fewer. The three limbo bags per process that the code scans are one sequence
  in the order of deletion.
* Values stored with keys are left out; so are statistics, debugging code and
  backoff.

## 3. Runs

| Run | Instance | Distinct states | Shows |
|---|---|---|---|
| `bundles` | 2 links, 2 updaters, 1 query that may also run `contains`; clock from 2 to 4 and one past | 58 234 | labels, settled past, snapshot reads, refinement of `SnapshotStore`, liveness |
| `bundles_cleanup` | 2 links, 1 updater that also queries, 1 query, the cleaner | 168 540 | the handshake and what the cleaner keeps |
| `bundles_dangling` | the same | - | finding 2 |
| `list` | keys 1 to 3, 3 processes, 6 nodes, 4 workloads | 151 836 | linearizability, whole snapshots, links against bundles, termination |
| `list_absent` | 3 processes, 1 workload | - | finding 1 |
| `citrus` | a tree of keys 1, 2, 5, 6, 7; 3 processes, 10 nodes, 8 workloads | 83 885 | the same of the tree; grace periods; what a query collects |
| `citrus_moved`, `citrus_range` | 2 processes, 1 workload | - | findings 3 and 4 |
| `debra` | 2 processes, 1 record, epochs 0 to 8, 4 bags of which 1 stays empty | 2 470 318 | nothing held is freed; three bags suffice |
| `vcas_list` | keys 1 to 3, 3 processes, 6 nodes, 4 workloads | 266 656 | linearizability, fixed past, locks |
| `vcas_marked` | 2 processes, 1 workload | - | finding 5 |
| `rwlock_list` | keys 1 to 3, 3 processes, 6 nodes, 5 workloads | 117 468 | linearizability, what a query finds, termination |

`bundles` starts with a bundle that has an entry and one that has none, the
node of the second being inserted by an update that writes both bundles; other
updates change one bundle, so that two of them can run at once and share a
clock value. Three labels are enough for a query to find its answer at the
head, behind one entry, or behind a pending one, and for an update to begin
after another has ended. `MaxClock` stops new updates, not the ones under way.
Stopping them can leave everyone with nothing to do but query again, so the
runs have no deadlock of their own, and deadlock is checked in all of them but
`debra`.

`bundles_cleanup` has a process that both updates and queries, so that the
cleaner meets an announcement made before and after each of its reads of the
table, with bundles of up to three entries, of which it can free two.

The workloads of `list` are: an insert behind a node that is being erased and
re-inserted, next to a query of both; inserts and erases in front of a node
that is being erased, next to a query of that node alone; two erases of one
key, one followed by a re-insertion, next to a lookup and a query; and two
inserts of one key, one followed by an erase, next to the same. These make an
update fail its validation, a search stop at a node that is deleted before the
query has its timestamp, and a query be led back to the head.

The tree of `citrus` has keys whose erase has no child to move, one child, a
successor that is the node's own child, and one that is further down. The
workloads put each kind of erase against inserts, erases, lookups and queries of
the keys around it. Their queries' results are not looked at (`Observed`),
because of finding 4; `CollectsSubtree` says what does hold of
them, from the node on where the query enters its range. No workload of this run
looks up a key while an erase moves it up from below another node, which is finding 3.

In `debra` the ring is as small as its assumption allows: a bag is freed after
three turns (in the build, with 9 bags of which 3 stay empty, after six). Eight
epochs turn the ring twice over, and `MinOps` = 2 makes a process announce an epoch
without scanning. `MaxEpoch` stops new operations, so the system comes to rest and
deadlock is not checked. One record is enough for each property, which speaks of
one record; that two processes are is not argued, but proved (section 4).

The workloads of `vcas_list` and `rwlock_list` are updates of one key and of neighbours,
next to a query of both, and two queries at once; in `vcas_list` the two can be of
one time, in `rwlock_list` every query has a time of its own. In the latter a process
inserts and then erases next to a query that must not miss only the insertion. The
results of lookups that find nothing are not looked at in `vcas_list`
(`ObserveAbsent`), because of finding 5. A `cas_vcas` of the list does not
fail, since it holds a lock (`LocksProtect`); its failure is in `VcasSpec`, which the proofs are about.

### Properties

* `BundleOrder`, `LabelsReached`: labels in order, one pending entry under its
  owner's lock; a finalized label is never ahead of the clock, also when the
  update did not itself advance it.
* `PastIsSettled`: no step changes what a link led to at a timestamp the clock
  has reached. A pending entry counts with the label it is certain to get,
  that is, from its owner's first load of the clock on.
* `ReadsSnapshot`, `ImplementsStore`: every read returns the link's value as of
  the query's read of the clock; the whole provider refines `SnapshotStore`.
  In the mapping an update takes effect when the clock reaches its label,
  together with all others that share it, and a query's snapshot is taken
  when it reads the clock. The refinement also says that an update does not
  return before it took effect.
* `OldestBoundsQueries`, `SnapshotKept`, `HeadNotFreed`: the cleaner's bound, the
  entries it keeps, and the head of a bundle a query is looking at.
* `Linearizable`, `EntryFound`, `EverySnapshotIsAList`, `CollectsSnapshot`,
  `LinksMatchBundles`, `OwnersHoldLocks`: of the list. `OwnersHoldLocks`
  discharges what `Bundles` takes for granted of its caller.
* `EverySnapshotIsATree`, `SnapshotsFollowUpdates`, `CollectsSubtree`,
  `LinksMatchBundles`, `GracePeriod`: of the tree. When the clock moves, the
  set the bundles hold changes by the updates that read the old clock and by
  nothing else; a move of a successor neither loses nor doubles a key.
* `HeldNotFreed`, `SafeBagsSuffice`, `EpochHeldBack`: a record an operation may hold is not
  freed; what was deleted while an operation runs is in the three bags it would
  scan; an announced epoch holds the global one back.
* `PastIsFixed`, `VersionFound`, `LocksProtect`: of vCAS. What an object was at a
  time that is over does not change, once no process is about to stamp a version
  with a time up to it. A query settles what it reads.
* `CollectsAlive`, `DeletedIsFound`: of the lock-based provider. A query finds the nodes
  alive at its time and no other, by times filled in late; a deleted node is always in
  the list, an announcement or a bag.
* `ReadReturns`, `UpdateReturns`, `OperationsReturn`: liveness.

### Fairness

A step that an operation can take is taken in the end (weak fairness for each
process): threads are scheduled, and the spins end once what they wait for is
done. Nothing makes a caller start another operation, or the cleaner run. No
claim is made that the cleaner gets through: it spins on flags that new
queries keep raising. Nothing is assumed of the locks; `OperationsReturn`
holds under weak fairness because the workloads are finite, so a lock cannot
be taken by others for ever. Likewise the readers-writer lock favours readers: an
endless stream of updates could keep a query out, and finite workloads have none.
`OperationsReturn` shows that there is no deadlock and no lost wake-up, not that there
is no starvation.

### Findings

1. **`list_absent`: a negative `erase` is not linearizable with range queries.**
   `erase` answers "absent" from the raw links alone
   (`bundle_lazylist/bundle_lazylist_impl.h:268-272`), but an insert takes its label
   before it writes the raw link. Insert(1) stalls after its label; insert(3)
   gets a later one and returns; erase(1) starts, sees no 1 and answers
   "absent"; a query at the earlier label waits for insert(1) and returns 1
   and 2 without 3. `contains` does not have this problem, as it ends on
   bundles and waits for pending entries. The run `list` therefore does
   not look at the result of an erase that finds nothing (`ObserveAbsent =
   FALSE`) and shows that everything else is linearizable.
2. **`bundles_dangling`: a query may read a freed entry in builds with a cleaner.**
   `getPtrByTimestamp` loads `second = curr->next_` while the head is pending and
   reads `second->ts_` afterwards (`bundle/linked_bundle.h:172-174`). If the head has
   been finalized in between with a label that the query's timestamp has
   reached, the announcement no longer protects the second entry. No other
   entry a query stands on is affected (`HeadNotFreed`).
3. **`citrus_moved`: `contains` misses a key that is moving.** An erase that moves a
   successor up changes the bundle of the successor's parent before it waits for
   readers, and the raw link after. A `contains` that ends its raw search at that
   parent reads the bundle (`bundle_citrus/bundle_citrus_impl.h:184`), does not find the
   successor below, and answers false although the key is in the set throughout.
4. **`citrus_range`: a range query misses a key next to an erase above its range.** In
   its third phase `rangeQuery` chooses a side by `curr->key` and reads the bundle of
   `pred` (`bundle_citrus/bundle_citrus_impl.h:551`). On 5, 3, 1 with 2 to the right of
   1, `rangeQuery(2, 3)` next to `erase(3)` reads the right bundle of 5 in
   place of that of 1 and returns nothing.
5. **`vcas_marked`: the vCAS list's query reads the mark of the head.** `rangeQuery` tests
   `head->marked` where it means the node's
   (`vcas_lazylist/vcas_lazylist_impl.h:301`), so a key is there for queries until
   it is unlinked, after a lookup has found it marked.

## 4. Proofs

For every value of the constants that meets the assumptions of the modules. Those of
`LinkedBundle` and `Bundles` say that timestamps are numbers, that an
update writes each of its bundles once, and that the initial bundles are in
order with labels up to the clock; that of `Urcu` that there is a thread; that of `Debra`
that the ring has three bags more than stay empty, and at least one that does;
that of `VersionedCas` that an object starts with one version or none, not ahead of the clock.

The lists assume more of what their constructors leave. `BundledList`
(`ListAssumption`, `KeysAssumption`, `InitListAssumption`): every process runs all operations and
there is no cleaner; there are finitely many nodes, any number of them; the keys of the set are
integers between those of the head and of the node at the end; and at every timestamp up to
the initial clock the initial bundles link the head to the end in the order of the
keys. `VcasList` (`VcasListAssumption`, `VcasKeysAssumption`, `VcasStartAssumption`): the objects
are the two fields of the nodes; the keys as before; a node of the initial list has
both fields and leads to a node whose own link is not younger, and the other nodes were
never used. `RwlockList` (`RwlockListAssumption`, `RwlockKeysAssumption`, `RwlockStartAssumption`):
the same of finitely many nodes and of the keys; the initial list is sorted, and the nodes in it
that hold keys, and no others, have an insertion time.

`CitrusTree` (`CitrusAssumption`, `InitTreeAssumption`) assumes of what the constructor and inserts
leave that a node has both its bundles or neither, that the two sentinels have them, and that
whenever a bundle leads to a node, that node's own bundles are no younger. There too every process runs
all operations and there is no cleaner. Any set of nodes and any sequence of calls will do.
The tree builds the sequences of writes that it hands to the provider itself, and its actions
do not mention the constant `Updates`. `EveryUpdate`, the hypothesis of the theorems that rest on the
provider, fixes `Updates` as all sequences that `UpdatesAssumption` allows. TLC could not enumerate them, so
the runs of the tree leave the set empty; no variable, action or property they check depends on it.

| Theorem | Module | States |
|---|---|---|
| `TypeCorrectness` | `BundlesProof` | `Spec => []TypeOK` |
| `LabelsOrdered` | `BundlesProof` | `Spec => []BundleOrder` |
| `ClockReachesLabels` | `BundlesProof` | `Spec => []LabelsReached` |
| `HistoryKept` | `BundlesProof` | `Spec => PastIsSettled` |
| `CleanerBounded` | `BundlesProof` | `Spec => []OldestBoundsQueries` |
| `NeededEntriesKept` | `BundlesProof` | `Spec => []SnapshotKept` |
| `LoadedHeadKept` | `BundlesProof` | `Spec => []HeadNotFreed` |
| `QueriesReadSnapshot` | `BundlesProof` | `~Cleanup` implies `Spec => []ReadsSnapshot` |
| `ProviderImplementsStore` | `BundlesProof` | `~Cleanup` implies `Spec => ImplementsStore` |
| `ListUsesProvider` | `ListProof` | `ListSpec => Spec` |
| `OwnersLock` | `ListProof` | `ListSpec => []OwnersHoldLocks` |
| `UnlockedLinksMatch` | `ListProof` | `ListSpec => []LinksMatchBundles` |
| `ListTypes` | `ListProof` | `ListSpec => []ListTypeOK` |
| `EntriesFound` | `ListProof` | `ListSpec => []EntryFound` |
| `SnapshotsAreLists` | `ListProof` | `ListSpec => []EverySnapshotIsAList` |
| `QueriesCollect` | `ListProof` | `ListSpec => []CollectsSnapshot` |
| `ListLinearizes` | `ListProof` | `~ObserveAbsent` implies `ListSpec => []Linearizable` |
| `GracePeriodHolds` | `CitrusProof` | `RcuSpec => []GracePeriod` |
| `TreeRunsReaders` | `CitrusProof` | `TreeSpec => RcuSpec` |
| `TreeWaitsForSearches` | `CitrusProof` | `TreeSpec => []GracePeriod` |
| `TreeInvariance` | `CitrusProof` | `EveryUpdate` implies `TreeSpec => [](SInv /\ TreeInv /\ RcuTypeOK)` |
| `TreeRunsProvider` | `CitrusProof` | `EveryUpdate` implies `TreeSpec => Spec` |
| `TreeQueriesReadSnapshot` | `CitrusProof` | `EveryUpdate` implies `TreeSpec => []ReadsSnapshot /\ ImplementsStore` |
| `TreeTypes` | `CitrusProof` | `EveryUpdate` implies `TreeSpec => []TreeTypeOK` |
| `EntriesAreFound` | `CitrusProof` | `EveryUpdate` implies `TreeSpec => []EntryFound` |
| `LinksFollowBundles` | `CitrusProof` | `EveryUpdate` implies `TreeSpec => []LinksMatchBundles` |
| `DebraTypes` | `DebraProof` | `DebraSpec => []DebraTypeOK` |
| `HeldRecordsLive` | `DebraProof` | `DebraSpec => []HeldNotFreed` |
| `EpochIsHeldBack` | `DebraProof` | `DebraSpec => []EpochHeldBack` |
| `ScannedBagsSuffice` | `DebraProof` | `DebraSpec => []SafeBagsSuffice` |
| `VersionsInOrder` | `VcasProof` | `VcasSpec => []VersionsOrdered` |
| `PastStaysFixed` | `VcasProof` | `VcasSpec => PastIsFixed` |
| `VcasListUsesProvider` | `VcasListProof` | `VcasListSpec => VcasSpec` |
| `StampedUnderLock` | `VcasListProof` | `VcasListSpec => []LocksProtect` |
| `VersionsFound` | `VcasListProof` | `VcasListSpec => []VersionFound` |
| `QueriesCollectAlive` | `RwlockProof` | `RwlockListSpec => []CollectsAlive` |
| `DeletedNodesAreFound` | `RwlockProof` | `RwlockListSpec => []DeletedIsFound` |
| `OperationsLinearize` | `RwlockProof` | `RwlockListSpec => []Linearizable` |

*`IInv`* (theorem `Invariance`). `BundleOrder` is not inductive: that a new label is the
greatest of its bundle needs the lock and the clock. `IInv` says that the
bundles a process owns are exactly those of its update (`OwnerInv`); that a
pending entry is a head which some update has yet to finalize (`PendingInv`), and
that the heads an update has prepared and not finalized are pending, over labels
of at most the clock value it loaded (`AwaitInv`); that no label is ahead of the
clock, and that an update in its finalizing phase has seen the clock pass the
value it loaded (`ClockInv`, `UpdateInv`, `LabelsReached`). When an update loads the
clock, every label below its pending entries is at most that value, and its
own will be greater. `HistoryKept` follows: an entry's label is settled at the
load, above the clock, so it is visible at none of the timestamps reached.

*`CInv`* is the handshake. The cleaner reads the clock first, so a query that
reads the clock later has no older timestamp than the bound. A query that read
it before raised its flag earlier still, and lowers it only when its timestamp
is in the table: when the cleaner finds the flag down, either the timestamp is
there for it to read, or the query is yet to read the clock. Where a bundle has been cut, its oldest
entry left has a label that no query is older than. *`HInv`* adds that nothing
in front of the head a query has loaded is visible at its timestamp, so the
oldest entry left is never in front of that head either.

*`RInv`*: the entry a query is looking for is never in front of the one it
stands on. The step past a pending head in `CheckSecond` is right because the
head's label, whatever it turns out to be, is greater than that of the second
entry. With the cleaner the statement needs the second entry to be protected,
which finding 2 contradicts; hence `~Cleanup`.

*`SInv`* adds to `RInv` that from `prepare` until the update returns the head of a
bundle leads where the update says (`PtrInv`), and that a process outside a query has no timestamp and no
result (`QuietInv`). `BeginUpdate`, `EndUpdate`, `ReadClock`, `BeginLookup`, the
last step of a lookup and `EndTraversal` map to `Begin`, `End`, `Take`, `Forget`,
`Answer` and `Release` of the store. `FetchAdd` maps to `Commit` of the updates
that loaded the clock's present value (`Arriving`), or to a stutter when there
is none: those have prepared all their bundles, so at the next value each of
their links leads to its pending head, and no other link has a label there
(`ClockAdvances`). All other steps stutter, `Finalize` included, because the
past is settled.

*`LInv`* is about the list and its bundles together, and is inductive with `SInv`.

* `LinkInv`: the raw link of a node leads to an inserted node with a greater key, and
  unless an update is under way to where the newest entry of its bundle leads.
  A node is inserted when its bundle has a value at the clock: that is before the raw link
  to it is written, which is why a search never ends at a node without one.
* `ListInv`: at every timestamp, the ones to come included, the bundles link the
  head to the end in the order of the keys. A pending entry counts with the
  label it is certain to get, so of all steps only an update's load of the clock
  (`LoadTS`) changes any of these lists, and only the future ones; there it
  replaces one link by two, or two by one, between nodes it has locked.
* Per process (`LocalInv`): where it stands in its own operation and in the
  provider's (`CallInv`, `PcInv`), that a search stopped between two inserted nodes around
  its key (`PlaceInv`), the locks it holds (`LockInv`), what its update has written
  (`WriteInv`) and that no timestamp shows it before the load (`UnseenInv`),
  and that a query's snapshot has the node it stands on (`EntryInv`).

The locks and the validation give an update what it needs at the load: the two links
it changes are those `ListInv` talks about, since nobody else owns their bundles. From `LInv`
it follows that every step of the list is a step of the provider (`ListUsesProvider`), so
that what is proved of the provider holds in the list; `OwnersLock` and `EntriesFound` are the
two things `Bundles` takes for granted of its caller. For `SnapshotsAreLists` the
whole list at a timestamp has to be constructed from its links: that a path of distinct nodes to the
end exists is by counting up to the number of nodes (`CountsUp`), and that it has reached the end by
then is by the pigeonhole principle, as its keys increase.

*`CollectInv`* adds to `LInv` what a query has collected: the keys its snapshot links, from the lower end
of the range up to the node whose bundle it reads (`Collected`). That nothing is missed at a step to the next
node is `NoneBetween`: every linked node is on the way from the head (`WalkComplete`), along which keys
only increase. A query may start at a node that was erased before its timestamp. It is
then led back to the head with nothing collected, and the claim holds as the node's key is below the range.

*The observer* (`ObserverProof`), for any set of calls: what `Closure` holds is formed (`ClosureFormed`), is
closed under one more call taking effect (`ClosureClosed`: there are only as many steps as processes), and lasts
when a call comes or returns. A proof of linearizability names, at every state, the set `S` the structure stands for, the updates
`T` that have taken effect and a set `R[q]` of results for each call `q`; `Accounts` says that the calls can have led
to `S` whatever results are picked from `R`, and with each call that is not in `T` still open if one likes. The lemmas say how this
changes when updates take effect together (`TakesMany`), when a call that would leave the set
as it is may take effect (`ReadsOne`, `ReadsAll`), and when calls come and return; a configuration is
always left (`AccountsLeft`).

*`LinInv`* (theorem `ListLinearizes`), of the bundled list, with `CollectInv`. The raw links cannot say when an update takes effect: two updates
with the same label write theirs at different moments, and a query that has read the clock later must see both.

* The set `AbstractKeys` is what the bundles link at the clock, so it changes at one step only, the advance of the
  clock (`AdvanceHolds`). There all updates that have loaded its old value take effect at once (`NextKeys`): each
  stands on a place nobody else can change (`ArrivingPlace`), so they are about different keys (`ArrivingApart`), every insert
  misses its key and every erase has it. That the place is as at the present clock is `CommitInv`: if an update
  loads the clock, any earlier update of the same link was final, so its label had been passed.
* A range query takes effect when it reads the clock, as its snapshot then is the set; what it collects later is
  that set, by `CollectInv`. An insert that finds its key found it under its locks, and nobody has prepared
  the bundle to it, so the key is in the set (`PresentListed`).
* `contains` reads raw links up to a node and bundles after it, waiting for each pending entry. By `SawHop` the entry
  it reads leads it where the set of some moment within its call does, or will at the moment its label is
  reached: an entry with a label not reached yet is the newest (`UnreachedNewest`), and it is looked at again when the clock advances. A node
  found marked has left the set, since the mark is written after the clock was advanced (`MarkedGone`).
* An erase that finds nothing follows raw links without a lock or a bundle. Its answer may
  contradict a range query (finding 1), so the theorem leaves it out, as the run does.

*RCU.* A thread that synchronizes still awaits every section that was open when it began,
unless the section has ended: it has yet to read the counter, or has read an even
value that the counter still has and has yet to wait for it (`Awaited`). When it has
been through the table it awaits nobody.

*`TreeInv`* (theorem `TreeInvariance`), of the tree with the provider's `SInv`. None of the three properties
is inductive: each needs to know what every operation in progress has locked, prepared and yet to write.

* `RawInv`, `ClosedInv`: the raw links of the nodes in use lead to nodes that are in the tree by now
  (`InTree`: both bundles have a value at the clock), and an entry of a bundle leads to a node whose bundles
  have a value at that entry's label. So a query, which goes from one entry to the next at one
  timestamp, always finds one (`TreeSnapshotInv`, from which `EntryFound` follows in each of its phases).
* `MatchInv`: a link that belongs to no update is what its newest entry says. While it belongs to one,
  `WriteOf` says how the two differ: only in the link to be written at the linearization, in
  the link to the old successor until the grace period is over (`Unfixed`), and in links of deleted nodes.
* `Target`: where a write of an update leads is in the tree already or is the update's own new
  node. The new node has no bundles before the update prepares them (`Newborn`), is invisible until
  the clock is loaded, and from then on has the update's own label, as the links to it have
  (`InUpdate`). This is why the label is taken after all bundles are prepared, the new node's included:
  an erase with two children prepares up to six bundles of up to four nodes under one label.
* Per process (`TreeLocalInv`): the place in its own operation and in the provider's (`TreeOpInv`,
  `TreePcInv`); that a search, which may stand on nodes long deleted, stands on nodes that were in the tree
  (`TreePlaceInv`); the locks held, and that they are on different nodes (`TreeLockInv`), which with the
  validation shows that an update's bundles are distinct, as `BeginUpdate` demands.

Every step of the tree is then a step of the provider or leaves it alone (`TreeRunsProvider`), so
`QueriesReadSnapshot` and `ProviderImplementsStore` hold of the tree, whatever its updates are; and
`TreeRunsReaders` brings the grace periods of `Urcu` to the tree.

*DEBRA.* While an operation runs, the epoch is at most one step (2) ahead of what its
process announced, because whoever advances the epoch has seen that announcement, or has
seen the process quiescent before it announced the present epoch (`HeldBackInv`, `ScanInv`,
`CheckedInv`). So another process can turn its ring at most twice during the
operation. A record held was linked during the operation, so it was retired, if
at all, at most two turns ago (`AgeInv`, `RecordInv`), and a bag is freed three turns later
at the earliest. The same count shows that the current bag and the two before it
hold everything deleted during the operation.

*vCAS.* `VcasInv`: versions are in order; only the newest can lack a timestamp; a
process on its way to stamp a version stands on one, and if that one still has no
timestamp, the clock value it loaded is not older than the versions below. A version
is installed only on top of one with a timestamp, so later versions get their time from later
loads. What an object was at time `t` depends only on the versions of up to `t`. Once `t` is
over no process can load it any more, and those that had loaded it are what
`Settled` excludes. That the newest version up to `t` exists is by
the well-foundedness of the numbers (`VersionAtFinds`).

*`VLInv`*, of the list on versioned fields, with `VcasInv`. A field has a version without a
timestamp only while the process that wrote it is about to stamp it (`OwnerStamps`), and
holds the lock of its node (`HoldsLocks`); so what a process compares with under
its locks is still the newest version when it swaps, and `cas_vcas` does not fail. For
the queries, every version of a link leads to a node whose own fields are no younger than
that version (`ListLinks`): `new_node` stamps both before the node is linked. The
statement has to hold of versions not stamped yet, for the value of the clock that their
writer, or a helper, has already loaded. So a query that is led to a node as of its snapshot finds
a version of that time there (`Queries`).

*`RwInv`* (theorem `RwlockInvariance`), of the list with the lock-based provider. Neither property is
inductive: that a query misses nothing depends on where a node is at each moment between its mark and
its bag, and on the clock standing still between the write of an update and the times it fills in.

* `Structure`: the nodes of the list (`Listed`: linked, and not yet unlinked if marked) are in the order
  of their keys, with none between a node and the one it leads to. A node that was unlinked still leads
  to a node that was linked, with a greater key.
* `Own`: where each process stands, the locks it holds, what it found valid under them and has changed since.
* `RwLock`: the lock word counts the readers; no query moves the clock between the read of an update
  and its write, so that an update linearizes at the time it gives its nodes.
* `Times`, `Bags`, `Kept`: times are set once, up to the clock; a bag is in the order of deletion, since its
  owner retires one node before it erases the next; a marked node is in the hands of its eraser, which
  announces it before it unlinks it, or in a bag.
* `Queries`: of a query with time `t`. `Targets` are the nodes in its range that were alive at `t`,
  which no step of an update changes any more (`AliveStays`). Each is collected, or is being looked at, or is `Ahead`:
  further on in the list, or announced, or in a bag, of what the query has yet to see. `OnTrack` is the hard part: from
  the node it stands on, which may have been unlinked long ago, there is a way to the end
  along nodes that skip none alive at `t`. When an erase unlinks a node after the query has
  passed the place it is announced already, and the query reads the announcements after the list, and each
  bag after the announcement (`ToCome`). That the query stops in a bag at the first node deleted too early
  is right because of the order in it.

`CollectsAlive` is `Queries` with nothing ahead any more. For `DeletedIsFound` the set `Reachable` has to be
computed: it has one node more after each step until it has all of `Listed` (`ReachGrows`), and there
are not more steps to take than there are nodes.

*`LinInv`* (theorem `OperationsLinearize`), of the same list, on top of `RwInv`. It says that the observer
still has an explanation of the history, and which one (`Explained`). It uses the same facts about
the observer (`ObserverProof`).

* The set the list stands for is `AbstractKeys`, the keys of its unmarked nodes. It changes only when the
  link of an insert or the mark of an erase is written (`KeysStay`, `KeyLinked`, `KeyMarked`): there the update takes effect.
* A call that would not change the set can take effect at any moment, with what it would report then
  (`ReadAll`). So every call in progress has a set of results it may report (`R` of `Explains`), which only grows; the
  calls can have led to the set of now with any choice of them, or with the call still open.
* `Saw` says that what a process is about to report is in its set. An insert that finds its key saw it unmarked under
  its locks. A range query's result is the set at the moment it advances the clock (`AdvanceStep`, by `CollectsAlive`).
  The hard case is a `contains`, or an erase, that finds nothing: it may walk on nodes that left the list long ago and miss a
  key inserted since. As long as the key has been there all the time, it is on a `Path` where it cannot miss it
  (`PathStays`); if it misses it, there was a moment, in its own interval, without the key, and
  "not found" has been in its set from then on.

Only model-checked:

* Liveness (`ReadReturns`, `UpdateReturns`, `OperationsReturn`): fairness is out of the
  prover's reach.
* `Linearizable`, of the list on versioned fields and of the tree. There an update takes effect before or after the
  write that `contains` sees, depending on who asks, so the set of now is not a function of the state.
* That the Citrus tree is a search tree (`EverySnapshotIsATree`), and what follows from that
  (`SnapshotsFollowUpdates`, `CollectsSubtree`): no attempt has been made to prove them. `TreeInv` says
  which nodes the links lead to, not between which keys they hang. That a new key
  belongs where its search ended is an argument about all searches in progress and the grace periods
  they are in: a move of a successor narrows the range of its old subtree while they run.

## 5. Not modelled

Of what is modelled:

* Bundles: the `BUNDLE_RQTS` builds, where queries advance the clock;
  `BUNDLE_CLEANUP_UPDATE`, where updates clean; `contains` next to the cleaner;
  `BUNDLE_LOCKFREE` prepare and `abort`, which no locked structure calls.
* Lists: the insert that replaces a value, single-threaded validation and debug
  walks. Citrus: `cleanup`, `find` (without a caller), the build with `RCU_USE_TSC`.
* vCAS: the build without `NVCAS_OPTIMIZATION`, back-off.
* Lock-based provider: `linearize_update_at_cas`, structures without logical
  deletion, `physical_deletion_failed`, `COLLECT_ANNOUNCEMENTS_FAST`, the other
  builds of `common/rwlock.h`.
* Record manager: DEBRA+ (signals), hazard pointers, the RCU reclaimer; blocks,
  pools and allocators, which are sequential containers of a process.

Not modelled at all, and why:

* The bundled **skip list** links and marks like the list on its bottom level, on
  the same provider; its upper levels only speed up searches. The bundled **BST** is
  not among the structures the repository's README names.
* The **circular bundle** is an experiment that no build can use: `rq/rq_bundle.h:18-20` stops the
  compiler with `#error`, and it does not offer the operation `getPtr` that all three structures call.
* The **lock-free provider** with DCSS needs helping and descriptor reuse with
  sequence numbers; **hardware transactions** have no meaning in the code alone.
* The **other structures** on vCAS fields and on the EBR-based providers (skip lists, Citrus,
  BST, lock-free list, b-slack tree) call the interfaces modelled here; their own
  searches and rebalancing are left aside.
* The **snap collector** and **RLU** are third-party competitors, included for
  comparison; the unsafe variants promise nothing.
* **Benchmarks**, the DBx1000 database, statistics, random numbers, thread binding and PAPI
  headers are drivers and utilities. They are most of the repository's 45 000 lines,
  and the reason why the lines mapped here are a small share of it.

What could come next: a proof that the bundled tree keeps the order of its keys; `BUNDLE_RQTS`; DCSS.

## 6. Running

    tlc -workers 2 -config MCBundles.cfg MCBundles.tla
    tlc -workers 2 -config MCCitrusRange.cfg MCCitrus.tla
    tlapm BundlesProof.tla

The longest runs take two to three minutes. Each action that a plausible bug would
change has such a change next to it ("Mutant"); `PROJECT.json` says which property
it breaks.
