------------------------------ MODULE Bundles -------------------------------
(***************************************************************************)
(* The bundled range-query provider: a global timestamp, the table of      *)
(* announced range queries (rq/rq_bundle.h) and one linked bundle per link *)
(* (bundle/linked_bundle.h), as used by updates, range queries, contains   *)
(* and the background cleaner of a data structure.                         *)
(*                                                                         *)
(* Every process runs one operation at a time; each action is one access   *)
(* to shared memory, in the order the code makes them.  The data structure *)
(* that calls the provider appears through what it must guarantee: it      *)
(* locks a node before it changes the node's bundle, and it follows only   *)
(* pointers that the snapshot it reads led it to.                          *)
(***************************************************************************)
EXTENDS LinkedBundle, FiniteSets

CONSTANTS
  Bundles,    \* the links of the data structure that have a bundle
  NoPtr,      \* no result (getPtrByTimestamp returned false)
  NoBundle,   \* no bundle is being read
  NumProcs,   \* num_processes: the size of the announcement table
  Updaters,   \* processes that run updates
  Queriers,   \* processes that run range queries
  Getters,    \* processes that run contains
  Updates,    \* the updates a caller may ask for: sequences of (bundle, pointer)
  InitBundle, \* the bundles, and
  InitClock,  \* the clock, that the constructor and earlier updates have left
  Cleanup,    \* built with BUNDLE_CLEANUP_BACKGROUND
  MaxClock    \* bound: no update starts once the clock has reached it

Procs == 1 .. NumProcs
NoProc == 0

\* BUNDLE_NULL_TIMESTAMP, and the label of the constructor's own update, the
\* first after BUNDLE_MIN_TIMESTAMP.
NullTS == 0
FirstTS == 2

ASSUME ProcsAssumption ==
  /\ NumProcs \in Nat \ {0}
  /\ Updaters \subseteq Procs /\ Queriers \subseteq Procs /\ Getters \subseteq Procs
ASSUME BundlesAssumption ==
  /\ NoPtr \notin Ptrs /\ NoBundle \notin Bundles
ASSUME UpdatesAssumption ==
  \A w \in Updates :
     /\ w \in Seq([bundle : Bundles, ptr : Ptrs])
     /\ w # <<>>
     /\ \A i, j \in 1 .. Len(w) : w[i].bundle = w[j].bundle => i = j
ASSUME ClockAssumption ==
  /\ Cleanup \in BOOLEAN
  /\ MaxClock \in Nat
  /\ InitClock \in Nat /\ FirstTS <= InitClock /\ InitClock < Pending
ASSUME InitAssumption ==
  /\ InitBundle \in [Bundles -> Bundle]
  /\ \A b \in Bundles :
       LET e == InitBundle[b].entries IN
       /\ InitBundle[b].low = 1
       /\ \A i \in 1 .. Len(e) : e[i].ts \in FirstTS .. InitClock
       /\ \A i, j \in 1 .. Len(e) : i < j => e[i].ts < e[j].ts

VARIABLES
  clock,    \* curr_timestamp_
  bundle,   \* the bundle of each link
  owner,    \* the process whose update holds the lock of the link's node
  pc,       \* where each process is in its operation
  upd,      \* the bundles and pointers of a process's update
  idx,      \* how far prepare_bundles / finalize_bundles has come
  ts,       \* getNextTS: the clock value an update's label is made from
  flag,     \* rq_flag: the process is about to announce a range query
  lin,      \* rq_lin_time: the announced timestamp of a range query
  qts,      \* the timestamp a range query reads at
  at,       \* the bundle a read is in
  cur,      \* the bundle entry a read stands on
  out,      \* what the last read returned
  cpc, oldest, scan, cbun, chead   \* the cleaner and its local variables

updateVars == <<owner, upd, idx, ts>>
announceVars == <<flag, lin>>
readVars == <<at, cur, out>>
cleanVars == <<cpc, oldest, scan, cbun, chead>>
vars == <<clock, bundle, owner, pc, upd, idx, ts, flag, lin, qts, at, cur, out,
          cpc, oldest, scan, cbun, chead>>

UpdatePCs == {"prepare", "load", "reload", "bump", "finalize", "unlock"}
AnnouncePCs == {"clock", "announce", "clear"}
LookupPCs == {"first", "second", "secondTS", "wait", "walk"}
GetPCs == {"get", "got"}
PCs == {"idle", "query"} \cup UpdatePCs \cup AnnouncePCs \cup LookupPCs \cup GetPCs

TypeOK ==
  /\ clock \in Nat
  /\ bundle \in [Bundles -> Bundle]
  /\ owner \in [Bundles -> Updaters \cup {NoProc}]
  /\ pc \in [Procs -> PCs]
  /\ upd \in [Procs -> Updates \cup {<<>>}]
  /\ idx \in [Procs -> Nat] /\ \A p \in Procs : idx[p] <= Len(upd[p])
  /\ ts \in [Procs -> Nat]
  /\ flag \in [Procs -> BOOLEAN]
  /\ lin \in [Procs -> Nat]
  /\ qts \in [Procs -> Nat]
  /\ at \in [Procs -> Bundles \cup {NoBundle}]
  /\ cur \in [Procs -> Nat]
  /\ out \in [Procs -> Ptrs \cup {NoPtr}]
  /\ cpc \in {"idle", "scan", "lin", "clean", "cut"}
  /\ oldest \in Nat
  /\ scan \in Procs
  /\ cbun \in Bundles \cup {NoBundle}
  /\ chead \in Nat

Init ==
  /\ clock = InitClock
  /\ bundle = InitBundle
  /\ owner = [b \in Bundles |-> NoProc]
  /\ pc = [p \in Procs |-> "idle"]
  /\ upd = [p \in Procs |-> <<>>]
  /\ idx = [p \in Procs |-> 0]
  /\ ts = [p \in Procs |-> NullTS]
  /\ flag = [p \in Procs |-> FALSE]
  /\ lin = [p \in Procs |-> NullTS]
  /\ qts = [p \in Procs |-> NullTS]
  /\ at = [p \in Procs |-> NoBundle]
  /\ cur = [p \in Procs |-> 0]
  /\ out = [p \in Procs |-> NoPtr]
  /\ cpc = "idle" /\ oldest = NullTS /\ scan = 1 /\ cbun = NoBundle /\ chead = 0

-----------------------------------------------------------------------------
(***************************************************************************)
(* The label that entry i of bundle b has, or is certain to get: that of a *)
(* pending entry is settled when its owner loads the clock.                *)
(***************************************************************************)
Label(b, i) ==
  IF ~IsPending(bundle[b], i) THEN bundle[b].entries[i].ts
  ELSE IF owner[b] # NoProc /\ ts[owner[b]] # NullTS THEN ts[owner[b]] + 1
  ELSE Pending

\* The entries of b that a reader at time t may see, the newest of them, and
\* where it leads: the value of the link at time t.
Visible(b, t) == {i \in 1 .. Newest(bundle[b]) : Label(b, i) <= t}

VersionAt(b, t) == LET seen == Visible(b, t) IN CHOOSE i \in seen : \A j \in seen : j <= i

ValueAt(b, t) ==
  IF Visible(b, t) = {} THEN NoPtr ELSE bundle[b].entries[VersionAt(b, t)].ptr

-----------------------------------------------------------------------------
(***************************************************************************)
(* Updates: prepare_bundles, linearize_update_at_write, finalize_bundles.  *)
(***************************************************************************)
BundlesOf(w) == {w[i].bundle : i \in 1 .. Len(w)}

\* The caller has locked the nodes of the update's bundles.
BeginUpdate(p, w) ==
  /\ pc[p] = "idle"
  /\ clock < MaxClock
  /\ \A b \in BundlesOf(w) : owner[b] = NoProc
  /\ owner' = [b \in Bundles |-> IF b \in BundlesOf(w) THEN p ELSE owner[b]]
  /\ upd' = [upd EXCEPT ![p] = w]
  /\ idx' = [idx EXCEPT ![p] = 1]
  /\ pc' = [pc EXCEPT ![p] = "prepare"]
  /\ UNCHANGED <<clock, bundle, ts, qts, announceVars, readVars, cleanVars>>

\* Mutant: the loop runs once too often.
NextBundleOnceMore(p, then) ==
  IF idx[p] <= Len(upd[p])
  THEN idx' = [idx EXCEPT ![p] = @ + 1] /\ UNCHANGED pc
  ELSE idx' = [idx EXCEPT ![p] = 1] /\ pc' = [pc EXCEPT ![p] = then]

\* Moves on to the update's next bundle, or to the step named "then".
NextBundle(p, then) ==
  IF idx[p] < Len(upd[p])
  THEN /\ idx' = [idx EXCEPT ![p] = @ + 1]
       /\ UNCHANGED pc
  ELSE /\ idx' = [idx EXCEPT ![p] = 1]
       /\ pc' = [pc EXCEPT ![p] = then]

Prepare(p) ==
  LET w == upd[p][idx[p]] IN
  /\ pc[p] = "prepare"
  /\ bundle' = [bundle EXCEPT ![w.bundle] = Prepared(@, w.ptr)]
  /\ NextBundle(p, "load")
  /\ UNCHANGED <<clock, owner, upd, ts, qts, announceVars, readVars, cleanVars>>

\* Mutant: an update is labelled with the clock's value, not the next one.
LoadTSCurrent(p) ==
  /\ pc[p] = "load"
  /\ ts' = [ts EXCEPT ![p] = clock - 1]
  /\ pc' = [pc EXCEPT ![p] = "reload"]
  /\ UNCHANGED <<clock, bundle, owner, upd, idx, qts, announceVars, readVars, cleanVars>>

\* getNextTS, first load.  A timestamp is a long long: here and in FetchAdd
\* neither a label nor the clock gets as far as Pending.
LoadTS(p) ==
  /\ pc[p] = "load"
  /\ clock + 1 < Pending
  /\ ts' = [ts EXCEPT ![p] = clock]
  /\ pc' = [pc EXCEPT ![p] = "reload"]
  /\ UNCHANGED <<clock, bundle, owner, upd, idx, qts, announceVars, readVars, cleanVars>>

\* Mutant: the comparison is inverted.
ReloadTSInverted(p) ==
  /\ pc[p] = "reload"
  /\ pc' = [pc EXCEPT ![p] = IF clock # ts[p] THEN "bump" ELSE "finalize"]
  /\ UNCHANGED <<clock, bundle, updateVars, qts, announceVars, readVars, cleanVars>>

\* Mutant: a compare-and-swap loop that never reloads what it expects.
ReloadTSStale(p) ==
  /\ pc[p] = "reload"
  /\ clock = ts[p]
  /\ pc' = [pc EXCEPT ![p] = "bump"]
  /\ UNCHANGED <<clock, bundle, updateVars, qts, announceVars, readVars, cleanVars>>

\* getNextTS, second load: another update that advanced the clock meanwhile
\* has done so for this one too.
ReloadTS(p) ==
  /\ pc[p] = "reload"
  /\ pc' = [pc EXCEPT ![p] = IF clock = ts[p] THEN "bump" ELSE "finalize"]
  /\ UNCHANGED <<clock, bundle, updateVars, qts, announceVars, readVars, cleanVars>>

\* getNextTS, fetch_add; its result only tunes the backoff.
FetchAdd(p) ==
  /\ pc[p] = "bump"
  /\ clock + 1 < Pending
  /\ clock' = clock + 1
  /\ pc' = [pc EXCEPT ![p] = "finalize"]
  /\ UNCHANGED <<bundle, updateVars, qts, announceVars, readVars, cleanVars>>

\* Mutant: getNextTS hands out the value before the increment.
FinalizeOld(p) ==
  LET w == upd[p][idx[p]] IN
  /\ pc[p] = "finalize"
  /\ bundle' = [bundle EXCEPT ![w.bundle] = Finalized(@, ts[p])]
  /\ NextBundle(p, "unlock")
  /\ UNCHANGED <<clock, owner, upd, ts, qts, announceVars, readVars, cleanVars>>

\* Mutant: only the first bundle is finalized.
FinalizeFirst(p) ==
  LET w == upd[p][idx[p]] IN
  /\ pc[p] = "finalize"
  /\ bundle' = [bundle EXCEPT ![w.bundle] = Finalized(@, ts[p] + 1)]
  /\ pc' = [pc EXCEPT ![p] = "unlock"]
  /\ UNCHANGED <<clock, owner, upd, idx, ts, qts, announceVars, readVars, cleanVars>>

Finalize(p) ==
  LET w == upd[p][idx[p]] IN
  /\ pc[p] = "finalize"
  /\ bundle' = [bundle EXCEPT ![w.bundle] = Finalized(@, ts[p] + 1)]
  /\ NextBundle(p, "unlock")
  /\ UNCHANGED <<clock, owner, upd, ts, qts, announceVars, readVars, cleanVars>>

EndUpdate(p) ==
  /\ pc[p] = "unlock"
  /\ owner' = [b \in Bundles |-> IF owner[b] = p THEN NoProc ELSE owner[b]]
  /\ upd' = [upd EXCEPT ![p] = <<>>]
  /\ idx' = [idx EXCEPT ![p] = 0]
  /\ ts' = [ts EXCEPT ![p] = NullTS]
  /\ pc' = [pc EXCEPT ![p] = "idle"]
  /\ UNCHANGED <<clock, bundle, qts, announceVars, readVars, cleanVars>>

-----------------------------------------------------------------------------
(***************************************************************************)
(* Range queries: start_traversal, getPtrByTimestamp, end_traversal.       *)
(***************************************************************************)
StartTraversal(p) ==
  /\ pc[p] = "idle"
  /\ flag' = [flag EXCEPT ![p] = TRUE]
  /\ pc' = [pc EXCEPT ![p] = "clock"]
  /\ UNCHANGED <<clock, bundle, updateVars, lin, qts, readVars, cleanVars>>

ReadClock(p) ==
  /\ pc[p] = "clock"
  /\ qts' = [qts EXCEPT ![p] = clock]
  /\ pc' = [pc EXCEPT ![p] = "announce"]
  /\ UNCHANGED <<clock, bundle, updateVars, announceVars, readVars, cleanVars>>

\* Mutant: the timestamp is not announced.
AnnounceNothing(p) ==
  /\ pc[p] = "announce"
  /\ pc' = [pc EXCEPT ![p] = "clear"]
  /\ UNCHANGED <<clock, bundle, updateVars, announceVars, qts, readVars, cleanVars>>

Announce(p) ==
  /\ pc[p] = "announce"
  /\ lin' = [lin EXCEPT ![p] = qts[p]]
  /\ pc' = [pc EXCEPT ![p] = "clear"]
  /\ UNCHANGED <<clock, bundle, updateVars, flag, qts, readVars, cleanVars>>

ClearFlag(p) ==
  /\ pc[p] = "clear"
  /\ flag' = [flag EXCEPT ![p] = FALSE]
  /\ pc' = [pc EXCEPT ![p] = "query"]
  /\ UNCHANGED <<clock, bundle, updateVars, lin, qts, readVars, cleanVars>>

\* getPtrByTimestamp loads head_.  The query has reached a link that its
\* snapshot has a value for.
BeginLookup(p, b) ==
  /\ pc[p] = "query"
  /\ ValueAt(b, qts[p]) # NoPtr
  /\ at' = [at EXCEPT ![p] = b]
  /\ cur' = [cur EXCEPT ![p] = Newest(bundle[b])]
  /\ out' = [out EXCEPT ![p] = NoPtr]
  /\ pc' = [pc EXCEPT ![p] = "first"]
  /\ UNCHANGED <<clock, bundle, updateVars, announceVars, qts, cleanVars>>

\* Whether the cleaner has freed entry i of bundle b.  What a read of a freed
\* entry finds is undefined: any comparison, any pointer.
Freed(b, i) == i \in 1 .. bundle[b].low - 1

\* The read returns what entry i leads to.
Return(p, i, next) ==
  /\ \E v \in IF i = 0 THEN {NoPtr}
              ELSE IF Freed(at[p], i) THEN Ptrs ELSE {bundle[at[p]].entries[i].ptr} :
        out' = [out EXCEPT ![p] = v]
  /\ cur' = [cur EXCEPT ![p] = 0]
  /\ pc' = [pc EXCEPT ![p] = next]

Continue(p, i, next) ==
  /\ cur' = [cur EXCEPT ![p] = i]
  /\ pc' = [pc EXCEPT ![p] = next]
  /\ UNCHANGED out

\* The head entry satisfies the timestamp, or the second one is looked at.
CheckFirst(p) ==
  /\ pc[p] = "first"
  /\ LET freed == Freed(at[p], cur[p])
         curr_ts == bundle[at[p]].entries[cur[p]].ts
     IN  \/ (freed \/ curr_ts <= qts[p]) /\ Return(p, cur[p], "query")
         \/ (freed \/ curr_ts > qts[p]) /\ Continue(p, cur[p], "second")
  /\ UNCHANGED <<clock, bundle, updateVars, announceVars, qts, at, cleanVars>>

LoadSecond(p) ==
  /\ pc[p] = "second"
  /\ Continue(p, cur[p],
              IF NextOf(bundle[at[p]], cur[p]) = 0 THEN "wait" ELSE "secondTS")
  /\ UNCHANGED <<clock, bundle, updateVars, announceVars, qts, at, cleanVars>>

\* Mutant: an older second entry is taken without a look at the pending head.
CheckSecondOlder(p) ==
  LET second == cur[p] - 1
      second_ts == bundle[at[p]].entries[second].ts
  IN
  /\ pc[p] = "secondTS"
  /\ IF second_ts <= qts[p] THEN Return(p, second, "query")
                            ELSE Continue(p, second, "walk")
  /\ UNCHANGED <<clock, bundle, updateVars, announceVars, qts, at, cleanVars>>

\* The second entry answers the query, or is newer than it, so that a pending
\* head is of no interest; otherwise the head's label decides.
CheckSecond(p) ==
  LET second == cur[p] - 1
      second_ts == bundle[at[p]].entries[second].ts
      freed == Freed(at[p], second)
  IN
  /\ pc[p] = "secondTS"
  /\ \/ (freed \/ second_ts = qts[p]) /\ Return(p, second, "query")
     \/ (freed \/ second_ts > qts[p]) /\ Continue(p, second, "walk")
     \/ (freed \/ second_ts < qts[p]) /\ Continue(p, cur[p], "wait")
  /\ UNCHANGED <<clock, bundle, updateVars, announceVars, qts, at, cleanVars>>

\* Mutant: a pending head is walked past.
AwaitNothing(p) ==
  /\ pc[p] = "wait"
  /\ Continue(p, cur[p], "walk")
  /\ UNCHANGED <<clock, bundle, updateVars, announceVars, qts, at, cleanVars>>

\* The spin on a pending head.
AwaitLabel(p) ==
  /\ pc[p] = "wait"
  /\ Freed(at[p], cur[p]) \/ ~IsPending(bundle[at[p]], cur[p])
  /\ Continue(p, cur[p], "walk")
  /\ UNCHANGED <<clock, bundle, updateVars, announceVars, qts, at, cleanVars>>

Walk(p) ==
  /\ pc[p] = "walk"
  /\ LET i == cur[p]
         freed == Freed(at[p], i)
         entry_ts == bundle[at[p]].entries[i].ts
     IN  \/ i = 0 /\ Return(p, i, "query")
         \/ i # 0 /\ (freed \/ entry_ts <= qts[p]) /\ Return(p, i, "query")
         \/ i # 0 /\ (freed \/ entry_ts > qts[p])
              /\ Continue(p, NextOf(bundle[at[p]], i), "walk")
  /\ UNCHANGED <<clock, bundle, updateVars, announceVars, qts, at, cleanVars>>

EndTraversal(p) ==
  /\ pc[p] = "query"
  /\ lin' = [lin EXCEPT ![p] = NullTS]
  /\ qts' = [qts EXCEPT ![p] = NullTS]
  /\ at' = [at EXCEPT ![p] = NoBundle]
  /\ out' = [out EXCEPT ![p] = NoPtr]
  /\ pc' = [pc EXCEPT ![p] = "idle"]
  /\ UNCHANGED <<clock, bundle, updateVars, flag, cur, cleanVars>>

-----------------------------------------------------------------------------
(***************************************************************************)
(* contains: getPtr follows the newest entry, and announces nothing.       *)
(***************************************************************************)
BeginGet(p, b) ==
  /\ pc[p] \in {"idle", "got"}
  /\ Newest(bundle[b]) # 0
  /\ at' = [at EXCEPT ![p] = b]
  /\ cur' = [cur EXCEPT ![p] = Newest(bundle[b])]
  /\ out' = [out EXCEPT ![p] = NoPtr]
  /\ pc' = [pc EXCEPT ![p] = "get"]
  /\ UNCHANGED <<clock, bundle, updateVars, announceVars, qts, cleanVars>>

Get(p) ==
  /\ pc[p] = "get"
  /\ Freed(at[p], cur[p]) \/ ~IsPending(bundle[at[p]], cur[p])
  /\ Return(p, cur[p], "got")
  /\ UNCHANGED <<clock, bundle, updateVars, announceVars, qts, at, cleanVars>>

EndGet(p) ==
  /\ pc[p] = "got"
  /\ at' = [at EXCEPT ![p] = NoBundle]
  /\ out' = [out EXCEPT ![p] = NoPtr]
  /\ pc' = [pc EXCEPT ![p] = "idle"]
  /\ UNCHANGED <<clock, bundle, updateVars, announceVars, qts, cur, cleanVars>>

-----------------------------------------------------------------------------
(***************************************************************************)
(* The cleaner: get_oldest_active_rq, then reclaimEntries on the bundles   *)
(* the data structure's cleanup() visits.                                  *)
(***************************************************************************)
workVars == <<clock, owner, pc, upd, idx, ts, flag, lin, qts, at, cur, out>>

CleanStart ==
  /\ Cleanup
  /\ cpc = "idle"
  /\ oldest' = clock
  /\ scan' = 1
  /\ cpc' = "scan"
  /\ UNCHANGED <<workVars, bundle, cbun, chead>>

\* Mutant: the cleaner does not wait for a query that is announcing itself.
CleanIgnoreFlag ==
  /\ cpc = "scan"
  /\ cpc' = "lin"
  /\ UNCHANGED <<workVars, bundle, oldest, scan, cbun, chead>>

\* Waits for a range query that is announcing itself.
CleanAwaitFlag ==
  /\ cpc = "scan"
  /\ ~flag[scan]
  /\ cpc' = "lin"
  /\ UNCHANGED <<workVars, bundle, oldest, scan, cbun, chead>>

CleanReadLin ==
  /\ cpc = "lin"
  /\ oldest' = IF lin[scan] # NullTS /\ lin[scan] < oldest THEN lin[scan] ELSE oldest
  /\ IF scan < NumProcs
     THEN scan' = scan + 1 /\ cpc' = "scan"
     ELSE scan' = 1 /\ cpc' = "clean"
  /\ UNCHANGED <<workVars, bundle, cbun, chead>>

\* reclaimEntries loads head_.
CleanLoadHead(b) ==
  /\ cpc = "clean"
  /\ Newest(bundle[b]) # 0
  /\ cbun' = b
  /\ chead' = Newest(bundle[b])
  /\ cpc' = "cut"
  /\ UNCHANGED <<workVars, bundle, oldest, scan>>

\* The rest of reclaimEntries.  Below the head only finalized entries are
\* walked, which no one but the cleaner changes, so the walk, the cut and the
\* deletes are one step.
CleanCut ==
  /\ cpc = "cut"
  /\ bundle' = [bundle EXCEPT ![cbun] = Reclaimed(@, chead, oldest)]
  /\ cbun' = NoBundle
  /\ chead' = 0
  /\ cpc' = "clean"
  /\ UNCHANGED <<workVars, oldest, scan>>

CleanEnd ==
  /\ cpc = "clean"
  /\ oldest' = NullTS
  /\ cpc' = "idle"
  /\ UNCHANGED <<workVars, bundle, scan, cbun, chead>>

-----------------------------------------------------------------------------
\* The steps of an operation once its caller has started it.
UpdateStep(p) ==
  Prepare(p) \/ LoadTS(p) \/ ReloadTS(p) \/ FetchAdd(p) \/ Finalize(p)
AnnounceStep(p) == ReadClock(p) \/ Announce(p) \/ ClearFlag(p)
LookupStep(p) ==
  CheckFirst(p) \/ LoadSecond(p) \/ CheckSecond(p) \/ AwaitLabel(p) \/ Walk(p)

Update(p) == (\E w \in Updates : BeginUpdate(p, w)) \/ UpdateStep(p) \/ EndUpdate(p)
Query(p) ==
  \/ StartTraversal(p) \/ AnnounceStep(p)
  \/ (\E b \in Bundles : BeginLookup(p, b)) \/ LookupStep(p)
  \/ EndTraversal(p)
RunContains(p) == (\E b \in Bundles : BeginGet(p, b)) \/ Get(p) \/ EndGet(p)
Clean ==
  \/ CleanStart \/ CleanAwaitFlag \/ CleanReadLin
  \/ (\E b \in Bundles : CleanLoadHead(b)) \/ CleanCut \/ CleanEnd

Next ==
  \/ \E p \in Updaters : Update(p)
  \/ \E p \in Queriers : Query(p)
  \/ \E p \in Getters : RunContains(p)
  \/ Clean

Spec == Init /\ [][Next]_vars

\* The scheduler runs every thread that can move; nothing makes a caller
\* start another operation, nor the cleaner run.
Fairness ==
  /\ \A p \in Updaters : WF_vars(UpdateStep(p))
  /\ \A p \in Queriers : WF_vars(AnnounceStep(p)) /\ WF_vars(LookupStep(p))

FairSpec == Spec /\ Fairness

-----------------------------------------------------------------------------
(***************************************************************************)
(* Properties.                                                             *)
(***************************************************************************)

\* The labels of a bundle decrease from its head on, and only the head may be
\* pending, while the update that prepared it holds the lock.  This is what
\* BundleEntry::validate and the asserts of finalize expect, over every
\* interleaving of the updates of a bundle.
BundleOrder ==
  \A b \in Bundles :
     LET n == Newest(bundle[b]) IN
     /\ \A i, j \in 1 .. n : i < j => Label(b, i) < Label(b, j)
     /\ \A i \in 1 .. n : IsPending(bundle[b], i) => i = n /\ owner[b] # NoProc

\* A query that reads the clock after an update returned sees the update: no
\* label is ahead of the clock once its update has finalized a bundle with it,
\* although the update whose label it is may not have advanced the clock.
LabelsReached ==
  \A b \in Bundles : \A i \in 1 .. Newest(bundle[b]) :
     IsPending(bundle[b], i) \/ bundle[b].entries[i].ts <= clock

\* The past is settled: no step changes what any link led to at a timestamp
\* the clock has reached, not even the link of an update that is still pending.
PastIsSettled ==
  [][\A b \in Bundles : \A t \in FirstTS .. clock : ValueAt(b, t)' = ValueAt(b, t)]_vars

\* getPtrByTimestamp finds an entry, and the one that was current when the
\* query read the clock, whatever updates and the cleaner did meanwhile.
ReadsSnapshot ==
  \A p \in Queriers :
     pc[p] = "query" /\ at[p] # NoBundle => out[p] = ValueAt(at[p], qts[p])

\* The announcement handshake: once the cleaner has scanned the table, it acts
\* on a timestamp no query is older than, whenever the query began and however
\* its announcement fell between the cleaner's reads of rq_flag and rq_lin_time.
OldestBoundsQueries ==
  cpc \in {"clean", "cut"} =>
     \A p \in Queriers : qts[p] # NullTS => oldest <= qts[p]

\* Every entry that a query's timestamp selects is still linked, for the links
\* the query has yet to visit too.
SnapshotKept ==
  \A p \in Queriers, b \in Bundles :
     pc[p] \in LookupPCs \cup {"query"} /\ ValueAt(b, qts[p]) # NoPtr
        => VersionAt(b, qts[p]) >= bundle[b].low

\* The entry a query loaded as the head of a bundle is not freed under it,
\* while it compares its label, loads its next_ or spins on it.
HeadNotFreed ==
  \A p \in Queriers :
     pc[p] \in {"first", "second", "wait"} => cur[p] >= bundle[at[p]].low

\* The cleaner does not recycle any edge an announced query needs, as the
\* comment on start_traversal has it: neither the entry the query stands on,
\* nor the second one it is about to compare.
NoDanglingRead ==
  \A p \in Queriers :
     /\ pc[p] \in LookupPCs /\ cur[p] # 0 => cur[p] >= bundle[at[p]].low
     /\ pc[p] = "secondTS" => cur[p] - 1 >= bundle[at[p]].low

\* A read of a snapshot returns: the pending entry it waits for is finalized.
ReadReturns == \A p \in Queriers : pc[p] = "first" ~> pc[p] = "query"

\* An update gets its label and finalizes its bundles, however often the clock
\* moves between the loads of getNextTS.
UpdateReturns == \A p \in Updaters : pc[p] = "prepare" ~> pc[p] = "unlock"

(***************************************************************************)
(* The provider implements the atomic store.  An update takes effect when  *)
(* the clock reaches its label, together with every update that loaded the *)
(* same clock value; a query takes its snapshot when it reads the clock.   *)
(***************************************************************************)
Committed(p) == ts[p] # NullTS /\ ts[p] + 1 <= clock

SnapshotTaken(p) == qts[p] # NullTS

NewestPtr(bd) == IF Newest(bd) = 0 THEN NoPtr ELSE bd.entries[Newest(bd)].ptr

Store ==
  INSTANCE SnapshotStore WITH
    Links <- Bundles, Targets <- Ptrs, NoTarget <- NoPtr,
    Writers <- Updaters, Readers <- Queriers,
    Initial <- [b \in Bundles |-> NewestPtr(InitBundle[b])],
    store <- [b \in Bundles |-> ValueAt(b, clock)],
    update <- [p \in Updaters |-> upd[p]],
    committed <- [p \in Updaters |-> Committed(p)],
    snapshot <- [p \in Queriers |-> IF SnapshotTaken(p)
                                    THEN [b \in Bundles |-> ValueAt(b, qts[p])]
                                    ELSE <<>>],
    result <- [p \in Queriers |-> [link |-> IF at[p] = NoBundle \/ ~SnapshotTaken(p)
                                            THEN <<>> ELSE at[p],
                                   target |-> IF SnapshotTaken(p) THEN out[p] ELSE NoPtr]]

\* Range queries are snapshots and updates are atomic, in real-time order.
ImplementsStore == Store!Spec
=============================================================================
