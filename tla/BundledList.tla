----------------------------- MODULE BundledList ----------------------------
(***************************************************************************)
(* The bundled lazy list (bundle_lazylist/bundle_lazylist_impl.h): a       *)
(* sorted list with a lock and a mark in every node, whose links also have *)
(* a bundle each.  Updates change a link and its bundle under the lock,    *)
(* contains and range queries take no lock.                                *)
(*                                                                         *)
(* The list runs on the provider of module Bundles, with the same          *)
(* processes: pc[p] says where p is in a call of the provider, lpc[p]      *)
(* where it is in the list operation around the call.  A node is never     *)
(* reused, as the epoch-based reclaimer guarantees while an operation may  *)
(* hold a pointer to it.                                                   *)
(***************************************************************************)
EXTENDS Bundles, LinearizableSet

CONSTANTS
  HeadNode,       \* the node "head" with key KEY_MIN
  MaxNode,        \* the node "max" with key KEY_MAX
  InitKey,        \* the keys of the nodes allocated so far, KEY_MIN for others
  Workloads,      \* what the processes are asked to do: [Procs -> Seq(Operation)]
  ObserveAbsent   \* whether the result of an erase that finds nothing is looked at

Nodes == Bundles

\* A change of node n's link to m, as prepare_bundles is given it.
Write(n, m) == [bundle |-> n, ptr |-> m]

\* The links, given as a function of the nodes, make one list sorted by the keys
\* k: those that have been linked and not been erased since lead to one another
\* and end in max, and no two of them to the same node.
SortedLinks(k, links) ==
  LET listed == {MaxNode} \cup {n \in Nodes : links[n] \notin {NoPtr, HeadNode}}
  IN  /\ HeadNode \in listed
      /\ \A n \in listed \ {MaxNode} : links[n] \in listed /\ k[n] < k[links[n]]
      /\ \A m, n \in listed \ {MaxNode} : links[m] = links[n] => m = n

\* Where the links that the list starts with led at time t.
InitLink(n, t) ==
  LET e == InitBundle[n].entries
      seen == {i \in 1 .. Len(e) : e[i].ts <= t}
  IN  IF seen = {} THEN NoPtr ELSE e[CHOOSE i \in seen : \A j \in seen : j <= i].ptr

\* Every thread runs all the operations, next to no cleaner, and an update
\* writes any two bundles.
ASSUME ListAssumption ==
  /\ Clients = Procs /\ Updaters = Procs /\ Queriers = Procs /\ Getters = Procs /\ ~Cleanup
  /\ IsFiniteSet(Nodes) /\ Ptrs = Nodes /\ HeadNode \in Nodes /\ MaxNode \in Nodes
  /\ \A m, n, r, s \in Nodes : m # n => <<Write(m, r), Write(n, s)>> \in Updates
  /\ Workloads \subseteq [Procs -> Seq(Operation)]

\* The keys lie between KEY_MIN and KEY_MAX.
ASSUME KeysAssumption ==
  /\ SetKeys \subseteq Int
  /\ InitKey[HeadNode] \in Int /\ InitKey[MaxNode] \in Int
  /\ InitKey[HeadNode] < InitKey[MaxNode]
  /\ \A k \in SetKeys : InitKey[HeadNode] < k /\ k < InitKey[MaxNode]
  /\ InitKey \in [Nodes -> SetKeys \cup {InitKey[HeadNode], InitKey[MaxNode]}]

\* What the constructor, and inserts only, have left is a list at every time.
ASSUME InitListAssumption ==
  /\ InitBundle[MaxNode].entries = <<>>
  /\ \A n \in Nodes : \A i \in 1 .. Len(InitBundle[n].entries) :
       InitBundle[n].entries[i].ptr # HeadNode
  /\ \A t \in FirstTS .. InitClock : SortedLinks(InitKey, [n \in Nodes |-> InitLink(n, t)])

VARIABLES
  key, next, lock, marked,   \* the fields of the nodes
  alloc,                     \* the nodes in use
  lpc,                       \* where each process is in its list operation
  todo, op,                  \* the calls it has to make, and the one it is in
  pred, curr,                \* its local pointers
  found,                     \* the keys its range query has collected
  configs                    \* the observer

nodeVars == <<key, next, lock, marked, alloc>>
callVars == <<todo, op, configs>>
localVars == <<pred, curr, found>>
listVars == <<vars, nodeVars, callVars, localVars, lpc>>

\* How the constructor has left the list, with the keys inserted since then.
ListInit ==
  /\ Init
  /\ key = InitKey
  /\ next = [n \in Nodes |-> NewestPtr(InitBundle[n])]
  /\ lock = [n \in Nodes |-> NoProc]
  /\ marked = [n \in Nodes |-> FALSE]
  /\ alloc = {MaxNode} \cup {n \in Nodes : Newest(InitBundle[n]) # 0}
  /\ lpc = [p \in Procs |-> "idle"]
  /\ todo \in Workloads
  /\ op = [p \in Procs |-> [type |-> "none"]]
  /\ pred = [p \in Procs |-> HeadNode]
  /\ curr = [p \in Procs |-> HeadNode]
  /\ found = [p \in Procs |-> <<>>]
  /\ configs = Start({InitKey[n] : n \in alloc \ {HeadNode, MaxNode}})

-----------------------------------------------------------------------------
Goto(p, l) == lpc' = [lpc EXCEPT ![p] = l]

AcquireLock(p, n) ==
  /\ lock[n] = NoProc
  /\ lock' = [lock EXCEPT ![n] = p]

ReleaseLock(n) == lock' = [lock EXCEPT ![n] = NoProc]

Restart(p) ==
  /\ pred' = [pred EXCEPT ![p] = HeadNode]
  /\ curr' = [curr EXCEPT ![p] = HeadNode]

\* An operation starts, and sets out from the head.
Call(p) ==
  /\ lpc[p] = "idle"
  /\ todo[p] # <<>>
  /\ op' = [op EXCEPT ![p] = Head(todo[p])]
  /\ todo' = [todo EXCEPT ![p] = Tail(@)]
  /\ configs' = Invoke(configs, p)
  /\ Restart(p)
  /\ Goto(p, "search")
  /\ UNCHANGED <<vars, nodeVars, found>>

\* p's operation returns the keys r.
ReturnKeys(p, r) ==
  /\ configs' = IF op[p].type = "erase" /\ r = <<>> /\ ~ObserveAbsent
                THEN RespondUnseen(configs, p)
                ELSE Respond(configs, op, p, r)
  /\ op' = [op EXCEPT ![p] = [type |-> "none"]]
  /\ Restart(p)
  /\ found' = [found EXCEPT ![p] = <<>>]
  /\ Goto(p, "idle")
  /\ UNCHANGED todo

\* What an operation does once its search has stopped at node n.  An erase that
\* does not find its key returns there and then, without a lock.
Found(p, n) ==
  CASE op[p].type = "insert" -> Goto(p, "lockPred")
    [] op[p].type = "erase" -> Goto(p, "lockCurr")
    [] op[p].type = "contains" -> Goto(p, "enter")
    [] op[p].type = "range" -> Goto(p, "announce")

\* One step of the search along the raw links, common to all the operations.
Search(p) ==
  /\ lpc[p] = "search"
  /\ LET n == next[curr[p]] IN
     IF op[p].type = "erase" /\ key[n] > op[p].lo
     THEN ReturnKeys(p, <<>>)
     ELSE /\ pred' = [pred EXCEPT ![p] = curr[p]]
          /\ curr' = [curr EXCEPT ![p] = n]
          /\ IF key[n] < op[p].lo THEN UNCHANGED lpc ELSE Found(p, n)
          /\ UNCHANGED <<callVars, found>>
  /\ UNCHANGED <<vars, nodeVars>>

-----------------------------------------------------------------------------
(***************************************************************************)
(* Updates.                                                                *)
(***************************************************************************)
LockCurr(p) ==
  /\ lpc[p] = "lockCurr"
  /\ AcquireLock(p, curr[p])
  /\ Goto(p, "lockPred")
  /\ UNCHANGED <<vars, key, next, marked, alloc, callVars, localVars>>

\* Mutant: the predecessor's lock is not taken.
LockPredNot(p) ==
  /\ lpc[p] = "lockPred"
  /\ Goto(p, "validate")
  /\ UNCHANGED <<vars, nodeVars, callVars, localVars>>

LockPred(p) ==
  /\ lpc[p] = "lockPred"
  /\ AcquireLock(p, pred[p])
  /\ Goto(p, "validate")
  /\ UNCHANGED <<vars, key, next, marked, alloc, callVars, localVars>>

\* Mutants: a marked predecessor, or a node that is no longer its successor or
\* is marked itself, goes unnoticed.
ValidateCurrOnly(p) == ~marked[curr[p]] /\ next[pred[p]] = curr[p]
ValidatePredOnly(p) == ~marked[pred[p]]

ValidateLinks(p) ==
  ~marked[pred[p]] /\ ~marked[curr[p]] /\ next[pred[p]] = curr[p]

\* The links have changed under the operation: it lets go and starts again.
Invalid(p) ==
  /\ lpc[p] = "validate"
  /\ ~ValidateLinks(p)
  /\ Goto(p, IF op[p].type = "erase" THEN "retryCurr" ELSE "retryPred")
  /\ UNCHANGED <<vars, nodeVars, callVars, localVars>>

\* doInsert finds the key: nothing to do but to release the lock.
Present(p) ==
  /\ lpc[p] = "validate" /\ op[p].type = "insert"
  /\ ValidateLinks(p)
  /\ key[curr[p]] = op[p].lo
  /\ ReleaseLock(pred[p])
  /\ ReturnKeys(p, <<>>)
  /\ UNCHANGED <<vars, key, next, marked, alloc>>

\* doInsert makes a node, locked before anyone sees it, and prepares its bundle
\* and that of its predecessor.
BeginInsert(p) ==
  /\ lpc[p] = "validate" /\ op[p].type = "insert"
  /\ ValidateLinks(p)
  /\ key[curr[p]] # op[p].lo
  /\ \E n \in Nodes \ alloc :
       /\ \A m \in Nodes \ alloc : n <= m
       /\ alloc' = alloc \cup {n}
       /\ key' = [key EXCEPT ![n] = op[p].lo]
       /\ next' = [next EXCEPT ![n] = curr[p]]
       /\ lock' = [lock EXCEPT ![n] = p]
       /\ BeginUpdate(p, <<Write(n, curr[p]), Write(pred[p], n)>>)
  /\ Goto(p, "label")
  /\ UNCHANGED <<marked, callVars, localVars>>

\* erase prepares the predecessor's bundle, and leads those who stand on the
\* node back to the head.
BeginErase(p) ==
  /\ lpc[p] = "validate" /\ op[p].type = "erase"
  /\ ValidateLinks(p)
  /\ BeginUpdate(p, <<Write(pred[p], next[curr[p]]), Write(curr[p], HeadNode)>>)
  /\ Goto(p, "label")
  /\ UNCHANGED <<nodeVars, callVars, localVars>>

\* prepare_bundles and getNextTS.
PrepareAndLabel(p) ==
  /\ lpc[p] = "label"
  /\ Prepare(p) \/ LoadTS(p) \/ ReloadTS(p) \/ FetchAdd(p)
  /\ UNCHANGED <<nodeVars, callVars, localVars, lpc>>

\* Mutant: the write is not ordered after the clock's.
LinWriteUnordered(p) ==
  /\ lpc[p] = "label"
  /\ IF op[p].type = "insert"
     THEN next' = [next EXCEPT ![pred[p]] = upd[p][1].bundle] /\ UNCHANGED marked
     ELSE marked' = [marked EXCEPT ![curr[p]] = TRUE] /\ UNCHANGED next
  /\ Goto(p, IF pc[p] = "finalize" THEN "finalize" ELSE "label")
  /\ UNCHANGED <<vars, key, lock, alloc, callVars, localVars>>

\* linearize_update_at_write: the link of an insert, the mark of an erase.
LinWrite(p) ==
  /\ lpc[p] = "label" /\ pc[p] = "finalize"
  /\ IF op[p].type = "insert"
     THEN next' = [next EXCEPT ![pred[p]] = upd[p][1].bundle] /\ UNCHANGED marked
     ELSE marked' = [marked EXCEPT ![curr[p]] = TRUE] /\ UNCHANGED next
  /\ Goto(p, "finalize")
  /\ UNCHANGED <<vars, key, lock, alloc, callVars, localVars>>

FinalizeBundles(p) ==
  /\ lpc[p] = "finalize"
  /\ Finalize(p)
  /\ UNCHANGED <<nodeVars, callVars, localVars, lpc>>

\* Mutants: the successor is unlinked as well, or nothing is.
UnlinkTwo(p) ==
  /\ lpc[p] = "finalize" /\ pc[p] = "unlock" /\ op[p].type = "erase"
  /\ next' = [next EXCEPT ![pred[p]] = next[next[curr[p]]]]
  /\ Goto(p, "unlock")
  /\ UNCHANGED <<vars, key, lock, marked, alloc, callVars, localVars>>

UnlinkNothing(p) ==
  /\ lpc[p] = "finalize" /\ pc[p] = "unlock" /\ op[p].type = "erase"
  /\ Goto(p, "unlock")
  /\ UNCHANGED <<vars, nodeVars, callVars, localVars>>

\* erase unlinks the node, and retires it.
Unlink(p) ==
  /\ lpc[p] = "finalize" /\ pc[p] = "unlock" /\ op[p].type = "erase"
  /\ next' = [next EXCEPT ![pred[p]] = next[curr[p]]]
  /\ Goto(p, "unlock")
  /\ UNCHANGED <<vars, key, lock, marked, alloc, callVars, localVars>>

\* The first lock is released: the new node's, or the erased node's.
UnlockFirst(p) ==
  /\ pc[p] = "unlock"
  /\ lpc[p] = IF op[p].type = "erase" THEN "unlock" ELSE "finalize"
  /\ ReleaseLock(IF op[p].type = "erase" THEN curr[p] ELSE upd[p][1].bundle)
  /\ EndUpdate(p)
  /\ Goto(p, "unlockPred")
  /\ UNCHANGED <<key, next, marked, alloc, callVars, localVars>>

UnlockPred(p) ==
  /\ lpc[p] = "unlockPred"
  /\ ReleaseLock(pred[p])
  /\ ReturnKeys(p, <<op[p].lo>>)
  /\ UNCHANGED <<vars, key, next, marked, alloc>>

RetryCurr(p) ==
  /\ lpc[p] = "retryCurr"
  /\ ReleaseLock(curr[p])
  /\ Goto(p, "retryPred")
  /\ UNCHANGED <<vars, key, next, marked, alloc, callVars, localVars>>

\* Mutant: the retry keeps the lock.
RetryPredLocked(p) ==
  /\ lpc[p] = "retryPred"
  /\ Restart(p)
  /\ Goto(p, "search")
  /\ UNCHANGED <<vars, nodeVars, callVars, found>>

RetryPred(p) ==
  /\ lpc[p] = "retryPred"
  /\ ReleaseLock(pred[p])
  /\ Restart(p)
  /\ Goto(p, "search")
  /\ UNCHANGED <<vars, key, next, marked, alloc, callVars, found>>

-----------------------------------------------------------------------------
(***************************************************************************)
(* contains: from the node the search stopped at, along the newest entries.*)
(***************************************************************************)
EnterNewest(p) ==
  /\ lpc[p] = "enter"
  /\ BeginGet(p, pred[p])
  /\ Goto(p, "contains")
  /\ UNCHANGED <<nodeVars, callVars, localVars>>

GetNext(p) ==
  /\ lpc[p] = "contains"
  /\ \/ Get(p)
     \/ pc[p] = "got" /\ key[out[p]] < op[p].lo /\ BeginGet(p, out[p])
  /\ UNCHANGED <<nodeVars, callVars, localVars, lpc>>

EndContains(p) ==
  /\ lpc[p] = "contains" /\ pc[p] = "got"
  /\ key[out[p]] >= op[p].lo
  /\ ReturnKeys(p, IF key[out[p]] = op[p].lo /\ ~marked[out[p]] THEN <<op[p].lo>> ELSE <<>>)
  /\ EndGet(p)
  /\ UNCHANGED nodeVars

-----------------------------------------------------------------------------
(***************************************************************************)
(* rangeQuery: announces itself after the search, enters the range through *)
(* the bundle of the node the search stopped at, and follows the bundles.  *)
(***************************************************************************)
StartQuery(p) ==
  /\ lpc[p] = "announce"
  /\ StartTraversal(p) \/ AnnounceStep(p)
  /\ Goto(p, IF pc[p] = "clear" THEN "query" ELSE "announce")
  /\ UNCHANGED <<nodeVars, callVars, localVars>>

EnterSnapshot(p) ==
  /\ lpc[p] = "query" /\ pc[p] = "query" /\ at[p] = NoBundle
  /\ BeginLookup(p, pred[p])
  /\ UNCHANGED <<nodeVars, callVars, localVars, lpc>>

ReadBundle(p) ==
  /\ lpc[p] = "query"
  /\ LookupStep(p)
  /\ UNCHANGED <<nodeVars, callVars, localVars, lpc>>

\* Collects the node the last bundle led to, if it is in the range, and reads on.
Collect(p) ==
  /\ lpc[p] = "query" /\ pc[p] = "query" /\ at[p] # NoBundle
  /\ key[out[p]] <= op[p].hi
  /\ found' = [found EXCEPT ![p] =
                 IF key[out[p]] < op[p].lo THEN @ ELSE Append(@, key[out[p]])]
  /\ BeginLookup(p, out[p])
  /\ UNCHANGED <<nodeVars, callVars, pred, curr, lpc>>

EndQuery(p) ==
  /\ lpc[p] = "query" /\ pc[p] = "query" /\ at[p] # NoBundle
  /\ key[out[p]] > op[p].hi
  /\ EndTraversal(p)
  /\ ReturnKeys(p, found[p])
  /\ UNCHANGED nodeVars

-----------------------------------------------------------------------------
Done ==
  /\ \A p \in Procs : lpc[p] = "idle" /\ todo[p] = <<>>
  /\ UNCHANGED listVars

ListStep(p) ==
  \/ Search(p)
  \/ LockCurr(p) \/ LockPred(p) \/ Invalid(p) \/ Present(p)
  \/ BeginInsert(p) \/ BeginErase(p)
  \/ PrepareAndLabel(p) \/ LinWrite(p) \/ FinalizeBundles(p) \/ Unlink(p)
  \/ UnlockFirst(p) \/ UnlockPred(p) \/ RetryCurr(p) \/ RetryPred(p)
  \/ EnterNewest(p) \/ GetNext(p) \/ EndContains(p)
  \/ StartQuery(p) \/ EnterSnapshot(p) \/ ReadBundle(p) \/ Collect(p) \/ EndQuery(p)

ListNext == Done \/ \E p \in Procs : Call(p) \/ ListStep(p)

ListSpec == ListInit /\ [][ListNext]_listVars

\* Every thread is scheduled; a spin lock that is free again and again is not
\* promised to any particular thread, but the calls here are finitely many.
FairListSpec == ListSpec /\ \A p \in Procs : WF_listVars(Call(p) \/ ListStep(p))
-----------------------------------------------------------------------------
(***************************************************************************)
(* Properties.                                                             *)
(***************************************************************************)

\* Types, and no pointer leads to a node that is not in use: the raw links of a
\* node, deleted or not, and the local pointers of the operations.
ListTypeOK ==
  /\ \A n \in Nodes : key[n] \in SetKeys \cup {InitKey[HeadNode], InitKey[MaxNode]}
  /\ \A n \in alloc \ {MaxNode} : next[n] \in alloc
  /\ next \in [Nodes -> Nodes \cup {NoPtr}]
  /\ lock \in [Nodes -> Procs \cup {NoProc}]
  /\ marked \in [Nodes -> BOOLEAN]
  /\ alloc \subseteq Nodes
  /\ \A p \in Procs : pred[p] \in alloc /\ curr[p] \in alloc

\* Every operation takes effect at one instant between its call and its return,
\* and all of them agree on one order: updates, contains and range queries.
Linearizable == configs # {}

\* A range query never asks a bundle for a timestamp older than its entries, as
\* the asserts on the result of getPtrByTimestamp say: the node the raw search
\* ended at, and each node the snapshot leads to, was linked by then.
EntryFound ==
  \A p \in Procs :
     lpc[p] = "query" /\ pc[p] = "query" =>
        IF at[p] = NoBundle THEN ValueAt(pred[p], qts[p]) # NoPtr
        ELSE out[p] # MaxNode => ValueAt(out[p], qts[p]) # NoPtr

\* The links as of time t: the nodes from the head on, up to max.
PathAt(t) ==
  LET node[i \in 0 .. Cardinality(Nodes)] ==
        IF i = 0 THEN HeadNode
        ELSE LET n == node[i - 1]
             IN  IF n \in {MaxNode, NoPtr} THEN n ELSE ValueAt(n, t)
  IN  [i \in 0 .. Cardinality(Nodes) |-> node[i]]

\* At every timestamp up to the clock the bundles hold a whole list, sorted and
\* ending in max, also while updates that have that label are still pending.
EverySnapshotIsAList ==
  \A t \in FirstTS .. clock :
     LET path == PathAt(t)
         n == Cardinality(Nodes)
     IN  /\ path[n] = MaxNode
         /\ \A i \in 1 .. n : path[i - 1] # MaxNode => key[path[i - 1]] < key[path[i]]

\* What a range query has collected is what its snapshot holds from lo up to the
\* node it has come to, in order: no key missed, none from another time, none twice.
CollectsSnapshot ==
  \A p \in Procs :
     lpc[p] = "query" /\ pc[p] = "query" /\ at[p] # NoBundle =>
        LET path == PathAt(qts[p])
            seen == {key[path[i]] : i \in 1 .. Cardinality(Nodes)}
        IN  /\ ToSet(found[p]) = {k \in seen : op[p].lo <= k /\ k < key[out[p]]}
            /\ \A i, j \in 1 .. Len(found[p]) : i < j => found[p][i] < found[p][j]

\* When a node is not locked its raw link and the newest entry of its bundle
\* are the same (node_t::validate), unless the node is deleted.
LinksMatchBundles ==
  \A n \in alloc \ {MaxNode} :
     lock[n] = NoProc /\ ~marked[n] => next[n] = NewestPtr(bundle[n])

\* Whoever changes a node's bundle has locked the node.
OwnersHoldLocks == \A n \in Nodes : owner[n] # NoProc => lock[n] = owner[n]

\* Every operation returns: an update that fails to validate lets go of its
\* locks and finds its way in the end, a query's spins end.
OperationsReturn == \A p \in Procs : lpc[p] = "search" ~> lpc[p] = "idle"

=============================================================================
