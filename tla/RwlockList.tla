----------------------------- MODULE RwlockList ------------------------------
(***************************************************************************)
(* The lazy list of lazylist/lazylist_impl.h with the readers-writer lock  *)
(* provider.  Links and marks are plain fields; the mark of an erase and   *)
(* the link of an insert are written by the provider, and the rest of the  *)
(* operations is here.  rpc[p] says where p is in a call of the provider,  *)
(* lpc[p] where it is in the list operation around the call.               *)
(***************************************************************************)
EXTENDS LazyList, RwlockProvider

CONSTANT
  InitNext      \* the links at the start

\* Every process may call the list, whose nodes have the times of the provider.
ASSUME RwlockListAssumption ==
  /\ Clients = Procs /\ NoProc \notin Procs
  /\ RqNodes = Nodes /\ IsFiniteSet(Nodes)
  /\ Workloads \subseteq [Procs -> Seq(Operation)]

\* The keys lie between KEY_MIN and KEY_MAX.
ASSUME RwlockKeysAssumption ==
  /\ SetKeys \subseteq Int /\ InitKey \in [Nodes -> Int]
  /\ \A k \in SetKeys : InitKey[HeadNode] < k /\ k < InitKey[MaxNode]
  /\ InitKey[HeadNode] < InitKey[MaxNode]

\* At the start the list leads from "head" to "max", each node to the one with the
\* next key; the nodes that hold keys have been inserted at time 1.
ASSUME RwlockStartAssumption ==
  /\ InitNodes \subseteq Nodes /\ HeadNode \in InitNodes /\ MaxNode \in InitNodes
  /\ \A n \in InitNodes \ {HeadNode, MaxNode} : InitKey[n] \in SetKeys
  /\ \A m, n \in InitNodes : InitKey[m] = InitKey[n] => m = n
  /\ InitNext \in [Nodes -> Nodes \cup {NoNode}]
  /\ \A n \in InitNodes \ {MaxNode} :
       /\ InitNext[n] \in InitNodes /\ InitKey[n] < InitKey[InitNext[n]]
       /\ \A m \in InitNodes : InitKey[m] > InitKey[n] => InitKey[m] >= InitKey[InitNext[n]]
  /\ \A n \in Nodes : InitITime[n] = NotSet <=> n \notin InitNodes \ {HeadNode, MaxNode}

VARIABLES
  next, marked  \* the fields the provider writes

linkVars == <<next, marked>>
rwlockListVars == <<listVars, rqVars, linkVars>>

RwlockListInit ==
  /\ ListInit /\ RqInit
  /\ next = InitNext
  /\ marked = [n \in Nodes |-> FALSE]

ListCall(p) == Call(p) /\ UNCHANGED <<rqVars, linkVars>>

-----------------------------------------------------------------------------
(***************************************************************************)
(* Searches, contains and the locks.                                       *)
(***************************************************************************)
Search(p) ==
  /\ lpc[p] = "search"
  /\ Visit(p, next[curr[p]])
  /\ UNCHANGED <<lockVars, nodeVars, rqVars, linkVars>>

EndContains(p) ==
  /\ lpc[p] = "mark"
  /\ ReturnKeys(p, IF key[curr[p]] = op[p].lo /\ ~marked[curr[p]] THEN <<op[p].lo>> ELSE <<>>)
  /\ UNCHANGED <<lockVars, nodeVars, rqVars, linkVars>>

ListLock(p) == LockStep(p) /\ UNCHANGED <<rqVars, linkVars>>

\* validateLinks.  The three fields belong to nodes the process has locked.
ValidateLinks(p) == ~marked[pred[p]] /\ ~marked[curr[p]] /\ next[pred[p]] = curr[p]

ListValidate(p) == Validate(p, ValidateLinks(p)) /\ UNCHANGED <<rqVars, linkVars>>

-----------------------------------------------------------------------------
(***************************************************************************)
(* Updates.                                                                *)
(***************************************************************************)
\* insert makes its node and hands it to linearize_update_at_write ...
BeginInsert(p) ==
  /\ lpc[p] = "change" /\ op[p].type = "insert"
  /\ \E n \in Nodes :
       /\ Allocate(p, n)
       /\ BeginUpdate(p, n, NoNode)
       /\ next' = [next EXCEPT ![n] = curr[p]]
  /\ Goto(p, "update")
  /\ UNCHANGED <<lockVars, callVars, pred, curr, verdict, found, marked>>

\* ... and erase the node it has found.
BeginErase(p) ==
  /\ lpc[p] = "change" /\ op[p].type = "erase"
  /\ BeginUpdate(p, NoNode, curr[p])
  /\ Goto(p, "update")
  /\ UNCHANGED <<lockVars, nodeVars, callVars, localVars, linkVars>>

\* "original linearization point": the link to the new node, or the mark.
Linearize(p) ==
  /\ LinWrite(p)
  /\ IF op[p].type = "insert"
     THEN next' = [next EXCEPT ![pred[p]] = newnode[p]] /\ UNCHANGED marked
     ELSE marked' = [marked EXCEPT ![curr[p]] = TRUE] /\ UNCHANGED next
  /\ UNCHANGED listVars

\* "write_addr(&pred->next, c_nxt)", between the announcement and the retirement.
Unlink(p) ==
  /\ Unlinked(p)
  /\ next' = [next EXCEPT ![pred[p]] = next[curr[p]]]
  /\ UNCHANGED <<listVars, marked>>

ProviderUpdate(p) == UpdateStep(p) /\ UNCHANGED <<listVars, linkVars>>

Updated(p) ==
  /\ lpc[p] = "update" /\ rpc[p] = "idle"
  /\ Decide(p, "yes")
  /\ UNCHANGED <<lockVars, nodeVars, callVars, pred, curr, newnode, found, rqVars, linkVars>>

-----------------------------------------------------------------------------
(***************************************************************************)
(* rangeQuery.                                                             *)
(***************************************************************************)
BeginQuery(p) ==
  /\ lpc[p] = "start"
  /\ StartTraversal(p)
  /\ Goto(p, "query")
  /\ UNCHANGED <<lockVars, nodeVars, callVars, localVars, linkVars>>

\* The next node is before the range, or in it, or the traversal is over.
Traverse(p) ==
  LET n == next[curr[p]] IN
  /\ lpc[p] = "query" /\ rpc[p] = "traverse" /\ key[n] <= op[p].hi
  /\ curr' = [curr EXCEPT ![p] = n]
  /\ IF Before(p, n) THEN UNCHANGED <<node, source, rpc>> ELSE Consider(p, n, "traverse")
  /\ UNCHANGED <<clockVars, timeVars, announceVars, updateVars, lin, endTS, wasMarked,
                 other, limbo, got, lockVars, nodeVars, callVars, lpc,
                 pred, newnode, verdict, found, linkVars>>

TraverseEnd(p) ==
  /\ lpc[p] = "query" /\ key[next[curr[p]]] > op[p].hi
  /\ EndTraversal(p)
  /\ Restart(p)
  /\ Goto(p, "collect")
  /\ UNCHANGED <<lockVars, nodeVars, callVars, newnode, verdict, found, linkVars>>

LookAtMark(p) == ReadMark(p, marked[node[p]]) /\ UNCHANGED <<listVars, linkVars>>

ProviderQuery(p) == QueryStep(p) /\ UNCHANGED <<listVars, linkVars>>

\* isInRange and the hash list of traversal_try_add: keys in the range, each once.
ResultKeys(p) == {key[n] : n \in got[p]} \cap InRange(op[p])

Finish(p) ==
  /\ lpc[p] = "collect"
  /\ EndQuery(p)
  /\ ReturnKeys(p, Ascending(ResultKeys(p)))
  /\ UNCHANGED <<lockVars, nodeVars, linkVars>>

-----------------------------------------------------------------------------
ListStep(p) ==
  \/ Search(p) \/ EndContains(p) \/ ListLock(p) \/ ListValidate(p)
  \/ BeginInsert(p) \/ BeginErase(p) \/ Linearize(p) \/ Unlink(p)
  \/ ProviderUpdate(p) \/ Updated(p)
  \/ BeginQuery(p) \/ Traverse(p) \/ TraverseEnd(p) \/ LookAtMark(p)
  \/ ProviderQuery(p) \/ Finish(p)

RwlockListNext ==
  \/ \E p \in Procs : ListCall(p) \/ ListStep(p)
  \/ Finished /\ UNCHANGED rwlockListVars

\* Every thread is scheduled; nothing is assumed of the locks.
RwlockListSpec ==
  /\ RwlockListInit /\ [][RwlockListNext]_rwlockListVars
  /\ \A p \in Procs : WF_rwlockListVars(ListCall(p) \/ ListStep(p))

-----------------------------------------------------------------------------
(***************************************************************************)
(* Properties.                                                             *)
(***************************************************************************)

\* Whether n was inserted, and deleted, before time t: by its times, or by what
\* the update that has made the change is about to put there.
Pending(n, t) ==
  \E q \in Procs : rpc[q] \in {"readUnlock", "times"} /\ n \in {ins[q], del[q]} /\ uts[q] < t

InsertedBefore(n, t) == IF itime[n] # NotSet THEN itime[n] < t ELSE Pending(n, t)
DeletedAlready(n, t) ==
  IF dtime[n] # NotSet THEN dtime[n] < t ELSE n \in {del[q] : q \in Procs} /\ Pending(n, t)

\* When a query has seen the list, the announcements and the bags, it has found
\* exactly the nodes in its range that were alive at its time, although the times
\* of the nodes were filled in, and the nodes moved, all along.
CollectsAlive ==
  \A p \in Procs : QueryDone(p) =>
    ResultKeys(p) =
      {key[n] : n \in {m \in alloc \ {HeadNode, MaxNode} :
                         InsertedBefore(m, lin[p]) /\ ~DeletedAlready(m, lin[p])}}
        \cap InRange(op[p])

\* A node that was deleted is in the list still, or is announced or in the bag of
\* the process that deletes it: at no time it is in none of them.
Reachable ==
  LET reach[i \in 0 .. Cardinality(Nodes)] ==
        IF i = 0 THEN {HeadNode}
        ELSE reach[i - 1] \cup {next[n] : n \in reach[i - 1] \ {MaxNode}}
  IN  reach[Cardinality(Nodes)]

DeletedIsFound ==
  \A n \in alloc : marked[n] =>
    \/ n \in Reachable
    \/ \E p \in Procs : \/ announcements[p] = n /\ numAnnouncements[p] = 1
                        \/ \E i \in DOMAIN bag[p] : bag[p][i] = n
=============================================================================
