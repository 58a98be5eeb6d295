------------------------------ MODULE VcasList -------------------------------
(***************************************************************************)
(* The lazy list on versioned fields (vcas_lazylist/vcas_lazylist_impl.h): *)
(* the "next" and "marked" of a node are objects of the vCAS provider, and *)
(* range queries read them as of their snapshot.                           *)
(*                                                                         *)
(* vpc[p] says where p is in a call of the provider, lpc[p] where it is in *)
(* the list operation around the call.                                     *)
(***************************************************************************)
EXTENDS LazyList, VersionedCas

CONSTANT
  ObserveAbsent   \* whether the result of a contains that finds nothing is looked at

Next(n) == <<n, "next">>
Marked(n) == <<n, "marked">>

\* Every process may call the list, whose fields are the objects of the provider.
ASSUME VcasListAssumption ==
  /\ Clients = Procs /\ NoProc \notin Procs
  /\ Objects = {Next(n) : n \in Nodes} \cup {Marked(n) : n \in Nodes}
  /\ Nodes \cup {0, 1} \subseteq Values
  /\ Workloads \subseteq [Procs -> Seq(Operation)]

\* The keys lie between KEY_MIN and KEY_MAX.
ASSUME VcasKeysAssumption ==
  /\ SetKeys \subseteq Int /\ InitKey \in [Nodes -> Int]
  /\ \A k \in SetKeys : InitKey[HeadNode] < k /\ k < InitKey[MaxNode]
  /\ InitKey[HeadNode] < InitKey[MaxNode]

\* At the start every node in the list has its two fields, and leads to a node
\* that was there before the link was made.  The others have never been used.
ASSUME VcasStartAssumption ==
  /\ InitNodes \subseteq Nodes /\ HeadNode \in InitNodes /\ MaxNode \in InitNodes
  /\ \A n \in Nodes : \A o \in {Next(n), Marked(n)} : InitVersions[o] = <<>> <=> n \notin InitNodes
  /\ \A n \in InitNodes \ {MaxNode} :
       LET v == InitVersions[Next(n)][1]
       IN  v.val \in InitNodes /\ InitVersions[Next(v.val)][1].ts <= v.ts

vcasListVars == <<listVars, vcasVars>>

VcasListInit == ListInit /\ VcasInit

\* The newest value of a field: what its next reader gets, or its last writer wrote.
Newest(o) == versions[o][Len(versions[o])].val

VcasCall(p) == Call(p) /\ UNCHANGED vcasVars

\* initTS, in whatever the process is reading or changing.
StampIt(p) == StampStep(p) /\ UNCHANGED listVars

-----------------------------------------------------------------------------
(***************************************************************************)
(* Searches, and contains.                                                 *)
(***************************************************************************)
BeginSearch(p) ==
  /\ lpc[p] = "search" /\ vpc[p] = "idle"
  /\ BeginRead(p, Next(curr[p]))
  /\ UNCHANGED listVars

\* The next node has been read.  contains reads the mark of the node with its key.
SearchOn(p) ==
  LET n == out[p] IN
  /\ lpc[p] = "search" /\ vpc[p] = "done"
  /\ Visit(p, n)
  /\ IF Before(p, n) THEN BeginRead(p, Next(n))
     ELSE IF op[p].type = "contains" /\ key[n] = op[p].lo THEN BeginRead(p, Marked(n))
     ELSE EndSnapshot(p)
  /\ UNCHANGED <<lockVars, nodeVars>>

EndContains(p) ==
  LET here == key[curr[p]] = op[p].lo
      r == IF here /\ out[p] = 0 THEN <<op[p].lo>> ELSE <<>>
  IN
  /\ lpc[p] = "mark" /\ vpc[p] = IF here THEN "done" ELSE "idle"
  /\ Return(p, r, ObserveAbsent \/ r # <<>>)
  /\ EndSnapshot(p)
  /\ UNCHANGED <<lockVars, nodeVars>>

-----------------------------------------------------------------------------
(***************************************************************************)
(* Updates.                                                                *)
(***************************************************************************)
VcasLock(p) == LockStep(p) /\ UNCHANGED vcasVars

\* Mutant: the marks are not read again.
ValidateLinkOnly(p) == Newest(Next(pred[p])) = curr[p]

\* validateLinks.  The three fields belong to nodes the process has locked.
ValidateLinks(p) ==
  /\ Newest(Marked(pred[p])) = 0 /\ Newest(Marked(curr[p])) = 0
  /\ Newest(Next(pred[p])) = curr[p]

VcasValidate(p) == Validate(p, ValidateLinks(p)) /\ UNCHANGED vcasVars

\* new_node: both fields are stamped before anyone sees the node.
NewNode(p) ==
  /\ lpc[p] = "change" /\ op[p].type = "insert"
  /\ \E n \in Nodes : Allocate(p, n) /\ Create(p, Marked(n), 0)
  /\ Goto(p, "new")
  /\ UNCHANGED <<lockVars, callVars, pred, curr, verdict, found>>

\* Mutant: the link of the new node is left without a timestamp.
NewLinkTBD(p) ==
  /\ lpc[p] = "new"
  /\ versions' = [versions EXCEPT ![Next(newnode[p])] = <<[val |-> curr[p], ts |-> TBD]>>]
  /\ Goto(p, "link")
  /\ UNCHANGED <<timestamp, vpc, call, ix, curTS, snap, out, ok,
                 lockVars, nodeVars, callVars, localVars>>

NewLink(p) ==
  /\ lpc[p] = "new"
  /\ Create(p, Next(newnode[p]), curr[p])
  /\ Goto(p, "link")
  /\ UNCHANGED <<lockVars, nodeVars, callVars, localVars>>

\* linearize_update_at_cas, on the link of the predecessor.
Link(p) ==
  /\ lpc[p] = "link"
  /\ BeginCas(p, Next(pred[p]), curr[p], newnode[p])
  /\ Goto(p, "last")
  /\ UNCHANGED <<lockVars, nodeVars, callVars, localVars>>

\* erase: the mark, and after it the link around the node.
Mark(p) ==
  /\ lpc[p] = "change" /\ op[p].type = "erase"
  /\ BeginCas(p, Marked(curr[p]), 0, 1)
  /\ Goto(p, "unlink")
  /\ UNCHANGED <<lockVars, nodeVars, callVars, localVars>>

Unlink(p) ==
  /\ lpc[p] = "unlink" /\ vpc[p] = "done"
  /\ BeginCas(p, Next(pred[p]), curr[p], Newest(Next(curr[p])))
  /\ Goto(p, "last")
  /\ UNCHANGED <<lockVars, nodeVars, callVars, localVars>>

InstallIt(p) ==
  /\ lpc[p] \in {"unlink", "last"}
  /\ Install(p)
  /\ UNCHANGED listVars

Changed(p) ==
  /\ lpc[p] = "last" /\ vpc[p] = "done"
  /\ Decide(p, "yes")
  /\ EndSnapshot(p)
  /\ UNCHANGED <<lockVars, nodeVars, callVars, pred, curr, newnode, found>>

-----------------------------------------------------------------------------
(***************************************************************************)
(* rangeQuery.                                                             *)
(***************************************************************************)
StartTraversal(p) ==
  /\ lpc[p] = "start"
  /\ SnapshotStep(p)
  /\ UNCHANGED listVars

BeginTraversal(p) ==
  /\ lpc[p] = "start" /\ vpc[p] = "idle"
  /\ BeginReadAt(p, Next(HeadNode))
  /\ Goto(p, "query")
  /\ UNCHANGED <<lockVars, nodeVars, callVars, localVars>>

\* The next node has been read: it is before the range, or in it, or the query is
\* over.  In the range the query looks at the mark of the head, of all nodes.
QueryOn(p) ==
  LET n == out[p] IN
  /\ lpc[p] = "query" /\ vpc[p] = "done"
  /\ key[n] <= op[p].hi
  /\ curr' = [curr EXCEPT ![p] = n]
  /\ IF Before(p, n) THEN BeginReadAt(p, Next(n)) /\ UNCHANGED lpc
     ELSE BeginReadAt(p, Marked(HeadNode)) /\ Goto(p, "add")
  /\ UNCHANGED <<lockVars, nodeVars, callVars, pred, newnode, verdict, found>>

\* traversal_try_add.
TryAdd(p) ==
  /\ lpc[p] = "add" /\ vpc[p] = "done"
  /\ found' = [found EXCEPT ![p] = IF out[p] = 0 THEN @ \cup {key[curr[p]]} ELSE @]
  /\ BeginReadAt(p, Next(curr[p]))
  /\ Goto(p, "query")
  /\ UNCHANGED <<lockVars, nodeVars, callVars, pred, curr, newnode, verdict>>

EndQuery(p) ==
  /\ lpc[p] = "query" /\ vpc[p] = "done"
  /\ key[out[p]] > op[p].hi
  /\ ReturnKeys(p, Ascending(found[p]))
  /\ EndSnapshot(p)
  /\ UNCHANGED <<lockVars, nodeVars>>

-----------------------------------------------------------------------------
ListStep(p) ==
  \/ StampIt(p) \/ BeginSearch(p) \/ SearchOn(p) \/ EndContains(p)
  \/ VcasLock(p) \/ VcasValidate(p) \/ NewNode(p) \/ NewLink(p) \/ Link(p)
  \/ Mark(p) \/ Unlink(p) \/ InstallIt(p) \/ Changed(p)
  \/ StartTraversal(p) \/ BeginTraversal(p) \/ QueryOn(p) \/ TryAdd(p) \/ EndQuery(p)

VcasListNext ==
  \/ \E p \in Procs : VcasCall(p) \/ ListStep(p)
  \/ Finished /\ UNCHANGED vcasListVars

\* Every thread is scheduled; nothing is assumed of the spin locks.
VcasListSpec ==
  /\ VcasListInit /\ [][VcasListNext]_vcasListVars
  /\ \A p \in Procs : WF_vcasListVars(VcasCall(p) \/ ListStep(p))

-----------------------------------------------------------------------------
\* A read finds a version of its time: the assert in read_vcas never fails, since
\* a query reads the fields of a node only if the node was linked by then.
VersionFound == \A p \in Procs : out[p] # NoVal \/ vpc[p] # "done" \/ call[p].kind # "readAt"

\* The fields of a locked node, and the fields of a node while it is not in use,
\* have no version without a timestamp but the one its owner is stamping: so a
\* failed compare-and-swap, for which cas_vcas provides, does not happen here.
LocksProtect ==
  \A n \in Nodes : \A o \in {Next(n), Marked(n)} :
     versions[o] # <<>> /\ versions[o][Len(versions[o])].ts = TBD =>
        \E p \in Procs : lock[n] = p /\ vpc[p] \in {"ts", "stamp"} /\ call[p].kind = "stored"
=============================================================================
