----------------------------- MODULE CitrusTree -----------------------------
(***************************************************************************)
(* The bundled Citrus tree (bundle_citrus/bundle_citrus_impl.h): an        *)
(* internal search tree with a lock and a mark in every node, and a bundle *)
(* and a tag for each of its two links.  The searches of updates and of    *)
(* contains run in read-side sections of module Urcu, so that an erase     *)
(* that moves a successor up can wait for them; range queries do not.      *)
(*                                                                         *)
(* The tree runs on the provider of module Bundles.  A bundle, like a      *)
(* link, is named by its node and its side, 0 for left and 1 for right.    *)
(* Nodes are never reused while an operation runs, as the reclaimer        *)
(* guarantees.                                                             *)
(***************************************************************************)
EXTENDS Bundles, Urcu, LinearizableSet

CONSTANTS
  Nodes, Null,      \* the nodes, and nullptr
  Root, RootChild,  \* the two nodes the constructor makes
  NoKey,            \* their key, greater than any other
  InitKey,          \* the keys of the nodes allocated so far
  Workloads,        \* what the processes are asked to do: [Procs -> Seq(Operation)]
  Observed          \* the types of operations whose results are looked at

Left == 0
Right == 1

ASSUME CitrusAssumption ==
  /\ Clients = Procs /\ Updaters = Procs /\ Queriers = Procs /\ Getters = Procs /\ ~Cleanup
  /\ Bundles = Nodes \X {Left, Right} /\ Ptrs = Nodes \cup {Null} /\ Null \notin Nodes
  /\ Root \in Nodes /\ RootChild \in Nodes
  /\ RcuThreads = NumProcs
  /\ \A k \in SetKeys : 0 < k /\ k < NoKey
  /\ InitKey \in [Nodes -> SetKeys \cup {NoKey}]
  /\ Workloads \subseteq [Procs -> Seq(Operation)]

\* What the constructor, and inserts only, have left: a node has both bundles
\* or none, and whenever a link leads to a node, the node's links are there.
ASSUME InitTreeAssumption ==
  LET made(n, t) == \A d \in {Left, Right} :
        LET e == InitBundle[<<n, d>>].entries IN Len(e) # 0 /\ e[1].ts <= t
  IN  /\ \A n \in Nodes : InitBundle[<<n, Left>>].entries = <<>> <=> InitBundle[<<n, Right>>].entries = <<>>
      /\ made(Root, InitClock) /\ made(RootChild, InitClock)
      /\ \A b \in Bundles : \A i \in 1 .. Len(InitBundle[b].entries) :
           LET e == InitBundle[b].entries[i] IN e.ptr \in Nodes => made(e.ptr, e.ts)

VARIABLES
  key, lock, marked,   \* the fields of the nodes,
  child, tag,          \* and those of its links
  alloc,               \* the nodes in use
  tpc,                 \* where each process is in its tree operation
  todo, op,            \* the calls it has to make, and the one it is in
  my,                  \* its local variables
  configs              \* the observer

nodeVars == <<key, lock, marked, child, tag, alloc>>
callVars == <<todo, op, configs>>
treeVars == <<vars, rcuVars, nodeVars, callVars, my, tpc>>

\* prev, curr, dir and tag as the search left them; the successor and its
\* parent; the new node, or the child that replaces an erased one; the locks
\* to release; the stack, the node and the result of a range query.
Fresh ==
  [prev |-> Root, dir |-> Left, curr |-> RootChild, tag |-> 0,
   prevSucc |-> Null, succ |-> Null, node |-> Null, held |-> <<>>,
   first |-> TRUE, entry |-> Null, left |-> Null, stack |-> <<>>, found |-> <<>>]

\* How the constructor has left the tree, with the keys inserted since then.
TreeInit ==
  /\ Init /\ RcuInit
  /\ key = InitKey
  /\ lock = [n \in Nodes |-> NoProc]
  /\ marked = [n \in Nodes |-> FALSE]
  /\ child = [b \in Bundles |-> NewestPtr(InitBundle[b])]
  /\ tag = [b \in Bundles |-> 0]
  /\ alloc = {n \in Nodes : Newest(InitBundle[<<n, Left>>]) # 0}
  /\ tpc = [p \in Procs |-> "idle"]
  /\ todo \in Workloads
  /\ op = [p \in Procs |-> [type |-> "none"]]
  /\ my = [p \in Procs |-> Fresh]
  /\ configs = Start({key[n] : n \in alloc \ {Root, RootChild}})

-----------------------------------------------------------------------------
Goto(p, l) == tpc' = [tpc EXCEPT ![p] = l]

AcquireLock(p, n) ==
  /\ lock[n] = NoProc
  /\ lock' = [lock EXCEPT ![n] = p]

Call(p) ==
  /\ tpc[p] = "idle"
  /\ todo[p] # <<>>
  /\ op' = [op EXCEPT ![p] = Head(todo[p])]
  /\ todo' = [todo EXCEPT ![p] = Tail(@)]
  /\ configs' = Invoke(configs, p)
  /\ Goto(p, "start")
  /\ UNCHANGED <<vars, rcuVars, nodeVars, my>>

\* p's operation returns the keys r.
ReturnKeys(p, r) ==
  /\ configs' = IF op[p].type \in Observed THEN Respond(configs, op, p, r)
                                            ELSE RespondUnseen(configs, p)
  /\ op' = [op EXCEPT ![p] = [type |-> "none"]]
  /\ my' = [my EXCEPT ![p] = Fresh]
  /\ Goto(p, "idle")
  /\ UNCHANGED todo

\* Where a search for the keys of p's operation ends, and its way on from n.
Stops(p, n) == n # Null => key[n] \in op[p].lo .. op[p].hi
Side(p, n) == IF key[n] < op[p].lo THEN Right ELSE Left

\* The link the search went through last.
Link(p) == <<my[p].prev, my[p].dir>>

\* An operation sets out from the root.  A range query starts with pred = curr,
\* and without a read-side section.
Begin(p) ==
  /\ tpc[p] = "start"
  /\ IF op[p].type = "range"
     THEN my' = [my EXCEPT ![p] = [Fresh EXCEPT !.prev = RootChild]] /\ UNCHANGED rcuVars
     ELSE my' = [my EXCEPT ![p] = Fresh] /\ ReadLock(p)
  /\ Goto(p, "search")
  /\ UNCHANGED <<vars, nodeVars, callVars>>

\* One step of the search along the raw links, common to all the operations.
Search(p) ==
  /\ tpc[p] = "search"
  /\ LET n == my[p].curr
         d == Side(p, n)
         c == child[<<n, d>>]
     IN  /\ my' = [my EXCEPT ![p].prev = n, ![p].dir = d, ![p].curr = c]
         /\ IF Stops(p, c) THEN Goto(p, op[p].type) ELSE UNCHANGED tpc
  /\ UNCHANGED <<vars, rcuVars, nodeVars, callVars>>

\* The search of an update is over: doInsert reads the link's tag, and the
\* section ends.  readUnlock only lets others go on, so it is one step with the
\* read before it.  An insert that found its key, or an erase that did not,
\* returns there and then, without a lock.
EndSearch(p) ==
  /\ tpc[p] \in {"insert", "erase"}
  /\ ReadUnlock(p)
  /\ IF (tpc[p] = "insert") = (my[p].curr = Null)
     THEN /\ my' = [my EXCEPT ![p].tag = tag[Link(p)]]
          /\ Goto(p, "lockPrev")
          /\ UNCHANGED callVars
     ELSE ReturnKeys(p, <<>>)
  /\ UNCHANGED <<vars, nodeVars>>

-----------------------------------------------------------------------------
(***************************************************************************)
(* Updates: lock, validate, change the bundles and then the link.          *)
(***************************************************************************)
LockPrev(p) ==
  /\ tpc[p] = "lockPrev"
  /\ AcquireLock(p, my[p].prev)
  /\ Goto(p, IF op[p].type = "insert" THEN "validate" ELSE "lockCurr")
  /\ UNCHANGED <<vars, rcuVars, key, marked, child, tag, alloc, callVars, my>>

LockCurr(p) ==
  /\ tpc[p] = "lockCurr"
  /\ AcquireLock(p, my[p].curr)
  /\ Goto(p, "validate")
  /\ UNCHANGED <<vars, rcuVars, key, marked, child, tag, alloc, callVars, my>>

\* Mutants: an empty link is taken for the one the search saw, whatever its
\* tag; or a marked parent goes unnoticed.
ValidateNoTag(link, t, c) ==
  /\ ~marked[link[1]]
  /\ child[link] = c
  /\ c # Null => ~marked[c]

ValidateNoMark(link, t, c) ==
  /\ child[link] = c
  /\ IF c = Null THEN tag[link] = t ELSE ~marked[c]

\* validate(): the link still leads to c, and neither end has been deleted.
Validate(link, t, c) ==
  /\ ~marked[link[1]]
  /\ child[link] = c
  /\ IF c = Null THEN tag[link] = t ELSE ~marked[c]

Valid(p) == tpc[p] = "validate" /\ Validate(Link(p), my[p].tag, my[p].curr)

Write(n, d, m) == [bundle |-> <<n, d>>, ptr |-> m]

\* The link has changed under the operation: it lets go and starts again.
Invalid(p) ==
  /\ tpc[p] = "validate" /\ ~Valid(p)
  /\ my' = [my EXCEPT ![p].held = IF op[p].type = "insert" THEN <<my[p].prev>>
                                  ELSE <<my[p].prev, my[p].curr>>]
  /\ Goto(p, "retry")
  /\ UNCHANGED <<vars, rcuVars, nodeVars, callVars>>

\* Mutant: the node stays among those that can be handed out.
NewNodeUnused(p, n, k, children) ==
  /\ n \in Nodes \ alloc /\ \A m \in Nodes \ alloc : n <= m
  /\ key' = [key EXCEPT ![n] = k]
  /\ child' = [child EXCEPT ![<<n, Left>>] = children[1], ![<<n, Right>>] = children[2]]
  /\ lock' = [lock EXCEPT ![n] = p]
  /\ UNCHANGED alloc

\* A new node n, locked before anyone sees it.
NewNode(p, n, k, children) ==
  /\ n \in Nodes \ alloc /\ \A m \in Nodes \ alloc : n <= m
  /\ alloc' = alloc \cup {n}
  /\ key' = [key EXCEPT ![n] = k]
  /\ child' = [child EXCEPT ![<<n, Left>>] = children[1], ![<<n, Right>>] = children[2]]
  /\ lock' = [lock EXCEPT ![n] = p]

BeginInsert(p) ==
  /\ op[p].type = "insert" /\ Valid(p)
  /\ \E n \in Nodes :
       /\ NewNode(p, n, op[p].lo, <<Null, Null>>)
       /\ BeginUpdate(p, <<Write(n, Left, Null), Write(n, Right, Null),
                           Write(my[p].prev, my[p].dir, n)>>)
       /\ my' = [my EXCEPT ![p].node = n, ![p].held = <<n, my[p].prev>>]
  /\ Goto(p, "label")
  /\ UNCHANGED <<rcuVars, marked, tag, callVars>>

\* erase of a node with at most one child: the child replaces it, and those who
\* stand on the node are led back to the top.
BeginErase(p) ==
  LET n == my[p].curr IN
  /\ op[p].type = "erase" /\ Valid(p)
  /\ \E d \in {Left, Right} :
       /\ child[<<n, d>>] = Null /\ (d = Right => child[<<n, Left>>] # Null)
       /\ my' = [my EXCEPT ![p].node = child[<<n, 1 - d>>], ![p].held = <<my[p].prev, n>>]
       /\ BeginUpdate(p, <<Write(my[p].prev, my[p].dir, child[<<n, 1 - d>>]),
                           Write(n, Left, RootChild), Write(n, Right, RootChild)>>)
  /\ marked' = [marked EXCEPT ![n] = TRUE]
  /\ Goto(p, "label")
  /\ UNCHANGED <<rcuVars, key, lock, child, tag, alloc, callVars>>

\* erase of a node with two children looks for its successor: its right child,
\* and from there to the left as far as the links go.
FindSucc(p) ==
  LET n == my[p].curr IN
  /\ op[p].type = "erase" /\ Valid(p)
  /\ child[<<n, Left>>] # Null /\ child[<<n, Right>>] # Null
  /\ my' = [my EXCEPT ![p].prevSucc = n, ![p].succ = child[<<n, Right>>]]
  /\ Goto(p, "succ")
  /\ UNCHANGED <<vars, rcuVars, nodeVars, callVars>>

Moves(p) == my[p].succ # Null
Adjacent(p) == my[p].prevSucc = my[p].curr

NextSucc(p) ==
  LET n == child[<<my[p].succ, Left>>] IN
  /\ tpc[p] = "succ"
  /\ IF n # Null
     THEN my' = [my EXCEPT ![p].prevSucc = my[p].succ, ![p].succ = n] /\ UNCHANGED tpc
     ELSE Goto(p, IF Adjacent(p) THEN "lockSucc" ELSE "lockPrevSucc") /\ UNCHANGED my
  /\ UNCHANGED <<vars, rcuVars, nodeVars, callVars>>

LockSucc(p) ==
  /\ \/ tpc[p] = "lockPrevSucc" /\ AcquireLock(p, my[p].prevSucc) /\ Goto(p, "lockSucc")
     \/ tpc[p] = "lockSucc" /\ AcquireLock(p, my[p].succ) /\ Goto(p, "validateSucc")
  /\ UNCHANGED <<vars, rcuVars, key, marked, child, tag, alloc, callVars, my>>

ValidSucc(p) ==
  LET s == my[p].succ IN
  /\ Validate(<<my[p].prevSucc, IF Adjacent(p) THEN Right ELSE Left>>, 0, s)
  /\ Validate(<<s, Left>>, tag[<<s, Left>>], Null)

\* Mutant: the lock of the successor's parent is forgotten.
SuccLocksOne(p) == <<my[p].succ>>

SuccLocks(p) == (IF Adjacent(p) THEN <<>> ELSE <<my[p].prevSucc>>) \o <<my[p].succ>>

InvalidSucc(p) ==
  /\ tpc[p] = "validateSucc" /\ ~ValidSucc(p)
  /\ my' = [my EXCEPT ![p].held = <<my[p].prev, my[p].curr>> \o SuccLocks(p)]
  /\ Goto(p, "retry")
  /\ UNCHANGED <<vars, rcuVars, nodeVars, callVars>>

\* Where the bundle of the successor's copy leads on the right.
MovedRight(p) == child[<<IF Adjacent(p) THEN my[p].succ ELSE my[p].curr, Right>>]

\* A copy of the successor replaces the erased node.  The bundles show at once
\* what the links will look like after synchronize().
BeginMove(p) ==
  LET n == my[p].curr
      s == my[p].succ
  IN
  /\ tpc[p] = "validateSucc" /\ ValidSucc(p)
  /\ marked' = [marked EXCEPT ![n] = TRUE]
  /\ \E m \in Nodes :
       /\ NewNode(p, m, key[s], <<child[<<n, Left>>], child[<<n, Right>>]>>)
       /\ BeginUpdate(p, <<Write(my[p].prev, my[p].dir, m),
                           Write(m, Left, child[<<n, Left>>]), Write(m, Right, MovedRight(p)),
                           Write(n, Left, RootChild), Write(n, Right, RootChild)>>
                         \o IF Adjacent(p) THEN <<>>
                            ELSE <<Write(my[p].prevSucc, Left, child[<<s, Right>>])>>)
       /\ my' = [my EXCEPT ![p].node = m, ![p].held = <<my[p].prev, m, n>> \o SuccLocks(p)]
  /\ Goto(p, "label")
  /\ UNCHANGED <<rcuVars, tag, callVars>>

\* prepare_bundles and getNextTS.
PrepareAndLabel(p) ==
  /\ tpc[p] = "label"
  /\ Prepare(p) \/ LoadTS(p) \/ ReloadTS(p) \/ FetchAdd(p)
  /\ UNCHANGED <<rcuVars, nodeVars, callVars, my, tpc>>

\* Mutant: the write is not ordered after the clock's.
LinWriteUnordered(p) ==
  /\ tpc[p] = "label"
  /\ child' = [child EXCEPT ![Link(p)] = my[p].node]
  /\ Goto(p, IF pc[p] = "finalize" THEN "finalize" ELSE "label")
  /\ UNCHANGED <<vars, rcuVars, key, lock, marked, tag, alloc, callVars, my>>

\* linearize_update_at_write.
LinWrite(p) ==
  /\ tpc[p] = "label" /\ pc[p] = "finalize"
  /\ child' = [child EXCEPT ![Link(p)] = my[p].node]
  /\ Goto(p, "finalize")
  /\ UNCHANGED <<vars, rcuVars, key, lock, marked, tag, alloc, callVars, my>>

\* The last label set, an insert is done, and an erase goes on to the links.
FinalizeBundles(p) ==
  /\ tpc[p] = "finalize"
  /\ Finalize(p)
  /\ IF idx[p] < Len(upd[p]) THEN UNCHANGED tpc
     ELSE Goto(p, IF op[p].type = "insert" THEN "unlock"
                  ELSE IF Moves(p) THEN "synchronize" ELSE "tag")
  /\ UNCHANGED <<rcuVars, nodeVars, callVars, my>>

\* Mutant: the successor is unlinked without waiting for the readers.
SynchronizeNot(p) ==
  /\ tpc[p] = "synchronize"
  /\ Goto(p, "fix")
  /\ UNCHANGED <<vars, rcuVars, nodeVars, callVars, my>>

Synchronize(p) ==
  /\ \/ tpc[p] = "synchronize" /\ SyncStart(p) /\ Goto(p, "readers")
     \/ tpc[p] = "readers" /\ SyncStep(p)
          /\ IF sync'[p] = "out" THEN Goto(p, "fix") ELSE UNCHANGED tpc
  /\ UNCHANGED <<vars, nodeVars, callVars, my>>

\* The link that led to the successor, which has been copied.
Fixed(p) == IF Adjacent(p) THEN <<my[p].node, Right>> ELSE <<my[p].prevSucc, Left>>

\* Mutant: the successor is marked, but stays linked.
UnlinkSuccNot(p) ==
  /\ tpc[p] = "fix"
  /\ marked' = [marked EXCEPT ![my[p].succ] = TRUE]
  /\ Goto(p, "tag")
  /\ UNCHANGED <<vars, rcuVars, key, lock, child, tag, alloc, callVars, my>>

UnlinkSucc(p) ==
  /\ tpc[p] = "fix"
  /\ marked' = [marked EXCEPT ![my[p].succ] = TRUE]
  /\ child' = [child EXCEPT ![Fixed(p)] = child[<<my[p].succ, Right>>]]
  /\ Goto(p, "tag")
  /\ UNCHANGED <<vars, rcuVars, key, lock, tag, alloc, callVars, my>>

\* A link that has become empty gets another tag, so that an insert that saw it
\* empty earlier does not take it for the same.
RaiseTag(p) ==
  LET link == IF Moves(p) THEN Fixed(p) ELSE Link(p) IN
  /\ tpc[p] = "tag"
  /\ tag' = [tag EXCEPT ![link] = IF child[link] = Null THEN @ + 1 ELSE @]
  /\ Goto(p, "unlock")
  /\ UNCHANGED <<vars, rcuVars, key, lock, marked, child, alloc, callVars, my>>

\* The locks are released one by one; then the operation returns or starts
\* again.
Unlock(p) ==
  /\ tpc[p] \in {"unlock", "retry"}
  /\ lock' = [lock EXCEPT ![Head(my[p].held)] = NoProc]
  /\ IF pc[p] = "unlock" THEN EndUpdate(p) ELSE UNCHANGED vars
  /\ IF Len(my[p].held) = 1 /\ tpc[p] = "unlock"
     THEN ReturnKeys(p, <<op[p].lo>>)
     ELSE /\ my' = [my EXCEPT ![p].held = Tail(@)]
          /\ IF Len(my[p].held) = 1 THEN Goto(p, "start") ELSE UNCHANGED tpc
          /\ UNCHANGED callVars
  /\ UNCHANGED <<rcuVars, key, marked, child, tag, alloc>>

-----------------------------------------------------------------------------
(***************************************************************************)
(* contains: from the link the search stopped at, along the newest entries,*)
(* all in one read-side section.                                           *)
(***************************************************************************)
FollowNewest(p) ==
  /\ \/ /\ tpc[p] = "contains" /\ BeginGet(p, Link(p)) /\ Goto(p, "follow")
     \/ /\ tpc[p] = "follow"
        /\ \/ Get(p)
           \/ pc[p] = "got" /\ ~Stops(p, out[p]) /\ BeginGet(p, <<out[p], Side(p, out[p])>>)
        /\ UNCHANGED tpc
  /\ UNCHANGED <<rcuVars, nodeVars, callVars, my>>

EndContains(p) ==
  /\ tpc[p] = "follow" /\ pc[p] = "got" /\ Stops(p, out[p])
  /\ ReadUnlock(p)
  /\ EndGet(p)
  /\ ReturnKeys(p, IF out[p] = Null THEN <<>> ELSE <<op[p].lo>>)
  /\ UNCHANGED nodeVars

-----------------------------------------------------------------------------
(***************************************************************************)
(* rangeQuery: after the search, announce; go on through the bundles to    *)
(* the subtree that holds the range; collect it depth first.               *)
(***************************************************************************)
StartQuery(p) ==
  /\ tpc[p] = "range"
  /\ StartTraversal(p) \/ AnnounceStep(p)
  /\ Goto(p, IF pc[p] = "clear" THEN "enter" ELSE "range")
  /\ UNCHANGED <<rcuVars, nodeVars, callVars, my>>

ReadBundle(p) ==
  /\ tpc[p] \in {"descend", "left", "right"}
  /\ LookupStep(p)
  /\ UNCHANGED <<rcuVars, nodeVars, callVars, my, tpc>>

\* The lookup a query is in has its result.
HasRead(p, l) == tpc[p] = l /\ pc[p] = "query"

EnterSnapshot(p) ==
  /\ HasRead(p, "enter")
  /\ BeginLookup(p, Link(p))
  /\ Goto(p, "descend")
  /\ UNCHANGED <<rcuVars, nodeVars, callVars, my>>

\* Outside the range the query turns by the key of curr, but reads the bundle of
\* pred; pred is curr's parent the first time, and curr itself from then on.
NextLink(p) == <<IF my[p].first THEN my[p].prev ELSE out[p], Side(p, out[p])>>

Descend(p) ==
  /\ HasRead(p, "descend") /\ ~Stops(p, out[p])
  /\ BeginLookup(p, NextLink(p))
  /\ my' = [my EXCEPT ![p].first = FALSE]
  /\ UNCHANGED <<rcuVars, nodeVars, callVars, tpc>>

EnterRange(p) ==
  /\ HasRead(p, "descend") /\ Stops(p, out[p])
  /\ my' = [my EXCEPT ![p].entry = out[p],
                      ![p].stack = IF out[p] = Null THEN <<>> ELSE <<out[p]>>]
  /\ Goto(p, "collect")
  /\ UNCHANGED <<vars, rcuVars, nodeVars, callVars>>

Collect(p) ==
  LET n == Head(my[p].stack) IN
  /\ HasRead(p, "collect") /\ my[p].stack # <<>>
  /\ my' = [my EXCEPT ![p].curr = n, ![p].stack = Tail(@),
                      ![p].found = IF Stops(p, n) THEN Append(@, key[n]) ELSE @]
  /\ BeginLookup(p, <<n, Left>>)
  /\ Goto(p, "left")
  /\ UNCHANGED <<rcuVars, nodeVars, callVars>>

ReadRight(p) ==
  /\ HasRead(p, "left")
  /\ my' = [my EXCEPT ![p].left = out[p]]
  /\ BeginLookup(p, <<my[p].curr, Right>>)
  /\ Goto(p, "right")
  /\ UNCHANGED <<rcuVars, nodeVars, callVars>>

\* Mutant: only one child is pushed.
PushOne(p) ==
  LET n == my[p].curr IN
  /\ HasRead(p, "right")
  /\ my' = [my EXCEPT ![p].stack =
       IF out[p] # Null /\ key[n] < op[p].hi THEN <<out[p]>> \o @
       ELSE IF my[p].left # Null /\ op[p].lo < key[n] THEN <<my[p].left>> \o @ ELSE @]
  /\ Goto(p, "collect")
  /\ UNCHANGED <<vars, rcuVars, nodeVars, callVars>>

Push(p) ==
  LET n == my[p].curr
      kids(c, wanted) == IF c # Null /\ wanted THEN <<c>> ELSE <<>>
  IN
  /\ HasRead(p, "right")
  /\ my' = [my EXCEPT ![p].stack = kids(out[p], key[n] < op[p].hi)
                                   \o kids(my[p].left, op[p].lo < key[n]) \o @]
  /\ Goto(p, "collect")
  /\ UNCHANGED <<vars, rcuVars, nodeVars, callVars>>

EndQuery(p) ==
  /\ HasRead(p, "collect") /\ my[p].stack = <<>>
  /\ EndTraversal(p)
  /\ ReturnKeys(p, SortSeq(my[p].found, <))
  /\ UNCHANGED <<rcuVars, nodeVars>>

-----------------------------------------------------------------------------
Done ==
  /\ \A p \in Procs : tpc[p] = "idle" /\ todo[p] = <<>>
  /\ UNCHANGED treeVars

TreeStep(p) ==
  \/ Begin(p) \/ Search(p) \/ EndSearch(p)
  \/ LockPrev(p) \/ LockCurr(p) \/ Invalid(p)
  \/ BeginInsert(p) \/ BeginErase(p)
  \/ FindSucc(p) \/ NextSucc(p) \/ LockSucc(p) \/ InvalidSucc(p) \/ BeginMove(p)
  \/ PrepareAndLabel(p) \/ LinWrite(p) \/ FinalizeBundles(p)
  \/ Synchronize(p) \/ UnlinkSucc(p) \/ RaiseTag(p) \/ Unlock(p)
  \/ FollowNewest(p) \/ EndContains(p)
  \/ StartQuery(p) \/ EnterSnapshot(p) \/ ReadBundle(p) \/ Descend(p) \/ EnterRange(p)
  \/ Collect(p) \/ ReadRight(p) \/ Push(p) \/ EndQuery(p)

TreeNext == Done \/ \E p \in Procs : Call(p) \/ TreeStep(p)

TreeSpec == TreeInit /\ [][TreeNext]_treeVars

\* Every thread is scheduled, and the calls are finitely many.
FairTreeSpec == TreeSpec /\ \A p \in Procs : WF_treeVars(Call(p) \/ TreeStep(p))

-----------------------------------------------------------------------------
(***************************************************************************)
(* Properties.                                                             *)
(***************************************************************************)

\* Types, and no link or local pointer leads to a node that is not in use.
TreeTypeOK ==
  /\ RcuTypeOK
  /\ key \in [Nodes -> SetKeys \cup {NoKey}]
  /\ lock \in [Nodes -> Procs \cup {NoProc}]
  /\ marked \in [Nodes -> BOOLEAN]
  /\ alloc \subseteq Nodes
  /\ child \in [Bundles -> alloc \cup {Null, NoPtr}]
  /\ tag \in [Bundles -> Nat]
  /\ \A p \in Procs :
       /\ {my[p].curr, my[p].node, my[p].succ, my[p].entry, my[p].left} \subseteq alloc \cup {Null}
       /\ Range(my[p].held \o my[p].stack) \subseteq alloc

\* Every operation whose result is looked at takes effect at one instant
\* between its call and its return, in one order for all of them.
Linearizable == configs # {}

\* The nodes that the snapshot of time t holds below n, with the keys between
\* which each of them hangs.
TreeAt(t, n) ==
  LET below(x) == {[node |-> ValueAt(<<x.node, d>>, t),
                    lo |-> IF d = Left THEN x.lo ELSE key[x.node],
                    hi |-> IF d = Left THEN key[x.node] ELSE x.hi] : d \in {Left, Right}}
      reach[i \in 0 .. Cardinality(SetKeys)] ==
        IF i = 0 THEN {[node |-> n, lo |-> 0, hi |-> NoKey + 1]}
        ELSE LET R == reach[i - 1]
             IN  R \cup {y \in UNION {below(x) : x \in {z \in R : z.node # NoPtr}} : y.node # Null}
  IN  reach[Cardinality(SetKeys)]

KeysAt(t, n) == IF n = Null THEN {} ELSE {key[x.node] : x \in TreeAt(t, n)}

\* At every timestamp from the start up to the clock the bundles hold a whole
\* search tree: each node between the keys it hangs between, each link with a value, also while
\* updates of many bundles have that label and are still pending.
EverySnapshotIsATree ==
  \A t \in InitClock .. clock :
     \A x \in TreeAt(t, RootChild) :
        x.node # NoPtr /\ x.lo < key[x.node] /\ key[x.node] < x.hi

\* The keys of the updates of one type that have read the clock as it stands.
Labelled(type) == {op[p].lo : p \in {q \in Procs : ts[q] = clock /\ op[q].type = type}}

\* When the clock moves on, the set it leads to differs from the one before by
\* the updates that read the old clock, and by nothing else: an erase that moves
\* a successor up changes six bundles and loses or doubles no other key.
SnapshotsFollowUpdates ==
  [][clock' # clock =>
       KeysAt(clock, RootChild)' =
         (KeysAt(clock, RootChild) \cup Labelled("insert")) \ Labelled("erase")]_treeVars

\* A range query never asks a bundle for a timestamp older than its entries, as
\* the asserts on the result of getPtrByTimestamp say.
EntryFound ==
  \A p \in Procs :
     LET known(b) == ValueAt(b, qts[p]) # NoPtr IN
     /\ HasRead(p, "enter") => known(Link(p))
     /\ HasRead(p, "descend") /\ ~Stops(p, out[p]) => known(NextLink(p))
     /\ HasRead(p, "collect") => \A n \in Range(my[p].stack) : known(<<n, Left>>)
     /\ HasRead(p, "left") => known(<<my[p].curr, Right>>)

\* From the node where it enters the range on, a query loses no key of its
\* snapshot and takes none twice: what it has and what its stack still leads to
\* is what the snapshot holds below that node.
CollectsSubtree ==
  \A p \in Procs :
     HasRead(p, "collect") =>
        LET inRange(n) == KeysAt(qts[p], n) \cap op[p].lo .. op[p].hi
            found == my[p].found
        IN  /\ Cardinality(Range(found)) = Len(found)
            /\ Range(found) \cup UNION {inRange(n) : n \in Range(my[p].stack)} = inRange(my[p].entry)

\* Once a node is not locked, its links are what the newest entries of its
\* bundles say, unless it is deleted: the raw tree and the bundled one, which
\* differ while an erase waits for readers, agree again.
LinksMatchBundles ==
  \A n \in alloc : lock[n] = NoProc /\ ~marked[n] =>
     \A d \in {Left, Right} : child[<<n, d>>] = NewestPtr(bundle[<<n, d>>])

\* Every operation returns: the waits for locks, for pending entries and for
\* read-side sections, some of which wait for pending entries, all end.
OperationsReturn == \A p \in Procs : tpc[p] = "search" ~> tpc[p] = "idle"
=============================================================================
