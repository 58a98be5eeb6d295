---------------------------- MODULE RwlockProof -----------------------------
(***************************************************************************)
(* Proofs about the lazy list with the readers-writer lock provider, for   *)
(* any number of processes, nodes and keys and any sequence of calls.      *)
(***************************************************************************)
EXTENDS RwlockList, ObserverProof, SequenceTheorems

(***************************************************************************)
(* The inductive invariant.                                                *)
(***************************************************************************)
BeforePCs == {"readLock", "write"}
DonePCs == {"readUnlock", "times"}
TimedPCs == {"announce", "count", "unlink"}
GonePCs == {"retire", "withdraw"}
InsertPCs == BeforePCs \cup DonePCs
UpdatePCs == InsertPCs \cup TimedPCs \cup GonePCs
MarkedPCs == DonePCs \cup TimedPCs
WritePCs == {"advance", "writeUnlock"}
LookPCs == {"itime", "mark", "dtime"}
TraversePCs == WritePCs \cup {"traverse"} \cup LookPCs
CollectPCs == {"announced", "entry", "bags", "limbo"} \cup LookPCs
Sources == {"traverse", "announced", "limbo"}
RPCs == {"idle"} \cup UpdatePCs \cup TraversePCs \cup CollectPCs

ChangeLPCs == {"validate", "change", "update", "unlockCurr"}
HoldLPCs == ChangeLPCs \cup {"lockCurr", "unlockPred"}
FoundLPCs == HoldLPCs \cup {"lockPred"}
LPCs == FoundLPCs \cup {"idle", "search", "mark", "start", "query", "collect"}

ListTypes ==
  /\ key \in [Nodes -> Int] /\ key[HeadNode] = InitKey[HeadNode] /\ key[MaxNode] = InitKey[MaxNode]
  /\ lock \in [Nodes -> Procs \cup {NoProc}]
  /\ alloc \subseteq Nodes /\ HeadNode \in alloc /\ MaxNode \in alloc
  /\ lpc \in [Procs -> LPCs]
  /\ todo \in [Procs -> Seq(Operation)]
  /\ op \in [Procs -> Operation \cup {[type |-> "none"]}]
  /\ pred \in [Procs -> Nodes] /\ curr \in [Procs -> Nodes] /\ newnode \in [Procs -> Nodes]

UpdateTypes ==
  /\ next \in [Nodes -> Nodes \cup {NoNode}] /\ marked \in [Nodes -> BOOLEAN]
  /\ timestamp \in Nat \ {0} /\ readers \in Int /\ writer \in BOOLEAN
  /\ itime \in [Nodes -> Nat] /\ dtime \in [Nodes -> Nat]
  /\ announcements \in [Procs -> Nodes \cup {NoNode}]
  /\ numAnnouncements \in [Procs -> {0, 1}]
  /\ bag \in [Procs -> Seq(Nodes)]
  /\ rpc \in [Procs -> RPCs]
  /\ ins \in [Procs -> Nodes \cup {NoNode}] /\ del \in [Procs -> Nodes \cup {NoNode}]
  /\ uts \in [Procs -> Nat]

QueryTypes ==
  /\ lin \in [Procs -> Nat] /\ endTS \in [Procs -> Nat]
  /\ node \in [Procs -> Nodes \cup {NoNode}]
  /\ source \in [Procs -> Sources \cup {"none"}]
  /\ wasMarked \in [Procs -> BOOLEAN]
  /\ other \in [Procs -> Procs \cup {0}]
  /\ limbo \in [Procs -> Seq(Seq(Nodes) \ {<<>>})]
  /\ got \in [Procs -> SUBSET Nodes]

Types == ListTypes /\ UpdateTypes /\ QueryTypes

\* A node whose insert has not linked it yet, and the nodes that have been linked.
Fresh(n) == \E q \in Procs : rpc[q] \in BeforePCs /\ ins[q] = n
Known == {n \in alloc : ~Fresh(n)}

\* The nodes of the list: a node with a mark is in it until its erase unlinks it.
BeingErased(n) == \E q \in Procs : rpc[q] \in MarkedPCs /\ del[q] = n
Listed == {n \in Known : marked[n] => BeingErased(n)}

\* No node of the list is between n and the one n leads to.
Leads(n) ==
  /\ next[n] \in Listed /\ key[n] < key[next[n]]
  /\ \A m \in Listed : key[m] > key[n] => key[m] >= key[next[n]]

Structure ==
  /\ ~Fresh(HeadNode) /\ ~Fresh(MaxNode)
  /\ ~marked[HeadNode] /\ ~marked[MaxNode]
  /\ \A n \in alloc \ {HeadNode, MaxNode} : key[n] \in SetKeys
  /\ \A n \in alloc \ {MaxNode} : next[n] \in Known /\ key[n] < key[next[n]]
  /\ \A m, n \in Listed : key[m] = key[n] => m = n
  /\ \A n \in Listed \ {MaxNode} : Leads(n)
  /\ \A n \in Nodes \ alloc : ~marked[n]

-----------------------------------------------------------------------------
\* The call of the provider that p is in.
Calls(p) ==
  /\ lpc[p] \notin {"update", "query", "collect"} => rpc[p] = "idle"
  /\ lpc[p] = "update" => IF op[p].type = "insert" THEN rpc[p] \in InsertPCs \cup {"idle"}
                          ELSE rpc[p] \in UpdatePCs \cup {"idle"}
  /\ lpc[p] = "query" => rpc[p] \in TraversePCs
  /\ lpc[p] = "collect" => rpc[p] \in CollectPCs
  /\ rpc[p] \in LookPCs => IF lpc[p] = "query" THEN source[p] = "traverse"
                           ELSE source[p] \in {"announced", "limbo"}
  /\ lpc[p] \in {"start", "query", "collect"} <=> op[p].type = "range"
  /\ lpc[p] = "idle" <=> op[p].type = "none"
  /\ lpc[p] \in FoundLPCs => op[p].type \in {"insert", "erase"}
  /\ ins[p] = IF op[p].type = "insert" /\ rpc[p] \in InsertPCs THEN newnode[p] ELSE NoNode
  /\ del[p] = IF op[p].type = "erase" /\ rpc[p] \in UpdatePCs THEN curr[p] ELSE NoNode

HoldsLocks(p) ==
  /\ lpc[p] \in HoldLPCs => lock[pred[p]] = p
  /\ lpc[p] \in ChangeLPCs => lock[curr[p]] = p /\ pred[p] # curr[p]

\* Where p stands.
Stands(p) ==
  /\ pred[p] \in Known /\ curr[p] \in Known
  /\ lpc[p] \in {"idle", "start"} => curr[p] = HeadNode
  /\ lpc[p] = "search" => key[curr[p]] < op[p].lo
  /\ lpc[p] = "query" => key[curr[p]] <= op[p].hi
  /\ lpc[p] \in FoundLPCs => /\ key[pred[p]] < op[p].lo /\ op[p].lo <= key[curr[p]]
                             /\ op[p].type = "erase" => key[curr[p]] = op[p].lo

\* What p has found valid, and what it has changed since.
Adjacent(p) == ~marked[pred[p]] /\ next[pred[p]] = curr[p]

Inserts(p) ==
  /\ newnode[p] \in alloc \ {HeadNode, MaxNode}
  /\ ~marked[newnode[p]] /\ itime[newnode[p]] = NotSet /\ ~marked[pred[p]]
  /\ \A q \in Procs : ins[q] = newnode[p] => q = p
  /\ rpc[p] \in BeforePCs =>
       /\ next[pred[p]] = curr[p] /\ next[newnode[p]] = curr[p] /\ ~marked[curr[p]]
       /\ key[newnode[p]] = op[p].lo /\ op[p].lo < key[curr[p]]
  /\ rpc[p] \in DonePCs => next[pred[p]] = newnode[p]

Erases(p) ==
  /\ rpc[p] \in BeforePCs \cup MarkedPCs => Adjacent(p)
  /\ marked[curr[p]] <=> rpc[p] \notin BeforePCs
  /\ dtime[curr[p]] = NotSet <=> rpc[p] \in InsertPCs

Changes(p) ==
  /\ lpc[p] = "change" => /\ Adjacent(p) /\ ~marked[curr[p]]
                          /\ op[p].type = "insert" => op[p].lo < key[curr[p]]
  /\ rpc[p] \in InsertPCs /\ op[p].type = "insert" => Inserts(p)
  /\ rpc[p] \in UpdatePCs /\ op[p].type = "erase" => Erases(p)

\* What p has announced, and retired.
Shows(p) ==
  /\ rpc[p] \in {"count", "unlink", "retire", "withdraw"} => announcements[p] = del[p]
  /\ rpc[p] \in {"unlink", "retire", "withdraw"} <=> numAnnouncements[p] = 1
  /\ rpc[p] = "withdraw" => \E i \in DOMAIN bag[p] : bag[p][i] = del[p]

Own(p) == Calls(p) /\ HoldsLocks(p) /\ Stands(p) /\ Changes(p) /\ Shows(p)

-----------------------------------------------------------------------------
\* The readers-writer lock, and the clock that stands still for the updates.
RwLock ==
  /\ readers = Cardinality({q \in Procs : rpc[q] \in BeforePCs \cup {"readUnlock"}})
  /\ writer <=> \E q \in Procs : rpc[q] \in WritePCs
  /\ \A p, q \in Procs : rpc[p] \in WritePCs =>
       /\ rpc[q] \notin {"write", "readUnlock"}
       /\ rpc[q] \in WritePCs => q = p
  /\ \A q \in Procs : rpc[q] \in {"write", "readUnlock"} => uts[q] = timestamp
  /\ \A q \in Procs : rpc[q] = "times" => uts[q] # 0 /\ uts[q] <= timestamp

\* The times of the nodes.
Times ==
  /\ \A n \in Nodes : itime[n] <= timestamp /\ dtime[n] <= timestamp
  /\ \A n \in Nodes : dtime[n] # NotSet => marked[n]
  /\ \A n \in Nodes : n \notin alloc \ {HeadNode, MaxNode} => itime[n] = NotSet
  /\ \A n \in alloc \ {HeadNode, MaxNode} :
       itime[n] # NotSet \/ \E q \in Procs : ins[q] = n
  /\ \A n \in alloc : marked[n] /\ dtime[n] = NotSet =>
       \E q \in Procs : rpc[q] \in DonePCs /\ del[q] = n
  /\ \A q \in Procs : del[q] # NoNode => itime[del[q]] # NotSet

InBag(q, n) == \E i \in DOMAIN bag[q] : bag[q][i] = n
Announced(q, n) == numAnnouncements[q] = 1 /\ announcements[q] = n

\* A bag holds its nodes in the order in which they were deleted.
InOrder(b) ==
  /\ \A i \in DOMAIN b : b[i] \in Known \ {HeadNode, MaxNode} /\ dtime[b[i]] # NotSet
                         /\ itime[b[i]] # NotSet
  /\ \A i, j \in DOMAIN b : i <= j => dtime[b[i]] <= dtime[b[j]]

Bags ==
  \A q \in Procs :
    /\ InOrder(bag[q])
    /\ rpc[q] \in {"write"} \cup DonePCs => \A i \in DOMAIN bag[q] : dtime[bag[q][i]] <= uts[q]
    /\ rpc[q] \in TimedPCs \cup {"retire"} => \A i \in DOMAIN bag[q] : dtime[bag[q][i]] <= dtime[del[q]]

\* Where the marked nodes are.
Kept ==
  \A n \in alloc : marked[n] =>
    \/ \E q \in Procs : rpc[q] \in MarkedPCs \cup GonePCs /\ del[q] = n
    \/ \E q \in Procs : InBag(q, n)

-----------------------------------------------------------------------------
(***************************************************************************)
(* The queries.                                                            *)
(***************************************************************************)
\* A node was inserted, or deleted, before time t, as its times say or its update.
Ins(n, t) ==
  \/ itime[n] # NotSet /\ itime[n] < t
  \/ \E q \in Procs : rpc[q] \in DonePCs /\ ins[q] = n /\ uts[q] < t

Del(n, t) ==
  \/ dtime[n] # NotSet /\ dtime[n] < t
  \/ \E q \in Procs : rpc[q] \in DonePCs /\ del[q] = n /\ uts[q] < t

Alive(n, t) == Ins(n, t) /\ ~Del(n, t)

\* No node that was alive at time t has been passed, or will be, on the way from n.
NoGap(n, t) == \A m \in Listed : Alive(m, t) /\ key[m] > key[n] => m = next[n] \/ key[m] > key[next[n]]
OnTrack(n, t) ==
  \E S \in SUBSET Known : n \in S /\ \A x \in S \ {MaxNode} : next[x] \in S /\ NoGap(x, t)

Targets(p) == {n \in Nodes : Alive(n, lin[p]) /\ key[n] \in InRange(op[p])}

Looks(p) ==
  /\ rpc[p] \in LookPCs => node[p] \in Known \ {HeadNode, MaxNode}
  /\ rpc[p] \in {"mark", "dtime"} => itime[node[p]] # NotSet /\ itime[node[p]] < lin[p]
  /\ rpc[p] = "dtime" /\ ~wasMarked[p] => ~Del(node[p], lin[p])

InLimbo(p, n) == \E k \in DOMAIN limbo[p] : \E i \in DOMAIN limbo[p][k] : limbo[p][k][i] = n

Phase(p, l) == rpc[p] = l \/ (rpc[p] \in LookPCs /\ source[p] = l)

ToCome(p, q) == q # p /\ other[p] # 0 /\ other[p] <= q

Ahead(p, n) ==
  \/ /\ lpc[p] = "query"
     /\ \/ n \in Listed /\ key[n] > key[curr[p]]
        \/ \E q \in Procs : q # p /\ (Announced(q, n) \/ InBag(q, n))
  \/ /\ lpc[p] = "collect" /\ dtime[n] # NotSet /\ dtime[n] <= endTS[p]
     /\ \/ /\ Phase(p, "announced") \/ Phase(p, "entry")
           /\ \E q \in Procs : q # p /\ (InBag(q, n) \/ (ToCome(p, q) /\ Announced(q, n)))
        \/ /\ Phase(p, "bags")
           /\ InLimbo(p, n) \/ \E q \in Procs : ToCome(p, q) /\ InBag(q, n)
        \/ Phase(p, "limbo") /\ InLimbo(p, n)

Query(p) ==
  /\ Looks(p)
  /\ \A k \in DOMAIN limbo[p] : InOrder(limbo[p][k])
  /\ other[p] # p
  /\ rpc[p] = "entry" => other[p] # 0 /\ announcements[other[p]] \in Known \ {HeadNode, MaxNode}
  /\ lpc[p] \in {"query", "collect"} /\ rpc[p] # "advance" =>
       /\ 1 <= lin[p] /\ lin[p] <= timestamp
       /\ \A n \in got[p] : n \in Known \ {HeadNode, MaxNode} /\ Alive(n, lin[p])
       /\ \A n \in Targets(p) : n \in got[p] \/ (rpc[p] \in LookPCs /\ n = node[p]) \/ Ahead(p, n)
  /\ lpc[p] \notin {"query", "collect"} \/ rpc[p] = "advance" => got[p] = {}
  /\ lpc[p] = "query" /\ rpc[p] # "advance" => OnTrack(curr[p], lin[p])
  /\ lpc[p] = "query" /\ rpc[p] \in WritePCs => curr[p] = HeadNode

Queries == \A p \in Procs : Query(p)

RwInv == /\ Types /\ Structure /\ (\A p \in Procs : Own(p)) /\ RwLock /\ Times /\ Bags /\ Kept
         /\ Queries

\* What the assumptions on the constants say.
LEMMA Basics ==
  /\ Clients = Procs /\ RqNodes = Nodes /\ NoProc \notin Procs /\ NoNode \notin Nodes
  /\ HeadNode \in Nodes /\ MaxNode \in Nodes /\ HeadNode # MaxNode
  /\ IsFiniteSet(Nodes) /\ Procs \subseteq Nat \ {0} /\ NumProcs \in Nat \ {0}
BY RwlockAssumption, RwlockListAssumption, RwlockKeysAssumption, RwlockStartAssumption DEF Procs

\* The keys of an operation lie strictly between those of the two ends.
LEMMA OperationKeys ==
  ASSUME ListTypes, NEW c \in Operation
  PROVE  /\ c.lo \in Int /\ c.hi \in Int /\ c.lo \in SetKeys
         /\ key[HeadNode] < c.lo /\ c.lo < key[MaxNode] /\ key[HeadNode] < c.hi /\ c.hi < key[MaxNode]
         /\ c.type \in OpTypes
<1>1. c.lo \in SetKeys /\ c.hi \in SetKeys /\ c.type \in OpTypes
  BY DEF Operation
<1>2. InitKey[HeadNode] \in Int /\ InitKey[MaxNode] \in Int
  BY Basics, RwlockKeysAssumption
<1> QED BY <1>1, <1>2, RwlockKeysAssumption DEF ListTypes

\* A process that is not idle has an operation.
LEMMA OpenOperation ==
  ASSUME ListTypes, NEW p \in Procs, Own(p), lpc[p] # "idle"
  PROVE  op[p] \in Operation
BY DEF ListTypes, Own, Calls

-----------------------------------------------------------------------------
(***************************************************************************)
(* What a step of p leaves alone.                                          *)
(***************************************************************************)
ListFrame(p) ==
  /\ \A q \in Procs : q # p =>
       /\ lpc'[q] = lpc[q] /\ todo'[q] = todo[q] /\ op'[q] = op[q] /\ pred'[q] = pred[q]
       /\ curr'[q] = curr[q] /\ newnode'[q] = newnode[q]
  /\ \A n \in Nodes : lock[n] \in Procs \ {p} => lock'[n] = lock[n]
  /\ alloc \subseteq alloc' /\ \A n \in alloc : key'[n] = key[n]

\* The variables of updates that belong to others stay the same.
UpdateFrame(p) ==
  /\ \A q \in Procs : q # p =>
       /\ rpc'[q] = rpc[q] /\ ins'[q] = ins[q] /\ del'[q] = del[q] /\ uts'[q] = uts[q]
       /\ announcements'[q] = announcements[q] /\ numAnnouncements'[q] = numAnnouncements[q]
       /\ bag'[q] = bag[q]
  /\ ins'[p] = ins[p] \/ ins'[p] \notin alloc
  /\ rpc'[p] \in BeforePCs => ins'[p] \notin alloc \/ (rpc[p] \in BeforePCs /\ ins'[p] = ins[p])
  /\ \A n \in alloc : next'[n] = next[n] \/ (n \in Known /\ lock[n] = p)
  /\ \A n \in Nodes : marked'[n] = marked[n]
                      \/ (n = curr[p] /\ rpc[p] = "write" /\ op[p].type = "erase" /\ marked'[n])
  /\ \A n \in Nodes : itime'[n] = itime[n] \/ (ins[p] = n /\ rpc[p] = "times")
  /\ \A n \in Nodes : dtime'[n] = dtime[n] \/ (del[p] = n /\ rpc[p] = "times")

\* The variables of queries that belong to others stay the same.
QueryFrame(p) ==
  \A q \in Procs : q # p =>
    /\ lin'[q] = lin[q] /\ endTS'[q] = endTS[q] /\ node'[q] = node[q] /\ source'[q] = source[q]
    /\ wasMarked'[q] = wasMarked[q] /\ other'[q] = other[q] /\ limbo'[q] = limbo[q] /\ got'[q] = got[q]

\* A step of p keeps the types, and leaves alone what is not its own.
Fits(p) == Types' /\ ListFrame(p) /\ UpdateFrame(p) /\ QueryFrame(p)

\* A step that leaves the list, the variables of updates, or those of queries alone.
LEMMA ListUnchanged ==
  ASSUME ListTypes, NEW p \in Procs, UNCHANGED listVars
  PROVE  ListTypes' /\ ListFrame(p)
BY DEF listVars, lockVars, nodeVars, callVars, localVars, ListTypes, ListFrame

\* What a step leaves alone keeps its types: the variables of updates,
LEMMA UpdateUnchanged ==
  ASSUME UpdateTypes, NEW p \in Procs,
         UNCHANGED <<clockVars, timeVars, announceVars, updateVars, rpc, linkVars>>
  PROVE  UpdateTypes' /\ UpdateFrame(p)
BY DEF clockVars, timeVars, announceVars, updateVars, linkVars, UpdateTypes, UpdateFrame

\* those of the queries,
LEMMA QueryUnchanged ==
  ASSUME QueryTypes, NEW p \in Procs, UNCHANGED queryVars
  PROVE  QueryTypes' /\ QueryFrame(p)
BY DEF queryVars, visitVars, QueryTypes, QueryFrame

\* and both.
LEMMA RqUnchanged ==
  ASSUME Types, NEW p \in Procs, UNCHANGED <<rqVars, linkVars>>, ListTypes', ListFrame(p)
  PROVE  Fits(p)
BY UpdateUnchanged, QueryUnchanged DEF Fits, Types, rqVars

-----------------------------------------------------------------------------
\* The types hold after each step, and a step of p leaves what belongs to others alone.
LEMMA CallFits ==
  ASSUME RwInv, NEW p \in Procs, ListCall(p)
  PROVE  Fits(p)
<1>1. /\ todo[p] # <<>> /\ op' = [op EXCEPT ![p] = Head(todo[p])]
      /\ todo' = [todo EXCEPT ![p] = Tail(todo[p])]
      /\ UNCHANGED <<lock, key, alloc, pred, curr, newnode>> /\ UNCHANGED <<rqVars, linkVars>>
      /\ lpc' = [lpc EXCEPT ![p] = IF Head(todo[p]).type = "range" THEN "start" ELSE "search"]
  BY DEF ListCall, Call, Goto, lockVars, nodeVars, localVars
<1>2. todo[p] \in Seq(Operation) /\ Types
  BY DEF RwInv, Types, ListTypes
<1>3. Head(todo[p]) \in Operation /\ Tail(todo[p]) \in Seq(Operation)
  BY <1>1, <1>2
<1>4. ListTypes'
  BY <1>1, <1>2, <1>3 DEF Types, ListTypes, LPCs
<1>5. ListFrame(p)
  BY <1>1, <1>2 DEF Types, ListTypes, ListFrame
<1> QED BY <1>1, <1>2, <1>4, <1>5, RqUnchanged

\* The end of an operation.
LEMMA ReturnFrame ==
  ASSUME ListTypes, NEW p \in Procs, NEW r, NEW seen, Return(p, r, seen),
         UNCHANGED <<lock, key, alloc>>
  PROVE  ListTypes' /\ ListFrame(p)
<1>1. /\ op' = [op EXCEPT ![p] = [type |-> "none"]] /\ todo' = todo
      /\ pred' = [pred EXCEPT ![p] = HeadNode] /\ curr' = [curr EXCEPT ![p] = HeadNode]
      /\ newnode' = [newnode EXCEPT ![p] = HeadNode] /\ lpc' = [lpc EXCEPT ![p] = "idle"]
  BY DEF Return, Restart, Goto
<1>2. HeadNode \in Nodes
  BY Basics
<1>3. ListTypes'
  BY <1>1, <1>2 DEF ListTypes, LPCs
<1>4. ListFrame(p)
  BY <1>1, <1>2 DEF ListTypes, ListFrame
<1> QED BY <1>3, <1>4

\* A search that goes on.
VisitMoves(p, n) ==
  /\ pred' = [pred EXCEPT ![p] = curr[p]]
  /\ curr' = [curr EXCEPT ![p] = n]
  /\ lpc' = [lpc EXCEPT ![p] = IF Before(p, n) THEN lpc[p]
                               ELSE IF op[p].type = "contains" THEN "mark" ELSE "lockPred"]
  /\ UNCHANGED <<key, lock, alloc, todo, op, newnode>>

\* A visit goes on to the node, or ends an erase that has passed its key.
LEMMA VisitCases ==
  ASSUME ListTypes, NEW p \in Procs, NEW n, Visit(p, n), UNCHANGED <<lock, key, alloc>>
  PROVE  \/ op[p].type = "erase" /\ key[n] > op[p].lo /\ ReturnKeys(p, <<>>)
         \/ ~(op[p].type = "erase" /\ key[n] > op[p].lo) /\ VisitMoves(p, n)
<1>1. CASE op[p].type = "erase" /\ key[n] > op[p].lo
  BY <1>1 DEF Visit
<1>2. CASE ~(op[p].type = "erase" /\ key[n] > op[p].lo)
  <2>1. lpc' = [lpc EXCEPT ![p] = IF Before(p, n) THEN lpc[p]
                                  ELSE IF op[p].type = "contains" THEN "mark" ELSE "lockPred"]
    <3>1. CASE Before(p, n)
      BY <1>2, <3>1 DEF Visit, ListTypes
    <3>2. CASE ~Before(p, n)
      BY <1>2, <3>2 DEF Visit, Goto
    <3> QED BY <3>1, <3>2
  <2> QED BY <1>2, <2>1 DEF Visit, VisitMoves, callVars
<1> QED BY <1>1, <1>2

\* A step of a search keeps the types and the frame.
LEMMA SearchFits ==
  ASSUME RwInv, NEW p \in Procs, Search(p)
  PROVE  Fits(p)
<1> DEFINE n == next[curr[p]]
<1>1. /\ lpc[p] = "search" /\ Visit(p, n) /\ UNCHANGED <<lock, key, alloc>>
      /\ UNCHANGED <<rqVars, linkVars>>
  BY DEF Search, lockVars, nodeVars
<1>2. Types /\ Own(p) /\ ListTypes /\ Structure
  BY DEF RwInv, Types
<1>3. n \in Nodes
  <2>1. op[p] \in Operation
    BY <1>1, <1>2, OpenOperation
  <2>2. curr[p] \in alloc /\ curr[p] # MaxNode
    BY <1>1, <1>2, <2>1, OperationKeys DEF Own, Stands, Known, ListTypes
  <2> QED BY <1>2, <2>2 DEF Structure, Known, ListTypes
<1>4. CASE ReturnKeys(p, <<>>)
  BY <1>1, <1>2, <1>4, ReturnFrame, RqUnchanged DEF ReturnKeys
<1>5. CASE VisitMoves(p, n)
  <2>1. ListTypes'
    BY <1>1, <1>2, <1>3, <1>5 DEF VisitMoves, ListTypes, LPCs, FoundLPCs
  <2>2. ListFrame(p)
    BY <1>1, <1>2, <1>5 DEF VisitMoves, ListTypes, ListFrame
  <2> QED BY <1>1, <1>2, <2>1, <2>2, RqUnchanged
<1> QED BY <1>1, <1>2, <1>4, <1>5, VisitCases

\* So does the end of a contains,
LEMMA EndFits ==
  ASSUME RwInv, NEW p \in Procs, EndContains(p)
  PROVE  Fits(p)
<1>1. PICK r, seen : Return(p, r, seen) /\ UNCHANGED <<lock, key, alloc, rqVars, linkVars>>
  BY DEF EndContains, ReturnKeys, lockVars, nodeVars
<1> QED BY <1>1, ReturnFrame, RqUnchanged DEF RwInv, Types

\* the validation and the return of the provider from an update,
LEMMA UpdatedFits ==
  ASSUME RwInv, NEW p \in Procs, Updated(p) \/ ListValidate(p)
  PROVE  Fits(p)
<1>1. /\ lpc' = [lpc EXCEPT ![p] = "unlockCurr"] \/ lpc' = [lpc EXCEPT ![p] = "change"]
      /\ UNCHANGED <<lock, key, alloc, todo, op, pred, curr, newnode>> /\ UNCHANGED <<rqVars, linkVars>>
  BY DEF Updated, ListValidate, Validate, Decide, Goto, lockVars, nodeVars, callVars
<1>2. ListTypes /\ Types
  BY DEF RwInv, Types
<1>3. ListTypes' /\ ListFrame(p)
  BY <1>1, <1>2 DEF ListTypes, ListFrame, LPCs, FoundLPCs, HoldLPCs, ChangeLPCs
<1> QED BY <1>1, <1>2, <1>3, RqUnchanged

\* and each step of taking or releasing a lock.
LEMMA LockFits ==
  ASSUME RwInv, NEW p \in Procs, ListLock(p)
  PROVE  Fits(p)
<1>1. ListTypes /\ Types /\ HeadNode \in Nodes /\ NoProc \notin Procs /\ Own(p)
  BY Basics DEF RwInv, Types
<1>2. UNCHANGED <<rqVars, linkVars>> /\ LockStep(p)
  BY DEF ListLock
<1>3. \A n \in Nodes : lock[n] \in Procs \ {p} => lock'[n] = lock[n]
  <2>2. CASE LockPred(p) \/ LockCurr(p)
    BY <1>1, <2>2 DEF LockPred, LockCurr, AcquireLock, ListTypes
  <2>3. CASE UnlockCurr(p)
    <3>1. lpc[p] = "unlockCurr" /\ lock' = [lock EXCEPT ![curr[p]] = NoProc]
      BY <2>3 DEF UnlockCurr, ReleaseLock
    <3>2. lock[curr[p]] = p
      BY <1>1, <3>1 DEF Own, HoldsLocks, ChangeLPCs
    <3> QED BY <1>1, <3>1, <3>2 DEF ListTypes
  <2>4. CASE UnlockPred(p)
    <3>1. lpc[p] = "unlockPred" /\ lock' = [lock EXCEPT ![pred[p]] = NoProc]
      BY <2>4 DEF UnlockPred, ReleaseLock
    <3>2. lock[pred[p]] = p
      BY <1>1, <3>1 DEF Own, HoldsLocks, HoldLPCs
    <3> QED BY <1>1, <3>1, <3>2 DEF ListTypes
  <2> QED BY <1>2, <2>2, <2>3, <2>4 DEF LockStep
<1>4. /\ ListTypes' /\ UNCHANGED <<key, alloc>>
      /\ \A q \in Procs : q # p => /\ lpc'[q] = lpc[q] /\ op'[q] = op[q] /\ pred'[q] = pred[q]
                                   /\ curr'[q] = curr[q] /\ newnode'[q] = newnode[q]
                                   /\ todo'[q] = todo[q]
  <2>2. CASE LockPred(p) \/ LockCurr(p) \/ UnlockCurr(p)
    <3>1. /\ UNCHANGED <<key, alloc, todo, op, pred, curr, newnode>>
          /\ \E l \in {"lockCurr", "validate", "unlockPred"} : lpc' = [lpc EXCEPT ![p] = l]
      BY <2>2 DEF LockPred, LockCurr, UnlockCurr, Goto, nodeVars, callVars, localVars
    <3>2. \/ lock' = [lock EXCEPT ![pred[p]] = p] \/ lock' = [lock EXCEPT ![curr[p]] = p]
          \/ lock' = [lock EXCEPT ![curr[p]] = NoProc]
      BY <2>2 DEF LockPred, LockCurr, UnlockCurr, AcquireLock, ReleaseLock
    <3>3. lock' \in [Nodes -> Procs \cup {NoProc}]
      BY <1>1, <3>2 DEF ListTypes
    <3> QED BY <1>1, <3>1, <3>3 DEF ListTypes, LPCs, FoundLPCs, HoldLPCs, ChangeLPCs
  <2>3. CASE UnlockPred(p)
    <3>1. UNCHANGED <<key, alloc>> /\ lock' = [lock EXCEPT ![pred[p]] = NoProc]
      BY <2>3 DEF UnlockPred, ReleaseLock, nodeVars
    <3>2. lock' \in [Nodes -> Procs \cup {NoProc}]
      BY <1>1, <3>1 DEF ListTypes
    <3>3. CASE verdict[p] = "retry"
      <4>1. /\ pred' = [pred EXCEPT ![p] = HeadNode] /\ curr' = [curr EXCEPT ![p] = HeadNode]
            /\ lpc' = [lpc EXCEPT ![p] = "search"] /\ UNCHANGED <<todo, op, newnode>>
        BY <2>3, <3>3 DEF UnlockPred, Restart, Goto, callVars
      <4> QED BY <1>1, <3>1, <3>2, <4>1 DEF ListTypes, LPCs
    <3>4. CASE verdict[p] # "retry"
      <4>1. /\ op' = [op EXCEPT ![p] = [type |-> "none"]] /\ todo' = todo
            /\ pred' = [pred EXCEPT ![p] = HeadNode] /\ curr' = [curr EXCEPT ![p] = HeadNode]
            /\ newnode' = [newnode EXCEPT ![p] = HeadNode] /\ lpc' = [lpc EXCEPT ![p] = "idle"]
        BY <2>3, <3>4 DEF UnlockPred, ReturnKeys, Return, Restart, Goto
      <4> QED BY <1>1, <3>1, <3>2, <4>1 DEF ListTypes, LPCs
    <3> QED BY <3>3, <3>4
  <2> QED BY <1>2, <2>2, <2>3 DEF LockStep
<1>5. ListFrame(p)
  BY <1>1, <1>3, <1>4 DEF ListFrame
<1> QED BY <1>1, <1>2, <1>4, <1>5, RqUnchanged

\* What the invariant says of one process.
LEMMA NoOwner ==
  ASSUME RwInv, NEW p \in Procs
  PROVE  /\ Types /\ ListTypes /\ UpdateTypes /\ QueryTypes /\ Own(p) /\ Query(p) /\ Structure
         /\ pred[p] \in Known /\ curr[p] \in Known /\ Known \subseteq alloc /\ alloc \subseteq Nodes
BY DEF RwInv, Types, Own, Stands, Queries, Known, ListTypes

\* A process inside a call of linearize_update_at_write.
LEMMA InUpdate ==
  ASSUME RwInv, NEW p \in Procs, rpc[p] \in UpdatePCs
  PROVE  /\ lpc[p] = "update" /\ op[p] \in Operation
         /\ lock[pred[p]] = p /\ lock[curr[p]] = p /\ pred[p] # curr[p]
         /\ \/ /\ op[p].type = "insert" /\ rpc[p] \in InsertPCs
               /\ ins[p] = newnode[p] /\ del[p] = NoNode /\ Inserts(p)
            \/ op[p].type = "erase" /\ ins[p] = NoNode /\ del[p] = curr[p] /\ Erases(p)
<1>1. Own(p) /\ ListTypes /\ UpdateTypes
  BY NoOwner
<1>2. lpc[p] = "update"
  <2>1. /\ rpc[p] # "idle"
        /\ rpc[p] \notin TraversePCs /\ rpc[p] \notin CollectPCs
    BY DEF UpdatePCs, InsertPCs, BeforePCs, DonePCs, TimedPCs, GonePCs, TraversePCs, CollectPCs,
           WritePCs, LookPCs
  <2> QED BY <1>1, <2>1 DEF Own, Calls
<1>3. op[p].type \in {"insert", "erase"} /\ op[p] \in Operation
  BY <1>1, <1>2, OpenOperation DEF Own, Calls, FoundLPCs, HoldLPCs, ChangeLPCs
<1>4. lock[pred[p]] = p /\ lock[curr[p]] = p /\ pred[p] # curr[p]
  BY <1>1, <1>2 DEF Own, HoldsLocks, HoldLPCs, ChangeLPCs
<1>5. CASE op[p].type = "insert"
  <2>1. rpc[p] \in InsertPCs
    BY <1>1, <1>2, <1>5 DEF Own, Calls, UpdatePCs, InsertPCs, BeforePCs, DonePCs, TimedPCs, GonePCs
  <2>2. ins[p] = newnode[p] /\ del[p] = NoNode /\ Inserts(p)
    BY <1>1, <1>5, <2>1 DEF Own, Calls, Changes
  <2> QED BY <1>2, <1>3, <1>4, <1>5, <2>1, <2>2
<1>6. CASE op[p].type = "erase"
  BY <1>1, <1>2, <1>3, <1>4, <1>6 DEF Own, Calls, Changes
<1> QED BY <1>2, <1>3, <1>4, <1>5, <1>6

\* The later steps of an update are those of an erase.
LEMMA InErase ==
  ASSUME RwInv, NEW p \in Procs, rpc[p] \in TimedPCs \cup GonePCs
  PROVE  op[p].type = "erase" /\ ins[p] = NoNode /\ del[p] = curr[p] /\ Erases(p)
BY InUpdate DEF UpdatePCs, InsertPCs, BeforePCs, DonePCs, TimedPCs, GonePCs

\* The steps of updates fit.
LEMMA BeginFits ==
  ASSUME RwInv, NEW p \in Procs, BeginInsert(p) \/ BeginErase(p)
  PROVE  Fits(p)
<1>1. /\ Types /\ ListTypes /\ UpdateTypes /\ QueryTypes /\ Own(p) /\ Structure /\ NoNode \notin Nodes
      /\ curr[p] \in Nodes
  BY NoOwner, Basics
<1>2. CASE BeginInsert(p)
  <2>1. PICK n \in Nodes : /\ Allocate(p, n) /\ BeginUpdate(p, n, NoNode)
                           /\ next' = [next EXCEPT ![n] = curr[p]]
    BY <1>2 DEF BeginInsert
  <2>2. /\ lpc' = [lpc EXCEPT ![p] = "update"] /\ n \notin alloc /\ alloc' = alloc \cup {n}
        /\ key' = [key EXCEPT ![n] = op[p].lo] /\ newnode' = [newnode EXCEPT ![p] = n]
        /\ UNCHANGED <<lock, todo, op, pred, curr>> /\ lpc[p] = "change" /\ marked' = marked
    BY <1>2, <2>1 DEF BeginInsert, Allocate, Goto, lockVars, callVars
  <2>3. op[p].lo \in Int
    BY <1>1, <2>2, OperationKeys, OpenOperation
  <2>4. ListTypes'
    BY <1>1, <2>2, <2>3, Basics DEF ListTypes, LPCs, FoundLPCs, HoldLPCs, ChangeLPCs
  <2>5. ListFrame(p)
    BY <1>1, <2>2 DEF ListTypes, ListFrame
  <2>6. /\ readers' = readers + 1 /\ ins' = [ins EXCEPT ![p] = n] /\ del' = [del EXCEPT ![p] = NoNode]
        /\ rpc' = [rpc EXCEPT ![p] = "readLock"] /\ rpc[p] = "idle"
        /\ UNCHANGED <<timestamp, writer, timeVars, announceVars, uts, queryVars>>
    BY <2>1 DEF BeginUpdate, At
  <2>7. UpdateTypes'
    BY <1>1, <2>1, <2>2, <2>6 DEF UpdateTypes, timeVars, announceVars, RPCs, UpdatePCs, InsertPCs, BeforePCs
  <2>8. UpdateFrame(p)
    BY <1>1, <2>1, <2>2, <2>6 DEF UpdateTypes, UpdateFrame, timeVars, announceVars
  <2> QED BY <1>1, <2>4, <2>5, <2>6, <2>7, <2>8, QueryUnchanged DEF Fits, Types
<1>3. CASE BeginErase(p)
  <2>1. /\ lpc' = [lpc EXCEPT ![p] = "update"]
        /\ UNCHANGED <<lock, key, alloc, newnode, todo, op, pred, curr, next, marked>>
    BY <1>3 DEF BeginErase, Goto, lockVars, nodeVars, callVars, localVars, linkVars
  <2>4. ListTypes' /\ ListFrame(p)
    BY <1>1, <2>1 DEF ListTypes, ListFrame, LPCs, FoundLPCs, HoldLPCs, ChangeLPCs
  <2>6. /\ readers' = readers + 1 /\ ins' = [ins EXCEPT ![p] = NoNode]
        /\ del' = [del EXCEPT ![p] = curr[p]]
        /\ rpc' = [rpc EXCEPT ![p] = "readLock"] /\ rpc[p] = "idle"
        /\ UNCHANGED <<timestamp, writer, timeVars, announceVars, uts, queryVars>>
    BY <1>3 DEF BeginErase, BeginUpdate, At
  <2>7. UpdateTypes'
    BY <1>1, <2>1, <2>6 DEF UpdateTypes, timeVars, announceVars, RPCs, UpdatePCs, InsertPCs, BeforePCs
  <2>8. NoNode \notin alloc
    BY <1>1 DEF ListTypes
  <2>9. UpdateFrame(p)
    BY <1>1, <2>1, <2>6, <2>8 DEF UpdateTypes, UpdateFrame, timeVars, announceVars
  <2> QED BY <1>1, <2>4, <2>6, <2>7, <2>9, QueryUnchanged DEF Fits, Types
<1> QED BY <1>2, <1>3

\* A step of an update.
LEMMA UpdateFits ==
  ASSUME RwInv, NEW p \in Procs, ProviderUpdate(p) \/ Linearize(p) \/ Unlink(p)
  PROVE  Fits(p)
<1>1. /\ Types /\ ListTypes /\ UpdateTypes /\ QueryTypes /\ Own(p) /\ Structure /\ NoNode \notin Nodes
      /\ curr[p] \in Nodes /\ pred[p] \in Nodes /\ pred[p] \in Known /\ RqNodes = Nodes
      /\ newnode[p] \in Nodes
  BY NoOwner, Basics DEF ListTypes
<1>2. UNCHANGED listVars /\ UNCHANGED queryVars
  BY DEF ProviderUpdate, Linearize, Unlink, UpdateStep, ReadLocked, ReadUnlock, SetTimes, Announce,
         CountAnnouncement, Retire, Withdraw, LinWrite, Unlinked
<1>3. ListTypes' /\ ListFrame(p) /\ QueryTypes' /\ QueryFrame(p)
  BY <1>1, <1>2, ListUnchanged, QueryUnchanged
<1>4. SUFFICES UpdateTypes' /\ UpdateFrame(p)
  BY <1>3 DEF Fits, Types
<1> USE <1>1
<1>5. CASE ProviderUpdate(p)
  <2> UNCHANGED <<next, marked>> /\ UpdateStep(p)
    BY <1>5 DEF ProviderUpdate, linkVars
  <2>1. CASE ReadLocked(p)
    <3>1. rpc[p] = "readLock" /\ uts' = [uts EXCEPT ![p] = timestamp] /\ rpc' = [rpc EXCEPT ![p] = "write"]
          /\ UNCHANGED <<timestamp, readers, writer, itime, dtime, announcements, numAnnouncements, bag, ins, del>>
      BY <2>1 DEF ReadLocked, At, clockVars, timeVars, announceVars
    <3> QED BY <3>1 DEF UpdateTypes, UpdateFrame, RPCs, UpdatePCs, InsertPCs, BeforePCs
  <2>2. CASE ReadUnlock(p)
    <3>1. rpc[p] = "readUnlock" /\ readers' = readers - 1 /\ rpc' = [rpc EXCEPT ![p] = "times"]
          /\ UNCHANGED <<timestamp, writer, itime, dtime, announcements, numAnnouncements, bag, ins, del, uts>>
      BY <2>2 DEF ReadUnlock, At, timeVars, announceVars, updateVars
    <3> QED BY <3>1 DEF UpdateTypes, UpdateFrame, RPCs, UpdatePCs, InsertPCs, BeforePCs, DonePCs
  <2>3. CASE SetTimes(p)
    <3>1. /\ rpc[p] = "times"
          /\ itime' = [n \in Nodes |-> IF n = ins[p] THEN uts[p] ELSE itime[n]]
          /\ dtime' = [n \in Nodes |-> IF n = del[p] THEN uts[p] ELSE dtime[n]]
          /\ ins' = [ins EXCEPT ![p] = NoNode] /\ uts' = [uts EXCEPT ![p] = 0]
          /\ rpc' = [rpc EXCEPT ![p] = IF del[p] = NoNode THEN "idle" ELSE "announce"]
          /\ UNCHANGED <<timestamp, readers, writer, announcements, numAnnouncements, bag, del>>
      BY <2>3 DEF SetTimes, At, clockVars, announceVars
    <3>2. UpdateTypes'
      BY <3>1 DEF UpdateTypes, RPCs, UpdatePCs, TimedPCs
    <3>3. NoNode \notin alloc
      BY DEF ListTypes
    <3>4. UpdateFrame(p)
      BY <3>1, <3>3 DEF UpdateTypes, UpdateFrame, BeforePCs
    <3> QED BY <3>2, <3>4
  <2>4. CASE Announce(p)
    <3>1. rpc[p] = "announce" /\ announcements' = [announcements EXCEPT ![p] = del[p]]
          /\ rpc' = [rpc EXCEPT ![p] = "count"]
          /\ UNCHANGED <<timestamp, readers, writer, itime, dtime, numAnnouncements, bag, ins, del, uts>>
      BY <2>4 DEF Announce, At, clockVars, timeVars, updateVars
    <3> QED BY <3>1 DEF UpdateTypes, UpdateFrame, RPCs, UpdatePCs, TimedPCs, BeforePCs
  <2>5. CASE CountAnnouncement(p)
    <3>1. rpc[p] = "count" /\ numAnnouncements' = [numAnnouncements EXCEPT ![p] = 1]
          /\ rpc' = [rpc EXCEPT ![p] = "unlink"]
          /\ UNCHANGED <<timestamp, readers, writer, itime, dtime, announcements, bag, ins, del, uts>>
      BY <2>5 DEF CountAnnouncement, At, clockVars, timeVars, updateVars
    <3> QED BY <3>1 DEF UpdateTypes, UpdateFrame, RPCs, UpdatePCs, TimedPCs, BeforePCs
  <2>6. CASE Retire(p)
    <3>1. rpc[p] = "retire" /\ bag' = [bag EXCEPT ![p] = Append(bag[p], del[p])]
          /\ rpc' = [rpc EXCEPT ![p] = "withdraw"]
          /\ UNCHANGED <<timestamp, readers, writer, itime, dtime, announcements, numAnnouncements, ins, del, uts>>
      BY <2>6 DEF Retire, At, clockVars, timeVars, updateVars
    <3>2. del[p] \in Nodes
      BY <3>1, InErase DEF GonePCs
    <3>3. Append(bag[p], del[p]) \in Seq(Nodes)
      BY <3>2 DEF UpdateTypes
    <3> QED BY <3>1, <3>3 DEF UpdateTypes, UpdateFrame, RPCs, UpdatePCs, GonePCs, BeforePCs
  <2>7. CASE Withdraw(p)
    <3>1. rpc[p] = "withdraw" /\ numAnnouncements' = [numAnnouncements EXCEPT ![p] = 0]
          /\ rpc' = [rpc EXCEPT ![p] = "idle"] /\ del' = [del EXCEPT ![p] = NoNode]
          /\ UNCHANGED <<timestamp, readers, writer, itime, dtime, announcements, bag, ins, uts>>
      BY <2>7 DEF Withdraw, At, clockVars, timeVars
    <3> QED BY <3>1 DEF UpdateTypes, UpdateFrame, RPCs, BeforePCs
  <2> QED BY <2>1, <2>2, <2>3, <2>4, <2>5, <2>6, <2>7 DEF UpdateStep
<1>6. CASE Linearize(p)
  <2>0. rpc'[p] \notin BeforePCs /\ \A q \in Procs : q # p => rpc'[q] = rpc[q]
    BY <1>6 DEF Linearize, LinWrite, At, UpdateTypes, BeforePCs
  <2>1. rpc[p] = "write" /\ rpc' = [rpc EXCEPT ![p] = "readUnlock"]
        /\ UNCHANGED <<timestamp, readers, writer, itime, dtime, announcements, numAnnouncements, bag, ins, del, uts>>
        /\ IF op[p].type = "insert"
           THEN next' = [next EXCEPT ![pred[p]] = newnode[p]] /\ UNCHANGED marked
           ELSE marked' = [marked EXCEPT ![curr[p]] = TRUE] /\ UNCHANGED next
    BY <1>6 DEF Linearize, LinWrite, At, clockVars, timeVars, announceVars, updateVars
  <2>2. lpc[p] = "update" /\ op[p].type \in {"insert", "erase"} /\ lock[pred[p]] = p
    BY <2>1, InUpdate DEF UpdatePCs, InsertPCs, BeforePCs
  <2>3. UpdateTypes'
    BY <2>1 DEF UpdateTypes, RPCs, UpdatePCs, InsertPCs, DonePCs
  <2>4. CASE op[p].type = "insert"
    <3>1. next' = [next EXCEPT ![pred[p]] = newnode[p]] /\ marked' = marked
      BY <2>1, <2>4
    <3>2. \A n \in alloc : next'[n] = next[n] \/ (n \in Known /\ lock[n] = p)
      BY <2>2, <3>1 DEF UpdateTypes, ListTypes
    <3> QED BY <2>0, <2>1, <2>3, <3>1, <3>2 DEF UpdateFrame
  <2>5. CASE op[p].type = "erase"
    <3>1. marked' = [marked EXCEPT ![curr[p]] = TRUE] /\ next' = next
      BY <2>1, <2>5
    <3>2. \A n \in Nodes : marked'[n] = marked[n] \/ (n = curr[p] /\ marked'[n])
      BY <3>1 DEF UpdateTypes
    <3>3. \A n \in Nodes : marked'[n] = marked[n]
                      \/ (n = curr[p] /\ rpc[p] = "write" /\ op[p].type = "erase" /\ marked'[n])
      BY <2>1, <2>5, <3>2
    <3> QED BY <2>0, <2>1, <2>3, <3>1, <3>3 DEF UpdateFrame
  <2> QED BY <2>2, <2>3, <2>4, <2>5
<1>7. CASE Unlink(p)
  <2>1. rpc[p] = "unlink" /\ rpc' = [rpc EXCEPT ![p] = "retire"]
        /\ UNCHANGED <<timestamp, readers, writer, itime, dtime, announcements, numAnnouncements, bag, ins, del, uts>>
        /\ next' = [next EXCEPT ![pred[p]] = next[curr[p]]] /\ UNCHANGED marked
    BY <1>7 DEF Unlink, Unlinked, At, clockVars, timeVars, announceVars, updateVars
  <2>2. lock[pred[p]] = p
    BY <2>1, InUpdate DEF UpdatePCs, TimedPCs
  <2>3. UpdateTypes'
    BY <2>1 DEF UpdateTypes, RPCs, UpdatePCs, GonePCs
  <2>4. UpdateFrame(p)
    BY <2>1, <2>2 DEF UpdateTypes, UpdateFrame, BeforePCs
  <2> QED BY <2>3, <2>4
<1> QED BY <1>5, <1>6, <1>7

\* A set of natural numbers has a least element.
LEMMA LeastOfNat ==
  ASSUME NEW T, T \subseteq Nat, T # {}
  PROVE  \E x \in T : \A y \in T : x <= y
<1> DEFINE R == OpToRel(<, Nat)
<1>1. \E x \in T : \A y \in T : ~ (<<y, x>> \in R)
  <2>1. IsWellFoundedOn(R, Nat)
    BY NatLessThanWellFounded
  <2> QED BY <2>1, WFMin
<1>2. ASSUME NEW x \in T, NEW y \in T, ~ (<<y, x>> \in R) PROVE x <= y
  <2>1. x \in Nat /\ y \in Nat
    OBVIOUS
  <2>2. ~ (y < x)
    BY <1>2, <2>1 DEF OpToRel
  <2> QED BY <2>1, <2>2
<1> QED BY <1>1, <1>2

\* The order in which a query visits the other processes.
LEMMA NextOtherIs ==
  ASSUME NEW p \in Procs, NEW q \in Procs \cup {0}
  PROVE  LET r == NextOther(p, q) IN
         /\ r \in Procs \cup {0} /\ r # p
         /\ r = 0 => \A s \in Procs \ {p} : ~(s > q)
         /\ r # 0 => r > q /\ \A s \in Procs \ {p} : s > q => r <= s
<1> DEFINE later == {s \in Procs \ {p} : s > q}
           Is(r) == (r = 0 /\ later = {}) \/ (r # 0 /\ \A s \in later : r <= s)
<1>1. later \subseteq Nat /\ 0 \notin later /\ 0 \notin Procs
  BY Basics
<1>2. \E r \in later \cup {0} : Is(r)
  <2>1. CASE later = {}
    BY <2>1
  <2>2. CASE later # {}
    <3>1. PICK x \in later : \A y \in later : x <= y
      BY <1>1, <2>2, LeastOfNat
    <3> QED BY <1>1, <3>1
  <2> QED BY <2>1, <2>2
<1>3. NextOther(p, q) = CHOOSE r \in later \cup {0} : Is(r)
  BY DEF NextOther, Others
<1>4. NextOther(p, q) \in later \cup {0} /\ Is(NextOther(p, q))
  BY <1>2, <1>3
<1> QED BY <1>1, <1>4

-----------------------------------------------------------------------------
\* A process inside a query.
LEMMA InQuery ==
  ASSUME RwInv, NEW p \in Procs, rpc[p] \in TraversePCs \cup CollectPCs
  PROVE  /\ lpc[p] \in {"query", "collect"} /\ op[p] \in Operation /\ op[p].type = "range"
         /\ rpc[p] \notin UpdatePCs /\ ins[p] = NoNode /\ del[p] = NoNode
         /\ rpc[p] \in LookPCs => node[p] \in Known \ {HeadNode, MaxNode} /\ source[p] \in Sources
         /\ rpc[p] \in WritePCs \cup {"traverse"} => lpc[p] = "query"
         /\ rpc[p] \in {"announced", "entry", "bags", "limbo"} => lpc[p] = "collect"
         /\ rpc[p] \in LookPCs /\ lpc[p] = "query" => source[p] = "traverse"
         /\ rpc[p] \in LookPCs /\ lpc[p] = "collect" => source[p] \in {"announced", "limbo"}
<1>1. Own(p) /\ ListTypes /\ Query(p)
  BY NoOwner
<1>2. rpc[p] \notin UpdatePCs /\ rpc[p] # "idle"
  BY DEF UpdatePCs, InsertPCs, BeforePCs, DonePCs, TimedPCs, GonePCs, TraversePCs, CollectPCs,
         WritePCs, LookPCs
<1>3. lpc[p] \in {"query", "collect"}
  BY <1>1, <1>2 DEF Own, Calls, UpdatePCs
<1>4. op[p] \in Operation /\ op[p].type = "range"
  BY <1>1, <1>3, OpenOperation DEF Own, Calls
<1>5. ins[p] = NoNode /\ del[p] = NoNode
  BY <1>1, <1>4 DEF Own, Calls
<1>6. /\ rpc[p] \in LookPCs => node[p] \in Known \ {HeadNode, MaxNode} /\ source[p] \in Sources
      /\ rpc[p] \in LookPCs /\ lpc[p] = "query" => source[p] = "traverse"
      /\ rpc[p] \in LookPCs /\ lpc[p] = "collect" => source[p] \in {"announced", "limbo"}
  BY <1>1, <1>3 DEF Own, Calls, Query, Looks, Sources
<1>7. /\ rpc[p] \in WritePCs \cup {"traverse"} => lpc[p] = "query"
      /\ rpc[p] \in {"announced", "entry", "bags", "limbo"} => lpc[p] = "collect"
  BY <1>1, <1>3 DEF Own, Calls, WritePCs, TraversePCs, CollectPCs, LookPCs
<1> QED BY <1>2, <1>3, <1>4, <1>5, <1>6, <1>7

\* The steps of queries fit.
LEMMA QueryKeepsUpdates ==
  ASSUME UpdateTypes, NEW p \in Procs,
         UNCHANGED <<readers, timeVars, announceVars, updateVars, linkVars>>,
         timestamp' \in {timestamp, timestamp + 1}, writer' \in BOOLEAN,
         NEW l \in RPCs \ UpdatePCs, rpc' = [rpc EXCEPT ![p] = l]
  PROVE  UpdateTypes' /\ UpdateFrame(p)
BY DEF UpdateTypes, UpdateFrame, timeVars, announceVars, updateVars, linkVars, UpdatePCs, InsertPCs

\* A query in the provider is not in an update.
LEMMA QueryPlaces ==
  /\ TraversePCs \subseteq RPCs \ UpdatePCs /\ CollectPCs \subseteq RPCs \ UpdatePCs
  /\ Sources \subseteq TraversePCs \cup CollectPCs
  /\ "idle" \in RPCs \ UpdatePCs /\ LookPCs \subseteq TraversePCs
BY DEF RPCs, UpdatePCs, InsertPCs, BeforePCs, DonePCs, TimedPCs, GonePCs, TraversePCs, CollectPCs,
       WritePCs, LookPCs, Sources

\* An unchanged rpc, as an assignment to the place of p.
LEMMA RpcSame ==
  ASSUME UpdateTypes, NEW p \in Procs, UNCHANGED rpc
  PROVE  rpc' = [rpc EXCEPT ![p] = rpc[p]] /\ rpc[p] \in RPCs
BY DEF UpdateTypes

\* The query's own variables.
LookStep(p) ==
  /\ UNCHANGED <<readers, timestamp, writer, timeVars, announceVars, updateVars, linkVars>>
  /\ \E l \in TraversePCs \cup CollectPCs : rpc' = [rpc EXCEPT ![p] = l]

\* A query that looks at a node fits.
LEMMA LookFits ==
  ASSUME RwInv, NEW p \in Procs, LookStep(p), QueryTypes', QueryFrame(p), ListTypes', ListFrame(p)
  PROVE  Fits(p)
<1>1. UpdateTypes
  BY NoOwner
<1>2. PICK l \in TraversePCs \cup CollectPCs : rpc' = [rpc EXCEPT ![p] = l]
  BY DEF LookStep
<1>3. UNCHANGED <<readers, timeVars, announceVars, updateVars, linkVars>> /\ writer' \in BOOLEAN
      /\ timestamp' \in {timestamp, timestamp + 1}
  BY <1>1 DEF LookStep, UpdateTypes
<1>4. l \in RPCs \ UpdatePCs
  BY QueryPlaces
<1>5. UpdateTypes' /\ UpdateFrame(p)
  BY <1>1, <1>2, <1>3, <1>4, QueryKeepsUpdates
<1> QED BY <1>5 DEF Fits, Types

\* A query that is done with a node goes back to where it found it.
LEMMA LeaveFits ==
  ASSUME RwInv, NEW p \in Procs, NEW keep, Leave(p, keep), rpc[p] \in LookPCs,
         UNCHANGED <<lin, endTS, other, limbo>>
  PROVE  QueryTypes' /\ QueryFrame(p) /\ \E l \in TraversePCs \cup CollectPCs : rpc' = [rpc EXCEPT ![p] = l]
<1>1. QueryTypes /\ Own(p) /\ Query(p)
  BY NoOwner
<1>2. node[p] \in Nodes /\ source[p] \in TraversePCs \cup CollectPCs
  BY InQuery, QueryPlaces, NoOwner
<1>3. /\ got' = [got EXCEPT ![p] = IF keep THEN got[p] \cup {node[p]} ELSE got[p]]
      /\ node' = [node EXCEPT ![p] = NoNode] /\ source' = [source EXCEPT ![p] = "none"]
      /\ wasMarked' = [wasMarked EXCEPT ![p] = FALSE] /\ rpc' = [rpc EXCEPT ![p] = source[p]]
  BY DEF Leave, At
<1>4. QueryTypes'
  BY <1>1, <1>2, <1>3 DEF QueryTypes
<1>5. QueryFrame(p)
  BY <1>1, <1>3 DEF QueryTypes, QueryFrame
<1> QED BY <1>2, <1>3, <1>4, <1>5

\* The reads of a time or a mark keep the types and the frame.
LEMMA LookingFits ==
  ASSUME RwInv, NEW p \in Procs, LookAtMark(p) \/ (ProviderQuery(p) /\ (AwaitITime(p) \/ ReadDTime(p)))
  PROVE  Fits(p)
<1>1. ListTypes /\ UpdateTypes /\ QueryTypes
  BY NoOwner
<1>2. UNCHANGED listVars /\ UNCHANGED linkVars
  BY DEF LookAtMark, ProviderQuery
<1>3. ListTypes' /\ ListFrame(p)
  BY <1>1, <1>2, ListUnchanged
<1>4. UNCHANGED <<readers, timestamp, writer, timeVars, announceVars, updateVars, linkVars>>
      /\ UNCHANGED <<lin, endTS, other, limbo>>
  BY <1>2 DEF LookAtMark, ReadMark, AwaitITime, ReadDTime, clockVars
<1>5. CASE LookAtMark(p)
  <2>1. wasMarked' = [wasMarked EXCEPT ![p] = marked[node[p]]] /\ rpc[p] = "mark"
        /\ rpc' = [rpc EXCEPT ![p] = "dtime"] /\ UNCHANGED <<lin, endTS, node, source, other, limbo, got>>
    BY <1>5 DEF LookAtMark, ReadMark, At
  <2>2. marked[node[p]] \in BOOLEAN
    BY <1>1, <2>1, InQuery, NoOwner DEF UpdateTypes, LookPCs, TraversePCs
  <2>3. QueryTypes' /\ QueryFrame(p)
    BY <1>1, <2>1, <2>2 DEF QueryTypes, QueryFrame
  <2>4. LookStep(p)
    BY <1>4, <2>1 DEF LookStep, TraversePCs, LookPCs
  <2> QED BY <1>3, <2>3, <2>4, LookFits
<1>6. CASE AwaitITime(p)
  <2>1. rpc[p] = "itime"
    BY <1>6 DEF AwaitITime
  <2>2. CASE itime[node[p]] >= lin[p]
    BY <1>3, <1>4, <1>6, <2>1, <2>2, LeaveFits, LookFits DEF AwaitITime, LookPCs, LookStep
  <2>3. CASE ~(itime[node[p]] >= lin[p])
    <3>1. UNCHANGED queryVars /\ rpc' = [rpc EXCEPT ![p] = "mark"]
      BY <1>6, <2>3 DEF AwaitITime, queryVars, At
    <3>2. LookStep(p)
      BY <1>4, <3>1 DEF LookStep, TraversePCs, LookPCs
    <3> QED BY <1>1, <1>3, <3>1, <3>2, LookFits, QueryUnchanged
  <2> QED BY <2>2, <2>3
<1>7. CASE ReadDTime(p)
  <2>1. rpc[p] \in LookPCs /\ Leave(p, ~DeletedBefore(dtime[node[p]], lin[p]))
    BY <1>7 DEF ReadDTime, LookPCs
  <2> QED BY <1>3, <1>4, <2>1, LeaveFits, LookFits DEF LookStep
<1> QED BY <1>5, <1>6, <1>7

\* The bags of a query, without the newest node.
LEMMA NextNodeIs ==
  ASSUME NEW l \in Seq(Seq(Nodes) \ {<<>>}), l # <<>>
  PROVE  LET b == Head(l)
             c == SubSeq(b, 1, Len(b) - 1)
         IN
         /\ b \in Seq(Nodes) /\ Len(b) \in Nat \ {0} /\ b[Len(b)] \in Nodes /\ Len(b) \in DOMAIN b
         /\ NextBag(l) \in Seq(Seq(Nodes) \ {<<>>})
         /\ NextNode(l) \in Seq(Seq(Nodes) \ {<<>>})
         /\ c \in Seq(Nodes) /\ Len(c) = Len(b) - 1 /\ \A i \in 1 .. Len(b) - 1 : c[i] = b[i]
         /\ \/ c = <<>> /\ NextNode(l) = Tail(l)
            \/ c # <<>> /\ NextNode(l) = <<c>> \o Tail(l)
<1> DEFINE b == Head(l)
           c == SubSeq(b, 1, Len(b) - 1)
<1>1. b \in Seq(Nodes) \ {<<>>} /\ Tail(l) \in Seq(Seq(Nodes) \ {<<>>})
  BY HeadTailProperties
<1>2. Len(b) \in Nat \ {0} /\ b[Len(b)] \in Nodes /\ Len(b) \in DOMAIN b
  BY <1>1, EmptySeq, LenProperties, ElementOfSeq
<1>3. c \in Seq(Nodes) /\ Len(c) = Len(b) - 1 /\ \A i \in 1 .. Len(b) - 1 : c[i] = b[i]
  <2> DEFINE k == Len(b) - 1
  <2>1. 1 \in 1 .. Len(b) + 1 /\ k \in 1 - 1 .. Len(b) /\ b \in Seq(Nodes) /\ Len(b) \in Nat /\ k \in Nat
    BY <1>1, <1>2
  <2>2. \A i \in 1 .. k : b[i] \in Nodes
    BY <2>1, ElementOfSeq
  <2> HIDE DEF k
  <2>3. /\ SubSeq(b, 1, k) \in Seq(Nodes)
        /\ Len(SubSeq(b, 1, k)) = IF 1 <= k THEN k - 1 + 1 ELSE 0
        /\ \A i \in 1 .. k - 1 + 1 : SubSeq(b, 1, k)[i] = b[1 + i - 1]
    BY <2>1, <2>2, SubSeqProperties
  <2>4. k - 1 + 1 = k /\ \A i \in 1 .. k : 1 + i - 1 = i
    BY <2>1
  <2>5. c = SubSeq(b, 1, k)
    BY DEF k
  <2>6. c \in Seq(Nodes) /\ Len(c) = k /\ \A i \in 1 .. k : c[i] = b[i]
    BY <2>1, <2>3, <2>4, <2>5
  <2> QED BY <2>6 DEF k
<1>4. NextNode(l) = IF c = <<>> THEN Tail(l) ELSE <<c>> \o Tail(l)
  BY DEF NextNode
<1> HIDE DEF c, b
<1>5. c # <<>> => <<c>> \o Tail(l) \in Seq(Seq(Nodes) \ {<<>>})
  BY <1>1, <1>3, ConcatProperties
<1> QED BY <1>1, <1>2, <1>3, <1>4, <1>5 DEF NextBag, b, c

\* Functions of the processes whose value for p changes.
LEMMA NextOthers ==
  ASSUME QueryTypes, NEW p \in Procs, NEW q \in Procs \cup {0}, other' = [other EXCEPT ![p] = NextOther(p, q)]
  PROVE  /\ other' \in [Procs -> Procs \cup {0}]
         /\ \A r \in Procs : r # p => other'[r] = other[r]
         /\ other'[p] = NextOther(p, q)
<1>1. NextOther(p, q) \in Procs \cup {0}
  BY NextOtherIs
<1> QED BY <1>1 DEF QueryTypes

\* A query that goes through the announcements and the bags fits.
LEMMA VisitingFits ==
  ASSUME RwInv, NEW p \in Procs, ProviderQuery(p),
         ReadCount(p) \/ ReadEntry(p) \/ OpenBags(p) \/ VisitBag(p)
  PROVE  Fits(p)
<1>1. ListTypes /\ UpdateTypes /\ QueryTypes /\ Query(p)
  BY NoOwner
<1>2. UNCHANGED listVars /\ UNCHANGED linkVars
  BY DEF ProviderQuery
<1>3. ListTypes' /\ ListFrame(p)
  BY <1>1, <1>2, ListUnchanged
<1>4. UNCHANGED <<readers, timestamp, writer, timeVars, announceVars, updateVars, linkVars>>
  BY <1>2 DEF ReadCount, ReadEntry, OpenBags, VisitBag, clockVars
<1>5. UNCHANGED <<lin, endTS, wasMarked, got>>
  BY DEF ReadCount, ReadEntry, OpenBags, VisitBag, visitVars
<1>6. rpc[p] \in {"announced", "entry", "bags", "limbo"}
  BY DEF ReadCount, ReadEntry, OpenBags, VisitBag
<1>7. rpc[p] \in TraversePCs \cup CollectPCs
  BY <1>6 DEF CollectPCs
<1>8. other[p] \in Procs \cup {0} /\ 0 \in Procs \cup {0}
  BY <1>1 DEF QueryTypes
<1>9. UNCHANGED rpc => \E l \in TraversePCs \cup CollectPCs : rpc' = [rpc EXCEPT ![p] = l]
  BY <1>1, <1>7 DEF UpdateTypes
<1>10. ASSUME NEW l \in {"announced", "entry", "bags", "limbo", "itime"}, At(p, l)
       PROVE  \E k \in TraversePCs \cup CollectPCs : rpc' = [rpc EXCEPT ![p] = k]
  <2>1. l \in TraversePCs \cup CollectPCs
    BY DEF TraversePCs, CollectPCs, LookPCs
  <2> QED BY <1>10, <2>1 DEF At
<1>11. SUFFICES /\ QueryTypes' /\ QueryFrame(p)
                /\ \E l \in TraversePCs \cup CollectPCs : rpc' = [rpc EXCEPT ![p] = l]
  BY <1>3, <1>4, LookFits DEF LookStep
<1>12. CASE ReadCount(p)
  <2>1. UNCHANGED <<node, source, limbo>>
    BY <1>12 DEF ReadCount, visitVars
  <2>2. \/ other' = other /\ At(p, "entry")
        \/ \E q \in Procs \cup {0} : other' = [other EXCEPT ![p] = NextOther(p, q)]
              /\ (At(p, "bags") \/ UNCHANGED rpc)
    BY <1>8, <1>12 DEF ReadCount
  <2>3. other' \in [Procs -> Procs \cup {0}] /\ \A r \in Procs : r # p => other'[r] = other[r]
    BY <1>1, <2>2, NextOthers DEF QueryTypes
  <2>4. QueryTypes' /\ QueryFrame(p)
    BY <1>1, <1>5, <2>1, <2>3 DEF QueryTypes, QueryFrame
  <2> QED BY <1>9, <1>10, <2>2, <2>4
<1>13. CASE ReadEntry(p)
  <2>1. /\ node' = [node EXCEPT ![p] = announcements[other[p]]]
        /\ source' = [source EXCEPT ![p] = "announced"] /\ At(p, "itime") /\ limbo' = limbo
        /\ other' = [other EXCEPT ![p] = NextOther(p, other[p])]
        /\ rpc[p] = "entry"
    BY <1>13 DEF ReadEntry, Consider
  <2>2. other[p] \in Procs
    BY <1>1, <1>8, <2>1 DEF Query
  <2>3. announcements[other[p]] \in Nodes \cup {NoNode}
    BY <1>1, <2>2 DEF UpdateTypes
  <2>4. other' \in [Procs -> Procs \cup {0}] /\ \A r \in Procs : r # p => other'[r] = other[r]
    BY <1>1, <1>8, <2>1, NextOthers
  <2>5. QueryTypes'
    BY <1>1, <1>5, <2>1, <2>3, <2>4 DEF QueryTypes, Sources
  <2>6. QueryFrame(p)
    BY <1>1, <1>5, <2>1, <2>4 DEF QueryTypes, QueryFrame
  <2> QED BY <1>10, <2>1, <2>5, <2>6
<1>14. CASE OpenBags(p)
  <2>1. UNCHANGED <<node, source>> /\ rpc[p] = "bags"
    BY <1>14 DEF OpenBags, visitVars
  <2>2. CASE other[p] = 0
    <3>1. UNCHANGED <<other, limbo>> /\ At(p, "limbo")
      BY <1>14, <2>2 DEF OpenBags
    <3>2. QueryTypes' /\ QueryFrame(p)
      BY <1>1, <1>5, <2>1, <3>1 DEF QueryTypes, QueryFrame
    <3> QED BY <1>10, <3>1, <3>2
  <2>3. CASE other[p] # 0
    <3>1. /\ limbo' = [limbo EXCEPT ![p] = IF bag[other[p]] = <<>> THEN limbo[p]
                                            ELSE Append(limbo[p], bag[other[p]])]
          /\ other' = [other EXCEPT ![p] = NextOther(p, other[p])] /\ UNCHANGED rpc
      BY <1>14, <2>3 DEF OpenBags
    <3>2. other' \in [Procs -> Procs \cup {0}] /\ \A r \in Procs : r # p => other'[r] = other[r]
      BY <1>1, <1>8, <3>1, NextOthers
    <3>3. other[p] \in Procs /\ bag[other[p]] \in Seq(Nodes) /\ limbo[p] \in Seq(Seq(Nodes) \ {<<>>})
      BY <1>1, <1>8, <2>3 DEF UpdateTypes, QueryTypes
    <3>4. bag[other[p]] # <<>> => Append(limbo[p], bag[other[p]]) \in Seq(Seq(Nodes) \ {<<>>})
      BY <3>3, AppendProperties
    <3>5. limbo' \in [Procs -> Seq(Seq(Nodes) \ {<<>>})] /\ \A r \in Procs : r # p => limbo'[r] = limbo[r]
      BY <1>1, <3>1, <3>3, <3>4 DEF QueryTypes
    <3>6. QueryTypes' /\ QueryFrame(p)
      BY <1>1, <1>5, <2>1, <3>2, <3>5 DEF QueryTypes, QueryFrame
    <3> QED BY <1>9, <3>1, <3>6
  <2> QED BY <2>2, <2>3
<1>15. CASE VisitBag(p)
  <2>1. limbo[p] # <<>> /\ other' = other
    BY <1>15 DEF VisitBag
  <2>2. limbo[p] \in Seq(Seq(Nodes) \ {<<>>})
    BY <1>1 DEF QueryTypes
  <2> DEFINE n == Head(limbo[p])[Len(Head(limbo[p]))]
  <2>3. n \in Nodes /\ NextBag(limbo[p]) \in Seq(Seq(Nodes) \ {<<>>})
        /\ NextNode(limbo[p]) \in Seq(Seq(Nodes) \ {<<>>})
    BY <2>1, <2>2, NextNodeIs
  <2>4. /\ \/ limbo' = [limbo EXCEPT ![p] = NextNode(limbo[p])]
           \/ limbo' = [limbo EXCEPT ![p] = NextBag(limbo[p])]
        /\ \/ UNCHANGED <<node, source, rpc>>
           \/ /\ node' = [node EXCEPT ![p] = n] /\ source' = [source EXCEPT ![p] = "limbo"]
              /\ At(p, "itime")
    BY <1>15 DEF VisitBag, Consider
  <2> HIDE DEF n
  <2>5. limbo' \in [Procs -> Seq(Seq(Nodes) \ {<<>>})] /\ \A r \in Procs : r # p => limbo'[r] = limbo[r]
    BY <1>1, <2>3, <2>4 DEF QueryTypes
  <2>6. /\ node' \in [Procs -> Nodes \cup {NoNode}] /\ source' \in [Procs -> Sources \cup {"none"}]
        /\ \A r \in Procs : r # p => node'[r] = node[r] /\ source'[r] = source[r]
    BY <1>1, <2>3, <2>4 DEF QueryTypes, Sources
  <2>7. QueryTypes' /\ QueryFrame(p)
    BY <1>1, <1>5, <2>1, <2>5, <2>6 DEF QueryTypes, QueryFrame
  <2> QED BY <1>9, <1>10, <2>4, <2>7
<1> QED BY <1>12, <1>13, <1>14, <1>15

\* A query that goes through the list fits.
LEMMA TraversingFits ==
  ASSUME RwInv, NEW p \in Procs, Traverse(p) \/ TraverseEnd(p)
  PROVE  Fits(p)
<1>1. ListTypes /\ UpdateTypes /\ QueryTypes /\ Structure /\ HeadNode \in Nodes /\ curr[p] \in alloc
  BY NoOwner, Basics
<1>2. rpc[p] = "traverse" /\ rpc[p] \in TraversePCs \cup CollectPCs
  BY DEF Traverse, TraverseEnd, EndTraversal, TraversePCs
<1>3. /\ lpc[p] = "query" /\ op[p] \in Operation /\ key[curr[p]] <= op[p].hi
      /\ op[p].hi < key[MaxNode] /\ op[p].hi \in Int
  <2>1. lpc[p] = "query" /\ op[p] \in Operation
    BY <1>2, InQuery
  <2> QED BY <1>1, <2>1, OperationKeys, NoOwner DEF Own, Stands
<1>4. curr[p] # MaxNode /\ next[curr[p]] \in Nodes
  <2>1. curr[p] # MaxNode
    BY <1>1, <1>3 DEF ListTypes
  <2> QED BY <1>1, <2>1 DEF Structure, Known, ListTypes
<1>5. UNCHANGED <<readers, timestamp, writer, timeVars, announceVars, updateVars, linkVars>>
  BY DEF Traverse, TraverseEnd, EndTraversal, clockVars
<1>6. UNCHANGED rpc => \E l \in TraversePCs \cup CollectPCs : rpc' = [rpc EXCEPT ![p] = l]
  BY <1>1, <1>2 DEF UpdateTypes
<1>7. CASE Traverse(p)
  <2>1. /\ curr' = [curr EXCEPT ![p] = next[curr[p]]]
        /\ UNCHANGED <<lock, key, alloc, todo, op, pred, newnode, lpc>>
        /\ UNCHANGED <<lin, endTS, wasMarked, other, limbo, got>>
    BY <1>7 DEF Traverse, lockVars, nodeVars, callVars
  <2>2. \/ UNCHANGED <<node, source, rpc>>
        \/ /\ node' = [node EXCEPT ![p] = next[curr[p]]]
           /\ source' = [source EXCEPT ![p] = "traverse"]
           /\ rpc' = [rpc EXCEPT ![p] = "itime"]
    BY <1>7 DEF Traverse, Consider, At
  <2>3. ListTypes' /\ ListFrame(p)
    BY <1>1, <1>4, <2>1 DEF ListTypes, ListFrame
  <2>4. QueryTypes' /\ QueryFrame(p)
    BY <1>1, <1>4, <2>1, <2>2 DEF QueryTypes, QueryFrame, Sources
  <2>5. "itime" \in TraversePCs \cup CollectPCs
    BY DEF TraversePCs, LookPCs
  <2> QED BY <1>5, <1>6, <2>2, <2>3, <2>4, <2>5, LookFits DEF LookStep
<1>8. CASE TraverseEnd(p)
  <2>1. /\ curr' = [curr EXCEPT ![p] = HeadNode] /\ pred' = [pred EXCEPT ![p] = HeadNode]
        /\ lpc' = [lpc EXCEPT ![p] = "collect"]
        /\ UNCHANGED <<lock, key, alloc, todo, op, newnode>>
        /\ UNCHANGED <<lin, node, source, wasMarked, limbo, got>>
        /\ endTS' = [endTS EXCEPT ![p] = timestamp]
        /\ other' = [other EXCEPT ![p] = NextOther(p, 0)]
        /\ rpc' = [rpc EXCEPT ![p] = "announced"]
    BY <1>8 DEF TraverseEnd, EndTraversal, Restart, Goto, At, lockVars, nodeVars, callVars, visitVars
  <2>2. other' \in [Procs -> Procs \cup {0}] /\ \A r \in Procs : r # p => other'[r] = other[r]
    BY <1>1, <2>1, NextOthers
  <2>3. ListTypes' /\ ListFrame(p)
    BY <1>1, <2>1 DEF ListTypes, ListFrame, LPCs
  <2>4. QueryTypes' /\ QueryFrame(p)
    BY <1>1, <2>1, <2>2 DEF UpdateTypes, QueryTypes, QueryFrame
  <2>5. "announced" \in TraversePCs \cup CollectPCs
    BY DEF CollectPCs
  <2> QED BY <1>5, <2>1, <2>3, <2>4, <2>5, LookFits DEF LookStep
<1> QED BY <1>7, <1>8

\* The clock and the lock of a query, its start and its end.
LEMMA ClockFits ==
  ASSUME RwInv, NEW p \in Procs,
         BeginQuery(p) \/ Finish(p) \/ (ProviderQuery(p) /\ (AdvanceClock(p) \/ WriteUnlock(p)))
  PROVE  Fits(p)
<1>1. ListTypes /\ UpdateTypes /\ QueryTypes
  BY NoOwner
<1>2. /\ UNCHANGED <<readers, timeVars, announceVars, updateVars, linkVars>>
      /\ timestamp' \in {timestamp, timestamp + 1} /\ writer' \in BOOLEAN
  BY <1>1 DEF BeginQuery, StartTraversal, Finish, EndQuery, ProviderQuery, AdvanceClock, WriteUnlock,
              clockVars, UpdateTypes
<1>3. \E l \in {"advance", "writeUnlock", "traverse", "idle"} : rpc' = [rpc EXCEPT ![p] = l]
  BY DEF BeginQuery, StartTraversal, Finish, EndQuery, AdvanceClock, WriteUnlock, At
<1>4. UpdateTypes' /\ UpdateFrame(p)
  <2>1. {"advance", "writeUnlock", "traverse", "idle"} \subseteq RPCs \ UpdatePCs
    BY QueryPlaces DEF TraversePCs, WritePCs
  <2> QED BY <1>1, <1>2, <1>3, <2>1, QueryKeepsUpdates
<1>5. ListTypes' /\ ListFrame(p)
  <2>1. CASE BeginQuery(p)
    <3>1. /\ lpc' = [lpc EXCEPT ![p] = "query"]
          /\ UNCHANGED <<lock, key, alloc, todo, op, pred, curr, newnode>>
      BY <2>1 DEF BeginQuery, Goto, lockVars, nodeVars, callVars, localVars
    <3> QED BY <1>1, <3>1 DEF ListTypes, ListFrame, LPCs
  <2>2. CASE Finish(p)
    <3>1. PICK r, seen : Return(p, r, seen) /\ UNCHANGED <<lock, key, alloc>>
      BY <2>2 DEF Finish, ReturnKeys, lockVars, nodeVars
    <3> QED BY <1>1, <3>1, ReturnFrame
  <2>3. CASE ProviderQuery(p)
    BY <1>1, <2>3, ListUnchanged DEF ProviderQuery
  <2> QED BY <2>1, <2>2, <2>3
<1>6. QueryTypes' /\ QueryFrame(p)
  <2>1. CASE BeginQuery(p) \/ WriteUnlock(p)
    BY <1>1, <2>1, QueryUnchanged DEF BeginQuery, StartTraversal, WriteUnlock
  <2>2. CASE Finish(p)
    <3>1. /\ lin' = [lin EXCEPT ![p] = 0] /\ endTS' = [endTS EXCEPT ![p] = 0] /\ got' = [got EXCEPT ![p] = {}]
          /\ UNCHANGED <<node, source, wasMarked, other, limbo>>
      BY <2>2 DEF Finish, EndQuery, visitVars
    <3> QED BY <1>1, <3>1 DEF QueryTypes, QueryFrame
  <2>3. CASE AdvanceClock(p)
    <3>1. /\ lin' = [lin EXCEPT ![p] = timestamp + 1]
          /\ UNCHANGED <<endTS, node, source, wasMarked, other, limbo, got>>
      BY <2>3 DEF AdvanceClock, visitVars
    <3> QED BY <1>1, <3>1 DEF UpdateTypes, QueryTypes, QueryFrame
  <2> QED BY <2>1, <2>2, <2>3
<1> QED BY <1>4, <1>5, <1>6 DEF Fits, Types

\* Every step fits.
LEMMA StepFits ==
  ASSUME RwInv, NEW p \in Procs, ListCall(p) \/ ListStep(p)
  PROVE  Fits(p)
<1>1. CASE ProviderQuery(p)
  <2>1. QueryStep(p)
    BY <1>1 DEF ProviderQuery
  <2> QED BY <1>1, <2>1, ClockFits, LookingFits, VisitingFits DEF QueryStep
<1>2. CASE ~ProviderQuery(p)
  BY <1>2, CallFits, SearchFits, EndFits, LockFits, UpdatedFits, BeginFits, UpdateFits, ClockFits,
     TraversingFits, LookingFits DEF ListStep
<1> QED BY <1>1, <1>2

Step(p) == ListCall(p) \/ ListStep(p)

\* No node is forgotten, and none becomes new again.
LEMMA KnownGrows ==
  ASSUME RwInv, NEW p \in Procs, Fits(p)
  PROVE  /\ Known \subseteq Known' /\ alloc \subseteq alloc' /\ \A n \in alloc : key'[n] = key[n]
         /\ \A n \in alloc : Fresh(n)' => Fresh(n)
<1>1. \A n \in alloc : Fresh(n)' => Fresh(n)
  <2> SUFFICES ASSUME NEW n \in alloc, Fresh(n)' PROVE Fresh(n)
    OBVIOUS
  <2>1. PICK q \in Procs : rpc'[q] \in BeforePCs /\ ins'[q] = n
    BY DEF Fresh
  <2>2. rpc[q] \in BeforePCs /\ ins[q] = n
    BY <2>1 DEF Fits, UpdateFrame
  <2> QED BY <2>2 DEF Fresh
<1> QED BY <1>1 DEF Known, Fits, ListFrame

\* Only one node of the list leads to any other.
LEMMA OnePredecessor ==
  ASSUME RwInv, NEW m \in Listed \ {MaxNode}, NEW n \in Listed \ {MaxNode}, next[m] = next[n]
  PROVE  m = n
<1>1. Leads(m) /\ Leads(n) /\ m \in Listed /\ n \in Listed
  BY DEF RwInv, Structure
<1>2. key[m] \in Int /\ key[n] \in Int /\ key[next[m]] \in Int
  BY <1>1 DEF RwInv, Types, ListTypes, Listed, Known, Leads
<1>3. key[m] = key[n]
  BY <1>1, <1>2 DEF Leads
<1> QED BY <1>1, <1>3 DEF RwInv, Structure

\* The predecessor of an update, while its link is sure, is a node of the list.
LEMMA PredListed ==
  ASSUME RwInv, NEW p \in Procs, lpc[p] \in FoundLPCs, ~marked[pred[p]]
  PROVE  pred[p] \in Listed \ {MaxNode}
<1>1. op[p] \in Operation /\ ListTypes /\ Own(p)
  BY NoOwner, OpenOperation DEF FoundLPCs, HoldLPCs, ChangeLPCs
<1>2. key[pred[p]] < op[p].lo
  BY <1>1 DEF Own, Stands
<1>3. pred[p] # MaxNode
  <2>1. op[p].lo \in Int /\ op[p].lo < key[MaxNode] /\ key[MaxNode] \in Int
    BY <1>1, OperationKeys, Basics DEF ListTypes
  <2> QED BY <1>2, <2>1
<1> QED BY <1>1, <1>3 DEF Own, Stands, Listed

\* A marked node is not one that another process has just linked.
LEMMA MarkedOther ==
  ASSUME RwInv, NEW p \in Procs, NEW q \in Procs, p # q,
         rpc[p] \in BeforePCs \cup MarkedPCs, op[p].type = "erase",
         rpc[q] \in InsertPCs, op[q].type = "insert"
  PROVE  newnode[q] # curr[p]
<1>1. rpc[p] \in UpdatePCs /\ rpc[q] \in UpdatePCs
  BY DEF UpdatePCs, InsertPCs, MarkedPCs
<1>2. /\ lpc[p] = "update" /\ lpc[q] = "update" /\ Erases(p) /\ Inserts(q) /\ ins[q] = newnode[q]
      /\ lock[pred[p]] = p /\ lock[pred[q]] = q
  BY <1>1, InUpdate
<1>3. CASE rpc[q] \in BeforePCs
  <2>1. Fresh(newnode[q])
    BY <1>2, <1>3 DEF Fresh
  <2>2. curr[p] \in Known
    BY NoOwner
  <2> QED BY <2>1, <2>2 DEF Known
<1>4. CASE rpc[q] \in DonePCs
  <2>1. pred[p] \in Listed \ {MaxNode} /\ pred[q] \in Listed \ {MaxNode}
    BY <1>2, PredListed DEF Erases, Adjacent, Inserts, FoundLPCs, HoldLPCs, ChangeLPCs
  <2>2. next[pred[p]] = curr[p] /\ next[pred[q]] = newnode[q]
    BY <1>2, <1>4 DEF Erases, Adjacent, Inserts
  <2> QED BY <1>2, <2>1, <2>2, OnePredecessor
<1> QED BY <1>3, <1>4 DEF InsertPCs

-----------------------------------------------------------------------------
(***************************************************************************)
(* The other processes.                                                    *)
(***************************************************************************)
LEMMA OthersKeep ==
  ASSUME RwInv, NEW p \in Procs, Fits(p), NEW q \in Procs, q # p
  PROVE  Own(q)'
<1>1. /\ Own(q) /\ ListTypes /\ UpdateTypes /\ Own(p) /\ pred[q] \in Known /\ curr[q] \in Known
      /\ Known \subseteq alloc /\ alloc \subseteq Nodes /\ NoNode \notin Nodes
  BY NoOwner, Basics
<1>2. /\ lpc'[q] = lpc[q] /\ todo'[q] = todo[q] /\ op'[q] = op[q] /\ pred'[q] = pred[q]
      /\ curr'[q] = curr[q] /\ newnode'[q] = newnode[q]
      /\ rpc'[q] = rpc[q] /\ ins'[q] = ins[q] /\ del'[q] = del[q] /\ uts'[q] = uts[q]
      /\ announcements'[q] = announcements[q] /\ numAnnouncements'[q] = numAnnouncements[q]
      /\ bag'[q] = bag[q] /\ source'[q] = source[q]
  BY DEF Fits, ListFrame, UpdateFrame, QueryFrame
<1>3. Known \subseteq Known' /\ alloc \subseteq alloc' /\ \A n \in alloc : key'[n] = key[n]
  BY KnownGrows
<1>4. \A n \in alloc : lock[n] = q => lock'[n] = q /\ next'[n] = next[n] /\ marked'[n] = marked[n]
  <2> SUFFICES ASSUME NEW n \in alloc, lock[n] = q
               PROVE  lock'[n] = q /\ next'[n] = next[n] /\ marked'[n] = marked[n]
    OBVIOUS
  <2>1. lock'[n] = q /\ next'[n] = next[n]
    BY <1>1 DEF Fits, ListFrame, UpdateFrame
  <2>2. rpc[p] = "write" => lock[curr[p]] = p
    BY InUpdate DEF UpdatePCs, InsertPCs, BeforePCs
  <2>3. marked'[n] = marked[n]
    BY <1>1, <2>2 DEF Fits, UpdateFrame
  <2> QED BY <2>1, <2>3
<1>5. Calls(q)'
  BY <1>1, <1>2 DEF Own, Calls
<1>6. HoldsLocks(q)'
  BY <1>1, <1>2, <1>4 DEF Own, HoldsLocks
<1>7. Stands(q)'
  BY <1>1, <1>2, <1>3 DEF Own, Stands
<1>8. Shows(q)'
  BY <1>1, <1>2 DEF Own, Shows
<1>9. (lpc[q] = "change" => /\ Adjacent(q) /\ ~marked[curr[q]]
                            /\ op[q].type = "insert" => op[q].lo < key[curr[q]])'
  <2>1. lpc[q] = "change" => lock[pred[q]] = q /\ lock[curr[q]] = q
    BY <1>1 DEF Own, HoldsLocks, ChangeLPCs, HoldLPCs
  <2> QED BY <1>1, <1>2, <1>3, <1>4, <2>1 DEF Own, Changes, Adjacent
<1>10. ASSUME rpc[q] \in InsertPCs, op[q].type = "insert" PROVE Inserts(q)'
  <2>1. /\ lock[pred[q]] = q /\ lock[curr[q]] = q /\ Inserts(q) /\ ins[q] = newnode[q]
        /\ newnode[q] \in alloc
    BY <1>10, InUpdate DEF UpdatePCs, Inserts
  <2>2. marked'[newnode[q]] = marked[newnode[q]]
    <3>1. rpc[p] = "write" /\ op[p].type = "erase" => newnode[q] # curr[p]
      BY <1>10, MarkedOther DEF BeforePCs
    <3> QED BY <1>1, <2>1, <3>1 DEF Fits, UpdateFrame
  <2>3. itime'[newnode[q]] = itime[newnode[q]]
    BY <1>1, <2>1 DEF Inserts, Fits, UpdateFrame
  <2>4. \A r \in Procs : ins'[r] = newnode[q] => r = q
    <3> SUFFICES ASSUME NEW r \in Procs, ins'[r] = newnode[q] PROVE r = q
      OBVIOUS
    <3>1. CASE r = p
      <4>1. ins[p] = newnode[q]
        BY <2>1, <3>1 DEF Fits, UpdateFrame
      <4> QED BY <2>1, <3>1, <4>1 DEF Inserts
    <3>2. CASE r # p
      <4>1. ins[r] = newnode[q]
        BY <3>2 DEF Fits, UpdateFrame
      <4> QED BY <2>1, <4>1 DEF Inserts
    <3> QED BY <3>1, <3>2
  <2>5. rpc[q] \in BeforePCs => next'[newnode[q]] = next[newnode[q]]
    <3>1. rpc[q] \in BeforePCs => newnode[q] \notin Known
      BY <2>1 DEF Known, Fresh
    <3> QED BY <2>1, <3>1 DEF Fits, UpdateFrame
  <2> QED BY <1>1, <1>2, <1>3, <1>4, <2>1, <2>2, <2>3, <2>4, <2>5 DEF Inserts
<1>11. ASSUME rpc[q] \in UpdatePCs, op[q].type = "erase" PROVE Erases(q)'
  <2>1. lock[pred[q]] = q /\ lock[curr[q]] = q /\ Erases(q)
    BY <1>11, InUpdate
  <2>2. dtime'[curr[q]] = dtime[curr[q]]
    <3>1. rpc[p] = "times" => del[p] = NoNode \/ (del[p] = curr[p] /\ lock[curr[p]] = p)
      BY InUpdate DEF UpdatePCs, InsertPCs, DonePCs
    <3> QED BY <1>1, <2>1, <3>1 DEF Fits, UpdateFrame
  <2> QED BY <1>1, <1>2, <1>4, <2>1, <2>2 DEF Erases, Adjacent
<1>12. Changes(q)'
  BY <1>2, <1>9, <1>10, <1>11 DEF Changes
<1> QED BY <1>5, <1>6, <1>7, <1>8, <1>12 DEF Own

-----------------------------------------------------------------------------
(***************************************************************************)
(* The process that takes the step.  First the steps of the list alone.    *)
(***************************************************************************)
CallLPCs == {"update", "query", "collect"}

\* What is to be shown of a step outside the provider.
LEMMA OutsideOwn ==
  ASSUME RwInv, NEW p \in Procs, Fits(p), rpc[p] = "idle", UNCHANGED <<rqVars, linkVars, alloc, key>>,
         lpc'[p] \notin CallLPCs,
         lpc'[p] = "start" <=> op'[p].type = "range",
         lpc'[p] = "idle" <=> op'[p].type = "none",
         lpc'[p] \in FoundLPCs => op'[p].type \in {"insert", "erase"},
         HoldsLocks(p)', Stands(p)',
         lpc'[p] = "change" => /\ ~marked[pred'[p]] /\ next[pred'[p]] = curr'[p] /\ ~marked[curr'[p]]
                               /\ op'[p].type = "insert" => op'[p].lo < key[curr'[p]]
  PROVE  Own(p)'
<1>1. /\ rpc' = rpc /\ ins' = ins /\ del' = del /\ announcements' = announcements
      /\ numAnnouncements' = numAnnouncements /\ bag' = bag /\ next' = next /\ marked' = marked
  BY DEF rqVars, announceVars, updateVars, linkVars
<1>2. rpc[p] \notin UpdatePCs /\ rpc[p] \notin LookPCs /\ rpc[p] \notin InsertPCs
  BY DEF UpdatePCs, InsertPCs, BeforePCs, DonePCs, TimedPCs, GonePCs, LookPCs
<1>3. Own(p)
  BY NoOwner
<1>4. ins[p] = NoNode /\ del[p] = NoNode
  BY <1>2, <1>3 DEF Own, Calls
<1>5. Calls(p)'
  BY <1>1, <1>2, <1>4 DEF Calls, CallLPCs
<1>6. Changes(p)'
  BY <1>1, <1>2 DEF Changes, Adjacent
<1>7. Shows(p)'
  BY <1>1, <1>3 DEF Own, Shows
<1> QED BY <1>5, <1>6, <1>7 DEF Own

\* Outside a call of the provider.
LEMMA OutsideIdle ==
  ASSUME RwInv, NEW p \in Procs, lpc[p] \notin CallLPCs
  PROVE  rpc[p] = "idle"
BY NoOwner DEF Own, Calls, CallLPCs

\* The ends are known.
LEMMA HeadKnown ==
  ASSUME RwInv
  PROVE  HeadNode \in Known /\ MaxNode \in Known
BY DEF RwInv, Structure, Types, ListTypes, Known

\* What holds of a process stays true of it, in each of its steps.
LEMMA CallOwn ==
  ASSUME RwInv, NEW p \in Procs, Fits(p), ListCall(p)
  PROVE  Own(p)'
<1>1. /\ todo[p] # <<>> /\ op' = [op EXCEPT ![p] = Head(todo[p])] /\ lpc[p] = "idle"
      /\ UNCHANGED <<lock, key, alloc, pred, curr, newnode>> /\ UNCHANGED <<rqVars, linkVars>>
      /\ lpc' = [lpc EXCEPT ![p] = IF Head(todo[p]).type = "range" THEN "start" ELSE "search"]
  BY DEF ListCall, Call, Goto, lockVars, nodeVars, localVars
<1>2. ListTypes /\ Own(p) /\ todo[p] \in Seq(Operation)
  BY NoOwner DEF ListTypes
<1>3. Head(todo[p]) \in Operation
  BY <1>1, <1>2
<1>4. op'[p] = Head(todo[p]) /\ lpc'[p] = IF Head(todo[p]).type = "range" THEN "start" ELSE "search"
  BY <1>1, <1>2 DEF ListTypes
<1>5. op'[p].type # "none" /\ key[HeadNode] < op'[p].lo
  BY <1>2, <1>3, <1>4, OperationKeys DEF OpTypes
<1>6. curr'[p] = HeadNode /\ pred'[p] \in Known /\ curr'[p] \in Known
  BY <1>1, <1>2 DEF Own, Stands
<1>7. pred'[p] \in Known' /\ curr'[p] \in Known'
  BY <1>6, KnownGrows
<1>8. Stands(p)'
  BY <1>1, <1>4, <1>5, <1>6, <1>7 DEF Stands, FoundLPCs, HoldLPCs, ChangeLPCs
<1>9. HoldsLocks(p)'
  BY <1>4 DEF HoldsLocks, HoldLPCs, ChangeLPCs
<1>10. rpc[p] = "idle"
  BY <1>1, OutsideIdle DEF CallLPCs
<1> QED BY <1>1, <1>4, <1>5, <1>8, <1>9, <1>10, OutsideOwn DEF CallLPCs, FoundLPCs, HoldLPCs, ChangeLPCs

\* The end of an operation that calls nobody.
LEMMA ReturnOwn ==
  ASSUME RwInv, NEW p \in Procs, Fits(p), NEW r, NEW seen, Return(p, r, seen),
         UNCHANGED <<rqVars, linkVars, alloc, key>>, rpc[p] = "idle"
  PROVE  Own(p)'
<1>1. /\ op' = [op EXCEPT ![p] = [type |-> "none"]]
      /\ pred' = [pred EXCEPT ![p] = HeadNode] /\ curr' = [curr EXCEPT ![p] = HeadNode]
      /\ lpc' = [lpc EXCEPT ![p] = "idle"]
  BY DEF Return, Restart, Goto
<1>2. ListTypes /\ HeadNode \in Known'
  BY NoOwner, HeadKnown, KnownGrows
<1>3. op'[p].type = "none" /\ pred'[p] = HeadNode /\ curr'[p] = HeadNode /\ lpc'[p] = "idle"
  BY <1>1, <1>2 DEF ListTypes
<1>4. HoldsLocks(p)' /\ Stands(p)'
  BY <1>2, <1>3 DEF HoldsLocks, Stands, FoundLPCs, HoldLPCs, ChangeLPCs
<1> QED BY <1>3, <1>4, OutsideOwn DEF CallLPCs, FoundLPCs, HoldLPCs, ChangeLPCs

\* The end of contains.
LEMMA EndOwn ==
  ASSUME RwInv, NEW p \in Procs, Fits(p), EndContains(p)
  PROVE  Own(p)'
<1>1. PICK r, seen : Return(p, r, seen) /\ UNCHANGED <<rqVars, linkVars, alloc, key>> /\ lpc[p] = "mark"
  BY DEF EndContains, ReturnKeys, nodeVars
<1> QED BY <1>1, ReturnOwn, OutsideIdle DEF CallLPCs

\* A step of a search.
LEMMA SearchOwn ==
  ASSUME RwInv, NEW p \in Procs, Fits(p), Search(p)
  PROVE  Own(p)'
<1> DEFINE n == next[curr[p]]
<1>1. /\ lpc[p] = "search" /\ Visit(p, n) /\ UNCHANGED <<lock, key, alloc>>
      /\ UNCHANGED <<rqVars, linkVars>>
  BY DEF Search, lockVars, nodeVars
<1>2. ListTypes /\ Own(p) /\ Structure /\ Known \subseteq Known' /\ Known \subseteq alloc
      /\ alloc \subseteq Nodes /\ curr[p] \in Known
  BY NoOwner, KnownGrows
<1>3. rpc[p] = "idle"
  BY <1>1, OutsideIdle DEF CallLPCs
<1>4. op[p] \in Operation /\ op[p].type # "range" /\ op[p].type # "none"
  BY <1>1, <1>2, OpenOperation DEF Own, Calls
<1>5. key[curr[p]] < op[p].lo /\ op[p].lo \in Int /\ op[p].type \in OpTypes
  BY <1>1, <1>2, <1>4, OperationKeys DEF Own, Stands
<1>6. n \in Known /\ key[n] \in Int
  <2>1. curr[p] # MaxNode
    BY <1>2, <1>4, <1>5, OperationKeys DEF ListTypes
  <2> QED BY <1>2, <2>1 DEF Structure, ListTypes
<1>7. CASE ReturnKeys(p, <<>>)
  BY <1>1, <1>3, <1>7, ReturnOwn DEF ReturnKeys
<1>8. CASE VisitMoves(p, n) /\ ~(op[p].type = "erase" /\ key[n] > op[p].lo)
  <2>1. /\ pred'[p] = curr[p] /\ curr'[p] = n /\ op'[p] = op[p]
        /\ lpc'[p] = IF Before(p, n) THEN "search"
                     ELSE IF op[p].type = "contains" THEN "mark" ELSE "lockPred"
    BY <1>1, <1>2, <1>8 DEF VisitMoves, ListTypes
  <2> HIDE DEF n
  <2>2. HoldsLocks(p)'
    BY <2>1 DEF HoldsLocks, HoldLPCs, ChangeLPCs
  <2>3. Stands(p)'
    <3>1. pred'[p] \in Known' /\ curr'[p] \in Known'
      BY <1>2, <1>6, <2>1
    <3>2. CASE Before(p, n)
      BY <1>1, <1>5, <2>1, <3>1, <3>2 DEF Before, Stands, FoundLPCs, HoldLPCs, ChangeLPCs
    <3>3. CASE ~Before(p, n)
      <4>1. op[p].lo <= key[n] /\ (op[p].type = "erase" => key[n] = op[p].lo)
        BY <1>5, <1>6, <1>8, <3>3 DEF Before
      <4>2. lpc'[p] \in {"mark", "lockPred"}
        BY <2>1, <3>3
      <4> QED BY <1>1, <1>5, <2>1, <3>1, <4>1, <4>2 DEF Stands
    <3> QED BY <3>2, <3>3
  <2>4. lpc'[p] \in FoundLPCs => op'[p].type \in {"insert", "erase"}
    BY <1>4, <1>5, <2>1 DEF OpTypes, FoundLPCs, HoldLPCs, ChangeLPCs
  <2> QED BY <1>1, <1>3, <1>4, <2>1, <2>2, <2>3, <2>4, OutsideOwn DEF CallLPCs
<1> QED BY <1>1, <1>2, <1>7, <1>8, VisitCases

\* The validation: the node found is unmarked and adjacent.
LEMMA ValidateOwn ==
  ASSUME RwInv, NEW p \in Procs, Fits(p), ListValidate(p)
  PROVE  Own(p)'
<1>1. /\ lpc[p] = "validate" /\ Validate(p, ValidateLinks(p))
      /\ UNCHANGED <<lock, key, alloc, todo, op, pred, curr, newnode>> /\ UNCHANGED <<rqVars, linkVars>>
  BY DEF ListValidate, Validate, lockVars, nodeVars, callVars
<1>2. ListTypes /\ Own(p) /\ Known \subseteq Known' /\ Known \subseteq alloc
      /\ alloc \subseteq Nodes
  BY NoOwner, KnownGrows
<1>3. rpc[p] = "idle"
  BY <1>1, OutsideIdle DEF CallLPCs
<1>4. op[p] \in Operation /\ op[p].type \in {"insert", "erase"}
  BY <1>1, <1>2, OpenOperation DEF Own, Calls, FoundLPCs, HoldLPCs, ChangeLPCs
<1>5. \/ lpc'[p] = "unlockCurr"
      \/ lpc'[p] = "change" /\ ValidateLinks(p) /\ ~(op[p].type = "insert" /\ key[curr[p]] = op[p].lo)
  BY <1>1, <1>2 DEF Validate, Decide, Goto, ListTypes
<1>6. HoldsLocks(p)'
  BY <1>1, <1>2, <1>5 DEF Own, HoldsLocks, HoldLPCs, ChangeLPCs
<1>7. Stands(p)'
  BY <1>1, <1>2, <1>5 DEF Own, Stands, FoundLPCs, HoldLPCs, ChangeLPCs
<1>8. lpc'[p] = "change" => /\ ~marked[pred[p]] /\ next[pred[p]] = curr[p] /\ ~marked[curr[p]]
                            /\ op[p].type = "insert" => op[p].lo < key[curr[p]]
  <2>1. op[p].lo <= key[curr[p]] /\ op[p].lo \in Int /\ key[curr[p]] \in Int
    BY <1>1, <1>2, <1>4, OperationKeys DEF Own, Stands, FoundLPCs, HoldLPCs, ChangeLPCs, ListTypes
  <2> QED BY <1>5, <2>1 DEF ValidateLinks
<1>9. lpc'[p] \notin {"start", "idle"} /\ op[p].type \notin {"range", "none"}
  BY <1>4, <1>5
<1> QED BY <1>1, <1>3, <1>4, <1>5, <1>6, <1>7, <1>8, <1>9, OutsideOwn DEF CallLPCs

\* The locks.
LEMMA LockOwn ==
  ASSUME RwInv, NEW p \in Procs, Fits(p), ListLock(p)
  PROVE  Own(p)'
<1>1. UNCHANGED <<rqVars, linkVars>> /\ LockStep(p) /\ UNCHANGED <<key, alloc>>
  BY DEF ListLock, LockStep, LockPred, LockCurr, UnlockCurr, UnlockPred, nodeVars
<1>2. ListTypes /\ Own(p) /\ Known \subseteq Known' /\ Known \subseteq alloc
      /\ alloc \subseteq Nodes /\ pred[p] \in Known /\ curr[p] \in Known /\ p # NoProc
  BY NoOwner, KnownGrows, Basics
<1>3. lpc[p] \in {"lockPred", "lockCurr", "unlockCurr", "unlockPred"}
  BY <1>1 DEF LockStep, LockPred, LockCurr, UnlockCurr, UnlockPred
<1>4. rpc[p] = "idle"
  BY <1>3, OutsideIdle DEF CallLPCs
<1>5. /\ op[p] \in Operation /\ op[p].type \in {"insert", "erase"}
      /\ key[pred[p]] < op[p].lo /\ op[p].lo <= key[curr[p]]
      /\ op[p].type = "erase" => key[curr[p]] = op[p].lo
  BY <1>2, <1>3, OpenOperation DEF Own, Calls, Stands, FoundLPCs, HoldLPCs, ChangeLPCs
<1>6. pred[p] # curr[p]
  BY <1>2, <1>5, OperationKeys DEF ListTypes
<1>7. CASE LockPred(p) \/ LockCurr(p) \/ UnlockCurr(p)
  <2>1. UNCHANGED <<op, pred, curr>> /\ lpc'[p] \in {"lockCurr", "validate", "unlockPred"}
    BY <1>2, <1>7 DEF LockPred, LockCurr, UnlockCurr, Goto, callVars, localVars, ListTypes
  <2>2. Stands(p)'
    BY <1>1, <1>2, <1>5, <2>1 DEF Stands
  <2>3. HoldsLocks(p)'
    <3>1. CASE LockPred(p)
      <4>1. lock'[pred[p]] = p /\ lpc'[p] = "lockCurr"
        BY <1>2, <3>1 DEF LockPred, AcquireLock, Goto, ListTypes
      <4> QED BY <2>1, <4>1 DEF HoldsLocks, ChangeLPCs
    <3>2. CASE LockCurr(p)
      <4>1. lock' = [lock EXCEPT ![curr[p]] = p] /\ lock[pred[p]] = p
        BY <1>2, <3>2 DEF LockCurr, AcquireLock, Own, HoldsLocks, HoldLPCs
      <4> QED BY <1>2, <1>6, <2>1, <4>1 DEF HoldsLocks, ListTypes
    <3>3. CASE UnlockCurr(p)
      <4>1. lock' = [lock EXCEPT ![curr[p]] = NoProc] /\ lock[pred[p]] = p /\ lpc'[p] = "unlockPred"
        BY <1>2, <3>3 DEF UnlockCurr, ReleaseLock, Own, HoldsLocks, HoldLPCs, ChangeLPCs, Goto, ListTypes
      <4> QED BY <1>2, <1>6, <2>1, <4>1 DEF HoldsLocks, ListTypes, ChangeLPCs
    <3> QED BY <1>7, <3>1, <3>2, <3>3
  <2> QED BY <1>1, <1>4, <1>5, <2>1, <2>2, <2>3, OutsideOwn DEF CallLPCs
<1>8. CASE UnlockPred(p)
  <2>1. CASE verdict[p] = "retry"
    <3>1. /\ pred' = [pred EXCEPT ![p] = HeadNode] /\ curr' = [curr EXCEPT ![p] = HeadNode]
          /\ lpc' = [lpc EXCEPT ![p] = "search"] /\ UNCHANGED op
      BY <1>8, <2>1 DEF UnlockPred, Restart, Goto, callVars
    <3>2. pred'[p] = HeadNode /\ curr'[p] = HeadNode /\ lpc'[p] = "search" /\ HeadNode \in Known'
      BY <1>2, <3>1, HeadKnown DEF ListTypes
    <3>3. Stands(p)'
      BY <1>1, <1>2, <1>5, <3>1, <3>2, OperationKeys DEF Stands, FoundLPCs, HoldLPCs, ChangeLPCs
    <3>4. HoldsLocks(p)'
      BY <3>2 DEF HoldsLocks, HoldLPCs, ChangeLPCs
    <3> QED BY <1>1, <1>4, <1>5, <3>1, <3>2, <3>3, <3>4, OutsideOwn
            DEF CallLPCs, FoundLPCs, HoldLPCs, ChangeLPCs
  <2>2. CASE verdict[p] # "retry"
    <3>1. PICK r, seen : Return(p, r, seen)
      BY <1>8, <2>2 DEF UnlockPred, ReturnKeys
    <3> QED BY <1>1, <1>4, <3>1, ReturnOwn
  <2> QED BY <2>1, <2>2
<1> QED BY <1>1, <1>7, <1>8 DEF LockStep

\* The end of an update.
LEMMA UpdatedOwn ==
  ASSUME RwInv, NEW p \in Procs, Fits(p), Updated(p)
  PROVE  Own(p)'
<1>1. /\ lpc[p] = "update" /\ rpc[p] = "idle" /\ lpc' = [lpc EXCEPT ![p] = "unlockCurr"]
      /\ UNCHANGED <<lock, key, alloc, op, pred, curr>> /\ UNCHANGED <<rqVars, linkVars>>
  BY DEF Updated, Decide, Goto, lockVars, nodeVars, callVars
<1>2. ListTypes /\ Own(p) /\ Known \subseteq Known' /\ lpc'[p] = "unlockCurr"
  BY <1>1, NoOwner, KnownGrows DEF ListTypes
<1>3. op[p].type \in {"insert", "erase"}
  BY <1>1, <1>2 DEF Own, Calls, FoundLPCs, HoldLPCs, ChangeLPCs
<1>4. HoldsLocks(p)'
  BY <1>1, <1>2 DEF Own, HoldsLocks, HoldLPCs, ChangeLPCs
<1>5. Stands(p)'
  BY <1>1, <1>2 DEF Own, Stands, FoundLPCs, HoldLPCs, ChangeLPCs
<1> QED BY <1>1, <1>2, <1>3, <1>4, <1>5, OutsideOwn DEF CallLPCs

-----------------------------------------------------------------------------
(***************************************************************************)
(* The steps of an update inside the provider.                             *)
(***************************************************************************)
LEMMA InsideOwn ==
  ASSUME RwInv, NEW p \in Procs, Fits(p), rpc[p] \in UpdatePCs, UNCHANGED listVars,
         rpc'[p] \in UpdatePCs => op[p].type = "erase" \/ rpc'[p] \in InsertPCs,
         rpc'[p] \in UpdatePCs \cup {"idle"},
         ins'[p] = IF op[p].type = "insert" /\ rpc'[p] \in InsertPCs THEN newnode[p] ELSE NoNode,
         del'[p] = IF op[p].type = "erase" /\ rpc'[p] \in UpdatePCs THEN curr[p] ELSE NoNode,
         rpc'[p] \in InsertPCs /\ op[p].type = "insert" => Inserts(p)',
         rpc'[p] \in UpdatePCs /\ op[p].type = "erase" => Erases(p)',
         Shows(p)'
  PROVE  Own(p)'
<1>1. lpc[p] = "update" /\ op[p] \in Operation /\ op[p].type \in {"insert", "erase"} /\ Own(p)
      /\ Known \subseteq Known'
  BY InUpdate, NoOwner, KnownGrows
<1>2. UNCHANGED <<lock, key, op, pred, curr, newnode, lpc>>
  BY DEF listVars, lockVars, nodeVars, callVars, localVars
<1>3. rpc'[p] \notin LookPCs
  BY DEF UpdatePCs, InsertPCs, BeforePCs, DonePCs, TimedPCs, GonePCs, LookPCs
<1>4. Calls(p)'
  BY <1>1, <1>2, <1>3 DEF Calls, FoundLPCs, HoldLPCs, ChangeLPCs
<1>5. HoldsLocks(p)' /\ Stands(p)'
  BY <1>1, <1>2 DEF Own, HoldsLocks, Stands
<1>6. Changes(p)'
  BY <1>1, <1>2 DEF Changes
<1> QED BY <1>4, <1>5, <1>6 DEF Own

\* The node an erase has found was inserted, and its insert is over.
LEMMA FoundHasTime ==
  ASSUME RwInv, NEW p \in Procs, lpc[p] = "change", op[p].type = "erase"
  PROVE  itime[curr[p]] # NotSet /\ dtime[curr[p]] = NotSet /\ curr[p] \in Nodes \ {HeadNode, MaxNode}
<1>1. /\ Own(p) /\ ListTypes /\ UpdateTypes /\ op[p] \in Operation /\ curr[p] \in Known
      /\ Known \subseteq alloc /\ alloc \subseteq Nodes
  BY NoOwner, OpenOperation
<1>2. /\ key[curr[p]] = op[p].lo /\ Adjacent(p) /\ ~marked[curr[p]] /\ lock[pred[p]] = p
  BY <1>1 DEF Own, Stands, Changes, HoldsLocks, FoundLPCs, HoldLPCs, ChangeLPCs
<1>3. curr[p] \in alloc \ {HeadNode, MaxNode}
  BY <1>1, <1>2, OperationKeys
<1>4. dtime[curr[p]] = NotSet
  BY <1>1, <1>2 DEF RwInv, Times
<1>5. ASSUME NEW q \in Procs, ins[q] = curr[p] PROVE FALSE
  <2>1. Own(q) /\ ins[q] # NoNode
    BY <1>1, <1>5, NoOwner, Basics
  <2>2. op[q].type = "insert" /\ rpc[q] \in InsertPCs /\ rpc[q] \in UpdatePCs
    BY <2>1 DEF Own, Calls, UpdatePCs
  <2>3. /\ lpc[q] = "update" /\ newnode[q] = curr[p] /\ Inserts(q) /\ lock[pred[q]] = q
    BY <1>5, <2>2, InUpdate
  <2>4. rpc[q] \in DonePCs
    BY <1>1, <1>5, <2>2 DEF InsertPCs, Known, Fresh
  <2>5. pred[q] \in Listed \ {MaxNode} /\ pred[p] \in Listed \ {MaxNode}
    BY <1>2, <2>3, PredListed DEF Adjacent, Inserts, FoundLPCs, HoldLPCs, ChangeLPCs
  <2>6. next[pred[q]] = curr[p] /\ next[pred[p]] = curr[p]
    BY <1>2, <2>3, <2>4 DEF Adjacent, Inserts
  <2>7. pred[q] = pred[p]
    BY <2>5, <2>6, OnePredecessor
  <2> QED BY <1>2, <2>3, <2>7
<1>6. itime[curr[p]] # NotSet
  BY <1>3, <1>5 DEF RwInv, Times
<1> QED BY <1>1, <1>3, <1>4, <1>6

\* An insert makes its node.
LEMMA BeginInsertOwn ==
  ASSUME RwInv, NEW p \in Procs, Fits(p), BeginInsert(p)
  PROVE  Own(p)'
<1>1. PICK n \in Nodes : /\ Allocate(p, n) /\ BeginUpdate(p, n, NoNode)
                         /\ next' = [next EXCEPT ![n] = curr[p]]
  BY DEF BeginInsert
<1>2. /\ Own(p) /\ ListTypes /\ UpdateTypes /\ op[p] \in Operation /\ pred[p] \in Known /\ curr[p] \in Known
      /\ Known \subseteq alloc /\ alloc \subseteq Nodes /\ lpc[p] = "change" /\ op[p].type = "insert"
      /\ NoNode \notin Nodes /\ HeadNode \in alloc /\ MaxNode \in alloc /\ Known \subseteq Known'
  BY NoOwner, OpenOperation, Basics, KnownGrows DEF BeginInsert, ListTypes
<1>3. /\ n \notin alloc /\ alloc' = alloc \cup {n} /\ key' = [key EXCEPT ![n] = op[p].lo]
      /\ newnode'[p] = n /\ lpc'[p] = "update" /\ rpc'[p] = "readLock" /\ rpc[p] = "idle"
      /\ ins' = [ins EXCEPT ![p] = n] /\ del'[p] = NoNode
      /\ UNCHANGED <<lock, op, pred, curr, marked, itime, dtime, announcements, numAnnouncements, bag>>
  BY <1>1, <1>2 DEF BeginInsert, Allocate, BeginUpdate, At, Goto, lockVars, callVars, ListTypes, UpdateTypes,
                    timeVars, announceVars
<1>4. "readLock" \in InsertPCs /\ "readLock" \notin LookPCs /\ "readLock" \in BeforePCs /\ "readLock" \notin DonePCs
  BY DEF InsertPCs, BeforePCs, LookPCs, DonePCs
<1>5. Calls(p)'
  <2>1. ins'[p] = n
    BY <1>2, <1>3 DEF UpdateTypes
  <2> QED BY <1>2, <1>3, <1>4, <2>1 DEF Calls, FoundLPCs, HoldLPCs, ChangeLPCs
<1>6. HoldsLocks(p)'
  BY <1>2, <1>3 DEF Own, HoldsLocks, HoldLPCs, ChangeLPCs
<1>7. pred[p] # n /\ curr[p] # n /\ key'[pred[p]] = key[pred[p]] /\ key'[curr[p]] = key[curr[p]]
      /\ key'[n] = op[p].lo
  BY <1>2, <1>3 DEF ListTypes
<1>8. Stands(p)'
  <2>1. key[pred[p]] < op[p].lo /\ op[p].lo <= key[curr[p]]
    BY <1>2 DEF Own, Stands, FoundLPCs, HoldLPCs, ChangeLPCs
  <2> QED BY <1>2, <1>3, <1>7, <2>1 DEF Stands
<1>9. Shows(p)'
  BY <1>2, <1>3 DEF Own, Shows
<1>10. Inserts(p)'
  <2>1. ~marked[n] /\ itime[n] = NotSet
    BY <1>3 DEF RwInv, Structure, Times
  <2>2. \A q \in Procs : ins'[q] = n => q = p
    <3> SUFFICES ASSUME NEW q \in Procs, ins'[q] = n, q # p PROVE FALSE
      OBVIOUS
    <3>1. ins[q] = n /\ Own(q) /\ n # NoNode
      BY <1>2, <1>3, NoOwner DEF UpdateTypes
    <3>2. rpc[q] \in UpdatePCs /\ op[q].type = "insert"
      BY <3>1 DEF Own, Calls, UpdatePCs
    <3>3. Inserts(q) /\ ins[q] = newnode[q]
      BY <3>2, InUpdate
    <3> QED BY <1>3, <3>1, <3>3 DEF Inserts
  <2>3. next'[n] = curr[p] /\ next'[pred[p]] = next[pred[p]]
    BY <1>1, <1>2, <1>7 DEF UpdateTypes
  <2>4. ~marked[pred[p]] /\ next[pred[p]] = curr[p] /\ ~marked[curr[p]] /\ op[p].lo < key[curr[p]]
    BY <1>2 DEF Own, Changes, Adjacent
  <2> QED BY <1>2, <1>3, <1>4, <1>7, <2>1, <2>2, <2>3, <2>4 DEF Inserts
<1>11. Changes(p)'
  BY <1>2, <1>3, <1>10 DEF Changes
<1> QED BY <1>5, <1>6, <1>8, <1>9, <1>11 DEF Own

\* An erase hands its node to the provider.
LEMMA BeginEraseOwn ==
  ASSUME RwInv, NEW p \in Procs, Fits(p), BeginErase(p)
  PROVE  Own(p)'
<1>2. /\ Own(p) /\ ListTypes /\ UpdateTypes /\ op[p] \in Operation /\ pred[p] \in Known /\ curr[p] \in Known
      /\ Known \subseteq alloc /\ alloc \subseteq Nodes /\ lpc[p] = "change" /\ op[p].type = "erase"
      /\ Known \subseteq Known'
  BY NoOwner, OpenOperation, Basics, KnownGrows DEF BeginErase, ListTypes
<1>3. /\ lpc'[p] = "update" /\ rpc'[p] = "readLock" /\ rpc[p] = "idle"
      /\ ins'[p] = NoNode /\ del'[p] = curr[p]
      /\ UNCHANGED <<lock, key, op, pred, curr, newnode, next, marked, itime, dtime, announcements, numAnnouncements, bag>>
  BY <1>2 DEF BeginErase, BeginUpdate, At, Goto, lockVars, nodeVars, callVars, localVars, linkVars,
              ListTypes, UpdateTypes, timeVars, announceVars
<1>4. /\ "readLock" \in InsertPCs /\ "readLock" \notin LookPCs /\ "readLock" \in BeforePCs
      /\ "readLock" \notin DonePCs /\ "readLock" \in UpdatePCs
  BY DEF UpdatePCs, InsertPCs, BeforePCs, LookPCs, DonePCs
<1>5. Calls(p)'
  BY <1>2, <1>3, <1>4 DEF Calls, FoundLPCs, HoldLPCs, ChangeLPCs
<1>6. HoldsLocks(p)'
  BY <1>2, <1>3 DEF Own, HoldsLocks, HoldLPCs, ChangeLPCs
<1>8. Stands(p)'
  BY <1>2, <1>3 DEF Own, Stands, FoundLPCs, HoldLPCs, ChangeLPCs
<1>9. Shows(p)'
  BY <1>2, <1>3 DEF Own, Shows
<1>10. Erases(p)'
  BY <1>2, <1>3, <1>4, FoundHasTime DEF Own, Changes, Erases, Adjacent
<1>11. Changes(p)'
  BY <1>2, <1>3, <1>10 DEF Changes
<1> QED BY <1>5, <1>6, <1>8, <1>9, <1>11 DEF Own

\* The node of an insert is marked by nobody, an unlinked node keeps its mark, and so on:
\* what the update of p knows when it does not link, mark or time a node.
LEMMA UpdateSteps ==
  /\ "readLock" \in BeforePCs /\ "write" \in BeforePCs
  /\ "readUnlock" \in DonePCs /\ "times" \in DonePCs /\ DonePCs \cap BeforePCs = {}
  /\ TimedPCs \cap InsertPCs = {} /\ GonePCs \cap InsertPCs = {} /\ GonePCs \cap MarkedPCs = {}
  /\ BeforePCs \subseteq InsertPCs /\ DonePCs \subseteq InsertPCs /\ InsertPCs \subseteq UpdatePCs
  /\ TimedPCs \subseteq UpdatePCs /\ GonePCs \subseteq UpdatePCs
  /\ DonePCs \subseteq MarkedPCs /\ TimedPCs \subseteq MarkedPCs /\ MarkedPCs \subseteq UpdatePCs
  /\ BeforePCs \cap MarkedPCs = {} /\ UpdatePCs = BeforePCs \cup MarkedPCs \cup GonePCs
  /\ "idle" \notin UpdatePCs /\ LookPCs \cap UpdatePCs = {}
BY DEF UpdatePCs, InsertPCs, BeforePCs, DonePCs, TimedPCs, GonePCs, MarkedPCs, LookPCs

\* linearize_update_at_write, from the lock to the times.
LEMMA ReadLockedOwn ==
  ASSUME RwInv, NEW p \in Procs, Fits(p), ProviderUpdate(p), ReadLocked(p)
  PROVE  Own(p)'
<1>1. /\ rpc[p] = "readLock" /\ rpc'[p] = "write" /\ UNCHANGED listVars
      /\ UNCHANGED <<itime, dtime, announcements, numAnnouncements, bag, ins, del, next, marked>>
  BY NoOwner DEF ReadLocked, ProviderUpdate, At, timeVars, announceVars, linkVars, UpdateTypes
<1>2. UNCHANGED <<key, alloc, op, pred, curr, newnode>>
  BY <1>1 DEF listVars, nodeVars, callVars, localVars
<1>3. Own(p) /\ rpc[p] \in InsertPCs /\ rpc[p] \in UpdatePCs /\ rpc'[p] \in InsertPCs /\ rpc'[p] \in UpdatePCs
  BY <1>1, NoOwner, UpdateSteps
<1>4. op[p].type = "insert" => Inserts(p)'
  BY <1>1, <1>2, <1>3, UpdateSteps DEF Own, Changes, Inserts
<1>5. op[p].type = "erase" => Erases(p)'
  BY <1>1, <1>2, <1>3, UpdateSteps DEF Own, Changes, Erases, Adjacent
<1>6. Shows(p)'
  BY <1>1, <1>3 DEF Own, Shows
<1> QED BY <1>1, <1>3, <1>4, <1>5, <1>6, InsideOwn DEF Own, Calls

\* Releasing the shared lock keeps what holds of its process.
LEMMA ReadUnlockOwn ==
  ASSUME RwInv, NEW p \in Procs, Fits(p), ProviderUpdate(p), ReadUnlock(p)
  PROVE  Own(p)'
<1>1. /\ rpc[p] = "readUnlock" /\ rpc'[p] = "times" /\ UNCHANGED listVars
      /\ UNCHANGED <<itime, dtime, announcements, numAnnouncements, bag, ins, del, next, marked>>
  BY NoOwner DEF ReadUnlock, ProviderUpdate, At, timeVars, announceVars, updateVars, linkVars, UpdateTypes
<1>2. UNCHANGED <<key, alloc, op, pred, curr, newnode>>
  BY <1>1 DEF listVars, nodeVars, callVars, localVars
<1>3. Own(p) /\ rpc[p] \in InsertPCs /\ rpc[p] \in UpdatePCs /\ rpc'[p] \in InsertPCs /\ rpc'[p] \in UpdatePCs
  BY <1>1, NoOwner, UpdateSteps
<1>4. op[p].type = "insert" => Inserts(p)'
  BY <1>1, <1>2, <1>3, UpdateSteps DEF Own, Changes, Inserts
<1>5. op[p].type = "erase" => Erases(p)'
  BY <1>1, <1>2, <1>3, UpdateSteps DEF Own, Changes, Erases, Adjacent
<1>6. Shows(p)'
  BY <1>1, <1>3 DEF Own, Shows
<1> QED BY <1>1, <1>3, <1>4, <1>5, <1>6, InsideOwn DEF Own, Calls

\* So does the write of the link or the mark,
LEMMA LinearizeOwn ==
  ASSUME RwInv, NEW p \in Procs, Fits(p), Linearize(p)
  PROVE  Own(p)'
<1>1. /\ rpc[p] = "write" /\ rpc'[p] = "readUnlock" /\ UNCHANGED listVars
      /\ UNCHANGED <<itime, dtime, announcements, numAnnouncements, bag, ins, del>>
      /\ IF op[p].type = "insert"
         THEN next' = [next EXCEPT ![pred[p]] = newnode[p]] /\ UNCHANGED marked
         ELSE marked' = [marked EXCEPT ![curr[p]] = TRUE] /\ UNCHANGED next
  BY NoOwner DEF Linearize, LinWrite, At, timeVars, announceVars, updateVars, UpdateTypes
<1>2. UNCHANGED <<key, alloc, op, pred, curr, newnode>>
  BY <1>1 DEF listVars, nodeVars, callVars, localVars
<1>3. Own(p) /\ rpc[p] \in InsertPCs /\ rpc[p] \in UpdatePCs /\ rpc'[p] \in InsertPCs /\ rpc'[p] \in UpdatePCs
      /\ rpc[p] \in BeforePCs /\ rpc'[p] \in DonePCs /\ rpc'[p] \notin BeforePCs
  BY <1>1, NoOwner, UpdateSteps
<1>4. /\ UpdateTypes /\ pred[p] \in Nodes /\ curr[p] \in Nodes /\ pred[p] # curr[p] /\ lpc[p] = "update"
      /\ op[p].type \in {"insert", "erase"}
  BY <1>3, NoOwner, InUpdate DEF ListTypes
<1>5. op[p].type = "insert" => Inserts(p)'
  <2> SUFFICES ASSUME op[p].type = "insert" PROVE Inserts(p)'
    OBVIOUS
  <2>1. next'[pred[p]] = newnode[p] /\ marked' = marked /\ Inserts(p)
    BY <1>1, <1>3, <1>4 DEF UpdateTypes, Own, Changes
  <2> QED BY <1>1, <1>2, <1>3, <2>1 DEF Inserts
<1>6. op[p].type = "erase" => Erases(p)'
  <2> SUFFICES ASSUME op[p].type = "erase" PROVE Erases(p)'
    OBVIOUS
  <2>1. marked'[curr[p]] = TRUE /\ marked'[pred[p]] = marked[pred[p]] /\ next' = next /\ Erases(p)
    BY <1>1, <1>3, <1>4 DEF UpdateTypes, Own, Changes
  <2> QED BY <1>1, <1>2, <1>3, <2>1 DEF Erases, Adjacent
<1>7. Shows(p)'
  BY <1>1, <1>3 DEF Own, Shows
<1> QED BY <1>1, <1>3, <1>5, <1>6, <1>7, InsideOwn DEF Own, Calls

\* setting the times of the nodes,
LEMMA SetTimesOwn ==
  ASSUME RwInv, NEW p \in Procs, Fits(p), ProviderUpdate(p), SetTimes(p)
  PROVE  Own(p)'
<1>1. /\ rpc[p] = "times" /\ rpc'[p] = (IF del[p] = NoNode THEN "idle" ELSE "announce") /\ UNCHANGED listVars
      /\ dtime' = [n \in Nodes |-> IF n = del[p] THEN uts[p] ELSE dtime[n]] /\ ins'[p] = NoNode
      /\ UNCHANGED <<announcements, numAnnouncements, bag, del, next, marked>>
  BY NoOwner, Basics DEF SetTimes, ProviderUpdate, At, announceVars, linkVars, UpdateTypes
<1>2. UNCHANGED <<key, alloc, op, pred, curr, newnode>>
  BY <1>1 DEF listVars, nodeVars, callVars, localVars
<1>3. Own(p) /\ rpc[p] \in InsertPCs /\ rpc[p] \in UpdatePCs /\ rpc[p] \in DonePCs
  BY <1>1, NoOwner, UpdateSteps
<1>4. /\ UpdateTypes /\ pred[p] \in Nodes /\ curr[p] \in Nodes /\ op[p].type \in {"insert", "erase"}
      /\ NoNode \notin Nodes
  BY <1>3, NoOwner, InUpdate, Basics DEF ListTypes
<1>5. Shows(p)'
  BY <1>1, <1>3 DEF Own, Shows
<1>6. CASE op[p].type = "insert"
  <2>1. del[p] = NoNode
    BY <1>3, <1>6, InUpdate
  <2>2. rpc'[p] = "idle"
    BY <1>1, <2>1
  <2> QED BY <1>1, <1>3, <1>5, <1>6, <2>1, <2>2, InsideOwn, UpdateSteps
<1>7. CASE op[p].type = "erase"
  <2>1. del[p] = curr[p] /\ Erases(p)
    BY <1>3, <1>7, InUpdate
  <2>2. rpc'[p] = "announce" /\ rpc'[p] \in TimedPCs /\ dtime'[curr[p]] = uts[p]
    BY <1>1, <1>4, <2>1 DEF TimedPCs
  <2>3. rpc'[p] \in UpdatePCs /\ rpc'[p] \in MarkedPCs /\ rpc'[p] \notin InsertPCs /\ rpc'[p] \notin BeforePCs
    BY <2>2, UpdateSteps
  <2>4. uts[p] # NotSet
    BY <1>1 DEF RwInv, RwLock, NotSet
  <2>5. Erases(p)'
    BY <1>1, <1>2, <1>3, <2>1, <2>2, <2>3, <2>4, UpdateSteps DEF Erases, Adjacent
  <2> QED BY <1>1, <1>3, <1>5, <1>7, <2>1, <2>3, <2>5, InsideOwn
<1> QED BY <1>4, <1>6, <1>7

\* The announcement, the unlinking and the retirement of an erased node.
LEMMA AnnounceOwn ==
  ASSUME RwInv, NEW p \in Procs, Fits(p), ProviderUpdate(p),
         Announce(p) \/ CountAnnouncement(p) \/ Retire(p)
  PROVE  Own(p)'
<1>1. /\ UNCHANGED listVars /\ UNCHANGED <<itime, dtime, ins, del, next, marked>>
      /\ \/ /\ rpc[p] = "announce" /\ rpc'[p] = "count" /\ announcements'[p] = del[p]
            /\ UNCHANGED <<numAnnouncements, bag>>
         \/ /\ rpc[p] = "count" /\ rpc'[p] = "unlink" /\ numAnnouncements'[p] = 1
            /\ UNCHANGED <<announcements, bag>>
         \/ /\ rpc[p] = "retire" /\ rpc'[p] = "withdraw" /\ bag'[p] = Append(bag[p], del[p])
            /\ UNCHANGED <<announcements, numAnnouncements>>
  BY NoOwner DEF Announce, CountAnnouncement, Retire, ProviderUpdate, At, timeVars, updateVars, linkVars, UpdateTypes
<1>2. UNCHANGED <<key, alloc, op, pred, curr, newnode>>
  BY <1>1 DEF listVars, nodeVars, callVars, localVars
<1>3. /\ rpc[p] \in TimedPCs \/ rpc[p] \in GonePCs
      /\ rpc'[p] \in TimedPCs <=> rpc[p] \in TimedPCs
      /\ rpc'[p] \in GonePCs <=> rpc[p] \in GonePCs
  BY <1>1 DEF TimedPCs, GonePCs
<1>4. /\ Own(p) /\ op[p].type = "erase" /\ ins[p] = NoNode /\ del[p] = curr[p] /\ Erases(p) /\ UpdateTypes
      /\ curr[p] \in Nodes
  BY <1>3, InErase, NoOwner DEF ListTypes
<1>5. /\ rpc[p] \in UpdatePCs /\ rpc'[p] \in UpdatePCs /\ rpc[p] \notin InsertPCs /\ rpc'[p] \notin InsertPCs
      /\ rpc[p] \notin BeforePCs /\ rpc'[p] \notin BeforePCs
      /\ rpc'[p] \in MarkedPCs <=> rpc[p] \in MarkedPCs
  BY <1>3, UpdateSteps
<1>6. Erases(p)'
  BY <1>1, <1>2, <1>4, <1>5 DEF Erases, Adjacent
<1>7. Shows(p)'
  <2>1. CASE rpc[p] # "retire"
    BY <1>1, <1>4, <2>1 DEF Own, Shows
  <2>2. CASE rpc[p] = "retire"
    <3>1. bag[p] \in Seq(Nodes) /\ del[p] \in Nodes /\ bag'[p] = Append(bag[p], del[p])
      BY <1>1, <1>4, <2>2 DEF UpdateTypes
    <3>2. Len(bag[p]) + 1 \in DOMAIN bag'[p] /\ bag'[p][Len(bag[p]) + 1] = del[p]
      BY <3>1, AppendProperties, LenProperties
    <3> QED BY <1>1, <1>4, <2>2, <3>2 DEF Own, Shows
  <2> QED BY <2>1, <2>2
<1> QED BY <1>1, <1>4, <1>5, <1>6, <1>7, InsideOwn

\* The unlinking, and the withdrawal of the announcement.
LEMMA UnlinkOwn ==
  ASSUME RwInv, NEW p \in Procs, Fits(p), Unlink(p)
  PROVE  Own(p)'
<1>1. /\ rpc[p] = "unlink" /\ rpc'[p] = "retire" /\ UNCHANGED listVars
      /\ UNCHANGED <<itime, dtime, announcements, numAnnouncements, bag, ins, del, marked>>
  BY NoOwner DEF Unlink, Unlinked, At, timeVars, announceVars, updateVars, UpdateTypes
<1>2. UNCHANGED <<key, alloc, op, pred, curr, newnode>>
  BY <1>1 DEF listVars, nodeVars, callVars, localVars
<1>3. rpc[p] \in TimedPCs /\ rpc'[p] \in GonePCs
  BY <1>1 DEF TimedPCs, GonePCs
<1>4. /\ Own(p) /\ op[p].type = "erase" /\ ins[p] = NoNode /\ del[p] = curr[p] /\ Erases(p)
  BY <1>3, InErase, NoOwner DEF ListTypes
<1>5. /\ rpc[p] \in UpdatePCs /\ rpc'[p] \in UpdatePCs /\ rpc[p] \notin InsertPCs /\ rpc'[p] \notin InsertPCs
      /\ rpc[p] \notin BeforePCs /\ rpc'[p] \notin BeforePCs
      /\ rpc'[p] \notin MarkedPCs
  BY <1>3, UpdateSteps
<1>6. Erases(p)'
  BY <1>1, <1>2, <1>4, <1>5 DEF Erases, Adjacent
<1>7. Shows(p)'
  BY <1>1, <1>4 DEF Own, Shows
<1> QED BY <1>1, <1>4, <1>5, <1>6, <1>7, InsideOwn

\* and withdrawing the announcements.
LEMMA WithdrawOwn ==
  ASSUME RwInv, NEW p \in Procs, Fits(p), ProviderUpdate(p), Withdraw(p)
  PROVE  Own(p)'
<1>1. /\ rpc[p] = "withdraw" /\ rpc'[p] = "idle" /\ UNCHANGED listVars
      /\ ins' = ins /\ del'[p] = NoNode /\ numAnnouncements'[p] = 0
  BY NoOwner DEF Withdraw, ProviderUpdate, At, UpdateTypes
<1>2. rpc[p] \in GonePCs /\ "idle" \notin UpdatePCs /\ "idle" \notin InsertPCs /\ GonePCs \subseteq UpdatePCs
  BY <1>1, UpdateSteps DEF GonePCs
<1>3. ins[p] = NoNode
  BY <1>2, InErase
<1>4. Shows(p)'
  BY <1>1 DEF Shows
<1> QED BY <1>1, <1>2, <1>3, <1>4, InsideOwn

-----------------------------------------------------------------------------
(***************************************************************************)
(* The steps of a query.                                                   *)
(***************************************************************************)
LEMMA InsideQueryOwn ==
  ASSUME RwInv, NEW p \in Procs, Fits(p), op[p].type = "range", UNCHANGED <<op, announceVars, updateVars>>,
         lpc'[p] = "query" => rpc'[p] \in TraversePCs,
         lpc'[p] = "collect" => rpc'[p] \in CollectPCs,
         lpc'[p] \in {"query", "collect"},
         rpc'[p] \in LookPCs => IF lpc'[p] = "query" THEN source'[p] = "traverse"
                                ELSE source'[p] \in {"announced", "limbo"},
         curr'[p] \in Known', pred'[p] \in Known', lpc'[p] = "query" => key[curr'[p]] <= op[p].hi,
         curr'[p] \in alloc
  PROVE  Own(p)'
<1>1. Own(p)
  BY NoOwner
<1>2. UNCHANGED <<op, ins, del, announcements, numAnnouncements, bag>>
  BY DEF announceVars, updateVars
<1>3. rpc'[p] \in TraversePCs \cup CollectPCs /\ rpc'[p] \notin UpdatePCs
  BY QueryPlaces
<1>4. rpc[p] \notin UpdatePCs /\ ins[p] = NoNode /\ del[p] = NoNode
  <2>1. CASE rpc[p] \in TraversePCs \cup CollectPCs
    BY <2>1, InQuery
  <2>2. CASE rpc[p] \notin TraversePCs \cup CollectPCs
    BY <1>1, <2>2 DEF Own, Calls, UpdatePCs, InsertPCs, BeforePCs, DonePCs, TimedPCs, GonePCs
  <2> QED BY <2>1, <2>2
<1>5. Calls(p)'
  BY <1>2, <1>3, <1>4 DEF Calls, FoundLPCs, HoldLPCs, ChangeLPCs
<1>6. HoldsLocks(p)'
  BY DEF HoldsLocks, HoldLPCs, ChangeLPCs
<1>7. Stands(p)'
  <2>1. key'[curr'[p]] = key[curr'[p]]
    BY KnownGrows
  <2> QED BY <2>1, <1>2 DEF Stands, FoundLPCs, HoldLPCs, ChangeLPCs
<1>8. Changes(p)'
  BY <1>2 DEF Changes
<1>9. Shows(p)'
  BY <1>1, <1>2, <1>3, <1>4, UpdateSteps DEF Own, Shows, TimedPCs, GonePCs
<1> QED BY <1>5, <1>6, <1>7, <1>8, <1>9 DEF Own

\* The start of a query.
LEMMA ClockOwn ==
  ASSUME RwInv, NEW p \in Procs, Fits(p),
         BeginQuery(p) \/ (ProviderQuery(p) /\ (AdvanceClock(p) \/ WriteUnlock(p)))
  PROVE  Own(p)'
<1>1. /\ Own(p) /\ ListTypes /\ UpdateTypes /\ pred[p] \in Known /\ curr[p] \in Known /\ Known \subseteq alloc
      /\ Known \subseteq Known'
  BY NoOwner, KnownGrows
<1>2. UNCHANGED <<op, announceVars, updateVars, key, pred, curr>>
  BY DEF BeginQuery, StartTraversal, ProviderQuery, AdvanceClock, WriteUnlock, listVars, callVars, localVars, nodeVars
<1>3. op[p].type = "range" /\ lpc'[p] = "query" /\ rpc'[p] \in {"advance", "writeUnlock", "traverse"}
      /\ key[curr[p]] <= op[p].hi
  <2>1. CASE BeginQuery(p)
    <3>1. lpc[p] = "start" /\ lpc'[p] = "query" /\ rpc'[p] = "advance" /\ op[p].type = "range"
      BY <1>1, <2>1 DEF BeginQuery, StartTraversal, Goto, At, ListTypes, UpdateTypes, Own, Calls
    <3>2. op[p] \in Operation /\ curr[p] = HeadNode
      BY <1>1, <3>1, OpenOperation DEF Own, Stands
    <3> QED BY <1>1, <3>1, <3>2, OperationKeys, Basics DEF ListTypes
  <2>2. CASE ProviderQuery(p) /\ (AdvanceClock(p) \/ WriteUnlock(p))
    <3>1. rpc[p] \in WritePCs /\ rpc'[p] \in {"writeUnlock", "traverse"} /\ lpc' = lpc
      BY <1>1, <2>2 DEF ProviderQuery, AdvanceClock, WriteUnlock, At, UpdateTypes, WritePCs, listVars
    <3>2. lpc[p] = "query" /\ op[p].type = "range"
      BY <3>1, InQuery DEF TraversePCs
    <3> QED BY <1>1, <3>1, <3>2 DEF Own, Stands
  <2> QED BY <2>1, <2>2
<1>4. rpc'[p] \in TraversePCs /\ rpc'[p] \notin LookPCs
  BY <1>3 DEF TraversePCs, WritePCs, LookPCs
<1> QED BY <1>1, <1>2, <1>3, <1>4, InsideQueryOwn

\* A step of a query along the list.
LEMMA TraverseOwn ==
  ASSUME RwInv, NEW p \in Procs, Fits(p), Traverse(p) \/ TraverseEnd(p)
  PROVE  Own(p)'
<1>1. /\ Own(p) /\ ListTypes /\ UpdateTypes /\ QueryTypes /\ pred[p] \in Known /\ curr[p] \in Known
      /\ Known \subseteq alloc /\ Known \subseteq Known' /\ alloc \subseteq Nodes /\ HeadNode \in Known
      /\ Structure
  BY NoOwner, KnownGrows, HeadKnown
<1>2. rpc[p] = "traverse" /\ rpc[p] \in TraversePCs
  BY DEF Traverse, TraverseEnd, EndTraversal, TraversePCs
<1>3. lpc[p] = "query" /\ op[p].type = "range" /\ op[p] \in Operation
  BY <1>2, InQuery DEF TraversePCs
<1>4. UNCHANGED <<op, announceVars, updateVars, key>>
  BY DEF Traverse, TraverseEnd, EndTraversal, callVars, nodeVars
<1>5. CASE Traverse(p)
  <2>1. pred' = pred /\ curr'[p] = next[curr[p]] /\ lpc'[p] = "query" /\ key[next[curr[p]]] <= op[p].hi
        /\ \/ rpc'[p] = "traverse"
           \/ rpc'[p] = "itime" /\ source'[p] = "traverse"
    <3>1. /\ curr' = [curr EXCEPT ![p] = next[curr[p]]] /\ key[next[curr[p]]] <= op[p].hi
          /\ UNCHANGED <<pred, lpc>>
      BY <1>5 DEF Traverse
    <3>2. \/ UNCHANGED rpc
          \/ source' = [source EXCEPT ![p] = "traverse"] /\ rpc' = [rpc EXCEPT ![p] = "itime"]
      BY <1>5 DEF Traverse, Consider, At
    <3>3. \/ rpc'[p] = "traverse"
          \/ rpc'[p] = "itime" /\ source'[p] = "traverse"
      BY <1>1, <1>2, <3>2 DEF UpdateTypes, QueryTypes
    <3> QED BY <1>1, <1>3, <3>1, <3>3 DEF ListTypes
  <2>2. next[curr[p]] \in Known
    <3>1. key[curr[p]] <= op[p].hi
      BY <1>1, <1>3 DEF Own, Stands
    <3>2. curr[p] # MaxNode
      BY <1>1, <1>3, <3>1, OperationKeys, Basics DEF ListTypes
    <3> QED BY <1>1, <3>2 DEF Structure
  <2>3. rpc'[p] \in TraversePCs /\ (rpc'[p] \in LookPCs => source'[p] = "traverse")
    BY <2>1 DEF TraversePCs, LookPCs
  <2> QED BY <1>1, <1>3, <1>4, <2>1, <2>2, <2>3, InsideQueryOwn
<1>6. CASE TraverseEnd(p)
  <2>1. pred'[p] = HeadNode /\ curr'[p] = HeadNode /\ lpc'[p] = "collect" /\ rpc'[p] = "announced"
    BY <1>1, <1>6 DEF TraverseEnd, EndTraversal, Restart, Goto, At, ListTypes, UpdateTypes
  <2>2. rpc'[p] \in CollectPCs /\ rpc'[p] \notin LookPCs
    BY <2>1 DEF CollectPCs, LookPCs
  <2> QED BY <1>1, <1>3, <1>4, <2>1, <2>2, InsideQueryOwn
<1> QED BY <1>5, <1>6

\* A query that looks at a node, or visits the announcements and the bags.
LEMMA LookOwn ==
  ASSUME RwInv, NEW p \in Procs, Fits(p),
         LookAtMark(p) \/ (ProviderQuery(p) /\ ~AdvanceClock(p) /\ ~WriteUnlock(p))
  PROVE  Own(p)'
<1>1. /\ Own(p) /\ ListTypes /\ UpdateTypes /\ QueryTypes /\ Query(p) /\ pred[p] \in Known /\ curr[p] \in Known
      /\ Known \subseteq alloc /\ Known \subseteq Known'
  BY NoOwner, KnownGrows
<1>2. UNCHANGED <<op, announceVars, updateVars, key, pred, curr, lpc>>
  BY DEF LookAtMark, ReadMark, ProviderQuery, QueryStep, AwaitITime, ReadDTime, ReadCount, ReadEntry, OpenBags,
         VisitBag, listVars, callVars, localVars, nodeVars
<1>3. CASE LookAtMark(p) \/ AwaitITime(p) \/ ReadDTime(p)
  <2>1. rpc[p] \in LookPCs
    BY <1>3 DEF LookAtMark, ReadMark, AwaitITime, ReadDTime, LookPCs
  <2>2. /\ lpc[p] \in {"query", "collect"} /\ op[p].type = "range"
        /\ lpc[p] = "query" => source[p] = "traverse"
        /\ lpc[p] = "collect" => source[p] \in {"announced", "limbo"}
    BY <2>1, InQuery DEF TraversePCs
  <2>3. \/ rpc'[p] \in LookPCs /\ source'[p] = source[p]
        \/ rpc'[p] = source[p]
    BY <1>1, <1>3 DEF LookAtMark, ReadMark, AwaitITime, ReadDTime, Leave, At, visitVars, UpdateTypes, LookPCs
  <2>4. /\ lpc[p] = "query" => rpc'[p] \in TraversePCs
        /\ lpc[p] = "collect" => rpc'[p] \in CollectPCs
        /\ rpc'[p] \in LookPCs => source'[p] = source[p]
    BY <2>2, <2>3 DEF TraversePCs, CollectPCs, LookPCs
  <2>5. lpc[p] = "query" => key[curr[p]] <= op[p].hi
    BY <1>1 DEF Own, Stands
  <2> QED BY <1>1, <1>2, <2>2, <2>4, <2>5, InsideQueryOwn
<1>4. CASE ReadCount(p) \/ ReadEntry(p) \/ OpenBags(p) \/ VisitBag(p)
  <2>1. rpc[p] \in {"announced", "entry", "bags", "limbo"} /\ rpc[p] \in CollectPCs
    BY <1>4 DEF ReadCount, ReadEntry, OpenBags, VisitBag, CollectPCs
  <2>2. lpc[p] = "collect" /\ op[p].type = "range"
    BY <2>1, InQuery
  <2>3. \/ rpc'[p] \in {"announced", "entry", "bags", "limbo"}
        \/ rpc'[p] = "itime" /\ source'[p] \in {"announced", "limbo"}
    <3>1. CASE ReadCount(p)
      BY <1>1, <2>1, <3>1 DEF ReadCount, At, UpdateTypes
    <3>2. CASE ReadEntry(p)
      BY <1>1, <2>1, <3>2 DEF ReadEntry, Consider, At, UpdateTypes, QueryTypes
    <3>3. CASE OpenBags(p)
      BY <1>1, <2>1, <3>3 DEF OpenBags, At, UpdateTypes
    <3>4. CASE VisitBag(p)
      <4>1. \/ UNCHANGED rpc
            \/ \E n : Consider(p, n, "limbo")
        BY <3>4 DEF VisitBag
      <4> QED BY <1>1, <2>1, <4>1 DEF Consider, At, UpdateTypes, QueryTypes
    <3> QED BY <1>4, <3>1, <3>2, <3>3, <3>4
  <2>4. rpc'[p] \in CollectPCs /\ (rpc'[p] \in LookPCs => source'[p] \in {"announced", "limbo"})
    BY <2>3 DEF CollectPCs, LookPCs
  <2> QED BY <1>1, <1>2, <2>2, <2>4, InsideQueryOwn
<1> QED BY <1>3, <1>4 DEF ProviderQuery, QueryStep

\* The end of a query.
LEMMA FinishOwn ==
  ASSUME RwInv, NEW p \in Procs, Fits(p), Finish(p)
  PROVE  Own(p)'
<1>1. PICK r, seen : Return(p, r, seen)
  BY DEF Finish, ReturnKeys
<1>2. /\ Own(p) /\ ListTypes /\ UpdateTypes /\ Known \subseteq Known' /\ HeadNode \in Known
  BY NoOwner, KnownGrows, HeadKnown
<1>3. op'[p].type = "none" /\ pred'[p] = HeadNode /\ curr'[p] = HeadNode /\ lpc'[p] = "idle" /\ rpc'[p] = "idle"
  BY <1>1, <1>2 DEF Return, Restart, Goto, Finish, EndQuery, At, ListTypes, UpdateTypes
<1>4. UNCHANGED <<announcements, numAnnouncements, bag, ins, del>> /\ rpc[p] = "limbo"
  BY DEF Finish, EndQuery, QueryDone, announceVars, updateVars
<1>5. ins[p] = NoNode /\ del[p] = NoNode
  BY <1>4, InQuery DEF CollectPCs
<1>6. "idle" \notin UpdatePCs /\ "idle" \notin InsertPCs /\ "idle" \notin LookPCs
  BY UpdateSteps DEF LookPCs
<1>7. Calls(p)'
  BY <1>3, <1>4, <1>5, <1>6 DEF Calls, FoundLPCs, HoldLPCs, ChangeLPCs
<1>8. HoldsLocks(p)' /\ Stands(p)' /\ Changes(p)'
  BY <1>2, <1>3, <1>6 DEF HoldsLocks, Stands, Changes, FoundLPCs, HoldLPCs, ChangeLPCs
<1>9. Shows(p)'
  BY <1>2, <1>3, <1>4 DEF Own, Shows
<1> QED BY <1>7, <1>8, <1>9 DEF Own

\* What holds of each process stays true.
LEMMA StepOwn ==
  ASSUME RwInv, NEW p \in Procs, Step(p)
  PROVE  \A q \in Procs : Own(q)'
<1>1. Fits(p)
  BY StepFits DEF Step
<1>2. Own(p)'
  <2>1. CASE ProviderUpdate(p)
    <3>1. UpdateStep(p)
      BY <2>1 DEF ProviderUpdate
    <3> QED BY <1>1, <2>1, <3>1, ReadLockedOwn, ReadUnlockOwn, SetTimesOwn, AnnounceOwn, WithdrawOwn DEF UpdateStep
  <2>2. CASE ProviderQuery(p) \/ LookAtMark(p)
    BY <1>1, <2>2, ClockOwn, LookOwn
  <2>3. CASE ~ProviderUpdate(p) /\ ~ProviderQuery(p) /\ ~LookAtMark(p)
    BY <1>1, <2>3, CallOwn, SearchOwn, EndOwn, LockOwn, ValidateOwn, BeginInsertOwn, BeginEraseOwn, LinearizeOwn,
       UnlinkOwn, UpdatedOwn, ClockOwn, TraverseOwn, FinishOwn DEF Step, ListStep
  <2> QED BY <2>1, <2>2, <2>3
<1> QED BY <1>1, <1>2, OthersKeep

-----------------------------------------------------------------------------
(***************************************************************************)
(* The kinds of steps.                                                     *)
(***************************************************************************)
USE DEF clockVars, timeVars, announceVars, updateVars, visitVars, queryVars, linkVars,
        lockVars, nodeVars, callVars, localVars, listVars, rqVars

\* A step outside an update: neither the list nor the times change.
Quiet(p) ==
  /\ UNCHANGED <<nodeVars, linkVars, timeVars, announceVars, updateVars>>
  /\ \/ UNCHANGED rpc
     \/ rpc[p] \notin UpdatePCs /\ \E l \in RPCs \ UpdatePCs : rpc' = [rpc EXCEPT ![p] = l]

\* The steps of an update that touch neither links nor marks.
UpdateKind(p) == BeginErase(p) \/ ProviderUpdate(p)

\* Every step is of one of five kinds.
LEMMA StepKinds ==
  ASSUME RwInv, NEW p \in Procs, Step(p)
  PROVE  Quiet(p) \/ BeginInsert(p) \/ UpdateKind(p) \/ Linearize(p) \/ Unlink(p)
<1>1. CASE ListCall(p)
  BY <1>1 DEF ListCall, Call, Quiet
<1>2. CASE Search(p)
  <2>1. UNCHANGED <<nodeVars, linkVars, rqVars>>
    BY <1>2 DEF Search
  <2> QED BY <2>1 DEF Quiet
<1>3. CASE EndContains(p) \/ ListValidate(p) \/ Updated(p)
  BY <1>3 DEF EndContains, ListValidate, Validate, Updated, Quiet
<1>4. CASE ListLock(p)
  BY <1>4 DEF ListLock, LockStep, LockPred, LockCurr, UnlockPred, UnlockCurr, Quiet
<1>5. CASE BeginQuery(p) \/ Finish(p) \/ Traverse(p) \/ TraverseEnd(p) \/ LookAtMark(p) \/ ProviderQuery(p)
  <2>1. UNCHANGED <<nodeVars, linkVars, timeVars, announceVars, updateVars>>
    BY <1>5 DEF BeginQuery, StartTraversal, Finish, EndQuery, Traverse, TraverseEnd, EndTraversal,
       LookAtMark, ReadMark, ProviderQuery, QueryStep, AdvanceClock, WriteUnlock, AwaitITime, ReadDTime, ReadCount,
       ReadEntry, OpenBags, VisitBag
  <2>2. rpc[p] \notin UpdatePCs
    BY <1>5, UpdateSteps DEF UpdatePCs, InsertPCs, BeforePCs, DonePCs, TimedPCs, GonePCs, BeginQuery, StartTraversal,
       Finish, EndQuery, QueryDone, Traverse, TraverseEnd, EndTraversal,
       LookAtMark, ReadMark, ProviderQuery, QueryStep, AdvanceClock, WriteUnlock, AwaitITime, ReadDTime, ReadCount,
       ReadEntry, OpenBags, VisitBag
  <2>3. rpc'[p] \notin UpdatePCs
    <3>1. Own(p)' /\ rpc' \in [Procs -> RPCs]
      BY StepOwn, StepFits DEF Step, Fits, Types, UpdateTypes
    <3>2. \/ del'[p] = NoNode /\ ins'[p] = NoNode /\ op[p].type \in {"range", "none"} /\ UNCHANGED op
          \/ rpc'[p] = "idle"
      <4>1. CASE Finish(p)
        BY <4>1, NoOwner DEF Finish, EndQuery, At, UpdateTypes
      <4>2. CASE BeginQuery(p)
        <5>1. lpc[p] = "start" /\ rpc[p] = "idle" /\ UNCHANGED <<op, ins, del>>
          BY <4>2 DEF BeginQuery, StartTraversal
        <5> QED BY <5>1, NoOwner, UpdateSteps DEF Own, Calls
      <4>3. CASE ~Finish(p) /\ ~BeginQuery(p)
        <5>1. rpc[p] \in TraversePCs \cup CollectPCs
          BY <1>5, <4>3 DEF TraversePCs, CollectPCs, WritePCs, LookPCs,
             Traverse, TraverseEnd, EndTraversal,
             LookAtMark, ReadMark, ProviderQuery, QueryStep, AdvanceClock, WriteUnlock, AwaitITime, ReadDTime, ReadCount,
             ReadEntry, OpenBags, VisitBag
        <5>2. UNCHANGED <<op, ins, del>>
          BY <1>5, <4>3 DEF Traverse, TraverseEnd, EndTraversal,
             LookAtMark, ReadMark, ProviderQuery, QueryStep, AdvanceClock, WriteUnlock, AwaitITime, ReadDTime, ReadCount,
             ReadEntry, OpenBags, VisitBag
        <5> QED BY <5>1, <5>2, InQuery
      <4> QED BY <4>1, <4>2, <4>3
    <3> QED BY <3>1, <3>2, UpdateSteps, QueryPlaces DEF Own, Calls, FoundLPCs, HoldLPCs, ChangeLPCs
  <2>4. \A q \in Procs : q # p => rpc'[q] = rpc[q]
    BY StepFits DEF Step, Fits, UpdateFrame
  <2>5. rpc' = [rpc EXCEPT ![p] = rpc'[p]] /\ rpc'[p] \in RPCs
    BY <2>4, StepFits, NoOwner DEF Step, Fits, Types, UpdateTypes
  <2> QED BY <2>1, <2>2, <2>3, <2>5 DEF Quiet
<1> QED BY <1>1, <1>2, <1>3, <1>4, <1>5 DEF Step, ListStep, UpdateKind

\* The list does not change.
Keeps ==
  /\ UNCHANGED <<key, alloc, next, marked>> /\ Known' = Known /\ Listed' = Listed

\* The list is as before when links, marks, and the nodes concerned are.
LEMMA SameKeeps ==
  ASSUME UNCHANGED <<key, alloc, next, marked>>,
         \A n \in alloc : Fresh(n)' <=> Fresh(n),
         \A n \in alloc : BeingErased(n)' <=> BeingErased(n)
  PROVE  Keeps
<1>1. Known' = Known
  BY DEF Known
<1>2. Listed' = Listed
  BY <1>1 DEF Listed, Known
<1> QED BY <1>1, <1>2 DEF Keeps

\* A quiet step changes neither the list nor who was alive when.
LEMMA QuietKeeps ==
  ASSUME RwInv, NEW p \in Procs, Quiet(p)
  PROVE  /\ Keeps
         /\ \A n, t : (Ins(n, t)' <=> Ins(n, t)) /\ (Del(n, t)' <=> Del(n, t)) /\ (Alive(n, t)' <=> Alive(n, t))
<1>1. UNCHANGED <<key, alloc, next, marked, ins, del, uts, itime, dtime>>
  BY DEF Quiet
<1>2. UpdateTypes
  BY NoOwner
<1>3. \A q \in Procs, S \in SUBSET UpdatePCs : rpc'[q] \in S <=> rpc[q] \in S
  BY <1>2 DEF Quiet, UpdateTypes
<1>4. BeforePCs \subseteq UpdatePCs /\ MarkedPCs \subseteq UpdatePCs /\ DonePCs \subseteq UpdatePCs
  BY UpdateSteps
<1>5. \A q \in Procs : /\ rpc'[q] \in BeforePCs <=> rpc[q] \in BeforePCs
                       /\ rpc'[q] \in MarkedPCs <=> rpc[q] \in MarkedPCs
                       /\ rpc'[q] \in DonePCs <=> rpc[q] \in DonePCs
  BY <1>3, <1>4
<1>6. Keeps
  BY <1>1, <1>5, SameKeeps DEF Fresh, BeingErased
<1>7. \A n, t : (Ins(n, t)' <=> Ins(n, t)) /\ (Del(n, t)' <=> Del(n, t))
  BY <1>1, <1>5 DEF Ins, Del
<1> QED BY <1>6, <1>7 DEF Alive

\* Nor do the steps of an update around its write change the list.
LEMMA UpdateKeeps ==
  ASSUME RwInv, NEW p \in Procs, UpdateKind(p)
  PROVE  Keeps
<1>1. UNCHANGED <<key, alloc, next, marked>>
  BY DEF UpdateKind, BeginErase, ProviderUpdate
<1>2. /\ UpdateTypes /\ NoNode \notin alloc /\ Fits(p)
  BY NoOwner, Basics, StepFits DEF UpdateKind, ListStep
<1>3. \A q \in Procs : q # p => rpc'[q] = rpc[q] /\ ins'[q] = ins[q] /\ del'[q] = del[q]
  BY <1>2 DEF Fits, UpdateFrame
<1>4. /\ \A n \in alloc : rpc'[p] \in BeforePCs /\ ins'[p] = n <=> rpc[p] \in BeforePCs /\ ins[p] = n
      /\ \A n \in alloc : rpc'[p] \in MarkedPCs /\ del'[p] = n <=> rpc[p] \in MarkedPCs /\ del[p] = n
  <2>1. CASE BeginErase(p)
    <3>1. rpc[p] = "idle" /\ rpc'[p] = "readLock" /\ ins'[p] = NoNode
      BY <1>2, <2>1 DEF BeginErase, BeginUpdate, At, UpdateTypes
    <3> QED BY <1>2, <3>1, UpdateSteps DEF MarkedPCs, DonePCs, TimedPCs, BeforePCs
  <2>2. CASE ReadLocked(p)
    <3>1. rpc[p] = "readLock" /\ rpc'[p] = "write" /\ UNCHANGED <<ins, del>>
      BY <1>2, <2>2 DEF ReadLocked, At, UpdateTypes
    <3> QED BY <3>1 DEF MarkedPCs, DonePCs, TimedPCs, BeforePCs
  <2>3. CASE ReadUnlock(p)
    <3>1. rpc[p] = "readUnlock" /\ rpc'[p] = "times" /\ UNCHANGED <<ins, del>>
      BY <1>2, <2>3 DEF ReadUnlock, At, UpdateTypes
    <3> QED BY <3>1 DEF MarkedPCs, DonePCs, TimedPCs, BeforePCs
  <2>4. CASE SetTimes(p)
    <3>1. rpc[p] = "times" /\ rpc'[p] = (IF del[p] = NoNode THEN "idle" ELSE "announce") /\ UNCHANGED del
      BY <1>2, <2>4 DEF SetTimes, At, UpdateTypes
    <3> QED BY <1>2, <3>1 DEF MarkedPCs, DonePCs, TimedPCs, BeforePCs
  <2>5. CASE Announce(p) \/ CountAnnouncement(p)
    <3>1. rpc[p] \in TimedPCs /\ rpc'[p] \in TimedPCs /\ UNCHANGED <<ins, del>>
      BY <1>2, <2>5 DEF Announce, CountAnnouncement, At, UpdateTypes, TimedPCs
    <3> QED BY <3>1, UpdateSteps
  <2>6. CASE Retire(p) \/ Withdraw(p)
    <3>1. rpc[p] \in GonePCs /\ rpc'[p] \in GonePCs \cup {"idle"}
      BY <1>2, <2>6 DEF Retire, Withdraw, At, UpdateTypes, GonePCs
    <3> QED BY <3>1, UpdateSteps
  <2> QED BY <2>1, <2>2, <2>3, <2>4, <2>5, <2>6 DEF UpdateKind, ProviderUpdate, UpdateStep
<1>5. \A n \in alloc : (Fresh(n)' <=> Fresh(n)) /\ (BeingErased(n)' <=> BeingErased(n))
  BY <1>3, <1>4 DEF Fresh, BeingErased
<1> QED BY <1>1, <1>5, SameKeeps

-----------------------------------------------------------------------------
(***************************************************************************)
(* The list.                                                               *)
(***************************************************************************)
LEMMA KeepsStructure ==
  ASSUME RwInv, Keeps
  PROVE  Structure'
<1>1. Structure /\ HeadNode \in Known' /\ MaxNode \in Known'
  BY HeadKnown DEF RwInv, Keeps
<1>2. ~Fresh(HeadNode)' /\ ~Fresh(MaxNode)'
  BY <1>1 DEF Known
<1> QED BY <1>1, <1>2 DEF Keeps, Structure, Leads

\* What a new node changes.
Arrives(p, n) ==
  /\ n \in Nodes /\ n \notin alloc /\ ~marked[n] /\ itime[n] = NotSet /\ dtime[n] = NotSet
  /\ alloc' = alloc \cup {n} /\ Known' = Known /\ Listed' = Listed
  /\ next' = [next EXCEPT ![n] = curr[p]]
  /\ key' = [key EXCEPT ![n] = op[p].lo] /\ op[p].lo \in SetKeys /\ op[p].lo < key[curr[p]]
  /\ rpc[p] = "idle" /\ rpc' = [rpc EXCEPT ![p] = "readLock"]
  /\ ins' = [ins EXCEPT ![p] = n] /\ del' = [del EXCEPT ![p] = NoNode] /\ del[p] = NoNode /\ ins[p] = NoNode
  /\ UNCHANGED <<marked, timeVars, announceVars, uts, curr, op, pred>>

\* A new node is fresh, and leads into the list.
LEMMA InsertArrives ==
  ASSUME RwInv, NEW p \in Procs, BeginInsert(p)
  PROVE  \E n \in Nodes : Arrives(p, n)
<1>1. PICK n \in Nodes : /\ Allocate(p, n) /\ BeginUpdate(p, n, NoNode)
                         /\ next' = [next EXCEPT ![n] = curr[p]]
  BY DEF BeginInsert
<1>2. /\ n \notin alloc /\ alloc' = alloc \cup {n} /\ key' = [key EXCEPT ![n] = op[p].lo]
      /\ rpc[p] = "idle" /\ rpc' = [rpc EXCEPT ![p] = "readLock"]
      /\ ins' = [ins EXCEPT ![p] = n] /\ del' = [del EXCEPT ![p] = NoNode]
      /\ UNCHANGED <<marked, timeVars, announceVars, uts, curr, op, pred>>
      /\ lpc[p] = "change" /\ op[p].type = "insert"
  BY <1>1 DEF BeginInsert, Allocate, BeginUpdate, At
<1>3. Own(p) /\ ListTypes /\ UpdateTypes /\ op[p] \in Operation
  BY <1>2, NoOwner, OpenOperation
<1>4. ~marked[n] /\ itime[n] = NotSet /\ dtime[n] = NotSet
  BY <1>2 DEF RwInv, Structure, Times
<1>5. op[p].lo \in SetKeys /\ op[p].lo < key[curr[p]] /\ del[p] = NoNode /\ ins[p] = NoNode
  BY <1>2, <1>3, OperationKeys, UpdateSteps DEF Own, Changes, Calls
<1>6. Known' = Known
  <2>1. Fresh(n)'
    BY <1>2, <1>3 DEF Fresh, BeforePCs, UpdateTypes
  <2>2. \A m \in alloc : Fresh(m)' <=> Fresh(m)
    BY <1>2, <1>3, UpdateSteps DEF Fresh, UpdateTypes
  <2> QED BY <1>2, <2>1, <2>2 DEF Known
<1>7. Listed' = Listed
  <2>1. \A m \in Known : BeingErased(m)' <=> BeingErased(m)
    <3>1. NoNode \notin Known
      BY NoOwner, Basics
    <3> QED BY <1>2, <1>3, <3>1, UpdateSteps DEF BeingErased, UpdateTypes
  <2> QED BY <1>2, <1>6, <2>1 DEF Listed
<1> QED BY <1>1, <1>2, <1>4, <1>5, <1>6, <1>7 DEF Arrives

\* A fresh node leaves the structure alone.
LEMMA ArrivesStructure ==
  ASSUME RwInv, NEW p \in Procs, NEW n, Arrives(p, n)
  PROVE  Structure'
<1>1. /\ Structure /\ ListTypes /\ UpdateTypes /\ HeadNode \in Known /\ MaxNode \in Known /\ curr[p] \in Known
      /\ Known \subseteq alloc /\ alloc \subseteq Nodes
  BY NoOwner, HeadKnown
<1>2. /\ n \in Nodes /\ n \notin alloc /\ alloc' = alloc \cup {n} /\ Known' = Known /\ Listed' = Listed
      /\ key' = [key EXCEPT ![n] = op[p].lo] /\ op[p].lo \in SetKeys /\ op[p].lo < key[curr[p]]
      /\ next' = [next EXCEPT ![n] = curr[p]] /\ marked' = marked
  BY DEF Arrives
<1>3. \A m \in alloc : key'[m] = key[m] /\ next'[m] = next[m]
  BY <1>1, <1>2 DEF ListTypes, UpdateTypes
<1>4. key'[n] = op[p].lo /\ next'[n] = curr[p]
  BY <1>1, <1>2 DEF ListTypes, UpdateTypes
<1>5. ~Fresh(HeadNode)' /\ ~Fresh(MaxNode)'
  BY <1>1, <1>2 DEF Known
<1>6. \A m \in alloc' \ {HeadNode, MaxNode} : key'[m] \in SetKeys
  BY <1>1, <1>2, <1>3, <1>4 DEF Structure
<1>7. \A m \in alloc' \ {MaxNode} : next'[m] \in Known' /\ key'[m] < key'[next'[m]]
  BY <1>1, <1>2, <1>3, <1>4 DEF Structure
<1>8. Listed \subseteq Known
  BY DEF Listed
<1>9. \A a, b \in Listed' : key'[a] = key'[b] => a = b
  BY <1>1, <1>2, <1>3, <1>8 DEF Structure
<1>10. \A m \in Listed' \ {MaxNode} : Leads(m)'
  BY <1>1, <1>2, <1>3, <1>8 DEF Structure, Leads
<1>11. ~marked'[HeadNode] /\ ~marked'[MaxNode] /\ \A m \in Nodes \ alloc' : ~marked'[m]
  BY <1>1, <1>2 DEF Structure
<1> QED BY <1>5, <1>6, <1>7, <1>9, <1>10, <1>11 DEF Structure

-----------------------------------------------------------------------------
\* What a link to a new node changes.
Links(p) ==
  LET n == newnode[p] IN
  /\ op[p].type = "insert" /\ ins[p] = n /\ del[p] = NoNode
  /\ n \in alloc \ Known /\ pred[p] \in Listed \ {MaxNode} /\ curr[p] = next[pred[p]]
  /\ next[n] = curr[p] /\ key[pred[p]] < key[n] /\ key[n] < key[curr[p]]
  /\ ~marked[n] /\ itime[n] = NotSet
  /\ next' = [next EXCEPT ![pred[p]] = n]
  /\ Known' = Known \cup {n} /\ Listed' = Listed \cup {n}
  /\ UNCHANGED marked

\* What the linearization point changes.
LEMMA LinearizeChanges ==
  ASSUME RwInv, NEW p \in Procs, Linearize(p)
  PROVE  /\ rpc[p] = "write" /\ rpc' = [rpc EXCEPT ![p] = "readUnlock"] /\ op[p].type \in {"insert", "erase"}
         /\ UNCHANGED <<clockVars, timeVars, announceVars, updateVars, queryVars, listVars>>
         /\ IF op[p].type = "insert"
            THEN next' = [next EXCEPT ![pred[p]] = newnode[p]] /\ UNCHANGED marked
            ELSE marked' = [marked EXCEPT ![curr[p]] = TRUE] /\ UNCHANGED next
<1>1. rpc[p] = "write"
  BY DEF Linearize, LinWrite
<1> QED BY <1>1, InUpdate, UpdateSteps DEF Linearize, LinWrite, At

\* An insert links its node: the list has one node more.
LEMMA LinearizeLinks ==
  ASSUME RwInv, NEW p \in Procs, Linearize(p), op[p].type = "insert"
  PROVE  Links(p)
<1> DEFINE n == newnode[p]
<1>1. /\ rpc[p] = "write" /\ rpc' = [rpc EXCEPT ![p] = "readUnlock"]
      /\ next' = [next EXCEPT ![pred[p]] = n] /\ UNCHANGED <<marked, alloc, ins, del, key, newnode, pred, curr, op>>
  BY LinearizeChanges
<1>2. rpc[p] \in BeforePCs /\ rpc[p] \in UpdatePCs
  BY <1>1, UpdateSteps
<1>3. /\ UpdateTypes /\ ListTypes /\ Own(p) /\ ins[p] = n /\ del[p] = NoNode /\ Inserts(p) /\ lpc[p] = "update"
  BY <1>2, InUpdate, NoOwner
<1>4. /\ n \in alloc /\ next[pred[p]] = curr[p] /\ next[n] = curr[p] /\ ~marked[pred[p]]
      /\ key[n] = op[p].lo /\ op[p].lo < key[curr[p]] /\ ~marked[n] /\ itime[n] = NotSet
      /\ \A q \in Procs : ins[q] = n => q = p
  BY <1>2, <1>3 DEF Inserts
<1>5. key[pred[p]] < op[p].lo /\ pred[p] \in Listed \ {MaxNode}
  BY <1>3, <1>4, PredListed DEF Own, Stands, FoundLPCs, HoldLPCs, ChangeLPCs
<1>6. n \notin Known
  BY <1>2, <1>3 DEF Known, Fresh
<1>7. \A q \in Procs : q # p => rpc'[q] = rpc[q]
  BY <1>1, <1>3 DEF UpdateTypes
<1>8. rpc'[p] = "readUnlock" /\ "readUnlock" \notin BeforePCs /\ "readUnlock" \in MarkedPCs /\ rpc[p] \notin MarkedPCs
  BY <1>1, <1>2, <1>3, UpdateSteps DEF UpdateTypes
<1>9. Known' = Known \cup {n}
  <2>1. ~Fresh(n)'
    BY <1>1, <1>4, <1>8 DEF Fresh
  <2>2. \A m \in alloc : m # n => (Fresh(m)' <=> Fresh(m))
    BY <1>1, <1>3, <1>7, <1>8 DEF Fresh
  <2> QED BY <1>1, <1>4, <2>1, <2>2 DEF Known
<1>10. \A m \in alloc : BeingErased(m)' <=> BeingErased(m)
  <2>1. NoNode \notin alloc
    BY NoOwner, Basics
  <2> QED BY <1>1, <1>3, <1>7, <2>1 DEF BeingErased
<1>11. Listed' = Listed \cup {n}
  BY <1>1, <1>4, <1>9, <1>10, NoOwner DEF Listed
<1> QED BY <1>1, <1>3, <1>4, <1>5, <1>6, <1>9, <1>11 DEF Links

\* The new node keeps the list sorted.
LEMMA LinksStructure ==
  ASSUME RwInv, NEW p \in Procs, Linearize(p), Links(p)
  PROVE  Structure'
<1> DEFINE n == newnode[p]
<1>1. /\ n \in alloc \ Known /\ pred[p] \in Listed \ {MaxNode} /\ curr[p] = next[pred[p]]
      /\ next[n] = curr[p] /\ key[pred[p]] < key[n] /\ key[n] < key[curr[p]]
      /\ next' = [next EXCEPT ![pred[p]] = n]
      /\ Known' = Known \cup {n} /\ Listed' = Listed \cup {n}
  BY DEF Links
<1> HIDE DEF n
<1>2. UNCHANGED <<key, alloc, marked>>
  BY LinearizeChanges DEF Links
<1>3. /\ Structure /\ ListTypes /\ UpdateTypes /\ HeadNode \in Known /\ MaxNode \in Known
      /\ Known \subseteq alloc /\ alloc \subseteq Nodes
  BY NoOwner, HeadKnown
<1>4. Listed \subseteq Known /\ Listed \subseteq Nodes
  BY <1>3 DEF Listed
<1>5. ~Fresh(HeadNode)' /\ ~Fresh(MaxNode)'
  BY <1>1, <1>3 DEF Known
<1>6. \A m \in alloc : key[m] \in Int
  BY <1>3 DEF ListTypes
<1>7. next'[pred[p]] = n /\ \A m \in Nodes : m # pred[p] => next'[m] = next[m]
  BY <1>1, <1>3, <1>4 DEF UpdateTypes
<1>8. Leads(pred[p]) /\ curr[p] \in Listed
  BY <1>1, <1>3 DEF Structure, Leads
<1>9. \A m \in alloc \ {MaxNode} : next'[m] \in Known' /\ key[m] < key[next'[m]]
  <2> SUFFICES ASSUME NEW m \in alloc \ {MaxNode} PROVE next'[m] \in Known' /\ key[m] < key[next'[m]]
    OBVIOUS
  <2>1. CASE m = pred[p]
    BY <1>1, <1>7, <2>1
  <2>2. CASE m # pred[p]
    <3>1. next'[m] = next[m]
      BY <1>3, <1>7, <2>2
    <3> QED BY <1>1, <1>3, <3>1 DEF Structure
  <2> QED BY <2>1, <2>2
\* No node of the list has a key between those of pred and curr.
<1>10. \A m \in Listed : key[m] <= key[pred[p]] \/ key[m] >= key[curr[p]]
  BY <1>1, <1>3, <1>4, <1>6, <1>8 DEF Leads
<1>11. \A a, b \in Listed' : key[a] = key[b] => a = b
  <2>1. \A m \in Listed : key[m] # key[n]
    BY <1>1, <1>3, <1>4, <1>6, <1>8, <1>10
  <2> QED BY <1>1, <1>3, <2>1 DEF Structure
<1>12. ASSUME NEW m \in Listed' \ {MaxNode} PROVE Leads(m)'
  <2>1. CASE m = pred[p]
    <3>1. next'[m] = n /\ n \in Listed' /\ key[m] < key[n]
      BY <1>1, <1>7, <2>1
    <3>2. \A x \in Listed' : key[x] > key[m] => key[x] >= key[n]
      BY <1>1, <1>3, <1>4, <1>6, <1>8, <1>10, <2>1
    <3> QED BY <1>2, <3>1, <3>2 DEF Leads
  <2>2. CASE m = n
    <3>1. next'[m] = curr[p] /\ curr[p] \in Listed' /\ key[n] < key[curr[p]]
      BY <1>1, <1>3, <1>4, <1>7, <1>8, <2>2
    <3>2. \A x \in Listed' : key[x] > key[n] => key[x] >= key[curr[p]]
      BY <1>1, <1>3, <1>4, <1>6, <1>8, <1>10
    <3> QED BY <1>2, <2>2, <3>1, <3>2 DEF Leads
  <2>3. CASE m # pred[p] /\ m # n
    <3>1. m \in Listed \ {MaxNode} /\ Leads(m) /\ next'[m] = next[m]
      BY <1>1, <1>3, <1>4, <1>7, <2>3 DEF Structure
    <3>2. key[next[m]] <= key[n] \/ key[m] >= key[n]
      <4>1. key[m] <= key[pred[p]] \/ key[m] >= key[curr[p]]
        BY <1>10, <3>1
      <4>2. key[m] # key[pred[p]]
        BY <1>1, <1>3, <2>3, <3>1 DEF Structure
      <4>3. key[m] < key[pred[p]] => key[pred[p]] >= key[next[m]]
        BY <1>1, <3>1 DEF Leads
      <4>4. next[m] \in alloc
        BY <1>3, <1>4, <3>1 DEF Leads
      <4> QED BY <1>1, <1>3, <1>4, <1>6, <1>8, <3>1, <4>1, <4>2, <4>3, <4>4
    <3>3. key[n] > key[m] => key[n] >= key[next[m]]
      <4>4. next[m] \in alloc /\ m \in alloc /\ n \in alloc
        BY <1>1, <1>3, <1>4, <3>1 DEF Leads
      <4> QED BY <1>6, <3>2, <4>4
    <3> QED BY <1>1, <1>2, <3>1, <3>3 DEF Leads
  <2> QED BY <2>1, <2>2, <2>3
<1> QED BY <1>2, <1>3, <1>5, <1>9, <1>11, <1>12 DEF Structure

\* The node of an erase, which no other update erases.
LEMMA ErasedNode ==
  ASSUME RwInv, NEW p \in Procs, rpc[p] \in UpdatePCs, op[p].type = "erase"
  PROVE  /\ del[p] = curr[p] /\ ins[p] = NoNode /\ Erases(p)
         /\ curr[p] \in Known \ {HeadNode, MaxNode} /\ curr[p] \in Nodes \ {NoNode}
         /\ \A q \in Procs : del[q] = curr[p] => q = p
<1>1. lpc[p] = "update" /\ del[p] = curr[p] /\ ins[p] = NoNode /\ Erases(p) /\ op[p] \in Operation
      /\ lock[curr[p]] = p /\ Own(p) /\ ListTypes /\ curr[p] \in Known /\ Known \subseteq Nodes
  BY InUpdate, NoOwner
<1>2. key[curr[p]] = op[p].lo
  BY <1>1 DEF Own, Stands, FoundLPCs, HoldLPCs, ChangeLPCs
<1>3. curr[p] \notin {HeadNode, MaxNode} /\ NoNode \notin Nodes
  BY <1>1, <1>2, OperationKeys, Basics
<1>4. ASSUME NEW q \in Procs, del[q] = curr[p] PROVE q = p
  <2>1. rpc[q] \in UpdatePCs
    BY <1>1, <1>3, <1>4, NoOwner DEF Own, Calls
  <2>2. del[q] = curr[q] /\ lock[curr[q]] = q
    BY <1>1, <1>3, <1>4, <2>1, InUpdate
  <2> QED BY <1>1, <1>4, <2>2
<1> QED BY <1>1, <1>3, <1>4

\* What a mark changes.
Marks(p) ==
  /\ op[p].type = "erase" /\ ins[p] = NoNode /\ del[p] = curr[p]
  /\ curr[p] \in Listed \ {HeadNode, MaxNode} /\ ~marked[curr[p]] /\ dtime[curr[p]] = NotSet
  /\ marked' = [marked EXCEPT ![curr[p]] = TRUE]
  /\ Known' = Known /\ Listed' = Listed
  /\ UNCHANGED next

\* An erase marks its node, which stays in the list.
LEMMA LinearizeMarks ==
  ASSUME RwInv, NEW p \in Procs, Linearize(p), op[p].type = "erase"
  PROVE  Marks(p)
<1>1. /\ rpc[p] = "write" /\ rpc' = [rpc EXCEPT ![p] = "readUnlock"]
      /\ marked' = [marked EXCEPT ![curr[p]] = TRUE]
      /\ UNCHANGED <<next, alloc, ins, del, key, newnode, pred, curr, op>>
  BY LinearizeChanges
<1>2. rpc[p] \in BeforePCs /\ rpc[p] \in UpdatePCs /\ rpc[p] \in InsertPCs /\ rpc[p] \notin MarkedPCs
  BY <1>1, UpdateSteps
<1>3. /\ UpdateTypes /\ Erases(p) /\ del[p] = curr[p] /\ ins[p] = NoNode
      /\ curr[p] \in Known \ {HeadNode, MaxNode} /\ NoNode \notin Nodes
      /\ Known \subseteq alloc /\ alloc \subseteq Nodes
  BY <1>2, ErasedNode, NoOwner, Basics
<1>4. ~marked[curr[p]] /\ dtime[curr[p]] = NotSet
  BY <1>2, <1>3 DEF Erases
<1>5. \A q \in Procs : q # p => rpc'[q] = rpc[q]
  BY <1>1, <1>3 DEF UpdateTypes
<1>6. rpc'[p] = "readUnlock" /\ "readUnlock" \notin BeforePCs /\ "readUnlock" \in MarkedPCs
  BY <1>1, <1>3, UpdateSteps DEF UpdateTypes
<1>7. \A m \in alloc : Fresh(m)' <=> Fresh(m)
  BY <1>1, <1>3, <1>5, <1>6 DEF Fresh
<1>8. Known' = Known
  BY <1>1, <1>7 DEF Known
<1>9. \A m \in alloc : m # curr[p] => (BeingErased(m)' <=> BeingErased(m))
  BY <1>1, <1>3, <1>5 DEF BeingErased
<1>10. BeingErased(curr[p])'
  BY <1>1, <1>3, <1>6 DEF BeingErased
<1>11. \A m \in Nodes : m # curr[p] => marked'[m] = marked[m]
  BY <1>1, <1>3 DEF UpdateTypes
<1>12. \A m \in Known : (marked'[m] => BeingErased(m)') <=> (marked[m] => BeingErased(m))
  <2> SUFFICES ASSUME NEW m \in Known
               PROVE  (marked'[m] => BeingErased(m)') <=> (marked[m] => BeingErased(m))
    OBVIOUS
  <2>1. CASE m = curr[p]
    <3>1. BeingErased(m)'
      BY <1>1, <1>10, <2>1 DEF BeingErased
    <3> QED BY <1>4, <2>1, <3>1
  <2>2. CASE m # curr[p]
    <3>1. BeingErased(m)' <=> BeingErased(m)
      BY <1>3, <1>9, <2>2
    <3>2. marked'[m] = marked[m]
      BY <1>3, <1>11, <2>2
    <3> QED BY <3>1, <3>2
  <2> QED BY <2>1, <2>2
<1>13. Listed' = Listed
  BY <1>8, <1>12 DEF Listed
<1>14. curr[p] \in Listed
  BY <1>3, <1>4 DEF Listed
<1> QED BY <1>1, <1>3, <1>4, <1>8, <1>13, <1>14 DEF Marks

\* The mark leaves the structure alone.
LEMMA MarksStructure ==
  ASSUME RwInv, NEW p \in Procs, Linearize(p), Marks(p)
  PROVE  Structure'
<1>1. /\ Structure /\ UpdateTypes /\ HeadNode \in Known /\ MaxNode \in Known
      /\ Known \subseteq alloc /\ alloc \subseteq Nodes
  BY NoOwner, HeadKnown
<1>2. UNCHANGED <<key, alloc, next>> /\ Known' = Known /\ Listed' = Listed
      /\ marked' = [marked EXCEPT ![curr[p]] = TRUE] /\ curr[p] \in Known /\ curr[p] \notin {HeadNode, MaxNode}
  BY LinearizeChanges DEF Marks, Listed
<1>3. ~Fresh(HeadNode)' /\ ~Fresh(MaxNode)'
  BY <1>1, <1>2 DEF Known
<1>4. ~marked'[HeadNode] /\ ~marked'[MaxNode] /\ \A n \in Nodes \ alloc : ~marked'[n]
  BY <1>1, <1>2 DEF Structure, UpdateTypes
<1> QED BY <1>1, <1>2, <1>3, <1>4 DEF Structure, Leads

-----------------------------------------------------------------------------
\* What an unlinking changes.
Unlinks(p) ==
  /\ op[p].type = "erase" /\ ins[p] = NoNode /\ del[p] = curr[p]
  /\ curr[p] \in Listed \ {HeadNode, MaxNode} /\ marked[curr[p]] /\ dtime[curr[p]] # NotSet
  /\ pred[p] \in Listed \ {MaxNode} /\ next[pred[p]] = curr[p] /\ ~marked[pred[p]]
  /\ next' = [next EXCEPT ![pred[p]] = next[curr[p]]]
  /\ Known' = Known /\ Listed' = Listed \ {curr[p]}
  /\ UNCHANGED marked

\* What the unlinking changes.
LEMMA UnlinkChanges ==
  ASSUME NEW p \in Procs, Unlink(p)
  PROVE  /\ rpc[p] = "unlink" /\ rpc' = [rpc EXCEPT ![p] = "retire"]
         /\ UNCHANGED <<clockVars, timeVars, announceVars, updateVars, queryVars, listVars, marked>>
         /\ next' = [next EXCEPT ![pred[p]] = next[curr[p]]]
BY DEF Unlink, Unlinked, At

\* The list has one node less.
LEMMA UnlinkUnlinks ==
  ASSUME RwInv, NEW p \in Procs, Unlink(p)
  PROVE  Unlinks(p)
<1>1. /\ rpc[p] = "unlink" /\ rpc' = [rpc EXCEPT ![p] = "retire"]
      /\ UNCHANGED <<marked, alloc, ins, del, key, newnode, pred, curr, op>>
      /\ next' = [next EXCEPT ![pred[p]] = next[curr[p]]]
  BY UnlinkChanges
<1>2. rpc[p] \in TimedPCs /\ "retire" \in GonePCs
  BY <1>1 DEF TimedPCs, GonePCs
<1>3. rpc[p] \in UpdatePCs /\ rpc[p] \in MarkedPCs /\ rpc[p] \notin BeforePCs /\ rpc[p] \notin InsertPCs
      /\ "retire" \notin BeforePCs /\ "retire" \notin MarkedPCs
  BY <1>2, UpdateSteps
<1>4. op[p].type = "erase" /\ lpc[p] = "update"
  BY <1>2, <1>3, InErase, InUpdate
<1>5. /\ UpdateTypes /\ Erases(p) /\ del[p] = curr[p] /\ ins[p] = NoNode
      /\ curr[p] \in Known \ {HeadNode, MaxNode} /\ \A q \in Procs : del[q] = curr[p] => q = p
      /\ Known \subseteq alloc
  BY <1>3, <1>4, ErasedNode, NoOwner
<1>6. marked[curr[p]] /\ dtime[curr[p]] # NotSet /\ next[pred[p]] = curr[p] /\ ~marked[pred[p]]
  BY <1>3, <1>5 DEF Erases, Adjacent
<1>7. pred[p] \in Listed \ {MaxNode}
  BY <1>4, <1>6, PredListed DEF FoundLPCs, HoldLPCs, ChangeLPCs
<1>8. curr[p] \in Listed
  BY <1>3, <1>5 DEF Listed, BeingErased
<1>9. rpc'[p] = "retire" /\ \A q \in Procs : q # p => rpc'[q] = rpc[q]
  BY <1>1, <1>5 DEF UpdateTypes
<1>10. Known' = Known
  BY <1>1, <1>3, <1>9 DEF Known, Fresh
<1>11. \A m \in alloc : BeingErased(m)' <=> BeingErased(m) /\ m # curr[p]
  BY <1>1, <1>3, <1>5, <1>9 DEF BeingErased
<1>12. Listed' = Listed \ {curr[p]}
  BY <1>1, <1>5, <1>6, <1>10, <1>11 DEF Listed
<1> QED BY <1>1, <1>4, <1>5, <1>6, <1>7, <1>8, <1>10, <1>12 DEF Unlinks

\* The list without the node is sorted.
LEMMA UnlinksStructure ==
  ASSUME RwInv, NEW p \in Procs, Unlink(p), Unlinks(p)
  PROVE  Structure'
<1>1. /\ curr[p] \in Listed \ {HeadNode, MaxNode} /\ pred[p] \in Listed \ {MaxNode} /\ next[pred[p]] = curr[p]
      /\ next' = [next EXCEPT ![pred[p]] = next[curr[p]]]
      /\ Known' = Known /\ Listed' = Listed \ {curr[p]} /\ UNCHANGED <<key, alloc, marked>>
  BY UnlinkChanges DEF Unlinks
<1>2. /\ Structure /\ ListTypes /\ UpdateTypes /\ HeadNode \in Known /\ MaxNode \in Known
      /\ Known \subseteq alloc /\ alloc \subseteq Nodes
  BY NoOwner, HeadKnown
<1>3. Listed \subseteq Known /\ Listed \subseteq Nodes
  BY <1>2 DEF Listed
<1>4. ~Fresh(HeadNode)' /\ ~Fresh(MaxNode)'
  BY <1>1, <1>2 DEF Known
<1>5. \A m \in alloc : key[m] \in Int
  BY <1>2 DEF ListTypes
<1>6. next'[pred[p]] = next[curr[p]] /\ \A m \in Nodes : m # pred[p] => next'[m] = next[m]
  BY <1>1, <1>2, <1>3 DEF UpdateTypes
<1>7. Leads(pred[p]) /\ Leads(curr[p]) /\ next[curr[p]] \in Known
  BY <1>1, <1>2, <1>3 DEF Structure
<1>8. /\ key[pred[p]] < key[curr[p]] /\ key[curr[p]] < key[next[curr[p]]] /\ next[curr[p]] \in Listed
      /\ \A m \in Listed : key[m] > key[pred[p]] => key[m] >= key[curr[p]]
      /\ \A m \in Listed : key[m] > key[curr[p]] => key[m] >= key[next[curr[p]]]
  BY <1>1, <1>7 DEF Leads
<1>9. \A m \in alloc \ {MaxNode} : next'[m] \in Known' /\ key[m] < key[next'[m]]
  <2> SUFFICES ASSUME NEW m \in alloc \ {MaxNode} PROVE next'[m] \in Known' /\ key[m] < key[next'[m]]
    OBVIOUS
  <2>1. CASE m = pred[p]
    BY <1>1, <1>2, <1>3, <1>5, <1>6, <1>7, <1>8, <2>1
  <2>2. CASE m # pred[p]
    <3>1. next'[m] = next[m]
      BY <1>2, <1>6, <2>2
    <3> QED BY <1>1, <1>2, <3>1 DEF Structure
  <2> QED BY <2>1, <2>2
<1>10. ASSUME NEW m \in Listed' \ {MaxNode} PROVE Leads(m)'
  <2>1. CASE m = pred[p]
    <3>1. next[curr[p]] \in Listed' /\ key[m] < key[next[curr[p]]]
      BY <1>1, <1>2, <1>3, <1>5, <1>8, <2>1
    <3>2. \A x \in Listed' : key[x] > key[m] => key[x] >= key[next[curr[p]]]
      <4> SUFFICES ASSUME NEW x \in Listed', key[x] > key[m] PROVE key[x] >= key[next[curr[p]]]
        OBVIOUS
      <4>1. x \in Listed /\ x # curr[p] /\ key[x] >= key[curr[p]] /\ key[x] # key[curr[p]]
        BY <1>1, <1>2, <1>8, <2>1 DEF Structure
      <4>2. key[x] > key[curr[p]]
        BY <1>1, <1>2, <1>3, <1>5, <4>1
      <4> QED BY <1>8, <4>1, <4>2
    <3> QED BY <1>1, <1>6, <2>1, <3>1, <3>2 DEF Leads
  <2>2. CASE m # pred[p]
    <3>1. m \in Listed \ {MaxNode} /\ Leads(m) /\ next'[m] = next[m]
      BY <1>1, <1>2, <1>3, <1>6, <2>2 DEF Structure
    <3>2. next[m] # curr[p]
      BY <1>1, <2>2, <3>1, OnePredecessor
    <3> QED BY <1>1, <3>1, <3>2 DEF Leads
  <2> QED BY <2>1, <2>2
<1>11. \A a, b \in Listed' : key[a] = key[b] => a = b
  BY <1>1, <1>2 DEF Structure
<1>12. ~marked'[HeadNode] /\ ~marked'[MaxNode] /\ \A m \in Nodes \ alloc' : ~marked'[m]
  BY <1>1, <1>2 DEF Structure
<1>13. \A m \in alloc' \ {HeadNode, MaxNode} : key'[m] \in SetKeys
  BY <1>1, <1>2 DEF Structure
<1> QED BY <1>1, <1>4, <1>9, <1>10, <1>11, <1>12, <1>13 DEF Structure

\* The list stays sorted.
LEMMA StepStructure ==
  ASSUME RwInv, NEW p \in Procs, Step(p)
  PROVE  Structure'
<1>1. CASE Quiet(p) \/ UpdateKind(p)
  BY <1>1, QuietKeeps, UpdateKeeps, KeepsStructure
<1>2. CASE BeginInsert(p)
  BY <1>2, InsertArrives, ArrivesStructure
<1>3. CASE Linearize(p)
  BY <1>3, LinearizeChanges, LinearizeLinks, LinksStructure, LinearizeMarks, MarksStructure
<1>4. CASE Unlink(p)
  BY <1>4, UnlinkUnlinks, UnlinksStructure
<1> QED BY <1>1, <1>2, <1>3, <1>4, StepKinds

-----------------------------------------------------------------------------
(***************************************************************************)
(* The readers-writer lock.                                                *)
(***************************************************************************)
Readers == {q \in Procs : rpc[q] \in BeforePCs \cup {"readUnlock"}}

\* There are finitely many readers.
LEMMA ReadersFinite ==
  /\ IsFiniteSet(Readers) /\ Cardinality(Readers) \in Nat
  /\ Cardinality(Readers) = 0 => Readers = {}
<1>1. IsFiniteSet(Procs)
  <2>1. NumProcs \in Int /\ 1 \in Int
    BY Basics
  <2> QED BY <2>1, FS_Interval DEF Procs
<1>2. IsFiniteSet(Readers)
  BY <1>1, FS_Subset DEF Readers
<1> QED BY <1>2, FS_CardinalityType, FS_EmptySet

\* One reader more, or one less.
LEMMA ReadersChange ==
  ASSUME NEW p \in Procs
  PROVE  /\ p \notin Readers /\ Readers' = Readers \cup {p} => Cardinality(Readers') = Cardinality(Readers) + 1
         /\ p \in Readers /\ Readers' = Readers \ {p} => Cardinality(Readers') = Cardinality(Readers) - 1
BY ReadersFinite, FS_AddElement, FS_RemoveElement

\* A process enters the lock for writing or leaves it, or moves the clock on.
ClockStep(p) == BeginQuery(p) \/ (ProviderQuery(p) /\ (AdvanceClock(p) \/ WriteUnlock(p)))

\* Quiet steps leave the lock alone, except for those that begin and end a query.
LEMMA QuietClock ==
  ASSUME RwInv, NEW p \in Procs, Step(p), Quiet(p), ~ClockStep(p)
  PROVE  UNCHANGED clockVars /\ rpc[p] \notin WritePCs /\ rpc'[p] \notin WritePCs
<1>1. UpdateTypes /\ Own(p) /\ Query(p)
  BY NoOwner
<1>2. CASE ListCall(p) \/ Search(p) \/ EndContains(p) \/ ListLock(p) \/ ListValidate(p) \/ Updated(p)
  <2>1. UNCHANGED <<clockVars, rpc>>
    BY <1>2 DEF ListCall, Search, EndContains, ListLock, ListValidate, Updated
  <2>2. lpc[p] # "query" /\ lpc[p] # "collect"
    BY <1>2 DEF ListCall, Call, Search, EndContains, ListLock, LockStep, LockPred, LockCurr, UnlockPred,
       UnlockCurr, ListValidate, Validate, Updated
  <2>3. rpc[p] \notin WritePCs
    BY <2>2, InQuery DEF TraversePCs
  <2> QED BY <2>1, <2>3
<1>3. CASE BeginInsert(p) \/ BeginErase(p) \/ ProviderUpdate(p) \/ Linearize(p) \/ Unlink(p)
  <2>1. rpc[p] \in UpdatePCs \cup {"idle"} /\ rpc'[p] \in UpdatePCs \cup {"idle"} /\ rpc'[p] # rpc[p]
    BY <1>1, <1>3 DEF BeginInsert, BeginErase, BeginUpdate, ProviderUpdate, UpdateStep, ReadLocked, ReadUnlock,
       SetTimes, Announce, CountAnnouncement, Retire, Withdraw, Linearize, LinWrite, Unlink, Unlinked, At,
       UpdatePCs, InsertPCs, BeforePCs, DonePCs, TimedPCs, GonePCs, UpdateTypes
  <2>2. rpc[p] \in UpdatePCs \/ rpc'[p] \in UpdatePCs
    BY <2>1
  <2> QED BY <1>1, <2>1, <2>2 DEF Quiet, UpdateTypes
<1>4. CASE Finish(p)
  BY <1>1, <1>4 DEF Finish, EndQuery, QueryDone, At, UpdateTypes, WritePCs
<1>5. CASE Traverse(p)
  <2>1. rpc[p] = "traverse" /\ (UNCHANGED rpc \/ rpc' = [rpc EXCEPT ![p] = "itime"]) /\ UNCHANGED clockVars
    BY <1>5 DEF Traverse, Consider, At
  <2> QED BY <1>1, <2>1 DEF UpdateTypes, WritePCs
<1>6. CASE TraverseEnd(p)
  BY <1>1, <1>6 DEF TraverseEnd, EndTraversal, At, UpdateTypes, WritePCs
<1>7. CASE LookAtMark(p) \/ (ProviderQuery(p) /\ (AwaitITime(p) \/ ReadDTime(p)))
  <2>1. rpc[p] \in LookPCs /\ UNCHANGED clockVars /\ rpc'[p] \in LookPCs \cup {source[p]}
    BY <1>1, <1>7 DEF LookAtMark, ReadMark, AwaitITime, ReadDTime, Leave, At, UpdateTypes, LookPCs
  <2>2. source[p] \in Sources
    BY <2>1, InQuery DEF TraversePCs
  <2> QED BY <2>1, <2>2 DEF WritePCs, LookPCs, Sources
<1>8. CASE ProviderQuery(p) /\ (ReadCount(p) \/ ReadEntry(p) \/ OpenBags(p) \/ VisitBag(p))
  <2>1. rpc[p] \in {"announced", "entry", "bags", "limbo"} /\ UNCHANGED clockVars
    BY <1>8 DEF ReadCount, ReadEntry, OpenBags, VisitBag
  <2>2. UNCHANGED rpc \/ \E l \in {"itime", "announced", "entry", "bags", "limbo"} : rpc' = [rpc EXCEPT ![p] = l]
    BY <1>8 DEF ReadCount, ReadEntry, OpenBags, VisitBag, Consider, At
  <2> QED BY <1>1, <2>1, <2>2 DEF UpdateTypes, WritePCs
<1>9. CASE ProviderQuery(p)
  BY <1>7, <1>8, <1>9 DEF ProviderQuery, QueryStep, ClockStep
<1> QED BY <1>2, <1>3, <1>4, <1>5, <1>6, <1>7, <1>9 DEF Step, ListStep, ClockStep

\* Nobody enters the lock for writing, or leaves it.
LEMMA SameWriters ==
  ASSUME RwInv, NEW p \in Procs, UNCHANGED <<timestamp, readers, writer>>,
         \A q \in Procs : q # p => rpc'[q] = rpc[q] /\ uts'[q] = uts[q],
         rpc[p] \notin WritePCs, rpc'[p] \notin WritePCs,
         rpc'[p] \in {"write", "readUnlock"} =>
           uts'[p] = timestamp /\ (writer => rpc[p] \in {"write", "readUnlock"}),
         rpc'[p] = "times" => uts'[p] # 0 /\ uts'[p] <= timestamp,
         Cardinality(Readers)' = Cardinality(Readers)
  PROVE  RwLock'
<1>1. RwLock
  BY DEF RwInv
<1>2. readers' = Cardinality(Readers)'
  BY <1>1 DEF RwLock, Readers
<1>3. writer' <=> \E q \in Procs : rpc'[q] \in WritePCs
  BY <1>1 DEF RwLock
<1>4. ASSUME NEW a \in Procs, NEW b \in Procs, rpc'[a] \in WritePCs
      PROVE  rpc'[b] \notin {"write", "readUnlock"} /\ (rpc'[b] \in WritePCs => b = a)
  <2>1. a # p /\ rpc[a] \in WritePCs /\ writer
    BY <1>1, <1>4 DEF RwLock
  <2>2. CASE b = p
    BY <1>1, <2>1, <2>2 DEF RwLock
  <2>3. CASE b # p
    BY <1>1, <2>1, <2>3 DEF RwLock
  <2> QED BY <2>2, <2>3
<1>5. \A q \in Procs : rpc'[q] \in {"write", "readUnlock"} => uts'[q] = timestamp'
  BY <1>1 DEF RwLock
<1>6. \A q \in Procs : rpc'[q] = "times" => uts'[q] # 0 /\ uts'[q] <= timestamp'
  BY <1>1 DEF RwLock
<1> QED BY <1>2, <1>3, <1>4, <1>5, <1>6 DEF RwLock, Readers

\* The number of readers changes with the set of them.
LEMMA ReadersStep ==
  ASSUME RwInv, NEW p \in Procs, \A q \in Procs : q # p => rpc'[q] = rpc[q]
  PROVE  LET R(l) == l \in BeforePCs \cup {"readUnlock"} IN
         /\ (R(rpc[p]) <=> R(rpc'[p])) => Cardinality(Readers)' = readers
         /\ ~R(rpc[p]) /\ R(rpc'[p]) => Cardinality(Readers)' = readers + 1
         /\ R(rpc[p]) /\ ~R(rpc'[p]) => Cardinality(Readers)' = readers - 1
<1> DEFINE R(l) == l \in BeforePCs \cup {"readUnlock"}
<1>1. readers = Cardinality(Readers)
  BY DEF RwInv, RwLock, Readers
<1>2. (R(rpc[p]) <=> R(rpc'[p])) => Readers' = Readers
  BY DEF Readers
<1>3. ~R(rpc[p]) /\ R(rpc'[p]) => p \notin Readers /\ Readers' = Readers \cup {p}
  BY DEF Readers
<1>4. R(rpc[p]) /\ ~R(rpc'[p]) => p \in Readers /\ Readers' = Readers \ {p}
  BY DEF Readers
<1> QED BY <1>1, <1>2, <1>3, <1>4, ReadersChange

\* The lock: readers and the writer exclude one another, and a reader knows the time.
LEMMA StepRwLock ==
  ASSUME RwInv, NEW p \in Procs, Step(p)
  PROVE  RwLock'
<1>1. RwLock /\ UpdateTypes /\ Fits(p)
  BY NoOwner, StepFits DEF RwInv, Step
<1>2. \A q \in Procs : q # p => rpc'[q] = rpc[q] /\ uts'[q] = uts[q]
  BY <1>1 DEF Fits, UpdateFrame
<1> DEFINE R(l) == l \in BeforePCs \cup {"readUnlock"}
<1>3. /\ R("readLock") /\ R("write") /\ R("readUnlock") /\ ~R("idle") /\ ~R("times")
      /\ \A l \in WritePCs \cup TimedPCs \cup GonePCs \cup {"times", "idle", "traverse"} : ~R(l)
      /\ \A l \in RPCs \ UpdatePCs : ~R(l)
  BY UpdateSteps DEF BeforePCs, WritePCs, TimedPCs, GonePCs, DonePCs
<1>4. /\ (R(rpc[p]) <=> R(rpc'[p])) => Cardinality(Readers)' = readers
      /\ ~R(rpc[p]) /\ R(rpc'[p]) => Cardinality(Readers)' = readers + 1
      /\ R(rpc[p]) /\ ~R(rpc'[p]) => Cardinality(Readers)' = readers - 1
  BY <1>2, ReadersStep
<1>5. readers = Cardinality(Readers)
  BY <1>1 DEF RwLock, Readers
<1> HIDE DEF R
<1>6. CASE Quiet(p) /\ ~ClockStep(p)
  <2>1. UNCHANGED clockVars /\ rpc[p] \notin WritePCs /\ rpc'[p] \notin WritePCs /\ uts' = uts
    BY <1>6, QuietClock DEF Quiet
  <2>2. \/ rpc'[p] = rpc[p]
        \/ rpc[p] \in RPCs \ UpdatePCs /\ rpc'[p] \in RPCs \ UpdatePCs
    BY <1>1, <1>6 DEF Quiet, UpdateTypes
  <2>3. Cardinality(Readers)' = Cardinality(Readers)
    BY <1>3, <1>4, <1>5, <2>2
  <2>4. \A l \in {"write", "readUnlock", "times"} : rpc'[p] = l => rpc[p] = l
    BY <2>2, UpdateSteps
  <2> QED BY <1>1, <1>2, <2>1, <2>3, <2>4, SameWriters DEF RwLock
<1>7. CASE BeginQuery(p)
  <2>1. /\ rpc[p] = "idle" /\ readers = 0 /\ ~writer /\ writer' = TRUE /\ rpc'[p] = "advance"
        /\ UNCHANGED <<timestamp, readers, uts>>
    BY <1>1, <1>7 DEF BeginQuery, StartTraversal, At, UpdateTypes
  <2>2. Readers = {} /\ "advance" \in WritePCs
    BY <1>5, <2>1, ReadersFinite DEF WritePCs
  <2>3. Cardinality(Readers)' = readers
    BY <1>3, <1>4, <2>1, <2>2
  <2>4. \A q \in Procs : rpc[q] \notin {"write", "readUnlock"}
    BY <2>2 DEF Readers, BeforePCs
  <2> QED BY <1>1, <1>2, <2>1, <2>2, <2>3, <2>4 DEF RwLock, Readers
<1>8. CASE ProviderQuery(p) /\ AdvanceClock(p)
  <2>1. /\ rpc[p] = "advance" /\ rpc'[p] = "writeUnlock" /\ timestamp' = timestamp + 1
        /\ UNCHANGED <<readers, writer, uts>>
    BY <1>1, <1>8 DEF AdvanceClock, At, UpdateTypes
  <2>2. rpc[p] \in WritePCs /\ rpc'[p] \in WritePCs
    BY <2>1 DEF WritePCs
  <2>3. Cardinality(Readers)' = readers
    BY <1>3, <1>4, <2>2
  <2>4. \A q \in Procs : rpc'[q] \notin {"write", "readUnlock"}
    BY <1>1, <1>2, <2>1, <2>2 DEF RwLock
  <2>5. \A q \in Procs : rpc'[q] \in WritePCs <=> rpc[q] \in WritePCs
    BY <1>2, <2>2
  <2>6. \A q \in Procs : rpc'[q] = "times" => uts'[q] # 0 /\ uts'[q] <= timestamp'
    <3> SUFFICES ASSUME NEW q \in Procs, rpc'[q] = "times" PROVE uts'[q] # 0 /\ uts'[q] <= timestamp'
      OBVIOUS
    <3>1. rpc[q] = "times" /\ uts'[q] = uts[q] /\ uts[q] \in Nat /\ timestamp \in Nat
      BY <1>1, <1>2, <2>1 DEF UpdateTypes
    <3> QED BY <1>1, <2>1, <3>1 DEF RwLock
  <2> QED BY <1>1, <2>1, <2>3, <2>4, <2>5, <2>6 DEF RwLock, Readers
<1>9. CASE ProviderQuery(p) /\ WriteUnlock(p)
  <2>1. /\ rpc[p] = "writeUnlock" /\ rpc'[p] = "traverse" /\ ~writer'
        /\ UNCHANGED <<readers, timestamp, uts>>
    BY <1>1, <1>9 DEF WriteUnlock, At, UpdateTypes
  <2>2. rpc[p] \in WritePCs /\ rpc'[p] \notin WritePCs
    BY <2>1 DEF WritePCs
  <2>3. Cardinality(Readers)' = readers
    BY <1>3, <1>4, <2>1, <2>2
  <2>4. \A q \in Procs : rpc'[q] \notin WritePCs
    BY <1>1, <1>2, <2>2 DEF RwLock
  <2> QED BY <1>1, <1>2, <2>1, <2>3, <2>4 DEF RwLock, Readers
<1>10. CASE BeginInsert(p) \/ BeginErase(p)
  <2>1. /\ rpc[p] = "idle" /\ rpc'[p] = "readLock" /\ readers' = readers + 1
        /\ UNCHANGED <<timestamp, writer, uts>>
    BY <1>1, <1>10 DEF BeginInsert, BeginErase, BeginUpdate, At, UpdateTypes
  <2>2. Cardinality(Readers)' = readers'
    BY <1>3, <1>4, <2>1
  <2>3. \A l \in WritePCs \cup {"write", "readUnlock", "times"} : l # "idle" /\ l # "readLock"
    BY DEF WritePCs
  <2> QED BY <1>1, <1>2, <2>1, <2>2, <2>3 DEF RwLock, Readers
<1>11. CASE ReadUnlock(p) /\ ProviderUpdate(p)
  <2>1. /\ rpc[p] = "readUnlock" /\ rpc'[p] = "times" /\ readers' = readers - 1
        /\ UNCHANGED <<timestamp, writer, uts>>
    BY <1>1, <1>11 DEF ReadUnlock, At, UpdateTypes
  <2>2. Cardinality(Readers)' = readers'
    BY <1>3, <1>4, <2>1
  <2>3. \A l \in WritePCs \cup {"write"} : l # "times" /\ l # "readUnlock"
    BY DEF WritePCs
  <2>4. uts[p] # 0 /\ uts[p] <= timestamp
    BY <1>1, <2>1 DEF RwLock, UpdateTypes
  <2> QED BY <1>1, <1>2, <2>1, <2>2, <2>3, <2>4 DEF RwLock, Readers
<1>12. CASE (ProviderUpdate(p) /\ ~ReadUnlock(p)) \/ Linearize(p) \/ Unlink(p)
  <2>1. UNCHANGED <<timestamp, readers, writer>>
    BY <1>12 DEF ProviderUpdate, UpdateStep, ReadLocked, SetTimes, Announce, CountAnnouncement, Retire, Withdraw,
                 Linearize, LinWrite, Unlink, Unlinked
  <2>2. \/ rpc[p] = "readLock" /\ rpc'[p] = "write" /\ uts'[p] = timestamp /\ ~writer
        \/ rpc[p] = "write" /\ rpc'[p] = "readUnlock" /\ uts'[p] = uts[p]
        \/ /\ rpc[p] \in {"times"} \cup TimedPCs \cup GonePCs
           /\ rpc'[p] \in {"idle"} \cup TimedPCs \cup GonePCs
    BY <1>1, <1>12 DEF ProviderUpdate, UpdateStep, ReadLocked, SetTimes, Announce, CountAnnouncement, Retire, Withdraw,
                 Linearize, LinWrite, Unlink, Unlinked, At, UpdateTypes, TimedPCs, GonePCs
  <2>3. Cardinality(Readers)' = Cardinality(Readers)
    BY <1>3, <1>4, <1>5, <2>2
  <2>4. rpc[p] \notin WritePCs /\ rpc'[p] \notin WritePCs
    BY <2>2 DEF WritePCs, TimedPCs, GonePCs
  <2>5. /\ rpc'[p] \in {"write", "readUnlock"} => uts'[p] = timestamp /\ (writer => rpc[p] \in {"write", "readUnlock"})
        /\ rpc'[p] # "times"
    BY <1>1, <2>2 DEF RwLock, TimedPCs, GonePCs
  <2> QED BY <1>1, <1>2, <2>1, <2>3, <2>4, <2>5, SameWriters
<1> QED BY <1>6, <1>7, <1>8, <1>9, <1>10, <1>11, <1>12, StepKinds DEF ClockStep, UpdateKind

-----------------------------------------------------------------------------
(***************************************************************************)
(* The times.                                                              *)
(***************************************************************************)
\* What the update of p is about when it sets the times.
TimesSet(p) ==
  /\ rpc[p] = "times" /\ uts[p] \in Nat /\ uts[p] # 0 /\ uts[p] <= timestamp
  /\ itime' = [n \in Nodes |-> IF n = ins[p] THEN uts[p] ELSE itime[n]]
  /\ dtime' = [n \in Nodes |-> IF n = del[p] THEN uts[p] ELSE dtime[n]]
  /\ ins' = [ins EXCEPT ![p] = NoNode] /\ uts' = [uts EXCEPT ![p] = 0]
  /\ rpc' = [rpc EXCEPT ![p] = IF del[p] = NoNode THEN "idle" ELSE "announce"]
  /\ UNCHANGED <<clockVars, announceVars, del, queryVars, linkVars, listVars>>
  /\ ins[p] # NoNode => /\ ins[p] \in alloc \ {HeadNode, MaxNode} /\ itime[ins[p]] = NotSet
                        /\ \A q \in Procs : ins[q] = ins[p] => q = p
  /\ del[p] # NoNode => /\ del[p] \in Known \ {HeadNode, MaxNode} /\ dtime[del[p]] = NotSet
                        /\ marked[del[p]] /\ del[p] = curr[p]
                        /\ \A q \in Procs : del[q] = del[p] => q = p

\* What setting the times changes.
LEMMA TimesAreSet ==
  ASSUME RwInv, NEW p \in Procs, ProviderUpdate(p), SetTimes(p)
  PROVE  TimesSet(p)
<1>1. /\ rpc[p] = "times" /\ rpc[p] \in DonePCs /\ rpc[p] \in InsertPCs /\ rpc[p] \in UpdatePCs
      /\ rpc[p] \notin BeforePCs
  BY UpdateSteps DEF SetTimes
<1>2. UpdateTypes /\ RwLock /\ RqNodes = Nodes
  BY NoOwner, Basics DEF RwInv
<1>3. uts[p] \in Nat /\ uts[p] # 0 /\ uts[p] <= timestamp
  BY <1>1, <1>2 DEF RwLock, UpdateTypes
<1>4. ins[p] # NoNode => /\ ins[p] \in alloc \ {HeadNode, MaxNode} /\ itime[ins[p]] = NotSet
                         /\ \A q \in Procs : ins[q] = ins[p] => q = p
  BY <1>1, InUpdate DEF Inserts
<1>5. del[p] # NoNode => op[p].type = "erase"
  BY <1>1, InUpdate
<1>6. del[p] # NoNode => /\ del[p] \in Known \ {HeadNode, MaxNode} /\ dtime[del[p]] = NotSet
                         /\ marked[del[p]] /\ del[p] = curr[p]
                         /\ \A q \in Procs : del[q] = del[p] => q = p
  BY <1>1, <1>5, ErasedNode DEF Erases
<1> QED BY <1>1, <1>2, <1>3, <1>4, <1>6 DEF TimesSet, SetTimes, ProviderUpdate, At

\* p sets the times of its nodes.
Timing(p) == ProviderUpdate(p) /\ SetTimes(p)

\* No other step sets times.
LEMMA TimesKept ==
  ASSUME RwInv, NEW p \in Procs, Step(p), ~Timing(p)
  PROVE  UNCHANGED timeVars
BY StepKinds DEF Timing, Quiet, BeginInsert, BeginErase, BeginUpdate, UpdateKind, ProviderUpdate, UpdateStep, ReadLocked,
   ReadUnlock, Announce, CountAnnouncement, Retire, Withdraw, Linearize, LinWrite, Unlink, Unlinked

\* Times are set once.
LEMMA TimesStay ==
  ASSUME RwInv, NEW p \in Procs, Step(p)
  PROVE  \A n \in Nodes : /\ itime[n] # NotSet => itime'[n] = itime[n]
                          /\ dtime[n] # NotSet => dtime'[n] = dtime[n]
<1>1. CASE Timing(p)
  <2>1. TimesSet(p)
    BY <1>1, TimesAreSet DEF Timing
  <2> QED BY <2>1, Basics DEF TimesSet
<1>2. CASE ~Timing(p)
  BY <1>2, TimesKept
<1> QED BY <1>1, <1>2

\* How the place of an update moves, when it sets no times.
LEMMA UpdateMoves ==
  ASSUME RwInv, NEW p \in Procs, Step(p), ~Timing(p), ~Quiet(p)
  PROVE  \/ rpc[p] = "idle" /\ rpc'[p] = "readLock"
         \/ rpc[p] = "readLock" /\ rpc'[p] = "write" /\ uts'[p] = timestamp /\ UNCHANGED <<ins, del>>
         \/ rpc[p] = "write" /\ rpc'[p] = "readUnlock" /\ UNCHANGED <<ins, del, uts>>
         \/ rpc[p] = "readUnlock" /\ rpc'[p] = "times" /\ UNCHANGED <<ins, del, uts>>
         \/ rpc[p] \in TimedPCs /\ rpc'[p] \in TimedPCs /\ UNCHANGED <<ins, del, uts>>
         \/ rpc[p] = "unlink" /\ rpc'[p] = "retire" /\ UNCHANGED <<ins, del, uts>>
         \/ rpc[p] = "retire" /\ rpc'[p] = "withdraw" /\ UNCHANGED <<ins, del, uts>>
         \/ rpc[p] = "withdraw" /\ rpc'[p] = "idle" /\ ins' = ins /\ del'[p] = NoNode
<1>1. UpdateTypes
  BY NoOwner
<1>2. CASE BeginInsert(p) \/ BeginErase(p)
  BY <1>1, <1>2 DEF BeginInsert, BeginErase, BeginUpdate, At, UpdateTypes
<1>3. CASE ProviderUpdate(p)
  BY <1>1, <1>3 DEF Timing, ProviderUpdate, UpdateStep, ReadLocked, ReadUnlock, Announce, CountAnnouncement, Retire,
     Withdraw, At, UpdateTypes, TimedPCs
<1>4. CASE Linearize(p) \/ Unlink(p)
  BY <1>1, <1>4 DEF Linearize, LinWrite, Unlink, Unlinked, At, UpdateTypes
<1> QED BY <1>2, <1>3, <1>4, StepKinds DEF UpdateKind

\* Whether a node was inserted, or deleted, before a time that has come does not change.
LEMMA AliveStays ==
  ASSUME RwInv, NEW p \in Procs, Step(p)
  PROVE  \A n \in Nodes, t \in Nat : t <= timestamp =>
           (Ins(n, t)' <=> Ins(n, t)) /\ (Del(n, t)' <=> Del(n, t)) /\ (Alive(n, t)' <=> Alive(n, t))
<1> SUFFICES ASSUME NEW n \in Nodes, NEW t \in Nat, t <= timestamp
             PROVE  (Ins(n, t)' <=> Ins(n, t)) /\ (Del(n, t)' <=> Del(n, t))
  BY DEF Alive
<1>1. UpdateTypes /\ Fits(p) /\ NoNode \notin Nodes
  BY NoOwner, Basics, StepFits DEF Step
<1>2. \A q \in Procs : q # p => rpc'[q] = rpc[q] /\ ins'[q] = ins[q] /\ del'[q] = del[q] /\ uts'[q] = uts[q]
  BY <1>1 DEF Fits, UpdateFrame
<1>3. CASE Quiet(p)
  BY <1>3, QuietKeeps
<1>4. CASE ~Quiet(p) /\ ~Timing(p)
  <2>1. UNCHANGED <<itime, dtime>>
    BY <1>4, TimesKept
  <2>2. /\ rpc'[p] \in DonePCs /\ ins'[p] = n /\ uts'[p] < t <=> rpc[p] \in DonePCs /\ ins[p] = n /\ uts[p] < t
        /\ rpc'[p] \in DonePCs /\ del'[p] = n /\ uts'[p] < t <=> rpc[p] \in DonePCs /\ del[p] = n /\ uts[p] < t
    <3>1. CASE rpc[p] = "write" /\ rpc'[p] = "readUnlock" /\ UNCHANGED <<ins, del, uts>>
      <4>1. uts[p] = timestamp /\ timestamp \in Nat
        BY <1>1, <3>1 DEF RwInv, RwLock, UpdateTypes
      <4>2. ~(uts[p] < t)
        BY <4>1
      <4> QED BY <3>1, <4>2
    <3>2. CASE rpc[p] = "readUnlock" /\ rpc'[p] = "times" /\ UNCHANGED <<ins, del, uts>>
      BY <3>2 DEF DonePCs
    <3>3. CASE rpc[p] \in {"idle", "readLock"} \cup TimedPCs \cup GonePCs /\ rpc'[p] \in {"idle", "readLock", "write"} \cup TimedPCs \cup GonePCs
      BY <3>3 DEF DonePCs, TimedPCs, GonePCs
    <3> QED BY <1>4, <3>1, <3>2, <3>3, UpdateMoves DEF TimedPCs, GonePCs
  <2> QED BY <1>2, <2>1, <2>2 DEF Ins, Del
<1>5. CASE Timing(p)
  <2>1. TimesSet(p)
    BY <1>5, TimesAreSet DEF Timing
  <2>2. rpc'[p] \notin DonePCs /\ rpc[p] \in DonePCs
    BY <1>1, <2>1 DEF TimesSet, UpdateTypes, DonePCs
  <2>3. Ins(n, t)' <=> Ins(n, t)
    <3>1. CASE n = ins[p]
      <4>1. Ins(n, t)' <=> uts[p] < t
        <5>1. itime'[n] = uts[p] /\ uts[p] # NotSet
          BY <2>1, <3>1 DEF TimesSet, NotSet
        <5>2. \A q \in Procs : q # p => ins'[q] # n
          BY <1>1, <1>2, <2>1, <3>1 DEF TimesSet
        <5> QED BY <2>2, <5>1, <5>2 DEF Ins
      <4>2. Ins(n, t) <=> uts[p] < t
        <5>1. itime[n] = NotSet /\ \A q \in Procs : ins[q] = n => q = p
          BY <1>1, <2>1, <3>1 DEF TimesSet
        <5> QED BY <2>2, <3>1, <5>1 DEF Ins
      <4> QED BY <4>1, <4>2
    <3>2. CASE n # ins[p]
      <4>1. itime'[n] = itime[n]
        BY <2>1, <3>2 DEF TimesSet
      <4> QED BY <1>2, <2>2, <3>2, <4>1 DEF Ins
    <3> QED BY <3>1, <3>2
  <2>4. Del(n, t)' <=> Del(n, t)
    <3>1. CASE n = del[p]
      <4>1. Del(n, t)' <=> uts[p] < t
        <5>1. dtime'[n] = uts[p] /\ uts[p] # NotSet
          BY <2>1, <3>1 DEF TimesSet, NotSet
        <5>2. \A q \in Procs : q # p => del'[q] # n
          BY <1>1, <1>2, <2>1, <3>1 DEF TimesSet
        <5> QED BY <2>2, <5>1, <5>2 DEF Del
      <4>2. Del(n, t) <=> uts[p] < t
        <5>1. dtime[n] = NotSet /\ \A q \in Procs : del[q] = n => q = p
          BY <1>1, <2>1, <3>1 DEF TimesSet
        <5> QED BY <2>2, <3>1, <5>1 DEF Del
      <4> QED BY <4>1, <4>2
    <3>2. CASE n # del[p]
      <4>1. dtime'[n] = dtime[n]
        BY <2>1, <3>2 DEF TimesSet
      <4> QED BY <1>2, <2>2, <3>2, <4>1 DEF Del
    <3> QED BY <3>1, <3>2
  <2> QED BY <2>3, <2>4
<1> QED BY <1>3, <1>4, <1>5

\* A node that was inserted has been linked.
LEMMA AliveKnown ==
  ASSUME RwInv, NEW n \in Nodes, NEW t, Ins(n, t)
  PROVE  n \in Known \ {HeadNode, MaxNode}
<1>1. ASSUME NEW q \in Procs, ins[q] = n
      PROVE  rpc[q] \in UpdatePCs /\ newnode[q] = n /\ Inserts(q)
  <2>1. rpc[q] \in UpdatePCs
    BY <1>1, NoOwner, Basics, UpdateSteps DEF Own, Calls
  <2> QED BY <1>1, <2>1, InUpdate, Basics
<1>2. CASE itime[n] # NotSet
  <2>1. n \in alloc \ {HeadNode, MaxNode}
    BY <1>2 DEF RwInv, Times
  <2>2. ~Fresh(n)
    BY <1>1, <1>2 DEF Fresh, Inserts
  <2> QED BY <2>1, <2>2 DEF Known
<1>3. CASE \E q \in Procs : rpc[q] \in DonePCs /\ ins[q] = n
  <2>1. PICK q \in Procs : rpc[q] \in DonePCs /\ ins[q] = n
    BY <1>3
  <2>2. n \in alloc \ {HeadNode, MaxNode} /\ \A r \in Procs : ins[r] = n => r = q
    BY <1>1, <2>1 DEF Inserts
  <2>3. ~Fresh(n)
    BY <2>1, <2>2, UpdateSteps DEF Fresh
  <2> QED BY <2>2, <2>3 DEF Known
<1> QED BY <1>2, <1>3 DEF Ins

\* The clock does not go back.
LEMMA ClockGrows ==
  ASSUME RwInv, NEW p \in Procs, Step(p)
  PROVE  timestamp \in Nat /\ timestamp' \in Nat /\ timestamp <= timestamp'
<1>1. UpdateTypes
  BY NoOwner
<1>2. timestamp' = timestamp \/ timestamp' = timestamp + 1
  <2>1. CASE ~Quiet(p)
    BY <2>1, StepKinds DEF BeginInsert, BeginErase, BeginUpdate, UpdateKind, ProviderUpdate, UpdateStep, ReadLocked,
       ReadUnlock, SetTimes, Announce, CountAnnouncement, Retire, Withdraw, Linearize, LinWrite, Unlink, Unlinked
  <2>2. CASE ClockStep(p)
    BY <2>2 DEF ClockStep, BeginQuery, StartTraversal, AdvanceClock, WriteUnlock
  <2> QED BY <2>1, <2>2, QuietClock
<1> QED BY <1>1, <1>2 DEF UpdateTypes

\* A mark stays.
LEMMA MarkedStay ==
  ASSUME RwInv, NEW p \in Procs, Step(p)
  PROVE  \A n \in Nodes : marked[n] => marked'[n]
BY StepFits DEF Step, Fits, UpdateFrame

\* A mark of this step is that of p's erase.
LEMMA MarkedBy ==
  ASSUME RwInv, NEW p \in Procs, Step(p), NEW n \in alloc', marked'[n]
  PROVE  \/ n \in alloc /\ marked[n]
         \/ Linearize(p) /\ Marks(p) /\ n = curr[p]
<1>1. Structure /\ UpdateTypes /\ alloc \subseteq Nodes
  BY NoOwner
<1>2. CASE Quiet(p) \/ UpdateKind(p)
  BY <1>2, QuietKeeps, UpdateKeeps DEF Keeps
<1>3. CASE BeginInsert(p)
  BY <1>3, InsertArrives DEF Arrives
<1>4. CASE Linearize(p)
  <2>1. alloc' = alloc /\ op[p].type \in {"insert", "erase"}
    BY <1>4, LinearizeChanges
  <2>2. Links(p) \/ Marks(p)
    BY <1>4, <2>1, LinearizeLinks, LinearizeMarks
  <2>3. n # curr[p] => (Marks(p) => marked'[n] = marked[n])
    BY <1>1, <2>1 DEF Marks, UpdateTypes
  <2> QED BY <1>4, <2>1, <2>2, <2>3 DEF Links
<1>5. CASE Unlink(p)
  BY <1>5, UnlinkChanges
<1> QED BY <1>2, <1>3, <1>4, <1>5, StepKinds

\* The times of the nodes stay in order.
LEMMA StepTimes ==
  ASSUME RwInv, NEW p \in Procs, Step(p)
  PROVE  Times'
<1>1. /\ Times /\ UpdateTypes /\ Fits(p) /\ alloc \subseteq Nodes /\ Types' /\ timestamp <= timestamp'
      /\ timestamp \in Nat /\ timestamp' \in Nat /\ NoNode \notin Nodes
  BY NoOwner, Basics, StepFits, ClockGrows DEF Step, Fits, RwInv
<1>2. itime' \in [Nodes -> Nat] /\ dtime' \in [Nodes -> Nat]
  BY <1>1 DEF Types, UpdateTypes
<1>3. \A q \in Procs : q # p => ins'[q] = ins[q] /\ del'[q] = del[q] /\ rpc'[q] = rpc[q]
  BY <1>1 DEF Fits, UpdateFrame
<1>4. \A n \in Nodes : itime'[n] <= timestamp' /\ dtime'[n] <= timestamp'
  <2>1. CASE ~Timing(p)
    BY <1>1, <1>2, <2>1, TimesKept DEF Times
  <2>2. CASE Timing(p)
    <3>1. TimesSet(p)
      BY <2>2, TimesAreSet DEF Timing
    <3> QED BY <1>1, <1>2, <3>1 DEF TimesSet, Times
  <2> QED BY <2>1, <2>2
<1>5. \A n \in Nodes : dtime'[n] # NotSet => marked'[n]
  <2>1. CASE ~Timing(p)
    BY <1>1, <2>1, TimesKept, MarkedStay DEF Times
  <2>2. CASE Timing(p)
    <3>1. TimesSet(p)
      BY <2>2, TimesAreSet DEF Timing
    <3> QED BY <1>1, <3>1 DEF TimesSet, Times
  <2> QED BY <2>1, <2>2
<1>6. \A n \in Nodes : n \notin alloc' \ {HeadNode, MaxNode} => itime'[n] = NotSet
  <2> SUFFICES ASSUME NEW n \in Nodes, n \notin alloc' \ {HeadNode, MaxNode} PROVE itime'[n] = NotSet
    OBVIOUS
  <2>1. itime[n] = NotSet /\ n \notin alloc \ {HeadNode, MaxNode}
    BY <1>1 DEF Times, Fits, ListFrame
  <2>2. CASE ~Timing(p)
    BY <2>1, <2>2, TimesKept
  <2>3. CASE Timing(p)
    <3>1. TimesSet(p)
      BY <2>3, TimesAreSet DEF Timing
    <3> QED BY <1>1, <2>1, <3>1 DEF TimesSet
  <2> QED BY <2>2, <2>3
<1>7. \A n \in alloc' \ {HeadNode, MaxNode} : itime'[n] # NotSet \/ \E q \in Procs : ins'[q] = n
  <2> SUFFICES ASSUME NEW n \in alloc' \ {HeadNode, MaxNode}, itime'[n] = NotSet
               PROVE  \E q \in Procs : ins'[q] = n
    OBVIOUS
  <2>1. CASE n \notin alloc
    <3>1. BeginInsert(p)
      <4>1. CASE Linearize(p) \/ Unlink(p)
        BY <2>1, <4>1, LinearizeChanges, UnlinkChanges
      <4>2. CASE Quiet(p) \/ UpdateKind(p)
        BY <2>1, <4>2, QuietKeeps, UpdateKeeps DEF Keeps
      <4> QED BY <4>1, <4>2, StepKinds
    <3>2. PICK m \in Nodes : Arrives(p, m)
      BY <3>1, InsertArrives
    <3> QED BY <1>1, <2>1, <3>2 DEF Arrives, UpdateTypes
  <2>2. CASE n \in alloc
    <3>1. itime[n] = NotSet
      BY <1>1, <2>2, TimesStay
    <3>2. PICK q \in Procs : ins[q] = n
      BY <1>1, <2>2, <3>1 DEF Times
    <3>3. CASE q # p
      BY <1>3, <3>2, <3>3
    <3>4. CASE q = p /\ Timing(p)
      <4>1. TimesSet(p)
        BY <3>4, TimesAreSet DEF Timing
      <4>2. itime'[n] = uts[p] /\ uts[p] # 0
        BY <1>1, <3>2, <3>4, <4>1 DEF TimesSet
      <4> QED BY <4>2 DEF NotSet
    <3>5. CASE q = p /\ ~Timing(p)
      <4>1. CASE Quiet(p)
        BY <3>2, <3>5, <4>1 DEF Quiet
      <4>2. CASE ~Quiet(p)
        <5>1. rpc[p] # "idle"
          BY <1>1, <2>2, <3>2, <3>5, NoOwner, UpdateSteps DEF Own, Calls
        <5> QED BY <3>2, <3>5, <4>2, <5>1, UpdateMoves
      <4> QED BY <4>1, <4>2
    <3> QED BY <3>3, <3>4, <3>5
  <2> QED BY <2>1, <2>2
<1>8. \A n \in alloc' : marked'[n] /\ dtime'[n] = NotSet => \E q \in Procs : rpc'[q] \in DonePCs /\ del'[q] = n
  <2> SUFFICES ASSUME NEW n \in alloc', marked'[n], dtime'[n] = NotSet
               PROVE  \E q \in Procs : rpc'[q] \in DonePCs /\ del'[q] = n
    OBVIOUS
  <2>1. CASE Linearize(p) /\ Marks(p) /\ n = curr[p]
    <3>1. rpc'[p] = "readUnlock" /\ del'[p] = n
      BY <1>1, <2>1, LinearizeChanges DEF Marks, UpdateTypes
    <3> QED BY <3>1, UpdateSteps
  <2>2. CASE n \in alloc /\ marked[n]
    <3>1. dtime[n] = NotSet
      BY <1>1, <2>2, TimesStay
    <3>2. PICK q \in Procs : rpc[q] \in DonePCs /\ del[q] = n
      BY <1>1, <2>2, <3>1 DEF Times
    <3>3. CASE q # p
      BY <1>3, <3>2, <3>3
    <3>4. CASE q = p /\ Timing(p)
      <4>1. TimesSet(p)
        BY <3>4, TimesAreSet DEF Timing
      <4>2. dtime'[n] = uts[p] /\ uts[p] # 0
        BY <1>1, <2>2, <3>2, <3>4, <4>1 DEF TimesSet
      <4> QED BY <4>2 DEF NotSet
    <3>5. CASE q = p /\ ~Timing(p)
      <4>1. ~Quiet(p) \/ (UNCHANGED <<rpc, del>>)
        BY <3>2, <3>5, UpdateSteps DEF Quiet
      <4>2. ~Quiet(p) => rpc'[p] = "times" /\ del' = del
        BY <3>2, <3>5, UpdateMoves DEF DonePCs, TimedPCs
      <4> QED BY <3>2, <3>5, <4>1, <4>2, UpdateSteps
    <3> QED BY <3>3, <3>4, <3>5
  <2> QED BY <2>1, <2>2, MarkedBy
<1>9. \A q \in Procs : del'[q] # NoNode => itime'[del'[q]] # NotSet
  <2> SUFFICES ASSUME NEW q \in Procs, del'[q] # NoNode PROVE itime'[del'[q]] # NotSet
    OBVIOUS
  <2>1. CASE del'[q] = del[q]
    <3>1. del[q] \in Nodes
      BY <1>1, <2>1 DEF UpdateTypes
    <3> QED BY <1>1, <2>1, <3>1, TimesStay DEF Times
  <2>2. CASE del'[q] # del[q]
    <3>1. q = p /\ ~Quiet(p) /\ ~Timing(p)
      BY <1>3, <2>2, TimesAreSet DEF Quiet, TimesSet, Timing
    <3>2. ~BeginInsert(p)
      BY <1>1, <3>1, InsertArrives DEF Arrives, UpdateTypes
    <3>3. CASE BeginErase(p)
      <4>1. lpc[p] = "change" /\ op[p].type = "erase" /\ del'[p] = curr[p] /\ itime' = itime
        BY <1>1, <3>3 DEF BeginErase, BeginUpdate, UpdateTypes
      <4> QED BY <3>1, <4>1, FoundHasTime
    <3>4. CASE ~BeginErase(p)
      <4>1. del' = del \/ del'[p] = NoNode
        BY <1>1, <3>1, <3>2, <3>4, StepKinds DEF UpdateKind, ProviderUpdate, UpdateStep, ReadLocked, ReadUnlock, SetTimes,
           Announce, CountAnnouncement, Retire, Withdraw, Linearize, LinWrite, Unlink, Unlinked, UpdateTypes
      <4> QED BY <2>2, <3>1, <4>1
    <3> QED BY <3>3, <3>4
  <2> QED BY <2>1, <2>2
<1> QED BY <1>4, <1>5, <1>6, <1>7, <1>8, <1>9 DEF Times

-----------------------------------------------------------------------------
(***************************************************************************)
(* The bags.                                                               *)
(***************************************************************************)
Retiring(p) == ProviderUpdate(p) /\ Retire(p)

\* Only a retirement changes a bag.
LEMMA BagsKept ==
  ASSUME RwInv, NEW p \in Procs, Step(p), ~Retiring(p)
  PROVE  UNCHANGED bag
BY StepKinds DEF Retiring, Quiet, BeginInsert, BeginErase, BeginUpdate, UpdateKind, ProviderUpdate, UpdateStep, ReadLocked,
   ReadUnlock, SetTimes, Announce, CountAnnouncement, Withdraw, Linearize, LinWrite, Unlink, Unlinked

\* What retiring a node changes.
LEMMA RetireAppends ==
  ASSUME RwInv, NEW p \in Procs, Retiring(p)
  PROVE  /\ rpc[p] = "retire" /\ rpc'[p] = "withdraw"
         /\ del[p] = curr[p] /\ del[p] \in Known \ {HeadNode, MaxNode} /\ del[p] \in Nodes
         /\ dtime[del[p]] # NotSet /\ itime[del[p]] # NotSet
         /\ bag' = [bag EXCEPT ![p] = Append(bag[p], del[p])]
         /\ bag'[p] \in Seq(Nodes) /\ Len(bag'[p]) = Len(bag[p]) + 1 /\ bag'[p][Len(bag[p]) + 1] = del[p]
         /\ \A i \in DOMAIN bag[p] : i \in DOMAIN bag'[p] /\ bag'[p][i] = bag[p][i]
         /\ \A i \in DOMAIN bag'[p] : i \in DOMAIN bag[p] \/ i = Len(bag[p]) + 1
         /\ DOMAIN bag[p] = 1 .. Len(bag[p]) /\ Len(bag[p]) \in Nat
         /\ Len(bag[p]) + 1 \in DOMAIN bag'[p]
<1>1. /\ rpc[p] = "retire" /\ rpc' = [rpc EXCEPT ![p] = "withdraw"]
      /\ bag' = [bag EXCEPT ![p] = Append(bag[p], del[p])] /\ UpdateTypes
  BY NoOwner DEF Retiring, ProviderUpdate, Retire, At
<1>2. rpc[p] \in GonePCs /\ rpc[p] \in UpdatePCs /\ rpc[p] \notin InsertPCs
  BY <1>1, UpdateSteps DEF GonePCs
<1>3. op[p].type = "erase"
  BY <1>2, InErase
<1>4. /\ del[p] = curr[p] /\ del[p] \in Known \ {HeadNode, MaxNode} /\ del[p] \in Nodes /\ del[p] # NoNode
      /\ dtime[del[p]] # NotSet
  BY <1>2, <1>3, ErasedNode DEF Erases
<1>5. itime[del[p]] # NotSet
  BY <1>4 DEF RwInv, Times
<1>6. bag[p] \in Seq(Nodes) /\ bag'[p] = Append(bag[p], del[p]) /\ rpc'[p] = "withdraw"
  BY <1>1 DEF UpdateTypes
<1>7. /\ bag'[p] \in Seq(Nodes) /\ Len(bag'[p]) = Len(bag[p]) + 1 /\ bag'[p][Len(bag[p]) + 1] = del[p]
      /\ \A i \in 1 .. Len(bag[p]) : bag'[p][i] = bag[p][i]
  BY <1>4, <1>6, AppendProperties
<1>8. Len(bag[p]) \in Nat /\ DOMAIN bag[p] = 1 .. Len(bag[p]) /\ DOMAIN bag'[p] = 1 .. Len(bag[p]) + 1
  BY <1>6, <1>7, LenProperties
<1> QED BY <1>1, <1>4, <1>5, <1>6, <1>7, <1>8

\* A bag stays in the order of deletion: the later of two erases of a process has the later time.
LEMMA StepBags ==
  ASSUME RwInv, NEW p \in Procs, Step(p)
  PROVE  Bags'
<1>1. /\ Bags /\ Times /\ RwLock /\ UpdateTypes /\ UpdateTypes' /\ Fits(p) /\ Known \subseteq Known'
      /\ Known \subseteq Nodes
  BY NoOwner, StepFits, KnownGrows DEF Step, Fits, RwInv, Types
<1>2. \A q \in Procs : q # p => rpc'[q] = rpc[q] /\ del'[q] = del[q] /\ uts'[q] = uts[q] /\ bag'[q] = bag[q]
  BY <1>1 DEF Fits, UpdateFrame
<1>3. \A n \in Nodes : /\ itime[n] # NotSet => itime'[n] = itime[n]
                       /\ dtime[n] # NotSet => dtime'[n] = dtime[n]
  BY TimesStay
<1>4. \A n \in Nodes : dtime[n] \in Nat /\ dtime'[n] \in Nat
  BY <1>1 DEF UpdateTypes
<1>5. ASSUME NEW q \in Procs
      PROVE  \A i \in DOMAIN bag[q] :
               /\ bag[q][i] \in Known' \ {HeadNode, MaxNode} /\ bag[q][i] \in Nodes
               /\ dtime[bag[q][i]] # NotSet /\ itime[bag[q][i]] # NotSet
               /\ dtime'[bag[q][i]] = dtime[bag[q][i]] /\ itime'[bag[q][i]] = itime[bag[q][i]]
  BY <1>1, <1>3 DEF Bags, InOrder
\* A bag that has not changed.
<1>6. ASSUME NEW q \in Procs, bag'[q] = bag[q]
      PROVE  InOrder(bag[q])'
  <2>1. InOrder(bag[q])
    BY <1>1 DEF Bags
  <2> QED BY <1>5, <1>6, <2>1 DEF InOrder
<1>7. CASE Retiring(p)
  <2> DEFINE k == Len(bag[p]) + 1
  <2>1. /\ rpc[p] = "retire" /\ rpc'[p] = "withdraw"
        /\ del[p] \in Known \ {HeadNode, MaxNode} /\ del[p] \in Nodes
        /\ dtime[del[p]] # NotSet /\ itime[del[p]] # NotSet
        /\ Len(bag[p]) \in Nat
        /\ DOMAIN bag[p] = 1 .. Len(bag[p]) /\ bag'[p][k] = del[p]
        /\ \A i \in DOMAIN bag[p] : bag'[p][i] = bag[p][i]
        /\ \A i \in DOMAIN bag'[p] : i \in DOMAIN bag[p] \/ i = k
    BY <1>7, RetireAppends
  <2>2. \A i \in DOMAIN bag[p] : dtime[bag[p][i]] <= dtime[del[p]]
    BY <1>1, <2>1 DEF Bags, TimedPCs
  <2>3. /\ del[p] \in Known' /\ dtime'[del[p]] = dtime[del[p]] /\ itime'[del[p]] = itime[del[p]]
        /\ dtime[del[p]] \in Nat
    BY <1>1, <1>3, <1>4, <2>1
  <2>4. \A i \in DOMAIN bag'[p] : /\ bag'[p][i] \in Known' \ {HeadNode, MaxNode}
                                  /\ dtime'[bag'[p][i]] # NotSet /\ itime'[bag'[p][i]] # NotSet
    <3> SUFFICES ASSUME NEW i \in DOMAIN bag'[p]
                 PROVE  /\ bag'[p][i] \in Known' \ {HeadNode, MaxNode}
                        /\ dtime'[bag'[p][i]] # NotSet /\ itime'[bag'[p][i]] # NotSet
      OBVIOUS
    <3>1. CASE i \in DOMAIN bag[p]
      BY <1>5, <2>1, <3>1
    <3>2. CASE i = k
      BY <2>1, <2>3, <3>2
    <3> QED BY <2>1, <3>1, <3>2
  <2>5. \A i, j \in DOMAIN bag'[p] : i <= j => dtime'[bag'[p][i]] <= dtime'[bag'[p][j]]
    <3> SUFFICES ASSUME NEW i \in DOMAIN bag'[p], NEW j \in DOMAIN bag'[p], i <= j
                 PROVE  dtime'[bag'[p][i]] <= dtime'[bag'[p][j]]
      OBVIOUS
    <3>1. CASE i \in DOMAIN bag[p] /\ j \in DOMAIN bag[p]
      <4>1. dtime[bag[p][i]] <= dtime[bag[p][j]]
        BY <1>1, <3>1 DEF Bags, InOrder
      <4> QED BY <1>5, <2>1, <3>1, <4>1
    <3>2. CASE i \in DOMAIN bag[p] /\ j = k
      <4>1. dtime[bag[p][i]] <= dtime[del[p]]
        BY <2>2, <3>2
      <4>2. dtime'[bag'[p][i]] = dtime[bag[p][i]]
        BY <1>5, <2>1, <3>2
      <4>3. dtime'[bag'[p][j]] = dtime[del[p]]
        BY <2>1, <2>3, <3>2
      <4> QED BY <4>1, <4>2, <4>3
    <3>3. CASE i = k /\ j = k
      <4>1. dtime'[bag'[p][i]] \in Nat
        BY <2>1, <2>3, <3>3
      <4> QED BY <3>3, <4>1
    <3>4. i = k => j = k
      BY <2>1
    <3> QED BY <2>1, <3>1, <3>2, <3>3, <3>4
  <2>6. InOrder(bag[p])'
    BY <2>4, <2>5 DEF InOrder
  <2>7. ASSUME NEW q \in Procs, q # p
        PROVE  /\ InOrder(bag[q])'
               /\ rpc'[q] \in {"write"} \cup DonePCs => \A i \in DOMAIN bag'[q] : dtime'[bag'[q][i]] <= uts'[q]
               /\ rpc'[q] \in TimedPCs \cup {"retire"} => \A i \in DOMAIN bag'[q] : dtime'[bag'[q][i]] <= dtime'[del'[q]]
    <3>1. dtime' = dtime
      BY <1>7 DEF Retiring, ProviderUpdate, Retire
    <3>2. rpc'[q] = rpc[q] /\ del'[q] = del[q] /\ uts'[q] = uts[q] /\ bag'[q] = bag[q]
      BY <1>2, <2>7
    <3>3. InOrder(bag[q])'
      BY <1>6, <3>2
    <3> QED BY <1>1, <3>1, <3>2, <3>3 DEF Bags
  <2>8. rpc'[p] \notin {"write"} \cup DonePCs /\ rpc'[p] \notin TimedPCs \cup {"retire"}
    BY <2>1 DEF DonePCs, TimedPCs
  <2> QED BY <2>6, <2>7, <2>8 DEF Bags
<1>8. CASE ~Retiring(p)
  <2>1. bag' = bag
    BY <1>8, BagsKept
  <2>2. ASSUME NEW q \in Procs, rpc'[q] \in {"write"} \cup DonePCs
        PROVE  \A i \in DOMAIN bag[q] : dtime[bag[q][i]] <= uts'[q]
    <3>1. CASE rpc[q] \in {"write"} \cup DonePCs /\ uts'[q] = uts[q]
      BY <1>1, <3>1 DEF Bags
    <3>2. CASE ~(rpc[q] \in {"write"} \cup DonePCs /\ uts'[q] = uts[q])
      <4>1. q = p
        BY <1>2, <2>2, <3>2
      <4>2. ~Quiet(p)
        <5>1. "write" \in UpdatePCs /\ DonePCs \subseteq UpdatePCs
          BY UpdateSteps
        <5> QED BY <1>1, <2>2, <3>2, <4>1, <5>1 DEF Quiet, UpdateTypes
      <4>3. ~Timing(p)
        <5>1. TimesSet(p) => rpc'[p] \in {"idle", "announce"}
          BY <1>1 DEF TimesSet, UpdateTypes
        <5>2. {"write"} \cup DonePCs = {"write", "readUnlock", "times"}
          BY DEF DonePCs
        <5> QED BY <2>2, <4>1, <5>1, <5>2, TimesAreSet DEF Timing
      <4>4. uts'[p] = timestamp
        BY <2>2, <3>2, <4>1, <4>2, <4>3, UpdateMoves DEF DonePCs, TimedPCs
      <4> QED BY <1>1, <1>5, <4>1, <4>4 DEF Times
    <3> QED BY <3>1, <3>2
  <2>3. ASSUME NEW q \in Procs, rpc'[q] \in TimedPCs \cup {"retire"}
        PROVE  \A i \in DOMAIN bag[q] : dtime[bag[q][i]] <= dtime'[del'[q]]
    <3>0. TimedPCs \cup {"retire"} \subseteq UpdatePCs
      BY UpdateSteps DEF GonePCs
    <3>1. CASE Timing(p) /\ q = p
      <4>1. TimesSet(p)
        BY <3>1, TimesAreSet DEF Timing
      <4>2. del[p] # NoNode
        BY <1>1, <2>3, <3>1, <4>1 DEF TimesSet, TimedPCs, UpdateTypes
      <4>3. dtime'[del'[p]] = uts[p] /\ rpc[p] \in DonePCs
        BY <1>1, <4>1, <4>2 DEF TimesSet, DonePCs
      <4> QED BY <1>1, <3>1, <4>3 DEF Bags
    <3>2. CASE ~(Timing(p) /\ q = p)
      <4>1. rpc[q] \in TimedPCs \cup {"retire"} /\ del'[q] = del[q]
        <5>1. CASE q # p
          BY <1>2, <2>3, <5>1
        <5>2. CASE q = p /\ Quiet(p)
          BY <1>1, <2>3, <3>0, <5>2 DEF Quiet, UpdateTypes
        <5>3. CASE q = p /\ ~Quiet(p)
          BY <2>3, <3>2, <5>3, UpdateMoves DEF TimedPCs
        <5> QED BY <5>1, <5>2, <5>3
      <4>2. rpc[q] \in TimedPCs \cup GonePCs /\ rpc[q] \in UpdatePCs /\ rpc[q] \notin InsertPCs
        BY <4>1, UpdateSteps DEF GonePCs
      <4>3. del[q] \in Nodes /\ dtime[del[q]] # NotSet
        BY <4>2, InErase, ErasedNode DEF Erases
      <4>4. dtime'[del'[q]] = dtime[del[q]]
        BY <1>3, <4>1, <4>3
      <4> QED BY <1>1, <4>1, <4>4 DEF Bags
    <3> QED BY <3>1, <3>2
  <2> QED BY <1>5, <1>6, <2>1, <2>2, <2>3 DEF Bags
<1> QED BY <1>7, <1>8

\* A deleted node is always in the hands of its eraser, or in a bag.
LEMMA StepKept ==
  ASSUME RwInv, NEW p \in Procs, Step(p)
  PROVE  Kept'
<1>1. Kept /\ UpdateTypes /\ Fits(p) /\ NoNode \notin alloc
  BY NoOwner, Basics, StepFits DEF Step, RwInv
<1>2. \A q \in Procs : q # p => rpc'[q] = rpc[q] /\ del'[q] = del[q] /\ bag'[q] = bag[q]
  BY <1>1 DEF Fits, UpdateFrame
<1>3. \A q \in Procs : \A n : InBag(q, n) => InBag(q, n)'
  <2>1. CASE ~Retiring(p)
    BY <2>1, BagsKept DEF InBag
  <2>2. CASE Retiring(p)
    <3>1. \A n : InBag(p, n) => InBag(p, n)'
      BY <2>2, RetireAppends DEF InBag
    <3> QED BY <1>2, <3>1 DEF InBag
  <2> QED BY <2>1, <2>2
<1> SUFFICES ASSUME NEW n \in alloc', marked'[n]
             PROVE  \/ \E q \in Procs : rpc'[q] \in MarkedPCs \cup GonePCs /\ del'[q] = n
                    \/ \E q \in Procs : InBag(q, n)'
  BY DEF Kept
<1>4. CASE Linearize(p) /\ Marks(p) /\ n = curr[p]
  <2>1. rpc'[p] = "readUnlock" /\ del'[p] = n
    BY <1>1, <1>4, LinearizeChanges DEF Marks, UpdateTypes
  <2> QED BY <2>1, UpdateSteps
<1>5. CASE n \in alloc /\ marked[n]
  <2>1. CASE \E q \in Procs : InBag(q, n)
    BY <1>3, <2>1
  <2>2. CASE \E q \in Procs : rpc[q] \in MarkedPCs \cup GonePCs /\ del[q] = n
    <3>1. PICK q \in Procs : rpc[q] \in MarkedPCs \cup GonePCs /\ del[q] = n
      BY <2>2
    <3>2. CASE q # p
      BY <1>2, <3>1, <3>2
    <3>3. CASE q = p /\ Quiet(p)
      BY <3>1, <3>3, UpdateSteps DEF Quiet
    <3>4. CASE q = p /\ Timing(p)
      <4>1. TimesSet(p)
        BY <3>4, TimesAreSet DEF Timing
      <4>2. rpc'[p] = "announce" /\ del'[p] = n
        BY <1>1, <1>5, <3>1, <3>4, <4>1 DEF TimesSet, UpdateTypes
      <4> QED BY <4>2 DEF MarkedPCs, TimedPCs
    <3>5. CASE q = p /\ ~Quiet(p) /\ ~Timing(p) /\ rpc[p] # "withdraw"
      <4>1. rpc[p] \notin {"idle", "readLock", "write"}
        BY <3>1, <3>5 DEF MarkedPCs, DonePCs, TimedPCs, GonePCs
      <4>2. rpc'[p] \in MarkedPCs \cup GonePCs /\ del' = del
        BY <3>5, <4>1, UpdateMoves DEF MarkedPCs, DonePCs, TimedPCs, GonePCs
      <4> QED BY <3>1, <3>5, <4>2
    <3>6. CASE q = p /\ rpc[p] = "withdraw"
      <4>1. InBag(p, n)
        BY <3>1, <3>6, NoOwner DEF Own, Shows, InBag
      <4> QED BY <1>3, <4>1
    <3> QED BY <3>2, <3>3, <3>4, <3>5, <3>6
  <2> QED BY <1>1, <1>5, <2>1, <2>2 DEF Kept
<1> QED BY <1>4, <1>5, MarkedBy

-----------------------------------------------------------------------------
(***************************************************************************)
(* The queries, and the steps of the others.                               *)
(***************************************************************************)
LEMMA ListedKnown ==
  ASSUME RwInv
  PROVE  Listed \subseteq Known /\ Known \subseteq alloc /\ alloc \subseteq Nodes /\ Listed \subseteq Nodes
         /\ \A n \in Nodes : key[n] \in Int
<1>1. Listed \subseteq Known /\ Known \subseteq alloc
  BY DEF Listed, Known
<1> QED BY <1>1 DEF RwInv, Types, ListTypes

\* A query that is on track stays so.
LEMMA TrackStays ==
  ASSUME RwInv, NEW p \in Procs, Step(p), NEW n \in Known, NEW t \in Nat, t <= timestamp, OnTrack(n, t),
         NEW u, u' = u, NEW v, v' = v, u = n, v = t
  PROVE  OnTrack(u, v)'
<1>1. PICK S \in SUBSET Known : n \in S /\ \A x \in S \ {MaxNode} : next[x] \in S /\ NoGap(x, t)
  BY DEF OnTrack
<1>2. /\ Listed \subseteq Known /\ Known \subseteq alloc /\ alloc \subseteq Nodes /\ Listed \subseteq Nodes
      /\ (\A m \in Nodes : key[m] \in Int) /\ Known \subseteq Known' /\ (\A m \in alloc : key'[m] = key[m])
      /\ UpdateTypes
  BY ListedKnown, KnownGrows, StepFits, NoOwner DEF Step
<1>3. \A m \in Nodes : Alive(m, v)' <=> Alive(m, t)
  <2> SUFFICES ASSUME NEW m \in Nodes PROVE Alive(m, v)' <=> Alive(m, t)
    OBVIOUS
  <2>1. Ins(m, t)' <=> Ins(m, t)
    BY AliveStays
  <2>2. Del(m, t)' <=> Del(m, t)
    BY AliveStays
  <2> QED BY <2>1, <2>2 DEF Alive, Ins, Del
<1>4. \A x \in S \ {MaxNode}, m \in Listed :
        Alive(m, t) /\ key[m] > key[x] => m = next[x] \/ key[m] > key[next[x]]
  BY <1>1 DEF NoGap
<1>5. SUFFICES \E T \in SUBSET Known' : n \in T /\
                 \A x \in T \ {MaxNode} : /\ next'[x] \in T
                                          /\ \A m \in Listed' : Alive(m, t) /\ key'[m] > key'[x]
                                               => m = next'[x] \/ key'[m] > key'[next'[x]]
  <2>1. Listed' \subseteq Nodes
    <3>1. Listed' \subseteq alloc'
      BY DEF Listed, Known
    <3> QED BY <3>1, StepFits DEF Step, Fits, Types, ListTypes
  <2> QED BY <1>3, <2>1 DEF OnTrack, NoGap
<1>6. CASE Keeps
  BY <1>1, <1>4, <1>6 DEF Keeps
<1>7. CASE \E a \in Nodes : Arrives(p, a)
  <2>1. PICK a \in Nodes : Arrives(p, a)
    BY <1>7
  <2>2. \A x \in S : next'[x] = next[x] /\ key'[x] = key[x]
    BY <1>2, <2>1 DEF Arrives, UpdateTypes
  <2>3. Known' = Known /\ Listed' = Listed
    BY <2>1 DEF Arrives
  <2> QED BY <1>1, <1>2, <1>4, <2>2, <2>3
<1>8. CASE Linearize(p) /\ Links(p)
  <2> DEFINE a == newnode[p]
  <2>1. /\ a \in alloc \ Known /\ pred[p] \in Listed \ {MaxNode} /\ curr[p] = next[pred[p]]
        /\ next[a] = curr[p] /\ key[pred[p]] < key[a] /\ key[a] < key[curr[p]]
        /\ next' = [next EXCEPT ![pred[p]] = a] /\ Listed' = Listed \cup {a} /\ Known' = Known \cup {a}
        /\ key' = key
    BY <1>8, LinearizeChanges DEF Links
  <2> HIDE DEF a
  <2>2. ~Alive(a, t)
    BY <1>2, <2>1, AliveKnown DEF Alive
  <2>3. next'[pred[p]] = a /\ \A x \in Nodes : x # pred[p] => next'[x] = next[x]
    BY <1>2, <2>1 DEF UpdateTypes
  <2>4. a # MaxNode /\ a # pred[p] /\ key[a] \in Int /\ key[pred[p]] \in Int
    BY <1>2, <2>1, HeadKnown
  <2>5. CASE pred[p] \in S
    <3> DEFINE T == S \cup {a}
    <3>1. T \in SUBSET Known' /\ n \in T
      BY <1>1, <2>1
    <3>2. curr[p] \in S /\ key[curr[p]] \in Int
      BY <1>1, <1>2, <2>1, <2>5
    <3>3. \A m \in Listed : Alive(m, t) /\ key[m] > key[pred[p]] => m = curr[p] \/ key[m] > key[curr[p]]
      BY <1>4, <2>1, <2>5
    <3>4. \A m \in Listed : Alive(m, t) /\ key[m] > key[pred[p]] => key[m] > key[a]
      BY <1>2, <2>1, <2>4, <3>2, <3>3
    <3>5. \A x \in T \ {MaxNode} : next'[x] \in T
      <4> SUFFICES ASSUME NEW x \in T \ {MaxNode} PROVE next'[x] \in T
        OBVIOUS
      <4>1. CASE x = pred[p]
        BY <2>3, <4>1
      <4>2. CASE x = a
        BY <1>2, <2>1, <2>3, <2>4, <3>2, <4>2
      <4>3. CASE x \in S /\ x # pred[p]
        BY <1>1, <1>2, <2>3, <4>3
      <4> QED BY <4>1, <4>2, <4>3
    <3>6. ASSUME NEW x \in T \ {MaxNode}, NEW m \in Listed', Alive(m, t), key'[m] > key'[x]
          PROVE  m = next'[x] \/ key'[m] > key'[next'[x]]
      <4>1. m \in Listed
        BY <2>1, <2>2, <3>6
      <4>2. CASE x = pred[p]
        BY <2>1, <2>3, <3>4, <3>6, <4>1, <4>2
      <4>3. CASE x = a
        <5>1. key[m] > key[pred[p]]
          BY <1>2, <2>1, <2>4, <3>6, <4>1, <4>3
        <5>2. next'[x] = curr[p]
          BY <1>2, <2>1, <2>3, <2>4, <4>3
        <5> QED BY <2>1, <3>3, <3>6, <4>1, <5>1, <5>2
      <4>4. CASE x \in S /\ x # pred[p]
        <5>1. next'[x] = next[x]
          BY <1>1, <1>2, <2>3, <4>4
        <5> QED BY <1>4, <2>1, <3>6, <4>1, <4>4, <5>1
      <4> QED BY <3>6, <4>2, <4>3, <4>4
    <3> HIDE DEF T
    <3> QED BY <3>1, <3>5, <3>6
  <2>6. CASE pred[p] \notin S
    <3>1. \A x \in S : next'[x] = next[x]
      BY <1>1, <1>2, <2>3, <2>6
    <3> QED BY <1>1, <1>2, <1>4, <2>1, <2>2, <3>1
  <2> QED BY <2>5, <2>6
<1>9. CASE Linearize(p) /\ Marks(p)
  <2>1. next' = next /\ key' = key /\ Known' = Known /\ Listed' = Listed
    BY <1>9, LinearizeChanges DEF Marks
  <2> QED BY <1>1, <1>4, <2>1
<1>10. CASE Unlink(p) /\ Unlinks(p)
  <2>1. /\ curr[p] \in Listed \ {MaxNode} /\ pred[p] \in Listed \ {MaxNode} /\ next[pred[p]] = curr[p]
        /\ next' = [next EXCEPT ![pred[p]] = next[curr[p]]] /\ key' = key
        /\ Known' = Known /\ Listed' = Listed \ {curr[p]}
    BY <1>10, UnlinkChanges DEF Unlinks
  <2>2. next'[pred[p]] = next[curr[p]] /\ \A x \in Nodes : x # pred[p] => next'[x] = next[x]
    BY <1>2, <2>1 DEF UpdateTypes
  <2>3. pred[p] \in S => curr[p] \in S \ {MaxNode} /\ next[curr[p]] \in S
    BY <1>1, <2>1
  <2>4. \A x \in S \ {MaxNode} : next'[x] \in S
    <3> SUFFICES ASSUME NEW x \in S \ {MaxNode} PROVE next'[x] \in S
      OBVIOUS
    <3>1. CASE x = pred[p]
      BY <2>2, <2>3, <3>1
    <3>2. CASE x # pred[p]
      BY <1>1, <1>2, <2>2, <3>2
    <3> QED BY <3>1, <3>2
  <2>5. ASSUME NEW x \in S \ {MaxNode}, NEW m \in Listed', Alive(m, t), key'[m] > key'[x]
        PROVE  m = next'[x] \/ key'[m] > key'[next'[x]]
    <3>1. m \in Listed /\ m # curr[p]
      BY <2>1
    <3>2. CASE x = pred[p]
      <4>1. key[m] > key[curr[p]]
        BY <1>4, <2>1, <2>5, <3>1, <3>2
      <4> QED BY <1>4, <2>1, <2>2, <2>3, <2>5, <3>1, <3>2, <4>1
    <3>3. CASE x # pred[p]
      <4>1. next'[x] = next[x]
        BY <1>1, <1>2, <2>2, <3>3
      <4> QED BY <1>4, <2>1, <2>5, <3>1, <4>1
    <3> QED BY <3>2, <3>3
  <2> QED BY <1>1, <2>1, <2>4, <2>5
<1>11. CASE Quiet(p) \/ UpdateKind(p)
  BY <1>6, <1>11, QuietKeeps, UpdateKeeps
<1>12. CASE Linearize(p)
  BY <1>8, <1>9, <1>12, LinearizeChanges, LinearizeLinks, LinearizeMarks
<1> QED BY <1>7, <1>10, <1>11, <1>12, StepKinds, InsertArrives, UnlinkUnlinks

\* The steps that touch the announcements.
LEMMA AnnouncedKept ==
  ASSUME RwInv, NEW p \in Procs, Step(p)
  PROVE  \/ UNCHANGED <<announcements, numAnnouncements>>
         \/ rpc[p] \in {"announce", "count"} /\ \A q \in Procs : q = p => numAnnouncements[q] # 1
         \/ rpc[p] = "withdraw" /\ announcements[p] = del[p] /\ InBag(p, del[p])
<1>1. UpdateTypes /\ Own(p)
  BY NoOwner
<1>2. CASE ProviderUpdate(p) /\ (Announce(p) \/ CountAnnouncement(p))
  <2>1. rpc[p] \in {"announce", "count"}
    BY <1>2 DEF Announce, CountAnnouncement
  <2> QED BY <1>1, <2>1 DEF Own, Shows
<1>3. CASE ProviderUpdate(p) /\ Withdraw(p)
  <2>1. rpc[p] = "withdraw"
    BY <1>3 DEF Withdraw
  <2> QED BY <1>1, <2>1 DEF Own, Shows, InBag
<1>4. CASE ~(ProviderUpdate(p) /\ (Announce(p) \/ CountAnnouncement(p) \/ Withdraw(p)))
  BY <1>4, StepKinds DEF Quiet, BeginInsert, BeginErase, BeginUpdate, UpdateKind, ProviderUpdate, UpdateStep, ReadLocked,
   ReadUnlock, SetTimes, Retire, Linearize, LinWrite, Unlink, Unlinked
<1> QED BY <1>2, <1>3, <1>4

\* A node does not leave the list, an announcement or a bag before it is in the next.
LEMMA PlacesStay ==
  ASSUME RwInv, NEW p \in Procs, Step(p)
  PROVE  /\ \A q \in Procs : \A n : InBag(q, n) => InBag(q, n)'
         /\ \A q \in Procs : \A n : Announced(q, n) => Announced(q, n)' \/ InBag(q, n)'
         /\ \A n \in Listed : n \in Listed' \/ Announced(p, n)'
<1>1. UpdateTypes /\ Fits(p) /\ Own(p)
  BY NoOwner, StepFits DEF Step
<1>2. \A q \in Procs : q # p => /\ bag'[q] = bag[q] /\ announcements'[q] = announcements[q]
                                /\ numAnnouncements'[q] = numAnnouncements[q]
  BY <1>1 DEF Fits, UpdateFrame
<1>3. \A q \in Procs : \A n : InBag(q, n) => InBag(q, n)'
  <2>1. CASE ~Retiring(p)
    BY <2>1, BagsKept DEF InBag
  <2>2. CASE Retiring(p)
    <3>1. \A n : InBag(p, n) => InBag(p, n)'
      BY <2>2, RetireAppends DEF InBag
    <3> QED BY <1>2, <3>1 DEF InBag
  <2> QED BY <2>1, <2>2
<1>4. \A q \in Procs : \A n : Announced(q, n) => Announced(q, n)' \/ InBag(q, n)'
  <2> SUFFICES ASSUME NEW q \in Procs, NEW n, Announced(q, n) PROVE Announced(q, n)' \/ InBag(q, n)'
    OBVIOUS
  <2>1. CASE q # p \/ UNCHANGED <<announcements, numAnnouncements>>
    BY <1>2, <2>1 DEF Announced
  <2>2. CASE q = p /\ rpc[p] = "withdraw" /\ announcements[p] = del[p] /\ InBag(p, del[p])
    BY <1>3, <2>2 DEF Announced
  <2> QED BY <2>1, <2>2, AnnouncedKept DEF Announced
<1>5. \A n \in Listed : n \in Listed' \/ Announced(p, n)'
  <2>1. CASE Quiet(p) \/ UpdateKind(p)
    BY <2>1, QuietKeeps, UpdateKeeps DEF Keeps
  <2>2. CASE BeginInsert(p)
    BY <2>2, InsertArrives DEF Arrives
  <2>3. CASE Linearize(p)
    <3>1. Links(p) \/ Marks(p)
      BY <2>3, LinearizeChanges, LinearizeLinks, LinearizeMarks
    <3> QED BY <3>1 DEF Links, Marks
  <2>4. CASE Unlink(p)
    <3>1. Listed' = Listed \ {curr[p]} /\ del[p] = curr[p] /\ rpc[p] = "unlink"
          /\ UNCHANGED <<announcements, numAnnouncements>>
      BY <2>4, UnlinkUnlinks, UnlinkChanges DEF Unlinks
    <3>2. Announced(p, curr[p])
      BY <1>1, <3>1 DEF Own, Shows, Announced
    <3>3. Announced(p, curr[p])'
      <4> DEFINE c == curr[p]
      <4>1. ASSUME NEW n, n = c PROVE Announced(p, n)'
        BY <3>1, <3>2, <4>1 DEF Announced
      <4>2. c' = c
        BY <2>4 DEF Unlink
      <4> QED BY <3>1, <3>2, <4>2 DEF Announced
    <3>4. \A n : n = curr[p] => Announced(p, n)'
      BY <3>1, <3>2 DEF Announced
    <3> QED BY <3>1, <3>4
  <2> QED BY <2>1, <2>2, <2>3, <2>4, StepKinds
<1> QED BY <1>3, <1>4, <1>5

\* A bag in order stays so.
LEMMA InOrderStays ==
  ASSUME RwInv, NEW p \in Procs, Step(p), NEW b, InOrder(b), NEW u, u' = u, u = b
  PROVE  InOrder(u)'
<1>1. /\ Known \subseteq Known' /\ Known \subseteq Nodes
      /\ \A n \in Nodes : itime[n] # NotSet => itime'[n] = itime[n]
      /\ \A n \in Nodes : dtime[n] # NotSet => dtime'[n] = dtime[n]
  BY KnownGrows, StepFits, TimesStay, ListedKnown DEF Step
<1>2. /\ \A i \in DOMAIN b : b[i] \in Known \ {HeadNode, MaxNode} /\ dtime[b[i]] # NotSet
                             /\ itime[b[i]] # NotSet
      /\ \A i, j \in DOMAIN b : i <= j => dtime[b[i]] <= dtime[b[j]]
  BY DEF InOrder
<1>3. /\ \A i \in DOMAIN b : b[i] \in Known' \ {HeadNode, MaxNode} /\ dtime'[b[i]] # NotSet
                             /\ itime'[b[i]] # NotSet
      /\ \A i, j \in DOMAIN b : i <= j => dtime'[b[i]] <= dtime'[b[j]]
  <2>1. \A i \in DOMAIN b : b[i] \in Known' \ {HeadNode, MaxNode} /\ dtime'[b[i]] = dtime[b[i]]
                            /\ itime'[b[i]] = itime[b[i]]
    BY <1>1, <1>2
  <2> QED BY <1>2, <2>1
<1> QED BY <1>3 DEF InOrder

\* What was alive at the time of a query, and what it has to find.
LEMMA TargetsStay ==
  ASSUME RwInv, NEW p \in Procs, Step(p), NEW q \in Procs, lin'[q] = lin[q], lin[q] <= timestamp
  PROVE  /\ \A n \in Nodes : /\ Ins(n, lin[q])' <=> Ins(n, lin[q])
                             /\ Del(n, lin[q])' <=> Del(n, lin[q])
                             /\ Alive(n, lin[q])' <=> Alive(n, lin[q])
         /\ op'[q] = op[q] => \A n \in Targets(q)' : n \in Targets(q)
<1>1. lin[q] \in Nat
  BY NoOwner DEF QueryTypes
<1>2. \A n \in Nodes : /\ Ins(n, lin[q])' <=> Ins(n, lin[q])
                       /\ Del(n, lin[q])' <=> Del(n, lin[q])
                       /\ Alive(n, lin[q])' <=> Alive(n, lin[q])
  <2> TAKE n \in Nodes
  <2>1. ASSUME NEW s \in Nat, s = lin[q]
        PROVE (Ins(n, s)' <=> Ins(n, s)) /\ (Del(n, s)' <=> Del(n, s))
    BY <2>1, AliveStays
  <2>2. Ins(n, lin[q])' <=> Ins(n, lin[q])
    BY <1>1, <2>1 DEF Ins
  <2>3. Del(n, lin[q])' <=> Del(n, lin[q])
    BY <1>1, <2>1 DEF Del
  <2> QED BY <2>2, <2>3 DEF Alive
<1>3. ASSUME op'[q] = op[q], NEW n \in Targets(q)' PROVE n \in Targets(q)
  <2>1. n \in Nodes /\ Alive(n, lin[q])
    BY <1>2 DEF Targets
  <2>2. n \in Known /\ Known \subseteq alloc
    BY <2>1, AliveKnown, ListedKnown DEF Alive
  <2>3. key'[n] = key[n]
    BY <2>2, KnownGrows, StepFits DEF Step
  <2>4. key'[n] \in InRange(op'[q])
    BY DEF Targets
  <2> QED BY <1>3, <2>1, <2>3, <2>4 DEF Targets
<1> QED BY <1>2, <1>3

\* An announcement is of a node that has been in the list.
LEMMA AnnouncesKnown ==
  ASSUME RwInv, NEW p \in Procs, Step(p), NEW q \in Procs, announcements'[q] # announcements[q]
  PROVE  announcements'[q] \in Known \ {HeadNode, MaxNode}
<1>1. UpdateTypes /\ Fits(p)
  BY NoOwner, StepFits DEF Step
<1>2. q = p
  BY <1>1 DEF Fits, UpdateFrame
<1>3. ProviderUpdate(p) /\ Announce(p)
  BY StepKinds DEF Quiet, BeginInsert, BeginErase, BeginUpdate, UpdateKind, ProviderUpdate, UpdateStep, ReadLocked,
   ReadUnlock, SetTimes, CountAnnouncement, Retire, Withdraw, Linearize, LinWrite, Unlink, Unlinked
<1>4. rpc[p] = "announce" /\ announcements'[p] = del[p]
  BY <1>1, <1>3 DEF Announce, UpdateTypes
<1>5. rpc[p] \in TimedPCs \cup GonePCs /\ rpc[p] \in UpdatePCs
  BY <1>4, UpdateSteps DEF TimedPCs
<1> QED BY <1>2, <1>4, <1>5, InErase, ErasedNode

\* What is ahead of a query stays ahead when another process takes a step.
LEMMA AheadStays ==
  ASSUME RwInv, NEW p \in Procs, Step(p), NEW q \in Procs, q # p, NEW n \in Nodes, Ahead(q, n)
  PROVE  Ahead(q, n)'
<1>1. Fits(p) /\ UpdateTypes /\ QueryTypes /\ curr[q] \in alloc
  BY NoOwner, StepFits DEF Step
<1>2. /\ lpc'[q] = lpc[q] /\ rpc'[q] = rpc[q] /\ curr'[q] = curr[q] /\ key'[curr[q]] = key[curr[q]]
      /\ endTS'[q] = endTS[q] /\ source'[q] = source[q] /\ other'[q] = other[q] /\ limbo'[q] = limbo[q]
  BY <1>1 DEF Fits, ListFrame, UpdateFrame, QueryFrame
<1>3. /\ \A l : Phase(q, l)' <=> Phase(q, l)
      /\ \A r : ToCome(q, r)' <=> ToCome(q, r)
      /\ \A m : InLimbo(q, m)' <=> InLimbo(q, m)
  BY <1>2 DEF Phase, ToCome, InLimbo
<1>4. dtime[n] # NotSet => dtime'[n] = dtime[n]
  BY TimesStay
<1>5. /\ \A r \in Procs : InBag(r, n) => InBag(r, n)'
      /\ \A r \in Procs : Announced(r, n) => Announced(r, n)' \/ InBag(r, n)'
      /\ n \in Listed => n \in Listed' \/ Announced(p, n)'
  BY PlacesStay
<1>6. CASE lpc[q] = "query"
  <2>1. CASE n \in Listed /\ key[n] > key[curr[q]]
    <3>1. key'[n] = key[n]
      BY <1>1, <2>1, ListedKnown DEF Fits, ListFrame
    <3> QED BY <1>2, <1>5, <1>6, <2>1, <3>1 DEF Ahead
  <2>2. CASE \E r \in Procs : r # q /\ (Announced(r, n) \/ InBag(r, n))
    BY <1>2, <1>5, <1>6, <2>2 DEF Ahead
  <2> QED BY <1>6, <2>1, <2>2 DEF Ahead
<1>7. CASE lpc[q] = "collect"
  <2>1. lpc'[q] = "collect" /\ dtime'[n] # NotSet /\ dtime'[n] <= endTS'[q]
    BY <1>2, <1>4, <1>7 DEF Ahead
  <2>2. CASE /\ Phase(q, "announced") \/ Phase(q, "entry")
             /\ \E r \in Procs : r # q /\ InBag(r, n)
    <3>1. PICK r \in Procs : r # q /\ InBag(r, n)
      BY <2>2
    <3> QED BY <1>3, <1>5, <2>1, <2>2, <3>1 DEF Ahead
  <2>3. CASE /\ Phase(q, "announced") \/ Phase(q, "entry")
             /\ \E r \in Procs : r # q /\ ToCome(q, r) /\ Announced(r, n)
    <3>1. PICK r \in Procs : r # q /\ ToCome(q, r) /\ Announced(r, n)
      BY <2>3
    <3> QED BY <1>3, <1>5, <2>1, <2>3, <3>1 DEF Ahead
  <2>4. CASE Phase(q, "bags") /\ (InLimbo(q, n) \/ \E r \in Procs : ToCome(q, r) /\ InBag(r, n))
    BY <1>3, <1>5, <2>1, <2>4 DEF Ahead
  <2>5. CASE Phase(q, "limbo") /\ InLimbo(q, n)
    BY <1>3, <2>1, <2>5 DEF Ahead
  <2> QED BY <1>7, <2>2, <2>3, <2>4, <2>5 DEF Ahead
<1> QED BY <1>6, <1>7 DEF Ahead

\* A step of one process keeps what holds of the query of another.
LEMMA OthersQuery ==
  ASSUME RwInv, NEW p \in Procs, Step(p), NEW q \in Procs, q # p
  PROVE  Query(q)'
<1>1. /\ Fits(p) /\ UpdateTypes /\ QueryTypes /\ Query(q) /\ curr[q] \in Known
      /\ timestamp \in Nat /\ timestamp' \in Nat /\ timestamp <= timestamp'
  BY NoOwner, ClockGrows, StepFits DEF Step
<1>2. /\ lpc'[q] = lpc[q] /\ rpc'[q] = rpc[q] /\ curr'[q] = curr[q] /\ op'[q] = op[q]
      /\ endTS'[q] = endTS[q] /\ source'[q] = source[q] /\ other'[q] = other[q] /\ limbo'[q] = limbo[q]
      /\ lin'[q] = lin[q] /\ node'[q] = node[q] /\ wasMarked'[q] = wasMarked[q] /\ got'[q] = got[q]
  BY <1>1 DEF Fits, ListFrame, UpdateFrame, QueryFrame
<1>3. Known \subseteq Known' /\ Known \subseteq Nodes
  BY KnownGrows, ListedKnown, StepFits DEF Step
<1>4. rpc[q] \in LookPCs => lpc[q] \in {"query", "collect"} /\ rpc[q] # "advance"
  <2>1. LookPCs \subseteq TraversePCs /\ "advance" \notin LookPCs
    BY QueryPlaces DEF LookPCs
  <2> QED BY <2>1, InQuery
<1>5. Looks(q)'
  <2>1. CASE rpc[q] \in LookPCs
    <3>1. node[q] \in Known \ {HeadNode, MaxNode} /\ node[q] \in Nodes /\ lin[q] <= timestamp /\ lin[q] \in Nat
      BY <1>1, <1>3, <1>4, <2>1 DEF Query, Looks, QueryTypes
    <3>2. itime[node[q]] # NotSet => itime'[node[q]] = itime[node[q]]
      BY <3>1, TimesStay
    <3>3. Del(node[q], lin[q])' <=> Del(node[q], lin[q])
      <4> DEFINE m == node[q]
      <4>1. ASSUME NEW k \in Nodes, k = node[q] PROVE Del(k, lin[q])' <=> Del(k, lin[q])
        BY <1>2, <3>1, TargetsStay
      <4> QED BY <1>2, <3>1, <4>1 DEF Del
    <3> QED BY <1>1, <1>2, <1>3, <3>1, <3>2, <3>3 DEF Query, Looks
  <2>2. CASE rpc[q] \notin LookPCs
    BY <1>2, <2>2 DEF Looks, LookPCs
  <2> QED BY <2>1, <2>2
<1>6. \A k \in DOMAIN limbo'[q] : InOrder(limbo[q][k])'
  <2> TAKE k \in DOMAIN limbo'[q]
  <2>1. InOrder(limbo[q][k]) /\ (limbo[q][k])' = limbo[q][k]
    BY <1>1, <1>2 DEF Query
  <2> QED BY <2>1, InOrderStays
<1>7. other'[q] # q /\ (rpc'[q] = "entry" => other'[q] # 0 /\ announcements'[other'[q]] \in Known' \ {HeadNode, MaxNode})
  <2>1. rpc[q] = "entry" => other[q] \in Procs
    BY <1>1 DEF Query, QueryTypes
  <2> QED BY <1>1, <1>2, <1>3, <2>1, AnnouncesKnown DEF Query
<1>8. CASE lpc[q] \in {"query", "collect"} /\ rpc[q] # "advance"
  <2>1. /\ 1 <= lin[q] /\ lin[q] <= timestamp /\ lin[q] \in Nat
        /\ \A n \in got[q] : n \in Known \ {HeadNode, MaxNode} /\ Alive(n, lin[q])
        /\ \A n \in Targets(q) : n \in got[q] \/ (rpc[q] \in LookPCs /\ n = node[q]) \/ Ahead(q, n)
    BY <1>1, <1>8 DEF Query, QueryTypes
  <2>2. \A n \in Nodes : Alive(n, lin[q])' <=> Alive(n, lin[q])
    BY <1>2, <2>1, TargetsStay
  <2>3. \A n \in Targets(q)' : n \in Targets(q)
    BY <1>2, <2>1, TargetsStay
  <2>4. \A n \in got'[q] : n \in Known' \ {HeadNode, MaxNode} /\ Alive(n, lin[q])'
    BY <1>2, <1>3, <2>1, <2>2
  <2>5. \A n \in Targets(q)' : n \in got'[q] \/ (rpc'[q] \in LookPCs /\ n = node'[q]) \/ Ahead(q, n)'
    <3> TAKE n \in Targets(q)'
    <3>1. n \in Targets(q) /\ n \in Nodes
      BY <2>3 DEF Targets
    <3> QED BY <1>2, <2>1, <3>1, AheadStays
  <2>6. lpc[q] = "query" => OnTrack(curr[q], lin[q])'
    <3>1. lpc[q] = "query" => OnTrack(curr[q], lin[q])
      BY <1>1, <1>8 DEF Query
    <3> QED BY <1>1, <1>2, <2>1, <3>1, TrackStays
  <2>7. lpc[q] = "query" /\ rpc[q] \in WritePCs => curr[q] = HeadNode
    BY <1>1 DEF Query
  <2> QED BY <1>1, <1>2, <1>5, <1>6, <1>7, <1>8, <2>1, <2>4, <2>5, <2>6, <2>7 DEF Query
<1>9. CASE ~(lpc[q] \in {"query", "collect"} /\ rpc[q] # "advance")
  <2>1. got[q] = {} /\ (lpc[q] = "query" /\ rpc[q] \in WritePCs => curr[q] = HeadNode)
    BY <1>1, <1>9 DEF Query
  <2> QED BY <1>2, <1>5, <1>6, <1>7, <1>9, <2>1 DEF Query
<1> QED BY <1>8, <1>9

-----------------------------------------------------------------------------
(***************************************************************************)
(* The queries, and their own steps.                                       *)
(***************************************************************************)
LEMMA QuietSame ==
  ASSUME RwInv, NEW p \in Procs, Quiet(p)
  PROVE  /\ Known' = Known /\ Listed' = Listed
         /\ UNCHANGED <<key, alloc, next, marked, itime, dtime, announcements, numAnnouncements, bag>>
         /\ \A n, t : (Ins(n, t)' <=> Ins(n, t)) /\ (Del(n, t)' <=> Del(n, t)) /\ (Alive(n, t)' <=> Alive(n, t))
         /\ \A n, t : OnTrack(n, t)' <=> OnTrack(n, t)
         /\ \A q, n : (InBag(q, n)' <=> InBag(q, n)) /\ (Announced(q, n)' <=> Announced(q, n))
         /\ \A b : InOrder(b)' <=> InOrder(b)
<1>1. /\ Known' = Known /\ Listed' = Listed
      /\ UNCHANGED <<key, alloc, next, marked, itime, dtime, announcements, numAnnouncements, bag>>
      /\ \A n, t : (Ins(n, t)' <=> Ins(n, t)) /\ (Del(n, t)' <=> Del(n, t)) /\ (Alive(n, t)' <=> Alive(n, t))
  BY QuietKeeps DEF Keeps, Quiet
<1>2. \A n, t : NoGap(n, t)' <=> NoGap(n, t)
  BY <1>1 DEF NoGap
<1>3. \A n, t : OnTrack(n, t)' <=> OnTrack(n, t)
  BY <1>1, <1>2 DEF OnTrack
<1>4. \A q, n : (InBag(q, n)' <=> InBag(q, n)) /\ (Announced(q, n)' <=> Announced(q, n))
  BY <1>1 DEF InBag, Announced
<1>5. \A b : InOrder(b)' <=> InOrder(b)
  BY <1>1 DEF InOrder
<1> QED BY <1>1, <1>3, <1>4, <1>5

\* A process that is in no query after its step.
LEMMA OutsideQuery ==
  ASSUME RwInv, NEW p \in Procs, Step(p), lpc'[p] \notin {"query", "collect"}, got'[p] = {},
         limbo'[p] = limbo[p], other'[p] = other[p]
  PROVE  Query(p)'
<1>1. Query(p) /\ Own(p)'
  BY NoOwner, StepOwn
<1>2. rpc'[p] \in UpdatePCs \cup {"idle"}
  BY <1>1, UpdateSteps DEF Own, Calls
<1>3. rpc'[p] \notin LookPCs /\ rpc'[p] # "entry"
  BY <1>2, UpdateSteps DEF LookPCs, UpdatePCs, InsertPCs, BeforePCs, DonePCs, TimedPCs, GonePCs
<1>4. \A k \in DOMAIN limbo'[p] : InOrder(limbo[p][k])'
  <2> TAKE k \in DOMAIN limbo'[p]
  <2>1. InOrder(limbo[p][k]) /\ (limbo[p][k])' = limbo[p][k]
    BY <1>1 DEF Query
  <2> QED BY <2>1, InOrderStays
<1> QED BY <1>1, <1>3, <1>4 DEF Query, Looks, LookPCs

\* A process that stays in its query.
LEMMA InsideQuery ==
  ASSUME RwInv, NEW p \in Procs, Step(p), Quiet(p),
         lpc[p] \in {"query", "collect"}, rpc[p] # "advance", op'[p] = op[p], lin'[p] = lin[p],
         lpc'[p] \in {"query", "collect"}, rpc'[p] # "advance", other'[p] # p,
         \A k \in DOMAIN limbo'[p] : InOrder(limbo'[p][k]),
         rpc'[p] = "entry" => other'[p] # 0 /\ announcements[other'[p]] \in Known \ {HeadNode, MaxNode},
         rpc'[p] \in LookPCs => node'[p] \in Known \ {HeadNode, MaxNode},
         rpc'[p] \in {"mark", "dtime"} => itime[node'[p]] # NotSet /\ itime[node'[p]] < lin[p],
         rpc'[p] = "dtime" /\ ~wasMarked'[p] => ~Del(node'[p], lin[p]),
         \A n \in got'[p] : n \in got[p] \/ (n \in Known \ {HeadNode, MaxNode} /\ Alive(n, lin[p])),
         \A n \in Targets(p) : n \in got[p] \/ (rpc[p] \in LookPCs /\ n = node[p]) \/ Ahead(p, n)
           => n \in got'[p] \/ (rpc'[p] \in LookPCs /\ n = node'[p]) \/ Ahead(p, n)',
         lpc'[p] = "query" => OnTrack(curr'[p], lin[p]),
         lpc'[p] = "query" /\ rpc'[p] \in WritePCs => curr'[p] = HeadNode
  PROVE  Query(p)'
<1>1. Query(p) /\ QueryTypes /\ timestamp \in Nat /\ timestamp' \in Nat /\ timestamp <= timestamp'
  BY NoOwner, ClockGrows
<1>2. 1 <= lin[p] /\ lin[p] <= timestamp /\ lin[p] \in Nat
  BY <1>1 DEF Query, QueryTypes
<1>3. 1 <= lin'[p] /\ lin'[p] <= timestamp'
  BY <1>1, <1>2
<1>4. /\ Known' = Known /\ UNCHANGED <<itime, announcements>>
      /\ \A n, t : (Del(n, t)' <=> Del(n, t)) /\ (Alive(n, t)' <=> Alive(n, t))
      /\ \A n, t : OnTrack(n, t)' <=> OnTrack(n, t)
      /\ \A b : InOrder(b)' <=> InOrder(b)
  BY QuietSame
<1>5. Looks(p)'
  BY <1>4 DEF Looks
<1>6. \A k \in DOMAIN limbo'[p] : InOrder(limbo[p][k])'
  BY <1>4
<1>7. \A n \in got'[p] : n \in Known' \ {HeadNode, MaxNode} /\ Alive(n, lin[p])'
  BY <1>1, <1>4 DEF Query
<1>8. \A n \in Targets(p)' : n \in got'[p] \/ (rpc'[p] \in LookPCs /\ n = node'[p]) \/ Ahead(p, n)'
  <2>1. \A n \in Targets(p)' : n \in Targets(p)
    BY <1>2, TargetsStay
  <2>2. \A n \in Targets(p) : n \in got[p] \/ (rpc[p] \in LookPCs /\ n = node[p]) \/ Ahead(p, n)
    BY <1>1 DEF Query
  <2> QED BY <2>1, <2>2
<1>9. lpc'[p] = "query" => OnTrack(curr[p], lin[p])'
  BY <1>4
<1> QED BY <1>3, <1>4, <1>5, <1>6, <1>7, <1>8, <1>9 DEF Query

-----------------------------------------------------------------------------
\* A node that is alive now is in the list, and all of it is on track.
LEMMA AliveListed ==
  ASSUME RwInv, NEW n \in Nodes, Alive(n, timestamp + 1)
  PROVE  n \in Listed \ {HeadNode, MaxNode} /\ key[n] > key[HeadNode]
<1>1. /\ UpdateTypes /\ Structure /\ Times /\ ListTypes /\ n \in Known \ {HeadNode, MaxNode} /\ ~Del(n, timestamp + 1)
      /\ Known \subseteq alloc
  BY AliveKnown, ListedKnown DEF RwInv, Types, Alive
<1>2. timestamp \in Nat /\ dtime[n] \in Nat /\ dtime[n] <= timestamp
  BY <1>1 DEF UpdateTypes, Times
<1>3. dtime[n] = NotSet
  BY <1>1, <1>2 DEF Del
<1>4. marked[n] => BeingErased(n)
  BY <1>1, <1>3, UpdateSteps DEF Times, BeingErased
<1>5. key[n] \in SetKeys /\ key[HeadNode] = InitKey[HeadNode]
  BY <1>1 DEF Structure, ListTypes
<1>6. InitKey[HeadNode] \in Int /\ SetKeys \subseteq Int /\ \A k \in SetKeys : InitKey[HeadNode] < k
  BY Basics, RwlockKeysAssumption
<1>7. key[n] > key[HeadNode]
  BY <1>5, <1>6
<1> QED BY <1>1, <1>4, <1>7 DEF Listed

\* A query that starts at the head misses nothing of the list.
LEMMA HeadOnTrack ==
  ASSUME RwInv, NEW t
  PROVE  OnTrack(HeadNode, t)
<1>1. Structure /\ HeadNode \in Listed /\ Listed \subseteq Known /\ Listed \subseteq Nodes /\ \A n \in Nodes : key[n] \in Int
  BY HeadKnown, ListedKnown DEF RwInv, Structure, Listed
<1>2. ASSUME NEW x \in Listed \ {MaxNode} PROVE next[x] \in Listed /\ NoGap(x, t)
  <2>1. next[x] \in Listed /\ \A m \in Listed : key[m] > key[x] => key[m] >= key[next[x]]
    BY <1>1 DEF Structure, Leads
  <2>2. \A m \in Listed : key[m] = key[next[x]] => m = next[x]
    BY <1>1, <2>1 DEF Structure
  <2>3. \A m \in Listed : key[m] >= key[next[x]] => m = next[x] \/ key[m] > key[next[x]]
    BY <1>1, <2>1, <2>2
  <2> QED BY <2>1, <2>3 DEF NoGap
<1> QED BY <1>1, <1>2 DEF OnTrack

\* The start of a query.
LEMMA BeginQueryQuery ==
  ASSUME RwInv, NEW p \in Procs, BeginQuery(p)
  PROVE  Query(p)'
<1>1. /\ UpdateTypes /\ ListTypes /\ Query(p) /\ Own(p) /\ Step(p)
  BY NoOwner DEF Step, ListStep
<1>2. /\ lpc[p] = "start" /\ lpc'[p] = "query" /\ rpc'[p] = "advance" /\ curr'[p] = curr[p]
      /\ limbo'[p] = limbo[p] /\ other'[p] = other[p] /\ got'[p] = got[p]
  BY <1>1 DEF BeginQuery, StartTraversal, Goto, At, UpdateTypes, ListTypes
<1>3. curr[p] = HeadNode /\ got[p] = {}
  BY <1>1, <1>2 DEF Own, Stands, Query
<1>4. \A k \in DOMAIN limbo'[p] : InOrder(limbo[p][k])'
  <2> TAKE k \in DOMAIN limbo'[p]
  <2>1. InOrder(limbo[p][k]) /\ (limbo[p][k])' = limbo[p][k]
    BY <1>1, <1>2 DEF Query
  <2> QED BY <1>1, <2>1, InOrderStays
<1> QED BY <1>1, <1>2, <1>3, <1>4 DEF Query, Looks, LookPCs

\* "linearization point of range query": all that is alive is ahead.
LEMMA AdvanceQuery ==
  ASSUME RwInv, NEW p \in Procs, ProviderQuery(p), AdvanceClock(p)
  PROVE  Query(p)'
<1>1. /\ UpdateTypes /\ ListTypes /\ QueryTypes /\ Query(p) /\ Own(p) /\ Step(p)
  BY NoOwner DEF Step, ListStep
<1>2. /\ rpc[p] = "advance" /\ rpc'[p] = "writeUnlock" /\ lin'[p] = timestamp + 1 /\ timestamp' = timestamp + 1
      /\ limbo'[p] = limbo[p] /\ other'[p] = other[p] /\ got'[p] = got[p] /\ curr' = curr /\ lpc' = lpc /\ op' = op
  BY <1>1 DEF ProviderQuery, AdvanceClock, At, UpdateTypes, QueryTypes
<1>3. Quiet(p)
  <2>1. UNCHANGED <<nodeVars, linkVars, timeVars, announceVars, updateVars>>
    BY DEF ProviderQuery, AdvanceClock
  <2>2. rpc[p] \notin UpdatePCs /\ "writeUnlock" \in RPCs \ UpdatePCs
    BY <1>2, QueryPlaces, InQuery DEF TraversePCs, WritePCs
  <2> QED BY <2>1, <2>2 DEF Quiet, AdvanceClock, At
<1>4. lpc[p] = "query" /\ rpc[p] \in WritePCs /\ rpc'[p] \in WritePCs
  BY <1>2, InQuery DEF WritePCs, TraversePCs
<1>5. curr[p] = HeadNode /\ got[p] = {}
  BY <1>1, <1>2, <1>4 DEF Query
<1>6. /\ Known' = Known /\ Listed' = Listed /\ key' = key
      /\ \A n, t : Alive(n, t)' <=> Alive(n, t)
      /\ \A n, t : OnTrack(n, t)' <=> OnTrack(n, t)
      /\ \A b : InOrder(b)' <=> InOrder(b)
  BY <1>3, QuietSame
<1>7. \A k \in DOMAIN limbo'[p] : InOrder(limbo[p][k])'
  BY <1>1, <1>2, <1>6 DEF Query
<1>8. ASSUME NEW n \in Targets(p)' PROVE Ahead(p, n)'
  <2>1. n \in Nodes /\ Alive(n, timestamp + 1)
    BY <1>2, <1>6 DEF Targets
  <2>2. n \in Listed /\ key[n] > key[HeadNode]
    BY <2>1, AliveListed
  <2> QED BY <1>2, <1>4, <1>5, <1>6, <2>2 DEF Ahead
<1>9. OnTrack(curr[p], lin[p])'
  BY <1>2, <1>5, <1>6, HeadOnTrack
<1>10. rpc'[p] \notin LookPCs /\ rpc'[p] # "entry" /\ rpc'[p] # "advance"
  BY <1>2 DEF LookPCs
<1>11. 1 <= lin'[p] /\ lin'[p] <= timestamp'
  BY <1>1, <1>2 DEF UpdateTypes
<1> QED BY <1>1, <1>2, <1>4, <1>5, <1>7, <1>8, <1>9, <1>10, <1>11 DEF Query, Looks, LookPCs

\* The steps of a process that is in no query, and the end of one.
LEMMA PlainQuery ==
  ASSUME RwInv, NEW p \in Procs, Step(p), UNCHANGED queryVars,
         lpc[p] \notin {"query", "collect"}, lpc'[p] \notin {"query", "collect"}
  PROVE  Query(p)'
<1>1. got[p] = {}
  BY NoOwner DEF Query
<1> QED BY <1>1, OutsideQuery

\* Steps that no query takes.
LEMMA PlainSteps ==
  ASSUME RwInv, NEW p \in Procs,
         \/ ListCall(p) \/ Search(p) \/ EndContains(p) \/ ListLock(p) \/ ListValidate(p)
         \/ BeginInsert(p) \/ BeginErase(p) \/ Linearize(p) \/ Unlink(p)
         \/ ProviderUpdate(p) \/ Updated(p)
  PROVE  Query(p)'
<1>1. Step(p) /\ ListTypes /\ UpdateTypes
  BY NoOwner DEF Step, ListStep
<1>2. CASE ListCall(p)
  <2>1. lpc[p] = "idle" /\ \E l \in {"start", "search"} : lpc' = [lpc EXCEPT ![p] = l]
    BY <1>2 DEF ListCall, Call, Goto
  <2>2. UNCHANGED queryVars
    BY <1>2 DEF ListCall
  <2> QED BY <1>1, <2>1, <2>2, PlainQuery DEF ListTypes
<1>3. CASE Search(p)
  <2>1. UNCHANGED queryVars /\ lpc[p] = "search"
    BY <1>3 DEF Search
  <2>2. UNCHANGED lpc \/ \E l \in {"idle", "mark", "lockPred"} : lpc' = [lpc EXCEPT ![p] = l]
    BY <1>3 DEF Search, Visit, ReturnKeys, Return, Goto
  <2> QED BY <1>1, <2>1, <2>2, PlainQuery DEF ListTypes
<1>4. CASE EndContains(p) \/ ListLock(p) \/ ListValidate(p) \/ Updated(p)
  <2>1. UNCHANGED queryVars /\ lpc[p] \notin {"query", "collect"}
    <3>1. CASE EndContains(p) \/ Updated(p)
      BY <3>1 DEF EndContains, Updated
    <3>2. CASE ListLock(p)
      BY <3>2 DEF ListLock, LockStep, LockPred, LockCurr, UnlockCurr, UnlockPred
    <3>3. CASE ListValidate(p)
      BY <3>3 DEF ListValidate, Validate
    <3> QED BY <1>4, <3>1, <3>2, <3>3
  <2>2. \E l \in LPCs \ {"query", "collect"} : lpc' = [lpc EXCEPT ![p] = l]
    <3>1. CASE EndContains(p)
      BY <3>1 DEF EndContains, ReturnKeys, Return, Goto, LPCs
    <3>2. CASE Updated(p)
      BY <3>2 DEF Updated, Decide, Goto, LPCs, FoundLPCs, HoldLPCs, ChangeLPCs
    <3>3. CASE ListLock(p)
      BY <3>3 DEF ListLock, LockStep, LockPred, LockCurr, UnlockCurr, UnlockPred, ReturnKeys, Return, Goto,
         LPCs, FoundLPCs, HoldLPCs, ChangeLPCs
    <3>4. CASE ListValidate(p)
      BY <3>4 DEF ListValidate, Validate, Decide, Goto, LPCs, FoundLPCs, HoldLPCs, ChangeLPCs
    <3> QED BY <1>4, <3>1, <3>2, <3>3, <3>4
  <2> QED BY <1>1, <2>1, <2>2, PlainQuery DEF ListTypes
<1>5. CASE BeginInsert(p) \/ BeginErase(p)
  <2>1. lpc[p] = "change" /\ lpc' = [lpc EXCEPT ![p] = "update"]
    BY <1>5 DEF BeginInsert, BeginErase, Goto
  <2>2. UNCHANGED queryVars
    BY <1>5 DEF BeginInsert, BeginErase, BeginUpdate
  <2> QED BY <1>1, <2>1, <2>2, PlainQuery DEF ListTypes
<1>6. CASE Linearize(p) \/ Unlink(p) \/ ProviderUpdate(p)
  <2>1. rpc[p] \in {"readLock", "write", "readUnlock", "times", "announce", "count", "unlink", "retire", "withdraw"}
    BY <1>6 DEF Linearize, LinWrite, Unlink, Unlinked, ProviderUpdate, UpdateStep, ReadLocked,
       ReadUnlock, SetTimes, Announce, CountAnnouncement, Retire, Withdraw
  <2>2. rpc[p] \in UpdatePCs
    BY <2>1 DEF UpdatePCs, InsertPCs, BeforePCs, DonePCs, TimedPCs, GonePCs
  <2>3. UNCHANGED queryVars /\ UNCHANGED lpc
    BY <1>6 DEF Linearize, LinWrite, Unlink, Unlinked, ProviderUpdate, UpdateStep, ReadLocked,
       ReadUnlock, SetTimes, Announce, CountAnnouncement, Retire, Withdraw
  <2> QED BY <1>1, <2>2, <2>3, InUpdate, PlainQuery
<1> QED BY <1>2, <1>3, <1>4, <1>5, <1>6

\* A query that returns.
LEMMA FinishQuery ==
  ASSUME RwInv, NEW p \in Procs, Finish(p)
  PROVE  Query(p)'
<1>1. Step(p) /\ ListTypes /\ QueryTypes
  BY NoOwner DEF Step, ListStep
<1>2. lpc' = [lpc EXCEPT ![p] = "idle"] /\ got' = [got EXCEPT ![p] = {}] /\ UNCHANGED <<limbo, other>>
  BY DEF Finish, EndQuery, ReturnKeys, Return, Goto
<1> QED BY <1>1, <1>2, OutsideQuery DEF ListTypes, QueryTypes

-----------------------------------------------------------------------------
\* The steps of a query are quiet.
LEMMA InsideQuiet ==
  ASSUME RwInv, NEW p \in Procs, Step(p), rpc[p] \in TraversePCs \cup CollectPCs
  PROVE  Quiet(p)
<1>1. rpc[p] \notin UpdatePCs /\ rpc[p] # "idle"
  BY InQuery DEF TraversePCs, CollectPCs, WritePCs, LookPCs
<1>2. ASSUME BeginInsert(p) \/ UpdateKind(p) \/ Linearize(p) \/ Unlink(p) PROVE FALSE
  <2>1. rpc[p] \in {"idle", "readLock", "write", "readUnlock", "times", "announce", "count", "unlink", "retire", "withdraw"}
    BY <1>2 DEF BeginInsert, BeginErase, BeginUpdate, UpdateKind, Linearize, LinWrite, Unlink, Unlinked, ProviderUpdate,
       UpdateStep, ReadLocked, ReadUnlock, SetTimes, Announce, CountAnnouncement, Retire, Withdraw
  <2> QED BY <1>1, <2>1 DEF UpdatePCs, InsertPCs, BeforePCs, DonePCs, TimedPCs, GonePCs
<1> QED BY <1>2, StepKinds

\* What is ahead of a query while it is at a node.
LEMMA AheadLooking ==
  ASSUME RwInv, NEW p \in Procs, Quiet(p), lpc'[p] = lpc[p], curr'[p] = curr[p], endTS'[p] = endTS[p],
         other'[p] = other[p], limbo'[p] = limbo[p],
         \/ lpc[p] = "query"
         \/ rpc[p] \in LookPCs /\ (rpc'[p] = source[p] \/ (rpc'[p] \in LookPCs /\ source'[p] = source[p])),
         NEW n, Ahead(p, n)
  PROVE  Ahead(p, n)'
<1>1. /\ Listed' = Listed /\ UNCHANGED <<key, dtime>>
      /\ \A q, m : (InBag(q, m)' <=> InBag(q, m)) /\ (Announced(q, m)' <=> Announced(q, m))
  BY QuietSame
<1>2. CASE lpc[p] = "query"
  BY <1>1, <1>2 DEF Ahead
<1>3. CASE lpc[p] # "query" /\ rpc[p] \in LookPCs
  <2>1. \A l \in {"announced", "entry", "bags", "limbo"} : Phase(p, l) => Phase(p, l)'
    BY <1>3 DEF Phase, LookPCs
  <2>2. /\ \A q : ToCome(p, q)' <=> ToCome(p, q)
        /\ \A m : InLimbo(p, m)' <=> InLimbo(p, m)
    BY DEF ToCome, InLimbo
  <2>3. lpc[p] = "collect" /\ dtime[n] # NotSet /\ dtime[n] <= endTS[p]
    BY <1>3 DEF Ahead
  <2>4. CASE /\ Phase(p, "announced") \/ Phase(p, "entry")
             /\ \E q \in Procs : q # p /\ (InBag(q, n) \/ (ToCome(p, q) /\ Announced(q, n)))
    BY <1>1, <2>1, <2>2, <2>3, <2>4 DEF Ahead
  <2>5. CASE Phase(p, "bags") /\ (InLimbo(p, n) \/ \E q \in Procs : ToCome(p, q) /\ InBag(q, n))
    BY <1>1, <2>1, <2>2, <2>3, <2>5 DEF Ahead
  <2>6. CASE Phase(p, "limbo") /\ InLimbo(p, n)
    BY <1>1, <2>1, <2>2, <2>3, <2>6 DEF Ahead
  <2> QED BY <1>3, <2>4, <2>5, <2>6 DEF Ahead
<1> QED BY <1>2, <1>3

\* A query gives up the lock.
LEMMA UnlockQuery ==
  ASSUME RwInv, NEW p \in Procs, ProviderQuery(p), WriteUnlock(p)
  PROVE  Query(p)'
<1>1. Step(p) /\ UpdateTypes /\ Query(p)
  BY NoOwner DEF Step, ListStep
<1>2. /\ rpc[p] = "writeUnlock" /\ rpc'[p] = "traverse" /\ UNCHANGED <<queryVars, lpc, curr, op>>
      /\ rpc[p] \in WritePCs
  BY <1>1 DEF ProviderQuery, WriteUnlock, At, UpdateTypes, WritePCs
<1>3. rpc[p] \in TraversePCs \cup CollectPCs /\ rpc[p] \notin LookPCs /\ rpc'[p] \notin LookPCs \cup WritePCs
  BY <1>2 DEF TraversePCs, LookPCs, WritePCs
<1>4. lpc[p] = "query" /\ Quiet(p)
  BY <1>1, <1>2, <1>3, InQuery, InsideQuiet
<1>5. /\ other'[p] # p /\ \A k \in DOMAIN limbo'[p] : InOrder(limbo'[p][k])
      /\ OnTrack(curr'[p], lin[p])
  BY <1>1, <1>2, <1>4 DEF Query
<1>6. \A n \in Targets(p) : Ahead(p, n) => Ahead(p, n)'
  BY <1>2, <1>4, AheadLooking
<1> QED BY <1>1, <1>2, <1>3, <1>4, <1>5, <1>6, InsideQuery DEF LookPCs

\* A node whose time is set has no update under way that would set it.
LEMMA TimesTell ==
  ASSUME RwInv, NEW n \in Nodes, NEW t
  PROVE  /\ itime[n] # NotSet => (Ins(n, t) <=> itime[n] < t)
         /\ dtime[n] # NotSet => (Del(n, t) <=> dtime[n] < t)
         /\ ~marked[n] => ~Del(n, t)
<1>1. NoNode \notin Nodes /\ \A m \in Nodes : dtime[m] # NotSet => marked[m]
  BY Basics DEF RwInv, Times
<1>2. ASSUME NEW q \in Procs, rpc[q] \in DonePCs
      PROVE  /\ ins[q] = n => itime[n] = NotSet
             /\ del[q] = n => dtime[n] = NotSet /\ marked[n]
  <2>1. rpc[q] \in UpdatePCs /\ rpc[q] \in InsertPCs /\ rpc[q] \notin BeforePCs
    BY <1>2, UpdateSteps
  <2> QED BY <1>1, <2>1, InUpdate DEF Inserts, Erases
<1> QED BY <1>1, <1>2 DEF Ins, Del

\* A node without a mark, read after its insertion time, was not deleted before the query.
LEMMA MarkQuery ==
  ASSUME RwInv, NEW p \in Procs, LookAtMark(p)
  PROVE  Query(p)'
<1>1. Step(p) /\ UpdateTypes /\ QueryTypes /\ Query(p)
  BY NoOwner DEF Step, ListStep
<1>2. /\ rpc[p] = "mark" /\ rpc'[p] = "dtime" /\ wasMarked'[p] = marked[node[p]]
      /\ UNCHANGED <<lin, endTS, node, source, other, limbo, got, lpc, curr, op>>
  BY <1>1 DEF LookAtMark, ReadMark, At, UpdateTypes, QueryTypes
<1>3. rpc[p] \in LookPCs /\ rpc[p] \in TraversePCs \cup CollectPCs /\ rpc'[p] \in LookPCs
  BY <1>2 DEF TraversePCs, LookPCs
<1>4. lpc[p] \in {"query", "collect"} /\ Quiet(p) /\ node[p] \in Known \ {HeadNode, MaxNode} /\ node[p] \in Nodes
  BY <1>1, <1>3, InQuery, InsideQuiet, ListedKnown
<1>5. ~wasMarked'[p] => ~Del(node[p], lin[p])
  BY <1>2, <1>4, TimesTell
<1>6. /\ other'[p] # p /\ \A k \in DOMAIN limbo'[p] : InOrder(limbo'[p][k])
      /\ itime[node[p]] # NotSet /\ itime[node[p]] < lin[p]
      /\ lpc'[p] = "query" => OnTrack(curr'[p], lin[p])
  BY <1>1, <1>2, <1>4 DEF Query, Looks
<1>7. \A n \in Targets(p) : Ahead(p, n) => Ahead(p, n)'
  BY <1>2, <1>3, <1>4, AheadLooking
<1> QED BY <1>1, <1>2, <1>3, <1>4, <1>5, <1>6, <1>7, InsideQuery DEF WritePCs

\* A node is left: it was alive and is kept, or was not.
LEMMA LeavesQuery ==
  ASSUME RwInv, NEW p \in Procs, Step(p), NEW keep \in BOOLEAN, Leave(p, keep), rpc[p] \in LookPCs,
         UNCHANGED <<lin, endTS, other, limbo, lpc, curr, op>>,
         keep <=> Alive(node[p], lin[p])
  PROVE  Query(p)'
<1>1. UpdateTypes /\ QueryTypes /\ Query(p)
  BY NoOwner
<1>2. /\ got'[p] = IF keep THEN got[p] \cup {node[p]} ELSE got[p]
      /\ rpc'[p] = source[p]
  BY <1>1 DEF Leave, At, UpdateTypes, QueryTypes
<1>3. rpc[p] \in TraversePCs \cup CollectPCs /\ rpc[p] # "advance"
  BY DEF TraversePCs, LookPCs
<1>4. /\ lpc[p] \in {"query", "collect"} /\ Quiet(p) /\ node[p] \in Known \ {HeadNode, MaxNode} /\ node[p] \in Nodes
      /\ source[p] \in Sources
  BY <1>3, InQuery, InsideQuiet, ListedKnown
<1>5. rpc'[p] \notin LookPCs /\ rpc'[p] \notin WritePCs /\ rpc'[p] # "entry" /\ rpc'[p] # "advance"
  BY <1>2, <1>4 DEF Sources, LookPCs, WritePCs
<1>6. /\ other'[p] # p /\ \A k \in DOMAIN limbo'[p] : InOrder(limbo'[p][k])
      /\ lpc'[p] = "query" => OnTrack(curr'[p], lin[p])
  BY <1>1, <1>3, <1>4 DEF Query
<1>7. \A n \in Targets(p) : Ahead(p, n) => Ahead(p, n)'
  BY <1>2, <1>4, AheadLooking
<1>8. \A n \in Targets(p) : n = node[p] => n \in got'[p]
  BY <1>2 DEF Targets
<1> QED BY <1>2, <1>3, <1>4, <1>5, <1>6, <1>7, <1>8, InsideQuery DEF LookPCs

\* A query waits for the insertion time of a node.
LEMMA AwaitQuery ==
  ASSUME RwInv, NEW p \in Procs, ProviderQuery(p), AwaitITime(p)
  PROVE  Query(p)'
<1>1. Step(p) /\ UpdateTypes /\ QueryTypes /\ Query(p)
  BY NoOwner DEF Step, ListStep
<1>2. /\ rpc[p] = "itime" /\ itime[node[p]] # NotSet
      /\ UNCHANGED <<lin, endTS, other, limbo, lpc, curr, op>>
  BY DEF ProviderQuery, AwaitITime
<1>3. rpc[p] \in LookPCs /\ rpc[p] \in TraversePCs \cup CollectPCs
  BY <1>2 DEF TraversePCs, LookPCs
<1>4. lpc[p] \in {"query", "collect"} /\ Quiet(p) /\ node[p] \in Known \ {HeadNode, MaxNode} /\ node[p] \in Nodes
  BY <1>1, <1>3, InQuery, InsideQuiet, ListedKnown
<1>5. itime[node[p]] \in Nat /\ lin[p] \in Nat
  BY <1>1, <1>4 DEF UpdateTypes, QueryTypes
<1>6. CASE itime[node[p]] >= lin[p]
  <2>1. Leave(p, FALSE)
    BY <1>6 DEF AwaitITime
  <2>2. ~Alive(node[p], lin[p])
    BY <1>2, <1>4, <1>5, <1>6, TimesTell DEF Alive
  <2> QED BY <1>1, <1>2, <1>3, <2>1, <2>2, LeavesQuery
<1>7. CASE ~(itime[node[p]] >= lin[p])
  <2>1. rpc'[p] = "mark" /\ UNCHANGED <<visitVars, got>>
    BY <1>1, <1>7 DEF AwaitITime, At, UpdateTypes
  <2>2. rpc'[p] \in LookPCs /\ rpc'[p] \notin WritePCs
    BY <2>1 DEF LookPCs, WritePCs
  <2>3. /\ other'[p] # p /\ \A k \in DOMAIN limbo'[p] : InOrder(limbo'[p][k])
        /\ lpc'[p] = "query" => OnTrack(curr'[p], lin[p])
    BY <1>1, <1>2, <1>4 DEF Query
  <2>4. \A n \in Targets(p) : Ahead(p, n) => Ahead(p, n)'
    BY <1>2, <1>3, <1>4, <2>1, <2>2, AheadLooking
  <2>5. itime[node[p]] < lin[p]
    BY <1>5, <1>7
  <2> QED BY <1>1, <1>2, <1>3, <1>4, <2>1, <2>2, <2>3, <2>4, <2>5, InsideQuery
<1> QED BY <1>6, <1>7

\* A query reads the deletion time of a node.
LEMMA DTimeQuery ==
  ASSUME RwInv, NEW p \in Procs, ProviderQuery(p), ReadDTime(p)
  PROVE  Query(p)'
<1>1. Step(p) /\ UpdateTypes /\ QueryTypes /\ Query(p)
  BY NoOwner DEF Step, ListStep
<1> DEFINE d == dtime[node[p]]
           keep == ~DeletedBefore(d, lin[p])
<1>2. /\ rpc[p] = "dtime" /\ (d # NotSet \/ ~wasMarked[p])
      /\ UNCHANGED <<lin, endTS, other, limbo, lpc, curr, op>> /\ Leave(p, keep)
  BY DEF ProviderQuery, ReadDTime
<1>3. rpc[p] \in LookPCs /\ rpc[p] \in TraversePCs \cup CollectPCs
  BY <1>2 DEF TraversePCs, LookPCs
<1>4. node[p] \in Nodes
  BY <1>1, <1>3, InQuery, ListedKnown
<1>5. itime[node[p]] # NotSet /\ itime[node[p]] < lin[p] /\ (~wasMarked[p] => ~Del(node[p], lin[p]))
  BY <1>1, <1>2 DEF Query, Looks
<1>6. Ins(node[p], lin[p])
  BY <1>4, <1>5, TimesTell
<1>7. keep <=> ~Del(node[p], lin[p])
  <2>1. CASE d # NotSet
    BY <1>4, <2>1, TimesTell DEF DeletedBefore
  <2>2. CASE d = NotSet
    BY <1>2, <1>5, <2>2 DEF DeletedBefore
  <2> QED BY <2>1, <2>2
<1>8. keep <=> Alive(node[p], lin[p])
  BY <1>6, <1>7 DEF Alive
<1>9. keep \in BOOLEAN
  BY DEF DeletedBefore
<1> HIDE DEF keep
<1> QED BY <1>1, <1>2, <1>3, <1>8, <1>9, LeavesQuery

\* The next node of a traversal.
LEMMA NextOfQuery ==
  ASSUME RwInv, NEW p \in Procs, rpc[p] = "traverse"
  PROVE  LET n == next[curr[p]] IN
         /\ lpc[p] = "query" /\ op[p] \in Operation /\ op[p].lo \in Int /\ op[p].hi \in Int
         /\ curr[p] \in Known \ {MaxNode} /\ n \in Known /\ n \in Nodes
         /\ key[n] \in Int /\ key[curr[p]] \in Int
         /\ OnTrack(n, lin[p]) /\ NoGap(curr[p], lin[p])
         /\ key[HeadNode] < op[p].lo /\ op[p].hi < key[MaxNode] /\ key[HeadNode] \in Int /\ key[MaxNode] \in Int
<1> DEFINE n == next[curr[p]]
<1>1. rpc[p] \in TraversePCs \cup CollectPCs /\ rpc[p] # "advance"
  BY DEF TraversePCs
<1>2. /\ lpc[p] = "query" /\ op[p] \in Operation /\ ListTypes /\ curr[p] \in Known /\ Own(p) /\ Query(p)
      /\ Known \subseteq Nodes /\ (\A m \in Nodes : key[m] \in Int) /\ HeadNode \in Nodes /\ MaxNode \in Nodes
  BY <1>1, InQuery, NoOwner, Basics, ListedKnown
<1>3. /\ op[p].lo \in Int /\ op[p].hi \in Int /\ key[HeadNode] < op[p].lo /\ op[p].hi < key[MaxNode]
  BY <1>2, OperationKeys
<1>4. key[curr[p]] <= op[p].hi
  BY <1>2 DEF Own, Stands
<1>5. curr[p] # MaxNode
  BY <1>2, <1>3, <1>4
<1>6. PICK S \in SUBSET Known : curr[p] \in S /\ \A x \in S \ {MaxNode} : next[x] \in S /\ NoGap(x, lin[p])
  BY <1>1, <1>2 DEF Query, OnTrack
<1>7. n \in S /\ NoGap(curr[p], lin[p])
  BY <1>5, <1>6
<1>8. OnTrack(n, lin[p])
  BY <1>6, <1>7 DEF OnTrack
<1> QED BY <1>2, <1>3, <1>5, <1>6, <1>7, <1>8

\* A query goes on to the next node.
LEMMA TraverseQuery ==
  ASSUME RwInv, NEW p \in Procs, Traverse(p)
  PROVE  Query(p)'
<1> DEFINE n == next[curr[p]]
<1>1. Step(p) /\ UpdateTypes /\ QueryTypes /\ ListTypes /\ Query(p)
  BY NoOwner DEF Step, ListStep
<1>2. /\ rpc[p] = "traverse" /\ key[n] <= op[p].hi /\ curr'[p] = n
      /\ UNCHANGED <<lin, endTS, other, limbo, got, wasMarked, lpc, op>>
  BY <1>1 DEF Traverse, ListTypes
<1>3. rpc[p] \in TraversePCs \cup CollectPCs /\ rpc[p] \notin LookPCs
  BY <1>2 DEF TraversePCs, LookPCs
<1>4. Quiet(p) /\ lpc[p] = "query"
  BY <1>1, <1>2, <1>3, InQuery, InsideQuiet
<1>5. /\ op[p].lo \in Int /\ op[p].hi \in Int /\ n \in Known /\ n \in Nodes /\ key[n] \in Int /\ key[curr[p]] \in Int
      /\ OnTrack(n, lin[p]) /\ NoGap(curr[p], lin[p])
      /\ key[HeadNode] < op[p].lo /\ op[p].hi < key[MaxNode] /\ key[HeadNode] \in Int /\ key[MaxNode] \in Int
  BY <1>2, NextOfQuery
<1>6. /\ other'[p] # p /\ \A k \in DOMAIN limbo'[p] : InOrder(limbo'[p][k])
  BY <1>1, <1>2 DEF Query
<1>7. /\ Listed' = Listed /\ key' = key /\ Listed \subseteq Nodes /\ \A m \in Nodes : key[m] \in Int
      /\ \A q, m : (InBag(q, m)' <=> InBag(q, m)) /\ (Announced(q, m)' <=> Announced(q, m))
  BY <1>4, QuietSame, ListedKnown
<1>8. ASSUME NEW m \in Targets(p), Ahead(p, m)
      PROVE  m = n \/ Ahead(p, m)'
  <2>1. CASE m \in Listed /\ key[m] > key[curr[p]]
    <3>1. m = n \/ key[m] > key[n]
      BY <1>5, <2>1 DEF NoGap, Targets
    <3> QED BY <1>2, <1>4, <1>7, <2>1, <3>1 DEF Ahead
  <2>2. CASE \E q \in Procs : q # p /\ (Announced(q, m) \/ InBag(q, m))
    BY <1>2, <1>4, <1>7, <2>2 DEF Ahead
  <2> QED BY <1>4, <1>8, <2>1, <2>2 DEF Ahead
<1>9. CASE Before(p, n)
  <2>1. UNCHANGED <<node, source, rpc>> /\ key[n] < op[p].lo
    BY <1>9 DEF Traverse, Before
  <2>2. \A m \in Targets(p) : m # n
    BY <1>5, <2>1 DEF Targets, InRange
  <2> QED BY <1>1, <1>2, <1>3, <1>4, <1>5, <1>6, <1>8, <2>1, <2>2, InsideQuery DEF LookPCs, WritePCs
<1>10. CASE ~Before(p, n)
  <2>1. node'[p] = n /\ rpc'[p] = "itime" /\ ~(key[n] < op[p].lo)
    BY <1>1, <1>10 DEF Traverse, Before, Consider, At, QueryTypes, UpdateTypes
  <2>2. n # HeadNode /\ n # MaxNode
    BY <1>2, <1>5, <2>1
  <2>3. rpc'[p] \in LookPCs /\ rpc'[p] \notin WritePCs
    BY <2>1 DEF LookPCs, WritePCs
  <2> HIDE DEF n
  <2> QED BY <1>1, <1>2, <1>3, <1>4, <1>5, <1>6, <1>8, <2>1, <2>2, <2>3, InsideQuery DEF LookPCs
<1> QED BY <1>9, <1>10

\* An announced node, and one in a bag, has its times.
LEMMA AnnouncedTimes ==
  ASSUME RwInv, NEW q \in Procs, NEW n, Announced(q, n) \/ InBag(q, n)
  PROVE  /\ n \in Known \ {HeadNode, MaxNode} /\ n \in Nodes /\ dtime[n] # NotSet
         /\ dtime[n] \in Nat /\ timestamp \in Nat /\ dtime[n] <= timestamp
<1>1. UpdateTypes /\ Own(q) /\ Bags /\ Times /\ Known \subseteq Nodes
  BY NoOwner, ListedKnown DEF RwInv
<1>2. CASE Announced(q, n)
  <2>1. rpc[q] \in {"unlink", "retire", "withdraw"} /\ n = del[q]
    BY <1>1, <1>2 DEF Own, Shows, Announced
  <2>2. rpc[q] \in TimedPCs \cup GonePCs /\ rpc[q] \in UpdatePCs /\ rpc[q] \notin InsertPCs
    BY <2>1 DEF TimedPCs, GonePCs, UpdatePCs, InsertPCs, BeforePCs, DonePCs
  <2>3. n \in Known \ {HeadNode, MaxNode} /\ dtime[n] # NotSet
    BY <2>1, <2>2, InErase, ErasedNode DEF Erases
  <2> QED BY <1>1, <2>3 DEF Times, UpdateTypes
<1>3. CASE InBag(q, n)
  <2>1. n \in Known \ {HeadNode, MaxNode} /\ dtime[n] # NotSet
    BY <1>1, <1>3 DEF Bags, InOrder, InBag
  <2> QED BY <1>1, <2>1 DEF Times, UpdateTypes
<1> QED BY <1>2, <1>3

\* The end of the traversal: what is ahead has left the list.
LEMMA EndQueryList ==
  ASSUME RwInv, NEW p \in Procs, TraverseEnd(p)
  PROVE  Query(p)'
<1> DEFINE n == next[curr[p]]
<1>1. Step(p) /\ UpdateTypes /\ QueryTypes /\ ListTypes /\ Query(p) /\ Procs \subseteq Nat \ {0}
  BY NoOwner, Basics DEF Step, ListStep
<1>2. /\ rpc[p] = "traverse" /\ key[n] > op[p].hi /\ lpc'[p] = "collect" /\ rpc'[p] = "announced"
      /\ endTS'[p] = timestamp /\ other'[p] = NextOther(p, 0)
      /\ UNCHANGED <<lin, node, source, limbo, got, wasMarked, op>>
  BY <1>1 DEF TraverseEnd, EndTraversal, Goto, At, ListTypes, UpdateTypes, QueryTypes
<1>3. rpc[p] \in TraversePCs \cup CollectPCs /\ rpc[p] \notin LookPCs /\ rpc'[p] \notin LookPCs
  BY <1>2 DEF TraversePCs, LookPCs
<1>4. Quiet(p) /\ lpc[p] = "query"
  BY <1>1, <1>2, <1>3, InQuery, InsideQuiet
<1>5. /\ op[p].hi \in Int /\ n \in Nodes /\ key[n] \in Int /\ NoGap(curr[p], lin[p])
  BY <1>2, NextOfQuery
<1>6. /\ other'[p] # p /\ \A k \in DOMAIN limbo'[p] : InOrder(limbo'[p][k])
  BY <1>1, <1>2, NextOtherIs DEF Query
<1>7. /\ dtime' = dtime /\ Listed \subseteq Nodes /\ \A m \in Nodes : key[m] \in Int
      /\ \A q, m : (InBag(q, m)' <=> InBag(q, m)) /\ (Announced(q, m)' <=> Announced(q, m))
  BY <1>4, QuietSame, ListedKnown
<1>8. ASSUME NEW m \in Targets(p), Ahead(p, m)
      PROVE  Ahead(p, m)'
  <2>1. key[m] <= op[p].hi /\ Alive(m, lin[p])
    BY DEF Targets, InRange
  <2>2. ~(m \in Listed /\ key[m] > key[curr[p]])
    <3>1. ASSUME m \in Listed, key[m] > key[curr[p]] PROVE FALSE
      <4>1. m = n \/ key[m] > key[n]
        BY <1>5, <2>1, <3>1 DEF NoGap
      <4> QED BY <1>2, <1>5, <1>7, <2>1, <3>1, <4>1
    <3> QED BY <3>1
  <2>3. PICK q \in Procs : q # p /\ (Announced(q, m) \/ InBag(q, m))
    BY <1>4, <1>8, <2>2 DEF Ahead
  <2>4. dtime[m] # NotSet /\ dtime[m] <= timestamp
    BY <2>3, AnnouncedTimes
  <2>5. ToCome(p, q)'
    <3>1. other'[p] # 0 /\ other'[p] <= q
      BY <1>1, <1>2, <2>3, NextOtherIs
    <3> QED BY <2>3, <3>1 DEF ToCome
  <2>6. Phase(p, "announced")'
    BY <1>2 DEF Phase
  <2> QED BY <1>2, <1>7, <2>3, <2>4, <2>5, <2>6 DEF Ahead
<1> QED BY <1>1, <1>2, <1>3, <1>4, <1>6, <1>8, InsideQuery DEF LookPCs

-----------------------------------------------------------------------------
(***************************************************************************)
(* The queries: what has left the list.                                    *)
(***************************************************************************)
\* A query that collects.
LEMMA Collecting ==
  ASSUME RwInv, NEW p \in Procs, rpc[p] \in {"announced", "entry", "bags", "limbo"}, Step(p)
  PROVE  /\ UpdateTypes /\ QueryTypes /\ Query(p) /\ lpc[p] = "collect" /\ Quiet(p)
         /\ rpc[p] \notin LookPCs /\ other[p] \in Procs \cup {0} /\ other[p] # p /\ Procs \subseteq Nat \ {0}
         /\ dtime' = dtime
         /\ \A q, m : (InBag(q, m)' <=> InBag(q, m)) /\ (Announced(q, m)' <=> Announced(q, m))
<1>1. rpc[p] \in TraversePCs \cup CollectPCs /\ rpc[p] \notin LookPCs
  BY DEF CollectPCs, LookPCs
<1>2. UpdateTypes /\ QueryTypes /\ Query(p) /\ lpc[p] = "collect" /\ Quiet(p) /\ Procs \subseteq Nat \ {0}
  BY <1>1, InQuery, InsideQuiet, NoOwner, Basics
<1> QED BY <1>1, <1>2, QuietSame DEF QueryTypes, Query

\* Where the nodes ahead of it are.
LEMMA AheadOf ==
  ASSUME NEW p \in Procs, lpc[p] = "collect", rpc[p] \notin LookPCs, NEW m, Ahead(p, m)
  PROVE  /\ dtime[m] # NotSet /\ dtime[m] <= endTS[p]
         /\ \/ /\ rpc[p] \in {"announced", "entry"}
               /\ \E q \in Procs : q # p /\ (InBag(q, m) \/ (ToCome(p, q) /\ Announced(q, m)))
            \/ rpc[p] = "bags" /\ (InLimbo(p, m) \/ \E q \in Procs : ToCome(p, q) /\ InBag(q, m))
            \/ rpc[p] = "limbo" /\ InLimbo(p, m)
BY DEF Ahead, Phase

\* What is still to come when the query moves on to the next process.
LEMMA ComesLater ==
  ASSUME QueryTypes, NEW p \in Procs, NEW q \in Procs, ToCome(p, q), q # other[p],
         other'[p] = NextOther(p, other[p])
  PROVE  ToCome(p, q)'
<1>1. other[p] \in Procs \cup {0} /\ Procs \subseteq Nat \ {0} /\ q # p /\ other[p] <= q
  BY Basics DEF QueryTypes, ToCome
<1>2. q > other[p]
  <2>1. \A i \in Nat, j \in Nat : j # i /\ i <= j => j > i
    OBVIOUS
  <2>2. other[p] \in Nat
    <3>1. CASE other[p] = 0
      BY <3>1
    <3>2. CASE other[p] \in Procs
      BY <1>1, <3>2
    <3> QED BY <1>1, <3>1, <3>2
  <2>3. q \in Nat
    BY <1>1
  <2> QED BY <1>1, <2>1, <2>2, <2>3
<1>3. NextOther(p, other[p]) # 0 /\ NextOther(p, other[p]) <= q
  BY <1>1, <1>2, NextOtherIs
<1> QED BY <1>1, <1>3 DEF ToCome

\* A query reads how many announcements a process has.
LEMMA CountQuery ==
  ASSUME RwInv, NEW p \in Procs, ProviderQuery(p), ReadCount(p)
  PROVE  Query(p)'
<1>1. /\ Step(p) /\ rpc[p] = "announced" /\ UNCHANGED <<lin, endTS, node, source, wasMarked, limbo, got, lpc, curr, op>>
  BY DEF Step, ListStep, ProviderQuery, ReadCount
<1>2. /\ UpdateTypes /\ QueryTypes /\ Query(p) /\ lpc[p] = "collect" /\ Quiet(p)
      /\ rpc[p] \notin LookPCs /\ other[p] \in Procs \cup {0} /\ other[p] # p /\ Procs \subseteq Nat \ {0}
      /\ dtime' = dtime
      /\ \A q, m : (InBag(q, m)' <=> InBag(q, m)) /\ (Announced(q, m)' <=> Announced(q, m))
  BY <1>1, Collecting
<1>3. \A k \in DOMAIN limbo'[p] : InOrder(limbo'[p][k])
  BY <1>1, <1>2 DEF Query
<1>4. \A q \in Procs \cup {0} : NextOther(p, q) \in Procs \cup {0} /\ NextOther(p, q) # p
  BY NextOtherIs
<1>5. SUFFICES /\ rpc'[p] \in {"announced", "bags", "entry"} /\ other'[p] # p
               /\ rpc'[p] = "entry" => other'[p] # 0 /\ announcements[other'[p]] \in Known \ {HeadNode, MaxNode}
               /\ \A m \in Targets(p) : Ahead(p, m) => Ahead(p, m)'
  <2>1. rpc'[p] \in {"announced", "bags", "entry"} => rpc'[p] \notin LookPCs /\ rpc'[p] # "advance" /\ rpc'[p] \notin WritePCs
    BY DEF LookPCs, WritePCs
  <2> QED BY <1>1, <1>2, <1>3, <2>1, InsideQuery DEF LookPCs
<1>6. CASE other[p] = 0
  <2>1. rpc'[p] = "bags" /\ other'[p] = NextOther(p, 0)
    BY <1>2, <1>6 DEF ReadCount, At, UpdateTypes, QueryTypes
  <2>2. ASSUME NEW m \in Targets(p), Ahead(p, m) PROVE Ahead(p, m)'
    <3>1. PICK q \in Procs : q # p /\ InBag(q, m)
      BY <1>1, <1>2, <1>6, <2>2, AheadOf DEF ToCome
    <3>2. ToCome(p, q)' /\ Phase(p, "bags")'
      BY <1>2, <2>1, <3>1, NextOtherIs DEF ToCome, Phase
    <3>3. dtime[m] # NotSet /\ dtime[m] <= endTS[p]
      BY <1>2, <2>2, AheadOf
    <3> QED BY <1>1, <1>2, <3>1, <3>2, <3>3 DEF Ahead
  <2> QED BY <1>4, <2>1, <2>2
<1>7. CASE other[p] # 0 /\ numAnnouncements[other[p]] = 0
  <2>1. rpc'[p] = "announced" /\ other'[p] = NextOther(p, other[p])
    BY <1>1, <1>2, <1>7 DEF ReadCount, QueryTypes
  <2>2. ASSUME NEW m \in Targets(p), Ahead(p, m) PROVE Ahead(p, m)'
    <3>1. PICK q \in Procs : q # p /\ (InBag(q, m) \/ (ToCome(p, q) /\ Announced(q, m)))
      BY <1>1, <1>2, <2>2, AheadOf
    <3>2. ToCome(p, q) /\ Announced(q, m) => ToCome(p, q)'
      <4>1. ASSUME ToCome(p, q), Announced(q, m) PROVE ToCome(p, q)'
        <5>1. q # other[p]
          BY <1>7, <4>1 DEF Announced
        <5> QED BY <1>2, <2>1, <4>1, <5>1, ComesLater
      <4> QED BY <4>1
    <3>3. dtime[m] # NotSet /\ dtime[m] <= endTS[p] /\ Phase(p, "announced")'
      BY <1>2, <2>1, <2>2, AheadOf DEF Phase
    <3> QED BY <1>1, <1>2, <3>1, <3>2, <3>3 DEF Ahead
  <2> QED BY <1>2, <1>4, <2>1, <2>2
<1>8. CASE other[p] # 0 /\ numAnnouncements[other[p]] # 0
  <2>1. rpc'[p] = "entry" /\ other' = other
    BY <1>2, <1>8 DEF ReadCount, At, UpdateTypes
  <2>2. other[p] \in Procs /\ numAnnouncements[other[p]] = 1
    BY <1>2, <1>8 DEF UpdateTypes
  <2>3. announcements[other[p]] \in Known \ {HeadNode, MaxNode}
    BY <2>2, AnnouncedTimes DEF Announced
  <2>4. ASSUME NEW m \in Targets(p), Ahead(p, m) PROVE Ahead(p, m)'
    <3>1. PICK q \in Procs : q # p /\ (InBag(q, m) \/ (ToCome(p, q) /\ Announced(q, m)))
      BY <1>1, <1>2, <2>4, AheadOf
    <3>2. ToCome(p, q) => ToCome(p, q)'
      BY <2>1 DEF ToCome
    <3>3. dtime[m] # NotSet /\ dtime[m] <= endTS[p] /\ Phase(p, "entry")'
      BY <1>2, <2>1, <2>4, AheadOf DEF Phase
    <3> QED BY <1>1, <1>2, <3>1, <3>2, <3>3 DEF Ahead
  <2> QED BY <1>2, <2>1, <2>2, <2>3, <2>4
<1> QED BY <1>6, <1>7, <1>8

\* A query reads an announcement.
LEMMA EntryQuery ==
  ASSUME RwInv, NEW p \in Procs, ProviderQuery(p), ReadEntry(p)
  PROVE  Query(p)'
<1>1. /\ Step(p) /\ rpc[p] = "entry" /\ UNCHANGED <<lin, endTS, wasMarked, limbo, got, lpc, curr, op>>
  BY DEF Step, ListStep, ProviderQuery, ReadEntry
<1>2. /\ UpdateTypes /\ QueryTypes /\ Query(p) /\ lpc[p] = "collect" /\ Quiet(p)
      /\ rpc[p] \notin LookPCs /\ other[p] \in Procs \cup {0} /\ other[p] # p /\ Procs \subseteq Nat \ {0}
      /\ dtime' = dtime
      /\ \A q, m : (InBag(q, m)' <=> InBag(q, m)) /\ (Announced(q, m)' <=> Announced(q, m))
  BY <1>1, Collecting
<1>3. \A k \in DOMAIN limbo'[p] : InOrder(limbo'[p][k])
  BY <1>1, <1>2 DEF Query
<1>4. /\ rpc'[p] = "itime" /\ source'[p] = "announced" /\ node'[p] = announcements[other[p]]
      /\ other'[p] = NextOther(p, other[p])
  BY <1>2 DEF ReadEntry, Consider, At, UpdateTypes, QueryTypes
<1>5. node'[p] \in Known \ {HeadNode, MaxNode} /\ other'[p] # p
  BY <1>1, <1>2, <1>4, NextOtherIs DEF Query
<1>6. rpc'[p] \in LookPCs /\ rpc'[p] \notin WritePCs
  BY <1>4 DEF LookPCs, WritePCs
<1>7. ASSUME NEW m \in Targets(p), Ahead(p, m) PROVE m = node'[p] \/ Ahead(p, m)'
  <2>1. PICK q \in Procs : q # p /\ (InBag(q, m) \/ (ToCome(p, q) /\ Announced(q, m)))
    BY <1>1, <1>2, <1>7, AheadOf
  <2>2. ToCome(p, q) /\ Announced(q, m) => m = node'[p] \/ ToCome(p, q)'
    <3>1. ASSUME ToCome(p, q), Announced(q, m), q # other[p] PROVE ToCome(p, q)'
      BY <1>2, <1>4, <3>1, ComesLater
    <3> QED BY <1>4, <3>1 DEF Announced
  <2>3. dtime[m] # NotSet /\ dtime[m] <= endTS[p] /\ Phase(p, "announced")'
    BY <1>2, <1>4, <1>6, <1>7, AheadOf DEF Phase
  <2> QED BY <1>1, <1>2, <2>1, <2>2, <2>3 DEF Ahead
<1> QED BY <1>1, <1>2, <1>3, <1>4, <1>5, <1>6, <1>7, InsideQuery

\* A query takes the bag of a process, as it is now.
LEMMA OpenQuery ==
  ASSUME RwInv, NEW p \in Procs, ProviderQuery(p), OpenBags(p)
  PROVE  Query(p)'
<1>1. /\ Step(p) /\ rpc[p] = "bags" /\ UNCHANGED <<lin, endTS, node, source, wasMarked, got, lpc, curr, op>>
  BY DEF Step, ListStep, ProviderQuery, OpenBags
<1>2. /\ UpdateTypes /\ QueryTypes /\ Query(p) /\ lpc[p] = "collect" /\ Quiet(p)
      /\ rpc[p] \notin LookPCs /\ other[p] \in Procs \cup {0} /\ other[p] # p /\ Procs \subseteq Nat \ {0}
      /\ dtime' = dtime
      /\ \A q, m : (InBag(q, m)' <=> InBag(q, m)) /\ (Announced(q, m)' <=> Announced(q, m))
  BY <1>1, Collecting
<1>3. SUFFICES /\ rpc'[p] \in {"bags", "limbo"} /\ other'[p] # p
               /\ \A k \in DOMAIN limbo'[p] : InOrder(limbo'[p][k])
               /\ \A m \in Targets(p) : Ahead(p, m) => Ahead(p, m)'
  <2>1. rpc'[p] \in {"bags", "limbo"} => /\ rpc'[p] \notin LookPCs /\ rpc'[p] # "advance" /\ rpc'[p] \notin WritePCs
                                         /\ rpc'[p] # "entry"
    BY DEF LookPCs, WritePCs
  <2> QED BY <1>1, <1>2, <2>1, InsideQuery DEF LookPCs
<1>4. CASE other[p] = 0
  <2>1. rpc'[p] = "limbo" /\ UNCHANGED <<other, limbo>>
    BY <1>2, <1>4 DEF OpenBags, At, UpdateTypes
  <2>2. ASSUME NEW m \in Targets(p), Ahead(p, m) PROVE Ahead(p, m)'
    <3>1. InLimbo(p, m) /\ dtime[m] # NotSet /\ dtime[m] <= endTS[p]
      BY <1>1, <1>2, <1>4, <2>2, AheadOf DEF ToCome
    <3>2. InLimbo(p, m)' /\ Phase(p, "limbo")'
      BY <2>1, <3>1 DEF InLimbo, Phase
    <3> QED BY <1>1, <1>2, <3>1, <3>2 DEF Ahead
  <2> QED BY <1>2, <2>1, <2>2 DEF Query
<1>5. CASE other[p] # 0
  <2> DEFINE l == limbo[p]
             b == bag[other[p]]
  <2>1. /\ limbo'[p] = (IF b = <<>> THEN l ELSE Append(l, b)) /\ other'[p] = NextOther(p, other[p])
        /\ rpc' = rpc
    BY <1>2, <1>5 DEF OpenBags, QueryTypes
  <2>2. /\ l \in Seq(Seq(Nodes) \ {<<>>}) /\ other[p] \in Procs /\ b \in Seq(Nodes) /\ InOrder(b)
        /\ \A k \in DOMAIN l : InOrder(l[k])
    BY <1>2, <1>5 DEF QueryTypes, UpdateTypes, Query, RwInv, Bags
  <2>3. /\ b # <<>> => /\ DOMAIN Append(l, b) = 1 .. Len(l) + 1
                       /\ \A k \in 1 .. Len(l) : Append(l, b)[k] = l[k]
                       /\ Append(l, b)[Len(l) + 1] = b
        /\ DOMAIN l = 1 .. Len(l) /\ Len(l) \in Nat
    <3> HIDE DEF l, b
    <3>1. DOMAIN l = 1 .. Len(l) /\ Len(l) \in Nat
      BY <2>2, LenProperties
    <3>2. ASSUME b # <<>>
          PROVE  /\ DOMAIN Append(l, b) = 1 .. Len(l) + 1
                 /\ \A k \in 1 .. Len(l) : Append(l, b)[k] = l[k]
                 /\ Append(l, b)[Len(l) + 1] = b
      <4>1. b \in Seq(Nodes) \ {<<>>}
        BY <2>2, <3>2
      <4>2. /\ Append(l, b) \in Seq(Seq(Nodes) \ {<<>>}) /\ Len(Append(l, b)) = Len(l) + 1
            /\ \A k \in 1 .. Len(l) : Append(l, b)[k] = l[k]
            /\ Append(l, b)[Len(l) + 1] = b
        BY <2>2, <4>1, AppendProperties
      <4> QED BY <4>2, LenProperties
    <3> QED BY <3>1, <3>2
  <2>4. \A k \in DOMAIN limbo'[p] : InOrder(limbo'[p][k])
    <3> HIDE DEF l, b
    <3> TAKE k \in DOMAIN limbo'[p]
    <3>1. CASE b = <<>>
      BY <2>1, <2>2, <3>1
    <3>2. CASE b # <<>> /\ k \in 1 .. Len(l)
      BY <2>1, <2>2, <2>3, <3>2
    <3>3. CASE b # <<>> /\ k = Len(l) + 1
      BY <2>1, <2>2, <2>3, <3>3
    <3> QED BY <2>1, <2>3, <3>1, <3>2, <3>3
  <2>5. ASSUME NEW m, InLimbo(p, m) \/ InBag(other[p], m) PROVE InLimbo(p, m)'
    <3>1. CASE InLimbo(p, m)
      <4>1. PICK k \in DOMAIN l : \E i \in DOMAIN l[k] : l[k][i] = m
        BY <3>1 DEF InLimbo
      <4> HIDE DEF l, b
      <4>2. k \in DOMAIN limbo'[p] /\ limbo'[p][k] = l[k]
        BY <2>1, <2>3, <4>1
      <4> QED BY <4>1, <4>2 DEF InLimbo
    <3>2. CASE InBag(other[p], m)
      <4>1. PICK i \in DOMAIN b : b[i] = m
        BY <3>2 DEF InBag
      <4>2. b # <<>>
        BY <2>2, <4>1, EmptySeq
      <4> HIDE DEF l, b
      <4>3. Len(l) + 1 \in DOMAIN limbo'[p] /\ limbo'[p][Len(l) + 1] = b
        BY <2>1, <2>3, <4>2
      <4> QED BY <4>1, <4>3 DEF InLimbo
    <3> QED BY <2>5, <3>1, <3>2
  <2>6. ASSUME NEW m \in Targets(p), Ahead(p, m) PROVE Ahead(p, m)'
    <3>1. InLimbo(p, m) \/ \E q \in Procs : ToCome(p, q) /\ InBag(q, m)
      BY <1>1, <1>2, <2>6, AheadOf
    <3>2. ASSUME NEW q \in Procs, ToCome(p, q), InBag(q, m), q # other[p] PROVE ToCome(p, q)'
      BY <1>2, <2>1, <3>2, ComesLater
    <3>3. InLimbo(p, m)' \/ \E q \in Procs : ToCome(p, q)' /\ InBag(q, m)'
      BY <1>2, <2>5, <3>1, <3>2
    <3>4. dtime[m] # NotSet /\ dtime[m] <= endTS[p] /\ Phase(p, "bags")'
      BY <1>1, <1>2, <2>1, <2>6, AheadOf DEF Phase
    <3> QED BY <1>1, <1>2, <3>3, <3>4 DEF Ahead
  <2> QED BY <1>1, <1>2, <2>1, <2>4, <2>6, NextOtherIs
<1> QED BY <1>4, <1>5

\* What is left in the bags of a query when the newest node of the first is taken, and
\* when the first is left.
LEMMA WithoutNewest ==
  ASSUME NEW l \in Seq(Seq(Nodes) \ {<<>>}), l # <<>>
  PROVE  LET b == Head(l) IN
         /\ 1 \in DOMAIN l /\ b = l[1] /\ Len(b) \in DOMAIN b /\ Len(b) \in Nat
         /\ \A i \in DOMAIN b : i \in Nat /\ i <= Len(b)
         /\ \A k \in DOMAIN l : \A i \in DOMAIN l[k] :
              \/ k = 1 /\ i = Len(b)
              \/ \E j \in DOMAIN NextNode(l) : \E h \in DOMAIN NextNode(l)[j] : NextNode(l)[j][h] = l[k][i]
         /\ \A k \in DOMAIN l : k # 1 => \E j \in DOMAIN NextBag(l) : NextBag(l)[j] = l[k]
         /\ \A j \in DOMAIN NextBag(l) : \E k \in DOMAIN l : NextBag(l)[j] = l[k]
         /\ \A j \in DOMAIN NextNode(l) : \E k \in DOMAIN l :
              /\ DOMAIN NextNode(l)[j] \subseteq DOMAIN l[k]
              /\ \A i \in DOMAIN NextNode(l)[j] : NextNode(l)[j][i] = l[k][i]
<1> DEFINE b == Head(l)
           t == Tail(l)
           c == SubSeq(b, 1, Len(b) - 1)
           w == <<c>> \o t
<1>1. /\ b \in Seq(Nodes) /\ Len(b) \in Nat \ {0} /\ Len(b) \in DOMAIN b
      /\ NextBag(l) \in Seq(Seq(Nodes) \ {<<>>}) /\ NextNode(l) \in Seq(Seq(Nodes) \ {<<>>})
      /\ c \in Seq(Nodes) /\ Len(c) = Len(b) - 1 /\ \A i \in 1 .. Len(b) - 1 : c[i] = b[i]
      /\ (c = <<>> /\ NextNode(l) = t) \/ (c # <<>> /\ NextNode(l) = w)
      /\ NextBag(l) = t
  BY NextNodeIs DEF NextBag
<1>2. /\ Len(l) \in Nat \ {0} /\ DOMAIN l = 1 .. Len(l) /\ b = l[1] /\ Len(t) = Len(l) - 1
      /\ DOMAIN t = 1 .. Len(l) - 1 /\ \A k \in 1 .. Len(l) - 1 : t[k] = l[k + 1]
  <2>1. /\ t \in Seq(Seq(Nodes) \ {<<>>}) /\ Len(t) = Len(l) - 1 /\ b = l[1]
        /\ \A k \in 1 .. Len(l) - 1 : t[k] = l[k + 1]
    BY HeadTailProperties
  <2>2. Len(l) \in Nat /\ Len(l) # 0 /\ DOMAIN l = 1 .. Len(l) /\ DOMAIN t = 1 .. Len(t)
    BY <2>1, LenProperties, EmptySeq
  <2> QED BY <2>1, <2>2
<1>3. DOMAIN b = 1 .. Len(b) /\ DOMAIN c = 1 .. Len(b) - 1
  BY <1>1, LenProperties
<1>4. c # <<>> => DOMAIN w = 1 .. Len(l) /\ w[1] = c /\ \A k \in 2 .. Len(l) : w[k] = l[k]
  <2> SUFFICES ASSUME c # <<>> PROVE DOMAIN w = 1 .. Len(l) /\ w[1] = c /\ \A k \in 2 .. Len(l) : w[k] = l[k]
    OBVIOUS
  <2>1. t \in Seq(Seq(Nodes) \ {<<>>}) /\ c \in Seq(Nodes) \ {<<>>} /\ w \in Seq(Seq(Nodes) \ {<<>>})
    BY <1>1
  <2> HIDE DEF b, c, t
  <2>2. <<c>> \in Seq(Seq(Nodes) \ {<<>>}) /\ Len(<<c>>) = 1 /\ <<c>>[1] = c
    BY <2>1
  <2>3. /\ Len(w) = 1 + Len(t)
        /\ \A k \in 1 .. 1 + Len(t) : w[k] = IF k <= 1 THEN <<c>>[k] ELSE t[k - 1]
    BY <2>1, <2>2, ConcatProperties
  <2>4. DOMAIN w = 1 .. Len(l)
    <3>1. DOMAIN w = 1 .. Len(w)
      BY <2>1, LenProperties
    <3> HIDE DEF w
    <3>2. Len(w) = 1 + Len(t) /\ Len(t) = Len(l) - 1 /\ Len(l) \in Nat
      BY <1>2, <2>3
    <3>3. Len(w) = Len(l)
      BY <3>2
    <3> QED BY <3>1, <3>3
  <2>5. w[1] = c
    BY <1>2, <2>2, <2>3
  <2>6. ASSUME NEW k \in 2 .. Len(l) PROVE w[k] = l[k]
    <3>1. k \in 1 .. 1 + Len(t) /\ ~(k <= 1) /\ k - 1 \in 1 .. Len(l) - 1 /\ (k - 1) + 1 = k
      BY <1>2
    <3>2. w[k] = t[k - 1]
      BY <2>3, <3>1
    <3> QED BY <1>2, <3>1, <3>2
  <2> QED BY <2>4, <2>5, <2>6
<1> HIDE DEF b, c, t, w
<1>5. ASSUME NEW k \in DOMAIN l, k # 1
      PROVE  k - 1 \in DOMAIN t /\ t[k - 1] = l[k]
  <2>1. k - 1 \in 1 .. Len(l) - 1 /\ (k - 1) + 1 = k
    BY <1>2, <1>5
  <2> QED BY <1>2, <2>1
<1>6. ASSUME NEW j \in DOMAIN t
      PROVE  \E k \in DOMAIN l : t[j] = l[k]
  <2>1. j + 1 \in DOMAIN l /\ t[j] = l[j + 1]
    BY <1>2
  <2> QED BY <2>1
<1>7. ASSUME NEW k \in DOMAIN l, NEW i \in DOMAIN l[k], ~(k = 1 /\ i = Len(b))
      PROVE  \E j \in DOMAIN NextNode(l) : \E h \in DOMAIN NextNode(l)[j] : NextNode(l)[j][h] = l[k][i]
  <2>1. CASE k = 1
    <3>1. i \in 1 .. Len(b) - 1
      BY <1>1, <1>2, <1>3, <1>7, <2>1
    <3>2. c # <<>> /\ i \in DOMAIN c /\ c[i] = l[k][i]
      <4>1. i \in DOMAIN c /\ c[i] = b[i] /\ l[k] = b
        BY <1>1, <1>2, <1>3, <2>1, <3>1
      <4>2. Len(c) # 0
        <5>1. Len(c) = Len(b) - 1 /\ Len(b) \in Nat
          BY <1>1
        <5>2. \A x \in Nat : \A y \in 1 .. x - 1 : x - 1 # 0
          OBVIOUS
        <5>3. Len(b) - 1 # 0
          BY <3>1, <5>1, <5>2
        <5> QED BY <5>1, <5>3
      <4> QED BY <4>1, <4>2, EmptySeq
    <3>3. 1 \in DOMAIN NextNode(l) /\ NextNode(l)[1] = c
      BY <1>1, <1>2, <1>4, <3>2
    <3> QED BY <3>2, <3>3
  <2>2. CASE k # 1 /\ c = <<>>
    BY <1>1, <1>5, <2>2
  <2>3. CASE k # 1 /\ c # <<>>
    <3>1. k \in 2 .. Len(l)
      BY <1>2, <2>3
    <3> QED BY <1>1, <1>2, <1>4, <2>3, <3>1
  <2> QED BY <2>1, <2>2, <2>3
<1>8. ASSUME NEW j \in DOMAIN NextNode(l)
      PROVE  \E k \in DOMAIN l : /\ DOMAIN NextNode(l)[j] \subseteq DOMAIN l[k]
                                 /\ \A i \in DOMAIN NextNode(l)[j] : NextNode(l)[j][i] = l[k][i]
  <2>1. CASE c = <<>>
    <3>1. j \in DOMAIN t /\ NextNode(l)[j] = t[j]
      BY <1>1, <2>1
    <3>2. PICK k \in DOMAIN l : t[j] = l[k]
      BY <1>6, <3>1
    <3> QED BY <3>1, <3>2
  <2>2. CASE c # <<>> /\ j = 1
    <3>1. NextNode(l)[j] = c /\ 1 \in DOMAIN l /\ l[1] = b
      BY <1>1, <1>2, <1>4, <2>2
    <3>2. DOMAIN c \subseteq DOMAIN b /\ \A i \in DOMAIN c : c[i] = b[i]
      <4>1. \A i \in 1 .. Len(b) - 1 : i \in 1 .. Len(b)
        BY <1>1
      <4> QED BY <1>1, <1>3, <4>1
    <3> QED BY <3>1, <3>2
  <2>3. CASE c # <<>> /\ j # 1
    <3>1. j \in 2 .. Len(l) /\ NextNode(l) = w
      BY <1>1, <1>2, <1>4, <2>3
    <3>2. NextNode(l)[j] = l[j] /\ j \in DOMAIN l
      BY <1>2, <1>4, <2>3, <3>1
    <3> QED BY <3>2
  <2> QED BY <2>1, <2>2, <2>3
<1>9. 1 \in DOMAIN l /\ \A i \in DOMAIN b : i \in Nat /\ i <= Len(b)
  BY <1>1, <1>2, <1>3
<1> QED BY <1>1, <1>2, <1>5, <1>6, <1>7, <1>8, <1>9 DEF b

\* A query goes through a bag from the newest node on, and leaves it at the first that was deleted
\* before: those behind it were deleted before, too.
LEMMA VisitQuery ==
  ASSUME RwInv, NEW p \in Procs, ProviderQuery(p), VisitBag(p)
  PROVE  Query(p)'
<1> DEFINE l == limbo[p]
           b == Head(l)
           n == b[Len(b)]
           d == dtime[n]
<1>1. /\ Step(p) /\ rpc[p] = "limbo" /\ l # <<>>
      /\ UNCHANGED <<lin, endTS, wasMarked, other, got, lpc, curr, op>>
  BY DEF Step, ListStep, ProviderQuery, VisitBag
<1>2. /\ UpdateTypes /\ QueryTypes /\ Query(p) /\ lpc[p] = "collect" /\ Quiet(p)
      /\ rpc[p] \notin LookPCs /\ other[p] # p
      /\ dtime' = dtime
      /\ Known \subseteq Nodes
  BY <1>1, Collecting, ListedKnown
<1>3. l \in Seq(Seq(Nodes) \ {<<>>}) /\ lin[p] \in Nat /\ endTS[p] \in Nat
  BY <1>2 DEF QueryTypes
<1>4. \/ limbo'[p] = NextNode(l) /\ d # NotSet /\ d > endTS[p] /\ UNCHANGED <<node, source, rpc>>
      \/ limbo'[p] = NextBag(l) /\ DeletedBefore(d, lin[p]) /\ UNCHANGED <<node, source, rpc>>
      \/ limbo'[p] = NextNode(l) /\ node'[p] = n /\ source'[p] = "limbo" /\ rpc'[p] = "itime"
  <2>1. CASE d # NotSet /\ d > endTS[p]
    BY <1>2, <2>1 DEF VisitBag, QueryTypes
  <2>2. CASE ~(d # NotSet /\ d > endTS[p]) /\ DeletedBefore(d, lin[p])
    BY <1>2, <2>2 DEF VisitBag, QueryTypes
  <2>3. CASE ~(d # NotSet /\ d > endTS[p]) /\ ~DeletedBefore(d, lin[p])
    BY <1>2, <2>3 DEF VisitBag, QueryTypes, UpdateTypes, Consider, At
  <2> QED BY <2>1, <2>2, <2>3
<1>5. \A k \in DOMAIN l : InOrder(l[k])
  BY <1>2 DEF Query
<1> HIDE DEF l, b
<1>6. /\ 1 \in DOMAIN l /\ Head(l) = l[1] /\ Len(Head(l)) \in DOMAIN Head(l) /\ Len(Head(l)) \in Nat
      /\ \A i \in DOMAIN Head(l) : i \in Nat /\ i <= Len(Head(l))
      /\ \A k \in DOMAIN l : \A i \in DOMAIN l[k] :
           \/ k = 1 /\ i = Len(Head(l))
           \/ \E j \in DOMAIN NextNode(l) : \E h \in DOMAIN NextNode(l)[j] : NextNode(l)[j][h] = l[k][i]
      /\ \A k \in DOMAIN l : k # 1 => \E j \in DOMAIN NextBag(l) : NextBag(l)[j] = l[k]
      /\ \A j \in DOMAIN NextBag(l) : \E k \in DOMAIN l : NextBag(l)[j] = l[k]
      /\ \A j \in DOMAIN NextNode(l) : \E k \in DOMAIN l :
           /\ DOMAIN NextNode(l)[j] \subseteq DOMAIN l[k]
           /\ \A i \in DOMAIN NextNode(l)[j] : NextNode(l)[j][i] = l[k][i]
  BY <1>1, <1>3, WithoutNewest
<1>7. b = l[1] /\ Len(b) \in DOMAIN b /\ InOrder(b) /\ \A i \in DOMAIN b : i \in Nat /\ i <= Len(b)
  BY <1>5, <1>6 DEF b
<1>8. n \in Known \ {HeadNode, MaxNode} /\ n \in Nodes /\ d # NotSet /\ \A i \in DOMAIN b : dtime[b[i]] # NotSet /\ dtime[b[i]] <= d
  BY <1>2, <1>7 DEF InOrder
<1>9. \A k \in DOMAIN limbo'[p] : InOrder(limbo'[p][k])
  <2> TAKE k \in DOMAIN limbo'[p]
  <2>1. CASE limbo'[p] = NextBag(l)
    BY <1>5, <1>6, <2>1
  <2>2. CASE limbo'[p] = NextNode(l)
    <3>1. PICK h \in DOMAIN l : /\ DOMAIN limbo'[p][k] \subseteq DOMAIN l[h]
                                /\ \A i \in DOMAIN limbo'[p][k] : limbo'[p][k][i] = l[h][i]
      BY <1>6, <2>2
    <3>2. InOrder(l[h])
      BY <1>5
    <3> QED BY <3>1, <3>2 DEF InOrder
  <2> QED BY <1>4, <2>1, <2>2
<1>10. ASSUME NEW m \in Targets(p), Ahead(p, m)
       PROVE  \/ rpc'[p] = "itime" /\ m = node'[p]
              \/ InLimbo(p, m)'
  <2>1. InLimbo(p, m) /\ dtime[m] # NotSet /\ dtime[m] <= endTS[p]
    BY <1>1, <1>2, <1>10, AheadOf
  <2>2. PICK k \in DOMAIN l : \E i \in DOMAIN l[k] : l[k][i] = m
    BY <2>1 DEF InLimbo, l
  <2>3. PICK i \in DOMAIN l[k] : l[k][i] = m
    BY <2>2
  <2>4. m \in Nodes /\ ~Del(m, lin[p]) /\ dtime[m] \in Nat
    BY <1>2 DEF Targets, Alive, UpdateTypes
  <2>5. CASE limbo'[p] = NextNode(l) /\ ~(k = 1 /\ i = Len(b))
    <3>1. \E j \in DOMAIN limbo'[p] : \E h \in DOMAIN limbo'[p][j] : limbo'[p][j][h] = m
      BY <1>6, <2>3, <2>5 DEF b
    <3> QED BY <3>1 DEF InLimbo
  <2>6. CASE limbo'[p] = NextNode(l) /\ k = 1 /\ i = Len(b)
    <3>1. m = n
      BY <1>7, <2>3, <2>6
    <3>2. ~(d > endTS[p])
      BY <1>3, <2>1, <2>4, <3>1
    <3>3. CASE d > endTS[p]
      BY <3>2, <3>3
    <3>4. CASE DeletedBefore(d, lin[p])
      BY <2>4, <3>1, <3>4 DEF DeletedBefore, Del
    <3> QED BY <1>4, <3>1, <3>3, <3>4
  <2>7. CASE limbo'[p] = NextBag(l) /\ k # 1
    <3>1. \E j \in DOMAIN limbo'[p] : limbo'[p][j] = l[k]
      BY <1>6, <2>7
    <3> QED BY <2>3, <3>1 DEF InLimbo
  <2>8. CASE limbo'[p] = NextBag(l) /\ k = 1 /\ limbo'[p] # NextNode(l)
    <3>1. dtime[m] <= d /\ d < lin[p]
      BY <1>4, <1>7, <1>8, <2>3, <2>8 DEF DeletedBefore
    <3>2. d \in Nat
      BY <1>2, <1>8 DEF UpdateTypes
    <3>3. dtime[m] < lin[p]
      BY <1>3, <2>4, <3>1, <3>2
    <3> QED BY <2>1, <2>4, <3>3 DEF Del
  <2>9. CASE limbo'[p] = NextBag(l) /\ k = 1 /\ limbo'[p] = NextNode(l)
    BY <2>5, <2>6, <2>9
  <2> QED BY <1>4, <2>5, <2>6, <2>7, <2>8, <2>9
<1>11. CASE rpc'[p] = "itime" /\ node'[p] = n /\ source'[p] = "limbo"
  <2>1. rpc'[p] \in LookPCs /\ rpc'[p] \notin WritePCs
    BY <1>11 DEF LookPCs, WritePCs
  <2>2. Phase(p, "limbo")'
    BY <1>11, <2>1 DEF Phase
  <2>3. \A m \in Targets(p) : Ahead(p, m) => m = node'[p] \/ Ahead(p, m)'
    <3> SUFFICES ASSUME NEW m \in Targets(p), Ahead(p, m) PROVE m = node'[p] \/ Ahead(p, m)'
      OBVIOUS
    <3>1. dtime[m] # NotSet /\ dtime[m] <= endTS[p]
      BY <1>2, AheadOf
    <3> QED BY <1>1, <1>2, <1>10, <2>2, <3>1 DEF Ahead
  <2> QED BY <1>1, <1>2, <1>8, <1>9, <1>11, <2>1, <2>3, InsideQuery DEF LookPCs
<1>12. CASE UNCHANGED <<node, source, rpc>>
  <2>1. rpc'[p] = "limbo" /\ rpc'[p] \notin LookPCs /\ Phase(p, "limbo")'
    BY <1>1, <1>2, <1>12 DEF Phase
  <2>2. \A m \in Targets(p) : Ahead(p, m) => Ahead(p, m)'
    <3> SUFFICES ASSUME NEW m \in Targets(p), Ahead(p, m) PROVE Ahead(p, m)'
      OBVIOUS
    <3>1. dtime[m] # NotSet /\ dtime[m] <= endTS[p] /\ InLimbo(p, m)'
      BY <1>2, <1>10, <2>1, AheadOf
    <3> QED BY <1>1, <1>2, <2>1, <3>1 DEF Ahead
  <2> QED BY <1>1, <1>2, <1>9, <2>1, <2>2, InsideQuery DEF LookPCs
<1> QED BY <1>4, <1>11, <1>12

\* What holds of the queries stays true.
LEMMA StepQueries ==
  ASSUME RwInv, NEW p \in Procs, Step(p)
  PROVE  Queries'
<1>1. CASE ProviderQuery(p)
  <2>1. QueryStep(p)
    BY <1>1 DEF ProviderQuery
  <2>2. Query(p)'
    BY <1>1, <2>1, AdvanceQuery, UnlockQuery, AwaitQuery, DTimeQuery, CountQuery, EntryQuery, OpenQuery, VisitQuery
       DEF QueryStep
  <2> QED BY <2>2, OthersQuery DEF Queries
<1>2. CASE ~ProviderQuery(p)
  <2>1. Query(p)'
    BY <1>2, PlainSteps, FinishQuery, BeginQueryQuery, TraverseQuery, EndQueryList, MarkQuery DEF Step, ListStep
  <2> QED BY <2>1, OthersQuery DEF Queries
<1> QED BY <1>1, <1>2

-----------------------------------------------------------------------------
(***************************************************************************)
(* The invariant.                                                          *)
(***************************************************************************)
LEMMA InitTypes ==
  ASSUME RwlockListInit
  PROVE  Types
<1>1. ListTypes
  <2>1. todo \in [Procs -> Seq(Operation)]
    BY RwlockListAssumption DEF RwlockListInit, ListInit
  <2>2. InitKey \in [Nodes -> Int] /\ InitNodes \subseteq Nodes /\ HeadNode \in InitNodes /\ MaxNode \in InitNodes
        /\ HeadNode \in Nodes /\ Clients = Procs
    BY Basics, RwlockKeysAssumption, RwlockStartAssumption
  <2> QED BY <2>1, <2>2 DEF RwlockListInit, ListInit, ListTypes, LPCs
<1>2. UpdateTypes
  <2>1. InitNext \in [Nodes -> Nodes \cup {NoNode}] /\ InitITime \in [Nodes -> Nat] /\ RqNodes = Nodes
    BY Basics, RwlockAssumption, RwlockStartAssumption DEF NotSet
  <2>2. <<>> \in Seq(Nodes)
    BY EmptySeq
  <2>3. /\ next \in [Nodes -> Nodes \cup {NoNode}] /\ marked \in [Nodes -> BOOLEAN]
        /\ timestamp \in Nat \ {0} /\ readers \in Int /\ writer \in BOOLEAN
        /\ itime \in [Nodes -> Nat] /\ dtime \in [Nodes -> Nat]
    <3>1. /\ next = InitNext /\ marked = [n \in Nodes |-> FALSE] /\ timestamp = 1 /\ readers = 0 /\ writer = FALSE
          /\ itime = InitITime /\ dtime = [n \in Nodes |-> 0]
      BY <2>1 DEF RwlockListInit, RqInit, NotSet
    <3>2. marked \in [Nodes -> BOOLEAN]
      BY <3>1, Zenon
    <3>3. writer \in BOOLEAN
      BY <3>1
    <3>4. next \in [Nodes -> Nodes \cup {NoNode}] /\ itime \in [Nodes -> Nat]
      BY <2>1, <3>1
    <3>5. timestamp \in Nat \ {0} /\ readers \in Int /\ dtime \in [Nodes -> Nat]
      BY <3>1
    <3> QED BY <3>2, <3>3, <3>4, <3>5
  <2>4. /\ announcements \in [Procs -> Nodes \cup {NoNode}] /\ numAnnouncements \in [Procs -> {0, 1}]
        /\ bag \in [Procs -> Seq(Nodes)] /\ rpc \in [Procs -> RPCs]
        /\ ins \in [Procs -> Nodes \cup {NoNode}] /\ del \in [Procs -> Nodes \cup {NoNode}]
        /\ uts \in [Procs -> Nat]
    BY <2>2 DEF RwlockListInit, RqInit, RPCs
  <2> QED BY <2>3, <2>4 DEF UpdateTypes
<1>3. QueryTypes
  BY EmptySeq DEF RwlockListInit, RqInit, QueryTypes
<1> QED BY <1>1, <1>2, <1>3 DEF Types

\* The invariant holds at the start, and after every step.
LEMMA InitInvariant ==
  ASSUME RwlockListInit
  PROVE  RwInv
<1>1. /\ Types /\ Clients = Procs /\ RqNodes = Nodes /\ HeadNode \in Nodes /\ MaxNode \in Nodes /\ NoNode \notin Nodes
      /\ HeadNode # MaxNode
  BY InitTypes, Basics
<1>2. /\ key = InitKey /\ alloc = InitNodes /\ next = InitNext /\ marked = [n \in Nodes |-> FALSE]
      /\ timestamp = 1 /\ readers = 0 /\ writer = FALSE
      /\ itime = InitITime /\ dtime = [n \in Nodes |-> NotSet]
      /\ \A p \in Procs :
           /\ rpc[p] = "idle" /\ lpc[p] = "idle" /\ op[p] = [type |-> "none"]
           /\ pred[p] = HeadNode /\ curr[p] = HeadNode /\ ins[p] = NoNode /\ del[p] = NoNode
           /\ numAnnouncements[p] = 0 /\ bag[p] = <<>> /\ other[p] = 0 /\ limbo[p] = <<>> /\ got[p] = {}
  BY <1>1 DEF RwlockListInit, ListInit, RqInit
<1>3. "idle" \notin UpdatePCs \cup TraversePCs \cup CollectPCs /\ "idle" \notin LPCs \ {"idle"}
      /\ "idle" \notin BeforePCs /\ "idle" \notin MarkedPCs
  BY UpdateSteps DEF TraversePCs, CollectPCs, WritePCs, LookPCs
<1>4. Known = InitNodes /\ Listed = InitNodes /\ InitNodes \subseteq Nodes
  <2>1. \A n : ~Fresh(n)
    BY <1>2, <1>3 DEF Fresh
  <2>2. InitNodes \subseteq Nodes
    BY RwlockStartAssumption
  <2> QED BY <1>2, <2>1, <2>2 DEF Known, Listed
<1>5. Structure
  BY <1>1, <1>2, <1>4, RwlockStartAssumption DEF Structure, Known, Leads
<1>6. ASSUME NEW p \in Procs PROVE Own(p)
  <2>1. Calls(p)
    BY <1>2 DEF Calls, FoundLPCs, HoldLPCs, ChangeLPCs, UpdatePCs, InsertPCs, BeforePCs, DonePCs, TimedPCs,
       GonePCs, LookPCs
  <2>2. HoldsLocks(p) /\ Stands(p)
    BY <1>2, <1>4, RwlockStartAssumption DEF HoldsLocks, Stands, FoundLPCs, HoldLPCs, ChangeLPCs
  <2>3. Changes(p) /\ Shows(p)
    BY <1>2, UpdateSteps DEF Changes, Shows
  <2> QED BY <2>1, <2>2, <2>3 DEF Own
<1>7. RwLock
  <2>1. {q \in Procs : rpc[q] \in BeforePCs \cup {"readUnlock"}} = {}
    BY <1>2 DEF BeforePCs
  <2>2. Cardinality({}) = 0
    BY FS_EmptySet
  <2> QED BY <1>2, <2>1, <2>2 DEF RwLock, WritePCs
<1>8. Times
  <2>1. \A n \in Nodes : InitITime[n] \in {0, 1}
    BY <1>1, RwlockAssumption DEF NotSet
  <2>2. \A n \in Nodes : InitITime[n] = NotSet <=> n \notin InitNodes \ {HeadNode, MaxNode}
    BY RwlockStartAssumption
  <2> QED BY <1>1, <1>2, <1>4, <2>1, <2>2 DEF Times, NotSet
<1>9. Bags /\ Kept
  <2>1. DOMAIN <<>> = {}
    OBVIOUS
  <2> QED BY <1>2, <1>3, <1>4, <2>1, UpdateSteps DEF Bags, InOrder, Kept, TimedPCs
<1>10. ASSUME NEW p \in Procs PROVE Query(p)
  <2>1. DOMAIN <<>> = {} /\ p # 0
    BY Basics
  <2>2. rpc[p] \notin LookPCs
    BY <1>2 DEF LookPCs
  <2> QED BY <1>2, <2>1, <2>2 DEF Query, Looks, LookPCs
<1> QED BY <1>1, <1>5, <1>6, <1>7, <1>8, <1>9, <1>10 DEF RwInv, Queries

\* A stuttering step keeps the invariant,
LEMMA StutterInvariant ==
  ASSUME RwInv, UNCHANGED rwlockListVars
  PROVE  RwInv'
<1>1. /\ UNCHANGED <<key, lock, alloc, lpc, todo, op, pred, curr, newnode, next, marked>>
      /\ UNCHANGED <<timestamp, readers, writer, itime, dtime, announcements, numAnnouncements, bag,
                     rpc, ins, del, uts>>
      /\ UNCHANGED <<lin, endTS, node, source, wasMarked, other, limbo, got>>
  BY DEF rwlockListVars
<1>2. Types'
  BY <1>1 DEF RwInv, Types, ListTypes, UpdateTypes, QueryTypes
<1>3. (\A n : Fresh(n)' <=> Fresh(n)) /\ Known' = Known
  BY <1>1 DEF Fresh, Known
<1>4. Listed' = Listed
  BY <1>1, <1>3 DEF Listed, BeingErased
<1>5. Structure'
  BY <1>1, <1>3, <1>4 DEF RwInv, Structure, Leads
<1>6. \A p \in Procs : Own(p)'
  BY <1>1, <1>3 DEF RwInv, Own, Calls, HoldsLocks, Stands, Changes, Adjacent, Inserts, Erases, Shows
<1>7. RwLock' /\ Times'
  BY <1>1 DEF RwInv, RwLock, Times
<1>8. \A b : InOrder(b)' <=> InOrder(b)
  BY <1>1, <1>3 DEF InOrder
<1>9. Bags'
  BY <1>1, <1>8 DEF RwInv, Bags
<1>10. \A q, n : (InBag(q, n)' <=> InBag(q, n)) /\ (Announced(q, n)' <=> Announced(q, n))
  BY <1>1 DEF InBag, Announced
<1>11. Kept'
  BY <1>1, <1>10 DEF RwInv, Kept
<1>12. \A n, t : (Del(n, t)' <=> Del(n, t)) /\ (Alive(n, t)' <=> Alive(n, t))
  BY <1>1 DEF Ins, Del, Alive
<1>13. \A n, t : OnTrack(n, t)' <=> OnTrack(n, t)
  <2>1. \A n, t : NoGap(n, t)' <=> NoGap(n, t)
    BY <1>1, <1>4, <1>12 DEF NoGap
  <2> QED BY <1>1, <1>3, <2>1 DEF OnTrack
<1>14. \A p \in Procs : Query(p)'
  <2> TAKE p \in Procs
  <2>1. Looks(p)' <=> Looks(p)
    BY <1>1, <1>3, <1>12 DEF Looks
  <2>2. Targets(p)' = Targets(p)
    BY <1>1, <1>12 DEF Targets
  <2>3. \A n : Ahead(p, n)' <=> Ahead(p, n)
    BY <1>1, <1>4, <1>10 DEF Ahead, Phase, ToCome, InLimbo
  <2>4. \A k : InOrder(limbo[p][k])' <=> InOrder(limbo[p][k])
    BY <1>1, <1>8
  <2>5. Query(p)
    BY DEF RwInv, Queries
  <2>6. OnTrack(curr[p], lin[p])' <=> OnTrack(curr[p], lin[p])
    BY <1>1, <1>13
  <2>7. \A n : Alive(n, lin[p])' <=> Alive(n, lin[p])
    BY <1>1, <1>12
  <2> QED BY <1>1, <1>3, <2>1, <2>2, <2>3, <2>4, <2>5, <2>6, <2>7 DEF Query
<1> QED BY <1>2, <1>5, <1>6, <1>7, <1>9, <1>11, <1>14 DEF RwInv, Queries

\* and so does every step of a process.
LEMMA StepInvariant ==
  ASSUME RwInv, NEW p \in Procs, Step(p)
  PROVE  RwInv'
BY StepFits, StepStructure, StepOwn, StepRwLock, StepTimes, StepBags, StepKept, StepQueries DEF Step, Fits, RwInv

\* The inductive invariant.
THEOREM RwlockInvariance == RwlockListSpec => []RwInv
<1>1. RwInv /\ [RwlockListNext]_rwlockListVars => RwInv'
  BY StepInvariant, StutterInvariant DEF RwlockListNext, Step
<1> QED BY <1>1, InitInvariant, PTL DEF RwlockListSpec

-----------------------------------------------------------------------------
(***************************************************************************)
(* What a query returns.                                                   *)
(***************************************************************************)
\* The property looks at a node the way the invariant does.
LEMMA TimesAgree ==
  ASSUME RwInv, NEW n \in Nodes, NEW t
  PROVE  /\ InsertedBefore(n, t) <=> Ins(n, t)
         /\ DeletedAlready(n, t) <=> Del(n, t)
<1>1. Times /\ UpdateTypes /\ NoNode \notin Nodes /\ DonePCs = {"readUnlock", "times"}
  BY Basics DEF RwInv, Types, DonePCs
<1>2. ASSUME NEW q \in Procs, rpc[q] \in DonePCs, itime[n] = NotSet PROVE del[q] # n
  BY <1>1, <1>2 DEF Times
<1>3. ASSUME NEW q \in Procs, rpc[q] \in DonePCs, n \in {del[r] : r \in Procs} PROVE ins[q] # n
  <2>1. rpc[q] \in UpdatePCs /\ rpc[q] \in InsertPCs
    BY <1>3, UpdateSteps
  <2>2. ins[q] = n => itime[n] = NotSet
    BY <1>1, <2>1, InUpdate DEF Inserts
  <2>3. itime[n] # NotSet
    BY <1>1, <1>3 DEF Times
  <2> QED BY <2>2, <2>3
<1>4. InsertedBefore(n, t) <=> Ins(n, t)
  <2>1. CASE itime[n] # NotSet
    BY <2>1, TimesTell DEF InsertedBefore
  <2>2. CASE itime[n] = NotSet
    BY <1>1, <1>2, <2>2 DEF InsertedBefore, Ins, Pending
  <2> QED BY <2>1, <2>2
<1>5. DeletedAlready(n, t) <=> Del(n, t)
  <2>1. CASE dtime[n] # NotSet
    BY <2>1, TimesTell DEF DeletedAlready
  <2>2. CASE dtime[n] = NotSet
    BY <1>1, <1>3, <2>2 DEF DeletedAlready, Del, Pending
  <2> QED BY <2>1, <2>2
<1> QED BY <1>4, <1>5

\* A query that is done has found the nodes alive at its time, and no others.
LEMMA DoneCollects ==
  ASSUME RwInv, NEW p \in Procs, QueryDone(p)
  PROVE  ResultKeys(p) =
           {key[n] : n \in {m \in alloc \ {HeadNode, MaxNode} :
                              InsertedBefore(m, lin[p]) /\ ~DeletedAlready(m, lin[p])}}
             \cap InRange(op[p])
<1>1. /\ rpc[p] = "limbo" /\ limbo[p] = <<>> /\ rpc[p] \notin LookPCs /\ rpc[p] # "advance"
      /\ rpc[p] \in TraversePCs \cup CollectPCs
  BY DEF QueryDone, LookPCs, CollectPCs
<1>2. lpc[p] = "collect" /\ Query(p) /\ Known \subseteq alloc /\ alloc \subseteq Nodes
  BY <1>1, InQuery, NoOwner
<1>3. \A n \in got[p] : n \in Known \ {HeadNode, MaxNode} /\ Alive(n, lin[p])
  BY <1>1, <1>2 DEF Query
<1>4. \A n \in Targets(p) : n \in got[p]
  <2>1. \A n : ~InLimbo(p, n)
    BY <1>1 DEF InLimbo
  <2>2. \A n : ~Ahead(p, n)
    BY <1>1, <1>2, <2>1, AheadOf
  <2> QED BY <1>1, <1>2, <2>2 DEF Query
<1> DEFINE A == {m \in alloc \ {HeadNode, MaxNode} : InsertedBefore(m, lin[p]) /\ ~DeletedAlready(m, lin[p])}
<1>5. \A n \in alloc \ {HeadNode, MaxNode} : n \in A <=> Alive(n, lin[p])
  BY <1>2, TimesAgree DEF Alive
<1>6. got[p] \subseteq A
  BY <1>2, <1>3, <1>5
<1>7. ASSUME NEW n \in A, key[n] \in InRange(op[p]) PROVE n \in got[p]
  BY <1>2, <1>4, <1>5, <1>7 DEF Targets
<1>8. A \subseteq alloc \ {HeadNode, MaxNode}
  OBVIOUS
<1> HIDE DEF A
<1>9. ResultKeys(p) = {key[n] : n \in A} \cap InRange(op[p])
  BY <1>6, <1>7 DEF ResultKeys
<1> QED BY <1>9 DEF A

\* A query that has seen the list, the announcements and the bags has found exactly
\* the nodes of its range that were alive at its time.
THEOREM QueriesCollectAlive == RwlockListSpec => []CollectsAlive
<1>1. RwInv => CollectsAlive
  BY DoneCollects DEF CollectsAlive
<1> QED BY <1>1, RwlockInvariance, PTL

-----------------------------------------------------------------------------
(***************************************************************************)
(* Where a deleted node is found.                                          *)
(***************************************************************************)
\* One more step along the links.
Onward(S) == S \cup {next[n] : n \in S \ {MaxNode}}

\* What is reachable in n steps, from the number of steps.
Widens(g, n) == g = [i \in 0 .. n |-> IF i = 0 THEN {HeadNode} ELSE Onward(g[i - 1])]

\* These sets exist.
LEMMA ReachExists ==
  ASSUME NEW n \in Nat
  PROVE  \E g : Widens(g, n)
<1> DEFINE S == {i \in 0 .. n : \E g : Widens(g, i)}
<1>1. 0 \in S
  <2> DEFINE g == [i \in 0 .. 0 |-> {HeadNode}]
  <2>1. Widens(g, 0)
    BY DEF Widens
  <2> QED BY <2>1
<1>2. ASSUME NEW i \in 0 .. n - 1, i \in S PROVE i + 1 \in S
  <2>1. PICK g : Widens(g, i)
    BY <1>2
  <2> DEFINE h == [j \in 0 .. i + 1 |-> IF j = i + 1 THEN Onward(g[i]) ELSE g[j]]
  <2>2. ASSUME NEW j \in 0 .. i + 1 PROVE h[j] = IF j = 0 THEN {HeadNode} ELSE Onward(h[j - 1])
    <3>1. CASE j = i + 1
      <4>1. h[j] = Onward(g[i]) /\ j # 0 /\ j - 1 = i /\ i \in 0 .. i + 1 /\ i # i + 1
        BY <3>1
      <4>2. h[j - 1] = g[i]
        BY <4>1
      <4> QED BY <4>1, <4>2
    <3>2. CASE j # i + 1
      <4>1. j \in 0 .. i /\ h[j] = g[j] /\ (j # 0 => j - 1 \in 0 .. i /\ j - 1 \in 0 .. i + 1 /\ j - 1 # i + 1)
        BY <3>2
      <4>2. j # 0 => h[j - 1] = g[j - 1]
        BY <4>1
      <4>3. g[j] = IF j = 0 THEN {HeadNode} ELSE Onward(g[j - 1])
        BY <2>1, <4>1 DEF Widens
      <4> QED BY <4>1, <4>2, <4>3
    <3> QED BY <3>1, <3>2
  <2>3. h = [j \in 0 .. i + 1 |-> h[j]]
    OBVIOUS
  <2> HIDE DEF h
  <2>4. Widens(h, i + 1)
    BY <2>2, <2>3 DEF Widens
  <2>5. i + 1 \in 0 .. n
    OBVIOUS
  <2> QED BY <2>4, <2>5
<1> HIDE DEF S
<1>3. n \in S
  BY <1>1, <1>2, CountsUp
<1> QED BY <1>3 DEF S

\* While a node of the list is not reached, the next step reaches one more.
LEMMA ReachGrows ==
  ASSUME RwInv, NEW S \in SUBSET Known, HeadNode \in S, NEW m \in Listed, m \notin S
  PROVE  Onward(S) \subseteq Known /\ \E x \in S \ {MaxNode} : next[x] \notin S
<1>1. /\ Structure /\ Listed \subseteq Known /\ Known \subseteq alloc /\ alloc \subseteq Nodes /\ Listed \subseteq Nodes
      /\ \A n \in Nodes : key[n] \in Int
  BY ListedKnown DEF RwInv
<1>2. Onward(S) \subseteq Known
  BY <1>1 DEF Onward, Structure
<1>3. HeadNode \in Listed /\ \A n \in alloc \ {HeadNode, MaxNode} : key[HeadNode] < key[n] /\ key[n] < key[MaxNode]
  <2>1. ListTypes /\ HeadNode \in alloc
    BY DEF RwInv, Types, ListTypes
  <2> QED BY <1>1, <2>1, RwlockKeysAssumption DEF Structure, Known, Listed, ListTypes
<1>4. key[HeadNode] < key[m]
  <2>1. key[HeadNode] < key[MaxNode]
    BY RwlockKeysAssumption DEF RwInv, Types, ListTypes
  <2> QED BY <1>1, <1>3, <2>1
<1> DEFINE T == {d \in Nat : \E x \in S \cap Listed : d = key[m] - key[x] /\ key[x] < key[m]}
<1>5. T # {}
  <2>1. key[m] - key[HeadNode] \in Nat
    BY <1>1, <1>3, <1>4
  <2> QED BY <1>3, <1>4, <2>1
<1>6. PICK d \in T : \A e \in T : ~(<<e, d>> \in OpToRel(<, Nat))
  BY <1>5, NatLessThanWellFounded, WFMin
<1>7. \A e \in T : ~(e < d)
  BY <1>6 DEF OpToRel
<1>8. PICK x \in S \cap Listed : d = key[m] - key[x] /\ key[x] < key[m]
  BY <1>6
<1>9. x # MaxNode
  <2>1. m # MaxNode => key[m] < key[MaxNode]
    BY <1>1, <1>3, <1>4
  <2> QED BY <1>1, <1>8, <2>1
<1>10. next[x] \in Listed /\ key[x] < key[next[x]] /\ key[m] >= key[next[x]]
  BY <1>1, <1>8, <1>9 DEF Structure, Leads
<1>11. ASSUME next[x] \in S PROVE FALSE
  <2>1. key[next[x]] # key[m]
    BY <1>1, <1>10, <1>11 DEF Structure
  <2> DEFINE e == key[m] - key[next[x]]
  <2>2. key[m] \in Int /\ key[x] \in Int /\ key[next[x]] \in Int
    BY <1>1, <1>8, <1>10
  <2>3. e \in Nat /\ e < d /\ key[next[x]] < key[m]
    BY <1>8, <1>10, <2>1, <2>2
  <2>4. e \in T
    BY <1>10, <1>11, <2>3
  <2> QED BY <1>7, <2>3, <2>4
<1> QED BY <1>2, <1>8, <1>9, <1>11

\* Every node of the list is reachable.
LEMMA ListedReachable ==
  ASSUME RwInv
  PROVE  Listed \subseteq Reachable
<1> DEFINE n == Cardinality(Nodes)
           Body(g) == [i \in 0 .. n |-> IF i = 0 THEN {HeadNode} ELSE g[i - 1] \cup {next[x] : x \in g[i - 1] \ {MaxNode}}]
           reach == CHOOSE g : g = Body(g)
<1>1. n \in Nat /\ IsFiniteSet(Nodes) /\ Known \subseteq Nodes /\ HeadNode \in Known /\ Structure
  BY Basics, ListedKnown, FS_CardinalityType DEF RwInv, Structure, Known, Types, ListTypes
<1>2. Reachable = reach[n]
  BY DEF Reachable
<1> HIDE DEF n
<1>3. PICK g : Widens(g, n)
  BY <1>1, ReachExists
<1>4. g = Body(g)
  BY <1>3 DEF Widens, Onward
<1>5. reach = Body(reach)
  BY <1>4
<1> HIDE DEF reach
<1>6. reach[0] = {HeadNode} /\ \A i \in 0 .. n - 1 : reach[i + 1] = Onward(reach[i])
  <2>1. reach[0] = {HeadNode}
    BY <1>1, <1>5
  <2>2. ASSUME NEW i \in 0 .. n - 1 PROVE reach[i + 1] = Onward(reach[i])
    <3>1. i + 1 \in 0 .. n /\ i + 1 # 0 /\ (i + 1) - 1 = i
      BY <1>1
    <3>2. reach[i + 1] = reach[(i + 1) - 1] \cup {next[x] : x \in reach[(i + 1) - 1] \ {MaxNode}}
      BY <1>5, <3>1
    <3> QED BY <3>1, <3>2 DEF Onward
  <2> QED BY <2>1, <2>2
<1> DEFINE S == {i \in 0 .. n : /\ reach[i] \subseteq Known /\ HeadNode \in reach[i]
                                /\ Listed \subseteq reach[i] \/ Cardinality(reach[i]) >= i + 1}
<1>7. 0 \in S
  <2>1. Cardinality({HeadNode}) = 1
    BY FS_Singleton
  <2> QED BY <1>1, <1>6, <2>1
<1>8. ASSUME NEW i \in 0 .. n - 1, i \in S PROVE i + 1 \in S
  <2>1. i + 1 \in 0 .. n /\ reach[i + 1] = Onward(reach[i]) /\ reach[i] \subseteq Known /\ HeadNode \in reach[i]
    BY <1>1, <1>6, <1>8
  <2>2. reach[i] \subseteq reach[i + 1] /\ reach[i + 1] \subseteq Known
    BY <1>1, <2>1 DEF Onward, Structure, Known
  <2>3. CASE Listed \subseteq reach[i]
    BY <2>1, <2>2, <2>3
  <2>4. CASE ~(Listed \subseteq reach[i])
    <3>1. PICK x \in reach[i] \ {MaxNode} : next[x] \notin reach[i]
      BY <2>1, <2>4, ReachGrows
    <3>2. next[x] \in reach[i + 1]
      BY <2>1 DEF Onward
    <3>3. IsFiniteSet(reach[i]) /\ IsFiniteSet(reach[i + 1])
      BY <1>1, <2>2, FS_Subset
    <3> DEFINE R == reach[i] \cup {next[x]}
    <3>4. IsFiniteSet(R) /\ Cardinality(R) = Cardinality(reach[i]) + 1
      BY <3>1, <3>3, FS_AddElement
    <3>5. Cardinality(R) <= Cardinality(reach[i + 1])
      BY <2>2, <3>2, <3>3, FS_Subset
    <3>6. Cardinality(reach[i]) \in Nat /\ Cardinality(reach[i + 1]) \in Nat
      BY <3>3, FS_CardinalityType
    <3>7. Cardinality(reach[i]) >= i + 1
      BY <1>8, <2>4
    <3>8. Cardinality(reach[i + 1]) >= (i + 1) + 1
      BY <3>4, <3>5, <3>6, <3>7
    <3> QED BY <2>1, <2>2, <3>8
  <2> QED BY <2>3, <2>4
<1> HIDE DEF S
<1>9. n \in S
  BY <1>1, <1>7, <1>8, CountsUp
<1>10. ~(Cardinality(reach[n]) >= n + 1)
  <2>1. reach[n] \subseteq Nodes
    BY <1>1, <1>9 DEF S
  <2>2. Cardinality(reach[n]) <= n /\ Cardinality(reach[n]) \in Nat
    BY <1>1, <2>1, FS_Subset, FS_CardinalityType DEF n
  <2> QED BY <1>1, <2>2
<1> QED BY <1>2, <1>9, <1>10 DEF S

\* A node with a mark can be reached, or is announced or in a bag.
THEOREM DeletedNodesAreFound == RwlockListSpec => []DeletedIsFound
<1>1. ASSUME RwInv PROVE DeletedIsFound
  <2> SUFFICES ASSUME NEW n \in alloc, marked[n]
               PROVE  \/ n \in Reachable
                      \/ \E p \in Procs : Announced(p, n) \/ InBag(p, n)
    BY DEF DeletedIsFound, Announced, InBag
  <2>1. ASSUME NEW q \in Procs, rpc[q] \in MarkedPCs, del[q] = n PROVE n \in Reachable
    <3>1. ~Fresh(n)
      <4> SUFFICES ASSUME NEW r \in Procs, rpc[r] \in BeforePCs, ins[r] = n PROVE FALSE
        BY DEF Fresh
      <4>1. rpc[r] \in UpdatePCs /\ rpc[r] \in InsertPCs
        BY UpdateSteps
      <4>2. n \in Nodes /\ n # NoNode
        BY <1>1, NoOwner, Basics
      <4> QED BY <1>1, <4>1, <4>2, InUpdate DEF Inserts
    <3>2. n \in Listed
      BY <2>1, <3>1 DEF Listed, Known, BeingErased
    <3> QED BY <1>1, <3>2, ListedReachable
  <2>2. ASSUME NEW q \in Procs, rpc[q] \in GonePCs, del[q] = n PROVE Announced(q, n)
    BY <1>1, <2>2, NoOwner DEF Own, Shows, GonePCs, Announced
  <2>3. Kept
    BY <1>1 DEF RwInv
  <2> QED BY <2>1, <2>2, <2>3 DEF Kept
<1> QED BY <1>1, RwlockInvariance, PTL

-----------------------------------------------------------------------------
(***************************************************************************)
(* Linearizability.                                                        *)
(***************************************************************************)
\* The keys of the set the list stands for, and those it had at time t.
AbstractKeys == {key[n] : n \in {m \in Known \ {HeadNode, MaxNode} : ~marked[m]}}
KeysAt(t) == {key[n] : n \in {m \in Nodes : Alive(m, t)}}

\* The calls that have not returned, and the updates among them that are done.
Active == {q \in Procs : lpc[q] # "idle"}
UnlockLPCs == {"unlockCurr", "unlockPred"}
TookEffect(p) ==
  \/ lpc[p] = "update" /\ rpc[p] \notin BeforePCs
  \/ lpc[p] \in UnlockLPCs /\ verdict[p] = "yes"

\* The calls O are open; the others have taken effect, each with a result that is in
\* its set of R.
Choice(R, O, D) ==
  /\ O \subseteq Active /\ D = [q \in Active \ O |-> D[q]]
  /\ \A q \in O : ~TookEffect(q)
  /\ \A q \in Active \ O : D[q] \in R[q]

\* The calls can have led to the set of now, whatever is chosen.
Explains(R) == \A O, D : Choice(R, O, D) => Config(AbstractKeys, O, D) \in Closure(configs, op)

\* From n on, the key k is passed in the list only: a node that has left it neither
\* has the key nor leads past it.
Path(n, k) ==
  \E T \in SUBSET Known : n \in T /\
    \A x \in T \ {MaxNode} :
      /\ next[x] \in T
      /\ x \in Listed \/ (key[x] # k /\ ~(key[x] < k /\ k < key[next[x]]))

\* What p can report when it returns, or can still find, is in its set E.
Saw(p, E) ==
  /\ TookEffect(p) => <<op[p].lo>> \in E
  /\ lpc[p] \in UnlockLPCs /\ verdict[p] = "no" => <<>> \in E
  /\ lpc[p] = "search" /\ op[p].type \in {"contains", "erase"} => <<>> \in E \/ Path(curr[p], op[p].lo)
  /\ lpc[p] = "mark" => <<>> \in E \/ (key[curr[p]] = op[p].lo /\ Path(curr[p], op[p].lo))
  /\ lpc[p] \in {"query", "collect"} /\ rpc[p] # "advance" =>
       Ascending(InRange(op[p]) \cap KeysAt(lin[p])) \in E

Verdicts ==
  /\ verdict \in [Procs -> {"none", "yes", "no", "retry"}]
  /\ \A p \in Procs : /\ lpc[p] \in UnlockLPCs => verdict[p] # "none"
                      /\ lpc[p] = "mark" => op[p].type = "contains"

Explained == \E R : Explains(R) /\ \A p \in Procs : Saw(p, R[p])

LinInv == Verdicts /\ (\A c \in configs : Formed(c, Active)) /\ Explained

-----------------------------------------------------------------------------
\* A call that would not change the set, and what it would report.
Reads(p) == p \in Active /\ ~TookEffect(p) /\ After(op[p], AbstractKeys) = AbstractKeys
Report(p) == ResultOf(op[p], AbstractKeys)

\* The calls that have not returned are calls of processes.
LEMMA ActiveClients == Active \in SUBSET Clients /\ Clients = Procs
BY Basics DEF Active

\* One of the calls takes effect.
LEMMA TakeOne ==
  ASSUME \A c \in configs : Formed(c, Active), NEW S, NEW O, NEW D, NEW p \in DOMAIN D \ O,
         D = [q \in DOMAIN D |-> D[q]], D[p] = ResultOf(op[p], S),
         Config(S, O \cup {p}, Drop(D, p)) \in Closure(configs, op)
  PROVE  Config(After(op[p], S), O, D) \in Closure(configs, op)
<1> DEFINE E == Drop(D, p)
           P == O \cup {p}
           c == Config(S, P, E)
<1>1. DOMAIN E = DOMAIN D \ {p} /\ \A q \in DOMAIN E : E[q] = D[q]
  BY DEF Drop
<1> HIDE DEF E, P
<1>2. c.keys = S /\ c.open = P /\ c.done = E
  BY ConfigFields
<1>3. Effect(c, op, p) \in Closure(configs, op)
  <2>1. p \in c.open /\ c \in Closure(configs, op)
    BY <1>2 DEF P, E
  <2> HIDE DEF c
  <2> QED BY <2>1, ActiveClients, ClosureClosed
<1> HIDE DEF c
<1>4. Effect(c, op, p) = Config(After(op[p], S), P \ {p}, Extend(E, p, D[p]))
  BY <1>2 DEF Effect
<1>5. P \ {p} = O
  BY DEF P
<1>6. Extend(E, p, D[p]) = D
  <2>1. DOMAIN E \cup {p} = DOMAIN D
    BY <1>1
  <2>2. \A q \in DOMAIN D : (IF q = p THEN D[p] ELSE E[q]) = D[q]
    BY <1>1
  <2> QED BY <2>1, <2>2 DEF Extend
<1> QED BY <1>3, <1>4, <1>5, <1>6

\* A call that would not change the set may take effect now.
LEMMA ReadOne ==
  ASSUME \A c \in configs : Formed(c, Active), NEW R, Explains(R), NEW p \in Procs, Reads(p)
  PROVE  Explains([q \in Procs |-> IF q = p THEN R[p] \cup {Report(p)} ELSE R[q]])
<1> DEFINE R2 == [q \in Procs |-> IF q = p THEN R[p] \cup {Report(p)} ELSE R[q]]
<1> SUFFICES ASSUME NEW O, NEW D, Choice(R2, O, D)
             PROVE  Config(AbstractKeys, O, D) \in Closure(configs, op)
  BY DEF Explains
<1>1. /\ O \subseteq Active /\ D = [q \in Active \ O |-> D[q]] /\ p \in Active /\ Active \subseteq Procs
      /\ \A q \in O : ~TookEffect(q)
  BY DEF Choice, Reads, Active
<1>2. \A q \in Active \ O : D[q] \in R[q] \/ (q = p /\ D[p] = Report(p))
  BY <1>1 DEF Choice
<1> HIDE DEF R2
<1>3. CASE p \in O \/ D[p] \in R[p]
  <2>1. Choice(R, O, D)
    BY <1>1, <1>2, <1>3 DEF Choice
  <2> QED BY <2>1 DEF Explains
<1>4. CASE p \notin O /\ D[p] \notin R[p]
  <2> DEFINE P == O \cup {p}
             E == Drop(D, p)
  <2>1. D[p] = Report(p) /\ DOMAIN D = Active \ O
    BY <1>1, <1>2, <1>4
  <2>2. E = [q \in Active \ P |-> D[q]]
    BY <2>1 DEF Drop
  <2>3. \A q \in Active \ P : E[q] = D[q] /\ D[q] \in R[q]
    BY <1>2, <2>2
  <2>4. E = [q \in Active \ P |-> E[q]] /\ ~TookEffect(p)
    BY <2>2 DEF Reads
  <2> HIDE DEF E
  <2>5. Choice(R, P, E)
    BY <1>1, <2>3, <2>4 DEF Choice
  <2>6. Config(AbstractKeys, O \cup {p}, Drop(D, p)) \in Closure(configs, op)
    BY <2>5 DEF Explains, E
  <2> QED BY <1>1, <1>4, <2>1, <2>6, TakeOne DEF Reads, Report
<1> QED BY <1>3, <1>4

\* So may all such calls.
LEMMA ReadAll ==
  ASSUME \A c \in configs : Formed(c, Active), NEW R, Explains(R)
  PROVE  \E R2 : /\ Explains(R2) /\ \A q \in Procs : R[q] \subseteq R2[q]
                 /\ \A q \in Procs : Reads(q) => Report(q) \in R2[q]
<1> DEFINE Upto(i, R2) == /\ Explains(R2) /\ \A q \in Procs : R[q] \subseteq R2[q]
                          /\ \A q \in Procs : q <= i /\ Reads(q) => Report(q) \in R2[q]
           T == {i \in 0 .. NumProcs : \E R2 : Upto(i, R2)}
<1>1. NumProcs \in Nat /\ Procs = 1 .. NumProcs
  BY Basics DEF Procs
<1>2. 0 \in T
  <2>1. Upto(0, R)
    BY <1>1
  <2> QED BY <1>1, <2>1
<1>3. ASSUME NEW i \in 0 .. NumProcs - 1, i \in T PROVE i + 1 \in T
  <2>1. PICK R2 : Upto(i, R2)
    BY <1>3
  <2>2. i + 1 \in Procs /\ i + 1 \in 0 .. NumProcs /\ \A q \in Procs : q <= i + 1 => q <= i \/ q = i + 1
    BY <1>1
  <2> DEFINE p == i + 1
  <2>3. CASE Reads(p)
    <3> DEFINE R3 == [q \in Procs |-> IF q = p THEN R2[p] \cup {Report(p)} ELSE R2[q]]
    <3>1. Explains(R3)
      BY <2>1, <2>2, <2>3, ReadOne
    <3>2. \A q \in Procs : R2[q] \subseteq R3[q]
      OBVIOUS
    <3>3. Report(p) \in R3[p]
      BY <2>2
    <3> HIDE DEF R3, p
    <3>4. Upto(i + 1, R3)
      BY <2>1, <2>2, <3>1, <3>2, <3>3 DEF p
    <3> QED BY <2>2, <3>4
  <2>4. CASE ~Reads(p)
    <3>1. Upto(i + 1, R2)
      BY <2>1, <2>2, <2>4
    <3> QED BY <2>2, <3>1
  <2> QED BY <2>3, <2>4
<1>4. NumProcs \in T
  <2> HIDE DEF T
  <2>1. NumProcs \in Nat
    BY <1>1
  <2>2. 0 .. NumProcs \subseteq T
    BY ONLY <1>2, <1>3, <2>1, CountsUp
  <2> QED BY <2>1, <2>2
<1>5. PICK R2 : Upto(NumProcs, R2)
  BY <1>4
<1> QED BY <1>1, <1>5

-----------------------------------------------------------------------------
\* The keys an operation is about.
LEMMA OneKey ==
  ASSUME NEW c \in Operation
  PROVE  /\ c.lo \in Int /\ c.lo \in SetKeys
         /\ c.type # "range" => InRange(c) = {c.lo}
<1>1. c.lo \in SetKeys /\ c.hi \in SetKeys /\ SetKeys \subseteq Int /\ (c.type # "range" => c.lo = c.hi)
  BY RwlockKeysAssumption DEF Operation
<1>2. ASSUME NEW k \in SetKeys, c.type # "range" PROVE c.lo <= k /\ k <= c.hi <=> k = c.lo
  <2>1. k \in Int /\ c.lo \in Int /\ c.hi = c.lo
    BY <1>1, <1>2
  <2> QED BY <2>1
<1> QED BY <1>1, <1>2 DEF InRange

\* What the calls report.
LEMMA WhatReads ==
  ASSUME ListTypes, NEW p \in Procs, op[p] \in Operation, p \in Active, ~TookEffect(p)
  PROVE  /\ op[p].type \in {"contains", "erase"} /\ op[p].lo \notin AbstractKeys => Reads(p) /\ Report(p) = <<>>
         /\ op[p].type = "contains" /\ op[p].lo \in AbstractKeys => Reads(p) /\ Report(p) = <<op[p].lo>>
         /\ op[p].type = "insert" /\ op[p].lo \in AbstractKeys => Reads(p) /\ Report(p) = <<>>
         /\ op[p].type = "range" => Reads(p) /\ Report(p) = Ascending(InRange(op[p]) \cap AbstractKeys)
<1> DEFINE k == op[p].lo  S == AbstractKeys
<1>1. k \in Int /\ (op[p].type # "range" => InRange(op[p]) = {k})
  BY OneKey
<1>2. (k \notin S => {k} \cap S = {} /\ S \ {k} = S) /\ (k \in S => {k} \cap S = {k} /\ S \cup {k} = S /\ {k} \ S = {})
  OBVIOUS
<1> HIDE DEF k, S
<1>3. CASE op[p].type = "contains"
  <2>1. After(op[p], S) = S /\ ResultOf(op[p], S) = Ascending({k} \cap S)
    BY <1>1, <1>3 DEF After, ResultOf
  <2> QED BY <1>1, <1>2, <1>3, <2>1, AscendingNone, AscendingOne DEF Reads, Report, k, S
<1>4. CASE op[p].type = "erase"
  <2>1. After(op[p], S) = S \ {k} /\ ResultOf(op[p], S) = Ascending({k} \cap S)
    BY <1>1, <1>4 DEF After, ResultOf
  <2> QED BY <1>1, <1>2, <1>4, <2>1, AscendingNone DEF Reads, Report, k, S
<1>5. CASE op[p].type = "insert"
  <2>1. After(op[p], S) = S \cup {k} /\ ResultOf(op[p], S) = Ascending({k} \ S)
    BY <1>1, <1>5 DEF After, ResultOf
  <2> QED BY <1>1, <1>2, <1>5, <2>1, AscendingNone DEF Reads, Report, k, S
<1>6. CASE op[p].type = "range"
  <2>1. After(op[p], S) = S /\ ResultOf(op[p], S) = Ascending(InRange(op[p]) \cap S)
    BY <1>6 DEF After, ResultOf
  <2> QED BY <1>6, <2>1 DEF Reads, Report, S
<1> QED BY <1>3, <1>4, <1>5, <1>6

\* What an update reports, and makes of the set.
LEMMA WhatChanges ==
  ASSUME NEW c \in Operation, NEW S
  PROVE  /\ c.type = "insert" /\ c.lo \notin S => ResultOf(c, S) = <<c.lo>> /\ After(c, S) = S \cup {c.lo}
         /\ c.type = "erase" /\ c.lo \in S => ResultOf(c, S) = <<c.lo>> /\ After(c, S) = S \ {c.lo}
<1> DEFINE k == c.lo
<1>1. k \in Int /\ (c.type # "range" => InRange(c) = {k})
  BY OneKey
<1>2. (k \notin S => {k} \ S = {k}) /\ (k \in S => {k} \cap S = {k})
  OBVIOUS
<1> HIDE DEF k
<1>3. CASE c.type = "insert"
  BY <1>1, <1>2, <1>3, AscendingOne DEF ResultOf, After, k
<1>4. CASE c.type = "erase"
  BY <1>1, <1>2, <1>4, AscendingOne DEF ResultOf, After, k
<1> QED BY <1>3, <1>4

-----------------------------------------------------------------------------
\* A key of the set has a node in the list.
LEMMA KeyListed ==
  ASSUME RwInv, NEW k \in AbstractKeys
  PROVE  \E m \in Listed \ {HeadNode, MaxNode} : ~marked[m] /\ key[m] = k
BY DEF AbstractKeys, Listed

\* An unmarked node of the list has a key of the set.
LEMMA ListedKey ==
  ASSUME NEW m \in Listed \ {HeadNode, MaxNode}, ~marked[m]
  PROVE  key[m] \in AbstractKeys
BY DEF AbstractKeys, Listed

\* A search that leads through the list does so until its key is not there.
LEMMA PathStays ==
  ASSUME RwInv, NEW p \in Procs, Step(p), NEW n \in Known, NEW k, Path(n, k)
  PROVE  k \notin AbstractKeys \/ Path(n, k)'
<1>1. PICK S \in SUBSET Known :
        n \in S /\ \A x \in S \ {MaxNode} :
                     next[x] \in S /\ (x \in Listed \/ (key[x] # k /\ ~(key[x] < k /\ k < key[next[x]])))
  BY DEF Path
<1>2. /\ Listed \subseteq Known /\ Known \subseteq alloc /\ alloc \subseteq Nodes /\ Listed \subseteq Nodes
      /\ (\A m \in Nodes : key[m] \in Int) /\ Known \subseteq Known' /\ (\A m \in alloc : key'[m] = key[m])
      /\ UpdateTypes /\ Structure
  BY ListedKnown, KnownGrows, StepFits, NoOwner DEF Step
<1>3. SUFFICES ASSUME k \in AbstractKeys
               PROVE  \E T \in SUBSET Known' : n \in T /\
                        \A x \in T \ {MaxNode} :
                          next'[x] \in T /\ (x \in Listed' \/ (key'[x] # k /\ ~(key'[x] < k /\ k < key'[next'[x]])))
  BY DEF Path
<1>4. ASSUME Listed \subseteq Listed', \A x \in S : next'[x] = next[x]
      PROVE  S \in SUBSET Known' /\
             \A x \in S \ {MaxNode} :
               next'[x] \in S /\ (x \in Listed' \/ (key'[x] # k /\ ~(key'[x] < k /\ k < key'[next'[x]])))
  BY <1>1, <1>2, <1>4
<1>5. CASE Keeps
  <2>1. Listed \subseteq Listed' /\ \A x \in S : next'[x] = next[x]
    BY <1>5 DEF Keeps
  <2> QED BY <1>1, <1>4, <2>1
<1>6. CASE \E a \in Nodes : Arrives(p, a)
  <2>1. PICK a \in Nodes : Arrives(p, a)
    BY <1>6
  <2>2. Listed \subseteq Listed' /\ \A x \in S : next'[x] = next[x]
    BY <1>2, <2>1 DEF Arrives, UpdateTypes
  <2> QED BY <1>1, <1>4, <2>2
<1>7. CASE Linearize(p) /\ Links(p)
  <2> DEFINE a == newnode[p]
  <2>1. /\ a \in alloc \ Known /\ pred[p] \in Listed \ {MaxNode} /\ curr[p] = next[pred[p]]
        /\ next[a] = curr[p] /\ next' = [next EXCEPT ![pred[p]] = a]
        /\ Listed' = Listed \cup {a} /\ Known' = Known \cup {a} /\ key' = key
    BY <1>7, LinearizeChanges DEF Links
  <2> HIDE DEF a
  <2>2. next'[pred[p]] = a /\ \A x \in Nodes : x # pred[p] => next'[x] = next[x]
    BY <1>2, <2>1 DEF UpdateTypes
  <2>3. a # MaxNode /\ a # pred[p] /\ next'[a] = curr[p]
    BY <1>2, <2>1, <2>2, HeadKnown
  <2>4. CASE pred[p] \in S
    <3> DEFINE T == S \cup {a}
    <3>1. T \in SUBSET Known' /\ n \in T /\ curr[p] \in S
      BY <1>1, <2>1, <2>4
    <3>2. ASSUME NEW x \in T \ {MaxNode}
          PROVE  next'[x] \in T /\ (x \in Listed' \/ (key'[x] # k /\ ~(key'[x] < k /\ k < key'[next'[x]])))
      <4>1. CASE x = pred[p] \/ x = a
        BY <2>1, <2>2, <2>3, <3>1, <4>1
      <4>2. CASE x \in S /\ x # pred[p]
        <5>1. next'[x] = next[x]
          BY <1>1, <1>2, <2>2, <4>2
        <5> QED BY <1>1, <2>1, <4>2, <3>2, <5>1
      <4> QED BY <3>2, <4>1, <4>2
    <3> HIDE DEF T
    <3> QED BY <3>1, <3>2
  <2>5. CASE pred[p] \notin S
    <3>1. Listed \subseteq Listed' /\ \A x \in S : next'[x] = next[x]
      BY <1>1, <1>2, <2>1, <2>2, <2>5
    <3> QED BY <1>1, <1>4, <3>1
  <2> QED BY <2>4, <2>5
<1>8. CASE Linearize(p) /\ Marks(p)
  <2>1. Listed \subseteq Listed' /\ \A x \in S : next'[x] = next[x]
    BY <1>8, LinearizeChanges DEF Marks
  <2> QED BY <1>1, <1>4, <2>1
<1>9. CASE Unlink(p) /\ Unlinks(p)
  <2>1. /\ curr[p] \in Listed \ {HeadNode, MaxNode} /\ pred[p] \in Listed \ {MaxNode} /\ next[pred[p]] = curr[p]
        /\ marked[curr[p]] /\ ~marked[pred[p]]
        /\ next' = [next EXCEPT ![pred[p]] = next[curr[p]]] /\ key' = key
        /\ Known' = Known /\ Listed' = Listed \ {curr[p]}
    BY <1>9, UnlinkChanges DEF Unlinks
  <2>2. next'[pred[p]] = next[curr[p]] /\ \A x \in Nodes : x # pred[p] => next'[x] = next[x]
    BY <1>2, <2>1 DEF UpdateTypes
  <2>3. pred[p] \in S => next[curr[p]] \in S
    BY <1>1, <2>1
  <2>4. key[curr[p]] # k /\ ~(key[curr[p]] < k /\ k < key[next[curr[p]]])
    <3>1. PICK m \in Listed \ {HeadNode, MaxNode} : ~marked[m] /\ key[m] = k
      BY <1>3, KeyListed
    <3>2. m # curr[p] /\ key[m] # key[curr[p]] /\ Leads(curr[p])
      BY <1>2, <2>1, <3>1 DEF Structure
    <3>3. key[m] > key[curr[p]] => key[m] >= key[next[curr[p]]]
      BY <3>1, <3>2 DEF Leads
    <3>4. key[m] \in Int /\ key[curr[p]] \in Int /\ key[next[curr[p]]] \in Int
      BY <1>2, <2>1, <3>1, <3>2 DEF Leads
    <3> QED BY <3>1, <3>2, <3>3, <3>4
  <2>5. ASSUME NEW x \in S \ {MaxNode}
        PROVE  next'[x] \in S /\ (x \in Listed' \/ (key'[x] # k /\ ~(key'[x] < k /\ k < key'[next'[x]])))
    <3>1. CASE x = pred[p]
      BY <2>1, <2>2, <2>3, <3>1
    <3>2. CASE x = curr[p]
      BY <1>1, <1>2, <2>1, <2>2, <2>4, <2>5, <3>2
    <3>3. CASE x # pred[p] /\ x # curr[p]
      <4>1. next'[x] = next[x]
        BY <1>1, <1>2, <2>2, <3>3
      <4> QED BY <1>1, <2>1, <2>5, <3>3, <4>1
    <3> QED BY <3>1, <3>2, <3>3
  <2> QED BY <1>1, <2>1, <2>5
<1>10. CASE Quiet(p) \/ UpdateKind(p)
  BY <1>5, <1>10, QuietKeeps, UpdateKeeps
<1>11. CASE Linearize(p)
  BY <1>7, <1>8, <1>11, LinearizeChanges, LinearizeLinks, LinearizeMarks
<1> QED BY <1>6, <1>9, <1>10, <1>11, StepKinds, InsertArrives, UnlinkUnlinks

\* A search starts on a path through the list.
LEMMA PathFromHead ==
  ASSUME RwInv, NEW k
  PROVE  Path(HeadNode, k)
<1>1. Structure /\ HeadNode \in Listed /\ Listed \subseteq Known
  BY HeadKnown, ListedKnown DEF RwInv, Structure, Listed
<1>2. \A x \in Listed \ {MaxNode} : next[x] \in Listed
  BY <1>1 DEF Structure, Leads
<1> QED BY <1>1, <1>2 DEF Path

\* It goes on along the path, and where it passes a key, that key is not in the set.
LEMMA PathOn ==
  ASSUME RwInv, NEW n \in Known \ {MaxNode}, NEW k, Path(n, k)
  PROVE  Path(next[n], k)
BY DEF Path

\* A path that passes a key by shows that the set has no such key,
LEMMA PathPasses ==
  ASSUME RwInv, NEW n \in Known \ {MaxNode}, NEW k, Path(n, k), key[n] < k, k < key[next[n]]
  PROVE  k \notin AbstractKeys
<1> SUFFICES ASSUME k \in AbstractKeys PROVE FALSE
  OBVIOUS
<1>1. n \in Listed /\ Structure
  BY NoOwner DEF Path, RwInv
<1>2. Leads(n) /\ (\A m \in Nodes : key[m] \in Int) /\ Listed \subseteq Nodes
  BY <1>1, ListedKnown DEF Structure
<1>3. PICK m \in Listed \ {HeadNode, MaxNode} : key[m] = k
  BY KeyListed
<1>4. key[m] \in Int /\ key[next[n]] \in Int
  BY <1>2, <1>3 DEF Leads
<1> QED BY <1>1, <1>2, <1>3, <1>4 DEF Leads

\* and so does a path to a marked node with the key.
LEMMA PathMarked ==
  ASSUME RwInv, NEW n \in Known \ {MaxNode}, NEW k, Path(n, k), key[n] = k, marked[n]
  PROVE  k \notin AbstractKeys
<1> SUFFICES ASSUME k \in AbstractKeys PROVE FALSE
  OBVIOUS
<1>1. n \in Listed /\ Structure
  BY NoOwner DEF Path, RwInv
<1>2. PICK m \in Listed \ {HeadNode, MaxNode} : ~marked[m] /\ key[m] = k
  BY KeyListed
<1> QED BY <1>1, <1>2 DEF Structure

-----------------------------------------------------------------------------
\* The set changes at the linearization points only.
LEMMA KeysStay ==
  ASSUME RwInv, NEW p \in Procs, Step(p), ~Linearize(p)
  PROVE  AbstractKeys' = AbstractKeys
<1>1. Known \subseteq alloc /\ alloc \subseteq Nodes /\ ListTypes
  BY ListedKnown, NoOwner
<1>2. Known' = Known /\ marked' = marked /\ \A m \in Known : key'[m] = key[m]
  <2>1. CASE Keeps
    BY <2>1 DEF Keeps
  <2>2. CASE \E a \in Nodes : Arrives(p, a)
    <3>1. PICK a \in Nodes : Arrives(p, a)
      BY <2>2
    <3> QED BY <1>1, <3>1 DEF Arrives, ListTypes
  <2>3. CASE Unlink(p) /\ Unlinks(p)
    BY <2>3, UnlinkChanges DEF Unlinks
  <2> QED BY <2>1, <2>2, <2>3, StepKinds, QuietKeeps, UpdateKeeps, InsertArrives, UnlinkUnlinks
<1> QED BY <1>2 DEF AbstractKeys

\* The link of an insert adds its key, which was not there,
LEMMA KeyLinked ==
  ASSUME RwInv, NEW p \in Procs, Linearize(p), op[p].type = "insert"
  PROVE  op[p].lo \notin AbstractKeys /\ AbstractKeys' = AbstractKeys \cup {op[p].lo}
<1> DEFINE a == newnode[p]
<1>1. /\ a \in alloc \ Known /\ pred[p] \in Listed \ {MaxNode} /\ curr[p] = next[pred[p]]
      /\ key[pred[p]] < key[a] /\ key[a] < key[curr[p]] /\ ~marked[a]
      /\ Known' = Known \cup {a} /\ key' = key /\ marked' = marked /\ rpc[p] = "write"
  BY LinearizeLinks, LinearizeChanges DEF Links
<1>2. key[a] = op[p].lo
  <2>1. rpc[p] \in BeforePCs /\ rpc[p] \in UpdatePCs
    BY <1>1, UpdateSteps
  <2> QED BY <2>1, InUpdate DEF Inserts
<1>3. Structure /\ HeadNode \in Known /\ MaxNode \in Known /\ (\A m \in Nodes : key[m] \in Int) /\ Listed \subseteq Nodes
      /\ Known \subseteq Nodes /\ alloc \subseteq Nodes
  BY HeadKnown, ListedKnown DEF RwInv
<1>4. op[p].lo \notin AbstractKeys
  <2> SUFFICES ASSUME op[p].lo \in AbstractKeys PROVE FALSE
    OBVIOUS
  <2>1. PICK m \in Listed : key[m] = key[a]
    BY <1>2, KeyListed
  <2>2. Leads(pred[p])
    BY <1>1, <1>3 DEF Structure
  <2>3. key[m] \in Int /\ key[pred[p]] \in Int /\ key[curr[p]] \in Int
    BY <1>1, <1>3, <2>1, <2>2 DEF Leads
  <2> QED BY <1>1, <2>1, <2>2, <2>3 DEF Leads
<1> HIDE DEF a
<1>5. AbstractKeys' = AbstractKeys \cup {key[a]}
  BY <1>1, <1>3 DEF AbstractKeys
<1> QED BY <1>2, <1>4, <1>5

\* and the mark of an erase removes its key, which was.
LEMMA KeyMarked ==
  ASSUME RwInv, NEW p \in Procs, Linearize(p), op[p].type = "erase"
  PROVE  op[p].lo \in AbstractKeys /\ AbstractKeys' = AbstractKeys \ {op[p].lo}
<1> DEFINE c == curr[p]
<1>1. /\ c \in Listed \ {HeadNode, MaxNode} /\ ~marked[c] /\ marked' = [marked EXCEPT ![c] = TRUE]
      /\ Known' = Known /\ key' = key /\ rpc[p] = "write"
  BY LinearizeMarks, LinearizeChanges DEF Marks
<1>2. key[c] = op[p].lo
  <2>1. rpc[p] \in UpdatePCs
    BY <1>1, UpdateSteps
  <2>2. lpc[p] = "update" /\ Own(p)
    BY <2>1, InUpdate, NoOwner
  <2> QED BY <2>2 DEF Own, Stands, FoundLPCs, HoldLPCs, ChangeLPCs
<1>3. Structure /\ UpdateTypes /\ Listed \subseteq Known /\ Known \subseteq Nodes
  BY NoOwner, ListedKnown
<1>4. key[c] \in AbstractKeys
  BY <1>1, ListedKey
<1> HIDE DEF c
<1>5. \A m \in Known : marked'[m] <=> (marked[m] \/ m = c)
  BY <1>1, <1>3 DEF UpdateTypes
<1>6. \A m \in Known : ~marked[m] /\ key[m] = key[c] => m = c
  BY <1>1, <1>3 DEF Structure, Listed
<1>7. AbstractKeys' = {key[m] : m \in {x \in Known \ {HeadNode, MaxNode} : ~marked[x] /\ x # c}}
  BY <1>1, <1>5 DEF AbstractKeys
<1>8. AbstractKeys' = AbstractKeys \ {key[c]}
  BY <1>6, <1>7 DEF AbstractKeys
<1> QED BY <1>2, <1>4, <1>8 DEF c

-----------------------------------------------------------------------------
\* What others see in a step of p.
LEMMA VerdictFrame ==
  ASSUME RwInv, NEW p \in Procs, Step(p), Verdicts, NEW q \in Procs, q # p
  PROVE  verdict'[q] = verdict[q]
<1>1. verdict' = verdict \/ \E v : verdict' = [verdict EXCEPT ![p] = v]
  BY DEF Step, ListCall, Call, ListStep, Search, Visit, EndContains, ReturnKeys, Return, ListLock, LockStep,
     LockPred, LockCurr, UnlockCurr, UnlockPred, ListValidate, Validate, Decide, BeginInsert, BeginErase, Linearize,
     Unlink, ProviderUpdate, Updated, BeginQuery, Traverse, TraverseEnd, LookAtMark, ProviderQuery, Finish
<1> QED BY <1>1 DEF Verdicts

\* A step of p leaves the local state of the others alone.
LEMMA OthersLocal ==
  ASSUME RwInv, NEW p \in Procs, Step(p), Verdicts, NEW q \in Procs, q # p
  PROVE  /\ lpc'[q] = lpc[q] /\ op'[q] = op[q] /\ curr'[q] = curr[q] /\ rpc'[q] = rpc[q] /\ lin'[q] = lin[q]
         /\ verdict'[q] = verdict[q] /\ (TookEffect(q)' <=> TookEffect(q))
<1>1. /\ lpc'[q] = lpc[q] /\ op'[q] = op[q] /\ curr'[q] = curr[q] /\ rpc'[q] = rpc[q] /\ lin'[q] = lin[q]
  BY StepFits DEF Step, Fits, ListFrame, UpdateFrame, QueryFrame
<1> QED BY <1>1, VerdictFrame DEF TookEffect

\* The keys at a time that has come do not change.
LEMMA KeysAtStay ==
  ASSUME RwInv, NEW p \in Procs, Step(p), NEW t \in Nat, t <= timestamp
  PROVE  KeysAt(t)' = KeysAt(t)
<1>1. \A n \in Nodes : Alive(n, t)' <=> Alive(n, t)
  BY AliveStays
<1>2. \A n \in Nodes : Alive(n, t) => key'[n] = key[n]
  BY AliveKnown, KnownGrows, StepFits DEF Alive, Known, Step
<1> QED BY <1>1, <1>2 DEF KeysAt

\* What another process has seen, it has still seen after a step of p.
LEMMA OthersSaw ==
  ASSUME RwInv, Verdicts, NEW p \in Procs, Step(p), NEW q \in Procs, q # p, NEW E, NEW F, Saw(q, E), E \subseteq F,
         Reads(q) => Report(q) \in F
  PROVE  Saw(q, F)'
<1>1. /\ lpc'[q] = lpc[q] /\ op'[q] = op[q] /\ curr'[q] = curr[q] /\ rpc'[q] = rpc[q] /\ lin'[q] = lin[q]
      /\ verdict'[q] = verdict[q] /\ (TookEffect(q)' <=> TookEffect(q))
  BY OthersLocal
<1>2. ListTypes /\ Own(q) /\ Query(q) /\ curr[q] \in Known /\ QueryTypes /\ Known \subseteq alloc
  BY NoOwner
<1>3. ASSUME lpc[q] \in {"search", "mark"}, op[q].type \in {"contains", "erase"}, Path(curr[q], op[q].lo)
      PROVE  <<>> \in F \/ Path(curr[q], op[q].lo)'
  <2>1. q \in Active /\ ~TookEffect(q) /\ op[q] \in Operation
    BY <1>2, <1>3, OpenOperation DEF Active, TookEffect, UnlockLPCs
  <2>2. op[q].lo \notin AbstractKeys => <<>> \in F
    BY <1>2, <1>3, <2>1, WhatReads
  <2>3. op[q].lo \notin AbstractKeys \/ Path(curr[q], op[q].lo)'
    BY <1>1, <1>2, <1>3, PathStays
  <2> QED BY <2>2, <2>3
<1>4. key'[curr[q]] = key[curr[q]]
  BY <1>2, StepFits, KnownGrows DEF Step
<1>5. lpc[q] \in {"query", "collect"} /\ rpc[q] # "advance" => KeysAt(lin[q])' = KeysAt(lin[q])
  <2> HAVE lpc[q] \in {"query", "collect"} /\ rpc[q] # "advance"
  <2>1. lin[q] \in Nat /\ lin[q] <= timestamp
    BY <1>2 DEF Query, QueryTypes
  <2> QED BY <1>1, <2>1, KeysAtStay
<1>6. lpc[q] = "mark" => op[q].type = "contains"
  BY DEF Verdicts
<1> QED BY <1>1, <1>3, <1>4, <1>5, <1>6 DEF Saw, InRange

-----------------------------------------------------------------------------
\* After a step of p, what it can report is in each set that has been extended by
\* what its call would have reported before.
Sees(p) == \A E, F : Saw(p, E) /\ E \subseteq F /\ (Reads(p) => Report(p) \in F) => Saw(p, F)'

\* Steps at which no call comes, returns or takes effect.
LEMMA InnerStep ==
  ASSUME RwInv, LinInv, NEW p \in Procs, Step(p), UNCHANGED <<configs, op>>, ~Linearize(p),
         lpc'[p] = "idle" <=> lpc[p] = "idle", TookEffect(p) => TookEffect(p)', Verdicts', Sees(p)
  PROVE  LinInv'
<1>1. PICK R : Explains(R) /\ \A q \in Procs : Saw(q, R[q])
  BY DEF LinInv, Explained
<1>2. PICK R2 : /\ Explains(R2) /\ \A q \in Procs : R[q] \subseteq R2[q]
                /\ \A q \in Procs : Reads(q) => Report(q) \in R2[q]
  BY <1>1, ReadAll DEF LinInv
<1>3. \A q \in Procs : q # p => lpc'[q] = lpc[q] /\ (TookEffect(q)' <=> TookEffect(q))
  BY OthersLocal DEF LinInv
<1>4. Active' = Active
  BY <1>3 DEF Active
<1>5. \A q \in Procs : Saw(q, R2[q])'
  <2> TAKE q \in Procs
  <2> DEFINE E == R[q]  F == R2[q]
  <2>1. Saw(q, E) /\ E \subseteq F /\ (Reads(q) => Report(q) \in F)
    BY <1>1, <1>2
  <2> HIDE DEF E, F
  <2>2. CASE q = p
    BY <2>1, <2>2 DEF Sees, F
  <2>3. CASE q # p
    BY <2>1, <2>3, OthersSaw DEF LinInv, F
  <2> QED BY <2>2, <2>3
<1>6. Explains(R2)'
  <2> SUFFICES ASSUME NEW O, NEW D, Choice(R2, O, D)'
               PROVE  Config(AbstractKeys, O, D) \in Closure(configs, op)
    BY KeysStay DEF Explains
  <2>1. Choice(R2, O, D)
    <3>1. Active \subseteq Procs
      BY DEF Active
    <3> QED BY <1>3, <1>4, <3>1 DEF Choice
  <2> QED BY <1>2, <2>1 DEF Explains
<1>7. \A c \in configs' : Formed(c, Active')
  BY <1>4 DEF LinInv
<1>8. (\A c \in configs : Formed(c, Active))'
  BY <1>7
<1> QED BY <1>5, <1>6, <1>8 DEF LinInv, Explained

-----------------------------------------------------------------------------
\* Where p stands when it writes the link or the mark.
LEMMA LinearizeIs ==
  ASSUME RwInv, NEW p \in Procs, Linearize(p)
  PROVE  rpc[p] = "write" /\ rpc'[p] = "readUnlock" /\ lpc[p] = "update" /\ UNCHANGED listVars
<1>1. rpc[p] = "write" /\ rpc' = [rpc EXCEPT ![p] = "readUnlock"] /\ UNCHANGED listVars
  BY LinearizeChanges
<1>2. rpc[p] \in UpdatePCs /\ UpdateTypes
  BY <1>1, UpdateSteps, NoOwner
<1> QED BY <1>1, <1>2, InUpdate DEF UpdateTypes

\* The places of the others, and where the verdicts are, after a step of p.
LEMMA VerdictsStay ==
  ASSUME RwInv, Verdicts, NEW p \in Procs, Step(p), NEW v \in {"none", "yes", "no", "retry"},
         verdict' = [verdict EXCEPT ![p] = v],
         lpc'[p] \in UnlockLPCs => v # "none", lpc'[p] = "mark" => op'[p].type = "contains"
  PROVE  Verdicts'
<1>1. verdict' \in [Procs -> {"none", "yes", "no", "retry"}] /\ verdict'[p] = v
  BY DEF Verdicts
<1>2. \A q \in Procs : q # p => lpc'[q] = lpc[q] /\ op'[q] = op[q] /\ verdict'[q] = verdict[q]
  BY OthersLocal
<1> QED BY <1>1, <1>2 DEF Verdicts

\* Steps at which a process sees nothing of the list that matters later.
LEMMA PlainStep ==
  ASSUME RwInv, LinInv, NEW p \in Procs, Step(p), ~Linearize(p), UNCHANGED <<configs, op, verdict>>,
         lpc[p] # "idle", lpc'[p] \notin UnlockLPCs \cup {"idle", "search", "mark"},
         TookEffect(p)' <=> TookEffect(p),
         lpc'[p] \in {"query", "collect"} /\ rpc'[p] # "advance" =>
           lpc[p] \in {"query", "collect"} /\ rpc[p] # "advance" /\ lin'[p] = lin[p]
  PROVE  LinInv'
<1>1. Verdicts /\ verdict \in [Procs -> {"none", "yes", "no", "retry"}]
  BY DEF LinInv, Verdicts
<1>2. verdict' = [verdict EXCEPT ![p] = verdict[p]] /\ verdict[p] \in {"none", "yes", "no", "retry"}
  BY <1>1
<1>3. Verdicts'
  BY <1>1, <1>2, VerdictsStay
<1>4. lpc'[p] \in {"query", "collect"} /\ rpc'[p] # "advance" => KeysAt(lin[p])' = KeysAt(lin[p])
  <2> HAVE lpc'[p] \in {"query", "collect"} /\ rpc'[p] # "advance"
  <2>1. lin[p] \in Nat /\ lin[p] <= timestamp
    BY NoOwner DEF Query, QueryTypes
  <2> QED BY <2>1, KeysAtStay
<1>5. Sees(p)
  <2> SUFFICES ASSUME NEW E, NEW F, Saw(p, E), E \subseteq F PROVE Saw(p, F)'
    BY DEF Sees
  <2> QED BY <1>4 DEF Saw, InRange
<1> QED BY <1>3, <1>5, InnerStep

\* Taking a lock is such a step,
LEMMA LockPlain ==
  ASSUME RwInv, LinInv, NEW p \in Procs, ListLock(p), LockPred(p) \/ LockCurr(p)
  PROVE  LinInv'
<1>1. ListTypes
  BY NoOwner
<1>2. /\ UNCHANGED <<configs, op, verdict>> /\ lpc[p] \in {"lockPred", "lockCurr"} /\ lpc'[p] \in {"lockCurr", "validate"}
      /\ UNCHANGED rqVars
  BY <1>1 DEF ListLock, LockPred, LockCurr, Goto, ListTypes
<1>3. ~TookEffect(p) /\ ~TookEffect(p)'
  BY <1>2 DEF TookEffect, UnlockLPCs
<1>4. ~Linearize(p) /\ Step(p)
  BY <1>2, LinearizeIs DEF Step, ListStep
<1> QED BY <1>2, <1>3, <1>4, PlainStep DEF UnlockLPCs

\* the start of a call of the provider,
LEMMA BeginPlain ==
  ASSUME RwInv, LinInv, NEW p \in Procs, BeginInsert(p) \/ BeginErase(p)
  PROVE  LinInv'
<1>1. ListTypes /\ UpdateTypes
  BY NoOwner
<1>2. /\ UNCHANGED <<configs, op, verdict>> /\ lpc[p] = "change" /\ lpc'[p] = "update"
      /\ rpc'[p] = "readLock"
  BY <1>1 DEF BeginInsert, BeginErase, BeginUpdate, Allocate, At, Goto, ListTypes, UpdateTypes
<1>3. ~TookEffect(p) /\ ~TookEffect(p)'
  BY <1>2 DEF TookEffect, UnlockLPCs, BeforePCs
<1>4. ~Linearize(p) /\ Step(p)
  BY <1>2, LinearizeIs DEF Step, ListStep
<1> QED BY <1>2, <1>3, <1>4, PlainStep DEF UnlockLPCs

\* the steps of the provider around the write,
LEMMA UpdatePlain ==
  ASSUME RwInv, LinInv, NEW p \in Procs, ProviderUpdate(p) \/ Unlink(p)
  PROVE  LinInv'
<1>1. ListTypes /\ UpdateTypes
  BY NoOwner
<1>2. UNCHANGED listVars
  BY DEF ProviderUpdate, Unlink
<1>3. rpc[p] \in UpdatePCs /\ rpc[p] # "write" /\ (rpc'[p] \in BeforePCs <=> rpc[p] \in BeforePCs)
  BY <1>1 DEF ProviderUpdate, UpdateStep, ReadLocked, ReadUnlock,
     SetTimes, Announce, CountAnnouncement, Retire, Withdraw, Unlink, Unlinked, At,
     UpdatePCs, InsertPCs, BeforePCs, DonePCs, TimedPCs, GonePCs, UpdateTypes
<1>4. lpc[p] = "update" /\ lpc' = lpc /\ verdict' = verdict /\ op' = op /\ configs' = configs
  BY <1>2, <1>3, InUpdate
<1>5. TookEffect(p)' <=> TookEffect(p)
  BY <1>3, <1>4 DEF TookEffect, UnlockLPCs
<1>6. ~Linearize(p) /\ Step(p)
  BY <1>3, LinearizeIs DEF Step, ListStep
<1> QED BY <1>4, <1>5, <1>6, PlainStep DEF UnlockLPCs

\* and the steps of a query after its time is taken.
LEMMA QueryPlain ==
  ASSUME RwInv, LinInv, NEW p \in Procs,
         \/ BeginQuery(p) \/ Traverse(p) \/ TraverseEnd(p) \/ LookAtMark(p)
         \/ ProviderQuery(p) /\ ~AdvanceClock(p)
  PROVE  LinInv'
<1>1. ListTypes /\ UpdateTypes /\ QueryTypes
  BY NoOwner
<1>2. UNCHANGED <<configs, op, verdict>>
  BY DEF BeginQuery, Traverse, TraverseEnd, LookAtMark, ProviderQuery
<1>3. CASE BeginQuery(p)
  <2>1. lpc[p] = "start" /\ lpc'[p] = "query" /\ rpc'[p] = "advance" /\ rpc[p] = "idle"
    BY <1>1, <1>3 DEF BeginQuery, StartTraversal, Goto, At, ListTypes, UpdateTypes
  <2>2. ~TookEffect(p) /\ ~TookEffect(p)'
    BY <2>1 DEF TookEffect, UnlockLPCs
  <2>3. ~Linearize(p) /\ Step(p)
    BY <1>3, <2>1, LinearizeIs DEF Step, ListStep
  <2> QED BY <1>2, <2>1, <2>2, <2>3, PlainStep DEF UnlockLPCs
<1>4. CASE ~BeginQuery(p)
  <2>1. lin' = lin /\ rpc[p] \in TraversePCs \cup CollectPCs /\ rpc[p] # "advance"
    BY <1>4 DEF TraversePCs, CollectPCs, WritePCs, LookPCs,
       Traverse, TraverseEnd, EndTraversal,
       LookAtMark, ReadMark, ProviderQuery, QueryStep, WriteUnlock, AwaitITime, ReadDTime, ReadCount,
       ReadEntry, OpenBags, VisitBag
  <2>2. lpc[p] \in {"query", "collect"}
    BY <2>1, InQuery
  <2>3. lpc'[p] \in {"query", "collect"}
    BY <1>1, <1>4, <2>2 DEF Traverse, TraverseEnd, LookAtMark, ProviderQuery, Goto, ListTypes
  <2>4. ~TookEffect(p) /\ ~TookEffect(p)'
    BY <2>2, <2>3 DEF TookEffect, UnlockLPCs
  <2>5. ~Linearize(p) /\ Step(p)
    BY <1>4, <2>2, LinearizeIs DEF Step, ListStep
  <2> QED BY <1>2, <2>1, <2>2, <2>3, <2>4, <2>5, PlainStep DEF UnlockLPCs
<1> QED BY <1>3, <1>4

-----------------------------------------------------------------------------
\* When a query moves the clock, the nodes of the set are those alive at its time.
LEMMA AliveNow ==
  ASSUME RwInv, NEW p \in Procs, rpc[p] = "advance"
  PROVE  KeysAt(timestamp + 1) = AbstractKeys
<1>1. /\ UpdateTypes /\ Times /\ RwLock /\ Known \subseteq alloc /\ alloc \subseteq Nodes /\ timestamp \in Nat
      /\ NoNode \notin Nodes
  BY NoOwner, ListedKnown, Basics DEF RwInv, UpdateTypes
<1>2. \A q \in Procs : rpc[q] \in DonePCs => rpc[q] = "times" /\ uts[q] <= timestamp /\ uts[q] \in Nat
  BY <1>1 DEF RwLock, WritePCs, DonePCs, UpdateTypes
<1>3. ASSUME NEW n \in Nodes PROVE Alive(n, timestamp + 1) <=> n \in Known \ {HeadNode, MaxNode} /\ ~marked[n]
  <2>1. ASSUME Alive(n, timestamp + 1) PROVE n \in Known \ {HeadNode, MaxNode} /\ ~marked[n]
    <3>1. n \in Known \ {HeadNode, MaxNode} /\ ~Del(n, timestamp + 1)
      BY <2>1, AliveKnown DEF Alive
    <3>2. dtime[n] = NotSet
      <4>1. dtime[n] \in Nat /\ dtime[n] <= timestamp
        BY <1>1 DEF Times, UpdateTypes
      <4> QED BY <1>1, <3>1, <4>1 DEF Del
    <3>3. ASSUME marked[n] PROVE FALSE
      <4>1. PICK q \in Procs : rpc[q] \in DonePCs /\ del[q] = n
        BY <1>1, <3>1, <3>2, <3>3 DEF Times
      <4>2. uts[q] < timestamp + 1
        BY <1>1, <1>2, <4>1
      <4> QED BY <3>1, <4>1, <4>2 DEF Del
    <3> QED BY <3>1, <3>3
  <2>2. ASSUME n \in Known \ {HeadNode, MaxNode}, ~marked[n] PROVE Alive(n, timestamp + 1)
    <3>1. ~Del(n, timestamp + 1)
      BY <2>2, TimesTell
    <3>2. CASE itime[n] # NotSet
      <4>1. itime[n] \in Nat /\ itime[n] <= timestamp
        BY <1>1 DEF Times, UpdateTypes
      <4>2. itime[n] < timestamp + 1
        BY <1>1, <4>1
      <4> QED BY <3>1, <3>2, <4>2 DEF Alive, Ins
    <3>3. CASE itime[n] = NotSet
      <4>1. PICK q \in Procs : ins[q] = n
        BY <1>1, <2>2, <3>3 DEF Times
      <4>2. rpc[q] \in InsertPCs
        BY <1>1, <4>1, NoOwner DEF Own, Calls
      <4>3. rpc[q] \in DonePCs
        BY <2>2, <4>1, <4>2 DEF InsertPCs, Known, Fresh
      <4>4. uts[q] < timestamp + 1
        BY <1>1, <1>2, <4>3
      <4> QED BY <3>1, <4>1, <4>3, <4>4 DEF Alive, Ins
    <3> QED BY <3>2, <3>3
  <2> QED BY <2>1, <2>2
<1> QED BY <1>1, <1>3 DEF KeysAt, AbstractKeys

\* A range query takes effect when it advances the clock.
LEMMA AdvanceStep ==
  ASSUME RwInv, LinInv, NEW p \in Procs, ProviderQuery(p), AdvanceClock(p)
  PROVE  LinInv'
<1>1. ListTypes /\ UpdateTypes /\ QueryTypes /\ Step(p)
  BY NoOwner DEF Step, ListStep
<1>2. /\ rpc[p] = "advance" /\ lin'[p] = timestamp + 1 /\ rpc' = [rpc EXCEPT ![p] = "writeUnlock"]
      /\ UNCHANGED <<configs, op, verdict, lpc, key>>
      /\ UNCHANGED <<nodeVars, linkVars, timeVars, announceVars, updateVars>>
  BY <1>1 DEF ProviderQuery, AdvanceClock, At, QueryTypes
<1>3. lpc[p] = "query" /\ op[p] \in Operation /\ op[p].type = "range"
  BY <1>2, InQuery DEF WritePCs, TraversePCs
<1>4. Quiet(p)
  <2>1. rpc[p] \notin UpdatePCs /\ "writeUnlock" \in RPCs \ UpdatePCs
    BY <1>2, QueryPlaces, InQuery DEF TraversePCs, WritePCs
  <2> QED BY <1>2, <2>1 DEF Quiet
<1>5. KeysAt(lin[p])' = AbstractKeys
  <2>1. \A n \in Nodes : Alive(n, lin[p])' <=> Alive(n, timestamp + 1)
    BY <1>2, <1>4, QuietSame
  <2>2. KeysAt(lin[p])' = KeysAt(timestamp + 1)
    BY <1>2, <2>1 DEF KeysAt
  <2> QED BY <1>2, <2>2, AliveNow
<1>6. ~TookEffect(p) /\ ~TookEffect(p)' /\ ~Linearize(p)
  BY <1>2, <1>3, LinearizeIs DEF TookEffect, UnlockLPCs
<1>7. Verdicts'
  BY <1>2 DEF LinInv, Verdicts
<1>8. Sees(p)
  <2> SUFFICES ASSUME NEW E, NEW F, Saw(p, E), E \subseteq F, Reads(p) => Report(p) \in F PROVE Saw(p, F)'
    BY DEF Sees
  <2>1. Ascending(InRange(op[p]) \cap AbstractKeys) \in F
    <3>1. p \in Active
      BY <1>3 DEF Active
    <3> QED BY <1>1, <1>3, <1>6, <3>1, WhatReads
  <2>2. Ascending(InRange(op[p]) \cap KeysAt(lin[p]))' = Ascending(InRange(op[p]) \cap AbstractKeys)
    BY <1>2, <1>5 DEF InRange
  <2> QED BY <1>2, <1>3, <1>6, <2>1, <2>2 DEF Saw, UnlockLPCs
<1> QED BY <1>1, <1>2, <1>6, <1>7, <1>8, InnerStep

\* An insert that finds its key finds it in the set.
LEMMA ValidateStep ==
  ASSUME RwInv, LinInv, NEW p \in Procs, ListValidate(p)
  PROVE  LinInv'
<1>1. ListTypes /\ Own(p) /\ Step(p) /\ Verdicts
  BY NoOwner DEF Step, ListStep, LinInv
<1>2. lpc[p] = "validate" /\ UNCHANGED <<configs, op, key, curr>> /\ UNCHANGED rqVars
  BY DEF ListValidate, Validate
<1>3. op[p] \in Operation /\ ~TookEffect(p) /\ ~Linearize(p)
  BY <1>1, <1>2, OpenOperation, LinearizeIs DEF TookEffect, UnlockLPCs
<1>4. CASE lpc'[p] = "change" /\ UNCHANGED verdict
  <2>1. ~TookEffect(p)'
    BY <1>4 DEF TookEffect, UnlockLPCs
  <2> QED BY <1>1, <1>2, <1>3, <1>4, <2>1, PlainStep DEF UnlockLPCs
<1>5. CASE \E v \in {"no", "retry"} : /\ verdict' = [verdict EXCEPT ![p] = v] /\ lpc'[p] = "unlockCurr"
                                      /\ v = "no" => op[p].type = "insert" /\ key[curr[p]] = op[p].lo /\ ~marked[curr[p]]
  <2>1. PICK v \in {"no", "retry"} : /\ verdict' = [verdict EXCEPT ![p] = v] /\ lpc'[p] = "unlockCurr"
                                     /\ v = "no" => op[p].type = "insert" /\ key[curr[p]] = op[p].lo /\ ~marked[curr[p]]
    BY <1>5
  <2>2. Verdicts' /\ verdict'[p] = v
    BY <1>1, <2>1, VerdictsStay DEF Verdicts
  <2>3. ~TookEffect(p)'
    BY <2>1, <2>2 DEF TookEffect
  <2>4. Sees(p)
    <3> SUFFICES ASSUME NEW E, NEW F, Saw(p, E), E \subseteq F, Reads(p) => Report(p) \in F PROVE Saw(p, F)'
      BY DEF Sees
    <3>1. ASSUME v = "no" PROVE <<>> \in F
      <4>1. curr[p] \in Listed /\ ~marked[curr[p]] /\ key[curr[p]] = op[p].lo /\ op[p].type = "insert"
        BY <1>1, <2>1, <3>1 DEF Own, Stands, Listed
      <4>2. curr[p] \notin {HeadNode, MaxNode}
        BY <1>1, <1>3, <4>1, OperationKeys
      <4>3. op[p].lo \in AbstractKeys /\ p \in Active
        BY <1>2, <4>1, <4>2, ListedKey DEF Active
      <4> QED BY <1>1, <1>3, <4>1, <4>3, WhatReads
    <3> QED BY <2>1, <2>2, <2>3, <3>1 DEF Saw, UnlockLPCs
  <2> QED BY <1>1, <1>2, <1>3, <2>1, <2>2, <2>4, InnerStep
<1>6. CASE ~ValidateLinks(p)
  BY <1>1, <1>5, <1>6 DEF ListValidate, Validate, Decide, Goto, ListTypes
<1>7. CASE ValidateLinks(p) /\ op[p].type = "insert" /\ key[curr[p]] = op[p].lo
  BY <1>1, <1>5, <1>7 DEF ListValidate, Validate, ValidateLinks, Decide, Goto, ListTypes
<1>8. CASE ValidateLinks(p) /\ ~(op[p].type = "insert" /\ key[curr[p]] = op[p].lo)
  BY <1>1, <1>4, <1>8 DEF ListValidate, Validate, Goto, ListTypes
<1> QED BY <1>6, <1>7, <1>8

\* The list is the same, and so are the ways through it.
LEMMA SamePaths ==
  ASSUME Keeps
  PROVE  \A n, k : Path(n, k)' <=> Path(n, k)
BY DEF Keeps, Path

\* The provider has returned from an update: the verdict is yes.
LEMMA UpdatedStep ==
  ASSUME RwInv, LinInv, NEW p \in Procs, Updated(p)
  PROVE  LinInv'
<1>1. ListTypes /\ Step(p) /\ Verdicts
  BY NoOwner DEF Step, ListStep, LinInv
<1>2. /\ lpc[p] = "update" /\ rpc[p] = "idle" /\ verdict' = [verdict EXCEPT ![p] = "yes"] /\ lpc'[p] = "unlockCurr"
      /\ UNCHANGED <<configs, op>>
  BY <1>1 DEF Updated, Decide, Goto, ListTypes
<1>3. TookEffect(p) /\ ~Linearize(p) /\ verdict'[p] = "yes" /\ Verdicts'
  BY <1>1, <1>2, VerdictsStay, LinearizeIs DEF TookEffect, BeforePCs, Verdicts
<1>4. TookEffect(p)'
  BY <1>2, <1>3 DEF TookEffect, UnlockLPCs
<1>5. Sees(p)
  BY <1>2, <1>3, <1>4 DEF Sees, Saw, UnlockLPCs
<1> QED BY <1>1, <1>2, <1>3, <1>4, <1>5, InnerStep

\* An update releases its first lock.
LEMMA UnlockCurrStep ==
  ASSUME RwInv, LinInv, NEW p \in Procs, ListLock(p), UnlockCurr(p)
  PROVE  LinInv'
<1>1. ListTypes /\ Step(p) /\ Verdicts
  BY NoOwner DEF Step, ListStep, LinInv
<1>2. lpc[p] = "unlockCurr" /\ lpc'[p] = "unlockPred" /\ UNCHANGED <<configs, op, verdict>>
  BY <1>1 DEF UnlockCurr, Goto, ListTypes
<1>3. ~Linearize(p) /\ (TookEffect(p)' <=> TookEffect(p))
  BY <1>2, LinearizeIs DEF TookEffect, UnlockLPCs
<1>4. verdict' = [verdict EXCEPT ![p] = verdict[p]] /\ verdict[p] \in {"none", "yes", "no", "retry"} /\ verdict[p] # "none"
  BY <1>1, <1>2 DEF Verdicts, UnlockLPCs
<1>5. Verdicts'
  BY <1>1, <1>2, <1>4, VerdictsStay
<1>6. Sees(p)
  BY <1>2, <1>3 DEF Sees, Saw, UnlockLPCs
<1> QED BY <1>1, <1>2, <1>3, <1>5, <1>6, InnerStep

\* An update that failed to validate starts again at the head.
LEMMA RetryStep ==
  ASSUME RwInv, LinInv, NEW p \in Procs, ListLock(p), UnlockPred(p), verdict[p] = "retry"
  PROVE  LinInv'
<1>1. ListTypes /\ Step(p) /\ Verdicts /\ HeadNode \in Nodes
  BY NoOwner, Basics DEF Step, ListStep, LinInv
<1>2. /\ lpc[p] = "unlockPred" /\ lpc'[p] = "search" /\ UNCHANGED <<configs, op>> /\ curr'[p] = HeadNode
      /\ verdict' = [verdict EXCEPT ![p] = "none"] /\ UNCHANGED <<nodeVars, linkVars>> /\ UNCHANGED rqVars
  BY <1>1 DEF ListLock, UnlockPred, Restart, Goto, ListTypes
<1>3. ~Linearize(p) /\ ~TookEffect(p) /\ ~TookEffect(p)'
  BY <1>2, LinearizeIs DEF TookEffect, UnlockLPCs
<1>4. Verdicts'
  BY <1>1, <1>2, VerdictsStay DEF UnlockLPCs
<1>5. Path(curr[p], op[p].lo)'
  <2>1. Quiet(p)
    BY <1>2 DEF Quiet
  <2> QED BY <1>2, <2>1, QuietKeeps, SamePaths, PathFromHead
<1>6. Sees(p)
  BY <1>2, <1>3, <1>5 DEF Sees, Saw, UnlockLPCs
<1> QED BY <1>1, <1>2, <1>3, <1>4, <1>6, InnerStep

-----------------------------------------------------------------------------
\* A search that goes on, and what it has passed.
LEMMA SearchStep ==
  ASSUME RwInv, LinInv, NEW p \in Procs, Search(p), VisitMoves(p, next[curr[p]]),
         UNCHANGED <<configs, op, verdict>>
  PROVE  LinInv'
<1>0. PICK n, k : n = next[curr[p]] /\ k = op[p].lo
  OBVIOUS
<1>1. ListTypes /\ Step(p) /\ Verdicts /\ Own(p) /\ Structure /\ curr[p] \in Known /\ Known \subseteq alloc
  BY NoOwner DEF Step, ListStep, LinInv
<1>2. /\ lpc[p] = "search" /\ curr'[p] = n
      /\ lpc'[p] = IF Before(p, n) THEN "search" ELSE IF op[p].type = "contains" THEN "mark" ELSE "lockPred"
      /\ UNCHANGED <<nodeVars, linkVars>> /\ UNCHANGED rqVars
  BY <1>0, <1>1 DEF Search, VisitMoves, ListTypes
<1>3. ~Linearize(p) /\ ~TookEffect(p) /\ ~TookEffect(p)'
  BY <1>2, LinearizeIs DEF TookEffect, UnlockLPCs
<1>4. verdict' = [verdict EXCEPT ![p] = verdict[p]] /\ verdict[p] \in {"none", "yes", "no", "retry"}
  BY <1>1 DEF Verdicts
<1>5. Verdicts'
  BY <1>1, <1>2, <1>4, VerdictsStay DEF UnlockLPCs
<1>6. op[p] \in Operation /\ p \in Active /\ k \in Int /\ key[curr[p]] < k
  BY <1>0, <1>1, <1>2, OpenOperation, OneKey DEF Active, Own, Stands
<1>7. curr[p] \in Known \ {MaxNode} /\ n \in Known /\ key[n] \in Int
  <2>1. curr[p] # MaxNode
    BY <1>0, <1>1, <1>6, OperationKeys DEF ListTypes
  <2>2. n \in Known
    BY <1>0, <1>1, <2>1 DEF Structure
  <2> QED BY <1>1, <2>1, <2>2 DEF ListTypes
<1>8. Quiet(p) /\ \A m, j : Path(m, j)' <=> Path(m, j)
  <2>1. Quiet(p)
    BY <1>2 DEF Quiet
  <2> QED BY <2>1, QuietKeeps, SamePaths
<1>9. Sees(p)
  <2> SUFFICES ASSUME NEW E, NEW F, Saw(p, E), E \subseteq F, Reads(p) => Report(p) \in F PROVE Saw(p, F)'
    BY DEF Sees
  <2>1. op[p].type \in {"contains", "erase"} => <<>> \in F \/ Path(curr[p], k)
    BY <1>2, <1>0 DEF Saw
  <2>2. op[p].type \in {"contains", "erase"} /\ Path(curr[p], k) => Path(n, k)'
    <3> HAVE op[p].type \in {"contains", "erase"} /\ Path(curr[p], k)
    <3>1. Path(n, k)
      BY <1>7, <1>0, PathOn
    <3> QED BY <1>8, <3>1
  <2>3. op[p].type = "contains" /\ Path(curr[p], k) /\ k < key[n] => <<>> \in F
    <3> HAVE op[p].type = "contains" /\ Path(curr[p], k) /\ k < key[n]
    <3>1. k \notin AbstractKeys
      BY <1>6, <1>7, <1>0, PathPasses
    <3> QED BY <1>1, <1>3, <1>6, <3>1, <1>0, WhatReads
  <2>4. CASE Before(p, n)
    <3>1. op[p].type \in {"contains", "erase"} => <<>> \in F \/ Path(curr[p], op[p].lo)'
      BY <1>2, <2>1, <2>2, <1>0
    <3> QED BY <1>2, <1>3, <2>4, <3>1 DEF Saw, UnlockLPCs
  <2>5. CASE ~Before(p, n) /\ op[p].type = "contains"
    <3>1. key[n] = k \/ k < key[n]
      BY <1>6, <1>7, <2>5, <1>0 DEF Before
    <3>2. <<>> \in F \/ (key[n] = k /\ Path(n, k)')
      BY <2>1, <2>2, <2>3, <2>5, <3>1
    <3>3. (<<>> \in F \/ (key[curr[p]] = op[p].lo /\ Path(curr[p], op[p].lo)))'
      BY <1>2, <3>2, <1>0
    <3> QED BY <1>2, <1>3, <2>5, <3>3 DEF Saw, UnlockLPCs
  <2>6. CASE ~Before(p, n) /\ op[p].type # "contains"
    BY <1>2, <1>3, <2>6 DEF Saw, UnlockLPCs
  <2> QED BY <2>4, <2>5, <2>6
<1> QED BY <1>1, <1>2, <1>3, <1>5, <1>9, InnerStep

-----------------------------------------------------------------------------
\* An operation returns with a result it can have.
LEMMA ReturnStep ==
  ASSUME RwInv, LinInv, NEW p \in Procs, Step(p), NEW r, ReturnKeys(p, r), lpc[p] # "idle", ~Linearize(p),
         \A E, F : Saw(p, E) /\ E \subseteq F /\ (Reads(p) => Report(p) \in F) => r \in F
  PROVE  LinInv'
<1>1. PICK R : Explains(R) /\ \A q \in Procs : Saw(q, R[q])
  BY DEF LinInv, Explained
<1>2. PICK R2 : /\ Explains(R2) /\ \A q \in Procs : R[q] \subseteq R2[q]
                /\ \A q \in Procs : Reads(q) => Report(q) \in R2[q]
  BY <1>1, ReadAll DEF LinInv
<1>3. ListTypes /\ Verdicts /\ \A q \in Procs : q # p => lpc'[q] = lpc[q] /\ (TookEffect(q)' <=> TookEffect(q))
  BY NoOwner, OthersLocal DEF LinInv
<1>4. /\ configs' = Respond(configs, op, p, r) /\ lpc'[p] = "idle" /\ verdict' = [verdict EXCEPT ![p] = "none"]
  BY <1>3 DEF ReturnKeys, Return, Goto, ListTypes
<1>5. Active' = Active \ {p} /\ p \in Active /\ Active \subseteq Procs
  BY <1>3, <1>4 DEF Active
<1>6. r \in R2[p]
  <2> DEFINE E == R[p]  F == R2[p]
  <2>1. Saw(p, E) /\ E \subseteq F /\ (Reads(p) => Report(p) \in F)
    BY <1>1, <1>2
  <2> HIDE DEF E, F
  <2> QED BY <2>1 DEF F
<1>7. \A q \in Procs : Saw(q, R2[q])'
  <2> TAKE q \in Procs
  <2> DEFINE E == R[q]  F == R2[q]
  <2>1. Saw(q, E) /\ E \subseteq F /\ (Reads(q) => Report(q) \in F)
    BY <1>1, <1>2
  <2> HIDE DEF E, F
  <2>2. CASE q = p
    BY <1>4, <2>2 DEF Saw, TookEffect, UnlockLPCs
  <2>3. CASE q # p
    BY <1>3, <2>1, <2>3, OthersSaw DEF F
  <2> QED BY <2>2, <2>3 DEF F
<1>8. Explains(R2)'
  <2> SUFFICES ASSUME NEW O, NEW D, Choice(R2, O, D)'
               PROVE  Config(AbstractKeys, O, D) \in Closure(configs', op')
    BY KeysStay DEF Explains
  <2>1. /\ O \subseteq Active \ {p} /\ D = [q \in (Active \ {p}) \ O |-> D[q]]
        /\ \A q \in O : ~TookEffect(q)
        /\ \A q \in (Active \ {p}) \ O : D[q] \in R2[q]
    BY <1>3, <1>5 DEF Choice
  <2> DEFINE E == Extend(D, p, r)
  <2>2. E = [q \in Active \ O |-> IF q = p THEN r ELSE D[q]]
    <3>1. DOMAIN D \cup {p} = Active \ O
      BY <1>5, <2>1
    <3> QED BY <3>1 DEF Extend
  <2>3. E = [q \in Active \ O |-> E[q]] /\ \A q \in Active \ O : E[q] \in R2[q]
    BY <1>6, <2>1, <2>2
  <2>4. p \in DOMAIN E /\ E[p] = r
    BY <1>5, <2>1, <2>2
  <2>5. Drop(E, p) = D
    <3>1. DOMAIN E \ {p} = (Active \ {p}) \ O /\ \A q \in (Active \ {p}) \ O : E[q] = D[q]
      BY <2>2
    <3> QED BY <2>1, <3>1 DEF Drop
  <2> HIDE DEF E
  <2>6. Choice(R2, O, E)
    BY <2>1, <2>3 DEF Choice
  <2>7. Config(AbstractKeys, O, E) \in Closure(configs, op)
    BY <1>2, <2>6 DEF Explains
  <2>8. Config(AbstractKeys, O, D) \in configs'
    BY <1>4, <2>4, <2>5, <2>7, RespondKeeps
  <2> QED BY <2>8, ClosureHolds
<1>9. (\A c \in configs : Formed(c, Active))'
  BY <1>4, <1>5, RespondFormed DEF LinInv
<1>10. Verdicts'
  BY <1>3, <1>4, VerdictsStay DEF UnlockLPCs
<1> QED BY <1>7, <1>8, <1>9, <1>10 DEF LinInv, Explained

-----------------------------------------------------------------------------
\* contains reports its key if the node it has found is in the set now; if it has none,
\* or one that has left the set, the key was missing at some time.
LEMMA ContainsReturns ==
  ASSUME RwInv, LinInv, NEW p \in Procs, EndContains(p)
  PROVE  LinInv'
<1>0. PICK c, k : c = curr[p] /\ k = op[p].lo
  OBVIOUS
<1>1. ListTypes /\ Step(p) /\ Verdicts /\ Own(p) /\ c \in Known
  BY <1>0, NoOwner DEF Step, ListStep, LinInv
<1>2. lpc[p] = "mark" /\ op[p].type = "contains" /\ op[p] \in Operation
  BY <1>1, OpenOperation DEF EndContains, Verdicts
<1>3. p \in Active /\ ~TookEffect(p) /\ ~Linearize(p)
  BY <1>2, LinearizeIs DEF Active, TookEffect, UnlockLPCs
<1>4. PICK r : r = IF key[c] = k /\ ~marked[c] THEN <<k>> ELSE <<>>
  OBVIOUS
<1>5. ReturnKeys(p, r)
  BY <1>0, <1>4 DEF EndContains
<1>6. key[c] = k => c \notin {HeadNode, MaxNode}
  BY <1>0, <1>1, <1>2, OperationKeys
<1>7. ASSUME NEW E, NEW F, Saw(p, E), E \subseteq F, Reads(p) => Report(p) \in F PROVE r \in F
  <2>1. <<>> \in E \/ (key[c] = k /\ Path(c, k))
    BY <1>0, <1>2, <1>7 DEF Saw
  <2>2. k \in AbstractKeys => <<k>> \in F
    BY <1>0, <1>1, <1>2, <1>3, <1>7, WhatReads
  <2>3. k \notin AbstractKeys => <<>> \in F
    BY <1>0, <1>1, <1>2, <1>3, <1>7, WhatReads
  <2>4. CASE key[c] = k /\ ~marked[c]
    <3>1. c \in Listed
      BY <1>1, <2>4 DEF Listed
    <3>2. k \in AbstractKeys
      BY <1>6, <2>4, <3>1, ListedKey
    <3> QED BY <1>4, <2>2, <2>4, <3>2
  <2>5. CASE ~(key[c] = k /\ ~marked[c])
    <3>1. key[c] = k /\ Path(c, k) => k \notin AbstractKeys
      BY <1>1, <1>6, <2>5, PathMarked
    <3> QED BY <1>4, <1>7, <2>1, <2>3, <2>5, <3>1
  <2> QED BY <2>4, <2>5
<1> QED BY <1>1, <1>2, <1>3, <1>5, <1>7, ReturnStep

\* An erase that has passed its key.
LEMMA EraseReturns ==
  ASSUME RwInv, LinInv, NEW p \in Procs, Search(p), op[p].type = "erase", key[next[curr[p]]] > op[p].lo,
         ReturnKeys(p, <<>>)
  PROVE  LinInv'
<1>0. PICK c, k : c = curr[p] /\ k = op[p].lo
  OBVIOUS
<1>1. ListTypes /\ Step(p) /\ Verdicts /\ Own(p) /\ c \in Known /\ Structure /\ Known \subseteq alloc /\ lpc[p] = "search"
  BY <1>0, NoOwner DEF Step, ListStep, LinInv, Search
<1>2. p \in Active /\ ~TookEffect(p) /\ ~Linearize(p) /\ op[p] \in Operation /\ k \in Int
  BY <1>0, <1>1, LinearizeIs, OpenOperation, OneKey DEF Active, TookEffect, UnlockLPCs
<1>3. c # MaxNode /\ key[c] < k
  BY <1>0, <1>1, <1>2, OperationKeys DEF Own, Stands, ListTypes
<1>4. k < key[next[c]]
  <2>1. next[c] \in Nodes
    BY <1>1, <1>3 DEF Structure, Known, ListTypes
  <2> QED BY <1>0, <1>1, <1>2, <2>1 DEF ListTypes
<1>5. ASSUME NEW E, NEW F, Saw(p, E), E \subseteq F, Reads(p) => Report(p) \in F PROVE <<>> \in F
  <2>1. <<>> \in E \/ Path(c, k)
    BY <1>0, <1>1, <1>5 DEF Saw
  <2>2. k \notin AbstractKeys => <<>> \in F
    BY <1>0, <1>1, <1>2, <1>5, WhatReads
  <2> QED BY <1>1, <1>3, <1>4, <1>5, <2>1, <2>2, PathPasses
<1> QED BY <1>1, <1>2, <1>5, ReturnStep

\* A step of a search, whichever way it goes.
LEMMA SearchSteps ==
  ASSUME RwInv, LinInv, NEW p \in Procs, Search(p)
  PROVE  LinInv'
<1>1. ListTypes /\ Visit(p, next[curr[p]]) /\ UNCHANGED <<lock, key, alloc>>
  BY NoOwner DEF Search
<1>2. CASE op[p].type = "erase" /\ key[next[curr[p]]] > op[p].lo
  <2>1. ReturnKeys(p, <<>>)
    BY <1>1, <1>2 DEF Visit
  <2> QED BY <1>2, <2>1, EraseReturns
<1>3. CASE ~(op[p].type = "erase" /\ key[next[curr[p]]] > op[p].lo)
  <2>1. VisitMoves(p, next[curr[p]])
    BY <1>1, <1>3, VisitCases
  <2>2. UNCHANGED <<configs, op, verdict>>
    BY <1>1, <1>3 DEF Visit
  <2> QED BY <2>1, <2>2, SearchStep
<1> QED BY <1>2, <1>3

\* The end of an update.
LEMMA UnlockPredStep ==
  ASSUME RwInv, LinInv, NEW p \in Procs, ListLock(p), UnlockPred(p)
  PROVE  LinInv'
<1>1. CASE verdict[p] = "retry"
  BY <1>1, RetryStep
<1>2. CASE verdict[p] # "retry"
  <2>1. Step(p) /\ lpc[p] = "unlockPred" /\ Verdicts
    BY DEF Step, ListStep, LinInv, UnlockPred
  <2>2. verdict[p] \in {"yes", "no"} /\ ~Linearize(p)
    BY <1>2, <2>1, LinearizeIs DEF Verdicts, UnlockLPCs
  <2>3. PICK r : r = IF verdict[p] = "yes" THEN <<op[p].lo>> ELSE <<>>
    OBVIOUS
  <2>4. ReturnKeys(p, r)
    BY <1>2, <2>3 DEF UnlockPred
  <2>5. ASSUME NEW E, NEW F, Saw(p, E), E \subseteq F PROVE r \in F
    BY <2>1, <2>2, <2>3, <2>5 DEF Saw, TookEffect, UnlockLPCs
  <2> QED BY <2>1, <2>2, <2>4, <2>5, ReturnStep
<1> QED BY <1>1, <1>2

\* The end of a query.
LEMMA FinishStep ==
  ASSUME RwInv, LinInv, NEW p \in Procs, Finish(p)
  PROVE  LinInv'
<1>1. Step(p) /\ lpc[p] = "collect" /\ QueryDone(p) /\ rpc[p] = "limbo" /\ ~Linearize(p)
  BY LinearizeIs DEF Step, ListStep, Finish, EndQuery, QueryDone
<1>2. ReturnKeys(p, Ascending(ResultKeys(p)))
  BY DEF Finish
<1>3. ResultKeys(p) = InRange(op[p]) \cap KeysAt(lin[p])
  <2> DEFINE A == {m \in alloc \ {HeadNode, MaxNode} : InsertedBefore(m, lin[p]) /\ ~DeletedAlready(m, lin[p])}
             B == {m \in Nodes : Alive(m, lin[p])}
  <2>1. A = B
    <3>1. alloc \subseteq Nodes /\ Known \subseteq alloc
      BY ListedKnown
    <3>2. \A m \in Nodes : InsertedBefore(m, lin[p]) /\ ~DeletedAlready(m, lin[p]) <=> Alive(m, lin[p])
      BY TimesAgree DEF Alive
    <3>3. \A m \in Nodes : Alive(m, lin[p]) => m \in alloc \ {HeadNode, MaxNode}
      BY <3>1, AliveKnown DEF Alive
    <3> QED BY <3>1, <3>2, <3>3
  <2>2. ResultKeys(p) = {key[m] : m \in A} \cap InRange(op[p])
    BY <1>1, DoneCollects
  <2> HIDE DEF A
  <2> QED BY <2>1, <2>2 DEF KeysAt
<1>4. PICK r : r = Ascending(ResultKeys(p))
  OBVIOUS
<1>5. ASSUME NEW E, NEW F, Saw(p, E), E \subseteq F PROVE r \in F
  BY <1>1, <1>3, <1>4, <1>5 DEF Saw
<1> QED BY <1>1, <1>2, <1>4, <1>5, ReturnStep

-----------------------------------------------------------------------------
\* A call comes: it is open in every configuration.
LEMMA CallStep ==
  ASSUME RwInv, LinInv, NEW p \in Procs, ListCall(p)
  PROVE  LinInv'
<1>1. PICK R : Explains(R) /\ \A q \in Procs : Saw(q, R[q])
  BY DEF LinInv, Explained
<1>2. PICK R2 : /\ Explains(R2) /\ \A q \in Procs : R[q] \subseteq R2[q]
                /\ \A q \in Procs : Reads(q) => Report(q) \in R2[q]
  BY <1>1, ReadAll DEF LinInv
<1>3. ListTypes /\ Own(p) /\ Step(p) /\ Verdicts /\ HeadNode \in Nodes
  BY NoOwner, Basics DEF Step, LinInv
<1>4. /\ configs' = Invoke(configs, p) /\ lpc[p] = "idle" /\ lpc'[p] \in {"start", "search"} /\ verdict' = verdict
      /\ curr'[p] = HeadNode /\ op' = [op EXCEPT ![p] = Head(todo[p])] /\ UNCHANGED <<nodeVars, linkVars>> /\ UNCHANGED rqVars
  BY <1>3 DEF ListCall, Call, Goto, ListTypes, Own, Stands
<1>5. \A q \in Procs : q # p => lpc'[q] = lpc[q] /\ op'[q] = op[q] /\ (TookEffect(q)' <=> TookEffect(q))
  BY <1>3, OthersLocal
<1>6. Active' = Active \cup {p} /\ p \notin Active /\ Active \subseteq Procs
  BY <1>4, <1>5 DEF Active
<1>7. ~Linearize(p)
  BY <1>4, LinearizeIs
<1> DEFINE R3 == [q \in Procs |-> IF q = p THEN {} ELSE R2[q]]
<1>8. R3[p] = {} /\ \A q \in Procs : q # p => R3[q] = R2[q]
  OBVIOUS
<1> HIDE DEF R3
<1>9. ASSUME NEW q \in Procs, q # p PROVE Saw(q, R3[q])'
  <2> DEFINE E == R[q]  F == R2[q]
  <2>1. Saw(q, E) /\ E \subseteq F /\ (Reads(q) => Report(q) \in F) /\ R3[q] = F
    BY <1>1, <1>2, <1>8, <1>9
  <2> HIDE DEF E, F
  <2>2. Saw(q, F)'
    BY <1>3, <1>9, <2>1, OthersSaw
  <2>3. PICK r : r = R3[q]
    OBVIOUS
  <2>4. Saw(q, r)'
    BY <2>1, <2>2, <2>3 DEF F
  <2> QED BY <2>3, <2>4 DEF R3
<1>10. Saw(p, {})'
  <2>1. Quiet(p)
    BY <1>4 DEF Quiet
  <2>2. \A k : Path(HeadNode, k)'
    BY <2>1, QuietKeeps, SamePaths, PathFromHead
  <2>3. Path(curr[p], op[p].lo)'
    BY <1>4, <2>2
  <2> QED BY <1>4, <2>3 DEF Saw, TookEffect, UnlockLPCs
<1>11. Explains(R3)'
  <2> SUFFICES ASSUME NEW O, NEW D, Choice(R3, O, D)'
               PROVE  Config(AbstractKeys, O, D) \in Closure(configs', op')
    BY <1>3, <1>7, KeysStay DEF Explains, R3
  <2>1. /\ O \subseteq Active \cup {p} /\ D = [q \in (Active \cup {p}) \ O |-> D[q]]
        /\ \A q \in O : q # p => ~TookEffect(q)
        /\ \A q \in (Active \cup {p}) \ O : D[q] \in R3[q]
    BY <1>5, <1>6 DEF Choice, R3
  <2>2. p \in O
    BY <1>8, <2>1
  <2> DEFINE P == O \ {p}
  <2>3. P \subseteq Active /\ Active \ P = (Active \cup {p}) \ O /\ P \cup {p} = O /\ p \notin Active \ P
    BY <1>6, <2>1, <2>2
  <2>4. Choice(R2, P, D)
    BY <1>6, <1>8, <2>1, <2>3 DEF Choice
  <2>5. Config(AbstractKeys, P, D) \in Closure(configs, op)
    BY <1>2, <2>4 DEF Explains
  <2> HIDE DEF P
  <2>6. Config(AbstractKeys, P \cup {p}, D) \in Closure(Invoke(configs, p), op')
    <3>1. p \in Clients \ Active /\ (\A q \in Active : op'[q] = op[q]) /\ Active \in SUBSET Clients
          /\ \A c \in configs : Formed(c, Active)
      BY <1>5, <1>6, ActiveClients DEF LinInv
    <3> QED BY <2>5, <3>1, InvokeKeeps
  <2> QED BY <1>4, <2>3, <2>6
<1>12. (\A c \in configs : Formed(c, Active))'
  BY <1>4, <1>6, InvokeFormed DEF LinInv
<1>13. Verdicts'
  <2>1. verdict' = [verdict EXCEPT ![p] = verdict[p]] /\ verdict[p] \in {"none", "yes", "no", "retry"}
    BY <1>3, <1>4 DEF Verdicts
  <2> QED BY <1>3, <1>4, <2>1, VerdictsStay DEF UnlockLPCs
<1>14. \A q \in Procs : Saw(q, R3[q])'
  <2> TAKE q \in Procs
  <2>1. CASE q = p
    BY <1>8, <1>10, <2>1
  <2> QED BY <1>9, <2>1
<1> QED BY <1>11, <1>12, <1>13, <1>14 DEF LinInv, Explained, R3

-----------------------------------------------------------------------------
\* An update takes effect when the link or the mark is written.
LEMMA LinearizeStep ==
  ASSUME RwInv, LinInv, NEW p \in Procs, Linearize(p)
  PROVE  LinInv'
<1>1. PICK R : Explains(R) /\ \A q \in Procs : Saw(q, R[q])
  BY DEF LinInv, Explained
<1>2. PICK R2 : /\ Explains(R2) /\ \A q \in Procs : R[q] \subseteq R2[q]
                /\ \A q \in Procs : Reads(q) => Report(q) \in R2[q]
  BY <1>1, ReadAll DEF LinInv
<1>3. Verdicts /\ Step(p)
  BY DEF Step, ListStep, LinInv
<1>4. /\ rpc[p] = "write" /\ rpc'[p] = "readUnlock" /\ lpc[p] = "update"
      /\ lpc' = lpc /\ verdict' = verdict /\ op' = op /\ configs' = configs
  BY LinearizeIs
<1>5. op[p] \in Operation /\ op[p].type \in {"insert", "erase"}
  BY <1>4, UpdateSteps, InUpdate
<1>6. ~TookEffect(p) /\ TookEffect(p)' /\ p \in Active
  BY <1>4, UpdateSteps DEF TookEffect, UnlockLPCs, Active
<1>7. \A q \in Procs : q # p => (TookEffect(q)' <=> TookEffect(q))
  BY <1>3, OthersLocal
<1>8. Active' = Active /\ Active \subseteq Procs
  BY <1>4 DEF Active
<1>9. ResultOf(op[p], AbstractKeys) = <<op[p].lo>> /\ AbstractKeys' = After(op[p], AbstractKeys)
  BY <1>5, KeyLinked, KeyMarked, WhatChanges
<1> DEFINE r == <<op[p].lo>>
           R3 == [q \in Procs |-> IF q = p THEN {r} ELSE R2[q]]
<1>10. PICK T : T = R3
  OBVIOUS
<1>11. T[p] = {<<op[p].lo>>} /\ \A q \in Procs : q # p => T[q] = R2[q]
  BY <1>10
<1> HIDE DEF R3, r
<1>12. ASSUME NEW q \in Procs, q # p PROVE Saw(q, T[q])'
  <2> DEFINE E == R[q]  F == R2[q]
  <2>1. Saw(q, E) /\ E \subseteq F /\ (Reads(q) => Report(q) \in F) /\ T[q] = F
    BY <1>1, <1>2, <1>11, <1>12
  <2> HIDE DEF E, F
  <2>2. Saw(q, F)'
    BY <1>3, <1>12, <2>1, OthersSaw
  <2> QED BY <2>1, <2>2 DEF F
<1>13. Saw(p, T[p])'
  BY <1>4, <1>11 DEF Saw, UnlockLPCs
<1>14. Explains(T)'
  <2> SUFFICES ASSUME NEW O, NEW D, Choice(T, O, D)'
               PROVE  Config(AbstractKeys', O, D) \in Closure(configs, op)
    BY <1>4 DEF Explains
  <2>1. /\ O \subseteq Active /\ D = [q \in Active \ O |-> D[q]]
        /\ \A q \in O : ~TookEffect(q)'
        /\ \A q \in Active \ O : D[q] \in T[q]
    BY <1>8 DEF Choice
  <2>2. p \notin O /\ D[p] = <<op[p].lo>> /\ p \in DOMAIN D \ O /\ DOMAIN D = Active \ O
    BY <1>6, <1>11, <2>1
  <2> DEFINE P == O \cup {p}
             E == Drop(D, p)
  <2>3. E = [q \in Active \ P |-> D[q]]
    BY <2>2 DEF Drop
  <2>4. \A q \in Active \ P : E[q] = D[q] /\ D[q] \in R2[q]
    BY <1>8, <1>11, <2>1, <2>3
  <2>5. E = [q \in Active \ P |-> E[q]]
    BY <2>3
  <2> HIDE DEF E
  <2>6. Choice(R2, P, E)
    BY <1>6, <1>7, <1>8, <2>1, <2>4, <2>5 DEF Choice
  <2>7. Config(AbstractKeys, O \cup {p}, Drop(D, p)) \in Closure(configs, op)
    BY <1>2, <2>6 DEF Explains, E
  <2>8. Config(After(op[p], AbstractKeys), O, D) \in Closure(configs, op)
    <3> DEFINE S == AbstractKeys
    <3>1. D = [q \in DOMAIN D |-> D[q]] /\ D[p] = ResultOf(op[p], S)
      BY <1>9, <2>1, <2>2
    <3> HIDE DEF S
    <3> QED BY <2>2, <2>7, <3>1, TakeOne DEF LinInv, S
  <2> QED BY <1>9, <2>8
<1>15. (\A c \in configs : Formed(c, Active))' /\ Verdicts'
  <2>1. Verdicts'
    BY <1>3, <1>4 DEF Verdicts
  <2>2. \A c \in configs' : Formed(c, Active')
    BY <1>4, <1>8 DEF LinInv
  <2> QED BY <2>1, <2>2
<1>16. \A q \in Procs : Saw(q, T[q])'
  BY <1>12, <1>13
<1>17. \E Q : Explains(Q)' /\ \A q \in Procs : Saw(q, Q[q])'
  BY <1>14, <1>16
<1> QED BY <1>15, <1>17 DEF LinInv, Explained

-----------------------------------------------------------------------------
\* At the start no call is open, and the list is the set the observer starts from.
LEMMA LinInit ==
  ASSUME RwlockListInit
  PROVE  LinInv
<1>1. /\ key = InitKey /\ alloc = InitNodes /\ marked = [n \in Nodes |-> FALSE] /\ Clients = Procs
      /\ verdict = [p \in Procs |-> "none"]
      /\ configs = Start({InitKey[n] : n \in InitNodes \ {HeadNode, MaxNode}})
      /\ \A p \in Procs : rpc[p] = "idle" /\ lpc[p] = "idle"
  BY Basics DEF RwlockListInit, ListInit, RqInit
<1>2. Known = InitNodes /\ InitNodes \subseteq Nodes
  BY <1>1, RwlockStartAssumption DEF Known, Fresh, BeforePCs
<1>3. AbstractKeys = {InitKey[n] : n \in InitNodes \ {HeadNode, MaxNode}}
  BY <1>1, <1>2 DEF AbstractKeys
<1>4. Active = {} /\ \A p \in Procs : ~TookEffect(p)
  BY <1>1 DEF Active, TookEffect, UnlockLPCs
<1> DEFINE none == [q \in {} |-> <<>>]
<1>5. configs = {Config(AbstractKeys, {}, none)}
  BY <1>1, <1>3 DEF Start, Config
<1>6. \A c \in configs : Formed(c, Active)
  <2>1. DOMAIN none = {} /\ none = [q \in DOMAIN none |-> none[q]]
    OBVIOUS
  <2> HIDE DEF none
  <2> SUFFICES ASSUME NEW c \in configs PROVE Formed(c, Active)
    OBVIOUS
  <2>2. c = Config(AbstractKeys, {}, none)
    BY <1>5
  <2>3. c.keys = AbstractKeys /\ c.open = {} /\ c.done = none
    BY <2>2, ConfigFields
  <2> QED BY <1>4, <2>1, <2>2, <2>3 DEF Formed
<1>7. Verdicts
  BY <1>1 DEF Verdicts, UnlockLPCs
<1> DEFINE R == [p \in Procs |-> {}]
<1>8. Explains(R)
  <2> SUFFICES ASSUME NEW O, NEW D, Choice(R, O, D)
               PROVE  Config(AbstractKeys, O, D) \in Closure(configs, op)
    BY DEF Explains
  <2>1. O = {} /\ D = [q \in {} |-> D[q]]
    BY <1>4 DEF Choice
  <2>2. D = none
    BY <2>1
  <2> HIDE DEF none
  <2>3. Config(AbstractKeys, O, D) \in configs
    BY <1>5, <2>1, <2>2
  <2> QED BY <2>3, ClosureHolds
<1>9. \A p \in Procs : Saw(p, R[p])
  BY <1>1, <1>4 DEF Saw, UnlockLPCs
<1> HIDE DEF R
<1> QED BY <1>6, <1>7, <1>8, <1>9 DEF LinInv, Explained

\* Stuttering changes nothing.
LEMMA LinStutter ==
  ASSUME LinInv, UNCHANGED rwlockListVars
  PROVE  LinInv'
<1>1. /\ UNCHANGED <<key, alloc, lpc, op, pred, curr, verdict, configs, next, marked>>
      /\ UNCHANGED <<timestamp, itime, dtime, rpc, ins, del, uts, lin>>
  BY DEF rwlockListVars
<1>2. Keeps
  <2>1. (\A n \in alloc : Fresh(n)' <=> Fresh(n)) /\ (\A n \in alloc : BeingErased(n)' <=> BeingErased(n))
    BY <1>1 DEF Fresh, BeingErased
  <2> QED BY <1>1, <2>1, SameKeeps
<1>3. \A n, k : Path(n, k)' <=> Path(n, k)
  BY <1>2, SamePaths
<1>4. AbstractKeys' = AbstractKeys /\ Active' = Active /\ \A p \in Procs : TookEffect(p)' <=> TookEffect(p)
  BY <1>1, <1>2 DEF Keeps, AbstractKeys, Active, TookEffect
<1>5. \A t : KeysAt(t)' = KeysAt(t)
  BY <1>1 DEF KeysAt, Alive, Ins, Del
<1>6. PICK R : Explains(R) /\ \A p \in Procs : Saw(p, R[p])
  BY DEF LinInv, Explained
<1>7. \A p \in Procs : Saw(p, R[p])'
  <2> TAKE p \in Procs
  <2> DEFINE E == R[p]
  <2>1. Saw(p, E)
    BY <1>6
  <2> HIDE DEF E
  <2>2. Saw(p, E)'
    BY <1>1, <1>3, <1>4, <1>5, <2>1 DEF Saw, InRange
  <2> QED BY <2>2 DEF E
<1>8. Explains(R)'
  <2> SUFFICES ASSUME NEW O, NEW D, Choice(R, O, D)'
               PROVE  Config(AbstractKeys, O, D) \in Closure(configs, op)
    BY <1>1, <1>4 DEF Explains
  <2>1. Active \subseteq Procs
    BY DEF Active
  <2>2. Choice(R, O, D)
    BY <1>4, <2>1 DEF Choice
  <2> QED BY <1>6, <2>2 DEF Explains
<1>9. Verdicts' /\ \A c \in configs' : Formed(c, Active')
  BY <1>1, <1>4 DEF LinInv, Verdicts
<1> QED BY <1>7, <1>8, <1>9 DEF LinInv, Explained

\* Every step of the list keeps an explanation.
LEMMA LinStep ==
  ASSUME RwInv, LinInv, NEW p \in Procs, Step(p)
  PROVE  LinInv'
<1>1. CASE ListLock(p)
  BY <1>1, LockPlain, UnlockCurrStep, UnlockPredStep DEF ListLock, LockStep
<1>2. CASE ListCall(p) \/ Search(p) \/ EndContains(p) \/ ListValidate(p) \/ Updated(p) \/ Finish(p)
  BY <1>2, CallStep, SearchSteps, ContainsReturns, ValidateStep, UpdatedStep, FinishStep
<1>3. CASE BeginInsert(p) \/ BeginErase(p) \/ Linearize(p) \/ Unlink(p) \/ ProviderUpdate(p)
  BY <1>3, BeginPlain, LinearizeStep, UpdatePlain
<1>4. CASE BeginQuery(p) \/ Traverse(p) \/ TraverseEnd(p) \/ LookAtMark(p) \/ ProviderQuery(p)
  BY <1>4, QueryPlain, AdvanceStep
<1> QED BY <1>1, <1>2, <1>3, <1>4 DEF Step, ListStep

\* With an explanation, some configuration is left.
LEMMA SomeLeft ==
  ASSUME LinInv
  PROVE  Linearizable
<1>1. PICK R : Explains(R) /\ \A p \in Procs : Saw(p, R[p])
  BY DEF LinInv, Explained
<1> DEFINE O == {q \in Active : ~TookEffect(q)}
           D == [q \in Active \ O |-> <<op[q].lo>>]
<1>2. Choice(R, O, D)
  <2>1. O \subseteq Active /\ D = [q \in Active \ O |-> D[q]] /\ \A q \in O : ~TookEffect(q)
    OBVIOUS
  <2>2. \A q \in Active \ O : D[q] = <<op[q].lo>> /\ TookEffect(q) /\ q \in Procs
    BY DEF Active
  <2>3. \A q \in Active \ O : D[q] \in R[q]
    BY <1>1, <2>2 DEF Saw
  <2> HIDE DEF O, D
  <2> QED BY <2>1, <2>3 DEF Choice
<1>3. Closure(configs, op) # {}
  BY <1>1, <1>2 DEF Explains
<1> QED BY <1>3, ClosureOfNone DEF Linearizable

\* Every history of the list is linearizable: for any number of processes, any nodes,
\* keys and calls, what the operations return is explained by one order of them that
\* agrees with real time, range queries included.
THEOREM OperationsLinearize == RwlockListSpec => []Linearizable
<1>1. RwlockListInit => RwInv /\ LinInv
  BY InitInvariant, LinInit
<1>2. RwInv /\ LinInv /\ [RwlockListNext]_rwlockListVars => RwInv' /\ LinInv'
  BY StepInvariant, StutterInvariant, LinStep, LinStutter DEF RwlockListNext, Step
<1>3. LinInv => Linearizable
  BY SomeLeft
<1> QED BY <1>1, <1>2, <1>3, PTL DEF RwlockListSpec
=============================================================================
