------------------------------ MODULE ListProof ------------------------------
(***************************************************************************)
(* Proofs about the bundled lazy list, for any number of processes, nodes  *)
(* and keys and any sequence of calls.                                     *)
(***************************************************************************)
EXTENDS BundlesProof, BundledList, ObserverProof

(***************************************************************************)
(* The inductive invariant.                                                *)
(***************************************************************************)
UpdateLPCs == {"lockPred", "validate", "label", "finalize", "unlockPred", "retryPred"}
EraseLPCs == {"lockCurr", "unlock", "retryCurr"}
ReadLPCs == {"enter", "contains", "announce", "query"}
StoppedLPCs == UpdateLPCs \cup EraseLPCs \cup ReadLPCs

\* A node whose insert has reached the clock.
Inserted(n) == n = MaxNode \/ ValueAt(n, clock) # NoPtr

CallInv(p) ==
  /\ lpc[p] # "idle" => op[p] \in Operation
  /\ lpc[p] \in UpdateLPCs => op[p].type \in {"insert", "erase"}
  /\ lpc[p] \in EraseLPCs => op[p].type = "erase"

\* Where a process is in a call of the provider.
PcInv(p) ==
  /\ lpc[p] = "label" => pc[p] \in {"prepare", "load", "reload", "bump", "finalize"}
  /\ lpc[p] = "finalize" => pc[p] \in {"finalize", "unlock"}
  /\ lpc[p] = "unlock" => pc[p] = "unlock"
  /\ lpc[p] = "contains" => pc[p] \in GetPCs /\ (pc[p] = "got" => out[p] \in Nodes)
  /\ lpc[p] = "announce" => pc[p] \in {"idle"} \cup AnnouncePCs
  /\ lpc[p] = "query" => pc[p] \in {"query"} \cup LookupPCs
  /\ lpc[p] \notin {"label", "finalize", "unlock", "contains", "announce", "query"} =>
        pc[p] = "idle"

\* A search walks through linked nodes with smaller keys, and ends between two.
PlaceInv(p) ==
  /\ pred[p] \in alloc /\ Inserted(pred[p])
  /\ curr[p] \in alloc /\ Inserted(curr[p])
  /\ lpc[p] = "search" => key[curr[p]] < op[p].lo
  /\ lpc[p] \in StoppedLPCs =>
        /\ key[pred[p]] < op[p].lo /\ op[p].lo <= key[curr[p]]
        /\ op[p].type = "erase" => key[curr[p]] = op[p].lo

LockInv(p) ==
  /\ lpc[p] \in (UpdateLPCs \ {"lockPred"}) \cup {"unlock", "retryCurr"} => lock[pred[p]] = p
  /\ \/ lpc[p] \in {"lockPred", "validate", "label", "finalize"} /\ op[p].type = "erase"
     \/ lpc[p] \in {"unlock", "retryCurr"}
     => lock[curr[p]] = p

\* What an insert has written of its new node n, and what an erase of the node
\* it takes out and of its predecessor.
InsertInv(p, n) ==
  /\ upd[p] = <<Write(n, curr[p]), Write(pred[p], n)>>
  /\ n \in alloc \ {HeadNode, MaxNode} /\ lock[n] = p
  /\ key[n] = op[p].lo /\ key[n] < key[curr[p]]
  /\ next[n] = curr[p] /\ ~marked[n]
  /\ next[pred[p]] = (IF lpc[p] = "label" THEN curr[p] ELSE n) /\ ~marked[pred[p]]
  /\ lpc[p] = "finalize" => Inserted(n)

EraseInv(p, s) ==
  /\ upd[p] = <<Write(pred[p], s), Write(curr[p], HeadNode)>>
  /\ next[curr[p]] = s /\ (marked[curr[p]] <=> lpc[p] # "label")
  /\ next[pred[p]] = (IF lpc[p] = "unlock" THEN s ELSE curr[p]) /\ ~marked[pred[p]]

WriteInv(p) ==
  lpc[p] \in {"label", "finalize", "unlock"} =>
     IF op[p].type = "insert" THEN InsertInv(p, upd[p][1].bundle)
     ELSE EraseInv(p, upd[p][1].ptr)

\* Until an update loads the clock, no time sees it.
UnseenInv(p) ==
  pc[p] \in {"prepare", "load"} =>
     /\ ValueAt(pred[p], LastTS) = curr[p]
     /\ op[p].type = "erase" => ValueAt(curr[p], LastTS) = upd[p][1].ptr
     /\ op[p].type = "insert" => ValueAt(upd[p][1].bundle, LastTS) = NoPtr

\* The snapshot of a query has the node the search ended at, and the one whose
\* bundle is being read.
EntryInv(p) ==
  /\ lpc[p] = "announce" /\ pc[p] \in {"announce", "clear"} => ValueAt(pred[p], qts[p]) # NoPtr
  /\ lpc[p] = "query" =>
        /\ ValueAt(pred[p], qts[p]) # NoPtr
        /\ at[p] # NoBundle => ValueAt(at[p], qts[p]) # NoPtr

LocalInv(p) ==
  /\ CallInv(p) /\ PcInv(p) /\ PlaceInv(p) /\ LockInv(p) /\ WriteInv(p)
  /\ UnseenInv(p) /\ EntryInv(p)

\* The variables of the list are functions on the processes and the nodes.
FormInv ==
  /\ key \in [Nodes -> SetKeys \cup {InitKey[HeadNode], InitKey[MaxNode]}]
  /\ key[HeadNode] = InitKey[HeadNode] /\ key[MaxNode] = InitKey[MaxNode]
  /\ next \in [Nodes -> Nodes \cup {NoPtr}]
  /\ lock \in [Nodes -> Procs \cup {NoProc}]
  /\ marked \in [Nodes -> BOOLEAN]
  /\ alloc \subseteq Nodes /\ HeadNode \in alloc /\ MaxNode \in alloc
  /\ lpc \in [Procs -> {"idle", "search"} \cup StoppedLPCs]
  /\ todo \in [Procs -> Seq(Operation)]
  /\ op \in [Procs -> Operation \cup {[type |-> "none"]}]
  /\ pred \in [Procs -> Nodes] /\ curr \in [Procs -> Nodes]

\* The raw link of a node leads to a linked node with a greater key, and when no
\* update is under way to where its bundle says.
LinkOf(n) ==
  /\ next[n] \in alloc /\ Inserted(next[n]) /\ key[n] < key[next[n]]
  /\ owner[n] = NoProc => NewestPtr(bundle[n]) = IF marked[n] THEN HeadNode ELSE next[n]

LinkInv ==
  /\ \A n \in alloc \ {MaxNode} : LinkOf(n)
  /\ \A n \in {MaxNode} \cup (Nodes \ alloc) :
       Newest(bundle[n]) = 0 /\ owner[n] = NoProc /\ ~marked[n]

\* The links are a list at every time, now and to come.
ListInv == \A t \in FirstTS .. LastTS : SortedLinks(key, [n \in Nodes |-> ValueAt(n, t)])

LInv == FormInv /\ LinkInv /\ ListInv /\ \A p \in Procs : LocalInv(p)

-----------------------------------------------------------------------------
(***************************************************************************)
(* The list drives the provider as the provider expects.                   *)
(***************************************************************************)

\* What the assumptions say of the processes, the nodes and the keys.
LEMMA Basics ==
  /\ Updaters = Procs /\ Queriers = Procs /\ Getters = Procs /\ ~Cleanup
  /\ NoProc \notin Procs
  /\ Ptrs = Nodes /\ Bundles = Nodes /\ NoPtr \notin Nodes
  /\ HeadNode \in Nodes /\ MaxNode \in Nodes
  /\ IsFiniteSet(Nodes)
BY ListAssumption, BundlesAssumption DEF Procs, NoProc, Nodes

\* All keys are numbers, the head's the least and max's the greatest.
LEMMA KeyProps ==
  ASSUME FormInv
  PROVE  /\ \A n \in Nodes : key[n] \in Int /\ key[HeadNode] <= key[n] /\ key[n] <= key[MaxNode]
         /\ \A k \in SetKeys : k \in Int /\ key[HeadNode] < k /\ k < key[MaxNode]
         /\ key[HeadNode] < key[MaxNode] /\ HeadNode # MaxNode
<1>1. \A n \in Nodes : key[n] \in SetKeys \cup {key[HeadNode], key[MaxNode]}
  BY DEF FormInv
<1>2. /\ \A k \in SetKeys : k \in Int /\ key[HeadNode] < k /\ k < key[MaxNode]
      /\ key[HeadNode] < key[MaxNode] /\ key[HeadNode] \in Int /\ key[MaxNode] \in Int
  BY KeysAssumption DEF FormInv
<1> QED
  BY <1>1, <1>2

\* What a process in an operation knows of its key.
LEMMA OpProps ==
  ASSUME FormInv, NEW p \in Procs, CallInv(p), lpc[p] # "idle"
  PROVE  /\ op[p] \in Operation /\ op[p].lo \in SetKeys /\ op[p].hi \in SetKeys
         /\ op[p].type \in OpTypes
         /\ op[p].lo \in Int
<1>1. op[p] \in Operation
  BY DEF CallInv
<1>2. op[p].lo \in SetKeys /\ op[p].hi \in SetKeys /\ op[p].type \in OpTypes
  BY <1>1 DEF Operation
<1> QED
  BY <1>1, <1>2, KeyProps

\* Where an operation stands once its search has stopped.
LEMMA StoppedProps ==
  ASSUME LInv, NEW p \in Procs, lpc[p] \in StoppedLPCs
  PROVE  /\ pred[p] \in alloc /\ curr[p] \in alloc /\ pred[p] \in Nodes /\ curr[p] \in Nodes
         /\ key[pred[p]] < key[curr[p]] /\ pred[p] # curr[p]
         /\ pred[p] # MaxNode /\ curr[p] # HeadNode
         /\ op[p].type = "erase" => curr[p] # MaxNode
<1>1. FormInv /\ CallInv(p) /\ PlaceInv(p) /\ lpc[p] # "idle"
  BY DEF LInv, LocalInv, StoppedLPCs, UpdateLPCs, EraseLPCs, ReadLPCs
<1>2. pred[p] \in alloc /\ curr[p] \in alloc /\ pred[p] \in Nodes /\ curr[p] \in Nodes
  BY <1>1 DEF PlaceInv, FormInv
<1>3. key[pred[p]] \in Int /\ key[curr[p]] \in Int /\ op[p].lo \in Int /\ op[p].lo \in SetKeys
  BY <1>1, <1>2, KeyProps, OpProps
<1>4. /\ key[pred[p]] < op[p].lo /\ op[p].lo <= key[curr[p]]
      /\ op[p].type = "erase" => key[curr[p]] = op[p].lo
  BY <1>1 DEF PlaceInv
<1>5. key[HeadNode] < op[p].lo /\ op[p].lo < key[MaxNode] /\ key[HeadNode] \in Int /\ key[MaxNode] \in Int
  BY <1>1, <1>3, KeyProps, Basics
<1> QED
  BY <1>2, <1>3, <1>4, <1>5

\* The update that an insert or an erase asks the provider for.
LEMMA InsertUpdate ==
  ASSUME LInv, NEW p \in Procs, lpc[p] \in StoppedLPCs, NEW n \in Nodes \ alloc
  PROVE  <<Write(n, curr[p]), Write(pred[p], n)>> \in Updates
<1>1. pred[p] \in alloc /\ pred[p] \in Nodes /\ curr[p] \in Nodes
  BY StoppedProps
<1>2. n # pred[p] /\ n \in Nodes
  BY <1>1
<1> QED
  BY <1>1, <1>2, ListAssumption

LEMMA EraseUpdate ==
  ASSUME LInv, NEW p \in Procs, lpc[p] \in StoppedLPCs, op[p].type = "erase"
  PROVE  /\ <<Write(pred[p], next[curr[p]]), Write(curr[p], HeadNode)>> \in Updates
         /\ next[curr[p]] \in alloc
<1>1. curr[p] \in alloc \ {MaxNode} /\ pred[p] \in Nodes /\ curr[p] \in Nodes /\ pred[p] # curr[p]
  BY StoppedProps
<1>2. next[curr[p]] \in alloc /\ alloc \subseteq Nodes
  BY <1>1 DEF LInv, LinkInv, LinkOf, FormInv
<1> QED
  BY <1>1, <1>2, ListAssumption

\* What a query of the list has read is a node.
LEMMA ReadNode ==
  ASSUME SInv, LInv, NEW p \in Procs, lpc[p] = "query", pc[p] = "query", at[p] # NoBundle
  PROVE  /\ at[p] \in Nodes /\ out[p] \in Nodes
         /\ out[p] = ValueAt(at[p], qts[p]) /\ qts[p] \in FirstTS .. clock
<1>1. ReadsWell(p) /\ EntryInv(p)
  BY DEF SInv, RInv, ReadInv, LInv, LocalInv
<1>2. at[p] \in Nodes /\ clock \in Nat /\ qts[p] \in Nat
  BY Basics DEF SInv, RInv, IInv, TypeOK
<1>3. out[p] = ValueAt(at[p], qts[p]) /\ ValueAt(at[p], qts[p]) # NoPtr
  BY <1>1 DEF ReadsWell, EntryInv
<1>4. FirstTS <= qts[p] /\ qts[p] <= clock
  BY <1>1 DEF ReadsWell, QueryingPCs
<1>5. out[p] \in Nodes
  BY <1>2, <1>3, ValueType, Basics DEF SInv, RInv
<1> QED
  BY <1>2, <1>3, <1>4, <1>5 DEF FirstTS

LEMMA StepOfProvider ==
  ASSUME SInv, LInv, NEW p \in Procs, Call(p) \/ ListStep(p)
  PROVE  Update(p) \/ Query(p) \/ RunContains(p) \/ UNCHANGED vars
<1>1. p \in Updaters /\ p \in Queriers /\ p \in Getters
  BY Basics
<1>2. CASE BeginInsert(p)
  <2>1. PICK n \in Nodes \ alloc : BeginUpdate(p, <<Write(n, curr[p]), Write(pred[p], n)>>)
    BY <1>2 DEF BeginInsert
  <2>2. <<Write(n, curr[p]), Write(pred[p], n)>> \in Updates
    BY <1>2, InsertUpdate DEF BeginInsert, StoppedLPCs, UpdateLPCs
  <2> QED
    BY <1>1, <2>1, <2>2 DEF Update
<1>3. CASE BeginErase(p)
  <2>1. <<Write(pred[p], next[curr[p]]), Write(curr[p], HeadNode)>> \in Updates
    BY <1>3, EraseUpdate DEF BeginErase, StoppedLPCs, UpdateLPCs
  <2> QED
    BY <1>1, <1>3, <2>1 DEF Update, BeginErase
<1>4. CASE PrepareAndLabel(p) \/ FinalizeBundles(p) \/ UnlockFirst(p)
  BY <1>1, <1>4
  DEF PrepareAndLabel, FinalizeBundles, UnlockFirst, Update, UpdateStep
<1>5. pred[p] \in Bundles
  BY Basics DEF LInv, FormInv
<1>6. CASE EnterNewest(p) \/ GetNext(p) \/ EndContains(p)
  <2>1. CASE EnterNewest(p) \/ EndContains(p)
    BY <1>1, <1>5, <2>1 DEF EnterNewest, EndContains, RunContains
  <2>2. CASE GetNext(p)
    <3>1. pc[p] = "got" => out[p] \in Bundles
      BY <2>2, Basics DEF GetNext, LInv, LocalInv, PcInv
    <3> QED
      BY <1>1, <2>2, <3>1 DEF GetNext, RunContains
  <2> QED
    BY <1>6, <2>1, <2>2
<1>7. CASE StartQuery(p) \/ EnterSnapshot(p) \/ ReadBundle(p) \/ Collect(p) \/ EndQuery(p)
  <2>1. CASE StartQuery(p) \/ ReadBundle(p) \/ EndQuery(p)
    BY <1>1, <2>1 DEF StartQuery, ReadBundle, EndQuery, Query
  <2>2. CASE EnterSnapshot(p)
    BY <1>1, <1>5, <2>2 DEF EnterSnapshot, Query
  <2>3. CASE Collect(p)
    <3>1. out[p] \in Bundles
      BY <2>3, ReadNode, Basics DEF Collect
    <3> QED
      BY <1>1, <2>3, <3>1 DEF Collect, Query
  <2> QED
    BY <1>7, <2>1, <2>2, <2>3
<1>8. CASE \/ Call(p) \/ Search(p) \/ LockCurr(p) \/ LockPred(p) \/ Invalid(p) \/ Present(p)
           \/ LinWrite(p) \/ Unlink(p) \/ UnlockPred(p) \/ RetryCurr(p) \/ RetryPred(p)
  BY <1>8
  DEF Call, Search, LockCurr, LockPred, Invalid, Present, LinWrite, Unlink, UnlockPred,
      RetryCurr, RetryPred
<1> QED
  BY <1>2, <1>3, <1>4, <1>6, <1>7, <1>8 DEF ListStep

LEMMA StepIsNext ==
  ASSUME SInv, LInv, NEW p \in Procs, Call(p) \/ ListStep(p)
  PROVE  [Next]_vars
BY StepOfProvider, Basics DEF Next

-----------------------------------------------------------------------------
(***************************************************************************)
(* What a process's step leaves alone, and with it all that the invariant  *)
(* says of the other processes.                                            *)
(***************************************************************************)
Frame(p) ==
  /\ alloc \subseteq alloc'
  /\ \A n \in alloc : key'[n] = key[n]
  /\ \A n \in alloc : lock[n] \notin {p, NoProc} =>
        lock'[n] = lock[n] /\ next'[n] = next[n] /\ marked'[n] = marked[n]
  /\ \A q \in Procs : q # p =>
        /\ lpc'[q] = lpc[q] /\ todo'[q] = todo[q] /\ op'[q] = op[q]
        /\ pred'[q] = pred[q] /\ curr'[q] = curr[q]
        /\ pc'[q] = pc[q] /\ upd'[q] = upd[q] /\ qts'[q] = qts[q] /\ at'[q] = at[q]
        /\ out'[q] = out[q]

\* What any step of the provider does to the links over time.
LEMMA PastHeld ==
  ASSUME SInv, [Next]_vars
  PROVE  /\ IInv /\ IInv' /\ LabelStep /\ clock \in Nat /\ clock' \in Nat
         /\ FirstTS <= clock /\ clock <= clock' /\ clock <= LastTS
         /\ \A b \in Bundles : \A t \in FirstTS .. clock : ValueAt(b, t)' = ValueAt(b, t)
<1>1. IInv /\ IInv' /\ LabelStep
  BY NextInv DEF SInv, RInv
<1>2. clock \in Nat /\ clock' \in Nat /\ FirstTS <= clock /\ clock <= LastTS
  BY <1>1, PendingAssumption DEF IInv, TypeOK, UInv, ClockInv, LastTS
<1>3. \A b \in Bundles : \A t \in FirstTS .. clock : ValueAt(b, t)' = ValueAt(b, t)
  BY <1>1, ValueKept
<1> QED
  BY <1>1, <1>2, <1>3 DEF LabelStep

LEMMA NeverCleans ==
  ASSUME SInv
  PROVE  ~Clean
BY Basics
DEF SInv, RInv, NothingFreed, Clean, CleanStart, CleanAwaitFlag, CleanReadLin,
    CleanLoadHead, CleanCut, CleanEnd

\* A node that has been inserted stays so.
LEMMA InsertedStays ==
  ASSUME SInv, [Next]_vars, NEW n \in Nodes, Inserted(n)
  PROVE  Inserted(n)'
<1>1. CASE n = MaxNode
  BY <1>1 DEF Inserted
<1>2. CASE n # MaxNode
  <2>1. PICK s \in FirstTS .. clock : s = clock
    BY PastHeld DEF FirstTS
  <2>2. PICK t \in Nat : t = clock'
    BY PastHeld
  <2>3. s <= t /\ s \in Nat /\ IInv' /\ n \in Bundles
    BY <2>1, <2>2, PastHeld, Basics
  <2>4. ValueAt(n, s)' # NoPtr
    BY <1>2, <2>1, <2>3, PastHeld DEF Inserted
  <2>5. Visible(n, s)' # {}
    BY <2>3, <2>4, ValueTypeNext
  <2>6. PICK i \in 1 .. Newest(bundle'[n]) : Label(n, i)' <= s
    BY <2>5 DEF Visible
  <2>7. Label(n, i)' \in Nat
    <3>1. bundle'[n] \in Bundle
      BY <2>3 DEF IInv, TypeOK
    <3>2. bundle'[n].entries[i].ts \in Nat
      BY <3>1, NewestNat
    <3>3. owner'[n] # NoProc => ts'[owner'[n]] \in Nat
      BY <2>3, ProcsAssumption DEF IInv, TypeOK
    <3> QED
      BY <3>2, <3>3, PendingAssumption DEF Label
  <2>8. i \in Visible(n, t)'
    BY <2>3, <2>6, <2>7 DEF Visible
  <2>9. ValueAt(n, t)' # NoPtr
    BY <2>3, <2>8, ValueTypeNext
  <2> QED
    BY <2>2, <2>9 DEF Inserted
<1> QED
  BY <1>1, <1>2

\* No time sees what a process has under way while others take their steps.
LEMMA UnseenStays ==
  ASSUME SInv, [Next]_vars, NEW p \in Procs, NEW q \in Procs, q # p,
         \A r \in Procs : r # p => pc'[r] = pc[r],
         NEW b \in Bundles, owner[b] = q
  PROVE  ValueAt(b, LastTS)' = ValueAt(b, LastTS)
<1>1. IInv /\ IInv' /\ LabelStep /\ LastTS \in FirstTS .. LastTS
  <2>1. LastTS \in Int /\ FirstTS <= LastTS
    BY PastHeld, PendingAssumption DEF LastTS, FirstTS
  <2> QED
    BY <2>1, PastHeld DEF FirstTS
<1>2. CASE ~\E r \in Updaters : LoadTS(r)
  BY <1>1, <1>2, NeverCleans, StepKeepsLabels, ViewKept
<1>3. CASE \E r \in Updaters : LoadTS(r)
  <2>1. PICK r \in Updaters : LoadTS(r)
    BY <1>3
  <2>2. r = p
    <3>1. pc[r] = "load" /\ pc'[r] = "reload"
      BY <1>1, <2>1, ProcsAssumption DEF LoadTS, IInv, TypeOK
    <3> QED
      BY <3>1, ProcsAssumption
  <2>3. b \notin BundlesOf(upd[p])
    BY <1>1, <2>1, <2>2 DEF IInv, UInv, OwnerInv
  <2> QED
    BY <1>1, <2>1, <2>2, <2>3, LoadTakes
<1> QED
  BY <1>2, <1>3

\* An update of the list writes two bundles, and owns them.
LEMMA TwoWrites ==
  ASSUME IInv, NEW q \in Procs, Len(upd[q]) = 2
  PROVE  /\ BundlesOf(upd[q]) = {upd[q][1].bundle, upd[q][2].bundle} /\ upd[q] \in Updates
         /\ upd[q][1].bundle \in Nodes /\ upd[q][1].ptr \in Nodes
         /\ upd[q][2].bundle \in Nodes /\ upd[q][2].ptr \in Nodes
         /\ upd[q][1].bundle # upd[q][2].bundle
         /\ owner[upd[q][1].bundle] = q /\ owner[upd[q][2].bundle] = q
<1>1. q \in Updaters
  BY Basics
<1>2. BundlesOf(upd[q]) = {upd[q][1].bundle, upd[q][2].bundle}
  <2>1. \A i : i \in 1 .. Len(upd[q]) <=> i = 1 \/ i = 2
    OBVIOUS
  <2> QED
    BY <2>1 DEF BundlesOf
<1>3. 1 \in 1 .. Len(upd[q]) /\ 2 \in 1 .. Len(upd[q])
  OBVIOUS
<1>4. /\ upd[q] \in Updates
      /\ upd[q][1].bundle \in Bundles /\ upd[q][1].ptr \in Ptrs /\ owner[upd[q][1].bundle] = q
  BY <1>1, <1>3, Exclusive
<1>5. upd[q][2].bundle \in Bundles /\ upd[q][2].ptr \in Ptrs /\ owner[upd[q][2].bundle] = q
  BY <1>1, <1>3, Exclusive
<1>6. upd[q][1].bundle # upd[q][2].bundle
  BY <1>3, <1>4, UpdateProps
<1> QED
  BY <1>2, <1>4, <1>5, <1>6, Basics

LEMMA OthersCall ==
  ASSUME NEW p \in Procs, Frame(p), NEW q \in Procs, q # p, LocalInv(q)
  PROVE  CallInv(q)' /\ PcInv(q)'
<1>1. CallInv(q)'
  BY DEF Frame, LocalInv, CallInv
<1>2. PcInv(q)'
  BY DEF Frame, LocalInv, PcInv
<1> QED
  BY <1>1, <1>2

LEMMA OthersPlace ==
  ASSUME SInv, LInv, [Next]_vars, NEW p \in Procs, Frame(p), NEW q \in Procs, q # p
  PROVE  PlaceInv(q)' /\ LockInv(q)'
<1>1. /\ lpc'[q] = lpc[q] /\ op'[q] = op[q] /\ pred'[q] = pred[q] /\ curr'[q] = curr[q]
      /\ PlaceInv(q) /\ LockInv(q)
  BY DEF Frame, LInv, LocalInv
<1>2. PICK m \in alloc : m = pred[q] /\ Inserted(m) /\ m \in Nodes
  BY <1>1 DEF PlaceInv, LInv, FormInv
<1>3. PICK n \in alloc : n = curr[q] /\ Inserted(n) /\ n \in Nodes
  BY <1>1 DEF PlaceInv, LInv, FormInv
<1>4. m \in alloc' /\ key'[m] = key[m] /\ n \in alloc' /\ key'[n] = key[n]
  BY DEF Frame
<1>5. Inserted(m)' /\ Inserted(n)'
  BY <1>2, <1>3, InsertedStays
<1>6. PlaceInv(q)'
  <2>1. pred'[q] \in alloc' /\ curr'[q] \in alloc' /\ Inserted(pred[q])' /\ Inserted(curr[q])'
    <3>1. Inserted(pred[q])'
      BY <1>1, <1>2, <1>5 DEF Inserted
    <3>2. Inserted(curr[q])'
      BY <1>1, <1>3, <1>5 DEF Inserted
    <3> QED
      BY <1>1, <1>2, <1>3, <1>4, <3>1, <3>2
  <2> QED
    BY <1>1, <1>2, <1>3, <1>4, <2>1 DEF PlaceInv
<1>7. LockInv(q)'
  <2>1. q # NoProc
    BY Basics
  <2>2. lock[m] = q => lock'[m] = q
    BY <2>1 DEF Frame
  <2>3. lock[n] = q => lock'[n] = q
    BY <2>1 DEF Frame
  <2> QED
    BY <1>1, <1>2, <1>3, <2>2, <2>3 DEF LockInv
<1> QED
  BY <1>6, <1>7

LEMMA OthersWrite ==
  ASSUME SInv, LInv, [Next]_vars, NEW p \in Procs, Frame(p), NEW q \in Procs, q # p
  PROVE  WriteInv(q)'
<1>1. /\ lpc'[q] = lpc[q] /\ op'[q] = op[q] /\ pred'[q] = pred[q] /\ curr'[q] = curr[q]
      /\ upd'[q] = upd[q]
      /\ PlaceInv(q) /\ LockInv(q) /\ WriteInv(q) /\ CallInv(q) /\ FormInv
  BY DEF Frame, LInv, LocalInv
<1> SUFFICES ASSUME lpc[q] \in {"label", "finalize", "unlock"}
             PROVE  IF op[q].type = "insert" THEN InsertInv(q, upd[q][1].bundle)'
                    ELSE EraseInv(q, upd[q][1].ptr)'
  BY <1>1 DEF WriteInv
<1>2. PICK m \in alloc : m = pred[q] /\ m \in Nodes
  BY <1>1 DEF PlaceInv, FormInv
<1>3. PICK c \in alloc : c = curr[q] /\ c \in Nodes
  BY <1>1 DEF PlaceInv, FormInv
<1>4. /\ q \notin {p, NoProc} /\ lock[m] = q
      /\ next'[m] = next[m] /\ marked'[m] = marked[m]
      /\ key'[c] = key[c]
  <2>1. q \notin {p, NoProc} /\ lock[m] = q
    BY <1>1, <1>2, Basics DEF LockInv, UpdateLPCs
  <2> QED
    BY <2>1 DEF Frame
<1>5. CASE op[q].type = "insert"
  <2>1. PICK n : n = upd[q][1].bundle
    OBVIOUS
  <2>2. InsertInv(q, n)
    BY <1>1, <1>5, <2>1 DEF WriteInv
  <2>3. n \in alloc \ {HeadNode, MaxNode} /\ lock[n] = q /\ n \in Nodes
    BY <1>1, <2>2 DEF InsertInv, FormInv
  <2>4. lock'[n] = q /\ next'[n] = next[n] /\ marked'[n] = marked[n] /\ key'[n] = key[n] /\ n \in alloc'
    BY <1>4, <2>3 DEF Frame
  <2>5. lpc[q] = "finalize" => Inserted(n)'
    BY <2>2, <2>3, InsertedStays DEF InsertInv
  <2>6. InsertInv(q, n)'
    BY <1>1, <1>2, <1>3, <1>4, <2>2, <2>3, <2>4, <2>5 DEF InsertInv
  <2>7. upd'[q][1].bundle = n
    BY <1>1, <2>1
  <2>8. InsertInv(q, upd[q][1].bundle)'
    BY <2>6, <2>7 DEF InsertInv, Inserted
  <2> QED
    BY <1>5, <2>8
<1>6. CASE op[q].type # "insert"
  <2>1. PICK s : s = upd[q][1].ptr
    OBVIOUS
  <2>2. EraseInv(q, s)
    BY <1>1, <1>6, <2>1 DEF WriteInv
  <2>3. lock[c] = q
    <3>1. op[q].type = "erase"
      BY <1>1, <1>6 DEF CallInv, UpdateLPCs, EraseLPCs
    <3> QED
      BY <1>1, <1>3, <3>1 DEF LockInv
  <2>4. next'[c] = next[c] /\ marked'[c] = marked[c]
    BY <1>4, <2>3 DEF Frame
  <2>5. EraseInv(q, s)'
    BY <1>1, <1>2, <1>3, <1>4, <2>2, <2>4 DEF EraseInv
  <2>6. upd'[q][1].ptr = s
    BY <1>1, <2>1
  <2>7. EraseInv(q, upd[q][1].ptr)'
    BY <2>5, <2>6 DEF EraseInv
  <2> QED
    BY <1>6, <2>7
<1> QED
  BY <1>5, <1>6

\* The nodes an update of the list owns.
LEMMA OwnsNodes ==
  ASSUME SInv, LInv, NEW q \in Procs, lpc[q] \in {"label", "finalize", "unlock"}
  PROVE  /\ owner[pred[q]] = q /\ pred[q] \in Nodes
         /\ op[q].type = "erase" => /\ owner[curr[q]] = q /\ upd[q][1].ptr \in Nodes
                                    /\ BundlesOf(upd[q]) = {pred[q], curr[q]}
         /\ op[q].type = "insert" =>
              /\ owner[upd[q][1].bundle] = q /\ upd[q][1].bundle \in Nodes
              /\ BundlesOf(upd[q]) = {pred[q], upd[q][1].bundle}
         /\ op[q].type \in {"insert", "erase"}
<1>1. IInv /\ WriteInv(q) /\ CallInv(q)
  BY DEF SInv, RInv, LInv, LocalInv
<1>2. op[q].type \in {"insert", "erase"}
  BY <1>1 DEF CallInv, UpdateLPCs, EraseLPCs
<1>3. CASE op[q].type = "insert"
  <2>1. PICK n : n = upd[q][1].bundle /\ upd[q] = <<Write(n, curr[q]), Write(pred[q], n)>>
    BY <1>1, <1>3 DEF WriteInv, InsertInv
  <2>2. /\ BundlesOf(upd[q]) = {n, pred[q]} /\ pred[q] \in Nodes /\ n \in Nodes
        /\ owner[n] = q /\ owner[pred[q]] = q
    <3>1. /\ Len(upd[q]) = 2
          /\ upd[q][1].bundle = n /\ upd[q][2].bundle = pred[q] /\ upd[q][1].ptr = curr[q]
      BY <2>1 DEF Write
    <3> QED
      BY <1>1, <3>1, TwoWrites
  <2> QED
    BY <1>3, <2>1, <2>2
<1>4. CASE op[q].type = "erase"
  <2>1. PICK s : /\ s = upd[q][1].ptr
                 /\ upd[q] = <<Write(pred[q], s), Write(curr[q], HeadNode)>>
    BY <1>1, <1>4 DEF WriteInv, EraseInv
  <2>2. /\ BundlesOf(upd[q]) = {pred[q], curr[q]} /\ pred[q] \in Nodes /\ s \in Nodes
        /\ owner[curr[q]] = q /\ owner[pred[q]] = q
    <3>1. /\ Len(upd[q]) = 2
          /\ upd[q][1].bundle = pred[q] /\ upd[q][2].bundle = curr[q] /\ upd[q][1].ptr = s
      BY <2>1 DEF Write
    <3> QED
      BY <1>1, <3>1, TwoWrites
  <2> QED
    BY <1>4, <2>1, <2>2
<1> QED
  BY <1>2, <1>3, <1>4

\* An update that has not loaded the clock is at its labels.
LEMMA Labelling ==
  ASSUME LInv, NEW q \in Procs, pc[q] \in {"prepare", "load", "reload", "bump"}
  PROVE  lpc[q] = "label"
<1>1. lpc[q] \in {"idle", "search"} \cup StoppedLPCs /\ PcInv(q)
  BY DEF LInv, LocalInv, FormInv
<1> QED
  BY <1>1 DEF PcInv, GetPCs, AnnouncePCs, LookupPCs

LEMMA OthersUnseen ==
  ASSUME SInv, LInv, [Next]_vars, NEW p \in Procs, Frame(p), NEW q \in Procs, q # p
  PROVE  UnseenInv(q)'
<1>1. /\ lpc'[q] = lpc[q] /\ op'[q] = op[q] /\ pred'[q] = pred[q] /\ curr'[q] = curr[q]
      /\ upd'[q] = upd[q] /\ pc'[q] = pc[q] /\ UnseenInv(q)
  BY DEF Frame, LInv, LocalInv
<1> SUFFICES ASSUME pc[q] \in {"prepare", "load"}
             PROVE  /\ ValueAt(pred[q], LastTS)' = curr[q]
                    /\ op[q].type = "erase" => ValueAt(curr[q], LastTS)' = upd[q][1].ptr
                    /\ op[q].type = "insert" => ValueAt(upd[q][1].bundle, LastTS)' = NoPtr
  BY <1>1 DEF UnseenInv
<1>2. lpc[q] = "label"
  BY Labelling
<1>3. \A r \in Procs : r # p => pc'[r] = pc[r]
  BY DEF Frame
<1>4. ValueAt(pred[q], LastTS)' = curr[q]
  <2>1. PICK m \in Nodes : m = pred[q] /\ owner[m] = q
    BY <1>2, OwnsNodes
  <2>2. ValueAt(m, LastTS)' = ValueAt(m, LastTS)
    BY <1>3, <2>1, UnseenStays, Basics
  <2>3. ValueAt(m, LastTS)' = curr[q]
    BY <1>1, <2>1, <2>2 DEF UnseenInv
  <2> QED
    BY <1>1, <2>1, <2>3 DEF ValueAt, VersionAt, Visible, Label
<1>5. ASSUME op[q].type = "erase" PROVE ValueAt(curr[q], LastTS)' = upd[q][1].ptr
  <2>1. PICK c \in Nodes : c = curr[q] /\ owner[c] = q
    BY <1>2, <1>5, OwnsNodes DEF LInv, FormInv
  <2>2. ValueAt(c, LastTS)' = ValueAt(c, LastTS)
    BY <1>3, <2>1, UnseenStays, Basics
  <2>3. ValueAt(c, LastTS)' = upd[q][1].ptr
    BY <1>1, <1>5, <2>1, <2>2 DEF UnseenInv
  <2> QED
    BY <1>1, <2>1, <2>3 DEF ValueAt, VersionAt, Visible, Label
<1>6. ASSUME op[q].type = "insert" PROVE ValueAt(upd[q][1].bundle, LastTS)' = NoPtr
  <2>1. PICK n \in Nodes : n = upd[q][1].bundle /\ owner[n] = q
    <3>1. owner[upd[q][1].bundle] = q /\ upd[q][1].bundle \in Nodes
      BY <1>2, <1>6, OwnsNodes
    <3> QED
      BY <3>1
  <2>2. ValueAt(n, LastTS)' = ValueAt(n, LastTS)
    BY <1>3, <2>1, UnseenStays, Basics
  <2>3. ValueAt(n, LastTS)' = NoPtr
    BY <1>1, <1>6, <2>1, <2>2 DEF UnseenInv
  <2> QED
    BY <1>1, <2>1, <2>3 DEF ValueAt, VersionAt, Visible, Label
<1> QED
  BY <1>4, <1>5, <1>6

\* The snapshot of a query keeps its links.
LEMMA EntriesHeld ==
  ASSUME SInv, [Next]_vars, NEW q \in Procs, NEW t, t = qts[q], t # NullTS,
         NEW b \in Nodes, ValueAt(b, t) # NoPtr
  PROVE  ValueAt(b, t)' # NoPtr
<1>1. t \in Nat /\ FirstTS <= t /\ t <= clock
  BY DEF SInv, RInv, ReadInv, ReadsWell, IInv, TypeOK
<1>2. t \in FirstTS .. clock
  BY <1>1, PastHeld DEF FirstTS
<1> QED
  BY <1>2, PastHeld, Basics

\* A node and a time that variables hold after a step.
LEMMA HeldNext ==
  ASSUME NEW q, NEW m, NEW t
  PROVE  /\ (m = pred[q] /\ t = qts[q] => ValueAt(pred[q], qts[q]) = ValueAt(m, t))'
         /\ (m = at[q] /\ t = qts[q] => ValueAt(at[q], qts[q]) = ValueAt(m, t))'
<1>1. m = pred[q] /\ t = qts[q] => ValueAt(pred[q], qts[q]) = ValueAt(m, t)
  OBVIOUS
<1>2. m = at[q] /\ t = qts[q] => ValueAt(at[q], qts[q]) = ValueAt(m, t)
  OBVIOUS
<1> QED
  BY <1>1, <1>2, PTL

LEMMA OthersEntry ==
  ASSUME SInv, LInv, [Next]_vars, NEW p \in Procs, Frame(p), NEW q \in Procs, q # p
  PROVE  EntryInv(q)'
<1>1. /\ lpc'[q] = lpc[q] /\ pred'[q] = pred[q] /\ pc'[q] = pc[q] /\ at'[q] = at[q]
      /\ qts'[q] = qts[q] /\ EntryInv(q) /\ PcInv(q) /\ ReadsWell(q)
  BY DEF Frame, LInv, LocalInv, SInv, RInv, ReadInv
<1>2. pred[q] \in Nodes /\ at[q] \in Nodes \cup {NoBundle}
  BY Basics DEF LInv, FormInv, SInv, RInv, IInv, TypeOK
<1>3. ASSUME \/ lpc[q] = "announce" /\ pc[q] \in {"announce", "clear"}
             \/ lpc[q] = "query"
      PROVE  /\ ValueAt(pred[q], qts[q])' # NoPtr
             /\ lpc[q] = "query" /\ at[q] # NoBundle => ValueAt(at[q], qts[q])' # NoPtr
  <2>1. PICK t : t = qts[q] /\ t # NullTS
    BY <1>1, <1>3 DEF PcInv, ReadsWell, QueryingPCs
  <2>2. ValueAt(pred[q], qts[q])' # NoPtr
    <3>1. PICK m \in Nodes : m = pred[q] /\ ValueAt(m, t) # NoPtr
      BY <1>1, <1>2, <1>3, <2>1 DEF EntryInv
    <3>2. ValueAt(m, t)' # NoPtr
      BY <2>1, <3>1, EntriesHeld
    <3> QED
      BY <1>1, <2>1, <3>1, <3>2, HeldNext
  <2>3. ASSUME lpc[q] = "query", at[q] # NoBundle PROVE ValueAt(at[q], qts[q])' # NoPtr
    <3>1. PICK m \in Nodes : m = at[q] /\ ValueAt(m, t) # NoPtr
      BY <1>1, <1>2, <2>1, <2>3 DEF EntryInv
    <3>2. ValueAt(m, t)' # NoPtr
      BY <2>1, <3>1, EntriesHeld
    <3> QED
      BY <1>1, <2>1, <3>1, <3>2, HeldNext
  <2> QED
    BY <2>2, <2>3
<1> QED
  BY <1>1, <1>3 DEF EntryInv

LEMMA Others ==
  ASSUME SInv, LInv, [Next]_vars, NEW p \in Procs, Frame(p), NEW q \in Procs, q # p
  PROVE  LocalInv(q)'
<1>1. LocalInv(q)
  BY DEF LInv
<1> QED
  BY <1>1, OthersCall, OthersPlace, OthersWrite, OthersUnseen, OthersEntry DEF LocalInv

-----------------------------------------------------------------------------
(***************************************************************************)
(* The shape of the list.                                                  *)
(***************************************************************************)
Listed(links) == {MaxNode} \cup {n \in Nodes : links[n] \notin {NoPtr, HeadNode}}

LEMMA SortedProps ==
  ASSUME NEW k, NEW links
  PROVE  SortedLinks(k, links) <=>
           /\ HeadNode \in Listed(links)
           /\ \A n \in Listed(links) \ {MaxNode} :
                links[n] \in Listed(links) /\ k[n] < k[links[n]]
           /\ \A m, n \in Listed(links) \ {MaxNode} : links[m] = links[n] => m = n
BY DEF SortedLinks, Listed

\* Only the keys of the nodes in the list matter.
LEMMA SortedSame ==
  ASSUME NEW k, NEW h, NEW links, SortedLinks(k, links),
         \A n \in Listed(links) : h[n] = k[n]
  PROVE  SortedLinks(h, links)
BY SortedProps

\* A new node goes between two neighbours.
LEMMA SortedInsert ==
  ASSUME NEW k, NEW f, NEW g, SortedLinks(k, f),
         \A x \in Nodes : k[x] \in Int /\ k[HeadNode] <= k[x],
         NEW m \in Nodes \ {MaxNode}, NEW c \in Nodes, f[m] = c,
         NEW n \in Nodes \ {HeadNode, MaxNode}, f[n] = NoPtr, k[m] < k[n], k[n] < k[c],
         g[n] = c, g[m] = n, \A x \in Nodes : x \notin {m, n} => g[x] = f[x]
  PROVE  SortedLinks(k, g)
<1>1. m # n /\ c # HeadNode /\ c # NoPtr /\ n # NoPtr /\ HeadNode \in Nodes /\ MaxNode \in Nodes
  BY Basics
<1>2. m \in Listed(f) /\ n \notin Listed(f)
  BY <1>1 DEF Listed
<1>3. c \in Listed(f) /\ c # n
  BY <1>2, SortedProps
<1>4. Listed(g) = Listed(f) \cup {n}
  BY <1>1, <1>2 DEF Listed
<1>5. \A x \in Listed(f) \ {MaxNode} : x # m => x \in Nodes /\ g[x] = f[x] /\ f[x] \in Listed(f)
  <2>1. \A x \in Listed(f) : x \in Nodes
    BY <1>1 DEF Listed
  <2> QED
    BY <1>2, <2>1, SortedProps
<1>6. HeadNode \in Listed(g)
  BY <1>4, SortedProps
<1>7. \A x \in Listed(g) \ {MaxNode} : g[x] \in Listed(g) /\ k[x] < k[g[x]]
  <2>1. g[n] \in Listed(g) /\ k[n] < k[g[n]] /\ g[m] \in Listed(g) /\ k[m] < k[g[m]]
    BY <1>3, <1>4
  <2>2. \A x \in Listed(f) \ {MaxNode} : x # m => g[x] \in Listed(g) /\ k[x] < k[g[x]]
    BY <1>4, <1>5, SortedProps
  <2> QED
    BY <1>4, <2>1, <2>2
<1>8. ASSUME NEW x \in Listed(g) \ {MaxNode}, NEW y \in Listed(g) \ {MaxNode}, g[x] = g[y]
      PROVE  x = y
  <2>1. \A z \in Listed(f) \ {MaxNode} : z # m => f[z] # c
    BY <1>2, SortedProps
  <2>2. CASE x \in {m, n} /\ y \in {m, n}
    BY <1>3, <1>8, <2>2
  <2>3. CASE x \in {m, n} /\ y \notin {m, n}
    <3>1. y \in Listed(f) \ {MaxNode} /\ y # m /\ g[y] = f[y] /\ f[y] # c /\ f[y] # n
      BY <1>2, <1>4, <1>5, <2>1, <2>3
    <3> QED
      BY <1>8, <2>3, <3>1
  <2>4. CASE x \notin {m, n} /\ y \in {m, n}
    <3>1. x \in Listed(f) \ {MaxNode} /\ x # m /\ g[x] = f[x] /\ f[x] # c /\ f[x] # n
      BY <1>2, <1>4, <1>5, <2>1, <2>4
    <3> QED
      BY <1>8, <2>4, <3>1
  <2>5. CASE x \notin {m, n} /\ y \notin {m, n}
    <3>1. x \in Listed(f) \ {MaxNode} /\ y \in Listed(f) \ {MaxNode} /\ g[x] = f[x] /\ g[y] = f[y]
      BY <1>4, <1>5, <2>5
    <3> QED
      BY <1>8, <3>1, SortedProps
  <2> QED
    BY <2>2, <2>3, <2>4, <2>5
<1> QED
  BY <1>6, <1>7, <1>8, SortedProps

\* A node goes out from between two neighbours.
LEMMA SortedErase ==
  ASSUME NEW k, NEW f, NEW g, SortedLinks(k, f), \A x \in Nodes : k[x] \in Int,
         NEW m \in Nodes \ {MaxNode}, NEW c \in Nodes \ {HeadNode, MaxNode}, f[m] = c, m # c,
         NEW s, f[c] = s,
         g[m] = s, g[c] = HeadNode, \A x \in Nodes : x \notin {m, c} => g[x] = f[x]
  PROVE  SortedLinks(k, g)
<1>1. HeadNode \in Nodes /\ MaxNode \in Nodes /\ NoPtr \notin Nodes
  BY Basics
<1>2. m \in Listed(f)
  BY <1>1 DEF Listed
<1>3. c \in Listed(f)
  BY <1>2, SortedProps
<1>4. s \in Listed(f) /\ k[c] < k[s] /\ k[m] < k[c]
  BY <1>2, <1>3, SortedProps
<1>5. \A x \in Listed(f) : x \in Nodes
  BY <1>1 DEF Listed
<1>6. k[m] \in Int /\ k[c] \in Int /\ k[s] \in Int
  BY <1>4, <1>5
<1>7. s # c
  BY <1>4, <1>6
<1>8. s \notin {NoPtr, HeadNode}
  BY <1>1, <1>3, <1>4, <1>5 DEF Listed
<1>9. Listed(g) = Listed(f) \ {c}
  <2>1. \A x \in Nodes \ {MaxNode} : x \in Listed(g) <=> x \in Listed(f) \ {c}
    <3>1. m \in Listed(g) /\ c \notin Listed(g)
      BY <1>1, <1>8 DEF Listed
    <3>2. \A x \in Nodes : x \notin {m, c} => (x \in Listed(g) <=> x \in Listed(f))
      BY DEF Listed
    <3> QED
      BY <1>2, <3>1, <3>2
  <2>2. MaxNode \in Listed(g) /\ MaxNode \in Listed(f)
    BY DEF Listed
  <2>3. Listed(g) \subseteq Nodes /\ Listed(f) \subseteq Nodes
    BY <1>1 DEF Listed
  <2> QED
    BY <2>1, <2>2, <2>3
<1>10. \A x \in Listed(g) \ {MaxNode} :
          x # m => /\ x \in Listed(f) \ {MaxNode} /\ g[x] = f[x] /\ f[x] \in Listed(f)
                   /\ f[x] # c /\ f[x] # s
  <2> SUFFICES ASSUME NEW x \in Listed(g) \ {MaxNode}, x # m
               PROVE  /\ x \in Listed(f) \ {MaxNode} /\ g[x] = f[x] /\ f[x] \in Listed(f)
                      /\ f[x] # c /\ f[x] # s
    OBVIOUS
  <2>1. x \in Listed(f) \ {MaxNode} /\ x # c /\ x \in Nodes
    BY <1>5, <1>9
  <2> QED
    BY <1>2, <1>3, <2>1, SortedProps
<1>11. HeadNode \in Listed(g)
  BY <1>9, SortedProps
<1>12. \A x \in Listed(g) \ {MaxNode} : g[x] \in Listed(g) /\ k[x] < k[g[x]]
  <2>1. g[m] \in Listed(g) /\ k[m] < k[g[m]]
    BY <1>4, <1>6, <1>7, <1>9
  <2>2. \A x \in Listed(g) \ {MaxNode} : x # m => g[x] \in Listed(g) /\ k[x] < k[g[x]]
    BY <1>9, <1>10, SortedProps
  <2> QED
    BY <2>1, <2>2
<1>13. \A x, y \in Listed(g) \ {MaxNode} : g[x] = g[y] => x = y
  BY <1>10, SortedProps
<1> QED
  BY <1>11, <1>12, <1>13, SortedProps

-----------------------------------------------------------------------------
(***************************************************************************)
(* The links stay a list at every time.                                    *)
(***************************************************************************)
LEMMA ListKept ==
  ASSUME SInv, LInv, [Next]_vars, ~\E p \in Updaters : LoadTS(p),
         \A n \in alloc : key'[n] = key[n]
  PROVE  ListInv'
<1> SUFFICES ASSUME NEW t \in FirstTS .. LastTS
             PROVE  SortedLinks(key', [n \in Nodes |-> ValueAt(n, t)'])
  BY DEF ListInv, LastTS
<1> DEFINE f == [n \in Nodes |-> ValueAt(n, t)]
           g == [n \in Nodes |-> ValueAt(n, t)']
<1>1. IInv /\ IInv' /\ Bundles = Nodes
  BY PastHeld, Basics
<1>2. f = g
  <2>1. \A n \in Nodes : ValueAt(n, t)' = ValueAt(n, t)
    BY <1>1, NeverCleans, StepKeepsLabels, ViewKept
  <2> QED
    BY <2>1
<1>3. SortedLinks(key, f)
  BY DEF LInv, ListInv
<1>4. \A n \in Listed(f) : key'[n] = key[n]
  <2>1. \A n \in Nodes \ alloc : f[n] = NoPtr
    <3> SUFFICES ASSUME NEW n \in Nodes \ alloc PROVE f[n] = NoPtr
      OBVIOUS
    <3>1. Newest(bundle[n]) = 0
      BY DEF LInv, LinkInv
    <3>2. Visible(n, t) = {}
      BY <3>1 DEF Visible
    <3> QED
      BY <3>2 DEF ValueAt
  <2>2. MaxNode \in alloc
    BY DEF LInv, FormInv
  <2> HIDE DEF f
  <2> QED
    BY <2>1, <2>2 DEF Listed
<1> HIDE DEF f, g
<1>5. SortedLinks(key', f)
  BY <1>3, <1>4, SortedSame
<1> QED
  BY <1>2, <1>5 DEF g

\* An update that loads the clock has its node in, or out, at the times to come.
LEMMA ListLoaded ==
  ASSUME SInv, LInv, [Next]_vars, NEW p \in Procs, LoadTS(p), key' = key
  PROVE  ListInv'
<1> SUFFICES ASSUME NEW t \in FirstTS .. LastTS
             PROVE  SortedLinks(key, [n \in Nodes |-> ValueAt(n, t)'])
  BY DEF ListInv, LastTS
<1> DEFINE f == [n \in Nodes |-> ValueAt(n, t)]
           g == [n \in Nodes |-> ValueAt(n, t)']
<1>1. /\ IInv /\ IInv' /\ LabelStep /\ Bundles = Nodes /\ p \in Updaters
      /\ clock \in Nat /\ pc[p] = "load" /\ lpc[p] = "label" /\ t \in Int /\ FirstTS \in Nat
  BY PastHeld, Basics, Labelling DEF LoadTS, FirstTS
<1>2. SortedLinks(key, f) /\ FormInv /\ CallInv(p) /\ WriteInv(p) /\ UnseenInv(p)
  BY DEF LInv, ListInv, LocalInv
<1>3. /\ \A b \in Nodes : t <= clock \/ b \notin BundlesOf(upd[p]) => g[b] = f[b]
      /\ \A k \in 1 .. Len(upd[p]), b \in Nodes :
            t > clock /\ b = upd[p][k].bundle => g[b] = upd[p][k].ptr
  <2>1. t > clock => t \in (clock + 1) .. LastTS
    BY <1>1 DEF FirstTS, LastTS
  <2> QED
    BY <1>1, <2>1, LoadTakes
<1>4. t > clock => \A b \in Nodes : f[b] = ValueAt(b, LastTS)
  <2>1. t > clock => t \in (clock + 1) .. LastTS
    BY <1>1 DEF FirstTS, LastTS
  <2> QED
    BY <1>1, <2>1, FutureAlike
<1>5. f = [n \in Nodes |-> f[n]] /\ g = [n \in Nodes |-> g[n]]
  OBVIOUS
<1> HIDE DEF f, g
<1>6. CASE t <= clock
  <2>1. f = g
    BY <1>3, <1>5, <1>6
  <2> QED
    BY <1>2, <2>1 DEF g
<1>7. CASE t > clock
  <2>1. /\ pred[p] \in Nodes \ {MaxNode} /\ curr[p] \in Nodes \ {HeadNode} /\ pred[p] # curr[p]
        /\ f[pred[p]] = curr[p]
        /\ op[p].type = "erase" => curr[p] # MaxNode /\ f[curr[p]] = upd[p][1].ptr
    <3>1. lpc[p] \in StoppedLPCs
      BY <1>1 DEF StoppedLPCs, UpdateLPCs
    <3>2. /\ pred[p] \in Nodes \ {MaxNode} /\ curr[p] \in Nodes \ {HeadNode} /\ pred[p] # curr[p]
          /\ op[p].type = "erase" => curr[p] # MaxNode
      BY <3>1, StoppedProps
    <3> QED
      BY <1>1, <1>2, <1>4, <1>7, <3>2 DEF UnseenInv
  <2>2. \A x \in Nodes : key[x] \in Int /\ key[HeadNode] <= key[x]
    BY <1>2, KeyProps
  <2>3. CASE op[p].type = "insert"
    <3>1. PICK n : n = upd[p][1].bundle
      OBVIOUS
    <3>2. /\ upd[p] = <<Write(n, curr[p]), Write(pred[p], n)>>
          /\ n \in Nodes \ {HeadNode, MaxNode} /\ key[n] < key[curr[p]] /\ key[n] = op[p].lo
          /\ BundlesOf(upd[p]) = {pred[p], n}
      <4>1. InsertInv(p, n) /\ alloc \subseteq Nodes
        BY <1>1, <1>2, <2>3, <3>1 DEF WriteInv, FormInv
      <4>2. BundlesOf(upd[p]) = {pred[p], n}
        BY <1>1, <2>3, <3>1, OwnsNodes
      <4> QED
        BY <4>1, <4>2 DEF InsertInv
    <3>3. f[n] = NoPtr
      BY <1>1, <1>2, <1>4, <1>7, <2>3, <3>1, <3>2 DEF UnseenInv
    <3>4. key[pred[p]] < key[n]
      <4>1. PlaceInv(p) /\ lpc[p] \in StoppedLPCs
        BY <1>1 DEF LInv, LocalInv, StoppedLPCs, UpdateLPCs
      <4> QED
        BY <3>2, <4>1 DEF PlaceInv
    <3>5. g[n] = curr[p] /\ g[pred[p]] = n
      <4>1. /\ Len(upd[p]) = 2 /\ upd[p][1].ptr = curr[p]
            /\ upd[p][2].bundle = pred[p] /\ upd[p][2].ptr = n
        BY <3>2 DEF Write
      <4>2. 1 \in 1 .. Len(upd[p]) /\ 2 \in 1 .. Len(upd[p])
        BY <4>1
      <4> QED
        BY <1>3, <1>7, <2>1, <3>1, <3>2, <4>1, <4>2
    <3>6. \A x \in Nodes : x \notin {pred[p], n} => g[x] = f[x]
      BY <1>3, <3>2
    <3>7. SortedLinks(key, g)
      BY <1>2, <2>1, <2>2, <3>2, <3>3, <3>4, <3>5, <3>6, SortedInsert
    <3> QED
      BY <3>7 DEF g
  <2>4. CASE op[p].type = "erase"
    <3>1. PICK s : s = upd[p][1].ptr
      OBVIOUS
    <3>2. /\ upd[p] = <<Write(pred[p], s), Write(curr[p], HeadNode)>>
          /\ BundlesOf(upd[p]) = {pred[p], curr[p]}
      <4>1. EraseInv(p, s)
        BY <1>1, <1>2, <2>4, <3>1 DEF WriteInv
      <4>2. BundlesOf(upd[p]) = {pred[p], curr[p]}
        BY <1>1, <2>4, OwnsNodes
      <4> QED
        BY <4>1, <4>2 DEF EraseInv
    <3>3. g[curr[p]] = HeadNode /\ g[pred[p]] = s
      <4>1. /\ Len(upd[p]) = 2 /\ upd[p][1].bundle = pred[p]
            /\ upd[p][2].bundle = curr[p] /\ upd[p][2].ptr = HeadNode
        BY <3>2 DEF Write
      <4>2. 1 \in 1 .. Len(upd[p]) /\ 2 \in 1 .. Len(upd[p])
        BY <4>1
      <4> QED
        BY <1>3, <1>7, <2>1, <3>1, <4>1, <4>2
    <3>4. \A x \in Nodes : x \notin {pred[p], curr[p]} => g[x] = f[x]
      BY <1>3, <3>2
    <3>5. SortedLinks(key, g)
      BY <1>2, <2>1, <2>2, <2>4, <3>1, <3>3, <3>4, SortedErase
    <3> QED
      BY <3>5 DEF g
  <2> QED
    BY <1>1, <2>3, <2>4, OwnsNodes
<1> QED
  BY <1>1, <1>6, <1>7

-----------------------------------------------------------------------------
(***************************************************************************)
(* Every step of a process leaves the others alone.                        *)
(***************************************************************************)
LEMMA ProviderFrame ==
  ASSUME SInv, NEW p \in Procs, NEW q \in Procs, q # p,
         Update(p) \/ Query(p) \/ RunContains(p) \/ UNCHANGED vars
  PROVE  /\ pc'[q] = pc[q] /\ upd'[q] = upd[q] /\ qts'[q] = qts[q] /\ at'[q] = at[q]
         /\ out'[q] = out[q]
<1>1. CASE Update(p)
  <2>1. pc \in [Procs -> PCs] /\ upd \in [Procs -> Updates \cup {<<>>}]
    BY DEF SInv, RInv, IInv, TypeOK
  <2>2. UNCHANGED <<qts, at, out>>
    BY <1>1
    DEF Update, UpdateStep, BeginUpdate, Prepare, LoadTS, ReloadTS, FetchAdd, Finalize,
        EndUpdate, readVars
  <2>3. pc'[q] = pc[q] /\ upd'[q] = upd[q]
    BY <1>1, <2>1
    DEF Update, UpdateStep, BeginUpdate, Prepare, LoadTS, ReloadTS, FetchAdd, Finalize,
        EndUpdate, NextBundle, updateVars
  <2> QED
    BY <2>2, <2>3
<1>2. CASE Query(p) \/ RunContains(p)
  <2>1. UNCHANGED upd
    BY <1>2, TypeQuery DEF SInv, RInv, Reads, updateVars
  <2> QED
    BY <1>2, <2>1, OwnRead DEF SInv
<1>3. CASE UNCHANGED vars
  BY <1>3 DEF vars
<1> QED
  BY <1>1, <1>2, <1>3

LEMMA FrameHolds ==
  ASSUME SInv, LInv, NEW p \in Procs, Call(p) \/ ListStep(p)
  PROVE  Frame(p)
<1>1. /\ lock \in [Nodes -> Procs \cup {NoProc}] /\ next \in [Nodes -> Nodes \cup {NoPtr}]
      /\ marked \in [Nodes -> BOOLEAN] /\ alloc \subseteq Nodes
      /\ key \in [Nodes -> SetKeys \cup {InitKey[HeadNode], InitKey[MaxNode]}]
      /\ lpc \in [Procs -> {"idle", "search"} \cup StoppedLPCs]
      /\ todo \in [Procs -> Seq(Operation)]
      /\ op \in [Procs -> Operation \cup {[type |-> "none"]}]
      /\ pred \in [Procs -> Nodes] /\ curr \in [Procs -> Nodes]
  BY DEF LInv, FormInv
<1>2. LockInv(p) /\ CallInv(p) /\ WriteInv(p)
  BY DEF LInv, LocalInv
<1>3. ASSUME NEW q \in Procs, q # p
      PROVE  /\ lpc'[q] = lpc[q] /\ todo'[q] = todo[q] /\ op'[q] = op[q]
             /\ pred'[q] = pred[q] /\ curr'[q] = curr[q]
             /\ pc'[q] = pc[q] /\ upd'[q] = upd[q] /\ qts'[q] = qts[q] /\ at'[q] = at[q]
             /\ out'[q] = out[q]
  <2> USE <1>1, <1>3 DEF Goto, ReturnKeys, Restart, callVars, localVars, nodeVars
  <2>1. lpc'[q] = lpc[q]
    <3>1. lpc[p] # "idle" => op[p].type \in OpTypes
      BY OpProps DEF LInv, LocalInv
    <3>2. CASE Search(p)
      BY <3>1, <3>2 DEF Search, Found, OpTypes
    <3> QED
      BY <3>2
      DEF ListStep, Call, LockCurr, LockPred, Invalid, Present, BeginInsert, BeginErase,
          PrepareAndLabel, LinWrite, FinalizeBundles, Unlink, UnlockFirst, UnlockPred,
          RetryCurr, RetryPred, EnterNewest, GetNext, EndContains, StartQuery,
          EnterSnapshot, ReadBundle, Collect, EndQuery
  <2>2. todo'[q] = todo[q] /\ op'[q] = op[q]
    BY DEF ListStep, Call, Search, LockCurr, LockPred, Invalid, Present, BeginInsert,
           BeginErase, PrepareAndLabel, LinWrite, FinalizeBundles, Unlink, UnlockFirst,
           UnlockPred, RetryCurr, RetryPred, EnterNewest, GetNext, EndContains, StartQuery,
           EnterSnapshot, ReadBundle, Collect, EndQuery
  <2>3. pred'[q] = pred[q] /\ curr'[q] = curr[q]
    BY DEF ListStep, Call, Search, LockCurr, LockPred, Invalid, Present, BeginInsert,
           BeginErase, PrepareAndLabel, LinWrite, FinalizeBundles, Unlink, UnlockFirst,
           UnlockPred, RetryCurr, RetryPred, EnterNewest, GetNext, EndContains, StartQuery,
           EnterSnapshot, ReadBundle, Collect, EndQuery
  <2> QED
    BY <2>1, <2>2, <2>3, StepOfProvider, ProviderFrame
<1>4. /\ alloc \subseteq alloc'
      /\ \A n \in alloc : key'[n] = key[n]
  BY <1>1
  DEF ListStep, Call, Search, LockCurr, LockPred, Invalid, Present, BeginInsert,
      BeginErase, PrepareAndLabel, LinWrite, FinalizeBundles, Unlink, UnlockFirst,
      UnlockPred, RetryCurr, RetryPred, EnterNewest, GetNext, EndContains, StartQuery,
      EnterSnapshot, ReadBundle, Collect, EndQuery, nodeVars
<1>5. ASSUME NEW n \in alloc, lock[n] \notin {p, NoProc}
      PROVE  lock'[n] = lock[n] /\ next'[n] = next[n] /\ marked'[n] = marked[n]
  <2> USE <1>1, <1>2, <1>5 DEF AcquireLock, ReleaseLock, nodeVars, LockInv, UpdateLPCs
  <2>1. CASE LockCurr(p) \/ LockPred(p) \/ Present(p) \/ UnlockPred(p) \/ RetryCurr(p) \/ RetryPred(p)
    BY <2>1 DEF LockCurr, LockPred, Present, UnlockPred, RetryCurr, RetryPred
  <2>2. CASE BeginInsert(p)
    BY <2>2 DEF BeginInsert
  <2>3. CASE LinWrite(p) \/ Unlink(p)
    BY <2>3 DEF LinWrite, Unlink, CallInv
  <2>4. CASE UnlockFirst(p)
    <3>1. op[p].type # "erase" => lock[upd[p][1].bundle] = p
      <4>1. op[p].type # "erase" => lpc[p] = "finalize" /\ op[p].type = "insert"
        BY <2>4 DEF UnlockFirst, CallInv
      <4> QED
        BY <4>1 DEF WriteInv, InsertInv
    <3>2. op[p].type = "erase" => lock[curr[p]] = p
      BY <2>4 DEF UnlockFirst
    <3> QED
      BY <2>4, <3>1, <3>2 DEF UnlockFirst
  <2> QED
    BY <2>1, <2>2, <2>3, <2>4
    DEF ListStep, Call, Search, Invalid, BeginErase, PrepareAndLabel, FinalizeBundles,
        EnterNewest, GetNext, EndContains, StartQuery, EnterSnapshot, ReadBundle, Collect,
        EndQuery
<1> QED
  BY <1>3, <1>4, <1>5 DEF Frame

LEMMA ListHolds ==
  ASSUME SInv, LInv, NEW p \in Procs, Call(p) \/ ListStep(p)
  PROVE  ListInv'
<1>1. [Next]_vars /\ Frame(p)
  BY StepIsNext, FrameHolds
<1>2. CASE LoadTS(p)
  <2>1. lpc[p] = "label" /\ pc[p] = "load"
    BY <1>2, Labelling DEF LoadTS
  <2>2. key' = key
    BY <2>1
    DEF ListStep, Call, Search, LockCurr, LockPred, Invalid, Present, BeginInsert,
        BeginErase, PrepareAndLabel, LinWrite, FinalizeBundles, Unlink, UnlockFirst,
        UnlockPred, RetryCurr, RetryPred, EnterNewest, GetNext, EndContains, StartQuery,
        EnterSnapshot, ReadBundle, Collect, EndQuery, nodeVars
  <2> QED
    BY <1>1, <1>2, <2>2, ListLoaded
<1>3. CASE ~LoadTS(p)
  <2>1. ASSUME NEW q \in Updaters, LoadTS(q) PROVE FALSE
    <3>1. q \in Procs /\ q # p
      BY <1>3, <2>1, Basics
    <3>2. pc'[q] = pc[q]
      BY <1>1, <3>1 DEF Frame
    <3>3. pc[q] = "load" /\ pc'[q] = "reload"
      BY <2>1, <3>1 DEF LoadTS, SInv, RInv, IInv, TypeOK
    <3> QED
      BY <3>2, <3>3
  <2> QED
    BY <1>1, <2>1, ListKept DEF Frame
<1> QED
  BY <1>2, <1>3

-----------------------------------------------------------------------------
(***************************************************************************)
(* The variables stay functions on the processes and the nodes.            *)
(***************************************************************************)
LEMMA FormHolds ==
  ASSUME SInv, LInv, NEW p \in Procs, Call(p) \/ ListStep(p)
  PROVE  FormInv'
<1>1. /\ lock \in [Nodes -> Procs \cup {NoProc}] /\ next \in [Nodes -> Nodes \cup {NoPtr}]
      /\ marked \in [Nodes -> BOOLEAN] /\ alloc \subseteq Nodes
      /\ key \in [Nodes -> SetKeys \cup {InitKey[HeadNode], InitKey[MaxNode]}]
      /\ lpc \in [Procs -> {"idle", "search"} \cup StoppedLPCs]
      /\ todo \in [Procs -> Seq(Operation)]
      /\ op \in [Procs -> Operation \cup {[type |-> "none"]}]
      /\ pred \in [Procs -> Nodes] /\ curr \in [Procs -> Nodes]
      /\ HeadNode \in alloc /\ MaxNode \in alloc
  BY DEF LInv, FormInv
<1>2. /\ CallInv(p) /\ HeadNode \in Nodes /\ pred[p] \in Nodes /\ curr[p] \in Nodes
      /\ lpc[p] # "idle" => op[p].type \in OpTypes /\ op[p].lo \in SetKeys
  BY <1>1, OpProps, Basics DEF LInv, LocalInv
<1>3. lpc' \in [Procs -> {"idle", "search"} \cup StoppedLPCs]
  <2> USE <1>1, <1>2 DEF Goto, ReturnKeys, StoppedLPCs, UpdateLPCs, EraseLPCs, ReadLPCs
  <2>1. CASE Search(p)
    BY <2>1 DEF Search, Found, OpTypes
  <2> QED
    BY <2>1
    DEF ListStep, Call, LockCurr, LockPred, Invalid, Present, BeginInsert, BeginErase,
        PrepareAndLabel, LinWrite, FinalizeBundles, Unlink, UnlockFirst, UnlockPred,
        RetryCurr, RetryPred, EnterNewest, GetNext, EndContains, StartQuery,
        EnterSnapshot, ReadBundle, Collect, EndQuery
<1>4. /\ todo' \in [Procs -> Seq(Operation)]
      /\ op' \in [Procs -> Operation \cup {[type |-> "none"]}]
  <2>1. CASE Call(p)
    <3>1. todo[p] \in Seq(Operation) /\ todo[p] # <<>>
      BY <1>1, <2>1 DEF Call
    <3>2. Head(todo[p]) \in Operation /\ Tail(todo[p]) \in Seq(Operation)
      BY <3>1
    <3> QED
      BY <1>1, <2>1, <3>2 DEF Call
  <2> QED
    BY <1>1, <2>1
    DEF ListStep, Search, LockCurr, LockPred, Invalid, Present, BeginInsert, BeginErase,
        PrepareAndLabel, LinWrite, FinalizeBundles, Unlink, UnlockFirst, UnlockPred,
        RetryCurr, RetryPred, EnterNewest, GetNext, EndContains, StartQuery,
        EnterSnapshot, ReadBundle, Collect, EndQuery, ReturnKeys, callVars
<1>5. /\ pred' \in [Procs -> Nodes] /\ curr' \in [Procs -> Nodes]
  <2>1. CASE Search(p)
    <3>1. (op[p].type = "erase" /\ key[next[curr[p]]] > op[p].lo) \/ curr' = [curr EXCEPT ![p] = next[curr[p]]]
      BY <2>1 DEF Search
    <3>2. next[curr[p]] \in Nodes
      <4>1. lpc[p] = "search" /\ PlaceInv(p) /\ FormInv /\ LinkInv
        BY <2>1 DEF Search, LInv, LocalInv
      <4>2. curr[p] # MaxNode
        BY <1>1, <1>2, <4>1, KeyProps DEF PlaceInv
      <4> QED
        BY <1>1, <4>1, <4>2 DEF PlaceInv, LinkInv, LinkOf
    <3> QED
      BY <1>1, <1>2, <2>1, <3>2 DEF Search, ReturnKeys, Restart
  <2> QED
    BY <1>1, <1>2, <2>1
    DEF ListStep, Call, LockCurr, LockPred, Invalid, Present, BeginInsert, BeginErase,
        PrepareAndLabel, LinWrite, FinalizeBundles, Unlink, UnlockFirst, UnlockPred,
        RetryCurr, RetryPred, EnterNewest, GetNext, EndContains, StartQuery,
        EnterSnapshot, ReadBundle, Collect, EndQuery, ReturnKeys, Restart, localVars
<1>6. /\ key' \in [Nodes -> SetKeys \cup {InitKey[HeadNode], InitKey[MaxNode]}]
      /\ lock' \in [Nodes -> Procs \cup {NoProc}] /\ alloc' \subseteq Nodes
  <2>1. CASE BeginInsert(p)
    <3>1. PICK n \in Nodes \ alloc :
             /\ alloc' = alloc \cup {n} /\ key' = [key EXCEPT ![n] = op[p].lo]
             /\ lock' = [lock EXCEPT ![n] = p]
      BY <2>1 DEF BeginInsert
    <3>2. op[p].lo \in SetKeys
      BY <1>2, <2>1 DEF BeginInsert
    <3> QED
      BY <1>1, <3>1, <3>2
  <2>2. CASE ~BeginInsert(p)
    <3>1. UNCHANGED <<key, alloc>>
      BY <2>2
      DEF ListStep, Call, Search, LockCurr, LockPred, Invalid, Present, BeginErase,
          PrepareAndLabel, LinWrite, FinalizeBundles, Unlink, UnlockFirst, UnlockPred,
          RetryCurr, RetryPred, EnterNewest, GetNext, EndContains, StartQuery,
          EnterSnapshot, ReadBundle, Collect, EndQuery, nodeVars
    <3>2. lock' \in [Nodes -> Procs \cup {NoProc}]
      BY <1>1, <2>2
      DEF ListStep, Call, Search, LockCurr, LockPred, Invalid, Present, BeginErase,
          PrepareAndLabel, LinWrite, FinalizeBundles, Unlink, UnlockFirst, UnlockPred,
          RetryCurr, RetryPred, EnterNewest, GetNext, EndContains, StartQuery,
          EnterSnapshot, ReadBundle, Collect, EndQuery, AcquireLock, ReleaseLock, nodeVars
    <3> QED
      BY <1>1, <3>1, <3>2
  <2> QED
    BY <2>1, <2>2
<1>7. next' \in [Nodes -> Nodes \cup {NoPtr}] /\ marked' \in [Nodes -> BOOLEAN]
  <2>1. lpc[p] \in {"label", "finalize"} /\ op[p].type = "insert" => upd[p][1].bundle \in Nodes
    BY OwnsNodes
  <2>2. CASE BeginInsert(p) \/ LinWrite(p) \/ Unlink(p)
    BY <1>1, <1>2, <2>1, <2>2 DEF BeginInsert, LinWrite, Unlink
  <2> QED
    BY <1>1, <2>2
    DEF ListStep, Call, Search, LockCurr, LockPred, Invalid, Present, BeginErase,
        PrepareAndLabel, FinalizeBundles, UnlockFirst, UnlockPred,
        RetryCurr, RetryPred, EnterNewest, GetNext, EndContains, StartQuery,
        EnterSnapshot, ReadBundle, Collect, EndQuery, nodeVars
<1>8. HeadNode \in alloc' /\ MaxNode \in alloc' /\ key'[HeadNode] = InitKey[HeadNode] /\ key'[MaxNode] = InitKey[MaxNode]
  BY <1>1, FrameHolds DEF Frame, LInv, FormInv
<1> QED
  BY <1>3, <1>4, <1>5, <1>6, <1>7, <1>8 DEF FormInv

-----------------------------------------------------------------------------
(***************************************************************************)
(* The raw links and the bundles.                                          *)
(***************************************************************************)

\* Nobody but its owner changes a bundle.
LEMMA IdleBundle ==
  ASSUME SInv, [Next]_vars, NEW n \in Nodes, owner[n] = NoProc
  PROVE  bundle'[n] = bundle[n]
<1>1. IInv /\ bundle \in [Bundles -> Bundle] /\ n \in Bundles
  BY Basics DEF SInv, RInv, IInv, TypeOK
<1>2. ASSUME NEW p \in Updaters, Prepare(p) \/ Finalize(p) PROVE bundle'[n] = bundle[n]
  <2>1. pc[p] \in UpdatePCs
    BY <1>2 DEF Prepare, Finalize, UpdatePCs
  <2>2. owner[upd[p][idx[p]].bundle] = p /\ p # NoProc
    BY <1>1, <2>1, UpdateState
  <2>3. n # upd[p][idx[p]].bundle
    BY <2>2
  <2> QED
    BY <1>1, <1>2, <2>3 DEF Prepare, Finalize
<1>3. ASSUME NEW p \in Updaters, Update(p) PROVE bundle'[n] = bundle[n]
  BY <1>2, <1>3 DEF Update, UpdateStep, BeginUpdate, LoadTS, ReloadTS, FetchAdd, EndUpdate
<1>4. ASSUME NEW p \in Procs, Query(p) \/ RunContains(p) PROVE bundle'[n] = bundle[n]
  BY <1>1, <1>4, TypeQuery DEF Reads
<1>5. CASE UNCHANGED vars
  BY <1>5 DEF vars
<1> QED
  BY <1>3, <1>4, <1>5, NeverCleans, ProcsAssumption DEF Next

\* A link that leads to m after a step.
LEMMA LinkTo ==
  ASSUME SInv, LInv, [Next]_vars, NEW n \in Nodes, NEW m \in alloc, Inserted(m),
         next'[n] = m, m \in alloc', key'[n] < key'[m],
         owner'[n] = NoProc => NewestPtr(bundle'[n]) = IF marked'[n] THEN HeadNode ELSE m
  PROVE  LinkOf(n)'
<1>1. Inserted(m)'
  BY InsertedStays DEF LInv, FormInv
<1>2. Inserted(next[n])'
  BY <1>1 DEF Inserted
<1> QED
  BY <1>2 DEF LinkOf

LEMMA LinkStays ==
  ASSUME SInv, LInv, [Next]_vars, NEW p \in Procs, Frame(p), NEW n \in alloc \ {MaxNode},
         next'[n] = next[n], marked'[n] = marked[n], owner'[n] = NoProc => owner[n] = NoProc
  PROVE  LinkOf(n)'
<1>1. LinkOf(n) /\ n \in Nodes
  BY DEF LInv, LinkInv, FormInv
<1>2. PICK m \in alloc : m = next[n] /\ Inserted(m) /\ key[n] < key[m]
  BY <1>1 DEF LinkOf, Inserted
<1>3. key'[n] = key[n] /\ key'[m] = key[m] /\ m \in alloc'
  BY DEF Frame
<1>4. ASSUME owner'[n] = NoProc
      PROVE  NewestPtr(bundle'[n]) = IF marked'[n] THEN HeadNode ELSE m
  <2>1. owner[n] = NoProc /\ bundle'[n] = bundle[n]
    BY <1>1, <1>4, IdleBundle
  <2> QED
    BY <1>1, <1>2, <2>1 DEF LinkOf, NewestPtr
<1> QED
  BY <1>1, <1>2, <1>3, <1>4, LinkTo

\* The steps that change no link and release no bundle.
LEMMA LinksStay ==
  ASSUME SInv, LInv, [Next]_vars, NEW p \in Procs, Frame(p), UNCHANGED <<next, marked, alloc>>,
         \A n \in Nodes : owner'[n] = NoProc => owner[n] = NoProc,
         \A n \in {MaxNode} \cup (Nodes \ alloc) : owner'[n] = NoProc
  PROVE  LinkInv'
<1>1. ASSUME NEW n \in alloc \ {MaxNode} PROVE LinkOf(n)'
  BY LinkStays DEF LInv, FormInv
<1>2. ASSUME NEW n \in {MaxNode} \cup (Nodes \ alloc)
      PROVE  Newest(bundle'[n]) = 0 /\ owner'[n] = NoProc /\ ~marked'[n]
  <2>1. bundle'[n] = bundle[n]
    BY IdleBundle, Basics DEF LInv, LinkInv
  <2> QED
    BY <2>1 DEF LInv, LinkInv
<1> QED
  BY <1>1, <1>2 DEF LinkInv

\* When an update writes its raw link, its labels have been reached.
LEMMA FinalInserted ==
  ASSUME SInv, NEW p \in Updaters, pc[p] = "finalize", NEW k \in 1 .. Len(upd[p])
  PROVE  Inserted(upd[p][k].bundle)
<1> DEFINE b == upd[p][k].bundle
           n == Newest(bundle[b])
<1>1. IInv /\ p \in Procs /\ p # NoProc /\ ts[p] \in Nat /\ clock \in Nat
  <2>1. pc[p] \in UpdatePCs
    BY DEF UpdatePCs
  <2> QED
    BY <2>1, UpdateState DEF SInv, RInv
<1>2. b \in Bundles /\ owner[b] = p
  BY <1>1, Exclusive
<1>3. n # 0 /\ n \in Nat
  <2>1. n # 0
    BY DEF SInv, PtrInv, HasPrepared
  <2>2. bundle[b] \in Bundle
    BY <1>1, <1>2 DEF IInv, TypeOK
  <2> QED
    BY <2>1, <2>2, NewestNat
<1>4. ts[p] # NullTS /\ ts[p] < clock
  BY <1>1 DEF IInv, UInv, UpdateInv
<1> HIDE DEF b, n
<1>5. Label(b, n) <= clock
  <2>1. CASE IsPending(bundle[b], n)
    BY <1>1, <1>2, <1>4, <2>1 DEF Label
  <2>2. CASE ~IsPending(bundle[b], n)
    BY <1>1, <1>2, <1>3, <2>2 DEF Label, IInv, UInv, LabelsReached, n
  <2> QED
    BY <2>1, <2>2
<1>6. n \in Visible(b, clock)
  BY <1>3, <1>5 DEF Visible, n
<1>7. ValueAt(b, clock) # NoPtr
  BY <1>1, <1>2, <1>6, ValueType
<1> QED
  BY <1>7 DEF Inserted, b

\* The nodes between which an operation stands once its search has stopped.
LEMMA Neighbours ==
  ASSUME LInv, NEW p \in Procs, lpc[p] \in StoppedLPCs
  PROVE  /\ pred[p] \in alloc \ {MaxNode} /\ curr[p] \in alloc \ {HeadNode}
         /\ pred[p] \in Nodes /\ curr[p] \in Nodes /\ pred[p] # curr[p]
         /\ Inserted(pred[p]) /\ Inserted(curr[p])
         /\ op[p].type = "erase" => /\ curr[p] # MaxNode /\ next[curr[p]] \in alloc
                                    /\ Inserted(next[curr[p]])
                                    /\ key[pred[p]] < key[next[curr[p]]]
         /\ key[pred[p]] < op[p].lo /\ op[p].lo <= key[curr[p]]
         /\ op[p].lo \in Int /\ key[pred[p]] \in Int /\ key[curr[p]] \in Int
<1>1. /\ PlaceInv(p) /\ FormInv /\ CallInv(p) /\ lpc[p] # "idle"
  BY DEF LInv, LocalInv, StoppedLPCs, UpdateLPCs, EraseLPCs, ReadLPCs
<1>2. /\ pred[p] \in alloc \ {MaxNode} /\ curr[p] \in alloc \ {HeadNode}
      /\ pred[p] \in Nodes /\ curr[p] \in Nodes /\ pred[p] # curr[p]
      /\ op[p].type = "erase" => curr[p] # MaxNode
  BY StoppedProps
<1>3. /\ key[pred[p]] < op[p].lo /\ op[p].lo <= key[curr[p]]
      /\ Inserted(pred[p]) /\ Inserted(curr[p])
  BY <1>1 DEF PlaceInv
<1>4. op[p].lo \in Int /\ key[pred[p]] \in Int /\ key[curr[p]] \in Int
  BY <1>1, <1>2, OpProps, KeyProps
<1>5. ASSUME op[p].type = "erase"
      PROVE  /\ next[curr[p]] \in alloc /\ Inserted(next[curr[p]])
             /\ key[pred[p]] < key[next[curr[p]]]
  <2>1. LinkOf(curr[p])
    BY <1>2, <1>5 DEF LInv, LinkInv
  <2>2. next[curr[p]] \in alloc /\ Inserted(next[curr[p]]) /\ key[curr[p]] < key[next[curr[p]]]
    BY <2>1 DEF LinkOf
  <2>3. key[next[curr[p]]] \in Int
    BY <1>1, <2>2, KeyProps DEF FormInv
  <2> QED
    BY <1>3, <1>4, <2>2, <2>3
<1> QED
  BY <1>2, <1>3, <1>4, <1>5

LEMMA LinkInsert ==
  ASSUME SInv, LInv, NEW p \in Procs, BeginInsert(p), [Next]_vars, Frame(p)
  PROVE  LinkInv'
<1>1. lpc[p] = "validate" /\ lpc[p] \in StoppedLPCs /\ key[curr[p]] # op[p].lo
  BY DEF BeginInsert, StoppedLPCs, UpdateLPCs
<1>2. /\ pred[p] \in alloc \ {MaxNode} /\ curr[p] \in alloc \ {HeadNode} /\ Inserted(curr[p])
      /\ op[p].lo <= key[curr[p]] /\ op[p].lo \in Int /\ key[curr[p]] \in Int
      /\ pred[p] \in Nodes /\ curr[p] \in Nodes
  BY <1>1, Neighbours
<1>3. PICK n \in Nodes \ alloc :
         /\ alloc' = alloc \cup {n} /\ key' = [key EXCEPT ![n] = op[p].lo]
         /\ next' = [next EXCEPT ![n] = curr[p]] /\ marked' = marked
         /\ BeginUpdate(p, <<Write(n, curr[p]), Write(pred[p], n)>>)
  BY DEF BeginInsert
<1>4. /\ FormInv /\ p # NoProc /\ Bundles = Nodes
      /\ BundlesOf(<<Write(n, curr[p]), Write(pred[p], n)>>) = {n, pred[p]}
  <2>1. BundlesOf(<<Write(n, curr[p]), Write(pred[p], n)>>) = {n, pred[p]}
    <3> DEFINE w == <<Write(n, curr[p]), Write(pred[p], n)>>
    <3>1. Len(w) = 2 /\ w[1].bundle = n /\ w[2].bundle = pred[p]
      BY DEF Write
    <3>2. \A i : i \in 1 .. 2 <=> i = 1 \/ i = 2
      OBVIOUS
    <3> HIDE DEF w
    <3>3. BundlesOf(w) = {n, pred[p]}
      BY <3>1, <3>2 DEF BundlesOf
    <3> QED
      BY <3>3 DEF w
  <2> QED
    BY <2>1, Basics DEF LInv
<1>5. owner' = [b \in Nodes |-> IF b \in {n, pred[p]} THEN p ELSE owner[b]]
  BY <1>3, <1>4 DEF BeginUpdate
<1>6. ASSUME NEW m \in alloc \ {MaxNode} PROVE LinkOf(m)'
  <2>1. m \in Nodes /\ m # n
    BY <1>4 DEF FormInv
  <2>2. next'[m] = next[m] /\ marked'[m] = marked[m]
    BY <1>3, <1>4, <2>1 DEF FormInv
  <2>3. owner'[m] = NoProc => owner[m] = NoProc
    BY <1>4, <1>5, <2>1
  <2> QED
    BY <2>2, <2>3, LinkStays
<1>7. LinkOf(n)'
  <2>1. next'[n] = curr[p] /\ key'[n] = op[p].lo /\ key'[curr[p]] = key[curr[p]] /\ curr[p] \in alloc'
    BY <1>2, <1>3, <1>4 DEF FormInv
  <2>2. owner'[n] # NoProc
    BY <1>4, <1>5
  <2>3. key'[n] < key'[curr[p]]
    BY <1>1, <1>2, <2>1
  <2>4. n \in Nodes
    OBVIOUS
  <2>5. PICK c \in alloc : c = curr[p]
    BY <1>2
  <2> QED
    BY <1>2, <2>1, <2>2, <2>3, <2>4, <2>5, LinkTo
<1>8. ASSUME NEW m \in {MaxNode} \cup (Nodes \ alloc')
      PROVE Newest(bundle'[m]) = 0 /\ owner'[m] = NoProc /\ ~marked'[m]
  <2>1. m \in {MaxNode} \cup (Nodes \ alloc) /\ m \in Nodes /\ m # n /\ m # pred[p]
    BY <1>2, <1>3, <1>4, Basics DEF FormInv
  <2>2. bundle'[m] = bundle[m]
    BY <2>1, IdleBundle DEF LInv, LinkInv
  <2> QED
    BY <1>3, <1>5, <2>1, <2>2 DEF LInv, LinkInv
<1>9. ASSUME NEW m \in alloc' \ {MaxNode} PROVE LinkOf(m)'
  <2>1. CASE m = n
    BY <1>7, <2>1
  <2>2. CASE m # n
    BY <1>3, <1>6, <2>2
  <2> QED
    BY <2>1, <2>2
<1> QED
  BY <1>8, <1>9 DEF LinkInv

LEMMA LinkLinWrite ==
  ASSUME SInv, LInv, NEW p \in Procs, LinWrite(p), [Next]_vars, Frame(p)
  PROVE  LinkInv'
<1>1. /\ lpc[p] = "label" /\ lpc[p] \in StoppedLPCs /\ pc[p] = "finalize"
      /\ UNCHANGED <<owner, bundle, key, alloc>> /\ FormInv
  BY DEF LinWrite, StoppedLPCs, UpdateLPCs, vars, LInv
<1>2. /\ pred[p] \in alloc \ {MaxNode} /\ curr[p] \in alloc \ {HeadNode}
      /\ pred[p] \in Nodes /\ curr[p] \in Nodes /\ key[pred[p]] < op[p].lo
  BY <1>1, Neighbours
<1>3. /\ owner[pred[p]] = p /\ p # NoProc
      /\ op[p].type = "erase" => owner[curr[p]] = p
      /\ op[p].type \in {"insert", "erase"}
  BY <1>1, OwnsNodes, Basics
<1>4. ASSUME NEW m \in {MaxNode} \cup (Nodes \ alloc)
      PROVE Newest(bundle'[m]) = 0 /\ owner'[m] = NoProc /\ ~marked'[m]
  BY <1>1, <1>2, <1>3 DEF LInv, LinkInv, LinWrite, FormInv
<1>5. ASSUME NEW m \in alloc \ {MaxNode}, next'[m] = next[m], marked'[m] = marked[m]
      PROVE  LinkOf(m)'
  BY <1>1, <1>5, LinkStays
<1>6. CASE op[p].type = "insert"
  <2>1. PICK n : n = upd[p][1].bundle
    OBVIOUS
  <2>2. InsertInv(p, n)
    BY <1>1, <1>6, <2>1 DEF LInv, LocalInv, WriteInv
  <2>3. n \in alloc /\ key[n] = op[p].lo
    BY <2>2 DEF InsertInv
  <2>4. Inserted(n)
    <3>1. Len(upd[p]) = 2 /\ 1 \in 1 .. Len(upd[p])
      BY <2>2 DEF InsertInv
    <3> QED
      BY <1>1, <2>1, <3>1, FinalInserted, Basics
  <2>5. next' = [next EXCEPT ![pred[p]] = n] /\ marked' = marked
    BY <1>6, <2>1 DEF LinWrite
  <2>6. LinkOf(pred[p])'
    <3>1. PICK a \in Nodes : a = pred[p]
      BY <1>2
    <3>2. /\ next'[a] = n /\ owner'[a] # NoProc /\ key'[a] < key'[n] /\ n \in alloc'
      BY <1>1, <1>2, <1>3, <2>3, <2>5, <3>1 DEF FormInv
    <3>3. LinkOf(a)'
      BY <2>3, <2>4, <3>2, LinkTo
    <3>4. pred' = pred
      BY DEF LinWrite, localVars
    <3> QED
      BY <3>1, <3>3, <3>4 DEF LinkOf
  <2>7. ASSUME NEW m \in alloc \ {MaxNode} PROVE LinkOf(m)'
    <3>1. CASE m = pred[p]
      <4>1. pred'[p] = m
        BY <3>1 DEF LinWrite, localVars
      <4> QED
        BY <2>6, <4>1 DEF LinkOf, Inserted
    <3>2. CASE m # pred[p]
      BY <1>1, <1>5, <2>5, <3>2 DEF FormInv
    <3> QED
      BY <3>1, <3>2
  <2> QED
    BY <1>1, <1>4, <2>7 DEF LinkInv
<1>7. CASE op[p].type = "erase"
  <2>1. marked' = [marked EXCEPT ![curr[p]] = TRUE] /\ next' = next
    BY <1>7 DEF LinWrite
  <2>2. ASSUME NEW m \in alloc \ {MaxNode} PROVE LinkOf(m)'
    <3>1. CASE m = curr[p]
      <4>1. LinkOf(m) /\ owner'[m] # NoProc /\ m \in Nodes
        BY <1>1, <1>2, <1>3, <1>7, <3>1 DEF LInv, LinkInv
      <4>2. PICK c \in alloc : c = next[m] /\ Inserted(c) /\ key[m] < key[c]
        BY <4>1 DEF LinkOf, Inserted
      <4> QED
        BY <1>1, <2>1, <4>1, <4>2, LinkTo
    <3>2. CASE m # curr[p]
      BY <1>1, <1>5, <2>1, <3>2 DEF FormInv
    <3> QED
      BY <3>1, <3>2
  <2> QED
    BY <1>1, <1>4, <2>2 DEF LinkInv
<1> QED
  BY <1>3, <1>6, <1>7

LEMMA LinkUnlink ==
  ASSUME SInv, LInv, NEW p \in Procs, Unlink(p), [Next]_vars, Frame(p)
  PROVE  LinkInv'
<1>1. /\ lpc[p] = "finalize" /\ lpc[p] \in StoppedLPCs /\ op[p].type = "erase"
      /\ UNCHANGED <<owner, bundle, key, alloc, marked>> /\ FormInv
      /\ next' = [next EXCEPT ![pred[p]] = next[curr[p]]]
  BY DEF Unlink, StoppedLPCs, UpdateLPCs, vars, LInv
<1>2. /\ pred[p] \in alloc \ {MaxNode} /\ pred[p] \in Nodes
      /\ next[curr[p]] \in alloc /\ Inserted(next[curr[p]]) /\ key[pred[p]] < key[next[curr[p]]]
  BY <1>1, Neighbours
<1>3. owner[pred[p]] = p /\ p # NoProc
  BY <1>1, OwnsNodes, Basics
<1>4. PICK c \in alloc : c = next[curr[p]] /\ Inserted(c) /\ key[pred[p]] < key[c]
  BY <1>2 DEF Inserted
<1>5. ASSUME NEW m \in {MaxNode} \cup (Nodes \ alloc)
      PROVE Newest(bundle'[m]) = 0 /\ owner'[m] = NoProc /\ ~marked'[m]
  BY <1>1 DEF LInv, LinkInv
<1>6. ASSUME NEW m \in alloc \ {MaxNode} PROVE LinkOf(m)'
  <2>1. m \in Nodes
    BY <1>1 DEF FormInv
  <2>2. CASE m = pred[p]
    <3>1. next'[m] = c /\ owner'[m] # NoProc /\ key'[m] < key'[c] /\ c \in alloc'
      BY <1>1, <1>3, <1>4, <2>1, <2>2 DEF FormInv
    <3> QED
      BY <1>4, <2>1, <3>1, LinkTo
  <2>3. CASE m # pred[p]
    <3>1. next'[m] = next[m] /\ marked'[m] = marked[m] /\ owner'[m] = owner[m]
      BY <1>1, <2>1, <2>3 DEF FormInv
    <3> QED
      BY <3>1, LinkStays
  <2> QED
    BY <2>2, <2>3
<1> QED
  BY <1>1, <1>5, <1>6 DEF LinkInv

\* What the bundles that an update gives back say.
LEMMA UnlockedLinks ==
  ASSUME SInv, LInv, NEW p \in Procs, lpc[p] \in {"finalize", "unlock"}, pc[p] = "unlock",
         op[p].type = "erase" => lpc[p] = "unlock",
         NEW n \in Nodes, owner[n] = p
  PROVE  NewestPtr(bundle[n]) = IF marked[n] THEN HeadNode ELSE next[n]
<1>1. /\ lpc[p] # "label" /\ WriteInv(p) /\ p \in Updaters /\ p # NoProc
      /\ op[p].type \in {"insert", "erase"} /\ IInv /\ PtrInv
      /\ pred[p] # curr[p] /\ HeadNode # NoPtr
  <2>1. lpc[p] \in StoppedLPCs
    BY DEF StoppedLPCs, UpdateLPCs, EraseLPCs
  <2>2. pred[p] # curr[p]
    BY <2>1, Neighbours
  <2> QED
    BY <2>2, OwnsNodes, Basics DEF LInv, LocalInv, SInv, RInv
<1>2. n \in BundlesOf(upd[p])
  BY <1>1, Basics DEF IInv, UInv, OwnerInv
<1>3. PICK k \in 1 .. Len(upd[p]) : n = upd[p][k].bundle
  BY <1>2 DEF BundlesOf
<1>4. NewestPtr(bundle[n]) = upd[p][k].ptr
  BY <1>1, <1>3 DEF PtrInv, HasPrepared, NewestPtr
<1>5. CASE op[p].type = "insert"
  <2>1. PICK m : m = upd[p][1].bundle
    OBVIOUS
  <2>2. InsertInv(p, m)
    BY <1>1, <1>5, <2>1 DEF WriteInv
  <2>3. /\ next[m] = curr[p] /\ ~marked[m] /\ next[pred[p]] = m /\ ~marked[pred[p]]
        /\ upd[p] = <<Write(m, curr[p]), Write(pred[p], m)>>
    BY <1>1, <2>2 DEF InsertInv
  <2>4. /\ Len(upd[p]) = 2 /\ upd[p][1].bundle = m /\ upd[p][1].ptr = curr[p]
        /\ upd[p][2].bundle = pred[p] /\ upd[p][2].ptr = m
    BY <2>3 DEF Write
  <2>5. k = 1 \/ k = 2
    BY <2>4
  <2> QED
    BY <1>3, <1>4, <2>3, <2>4, <2>5
<1>6. CASE op[p].type = "erase"
  <2>1. PICK s : s = upd[p][1].ptr
    OBVIOUS
  <2>2. EraseInv(p, s)
    BY <1>1, <1>6, <2>1 DEF WriteInv
  <2>3. /\ marked[curr[p]] /\ next[pred[p]] = s /\ ~marked[pred[p]]
        /\ upd[p] = <<Write(pred[p], s), Write(curr[p], HeadNode)>>
    BY <1>1, <1>6, <2>2 DEF EraseInv
  <2>4. /\ Len(upd[p]) = 2 /\ upd[p][1].bundle = pred[p] /\ upd[p][1].ptr = s
        /\ upd[p][2].bundle = curr[p] /\ upd[p][2].ptr = HeadNode
    BY <2>3 DEF Write
  <2>5. k = 1 \/ k = 2
    BY <2>4
  <2> QED
    BY <1>3, <1>4, <2>3, <2>4, <2>5
<1> QED
  BY <1>1, <1>5, <1>6

LEMMA LinkUnlock ==
  ASSUME SInv, LInv, NEW p \in Procs, UnlockFirst(p), [Next]_vars, Frame(p)
  PROVE  LinkInv'
<1>1. /\ pc[p] = "unlock" /\ lpc[p] \in {"finalize", "unlock"}
      /\ op[p].type = "erase" => lpc[p] = "unlock"
      /\ UNCHANGED <<key, next, marked, alloc, bundle>>
      /\ owner' = [b \in Bundles |-> IF owner[b] = p THEN NoProc ELSE owner[b]]
  BY DEF UnlockFirst, EndUpdate
<1>2. ASSUME NEW m \in {MaxNode} \cup (Nodes \ alloc)
      PROVE Newest(bundle'[m]) = 0 /\ owner'[m] = NoProc /\ ~marked'[m]
  <2>1. Newest(bundle[m]) = 0 /\ owner[m] = NoProc /\ ~marked[m]
    BY DEF LInv, LinkInv
  <2> QED
    BY <1>1, <2>1, Basics
<1>3. ASSUME NEW m \in alloc \ {MaxNode} PROVE LinkOf(m)'
  <2>1. m \in Nodes /\ LinkOf(m)
    BY DEF LInv, LinkInv, FormInv
  <2>2. CASE owner[m] = p
    <3>1. NewestPtr(bundle[m]) = IF marked[m] THEN HeadNode ELSE next[m]
      BY <1>1, <2>1, <2>2, UnlockedLinks
    <3>2. PICK c \in alloc : c = next[m] /\ Inserted(c) /\ key[m] < key[c]
      BY <2>1 DEF LinkOf, Inserted
    <3>3. NewestPtr(bundle'[m]) = IF marked'[m] THEN HeadNode ELSE c
      BY <1>1, <3>1, <3>2
    <3> QED
      BY <1>1, <2>1, <3>2, <3>3, LinkTo
  <2>3. CASE owner[m] # p
    <3>1. owner'[m] = owner[m]
      BY <1>1, <2>1, <2>3, Basics
    <3> QED
      BY <1>1, <3>1, LinkStays
  <2> QED
    BY <2>2, <2>3
<1> QED
  BY <1>1, <1>2, <1>3 DEF LinkInv

LEMMA LinkHolds ==
  ASSUME SInv, LInv, NEW p \in Procs, Call(p) \/ ListStep(p)
  PROVE  LinkInv'
<1>1. [Next]_vars /\ Frame(p)
  BY StepIsNext, FrameHolds
<1>2. CASE BeginInsert(p) \/ LinWrite(p) \/ Unlink(p) \/ UnlockFirst(p)
  BY <1>1, <1>2, LinkInsert, LinkLinWrite, LinkUnlink, LinkUnlock
<1>3. CASE BeginErase(p)
  <2>1. lpc[p] \in StoppedLPCs /\ UNCHANGED <<next, marked, alloc>> /\ op[p].type = "erase"
    BY <1>3 DEF BeginErase, StoppedLPCs, UpdateLPCs, nodeVars
  <2> DEFINE w == <<Write(pred[p], next[curr[p]]), Write(curr[p], HeadNode)>>
  <2>2. owner' = [b \in Bundles |-> IF b \in BundlesOf(w) THEN p ELSE owner[b]]
    BY <1>3 DEF BeginErase, BeginUpdate
  <2>3. BundlesOf(w) \subseteq alloc \ {MaxNode} /\ p # NoProc /\ Bundles = Nodes
    <3>1. Len(w) = 2 /\ w[1].bundle = pred[p] /\ w[2].bundle = curr[p]
      BY DEF Write
    <3>2. pred[p] \in alloc \ {MaxNode} /\ curr[p] \in alloc \ {MaxNode}
      BY <2>1, Neighbours
    <3>3. \A i : i \in 1 .. 2 <=> i = 1 \/ i = 2
      OBVIOUS
    <3> HIDE DEF w
    <3> QED
      BY <3>1, <3>2, <3>3, Basics DEF BundlesOf
  <2> HIDE DEF w
  <2>4. \A n \in Nodes : owner'[n] = NoProc => owner[n] = NoProc
    BY <2>2, <2>3
  <2>5. \A n \in {MaxNode} \cup (Nodes \ alloc) : owner'[n] = NoProc
    BY <2>2, <2>3, Basics DEF LInv, LinkInv
  <2> QED
    BY <1>1, <2>1, <2>4, <2>5, LinksStay
<1>4. CASE ~(BeginInsert(p) \/ LinWrite(p) \/ Unlink(p) \/ UnlockFirst(p) \/ BeginErase(p))
  <2>1. UNCHANGED <<next, marked, alloc>>
    BY <1>4
    DEF ListStep, Call, Search, LockCurr, LockPred, Invalid, Present,
        PrepareAndLabel, FinalizeBundles, UnlockPred, RetryCurr, RetryPred,
        EnterNewest, GetNext, EndContains, StartQuery, EnterSnapshot, ReadBundle,
        Collect, EndQuery, nodeVars
  <2>2. UNCHANGED owner
    <3>1. CASE PrepareAndLabel(p) \/ FinalizeBundles(p)
      BY <3>1
      DEF PrepareAndLabel, FinalizeBundles, Prepare, LoadTS, ReloadTS, FetchAdd, Finalize,
          updateVars
    <3>2. CASE EnterNewest(p) \/ GetNext(p) \/ EndContains(p)
      BY <3>2
      DEF EnterNewest, GetNext, EndContains, BeginGet, Get, EndGet, updateVars
    <3>3. CASE StartQuery(p) \/ EnterSnapshot(p) \/ ReadBundle(p) \/ Collect(p) \/ EndQuery(p)
      BY <3>3
      DEF StartQuery, EnterSnapshot, ReadBundle, Collect, EndQuery, StartTraversal,
          AnnounceStep, ReadClock, Announce, ClearFlag, BeginLookup, LookupStep, CheckFirst,
          LoadSecond, CheckSecond, AwaitLabel, Walk, EndTraversal, updateVars
    <3> QED
      BY <1>4, <3>1, <3>2, <3>3
      DEF ListStep, Call, Search, LockCurr, LockPred, Invalid, Present, UnlockPred,
          RetryCurr, RetryPred, vars
  <2>3. \A n \in {MaxNode} \cup (Nodes \ alloc) : owner'[n] = NoProc
    BY <2>2 DEF LInv, LinkInv
  <2> QED
    BY <1>1, <2>1, <2>2, <2>3, LinksStay
<1> QED
  BY <1>2, <1>3, <1>4

-----------------------------------------------------------------------------
(***************************************************************************)
(* What a process's own steps make of what it knows.                       *)
(***************************************************************************)
LEMMA HeadInserted ==
  ASSUME SInv, LInv
  PROVE  Inserted(HeadNode)
<1>1. IInv /\ clock \in Nat /\ FirstTS <= clock /\ clock <= LastTS
  BY PendingAssumption DEF SInv, RInv, IInv, TypeOK, UInv, ClockInv, LastTS
<1>2. clock \in FirstTS .. LastTS
  BY <1>1, PendingAssumption DEF FirstTS, LastTS
<1> DEFINE f == [n \in Nodes |-> ValueAt(n, clock)]
<1>3. SortedLinks(key, f)
  BY <1>2 DEF LInv, ListInv
<1>4. f[HeadNode] = ValueAt(HeadNode, clock)
  BY Basics
<1> HIDE DEF f
<1>5. HeadNode = MaxNode \/ f[HeadNode] # NoPtr
  BY <1>3, SortedProps DEF Listed
<1> QED
  BY <1>4, <1>5 DEF Inserted

\* An operation sets out from the head.
LEMMA RestartLocal ==
  ASSUME SInv, LInv, [Next]_vars, NEW p \in Procs, Frame(p),
         lpc'[p] \in {"idle", "search"}, pc'[p] = "idle", pred'[p] = HeadNode,
         curr'[p] = HeadNode, lpc'[p] = "search" => op'[p] \in Operation
  PROVE  LocalInv(p)'
<1>1. Inserted(HeadNode)' /\ HeadNode \in alloc'
  BY HeadInserted, InsertedStays, Basics DEF Frame, LInv, FormInv
<1>2. Inserted(pred[p])' /\ Inserted(curr[p])'
  BY <1>1 DEF Inserted
<1>3. lpc'[p] = "search" => key'[HeadNode] < op'[p].lo
  <2>1. key'[HeadNode] = key[HeadNode]
    BY DEF Frame, LInv, FormInv
  <2>2. lpc'[p] = "search" => op'[p].lo \in SetKeys
    BY DEF Operation
  <2> QED
    BY <2>1, <2>2, KeyProps DEF LInv
<1> USE DEF StoppedLPCs, UpdateLPCs, EraseLPCs, ReadLPCs
<1>4. PlaceInv(p)'
  BY <1>1, <1>2, <1>3 DEF PlaceInv
<1>5. CallInv(p)' /\ PcInv(p)'
  BY DEF CallInv, PcInv
<1>6. LockInv(p)' /\ WriteInv(p)' /\ UnseenInv(p)' /\ EntryInv(p)'
  BY DEF LockInv, WriteInv, UnseenInv, EntryInv
<1> QED
  BY <1>4, <1>5, <1>6 DEF LocalInv

\* An operation goes on from where it stands.
LEMMA PlaceStays ==
  ASSUME SInv, LInv, [Next]_vars, NEW p \in Procs, Frame(p), lpc[p] \in StoppedLPCs,
         lpc'[p] \in StoppedLPCs, op'[p] = op[p], pred'[p] = pred[p], curr'[p] = curr[p]
  PROVE  PlaceInv(p)'
<1>1. PICK m \in alloc : m = pred[p] /\ Inserted(m) /\ m \in Nodes
  BY Neighbours DEF Inserted
<1>2. PICK n \in alloc : n = curr[p] /\ Inserted(n) /\ n \in Nodes
  BY Neighbours DEF Inserted
<1>3. m \in alloc' /\ key'[m] = key[m] /\ n \in alloc' /\ key'[n] = key[n]
  BY DEF Frame
<1>4. Inserted(m)' /\ Inserted(n)'
  BY <1>1, <1>2, InsertedStays
<1>5. Inserted(pred[p])'
  BY <1>1, <1>4 DEF Inserted
<1>6. Inserted(curr[p])'
  BY <1>2, <1>4 DEF Inserted
<1>7. lpc'[p] # "search" /\ PlaceInv(p)
  BY DEF LInv, LocalInv, StoppedLPCs, UpdateLPCs, EraseLPCs, ReadLPCs
<1> QED
  BY <1>1, <1>2, <1>3, <1>5, <1>6, <1>7 DEF PlaceInv

LEMMA SearchLocal ==
  ASSUME SInv, LInv, [Next]_vars, NEW p \in Procs, Frame(p), Search(p)
  PROVE  LocalInv(p)'
<1>1. /\ lpc[p] = "search" /\ FormInv /\ LinkInv /\ CallInv(p) /\ PlaceInv(p)
      /\ pc[p] = "idle" /\ pc' = pc /\ pred \in [Procs -> Nodes] /\ curr \in [Procs -> Nodes]
      /\ lpc \in [Procs -> {"idle", "search"} \cup StoppedLPCs]
      /\ op \in [Procs -> Operation \cup {[type |-> "none"]}]
      /\ UNCHANGED <<key, alloc>>
  BY DEF Search, LInv, LocalInv, PcInv, vars, nodeVars, FormInv
<1>2. PICK n : n = next[curr[p]]
  OBVIOUS
<1>3. /\ curr[p] \in alloc /\ curr[p] \in Nodes /\ Inserted(curr[p]) /\ key[curr[p]] < op[p].lo
      /\ curr[p] # MaxNode /\ op[p].type \in OpTypes /\ op[p].lo \in Int /\ op[p] \in Operation
  <2>1. /\ op[p].type \in OpTypes /\ op[p].lo \in Int /\ op[p].lo \in SetKeys
        /\ op[p] \in Operation
    BY <1>1, OpProps
  <2>2. /\ curr[p] \in alloc /\ curr[p] \in Nodes /\ Inserted(curr[p]) /\ key[curr[p]] < op[p].lo
    BY <1>1 DEF PlaceInv, FormInv
  <2> QED
    BY <1>1, <2>1, <2>2, KeyProps
<1>4. n \in alloc /\ n \in Nodes /\ Inserted(n) /\ key[n] \in Int
  <2>1. LinkOf(curr[p])
    BY <1>1, <1>3 DEF LinkInv
  <2> QED
    BY <1>1, <1>2, <2>1, KeyProps DEF LinkOf, FormInv
<1>5. CASE op[p].type = "erase" /\ key[n] > op[p].lo
  <2>1. ReturnKeys(p, <<>>)
    BY <1>2, <1>5 DEF Search
  <2>2. lpc'[p] = "idle" /\ pred'[p] = HeadNode /\ curr'[p] = HeadNode
    BY <1>1, <2>1 DEF ReturnKeys, Restart, Goto
  <2> QED
    BY <1>1, <2>2, RestartLocal
<1>6. CASE ~(op[p].type = "erase" /\ key[n] > op[p].lo)
  <2>1. /\ pred' = [pred EXCEPT ![p] = curr[p]]
        /\ curr' = [curr EXCEPT ![p] = n]
        /\ IF key[n] < op[p].lo THEN UNCHANGED lpc ELSE Found(p, n)
        /\ UNCHANGED op
    BY <1>2, <1>6 DEF Search, callVars
  <2>2. pred'[p] = curr[p] /\ curr'[p] = n /\ op'[p] = op[p] /\ pc'[p] = "idle"
    BY <1>1, <2>1
  <2>3. Inserted(pred[p])' /\ Inserted(curr[p])'
    <3>1. PICK m \in Nodes : m = curr[p] /\ Inserted(m)
      BY <1>3 DEF Inserted
    <3>2. Inserted(m)' /\ Inserted(n)'
      BY <1>4, <3>1, InsertedStays
    <3>3. Inserted(pred[p])'
      BY <2>2, <3>1, <3>2 DEF Inserted
    <3>4. Inserted(curr[p])'
      BY <2>2, <3>2 DEF Inserted
    <3> QED
      BY <3>3, <3>4
  <2>4. \/ key[n] < op[p].lo /\ lpc'[p] = "search"
        \/ /\ op[p].lo <= key[n]
           /\ op[p].type = "erase" => key[n] = op[p].lo
           /\ \/ op[p].type = "insert" /\ lpc'[p] = "lockPred"
              \/ op[p].type = "erase" /\ lpc'[p] = "lockCurr"
              \/ op[p].type = "contains" /\ lpc'[p] = "enter"
              \/ op[p].type = "range" /\ lpc'[p] = "announce"
    <3>1. CASE key[n] < op[p].lo
      BY <1>1, <2>1, <3>1
    <3>2. CASE ~(key[n] < op[p].lo)
      <4>1. op[p].lo <= key[n] /\ (op[p].type = "erase" => key[n] = op[p].lo)
        BY <1>3, <1>4, <1>6, <3>2
      <4>2. Found(p, n)
        BY <2>1, <3>2
      <4>3. \/ op[p].type = "insert" /\ lpc' = [lpc EXCEPT ![p] = "lockPred"]
            \/ op[p].type = "erase" /\ lpc' = [lpc EXCEPT ![p] = "lockCurr"]
            \/ op[p].type = "contains" /\ lpc' = [lpc EXCEPT ![p] = "enter"]
            \/ op[p].type = "range" /\ lpc' = [lpc EXCEPT ![p] = "announce"]
        BY <1>3, <4>2 DEF Found, Goto, OpTypes
      <4>4. \A l : lpc' = [lpc EXCEPT ![p] = l] => lpc'[p] = l
        BY <1>1
      <4> QED
        BY <4>1, <4>3, <4>4
    <3> QED
      BY <3>1, <3>2
  <2> USE DEF StoppedLPCs, UpdateLPCs, EraseLPCs, ReadLPCs
  <2>5. PlaceInv(p)'
    BY <1>1, <1>3, <1>4, <2>2, <2>3, <2>4 DEF PlaceInv
  <2>6. CallInv(p)' /\ PcInv(p)'
    BY <1>3, <2>2, <2>4 DEF CallInv, PcInv
  <2>7. LockInv(p)' /\ WriteInv(p)' /\ UnseenInv(p)' /\ EntryInv(p)'
    BY <2>2, <2>4 DEF LockInv, WriteInv, UnseenInv, EntryInv
  <2> QED
    BY <2>5, <2>6, <2>7 DEF LocalInv
<1> QED
  BY <1>5, <1>6

\* The steps on the locks, and back to the search.
LEMMA LockLocal ==
  ASSUME SInv, LInv, [Next]_vars, NEW p \in Procs, Frame(p),
         LockCurr(p) \/ LockPred(p) \/ Invalid(p) \/ RetryCurr(p)
  PROVE  LocalInv(p)'
<1> USE DEF StoppedLPCs, UpdateLPCs, EraseLPCs, ReadLPCs
<1>1. /\ lpc[p] \in {"lockCurr", "lockPred", "validate", "retryCurr"}
      /\ UNCHANGED <<op, pred, curr, pc>> /\ FormInv
  BY DEF LockCurr, LockPred, Invalid, RetryCurr, vars, callVars, localVars, LInv
<1>2. /\ CallInv(p) /\ LockInv(p) /\ pc[p] = "idle" /\ p # NoProc
      /\ lpc \in [Procs -> {"idle", "search"} \cup StoppedLPCs]
      /\ lock \in [Nodes -> Procs \cup {NoProc}]
  BY <1>1, Basics DEF LInv, LocalInv, PcInv, FormInv
<1>3. pred[p] \in Nodes /\ curr[p] \in Nodes /\ pred[p] # curr[p]
  BY <1>1, Neighbours
<1>4. \/ lpc[p] = "lockCurr" /\ lpc'[p] = "lockPred" /\ lock' = [lock EXCEPT ![curr[p]] = p]
      \/ lpc[p] = "lockPred" /\ lpc'[p] = "validate" /\ lock' = [lock EXCEPT ![pred[p]] = p]
      \/ /\ lpc[p] = "validate" /\ lock' = lock
         /\ lpc'[p] = IF op[p].type = "erase" THEN "retryCurr" ELSE "retryPred"
      \/ lpc[p] = "retryCurr" /\ lpc'[p] = "retryPred" /\ lock' = [lock EXCEPT ![curr[p]] = NoProc]
  BY <1>2 DEF LockCurr, LockPred, Invalid, RetryCurr, AcquireLock, ReleaseLock, Goto, nodeVars
<1>5. PlaceInv(p)'
  BY <1>1, <1>4, PlaceStays
<1>6. CallInv(p)' /\ PcInv(p)'
  BY <1>1, <1>2, <1>4 DEF CallInv, PcInv
<1>7. LockInv(p)'
  BY <1>1, <1>2, <1>3, <1>4 DEF LockInv, CallInv
<1>8. WriteInv(p)' /\ UnseenInv(p)' /\ EntryInv(p)'
  BY <1>1, <1>2, <1>4 DEF WriteInv, UnseenInv, EntryInv
<1> QED
  BY <1>5, <1>6, <1>7, <1>8 DEF LocalInv

\* The steps that end an operation, or start one.
LEMMA ReturnLocal ==
  ASSUME SInv, LInv, [Next]_vars, NEW p \in Procs, Frame(p),
         Call(p) \/ Present(p) \/ UnlockPred(p) \/ RetryPred(p) \/ EndContains(p) \/ EndQuery(p)
  PROVE  LocalInv(p)'
<1>1. /\ pred \in [Procs -> Nodes] /\ curr \in [Procs -> Nodes]
      /\ lpc \in [Procs -> {"idle", "search"} \cup StoppedLPCs]
      /\ op \in [Procs -> Operation \cup {[type |-> "none"]}]
      /\ todo \in [Procs -> Seq(Operation)]
      /\ pc \in [Procs -> PCs] /\ PcInv(p) /\ CallInv(p)
  BY DEF LInv, LocalInv, FormInv, SInv, RInv, IInv, TypeOK
<1>2. pred'[p] = HeadNode /\ curr'[p] = HeadNode
  BY <1>1
  DEF Call, Present, UnlockPred, RetryPred, EndContains, EndQuery, ReturnKeys, Restart
<1>3. lpc'[p] \in {"idle", "search"}
  BY <1>1
  DEF Call, Present, UnlockPred, RetryPred, EndContains, EndQuery, ReturnKeys, Goto
<1>4. pc'[p] = "idle"
  <2>1. CASE Call(p) \/ Present(p) \/ UnlockPred(p) \/ RetryPred(p)
    BY <1>1, <2>1 DEF Call, Present, UnlockPred, RetryPred, vars, PcInv
  <2>2. CASE EndContains(p) \/ EndQuery(p)
    BY <1>1, <2>2 DEF EndContains, EndQuery, EndGet, EndTraversal
  <2> QED
    BY <2>1, <2>2
<1>5. lpc'[p] = "search" => op'[p] \in Operation
  <2>1. CASE Call(p)
    <3>1. todo[p] \in Seq(Operation) /\ todo[p] # <<>>
      BY <1>1, <2>1 DEF Call
    <3>2. Head(todo[p]) \in Operation
      BY <3>1
    <3> QED
      BY <1>1, <2>1, <3>2 DEF Call
  <2>2. CASE RetryPred(p)
    BY <1>1, <2>2 DEF RetryPred, callVars, CallInv
  <2>3. CASE Present(p) \/ UnlockPred(p) \/ EndContains(p) \/ EndQuery(p)
    BY <1>1, <2>3 DEF Present, UnlockPred, EndContains, EndQuery, ReturnKeys, Goto
  <2> QED
    BY <2>1, <2>2, <2>3
<1> QED
  BY <1>2, <1>3, <1>4, <1>5, RestartLocal

\* An insert or an erase that starts to write.
LEMMA BeginLocal ==
  ASSUME SInv, LInv, [Next]_vars, NEW p \in Procs, Frame(p), BeginInsert(p) \/ BeginErase(p)
  PROVE  /\ CallInv(p)' /\ PcInv(p)' /\ PlaceInv(p)' /\ LockInv(p)' /\ EntryInv(p)'
         /\ lpc'[p] = "label" /\ pc'[p] = "prepare" /\ UNCHANGED <<op, pred, curr, bundle, clock>>
<1> USE DEF StoppedLPCs, UpdateLPCs, EraseLPCs, ReadLPCs
<1>1. /\ lpc[p] = "validate" /\ UNCHANGED <<op, pred, curr, bundle, clock>> /\ FormInv
      /\ lpc' = [lpc EXCEPT ![p] = "label"] /\ pc' = [pc EXCEPT ![p] = "prepare"]
      /\ op[p].type \in {"insert", "erase"}
  BY DEF BeginInsert, BeginErase, BeginUpdate, Goto, callVars, localVars, LInv
<1>2. /\ CallInv(p) /\ LockInv(p) /\ p # NoProc
      /\ lpc \in [Procs -> {"idle", "search"} \cup StoppedLPCs]
      /\ lock \in [Nodes -> Procs \cup {NoProc}]
      /\ pc \in [Procs -> PCs]
  BY <1>1, Basics DEF LInv, LocalInv, FormInv, SInv, RInv, IInv, TypeOK
<1>3. lpc'[p] = "label" /\ pc'[p] = "prepare"
  BY <1>1, <1>2
<1>4. pred[p] \in Nodes /\ curr[p] \in Nodes /\ pred[p] \in alloc /\ curr[p] \in alloc
  BY <1>1, Neighbours
<1>5. PlaceInv(p)'
  BY <1>1, <1>3, PlaceStays
<1>6. CallInv(p)' /\ PcInv(p)'
  BY <1>1, <1>2, <1>3 DEF CallInv, PcInv
<1>7. LockInv(p)'
  <2>1. \A n \in alloc : lock'[n] = lock[n]
    BY <1>1, <1>2 DEF BeginInsert, BeginErase, nodeVars, FormInv
  <2> QED
    BY <1>1, <1>2, <1>3, <1>4, <2>1 DEF LockInv
<1>8. EntryInv(p)'
  BY <1>3 DEF EntryInv
<1> QED
  BY <1>1, <1>3, <1>5, <1>6, <1>7, <1>8

LEMMA BeginValue ==
  ASSUME SInv, LInv, [Next]_vars, NEW p \in Procs, NEW w \in Updates, BeginUpdate(p, w),
         NEW n \in Nodes, owner[n] = NoProc
  PROVE  ValueAt(n, LastTS)' = NewestPtr(bundle[n])
<1>1. IInv /\ IInv' /\ n \in Bundles /\ p \in Updaters
  BY PastHeld, Basics
<1>2. LastTS \in FirstTS .. LastTS
  BY PastHeld, PendingAssumption DEF LastTS, FirstTS
<1>3. ValueAt(n, LastTS)' = ValueAt(n, LastTS)
  BY <1>1, <1>2, BeginKeeps, ViewKept
<1> QED
  BY <1>1, <1>3, IdleLink

LEMMA BeginInsertWrites ==
  ASSUME SInv, LInv, [Next]_vars, NEW p \in Procs, Frame(p), BeginInsert(p)
  PROVE  WriteInv(p)' /\ UnseenInv(p)'
<1>1. /\ lpc[p] = "validate" /\ lpc[p] \in StoppedLPCs /\ op[p].type = "insert"
      /\ ~marked[pred[p]] /\ ~marked[curr[p]] /\ next[pred[p]] = curr[p]
      /\ key[curr[p]] # op[p].lo /\ UNCHANGED <<op, pred, curr, bundle, marked>> /\ FormInv
  BY DEF BeginInsert, ValidateLinks, StoppedLPCs, UpdateLPCs, BeginUpdate, callVars, localVars,
         LInv
<1>2. /\ pred[p] \in alloc \ {MaxNode} /\ curr[p] \in alloc \ {HeadNode}
      /\ pred[p] \in Nodes /\ curr[p] \in Nodes
      /\ op[p].lo <= key[curr[p]] /\ op[p].lo \in Int /\ key[curr[p]] \in Int
  BY <1>1, Neighbours
<1>3. lpc'[p] = "label" /\ pc'[p] = "prepare"
  BY BeginLocal
<1>4. PICK n \in Nodes \ alloc :
         /\ alloc' = alloc \cup {n} /\ key' = [key EXCEPT ![n] = op[p].lo]
         /\ next' = [next EXCEPT ![n] = curr[p]] /\ lock' = [lock EXCEPT ![n] = p]
         /\ BeginUpdate(p, <<Write(n, curr[p]), Write(pred[p], n)>>)
  BY DEF BeginInsert
<1> DEFINE w == <<Write(n, curr[p]), Write(pred[p], n)>>
<1>5. /\ Len(w) = 2 /\ w[1].bundle = n /\ w[2].bundle = pred[p] /\ w \in Updates
      /\ upd'[p] = w /\ \A b \in BundlesOf(w) : owner[b] = NoProc
  <2>1. Len(w) = 2 /\ w[1].bundle = n /\ w[2].bundle = pred[p]
    BY DEF Write
  <2>2. w \in Updates
    BY <1>1, InsertUpdate
  <2>3. upd \in [Procs -> Updates \cup {<<>>}]
    BY DEF SInv, RInv, IInv, TypeOK
  <2> HIDE DEF w
  <2>4. BeginUpdate(p, w)
    BY <1>4 DEF w
  <2>5. upd'[p] = w /\ \A b \in BundlesOf(w) : owner[b] = NoProc
    BY <2>3, <2>4 DEF BeginUpdate
  <2> QED
    BY <2>1, <2>2, <2>5
<1>6. BeginUpdate(p, w)
  BY <1>4
<1>7. upd'[p] = <<Write(n, curr[p]), Write(pred[p], n)>>
  BY <1>5
<1> HIDE DEF w
<1>8. owner[n] = NoProc /\ owner[pred[p]] = NoProc
  <2>1. 1 \in 1 .. 2 /\ 2 \in 1 .. 2
    OBVIOUS
  <2>2. n \in BundlesOf(w) /\ pred[p] \in BundlesOf(w)
    BY <1>5, <2>1 DEF BundlesOf
  <2> QED
    BY <1>5, <2>2
<1>9. Newest(bundle[n]) = 0 /\ ~marked[n] /\ n # pred[p] /\ n # curr[p] /\ n \notin {HeadNode, MaxNode}
  BY <1>1, <1>2 DEF LInv, LinkInv, FormInv
<1>10. InsertInv(p, n)'
  <2>1. key'[n] = op[p].lo /\ key'[curr[p]] = key[curr[p]] /\ key'[n] < key'[curr[p]]
    BY <1>1, <1>2, <1>4, <1>9 DEF FormInv
  <2>2. lock'[n] = p /\ next'[n] = curr[p] /\ next'[pred[p]] = curr[p] /\ n \in alloc'
    BY <1>1, <1>2, <1>4, <1>9 DEF FormInv
  <2> QED
    BY <1>1, <1>3, <1>7, <1>9, <2>1, <2>2 DEF InsertInv
<1>11. WriteInv(p)'
  <2>1. upd'[p][1].bundle = n
    BY <1>5
  <2>2. InsertInv(p, upd[p][1].bundle)'
    BY <1>10, <2>1 DEF InsertInv, Inserted
  <2> QED
    BY <1>1, <2>2 DEF WriteInv
<1>12. UnseenInv(p)'
  <2>1. ValueAt(n, LastTS)' = NoPtr
    <3>1. ValueAt(n, LastTS)' = NewestPtr(bundle[n])
      BY <1>5, <1>6, <1>8, BeginValue
    <3> QED
      BY <1>9, <3>1 DEF NewestPtr
  <2>2. PICK m \in Nodes : m = pred[p]
    BY <1>2
  <2>3. ValueAt(m, LastTS)' = curr[p]
    <3>1. ValueAt(m, LastTS)' = NewestPtr(bundle[m])
      BY <1>5, <1>6, <1>8, <2>2, BeginValue
    <3>2. NewestPtr(bundle[m]) = next[m]
      BY <1>1, <1>2, <1>8, <2>2 DEF LInv, LinkInv, LinkOf
    <3> QED
      BY <1>1, <2>2, <3>1, <3>2
  <2>4. ValueAt(upd[p][1].bundle, LastTS)' = NoPtr
    <3>1. upd'[p][1].bundle = n
      BY <1>5
    <3> QED
      BY <2>1, <3>1 DEF ValueAt, VersionAt, Visible, Label
  <2>5. ValueAt(pred[p], LastTS)' = curr'[p]
    <3>1. pred'[p] = m /\ curr'[p] = curr[p]
      BY <1>1, <2>2
    <3> QED
      BY <2>3, <3>1 DEF ValueAt, VersionAt, Visible, Label
  <2> QED
    BY <1>1, <2>4, <2>5 DEF UnseenInv
<1> QED
  BY <1>11, <1>12

LEMMA BeginEraseWrites ==
  ASSUME SInv, LInv, [Next]_vars, NEW p \in Procs, Frame(p), BeginErase(p)
  PROVE  WriteInv(p)' /\ UnseenInv(p)'
<1>1. /\ lpc[p] = "validate" /\ lpc[p] \in StoppedLPCs /\ op[p].type = "erase"
      /\ ~marked[pred[p]] /\ ~marked[curr[p]] /\ next[pred[p]] = curr[p]
      /\ UNCHANGED <<op, pred, curr, bundle, marked, next>> /\ FormInv
  BY DEF BeginErase, ValidateLinks, StoppedLPCs, UpdateLPCs, BeginUpdate, callVars, localVars,
         nodeVars, LInv
<1>2. /\ pred[p] \in alloc \ {MaxNode} /\ curr[p] \in alloc \ {HeadNode, MaxNode}
      /\ pred[p] \in Nodes /\ curr[p] \in Nodes
  BY <1>1, Neighbours
<1>3. lpc'[p] = "label" /\ pc'[p] = "prepare"
  BY BeginLocal
<1>4. PICK s : s = next[curr[p]]
  OBVIOUS
<1> DEFINE w == <<Write(pred[p], s), Write(curr[p], HeadNode)>>
<1>5. /\ Len(w) = 2 /\ w[1].bundle = pred[p] /\ w[1].ptr = s /\ w[2].bundle = curr[p]
      /\ w \in Updates
  <2>1. w \in Updates
    BY <1>1, <1>4, EraseUpdate
  <2> QED
    BY <2>1 DEF Write
<1>6. BeginUpdate(p, w)
  BY <1>4 DEF BeginErase
<1>7. upd'[p] = w /\ \A b \in BundlesOf(w) : owner[b] = NoProc
  <2>1. upd \in [Procs -> Updates \cup {<<>>}]
    BY DEF SInv, RInv, IInv, TypeOK
  <2> HIDE DEF w
  <2> QED
    BY <1>6, <2>1 DEF BeginUpdate
<1>8. upd'[p] = <<Write(pred[p], s), Write(curr[p], HeadNode)>>
  BY <1>7
<1> HIDE DEF w
<1>9. owner[curr[p]] = NoProc /\ owner[pred[p]] = NoProc
  <2>1. 1 \in 1 .. 2 /\ 2 \in 1 .. 2
    OBVIOUS
  <2>2. curr[p] \in BundlesOf(w) /\ pred[p] \in BundlesOf(w)
    BY <1>5, <2>1 DEF BundlesOf
  <2> QED
    BY <1>7, <2>2
<1>10. upd'[p][1].ptr = s
  BY <1>5, <1>7
<1>11. WriteInv(p)'
  <2>1. EraseInv(p, s)'
    BY <1>1, <1>3, <1>4, <1>8 DEF EraseInv
  <2>2. EraseInv(p, upd[p][1].ptr)'
    BY <1>10, <2>1 DEF EraseInv
  <2> QED
    BY <1>1, <2>2 DEF WriteInv
<1>12. UnseenInv(p)'
  <2>1. ASSUME NEW m \in {pred[p], curr[p]} PROVE ValueAt(m, LastTS)' = next[m]
    <3>1. m \in Nodes /\ owner[m] = NoProc /\ m \in alloc \ {MaxNode} /\ ~marked[m]
      BY <1>1, <1>2, <1>9
    <3>2. ValueAt(m, LastTS)' = NewestPtr(bundle[m])
      BY <1>5, <1>6, <3>1, BeginValue
    <3>3. NewestPtr(bundle[m]) = next[m]
      BY <3>1 DEF LInv, LinkInv, LinkOf
    <3> QED
      BY <3>2, <3>3
  <2>2. PICK m \in Nodes : m = pred[p]
    BY <1>2
  <2>3. PICK c \in Nodes : c = curr[p]
    BY <1>2
  <2>4. ValueAt(pred[p], LastTS)' = curr'[p]
    <3>1. pred'[p] = m /\ curr'[p] = curr[p] /\ ValueAt(m, LastTS)' = curr[p]
      BY <1>1, <2>1, <2>2
    <3> QED
      BY <3>1 DEF ValueAt, VersionAt, Visible, Label
  <2>5. ValueAt(curr[p], LastTS)' = upd'[p][1].ptr
    <3>1. curr'[p] = c /\ ValueAt(c, LastTS)' = upd'[p][1].ptr
      BY <1>1, <1>4, <1>10, <2>1, <2>3
    <3> QED
      BY <3>1 DEF ValueAt, VersionAt, Visible, Label
  <2> QED
    BY <1>1, <2>4, <2>5 DEF UnseenInv
<1> QED
  BY <1>11, <1>12

\* The steps of prepare_bundles, getNextTS and finalize_bundles.
LEMMA LabelLocal ==
  ASSUME SInv, LInv, [Next]_vars, NEW p \in Procs, Frame(p),
         PrepareAndLabel(p) \/ FinalizeBundles(p)
  PROVE  LocalInv(p)'
<1> USE DEF StoppedLPCs, UpdateLPCs, EraseLPCs, ReadLPCs
<1>1. /\ lpc[p] \in {"label", "finalize"} /\ UNCHANGED <<op, pred, curr, lpc, nodeVars>>
      /\ UNCHANGED upd /\ FormInv
      /\ Prepare(p) \/ LoadTS(p) \/ ReloadTS(p) \/ FetchAdd(p) \/ Finalize(p)
      /\ lpc[p] = "label" => ~Finalize(p) \/ Prepare(p) \/ LoadTS(p) \/ ReloadTS(p) \/ FetchAdd(p)
  BY DEF PrepareAndLabel, FinalizeBundles, callVars, localVars, LInv, updateVars, Prepare,
         LoadTS, ReloadTS, FetchAdd, Finalize
<1>2. /\ CallInv(p) /\ LockInv(p) /\ WriteInv(p) /\ UnseenInv(p) /\ IInv /\ p \in Updaters
      /\ pc \in [Procs -> PCs]
  BY Basics DEF LInv, LocalInv, SInv, RInv, IInv, TypeOK
<1>3. /\ pc'[p] \in {"prepare", "load", "reload", "bump", "finalize"} \/ Finalize(p)
      /\ lpc[p] = "finalize" => pc'[p] \in {"finalize", "unlock"}
      /\ lpc[p] = "label" => pc'[p] \in {"prepare", "load", "reload", "bump", "finalize"}
      /\ pc'[p] \in {"prepare", "load"} => Prepare(p) /\ pc[p] = "prepare"
  <2>1. CASE Prepare(p)
    <3>1. pc[p] = "prepare" /\ pc[p] \in UpdatePCs
      BY <2>1 DEF Prepare, UpdatePCs
    <3>2. pc'[p] \in {"prepare", "load"}
      BY <1>2, <2>1, <3>1 DEF Prepare, NextBundle
    <3>3. PcInv(p)
      BY DEF LInv, LocalInv
    <3> QED
      BY <1>1, <2>1, <3>1, <3>2, <3>3 DEF PcInv
  <2>2. CASE LoadTS(p) \/ ReloadTS(p) \/ FetchAdd(p)
    <3>1. pc'[p] \in {"reload", "bump", "finalize"} /\ pc[p] \in {"load", "reload", "bump"}
      BY <1>2, <2>2 DEF LoadTS, ReloadTS, FetchAdd
    <3>2. PcInv(p)
      BY DEF LInv, LocalInv
    <3> QED
      BY <1>1, <3>1, <3>2 DEF PcInv
  <2>3. CASE Finalize(p)
    <3>1. pc[p] = "finalize"
      BY <2>3 DEF Finalize
    <3>2. pc'[p] \in {"finalize", "unlock"}
      BY <1>2, <2>3, <3>1 DEF Finalize, NextBundle
    <3>3. lpc[p] = "label" => Prepare(p) \/ LoadTS(p) \/ ReloadTS(p) \/ FetchAdd(p)
      BY <1>1, <2>3
    <3>4. lpc[p] # "label"
      BY <3>1, <3>3 DEF Prepare, LoadTS, ReloadTS, FetchAdd
    <3> QED
      BY <2>3, <3>2, <3>4
  <2> QED
    BY <1>1, <2>1, <2>2, <2>3
<1>4. CallInv(p)' /\ PcInv(p)' /\ LockInv(p)' /\ EntryInv(p)'
  BY <1>1, <1>2, <1>3 DEF CallInv, PcInv, LockInv, EntryInv, nodeVars
<1>5. PlaceInv(p)'
  BY <1>1, PlaceStays
<1>6. WriteInv(p)'
  <2>1. CASE op[p].type = "insert"
    <3>1. PICK n : n = upd[p][1].bundle
      OBVIOUS
    <3>2. InsertInv(p, n)
      BY <1>1, <1>2, <2>1, <3>1 DEF WriteInv
    <3>3. lpc[p] = "finalize" => Inserted(n)'
      BY <1>1, <3>2, InsertedStays DEF InsertInv, FormInv
    <3>4. InsertInv(p, n)'
      BY <1>1, <3>2, <3>3 DEF InsertInv, nodeVars
    <3>5. upd'[p][1].bundle = n
      BY <1>1, <3>1
    <3>6. InsertInv(p, upd[p][1].bundle)'
      BY <3>4, <3>5 DEF InsertInv, Inserted
    <3> QED
      BY <1>1, <2>1, <3>6 DEF WriteInv
  <2>2. CASE op[p].type # "insert"
    <3>1. EraseInv(p, upd[p][1].ptr)
      BY <1>1, <1>2, <2>2 DEF WriteInv
    <3>2. EraseInv(p, upd[p][1].ptr)'
      BY <1>1, <3>1 DEF EraseInv, nodeVars
    <3> QED
      BY <1>1, <2>2, <3>2 DEF WriteInv
  <2> QED
    BY <2>1, <2>2
<1>7. UnseenInv(p)'
  <2> SUFFICES ASSUME pc'[p] \in {"prepare", "load"}
               PROVE  /\ ValueAt(pred[p], LastTS)' = curr'[p]
                      /\ op[p].type = "erase" => ValueAt(curr[p], LastTS)' = upd'[p][1].ptr
                      /\ op[p].type = "insert" => ValueAt(upd[p][1].bundle, LastTS)' = NoPtr
    BY <1>1 DEF UnseenInv
  <2>1. Prepare(p) /\ pc[p] = "prepare" /\ LastTS \in FirstTS .. LastTS /\ IInv' /\ Bundles = Nodes
    BY <1>3, PastHeld, PendingAssumption, Basics DEF LastTS, FirstTS
  <2>2. ASSUME NEW b \in Nodes PROVE ValueAt(b, LastTS)' = ValueAt(b, LastTS)
    BY <1>2, <2>1, PrepareKeeps, ViewKept
  <2>3. lpc[p] = "label"
    BY <2>1, Labelling
  <2>4. ValueAt(pred[p], LastTS)' = curr'[p]
    <3>1. PICK m \in Nodes : m = pred[p]
      BY <1>1 DEF FormInv
    <3>2. ValueAt(m, LastTS)' = curr[p] /\ pred'[p] = m /\ curr'[p] = curr[p]
      BY <1>1, <1>2, <2>1, <2>2, <3>1 DEF UnseenInv
    <3> QED
      BY <3>2 DEF ValueAt, VersionAt, Visible, Label
  <2>5. ASSUME op[p].type = "erase" PROVE ValueAt(curr[p], LastTS)' = upd'[p][1].ptr
    <3>1. PICK c \in Nodes : c = curr[p]
      BY <1>1 DEF FormInv
    <3>2. ValueAt(c, LastTS)' = upd'[p][1].ptr /\ curr'[p] = c
      BY <1>1, <1>2, <2>1, <2>2, <2>5, <3>1 DEF UnseenInv
    <3> QED
      BY <3>2 DEF ValueAt, VersionAt, Visible, Label
  <2>6. ASSUME op[p].type = "insert" PROVE ValueAt(upd[p][1].bundle, LastTS)' = NoPtr
    <3>1. PICK n \in Nodes : n = upd[p][1].bundle
      BY <2>3, <2>6, OwnsNodes
    <3>2. ValueAt(n, LastTS)' = NoPtr /\ upd'[p][1].bundle = n
      BY <1>1, <1>2, <2>1, <2>2, <2>6, <3>1 DEF UnseenInv
    <3> QED
      BY <3>2 DEF ValueAt, VersionAt, Visible, Label
  <2> QED
    BY <2>4, <2>5, <2>6
<1> QED
  BY <1>4, <1>5, <1>6, <1>7 DEF LocalInv

\* The writes to the raw links and marks.
LEMMA LinWriteLocal ==
  ASSUME SInv, LInv, [Next]_vars, NEW p \in Procs, Frame(p), LinWrite(p)
  PROVE  LocalInv(p)'
<1> USE DEF StoppedLPCs, UpdateLPCs, EraseLPCs, ReadLPCs
<1>1. /\ lpc[p] = "label" /\ lpc' = [lpc EXCEPT ![p] = "finalize"] /\ pc[p] = "finalize"
      /\ UNCHANGED <<op, pred, curr, upd, pc, key, lock, alloc>> /\ FormInv
  BY DEF LinWrite, Goto, callVars, localVars, vars, LInv
<1>2. /\ CallInv(p) /\ LockInv(p) /\ WriteInv(p) /\ lpc'[p] = "finalize"
      /\ op[p].type \in {"insert", "erase"}
      /\ pred[p] \in Nodes /\ curr[p] \in Nodes /\ pred[p] # curr[p]
  <2>1. CallInv(p) /\ LockInv(p) /\ WriteInv(p)
    BY DEF LInv, LocalInv
  <2>2. lpc'[p] = "finalize"
    BY <1>1 DEF FormInv
  <2> QED
    BY <1>1, <2>1, <2>2, Neighbours, OwnsNodes
<1>3. CallInv(p)' /\ PcInv(p)' /\ LockInv(p)' /\ UnseenInv(p)' /\ EntryInv(p)'
  BY <1>1, <1>2 DEF CallInv, PcInv, LockInv, UnseenInv, EntryInv
<1>4. PlaceInv(p)'
  BY <1>1, <1>2, PlaceStays
<1>5. WriteInv(p)'
  <2>1. CASE op[p].type = "insert"
    <3>1. PICK n : n = upd[p][1].bundle
      OBVIOUS
    <3>2. InsertInv(p, n)
      BY <1>1, <1>2, <2>1, <3>1 DEF WriteInv
    <3>3. Inserted(n)'
      <4>1. Len(upd[p]) = 2 /\ 1 \in 1 .. Len(upd[p])
        BY <3>2 DEF InsertInv
      <4>2. Inserted(n) /\ n \in Nodes
        BY <1>1, <3>1, <3>2, <4>1, FinalInserted, Basics DEF InsertInv, FormInv
      <4> QED
        BY <4>2, InsertedStays
    <3>4. next' = [next EXCEPT ![pred[p]] = n] /\ marked' = marked
      BY <2>1, <3>1 DEF LinWrite
    <3>5. n # pred[p]
      <4>1. next[n] = curr[p] /\ key[n] = op[p].lo /\ key[pred[p]] < op[p].lo
        BY <1>1, <3>2, Neighbours DEF InsertInv
      <4>2. key[pred[p]] \in Int
        BY <1>1, Neighbours
      <4> QED
        BY <4>1, <4>2
    <3>6. next'[n] = next[n] /\ next'[pred[p]] = n
      BY <1>1, <1>2, <3>2, <3>4, <3>5 DEF InsertInv, FormInv
    <3>7. InsertInv(p, n)'
      BY <1>1, <1>2, <3>2, <3>3, <3>4, <3>6 DEF InsertInv
    <3>8. upd'[p][1].bundle = n
      BY <1>1, <3>1
    <3>9. InsertInv(p, upd[p][1].bundle)'
      BY <3>7, <3>8 DEF InsertInv, Inserted
    <3> QED
      BY <1>1, <2>1, <3>9 DEF WriteInv
  <2>2. CASE op[p].type = "erase"
    <3>1. EraseInv(p, upd[p][1].ptr)
      BY <1>1, <2>2, <1>2 DEF WriteInv
    <3>2. marked' = [marked EXCEPT ![curr[p]] = TRUE] /\ next' = next
      BY <2>2 DEF LinWrite
    <3>3. marked'[curr[p]] /\ marked'[pred[p]] = marked[pred[p]]
      BY <1>1, <1>2, <3>2 DEF FormInv
    <3>4. EraseInv(p, upd[p][1].ptr)'
      BY <1>1, <1>2, <3>1, <3>2, <3>3 DEF EraseInv
    <3> QED
      BY <1>1, <2>2, <3>4 DEF WriteInv
  <2> QED
    BY <1>2, <2>1, <2>2
<1> QED
  BY <1>3, <1>4, <1>5 DEF LocalInv

LEMMA UnlinkLocal ==
  ASSUME SInv, LInv, [Next]_vars, NEW p \in Procs, Frame(p), Unlink(p)
  PROVE  LocalInv(p)'
<1> USE DEF StoppedLPCs, UpdateLPCs, EraseLPCs, ReadLPCs
<1>1. /\ lpc[p] = "finalize" /\ lpc' = [lpc EXCEPT ![p] = "unlock"] /\ pc[p] = "unlock"
      /\ op[p].type = "erase" /\ next' = [next EXCEPT ![pred[p]] = next[curr[p]]]
      /\ UNCHANGED <<op, pred, curr, upd, pc, key, lock, alloc, marked>> /\ FormInv
  BY DEF Unlink, Goto, callVars, localVars, vars, LInv
<1>2. /\ CallInv(p) /\ LockInv(p) /\ WriteInv(p) /\ lpc'[p] = "unlock"
      /\ pred[p] \in Nodes /\ curr[p] \in Nodes /\ pred[p] # curr[p]
  <2>1. CallInv(p) /\ LockInv(p) /\ WriteInv(p)
    BY DEF LInv, LocalInv
  <2>2. lpc'[p] = "unlock"
    BY <1>1 DEF FormInv
  <2> QED
    BY <1>1, <2>1, <2>2, Neighbours
<1>3. CallInv(p)' /\ PcInv(p)' /\ LockInv(p)' /\ UnseenInv(p)' /\ EntryInv(p)'
  BY <1>1, <1>2 DEF CallInv, PcInv, LockInv, UnseenInv, EntryInv
<1>4. PlaceInv(p)'
  BY <1>1, <1>2, PlaceStays
<1>5. WriteInv(p)'
  <2>1. EraseInv(p, upd[p][1].ptr)
    BY <1>1, <1>2 DEF WriteInv
  <2>2. next'[pred[p]] = next[curr[p]] /\ next'[curr[p]] = next[curr[p]]
    BY <1>1, <1>2 DEF FormInv
  <2>3. EraseInv(p, upd[p][1].ptr)'
    BY <1>1, <1>2, <2>1, <2>2 DEF EraseInv
  <2> QED
    BY <1>1, <2>3 DEF WriteInv
<1> QED
  BY <1>3, <1>4, <1>5 DEF LocalInv

LEMMA UnlockLocal ==
  ASSUME SInv, LInv, [Next]_vars, NEW p \in Procs, Frame(p), UnlockFirst(p)
  PROVE  LocalInv(p)'
<1> USE DEF StoppedLPCs, UpdateLPCs, EraseLPCs, ReadLPCs
<1>1. /\ lpc[p] \in {"finalize", "unlock"} /\ lpc' = [lpc EXCEPT ![p] = "unlockPred"]
      /\ pc' = [pc EXCEPT ![p] = "idle"] /\ UNCHANGED <<op, pred, curr>> /\ FormInv
      /\ lock' = [lock EXCEPT ![IF op[p].type = "erase" THEN curr[p] ELSE upd[p][1].bundle] = NoProc]
  BY DEF UnlockFirst, EndUpdate, ReleaseLock, Goto, callVars, localVars, LInv
<1>2. /\ CallInv(p) /\ LockInv(p) /\ WriteInv(p) /\ lpc'[p] = "unlockPred" /\ pc'[p] = "idle"
      /\ op[p].type \in {"insert", "erase"}
      /\ pred[p] \in Nodes /\ curr[p] \in Nodes /\ pred[p] # curr[p]
  <2>1. CallInv(p) /\ LockInv(p) /\ WriteInv(p)
    BY DEF LInv, LocalInv
  <2>2. lpc'[p] = "unlockPred" /\ pc'[p] = "idle"
    BY <1>1 DEF FormInv, SInv, RInv, IInv, TypeOK
  <2> QED
    BY <1>1, <2>1, <2>2, Neighbours, OwnsNodes
<1>3. lock'[pred[p]] = p
  <2>1. lock[pred[p]] = p
    BY <1>1, <1>2 DEF LockInv
  <2>2. op[p].type = "insert" => upd[p][1].bundle # pred[p]
    <3>1. op[p].type = "insert" => InsertInv(p, upd[p][1].bundle)
      BY <1>1, <1>2 DEF WriteInv
    <3>2. key[pred[p]] < op[p].lo /\ key[pred[p]] \in Int
      BY <1>1, Neighbours
    <3> QED
      BY <3>1, <3>2 DEF InsertInv
  <2> QED
    BY <1>1, <1>2, <2>1, <2>2 DEF FormInv
<1>4. CallInv(p)' /\ PcInv(p)' /\ LockInv(p)'
  BY <1>1, <1>2, <1>3 DEF CallInv, PcInv, LockInv
<1>5. WriteInv(p)' /\ UnseenInv(p)' /\ EntryInv(p)'
  BY <1>2 DEF WriteInv, UnseenInv, EntryInv
<1>6. PlaceInv(p)'
  BY <1>1, <1>2, PlaceStays
<1> QED
  BY <1>4, <1>5, <1>6 DEF LocalInv

\* contains: what it follows are nodes.
LEMMA ContainsLocal ==
  ASSUME SInv, LInv, [Next]_vars, NEW p \in Procs, Frame(p), EnterNewest(p) \/ GetNext(p)
  PROVE  LocalInv(p)'
<1> USE DEF StoppedLPCs, UpdateLPCs, EraseLPCs, ReadLPCs
<1>1. /\ lpc[p] \in {"enter", "contains"} /\ UNCHANGED <<op, pred, curr>>
      /\ lpc' = [lpc EXCEPT ![p] = "contains"]
      /\ Get(p) \/ BeginGet(p, pred[p]) \/ BeginGet(p, out[p])
      /\ lpc \in [Procs -> {"idle", "search"} \cup StoppedLPCs]
  BY DEF EnterNewest, GetNext, Goto, callVars, localVars, LInv, FormInv
<1>2. CallInv(p) /\ lpc'[p] = "contains" /\ pc \in [Procs -> PCs]
  BY <1>1 DEF LInv, LocalInv, SInv, RInv, IInv, TypeOK
<1>3. pc'[p] \in GetPCs /\ (pc'[p] = "got" => out'[p] \in Nodes)
  <2>1. CASE BeginGet(p, pred[p]) \/ BeginGet(p, out[p])
    <3>1. pc'[p] = "get"
      BY <1>2, <2>1 DEF BeginGet
    <3> QED
      BY <3>1 DEF GetPCs
  <2>2. CASE Get(p)
    <3>1. /\ at[p] \in Bundles /\ cur[p] \in 1 .. Newest(bundle[at[p]])
          /\ bundle[at[p]] \in Bundle /\ bundle[at[p]].low = 1 /\ cur[p] # 0
          /\ out \in [Procs -> Ptrs \cup {NoPtr}]
      <4>1. pc[p] = "get" /\ ReaderInv /\ bundle \in [Bundles -> Bundle]
        BY <2>2 DEF Get, SInv, RInv, IInv, TypeOK
      <4>2. at[p] \in Bundles /\ cur[p] \in 0 .. Newest(bundle[at[p]]) /\ cur[p] # 0
        BY <4>1 DEF ReaderInv
      <4>3. Newest(bundle[at[p]]) \in Nat
        BY <4>1, <4>2, NewestNat
      <4> QED
        BY <4>1, <4>2, <4>3 DEF SInv, RInv, NothingFreed, IInv, TypeOK
    <3>2. ~Freed(at[p], cur[p])
      BY <3>1 DEF Freed
    <3>3. bundle[at[p]].entries[cur[p]].ptr \in Nodes
      BY <3>1, NewestNat, Basics
    <3>4. pc'[p] = "got" /\ out'[p] = bundle[at[p]].entries[cur[p]].ptr
      BY <1>2, <2>2, <3>1, <3>2 DEF Get, Return
    <3> QED
      BY <3>3, <3>4 DEF GetPCs
  <2> QED
    BY <1>1, <2>1, <2>2
<1>4. CallInv(p)' /\ PcInv(p)' /\ LockInv(p)' /\ WriteInv(p)' /\ EntryInv(p)'
  BY <1>1, <1>2, <1>3 DEF CallInv, PcInv, LockInv, WriteInv, EntryInv
<1>5. UnseenInv(p)'
  BY <1>3 DEF UnseenInv, GetPCs
<1>6. PlaceInv(p)'
  BY <1>1, <1>2, PlaceStays
<1> QED
  BY <1>4, <1>5, <1>6 DEF LocalInv

\* Range queries: the snapshot has the nodes they come to.
LEMMA AnnounceLocal ==
  ASSUME SInv, LInv, [Next]_vars, NEW p \in Procs, Frame(p), StartQuery(p)
  PROVE  LocalInv(p)'
<1> USE DEF StoppedLPCs, UpdateLPCs, EraseLPCs, ReadLPCs
<1>1. /\ lpc[p] = "announce" /\ UNCHANGED <<op, pred, curr>>
      /\ StartTraversal(p) \/ ReadClock(p) \/ Announce(p) \/ ClearFlag(p)
      /\ lpc' = [lpc EXCEPT ![p] = IF pc[p] = "clear" THEN "query" ELSE "announce"]
      /\ lpc \in [Procs -> {"idle", "search"} \cup StoppedLPCs]
  BY DEF StartQuery, AnnounceStep, Goto, callVars, localVars, LInv, FormInv
<1>2. /\ CallInv(p) /\ EntryInv(p) /\ ReadsWell(p) /\ pc \in [Procs -> PCs] /\ qts \in [Procs -> Nat]
      /\ clock \in Nat
  BY DEF LInv, LocalInv, SInv, RInv, ReadInv, IInv, TypeOK
<1>3. \/ pc'[p] = "clock" /\ lpc'[p] = "announce"
      \/ pc'[p] = "announce" /\ lpc'[p] = "announce" /\ qts'[p] = clock
      \/ /\ pc[p] = "announce" /\ pc'[p] = "clear" /\ lpc'[p] = "announce" /\ qts'[p] = qts[p]
      \/ /\ pc[p] = "clear" /\ pc'[p] = "query" /\ lpc'[p] = "query" /\ qts'[p] = qts[p]
         /\ at'[p] = at[p]
  BY <1>1, <1>2 DEF StartTraversal, ReadClock, Announce, ClearFlag, readVars
<1>4. CallInv(p)' /\ PcInv(p)' /\ LockInv(p)' /\ WriteInv(p)' /\ UnseenInv(p)'
  BY <1>1, <1>2, <1>3 DEF CallInv, PcInv, LockInv, WriteInv, UnseenInv, AnnouncePCs, LookupPCs
<1>5. PlaceInv(p)'
  BY <1>1, <1>3, PlaceStays
<1>6. PICK m \in Nodes : m = pred[p]
  BY DEF LInv, FormInv
<1>7. CASE pc'[p] = "clock"
  <2>1. lpc'[p] = "announce"
    BY <1>3, <1>7
  <2>2. EntryInv(p)'
    BY <1>7, <2>1 DEF EntryInv
  <2> QED
    BY <1>4, <1>5, <2>2 DEF LocalInv
<1>8. CASE qts'[p] = clock
  <2>1. ValueAt(m, clock) # NoPtr
    BY <1>1, <1>6, Neighbours DEF Inserted
  <2>2. PICK t : t = clock
    OBVIOUS
  <2>3. t \in FirstTS .. clock
    BY <2>2, PastHeld DEF FirstTS
  <2>4. ValueAt(m, t)' # NoPtr
    BY <2>1, <2>2, <2>3, PastHeld, Basics
  <2>5. ValueAt(pred[p], qts[p])' # NoPtr
    <3>1. m = pred'[p] /\ t = qts'[p]
      BY <1>1, <1>6, <1>8, <2>2
    <3> QED
      BY <2>4, <3>1, HeldNext
  <2>6. at'[p] = NoBundle \/ lpc'[p] # "query"
    <3>1. pc[p] = "clear" => at[p] = NoBundle
      BY <1>2 DEF ReadsWell, AnnouncePCs
    <3> QED
      BY <1>3, <3>1
  <2>7. EntryInv(p)'
    BY <2>5, <2>6 DEF EntryInv
  <2> QED
    BY <1>4, <1>5, <2>7 DEF LocalInv
<1>9. CASE pc[p] \in {"announce", "clear"} /\ qts'[p] = qts[p]
  <2>1. PICK t : t = qts[p] /\ t # NullTS
    BY <1>2, <1>9 DEF ReadsWell, QueryingPCs
  <2>2. ValueAt(m, t)' # NoPtr
    <3>1. ValueAt(m, t) # NoPtr
      BY <1>1, <1>2, <1>6, <1>9, <2>1 DEF EntryInv
    <3> QED
      BY <2>1, <3>1, EntriesHeld
  <2>3. ValueAt(pred[p], qts[p])' # NoPtr
    <3>1. m = pred'[p] /\ t = qts'[p]
      BY <1>1, <1>6, <1>9, <2>1
    <3> QED
      BY <2>2, <3>1, HeldNext
  <2>4. at'[p] = NoBundle \/ lpc'[p] # "query"
    <3>1. pc[p] = "clear" => at[p] = NoBundle
      BY <1>2 DEF ReadsWell, AnnouncePCs
    <3> QED
      BY <1>3, <3>1
  <2>5. EntryInv(p)'
    BY <2>3, <2>4 DEF EntryInv
  <2> QED
    BY <1>4, <1>5, <2>5 DEF LocalInv
<1> QED
  BY <1>3, <1>4, <1>5, <1>7, <1>8, <1>9 DEF LocalInv

LEMMA SnapshotLocal ==
  ASSUME SInv, LInv, [Next]_vars, NEW p \in Procs, Frame(p),
         EnterSnapshot(p) \/ ReadBundle(p) \/ Collect(p)
  PROVE  LocalInv(p)'
<1> USE DEF StoppedLPCs, UpdateLPCs, EraseLPCs, ReadLPCs
<1>1. /\ lpc[p] = "query" /\ UNCHANGED <<op, pred, curr, lpc, qts>>
      /\ LookupStep(p) \/ BeginLookup(p, pred[p]) \/ Collect(p)
  BY DEF EnterSnapshot, ReadBundle, Collect, callVars, localVars, BeginLookup, LookupStep,
         CheckFirst, LoadSecond, CheckSecond, AwaitLabel, Walk
<1>2. /\ CallInv(p) /\ PcInv(p) /\ EntryInv(p) /\ ReadsWell(p) /\ pc \in [Procs -> PCs]
      /\ at \in [Procs -> Bundles \cup {NoBundle}]
  BY DEF LInv, LocalInv, SInv, RInv, ReadInv, IInv, TypeOK
<1>3. pc'[p] \in {"query"} \cup LookupPCs
  BY <1>1, <1>2
  DEF LookupStep, Collect, BeginLookup, CheckFirst, LoadSecond, CheckSecond, AwaitLabel, Walk,
      Return, Continue, LookupPCs
<1>4. CallInv(p)' /\ PcInv(p)' /\ LockInv(p)' /\ WriteInv(p)' /\ UnseenInv(p)'
  BY <1>1, <1>2, <1>3 DEF CallInv, PcInv, LockInv, WriteInv, UnseenInv, LookupPCs
<1>5. PlaceInv(p)'
  BY <1>1, PlaceStays
<1>6. PICK t : t = qts[p] /\ t # NullTS /\ t = qts'[p]
  BY <1>1, <1>2 DEF ReadsWell, QueryingPCs, PcInv
<1>7. ValueAt(pred[p], qts[p])' # NoPtr
  <2>1. PICK m \in Nodes : m = pred[p] /\ ValueAt(m, t) # NoPtr
    BY <1>1, <1>2, <1>6 DEF EntryInv, LInv, FormInv
  <2>2. ValueAt(m, t)' # NoPtr /\ m = pred'[p]
    BY <1>1, <1>6, <2>1, EntriesHeld
  <2> QED
    BY <1>6, <2>2, HeldNext
<1>8. ASSUME at'[p] # NoBundle PROVE ValueAt(at[p], qts[p])' # NoPtr
  <2>1. PICK m : m = at'[p]
    OBVIOUS
  <2>2. m \in Nodes /\ ValueAt(m, t) # NoPtr
    <3>1. CASE LookupStep(p)
      <4>1. at'[p] = at[p]
        BY <3>1 DEF LookupStep, CheckFirst, LoadSecond, CheckSecond, AwaitLabel, Walk
      <4> QED
        BY <1>1, <1>2, <1>6, <1>8, <2>1, <4>1, Basics DEF EntryInv
    <3>2. CASE BeginLookup(p, pred[p])
      BY <1>2, <1>6, <2>1, <3>2 DEF BeginLookup, LInv, FormInv
    <3>3. CASE Collect(p)
      <4>1. out[p] \in Nodes
        BY <3>3, ReadNode DEF Collect
      <4> QED
        BY <1>2, <1>6, <2>1, <3>3, <4>1 DEF Collect, BeginLookup
    <3> QED
      BY <1>1, <3>1, <3>2, <3>3
  <2>3. ValueAt(m, t)' # NoPtr
    BY <1>6, <2>2, EntriesHeld
  <2> QED
    BY <1>6, <2>1, <2>3, HeldNext
<1>9. EntryInv(p)'
  BY <1>1, <1>7, <1>8 DEF EntryInv
<1> QED
  BY <1>4, <1>5, <1>9 DEF LocalInv

LEMMA OwnLocal ==
  ASSUME SInv, LInv, NEW p \in Procs, Call(p) \/ ListStep(p)
  PROVE  LocalInv(p)'
<1>1. [Next]_vars /\ Frame(p)
  BY StepIsNext, FrameHolds
<1>2. CASE BeginInsert(p) \/ BeginErase(p)
  BY <1>1, <1>2, BeginLocal, BeginInsertWrites, BeginEraseWrites DEF LocalInv
<1> QED
  BY <1>1, <1>2, SearchLocal, LockLocal, ReturnLocal, LabelLocal, LinWriteLocal, UnlinkLocal,
     UnlockLocal, ContainsLocal, AnnounceLocal, SnapshotLocal DEF ListStep

\* When nothing happens, all stays as it was.
LEMMA Stands ==
  ASSUME UNCHANGED vars, NEW b \in Bundles, NEW t
  PROVE  ValueAt(b, t)' = ValueAt(b, t)
<1>1. bundle' = bundle /\ owner' = owner /\ ts' = ts
  BY DEF vars
<1>2. Visible(b, t)' = Visible(b, t)
  BY <1>1 DEF Visible, Label
<1>3. VersionAt(b, t)' = VersionAt(b, t)
  BY <1>2 DEF VersionAt
<1> QED
  BY <1>1, <1>2, <1>3 DEF ValueAt

LEMMA LocalStands ==
  ASSUME SInv, LInv, UNCHANGED listVars, NEW q \in Procs
  PROVE  LocalInv(q)'
<1> USE DEF listVars, vars, nodeVars, callVars, localVars
<1>1. LocalInv(q) /\ FormInv /\ SInv /\ UNCHANGED vars /\ [Next]_vars
  BY DEF LInv
<1>2. CallInv(q)' /\ PcInv(q)' /\ LockInv(q)'
  BY <1>1 DEF LocalInv, CallInv, PcInv, LockInv
<1>3. \A n \in Nodes : Inserted(n) => Inserted(n)'
  BY <1>1, InsertedStays
<1>4. PlaceInv(q)'
  <2>1. PICK m \in Nodes : m = pred[q] /\ Inserted(m)
    BY <1>1 DEF LocalInv, PlaceInv, FormInv
  <2>2. PICK n \in Nodes : n = curr[q] /\ Inserted(n)
    BY <1>1 DEF LocalInv, PlaceInv, FormInv
  <2>3. Inserted(m)' /\ Inserted(n)'
    BY <1>3, <2>1, <2>2
  <2>4. Inserted(pred[q])'
    BY <2>1, <2>3 DEF Inserted
  <2>5. Inserted(curr[q])'
    BY <2>2, <2>3 DEF Inserted
  <2> QED
    BY <1>1, <2>4, <2>5 DEF LocalInv, PlaceInv
<1>5. WriteInv(q)'
  <2> SUFFICES ASSUME lpc[q] \in {"label", "finalize", "unlock"}
               PROVE  IF op[q].type = "insert" THEN InsertInv(q, upd[q][1].bundle)'
                      ELSE EraseInv(q, upd[q][1].ptr)'
    BY DEF WriteInv
  <2>1. CASE op[q].type = "insert"
    <3>1. PICK n : n = upd[q][1].bundle
      OBVIOUS
    <3>2. InsertInv(q, n)
      BY <1>1, <2>1, <3>1 DEF LocalInv, WriteInv
    <3>3. lpc[q] = "finalize" => Inserted(n)'
      BY <1>1, <1>3, <3>2 DEF InsertInv, FormInv
    <3>4. InsertInv(q, n)'
      BY <3>2, <3>3 DEF InsertInv
    <3>5. InsertInv(q, upd[q][1].bundle)'
      BY <3>1, <3>4 DEF InsertInv, Inserted
    <3> QED
      BY <2>1, <3>5
  <2>2. CASE op[q].type # "insert"
    <3>1. EraseInv(q, upd[q][1].ptr)
      BY <1>1, <2>2 DEF LocalInv, WriteInv
    <3>2. EraseInv(q, upd[q][1].ptr)'
      BY <3>1 DEF EraseInv
    <3> QED
      BY <2>2, <3>2
  <2> QED
    BY <2>1, <2>2
<1>6. ASSUME NEW m \in Nodes, NEW t, NEW v, ValueAt(m, t) = v PROVE ValueAt(m, t)' = v
  BY <1>1, <1>6, Stands, Basics
<1>7. UnseenInv(q)'
  <2> SUFFICES ASSUME pc[q] \in {"prepare", "load"}
               PROVE  /\ ValueAt(pred[q], LastTS)' = curr[q]
                      /\ op[q].type = "erase" => ValueAt(curr[q], LastTS)' = upd[q][1].ptr
                      /\ op[q].type = "insert" => ValueAt(upd[q][1].bundle, LastTS)' = NoPtr
    BY DEF UnseenInv
  <2>1. UnseenInv(q) /\ lpc[q] = "label" /\ pred[q] \in Nodes /\ curr[q] \in Nodes
    BY <1>1, Labelling DEF LocalInv, FormInv
  <2>2. ValueAt(pred[q], LastTS)' = curr[q]
    <3>1. PICK m \in Nodes : m = pred[q] /\ ValueAt(m, LastTS) = curr[q]
      BY <2>1 DEF UnseenInv
    <3>2. ValueAt(m, LastTS)' = curr[q]
      BY <1>6, <3>1
    <3> QED
      BY <3>1, <3>2 DEF ValueAt, VersionAt, Visible, Label
  <2>3. ASSUME op[q].type = "erase" PROVE ValueAt(curr[q], LastTS)' = upd[q][1].ptr
    <3>1. PICK c \in Nodes : c = curr[q] /\ ValueAt(c, LastTS) = upd[q][1].ptr
      BY <2>1, <2>3 DEF UnseenInv
    <3>2. ValueAt(c, LastTS)' = upd[q][1].ptr
      BY <1>6, <3>1
    <3> QED
      BY <3>1, <3>2 DEF ValueAt, VersionAt, Visible, Label
  <2>4. ASSUME op[q].type = "insert" PROVE ValueAt(upd[q][1].bundle, LastTS)' = NoPtr
    <3>1. PICK n \in Nodes : n = upd[q][1].bundle /\ ValueAt(n, LastTS) = NoPtr
      <4>1. upd[q][1].bundle \in Nodes
        BY <2>1, <2>4, OwnsNodes
      <4> QED
        BY <2>1, <2>4, <4>1 DEF UnseenInv
    <3>2. ValueAt(n, LastTS)' = NoPtr
      BY <1>6, <3>1
    <3> QED
      BY <3>1, <3>2 DEF ValueAt, VersionAt, Visible, Label
  <2> QED
    BY <2>2, <2>3, <2>4
<1>8. EntryInv(q)'
  <2>1. EntryInv(q) /\ pred[q] \in Nodes /\ at[q] \in Nodes \cup {NoBundle}
    BY <1>1, Basics DEF LocalInv, FormInv, SInv, RInv, IInv, TypeOK
  <2>2. PICK t : t = qts[q]
    OBVIOUS
  <2>3. \A m \in Nodes : ValueAt(m, t) # NoPtr => ValueAt(m, t)' # NoPtr
    BY <1>1, Stands, Basics
  <2>4. ValueAt(pred[q], qts[q]) # NoPtr => ValueAt(pred[q], qts[q])' # NoPtr
    <3>1. PICK m \in Nodes : m = pred[q]
      BY <2>1
    <3> QED
      BY <2>2, <2>3, <3>1, HeldNext
  <2>5. at[q] # NoBundle /\ ValueAt(at[q], qts[q]) # NoPtr => ValueAt(at[q], qts[q])' # NoPtr
    <3>1. SUFFICES ASSUME at[q] # NoBundle, ValueAt(at[q], qts[q]) # NoPtr
                   PROVE  ValueAt(at[q], qts[q])' # NoPtr
      OBVIOUS
    <3>2. PICK m \in Nodes : m = at[q]
      BY <2>1, <3>1
    <3> QED
      BY <2>2, <2>3, <3>1, <3>2, HeldNext
  <2> QED
    BY <2>1, <2>4, <2>5 DEF EntryInv
<1> QED
  BY <1>2, <1>4, <1>5, <1>7, <1>8 DEF LocalInv

LEMMA NextList ==
  ASSUME SInv, LInv, [ListNext]_listVars
  PROVE  SInv' /\ LInv' /\ [Next]_vars
<1>1. ASSUME NEW p \in Procs, Call(p) \/ ListStep(p) PROVE SInv' /\ LInv' /\ [Next]_vars
  <2>1. [Next]_vars /\ Frame(p)
    BY <1>1, StepIsNext, FrameHolds
  <2>2. SInv'
    BY <2>1, NextStore, Basics
  <2>3. \A q \in Procs : LocalInv(q)'
    BY <1>1, <2>1, OwnLocal, Others
  <2>4. FormInv' /\ LinkInv' /\ ListInv'
    BY <1>1, FormHolds, LinkHolds, ListHolds
  <2> QED
    BY <2>1, <2>2, <2>3, <2>4 DEF LInv
<1>2. CASE UNCHANGED listVars
  <2>1. UNCHANGED vars
    BY <1>2 DEF listVars
  <2>2. SInv'
    BY <2>1, NextStore, Basics
  <2>3. PICK p \in Procs : Frame(p)
    <3>1. 1 \in Procs
      BY ProcsAssumption DEF Procs
    <3>2. Frame(1)
      BY <1>2 DEF Frame, listVars, vars, nodeVars, callVars, localVars
    <3> QED
      BY <3>1, <3>2
  <2>4. FormInv'
    BY <1>2 DEF listVars, nodeVars, callVars, localVars, LInv, FormInv
  <2>5. LinkInv'
    <3>1. UNCHANGED <<next, marked, alloc, owner>>
      BY <1>2 DEF listVars, vars, nodeVars
    <3>2. \A n \in {MaxNode} \cup (Nodes \ alloc) : owner'[n] = NoProc
      BY <3>1 DEF LInv, LinkInv
    <3> QED
      BY <2>1, <2>3, <3>1, <3>2, LinksStay
  <2>6. ListInv'
    <3>1. ~\E q \in Updaters : LoadTS(q)
      BY <2>1, Basics DEF LoadTS, vars, SInv, RInv, IInv, TypeOK
    <3> QED
      BY <1>2, <2>1, <3>1, ListKept DEF listVars, nodeVars
  <2>7. LInv'
    BY <1>2, <2>4, <2>5, <2>6, LocalStands DEF LInv
  <2> QED
    BY <2>1, <2>2, <2>7
<1> QED
  BY <1>1, <1>2 DEF ListNext, Done

-----------------------------------------------------------------------------
(***************************************************************************)
(* The constructor leaves the list in order.                               *)
(***************************************************************************)
LEMMA InitValue ==
  ASSUME Init, NEW n \in Nodes, NEW t \in FirstTS .. InitClock
  PROVE  ValueAt(n, t) = InitLink(n, t)
<1>1. /\ bundle = InitBundle /\ owner = [b \in Bundles |-> NoProc] /\ n \in Bundles
      /\ t < Pending /\ InitClock < Pending /\ InitClock \in Nat /\ Pending \in Nat
  BY Basics, ClockAssumption, PendingAssumption DEF Init, FirstTS
<1> DEFINE e == InitBundle[n].entries
           seen == {i \in 1 .. Len(e) : e[i].ts <= t}
<1>2. \A i \in 1 .. Len(e) : e[i].ts \in FirstTS .. InitClock
  BY <1>1, InitAssumption
<1>3. \A i \in 1 .. Len(e) : Label(n, i) = e[i].ts
  BY <1>1, <1>2 DEF Label, IsPending, FirstTS
<1>4. Visible(n, t) = seen
  BY <1>1, <1>3 DEF Visible, Newest
<1>5. VersionAt(n, t) = CHOOSE i \in seen : \A j \in seen : j <= i
  BY <1>4, Zenon DEF VersionAt
<1>6. bundle[n].entries = e
  BY <1>1
<1>7. InitLink(n, t) = IF seen = {} THEN NoPtr
                       ELSE e[CHOOSE i \in seen : \A j \in seen : j <= i].ptr
  BY Zenon DEF InitLink
<1> HIDE DEF e, seen
<1> QED
  BY <1>4, <1>5, <1>6, <1>7 DEF ValueAt

LEMMA InitList ==
  ASSUME ListInit
  PROVE  SInv /\ LInv
<1>1. /\ Init /\ SInv /\ IInv /\ bundle = InitBundle /\ clock = InitClock
      /\ owner = [b \in Bundles |-> NoProc] /\ pc = [p \in Procs |-> "idle"]
  <2>1. Init /\ SInv
    BY InitStore DEF ListInit
  <2> QED
    BY <2>1 DEF Init, SInv, RInv
<1>2. /\ key = InitKey /\ next = [n \in Nodes |-> NewestPtr(InitBundle[n])]
      /\ lock = [n \in Nodes |-> NoProc] /\ marked = [n \in Nodes |-> FALSE]
      /\ alloc = {MaxNode} \cup {n \in Nodes : Newest(InitBundle[n]) # 0}
      /\ lpc = [p \in Procs |-> "idle"] /\ todo \in Workloads
      /\ op = [p \in Procs |-> [type |-> "none"]]
      /\ pred = [p \in Procs |-> HeadNode] /\ curr = [p \in Procs |-> HeadNode]
  BY DEF ListInit
<1>3. /\ Bundles = Nodes /\ Ptrs = Nodes /\ HeadNode \in Nodes /\ MaxNode \in Nodes
      /\ NoPtr \notin Nodes /\ clock \in Nat /\ FirstTS <= clock /\ clock <= LastTS
      /\ LastTS \in Int /\ FirstTS \in Nat /\ clock \in FirstTS .. InitClock
  BY <1>1, Basics, PendingAssumption, ClockAssumption DEF IInv, TypeOK, UInv, ClockInv, LastTS, FirstTS
<1>4. ASSUME NEW n \in Nodes
      PROVE  /\ Newest(InitBundle[n]) \in Nat
             /\ next[n] = ValueAt(n, clock) /\ NewestPtr(bundle[n]) = next[n]
             /\ Newest(InitBundle[n]) = 0 => next[n] = NoPtr
             /\ Newest(InitBundle[n]) # 0 => next[n] \in Nodes \ {HeadNode}
             /\ \A t \in (clock + 1) .. LastTS : ValueAt(n, t) = ValueAt(n, clock)
  <2>1. owner[n] = NoProc
    BY <1>1, <1>3
  <2>2. ValueAt(n, clock) = NewestPtr(bundle[n]) /\ ValueAt(n, LastTS) = NewestPtr(bundle[n])
    BY <1>1, <1>3, <2>1, IdleLink
  <2>3. next[n] = NewestPtr(bundle[n])
    BY <1>1, <1>2
  <2>4. InitBundle[n] \in Bundle
    BY <1>3, InitAssumption
  <2>5. /\ Newest(InitBundle[n]) \in Nat
        /\ \A i \in 1 .. Newest(InitBundle[n]) : InitBundle[n].entries[i].ptr \in Nodes \ {HeadNode}
    <3>1. \A i \in 1 .. Len(InitBundle[n].entries) : InitBundle[n].entries[i].ptr # HeadNode
      BY InitListAssumption
    <3> QED
      BY <1>3, <2>4, <3>1, NewestNat DEF Newest
  <2>6. \A t \in (clock + 1) .. LastTS : ValueAt(n, t) = ValueAt(n, LastTS)
    BY <1>1, <1>3, FutureAlike
  <2> QED
    BY <1>1, <2>2, <2>3, <2>5, <2>6 DEF NewestPtr
<1>5. ASSUME NEW t \in FirstTS .. InitClock
      PROVE  SortedLinks(key, [n \in Nodes |-> ValueAt(n, t)])
  <2>1. [n \in Nodes |-> ValueAt(n, t)] = [n \in Nodes |-> InitLink(n, t)]
    BY <1>1, InitValue
  <2>2. SortedLinks(InitKey, [n \in Nodes |-> InitLink(n, t)])
    BY InitListAssumption
  <2> QED
    BY <1>2, <2>1, <2>2
<1>6. ListInv
  <2> SUFFICES ASSUME NEW t \in FirstTS .. LastTS
               PROVE  SortedLinks(key, [n \in Nodes |-> ValueAt(n, t)])
    BY DEF ListInv
  <2>1. CASE t <= clock
    <3>1. t \in FirstTS .. InitClock
      BY <1>1, <1>3, <2>1
    <3> QED
      BY <1>5, <3>1
  <2>2. CASE ~(t <= clock)
    <3>1. t \in (clock + 1) .. LastTS
      BY <1>3, <2>2
    <3>2. [n \in Nodes |-> ValueAt(n, t)] = [n \in Nodes |-> ValueAt(n, clock)]
      BY <1>4, <3>1
    <3>3. SortedLinks(key, [n \in Nodes |-> ValueAt(n, clock)])
      BY <1>3, <1>5
    <3> QED
      BY <3>2, <3>3
  <2> QED
    BY <2>1, <2>2
<1>7. PICK f : f = [n \in Nodes |-> ValueAt(n, clock)]
  OBVIOUS
<1>8. SortedLinks(key, f)
  BY <1>3, <1>5, <1>7
<1>9. \A n \in Nodes : f[n] = ValueAt(n, clock) /\ f[n] = next[n]
  BY <1>4, <1>7
<1>10. \A n \in Listed(f) : n \in alloc /\ Inserted(n)
  <2> SUFFICES ASSUME NEW n \in Listed(f) PROVE n \in alloc /\ Inserted(n)
    OBVIOUS
  <2>1. CASE n = MaxNode
    BY <1>2, <2>1 DEF Inserted
  <2>2. CASE n # MaxNode
    <3>1. n \in Nodes /\ f[n] # NoPtr
      BY <2>2 DEF Listed
    <3> QED
      BY <1>2, <1>4, <1>9, <3>1 DEF Inserted
  <2> QED
    BY <2>1, <2>2
<1>11. HeadNode \in alloc /\ Inserted(HeadNode)
  BY <1>8, <1>10, SortedProps
<1>12. FormInv
  <2>1. todo \in [Procs -> Seq(Operation)]
    BY <1>2, ListAssumption
  <2>2. next \in [Nodes -> Nodes \cup {NoPtr}]
    BY <1>2, <1>4
  <2>3. key \in [Nodes -> SetKeys \cup {InitKey[HeadNode], InitKey[MaxNode]}]
    BY <1>2, KeysAssumption
  <2>4. alloc \subseteq Nodes /\ MaxNode \in alloc
    BY <1>2, <1>3
  <2>5. /\ lock \in [Nodes -> Procs \cup {NoProc}] /\ marked \in [Nodes -> BOOLEAN]
        /\ pred \in [Procs -> Nodes] /\ curr \in [Procs -> Nodes]
        /\ lpc \in [Procs -> {"idle", "search"} \cup StoppedLPCs]
        /\ op \in [Procs -> Operation \cup {[type |-> "none"]}]
    BY <1>2, <1>3
  <2> QED
    BY <1>2, <1>11, <2>1, <2>2, <2>3, <2>4, <2>5 DEF FormInv
<1>13. LinkInv
  <2>1. ASSUME NEW n \in alloc \ {MaxNode} PROVE LinkOf(n)
    <3>1. n \in Nodes /\ Newest(InitBundle[n]) # 0
      BY <1>2
    <3>2. next[n] \in Nodes \ {HeadNode} /\ NewestPtr(bundle[n]) = next[n] /\ ~marked[n]
      BY <1>2, <1>4, <3>1
    <3>3. n \in Listed(f) /\ f[n] = next[n]
      BY <1>3, <1>9, <3>1, <3>2 DEF Listed
    <3>4. next[n] \in Listed(f) /\ key[n] < key[next[n]]
      BY <1>8, <3>3, SortedProps
    <3> QED
      BY <1>10, <3>2, <3>4 DEF LinkOf
  <2>2. \A n \in {MaxNode} \cup (Nodes \ alloc) :
           Newest(bundle[n]) = 0 /\ owner[n] = NoProc /\ ~marked[n]
    <3>1. Newest(bundle[MaxNode]) = 0
      BY <1>1, InitListAssumption DEF Newest
    <3> QED
      BY <1>1, <1>2, <1>3, <3>1
  <2> QED
    BY <2>1, <2>2 DEF LinkInv
<1>14. ASSUME NEW p \in Procs PROVE LocalInv(p)
  <2>1. lpc[p] = "idle" /\ pc[p] = "idle" /\ pred[p] = HeadNode /\ curr[p] = HeadNode
    BY <1>1, <1>2
  <2> USE DEF StoppedLPCs, UpdateLPCs, EraseLPCs, ReadLPCs
  <2>2. CallInv(p) /\ PcInv(p)
    BY <2>1 DEF CallInv, PcInv
  <2>3. PlaceInv(p)
    BY <1>11, <2>1 DEF PlaceInv
  <2>4. LockInv(p) /\ WriteInv(p) /\ UnseenInv(p) /\ EntryInv(p)
    BY <2>1 DEF LockInv, WriteInv, UnseenInv, EntryInv
  <2> QED
    BY <2>2, <2>3, <2>4 DEF LocalInv
<1> QED
  BY <1>1, <1>6, <1>12, <1>13, <1>14 DEF LInv

LEMMA ListInvariant == ListSpec => [](SInv /\ LInv)
<1>1. ListInit => SInv /\ LInv
  BY InitList
<1>2. (SInv /\ LInv) /\ [ListNext]_listVars => (SInv /\ LInv)'
  BY NextList
<1> QED
  BY <1>1, <1>2, PTL DEF ListSpec

-----------------------------------------------------------------------------
(***************************************************************************)
(* The theorems.                                                           *)
(***************************************************************************)

\* The list calls the provider in the order the provider expects, and asks it
\* only for updates of nodes it has locked and for nodes its snapshots have:
\* what is proved of the provider holds of the list.
THEOREM ListUsesProvider == ListSpec => Spec
<1>1. ListInit => Init
  BY DEF ListInit
<1>2. (SInv /\ LInv) /\ [ListNext]_listVars => [Next]_vars
  BY NextList
<1> QED
  BY <1>1, <1>2, ListInvariant, PTL DEF ListSpec, Spec

\* Whoever changes the bundle of a node of the list has locked the node.
THEOREM OwnersLock == ListSpec => []OwnersHoldLocks
<1>1. SInv /\ LInv => OwnersHoldLocks
  <2> SUFFICES ASSUME SInv, LInv, NEW n \in Nodes, owner[n] # NoProc
               PROVE  lock[n] = owner[n]
    BY DEF OwnersHoldLocks
  <2>1. PICK q \in Updaters : q = owner[n] /\ q \in Procs /\ n \in Bundles
    BY Basics DEF SInv, RInv, IInv, TypeOK
  <2>2. n \in BundlesOf(upd[q]) /\ upd[q] # <<>>
    <3>1. n \in BundlesOf(upd[q])
      BY <2>1 DEF SInv, RInv, IInv, UInv, OwnerInv
    <3> QED
      BY <3>1 DEF BundlesOf
  <2>3. pc[q] \in UpdatePCs
    BY <2>1, <2>2 DEF SInv, RInv, IInv, UInv, UpdateInv
  <2>4. lpc[q] \in {"label", "finalize", "unlock"}
    <3>1. lpc[q] \in {"idle", "search"} \cup StoppedLPCs /\ PcInv(q)
      BY <2>1 DEF LInv, LocalInv, FormInv
    <3> QED
      BY <2>3, <3>1 DEF PcInv, UpdatePCs, GetPCs, AnnouncePCs, LookupPCs
  <2>5. /\ LockInv(q) /\ WriteInv(q) /\ op[q].type \in {"insert", "erase"}
        /\ op[q].type = "erase" => BundlesOf(upd[q]) = {pred[q], curr[q]}
        /\ op[q].type = "insert" => BundlesOf(upd[q]) = {pred[q], upd[q][1].bundle}
    BY <2>1, <2>4, OwnsNodes DEF LInv, LocalInv
  <2>6. lock[pred[q]] = q
    BY <2>4, <2>5 DEF LockInv, UpdateLPCs
  <2>7. op[q].type = "erase" => lock[curr[q]] = q
    BY <2>4, <2>5 DEF LockInv
  <2>8. op[q].type = "insert" => lock[upd[q][1].bundle] = q
    BY <2>4, <2>5 DEF WriteInv, InsertInv
  <2> QED
    BY <2>1, <2>2, <2>5, <2>6, <2>7, <2>8
<1> QED
  BY <1>1, ListInvariant, PTL

\* The raw link and the newest entry of the bundle of a node that nobody has
\* locked are the same, unless the node has been erased.
THEOREM UnlockedLinksMatch == ListSpec => []LinksMatchBundles
<1>1. SInv /\ LInv /\ OwnersHoldLocks => LinksMatchBundles
  <2> SUFFICES ASSUME LInv, OwnersHoldLocks, NEW n \in alloc \ {MaxNode},
                      lock[n] = NoProc, ~marked[n]
               PROVE  next[n] = NewestPtr(bundle[n])
    BY DEF LinksMatchBundles
  <2>1. owner[n] = NoProc
    BY DEF OwnersHoldLocks, LInv, FormInv
  <2> QED
    BY <2>1 DEF LInv, LinkInv, LinkOf
<1> QED
  BY <1>1, ListInvariant, OwnersLock, PTL

\* The fields of the nodes and the local pointers have their types, and every
\* raw link and local pointer leads to a node in use.
THEOREM ListTypes == ListSpec => []ListTypeOK
<1>1. SInv /\ LInv => ListTypeOK
  <2> SUFFICES ASSUME LInv PROVE ListTypeOK
    OBVIOUS
  <2>1. \A n \in alloc \ {MaxNode} : next[n] \in alloc
    BY DEF LInv, LinkInv, LinkOf
  <2>2. \A p \in Procs : pred[p] \in alloc /\ curr[p] \in alloc
    BY DEF LInv, LocalInv, PlaceInv
  <2> QED
    BY <2>1, <2>2 DEF LInv, FormInv, ListTypeOK
<1> QED
  BY <1>1, ListInvariant, PTL

\* The asserts on getPtrByTimestamp: the snapshot of a range query has the node
\* the search ended at and every node it has been led to.
THEOREM EntriesFound == ListSpec => []EntryFound
<1>1. SInv /\ LInv => EntryFound
  <2> SUFFICES ASSUME SInv, LInv, NEW p \in Procs, lpc[p] = "query", pc[p] = "query"
               PROVE  IF at[p] = NoBundle THEN ValueAt(pred[p], qts[p]) # NoPtr
                      ELSE out[p] # MaxNode => ValueAt(out[p], qts[p]) # NoPtr
    BY DEF EntryFound
  <2>1. CASE at[p] = NoBundle
    BY <2>1 DEF LInv, LocalInv, EntryInv
  <2>2. CASE at[p] # NoBundle
    <3>1. PICK t \in FirstTS .. clock : t = qts[p]
      BY <2>2, ReadNode
    <3>2. PICK f : f = [n \in Nodes |-> ValueAt(n, t)]
      OBVIOUS
    <3>3. SortedLinks(key, f)
      <4>1. clock <= LastTS /\ clock \in Nat /\ LastTS \in Int
        BY PendingAssumption DEF SInv, RInv, IInv, TypeOK, UInv, ClockInv, LastTS
      <4>2. t \in FirstTS .. LastTS
        BY <3>1, <4>1 DEF FirstTS
      <4> QED
        BY <3>2, <4>2 DEF LInv, ListInv
    <3>4. at[p] \in Nodes /\ out[p] \in Nodes /\ f[at[p]] = out[p]
      BY <2>2, <3>1, <3>2, ReadNode
    <3>5. ASSUME out[p] # MaxNode PROVE f[out[p]] # NoPtr
      <4>1. CASE out[p] = HeadNode
        BY <3>3, <3>5, <4>1, SortedProps DEF Listed
      <4>2. CASE out[p] # HeadNode
        <5>1. at[p] # MaxNode => at[p] \in Listed(f) \ {MaxNode}
          BY <3>4, <4>2, Basics DEF Listed
        <5>2. at[p] # MaxNode => out[p] \in Listed(f)
          BY <3>3, <3>4, <5>1, SortedProps
        <5>3. at[p] # MaxNode
          <6>1. Visible(MaxNode, t) = {}
            BY DEF LInv, LinkInv, Visible
          <6>2. ValueAt(MaxNode, t) = NoPtr
            BY <6>1 DEF ValueAt
          <6> QED
            BY <3>1, <2>2, <6>2 DEF LInv, LocalInv, EntryInv
        <5> QED
          BY <3>5, <5>2, <5>3 DEF Listed
      <4> QED
        BY <4>1, <4>2
    <3> QED
      BY <2>2, <3>1, <3>2, <3>4, <3>5
  <2> QED
    BY <2>1, <2>2
<1> QED
  BY <1>1, ListInvariant, PTL

-----------------------------------------------------------------------------
(***************************************************************************)
(* The list that the links hold.                                           *)
(***************************************************************************)
\* g goes from the head along the links.
Follows(g, links, n) ==
  /\ g \in [0 .. n -> Listed(links)] /\ g[0] = HeadNode
  /\ \A i \in 1 .. n : g[i] = IF g[i - 1] = MaxNode THEN MaxNode ELSE links[g[i - 1]]

LEMMA WalkExists ==
  ASSUME NEW k, NEW links, SortedLinks(k, links), NEW n \in Nat
  PROVE  \E g : Follows(g, links, n)
<1> DEFINE S == {i \in 0 .. n : \E g : Follows(g, links, i)}
<1>1. 0 \in S
  <2>1. Follows([i \in 0 .. 0 |-> HeadNode], links, 0)
    BY SortedProps DEF Follows
  <2> QED
    BY <2>1
<1>2. ASSUME NEW i \in 0 .. n - 1, i \in S PROVE i + 1 \in S
  <2>1. PICK g : Follows(g, links, i)
    BY <1>2
  <2>2. g[i] \in Listed(links) /\ MaxNode \in Listed(links)
    BY <2>1 DEF Follows, Listed
  <2> DEFINE m == IF g[i] = MaxNode THEN MaxNode ELSE links[g[i]]
             h == [j \in 0 .. i + 1 |-> IF j = i + 1 THEN m ELSE g[j]]
  <2>3. m \in Listed(links)
    BY <2>2, SortedProps
  <2> HIDE DEF m
  <2>4. h \in [0 .. i + 1 -> Listed(links)] /\ h[0] = HeadNode
    BY <2>1, <2>3 DEF Follows
  <2>5. ASSUME NEW j \in 1 .. i + 1
        PROVE  h[j] = IF h[j - 1] = MaxNode THEN MaxNode ELSE links[h[j - 1]]
    <3>1. CASE j = i + 1
      <4>1. h[j] = m /\ h[j - 1] = g[i]
        BY <3>1
      <4> QED
        BY <4>1 DEF m
    <3>2. CASE j # i + 1
      <4>1. j \in 1 .. i /\ h[j] = g[j] /\ h[j - 1] = g[j - 1]
        BY <3>2
      <4> QED
        BY <2>1, <4>1 DEF Follows
    <3> QED
      BY <3>1, <3>2
  <2> HIDE DEF h
  <2>6. Follows(h, links, i + 1)
    BY <2>4, <2>5 DEF Follows
  <2> QED
    BY <2>6
<1> HIDE DEF S
<1>3. 0 .. n \subseteq S
  BY <1>1, <1>2, CountsUp
<1> QED
  BY <1>3 DEF S

\* Along the links the keys increase, so that no node comes twice and the walk
\* has reached max after as many steps as there are nodes.
LEMMA WalkEnds ==
  ASSUME NEW k, NEW links, SortedLinks(k, links), \A n \in Nodes : k[n] \in Int,
         NEW g, Follows(g, links, Cardinality(Nodes))
  PROVE  /\ g[Cardinality(Nodes)] = MaxNode
         /\ \A i \in 1 .. Cardinality(Nodes) : g[i - 1] # MaxNode => k[g[i - 1]] < k[g[i]]
<1> DEFINE n == Cardinality(Nodes)
<1>1. n \in Nat /\ IsFiniteSet(Nodes) /\ Listed(links) \subseteq Nodes
  BY ListAssumption, FS_CardinalityType DEF Listed
<1> HIDE DEF n
<1>2. g \in [0 .. n -> Nodes] /\ \A i \in 0 .. n : g[i] \in Listed(links)
  BY <1>1 DEF Follows, n
<1>3. ASSUME NEW i \in 1 .. n
      PROVE  /\ g[i - 1] = MaxNode => g[i] = MaxNode
             /\ g[i - 1] # MaxNode => k[g[i - 1]] < k[g[i]]
  <2>1. g[i] = IF g[i - 1] = MaxNode THEN MaxNode ELSE links[g[i - 1]]
    BY <1>1 DEF Follows, n
  <2>2. g[i - 1] \in Listed(links)
    BY <1>1, <1>2
  <2> QED
    BY <2>1, <2>2, SortedProps
<1>4. ASSUME g[n] # MaxNode PROVE FALSE
  <2>1. ASSUME NEW i \in 0 .. n PROVE g[i] # MaxNode
    <3> SUFFICES ASSUME g[i] = MaxNode PROVE FALSE
      OBVIOUS
    <3> DEFINE S == {d \in 0 .. n - i : g[i + d] = MaxNode}
    <3>1. 0 \in S
      BY <1>1
    <3>2. ASSUME NEW d \in 0 .. (n - i) - 1, d \in S PROVE d + 1 \in S
      <4>1. i + d + 1 \in 1 .. n /\ (i + d + 1) - 1 = i + d
        BY <1>1
      <4>2. g[i + d + 1] = MaxNode
        BY <1>3, <3>2, <4>1
      <4> QED
        BY <1>1, <4>2
    <3>3. n - i \in Nat /\ i + (n - i) = n
      BY <1>1
    <3> HIDE DEF S
    <3>4. n - i \in S
      BY <3>1, <3>2, <3>3, CountsUp
    <3> QED
      BY <1>4, <3>3, <3>4 DEF S
  <2>2. ASSUME NEW i \in 0 .. n, NEW j \in 0 .. n, i < j PROVE g[i] # g[j]
    <3> DEFINE S == {d \in 0 .. (j - i) - 1 : k[g[i]] < k[g[i + d + 1]]}
    <3>1. 0 \in S
      <4>1. i + 1 \in 1 .. n /\ (i + 1) - 1 = i
        BY <1>1, <2>2
      <4> QED
        BY <1>1, <1>3, <2>1, <2>2, <4>1
    <3>2. ASSUME NEW d \in 0 .. ((j - i) - 1) - 1, d \in S PROVE d + 1 \in S
      <4>1. /\ i + d + 2 \in 1 .. n /\ (i + d + 2) - 1 = i + d + 1 /\ i + d + 1 \in 0 .. n
            /\ i + (d + 1) + 1 = i + d + 2 /\ d + 1 \in 0 .. (j - i) - 1
        BY <1>1, <2>2
      <4>2. k[g[i + d + 1]] < k[g[i + d + 2]]
        BY <1>3, <2>1, <4>1
      <4>3. k[g[i]] < k[g[i + d + 1]]
        BY <3>2
      <4>4. k[g[i]] \in Int /\ k[g[i + d + 1]] \in Int /\ k[g[i + d + 2]] \in Int
        BY <1>2, <4>1
      <4>5. k[g[i]] < k[g[i + d + 2]]
        BY <4>2, <4>3, <4>4
      <4> QED
        BY <4>1, <4>5
    <3>3. (j - i) - 1 \in Nat /\ i + ((j - i) - 1) + 1 = j
      BY <2>2
    <3> HIDE DEF S
    <3>4. (j - i) - 1 \in S
      BY <3>1, <3>2, <3>3, CountsUp
    <3>5. k[g[i]] < k[g[j]]
      BY <3>3, <3>4 DEF S
    <3>6. k[g[i]] \in Int
      BY <1>2
    <3> QED
      BY <3>5, <3>6
  <2>3. IsFiniteSet(0 .. n) /\ Cardinality(0 .. n) = n + 1
    <3>1. 0 \in Int /\ n \in Int /\ ~(0 > n)
      BY <1>1
    <3> QED
      BY <3>1, FS_Interval
  <2>4. PICK x \in 0 .. n, y \in 0 .. n : x # y /\ g[x] = g[y]
    <3>1. Cardinality(Nodes) < Cardinality(0 .. n)
      BY <1>1, <2>3 DEF n
    <3> QED
      BY <1>1, <1>2, <2>3, <3>1, FS_PigeonHole
  <2>5. x < y \/ y < x
    BY <2>4
  <2> QED
    BY <2>2, <2>4, <2>5
<1> QED
  BY <1>3, <1>4 DEF n

\* The path of a snapshot follows its links.
LEMMA PathFollows ==
  ASSUME NEW k, NEW t, SortedLinks(k, [m \in Nodes |-> ValueAt(m, t)])
  PROVE  Follows(PathAt(t), [m \in Nodes |-> ValueAt(m, t)], Cardinality(Nodes))
<1> DEFINE n == Cardinality(Nodes)
           f == [m \in Nodes |-> ValueAt(m, t)]
           Body(g) == [i \in 0 .. n |->
                         IF i = 0 THEN HeadNode
                         ELSE LET m == g[i - 1]
                              IN  IF m \in {MaxNode, NoPtr} THEN m ELSE ValueAt(m, t)]
           path == CHOOSE g : g = Body(g)
<1>1. n \in Nat /\ NoPtr \notin Nodes /\ Listed(f) \subseteq Nodes
  BY ListAssumption, FS_CardinalityType, Basics DEF Listed
<1>2. \A m \in Nodes : f[m] = ValueAt(m, t)
  OBVIOUS
<1>3. MaxNode \in Listed(f)
  BY DEF Listed
<1>4. PathAt(t) = [i \in 0 .. n |-> path[i]]
  BY DEF PathAt
<1> HIDE DEF f, n
<1>5. PICK g : Follows(g, f, n)
  BY <1>1, WalkExists DEF f
<1>6. g = Body(g)
  <2>1. ASSUME NEW i \in 0 .. n
        PROVE  g[i] = IF i = 0 THEN HeadNode
                      ELSE LET m == g[i - 1]
                           IN  IF m \in {MaxNode, NoPtr} THEN m ELSE ValueAt(m, t)
    <3>1. CASE i = 0
      BY <1>5, <3>1 DEF Follows
    <3>2. CASE i # 0
      <4>1. i \in 1 .. n /\ i - 1 \in 0 .. n
        BY <1>1, <3>2
      <4>2. g[i - 1] \in Listed(f) /\ g[i] = IF g[i - 1] = MaxNode THEN MaxNode ELSE f[g[i - 1]]
        BY <1>5, <4>1 DEF Follows
      <4> QED
        BY <1>1, <1>2, <3>2, <4>2
    <3> QED
      BY <3>1, <3>2
  <2>2. g = [i \in 0 .. n |-> g[i]]
    BY <1>5 DEF Follows
  <2> QED
    BY <2>1, <2>2
<1>7. path = Body(path)
  BY <1>6
<1> HIDE DEF path
<1>8. 0 .. n \subseteq {i \in 0 .. n : path[i] \in Listed(f)}
  <2> DEFINE S == {i \in 0 .. n : path[i] \in Listed(f)}
  <2>1. 0 \in S
    BY <1>1, <1>7, SortedProps DEF f
  <2>2. ASSUME NEW i \in 0 .. n - 1, i \in S PROVE i + 1 \in S
    <3>1. i + 1 \in 0 .. n /\ i + 1 # 0 /\ (i + 1) - 1 = i
      BY <1>1
    <3>2. path[i + 1] = IF path[i] \in {MaxNode, NoPtr} THEN path[i] ELSE ValueAt(path[i], t)
      BY <1>7, <3>1
    <3>3. path[i] \in Listed(f)
      BY <2>2
    <3>4. path[i] # MaxNode => f[path[i]] \in Listed(f)
      BY <3>3, SortedProps DEF f
    <3> QED
      BY <1>1, <1>2, <3>1, <3>2, <3>3, <3>4
  <2> HIDE DEF S
  <2>3. 0 .. n \subseteq S
    BY <1>1, <2>1, <2>2, CountsUp
  <2> QED
    BY <2>3 DEF S
<1>9. path \in [0 .. n -> Listed(f)] /\ path[0] = HeadNode
  BY <1>1, <1>7, <1>8
<1>10. ASSUME NEW i \in 1 .. n
       PROVE  path[i] = IF path[i - 1] = MaxNode THEN MaxNode ELSE f[path[i - 1]]
  <2>1. i \in 0 .. n /\ i # 0 /\ i - 1 \in 0 .. n
    BY <1>1
  <2>2. path[i] = IF path[i - 1] \in {MaxNode, NoPtr} THEN path[i - 1] ELSE ValueAt(path[i - 1], t)
    BY <1>7, <2>1
  <2> QED
    BY <1>1, <1>2, <1>9, <2>1, <2>2
<1>11. PathAt(t) = path
  BY <1>4, <1>9
<1> QED
  BY <1>9, <1>10, <1>11 DEF Follows, f, n

\* At every time up to the clock the bundles hold one whole list from head to
\* max in the order of the keys, also while updates with that label are pending.
THEOREM SnapshotsAreLists == ListSpec => []EverySnapshotIsAList
<1>1. SInv /\ LInv => EverySnapshotIsAList
  <2> SUFFICES ASSUME SInv, LInv, NEW t \in FirstTS .. clock
               PROVE  /\ PathAt(t)[Cardinality(Nodes)] = MaxNode
                      /\ \A i \in 1 .. Cardinality(Nodes) :
                            PathAt(t)[i - 1] # MaxNode =>
                              key[PathAt(t)[i - 1]] < key[PathAt(t)[i]]
    BY DEF EverySnapshotIsAList
  <2>1. t \in FirstTS .. LastTS
    <3>1. clock <= LastTS /\ clock \in Nat /\ LastTS \in Int
      BY PendingAssumption DEF SInv, RInv, IInv, TypeOK, UInv, ClockInv, LastTS
    <3> QED
      BY <3>1 DEF FirstTS
  <2>2. SortedLinks(key, [n \in Nodes |-> ValueAt(n, t)])
    BY <2>1 DEF LInv, ListInv
  <2>3. \A n \in Nodes : key[n] \in Int
    BY KeyProps DEF LInv, FormInv
  <2>4. Follows(PathAt(t), [n \in Nodes |-> ValueAt(n, t)], Cardinality(Nodes))
    BY <2>2, PathFollows
  <2> QED
    BY <2>2, <2>3, <2>4, WalkEnds
<1> QED
  BY <1>1, ListInvariant, PTL

-----------------------------------------------------------------------------
(***************************************************************************)
(* What a range query collects.                                            *)
(***************************************************************************)
\* The links at time t, and the keys of the nodes they link.
LinksAt(t) == [n \in Nodes |-> ValueAt(n, t)]
KeysAt(t) == {key[n] : n \in Listed(LinksAt(t))}

\* A query has collected the keys of its snapshot from lo up to the node whose
\* bundle it reads, which the snapshot links unless an erase has led the query
\* back from it.
Collected(p) ==
  /\ found[p] \in Seq(Int) /\ Rising(found[p])
  /\ ToSet(found[p]) = {k \in KeysAt(qts[p]) : op[p].lo <= k /\ k <= key[at[p]]}
  /\ at[p] \in Listed(LinksAt(qts[p])) \/ key[at[p]] < op[p].lo

FoundInv(p) ==
  IF lpc[p] = "query" /\ at[p] # NoBundle THEN Collected(p) ELSE found[p] = <<>>

CollectInv == found = [p \in Procs |-> found[p]] /\ \A p \in Procs : FoundInv(p)

\* Every node that the links lead through is on the way from the head.
LEMMA WalkComplete ==
  ASSUME NEW k, NEW links, SortedLinks(k, links),
         \A n \in Nodes : k[n] \in Int /\ k[HeadNode] <= k[n] /\ k[n] <= k[MaxNode],
         NEW g, Follows(g, links, Cardinality(Nodes)), NEW m \in Listed(links)
  PROVE  \E i \in 0 .. Cardinality(Nodes) : g[i] = m
<1> DEFINE N == Cardinality(Nodes)
           X == {x \in Listed(links) : \A i \in 0 .. N : g[i] # x}
           T == {k[MaxNode] - k[x] : x \in X}
<1>1. N \in Nat /\ Listed(links) \subseteq Nodes /\ MaxNode \in Nodes
  BY ListAssumption, FS_CardinalityType DEF Listed
<1>2. g[N] = MaxNode /\ \A i \in 1 .. N : g[i - 1] # MaxNode => k[g[i - 1]] < k[g[i]]
  BY WalkEnds
<1>3. /\ g \in [0 .. N -> Listed(links)] /\ g[0] = HeadNode
      /\ \A i \in 1 .. N : g[i] = IF g[i - 1] = MaxNode THEN MaxNode ELSE links[g[i - 1]]
  BY DEF Follows
<1> SUFFICES ASSUME m \in X PROVE FALSE
  OBVIOUS
<1> HIDE DEF N
<1>4. PICK x \in X : \A y \in X : k[y] <= k[x]
  <2>1. T \subseteq Nat /\ T # {}
    BY <1>1
  <2>2. PICK d \in T : \A e \in T : ~(<<e, d>> \in OpToRel(<, Nat))
    BY <2>1, NatLessThanWellFounded, WFMin
  <2>3. \A e \in T : ~(e < d)
    BY <2>1, <2>2 DEF OpToRel
  <2>4. PICK x \in X : d = k[MaxNode] - k[x]
    OBVIOUS
  <2>5. ASSUME NEW y \in X PROVE k[y] <= k[x]
    <3>1. k[MaxNode] - k[y] \in T /\ k[x] \in Int /\ k[y] \in Int /\ k[MaxNode] \in Int
      BY <1>1
    <3> QED
      BY <2>3, <2>4, <3>1
  <2> QED
    BY <2>5
<1>5. x \in Listed(links) \ {MaxNode} /\ N \in 0 .. N
  BY <1>1, <1>2
<1>6. links[x] \in Listed(links) /\ k[x] < k[links[x]]
  BY <1>5, SortedProps
<1>7. links[x] \notin X
  <2>1. k[links[x]] \in Int /\ k[x] \in Int
    BY <1>1, <1>5, <1>6
  <2> QED
    BY <1>4, <1>6, <2>1
<1>8. PICK i \in 0 .. N : g[i] = links[x] /\ \A j \in 0 .. N : g[j] = links[x] => i <= j
  <2> DEFINE S == {i \in 0 .. N : g[i] = links[x]}
  <2>1. S \subseteq Nat /\ S # {}
    BY <1>6, <1>7
  <2>2. PICK i \in S : \A j \in S : ~(<<j, i>> \in OpToRel(<, Nat))
    BY <2>1, NatLessThanWellFounded, WFMin
  <2>3. \A j \in S : ~(j < i)
    BY <2>1, <2>2 DEF OpToRel
  <2> QED
    BY <2>3
<1>9. i # 0
  <2>1. k[HeadNode] \in Int /\ k[x] \in Int /\ k[HeadNode] <= k[x]
    BY <1>1, <1>5, Basics
  <2> QED
    BY <1>3, <1>6, <1>8, <2>1
<1>10. i \in 1 .. N /\ i - 1 \in 0 .. N /\ ~(i <= i - 1)
  BY <1>1, <1>9
<1>11. g[i - 1] # MaxNode /\ g[i - 1] \in Listed(links)
  BY <1>3, <1>8, <1>10
<1>12. links[g[i - 1]] = links[x]
  BY <1>3, <1>8, <1>10, <1>11
<1>13. g[i - 1] = x
  BY <1>5, <1>11, <1>12, SortedProps
<1> QED
  BY <1>4, <1>10, <1>13

\* No key of the list lies between a node's and its successor's.
LEMMA NoneBetween ==
  ASSUME NEW k, NEW links, SortedLinks(k, links),
         \A n \in Nodes : k[n] \in Int /\ k[HeadNode] <= k[n] /\ k[n] <= k[MaxNode],
         NEW n \in Listed(links) \ {MaxNode}, NEW m \in Listed(links)
  PROVE  k[m] <= k[n] \/ k[links[n]] <= k[m]
<1> DEFINE N == Cardinality(Nodes)
<1>1. N \in Nat /\ Listed(links) \subseteq Nodes
  BY ListAssumption, Basics, FS_CardinalityType DEF Listed
<1>2. PICK g : Follows(g, links, N)
  BY <1>1, WalkExists
<1>3. g[N] = MaxNode /\ \A i \in 1 .. N : g[i - 1] # MaxNode => k[g[i - 1]] < k[g[i]]
  BY <1>2, WalkEnds
<1>4. PICK i \in 0 .. N, j \in 0 .. N : g[i] = n /\ g[j] = m
  BY <1>2, WalkComplete
<1>5. /\ g \in [0 .. N -> Listed(links)]
      /\ \A x \in 1 .. N : g[x] = IF g[x - 1] = MaxNode THEN MaxNode ELSE links[g[x - 1]]
  BY <1>2 DEF Follows
<1> HIDE DEF N
<1>6. \A x \in 0 .. N : k[g[x]] \in Int
  BY <1>1, <1>5
<1>7. \A x \in 1 .. N : k[g[x - 1]] <= k[g[x]]
  <2> SUFFICES ASSUME NEW x \in 1 .. N PROVE k[g[x - 1]] <= k[g[x]]
    OBVIOUS
  <2>1. x - 1 \in 0 .. N /\ x \in 0 .. N
    BY <1>1
  <2> QED
    BY <1>3, <1>5, <1>6, <2>1
<1>8. ASSUME NEW a \in 0 .. N, NEW b \in 0 .. N, a <= b PROVE k[g[a]] <= k[g[b]]
  <2> DEFINE S == {d \in 0 .. b - a : k[g[a]] <= k[g[a + d]]}
  <2>1. 0 \in S /\ b - a \in Nat
    BY <1>6, <1>8
  <2>2. ASSUME NEW d \in 0 .. (b - a) - 1, d \in S PROVE d + 1 \in S
    <3>1. /\ a + d + 1 \in 1 .. N /\ (a + d + 1) - 1 = a + d /\ a + d \in 0 .. N
          /\ a + (d + 1) = a + d + 1 /\ a + d + 1 \in 0 .. N /\ d + 1 \in 0 .. b - a
      BY <1>1, <1>8
    <3>2. k[g[a]] <= k[g[a + d]] /\ k[g[a + d]] <= k[g[a + d + 1]]
      BY <1>7, <2>2, <3>1
    <3>3. k[g[a]] <= k[g[a + d + 1]]
      BY <1>6, <3>1, <3>2
    <3> QED
      BY <3>1, <3>3
  <2> HIDE DEF S
  <2>3. b - a \in S
    BY <2>1, <2>2, CountsUp
  <2>4. a + (b - a) = b
    OBVIOUS
  <2> QED
    BY <2>3, <2>4 DEF S
<1>9. CASE j <= i
  BY <1>4, <1>8, <1>9
<1>10. CASE i < j
  <2>1. i + 1 \in 1 .. N /\ (i + 1) - 1 = i /\ i + 1 \in 0 .. N /\ i + 1 <= j
    BY <1>1, <1>10
  <2>2. g[i + 1] = links[n]
    BY <1>4, <1>5, <2>1
  <2> QED
    BY <1>4, <1>8, <2>1, <2>2
<1> QED
  BY <1>9, <1>10

-----------------------------------------------------------------------------
\* The snapshot of a query at t: its keys lie between those of head and max.
LEMMA SnapshotProps ==
  ASSUME SInv, LInv, NEW t \in FirstTS .. clock
  PROVE  /\ SortedLinks(key, LinksAt(t))
         /\ \A n \in Nodes : /\ key[n] \in Int /\ key[HeadNode] <= key[n] /\ key[n] <= key[MaxNode]
                             /\ LinksAt(t)[n] = ValueAt(n, t)
         /\ Listed(LinksAt(t)) \subseteq alloc /\ alloc \subseteq Nodes
         /\ ValueAt(MaxNode, t) = NoPtr
<1>1. t \in FirstTS .. LastTS
  <2>1. clock <= LastTS /\ clock \in Nat /\ LastTS \in Int
    BY PendingAssumption DEF SInv, RInv, IInv, TypeOK, UInv, ClockInv, LastTS
  <2> QED
    BY <2>1 DEF FirstTS
<1>2. SortedLinks(key, LinksAt(t))
  BY <1>1 DEF LInv, ListInv, LinksAt
<1>3. \A n \in Nodes : key[n] \in Int /\ key[HeadNode] <= key[n] /\ key[n] <= key[MaxNode]
  BY KeyProps, KeysAssumption DEF LInv, FormInv
<1>4. \A n \in Nodes : LinksAt(t)[n] = ValueAt(n, t)
  BY DEF LinksAt
<1>5. \A n \in {MaxNode} \cup (Nodes \ alloc) : ValueAt(n, t) = NoPtr
  <2> SUFFICES ASSUME NEW n \in {MaxNode} \cup (Nodes \ alloc) PROVE ValueAt(n, t) = NoPtr
    OBVIOUS
  <2>1. Visible(n, t) = {}
    BY DEF LInv, LinkInv, Visible
  <2> QED
    BY <2>1 DEF ValueAt
<1>6. MaxNode \in alloc /\ alloc \subseteq Nodes
  BY DEF LInv, FormInv
<1> QED
  BY <1>2, <1>3, <1>4, <1>5, <1>6 DEF Listed

\* The links of a time that is over, and their keys, stay.
LEMMA SnapshotStays ==
  ASSUME SInv, LInv, [Next]_vars, NEW t \in FirstTS .. clock,
         \A n \in alloc : key'[n] = key[n]
  PROVE  LinksAt(t)' = LinksAt(t) /\ KeysAt(t)' = KeysAt(t)
<1>1. \A n \in Nodes : ValueAt(n, t)' = ValueAt(n, t)
  BY PastHeld, Basics
<1>2. LinksAt(t)' = LinksAt(t)
  BY <1>1 DEF LinksAt
<1>3. \A n \in Listed(LinksAt(t)) : key'[n] = key[n]
  BY SnapshotProps
<1>4. Listed(LinksAt(t))' = Listed(LinksAt(t))
  BY <1>2 DEF Listed
<1>5. KeysAt(t)' = {key'[n] : n \in Listed(LinksAt(t))}
  BY <1>4 DEF KeysAt
<1> QED
  BY <1>2, <1>3, <1>5 DEF KeysAt

\* No step of p touches what another process has collected.
LEMMA OthersFound ==
  ASSUME LInv, NEW p \in Procs, Call(p) \/ ListStep(p), found = [q \in Procs |-> found[q]]
  PROVE  /\ found' = [q \in Procs |-> found'[q]]
         /\ \A q \in Procs : q # p => found'[q] = found[q]
BY DEF ListStep, Call, Search, LockCurr, LockPred, Invalid, Present, BeginInsert,
       BeginErase, PrepareAndLabel, LinWrite, FinalizeBundles, Unlink, UnlockFirst,
       UnlockPred, RetryCurr, RetryPred, EnterNewest, GetNext, EndContains, StartQuery,
       EnterSnapshot, ReadBundle, Collect, EndQuery, ReturnKeys, callVars, localVars

\* A process that reads no further bundle keeps what it has collected.
LEMMA FoundStays ==
  ASSUME SInv, LInv, [Next]_vars, NEW q \in Procs, FoundInv(q),
         \A n \in alloc : key'[n] = key[n],
         /\ lpc'[q] = lpc[q] /\ op'[q] = op[q] /\ at'[q] = at[q] /\ qts'[q] = qts[q]
         /\ found'[q] = found[q]
  PROVE  FoundInv(q)'
<1>1. CASE ~(lpc[q] = "query" /\ at[q] # NoBundle)
  BY <1>1 DEF FoundInv
<1>2. CASE lpc[q] = "query" /\ at[q] # NoBundle
  <2>1. PICK t : t = qts[q]
    OBVIOUS
  <2>2. t \in FirstTS .. clock
    <3>1. ReadsWell(q) /\ PcInv(q) /\ qts[q] \in Nat /\ clock \in Nat
      BY DEF SInv, RInv, IInv, TypeOK, ReadInv, LInv, LocalInv
    <3> QED
      BY <1>2, <2>1, <3>1 DEF ReadsWell, PcInv, QueryingPCs, FirstTS
  <2>3. LinksAt(t)' = LinksAt(t) /\ KeysAt(t)' = KeysAt(t)
    BY <2>2, SnapshotStays
  <2>4. LinksAt(qts[q])' = LinksAt(qts[q]) /\ KeysAt(qts[q])' = KeysAt(qts[q])
    <3>1. LinksAt(qts[q])' = LinksAt(t)' /\ KeysAt(qts[q])' = KeysAt(t)'
      BY <2>1 DEF LinksAt, KeysAt, ValueAt, VersionAt, Visible, Label
    <3> QED
      BY <2>1, <2>3, <3>1
  <2>5. key'[at[q]] = key[at[q]]
    <3>1. at[q] \in alloc
      <4>1. ValueAt(at[q], t) # NoPtr /\ at[q] \in Nodes
        BY <1>2, <2>1, Basics DEF LInv, LocalInv, EntryInv, SInv, RInv, IInv, TypeOK
      <4>2. at[q] \notin alloc => Visible(at[q], t) = {}
        BY <4>1 DEF LInv, LinkInv, Visible
      <4> QED
        BY <4>1, <4>2 DEF ValueAt
    <3> QED
      BY <3>1
  <2>6. Collected(q)
    BY <1>2 DEF FoundInv
  <2>7. Listed(LinksAt(qts[q]))' = Listed(LinksAt(qts[q]))
    BY <2>4 DEF Listed
  <2>8. Collected(q)'
    BY <2>4, <2>5, <2>6, <2>7 DEF Collected, Rising, ToSet
  <2> QED
    BY <1>2, <2>8 DEF FoundInv
<1> QED
  BY <1>1, <1>2

\* The node a query has been led to is the next one of its snapshot.
LEMMA UpToNext ==
  ASSUME SInv, LInv, NEW p \in Procs, Collected(p),
         lpc[p] = "query", pc[p] = "query", at[p] # NoBundle
  PROVE  /\ qts[p] \in FirstTS .. clock /\ out[p] \in Listed(LinksAt(qts[p]))
         /\ \A k \in KeysAt(qts[p]) :
              k \in Int /\ (op[p].lo <= k => (k <= key[at[p]] <=> k < key[out[p]]))
<1>1. PICK t \in FirstTS .. clock : t = qts[p]
  BY ReadNode
<1>2. PICK f : f = LinksAt(t)
  OBVIOUS
<1>3. at[p] \in Nodes /\ out[p] \in Nodes /\ out[p] = f[at[p]] /\ f[at[p]] # NoPtr /\ at[p] # MaxNode
  <2>1. at[p] \in Nodes /\ out[p] \in Nodes /\ out[p] = ValueAt(at[p], t)
    BY <1>1, ReadNode
  <2>2. NoPtr \notin Nodes /\ ValueAt(MaxNode, t) = NoPtr
    BY Basics, SnapshotProps
  <2>3. f[at[p]] = ValueAt(at[p], t)
    BY <1>2, <2>1, SnapshotProps
  <2> QED
    BY <2>1, <2>2, <2>3
<1>4. /\ SortedLinks(key, f) /\ Listed(f) \subseteq Nodes
      /\ \A n \in Nodes : key[n] \in Int /\ key[HeadNode] <= key[n] /\ key[n] <= key[MaxNode]
  BY <1>2, SnapshotProps
<1>5. KeysAt(t) = {key[n] : n \in Listed(f)}
  BY <1>2 DEF KeysAt
<1>6. op[p].lo \in Int /\ key[HeadNode] < op[p].lo
  BY OpProps, KeyProps DEF LInv, LocalInv
<1>7. CASE at[p] \in Listed(f)
  <2>1. out[p] \in Listed(f) /\ key[at[p]] < key[out[p]]
    BY <1>3, <1>4, <1>7, SortedProps
  <2>2. ASSUME NEW m \in Listed(f) PROVE key[m] <= key[at[p]] \/ key[out[p]] <= key[m]
    BY <1>3, <1>4, <1>7, NoneBetween
  <2>3. ASSUME NEW m \in Listed(f)
        PROVE  key[m] \in Int /\ (key[m] <= key[at[p]] <=> key[m] < key[out[p]])
    <3>1. key[m] \in Int /\ key[at[p]] \in Int /\ key[out[p]] \in Int
      BY <1>3, <1>4
    <3> QED
      BY <2>1, <2>2, <3>1
  <2> QED
    BY <1>1, <1>2, <1>5, <2>1, <2>3
<1>8. CASE at[p] \notin Listed(f)
  <2>1. key[at[p]] < op[p].lo
    BY <1>1, <1>2, <1>8 DEF Collected
  <2>2. out[p] = HeadNode
    BY <1>3, <1>8 DEF Listed
  <2>3. HeadNode \in Listed(f)
    BY <1>4, SortedProps
  <2>4. ASSUME NEW k \in KeysAt(t)
        PROVE  k \in Int /\ (op[p].lo <= k => (k <= key[at[p]] <=> k < key[out[p]]))
    <3>1. k \in Int /\ key[at[p]] \in Int /\ key[HeadNode] \in Int
      BY <1>3, <1>4, <1>5, <2>3
    <3> QED
      BY <1>6, <2>1, <2>2, <3>1
  <2> QED
    BY <1>1, <1>2, <2>2, <2>3, <2>4
<1> QED
  BY <1>7, <1>8

\* A key appended to the collected ones.
LEMMA AppendRises ==
  ASSUME NEW s \in Seq(Int), Rising(s), NEW x \in Int, \A y \in ToSet(s) : y < x
  PROVE  Append(s, x) \in Seq(Int) /\ Rising(Append(s, x)) /\ ToSet(Append(s, x)) = ToSet(s) \cup {x}
<1> DEFINE r == Append(s, x)
           n == Len(s)
<1>1. /\ n \in Nat /\ r \in Seq(Int) /\ Len(r) = n + 1 /\ r[n + 1] = x
      /\ \A i \in 1 .. n : r[i] = s[i] /\ s[i] \in Int
      /\ DOMAIN s = 1 .. n /\ DOMAIN r = 1 .. n + 1
  OBVIOUS
<1> HIDE DEF r, n
<1>2. \A i \in 1 .. n : s[i] \in ToSet(s)
  BY <1>1 DEF ToSet
<1>3. ASSUME NEW i \in 1 .. n + 1, NEW j \in 1 .. n + 1, i < j PROVE r[i] < r[j]
  <2>1. i \in 1 .. n /\ r[i] = s[i]
    BY <1>1, <1>3
  <2>2. CASE j = n + 1
    BY <1>1, <1>2, <2>1, <2>2
  <2>3. CASE j # n + 1
    <3>1. j \in 1 .. n /\ r[j] = s[j]
      BY <1>1, <2>3
    <3> QED
      BY <1>3, <2>1, <3>1 DEF Rising, n
  <2> QED
    BY <2>2, <2>3
<1>4. ToSet(r) = ToSet(s) \cup {x}
  <2>1. ASSUME NEW y \in ToSet(r) PROVE y \in ToSet(s) \cup {x}
    <3>1. PICK i \in 1 .. n + 1 : y = r[i]
      BY <1>1 DEF ToSet
    <3>2. i \in 1 .. n \/ i = n + 1
      BY <1>1
    <3> QED
      BY <1>1, <1>2, <3>1, <3>2
  <2>2. x \in ToSet(r)
    <3>1. n + 1 \in 1 .. n + 1
      BY <1>1
    <3> QED
      BY <1>1, <3>1 DEF ToSet
  <2>3. ASSUME NEW y \in ToSet(s) PROVE y \in ToSet(r)
    <3>1. PICK i \in 1 .. n : y = s[i]
      BY <1>1 DEF ToSet
    <3>2. i \in 1 .. n + 1 /\ y = r[i]
      BY <1>1, <3>1
    <3> QED
      BY <1>1, <3>2 DEF ToSet
  <2> QED
    BY <2>1, <2>2, <2>3
<1>5. Rising(r)
  BY <1>1, <1>3 DEF Rising
<1> QED
  BY <1>1, <1>4, <1>5 DEF r

\* A query goes on to the next node.
LEMMA CollectFound ==
  ASSUME SInv, LInv, CollectInv, [Next]_vars, NEW p \in Procs, Collect(p)
  PROVE  FoundInv(p)'
<1>1. /\ lpc[p] = "query" /\ pc[p] = "query" /\ at[p] # NoBundle /\ UNCHANGED <<key, op, lpc, qts>>
      /\ at \in [Procs -> Bundles \cup {NoBundle}] /\ out[p] \in Nodes
      /\ found = [q \in Procs |-> found[q]] /\ op[p].lo \in Int
  BY ReadNode, OpProps
  DEF Collect, BeginLookup, nodeVars, callVars, SInv, RInv, IInv, TypeOK, CollectInv, LInv, LocalInv
<1>2. Collected(p)
  BY <1>1 DEF CollectInv, FoundInv
<1>3. PICK t \in FirstTS .. clock : t = qts[p] /\ t = qts'[p]
  BY <1>1, <1>2, UpToNext
<1>4. /\ out[p] \in Listed(LinksAt(t)) /\ key[out[p]] \in Int /\ key[out[p]] \in KeysAt(t)
      /\ \A k \in KeysAt(t) : k \in Int /\ (op[p].lo <= k => (k <= key[at[p]] <=> k < key[out[p]]))
  BY <1>1, <1>2, <1>3, UpToNext DEF KeysAt
<1>5. LinksAt(t)' = LinksAt(t) /\ KeysAt(t)' = KeysAt(t)
  BY <1>1, <1>3, SnapshotStays
<1>6. LinksAt(qts[p])' = LinksAt(t) /\ KeysAt(qts[p])' = KeysAt(t)
  <2>1. LinksAt(qts[p])' = LinksAt(t)' /\ KeysAt(qts[p])' = KeysAt(t)'
    BY <1>3 DEF LinksAt, KeysAt, ValueAt, VersionAt, Visible, Label
  <2> QED
    BY <1>5, <2>1
<1>7. at'[p] = out[p] /\ out[p] # NoBundle
  BY <1>1, Basics, BundlesAssumption DEF Collect, BeginLookup
<1>8. found'[p] = IF key[out[p]] < op[p].lo THEN found[p] ELSE Append(found[p], key[out[p]])
  BY <1>1 DEF Collect
<1>9. /\ found[p] \in Seq(Int) /\ Rising(found[p])
      /\ ToSet(found[p]) = {k \in KeysAt(t) : op[p].lo <= k /\ k < key[out[p]]}
  BY <1>2, <1>3, <1>4 DEF Collected
<1>10. /\ found'[p] \in Seq(Int) /\ Rising(found'[p])
       /\ ToSet(found'[p]) = {k \in KeysAt(t) : op[p].lo <= k /\ k <= key[out[p]]}
  <2>1. CASE key[out[p]] < op[p].lo
    BY <1>1, <1>4, <1>8, <1>9, <2>1
  <2>2. CASE ~(key[out[p]] < op[p].lo)
    <3>1. /\ found'[p] \in Seq(Int) /\ Rising(found'[p])
          /\ ToSet(found'[p]) = ToSet(found[p]) \cup {key[out[p]]}
      BY <1>4, <1>8, <1>9, <2>2, AppendRises
    <3>2. ASSUME NEW k \in KeysAt(t)
          PROVE  op[p].lo <= k /\ k <= key[out[p]] <=> (op[p].lo <= k /\ k < key[out[p]]) \/ k = key[out[p]]
      BY <1>1, <1>4, <2>2
    <3> QED
      BY <1>4, <1>9, <3>1, <3>2
  <2> QED
    BY <2>1, <2>2
<1>11. Listed(LinksAt(qts[p]))' = Listed(LinksAt(t))
  BY <1>6 DEF Listed
<1>12. Collected(p)'
  BY <1>1, <1>4, <1>6, <1>7, <1>10, <1>11 DEF Collected, Rising, ToSet
<1> QED
  BY <1>1, <1>7, <1>12 DEF FoundInv

LEMMA OwnFound ==
  ASSUME SInv, LInv, CollectInv, [Next]_vars, NEW p \in Procs, Call(p) \/ ListStep(p)
  PROVE  FoundInv(p)'
<1>1. /\ FoundInv(p) /\ found = [q \in Procs |-> found[q]] /\ ReadsWell(p) /\ PcInv(p)
      /\ lpc \in [Procs -> {"idle", "search"} \cup StoppedLPCs]
      /\ at \in [Procs -> Bundles \cup {NoBundle}]
  BY DEF CollectInv, SInv, RInv, ReadInv, LInv, LocalInv, FormInv, IInv, TypeOK
<1>2. CASE Collect(p)
  BY <1>2, CollectFound
<1>3. CASE EnterSnapshot(p)
  <2>1. /\ lpc[p] = "query" /\ at[p] = NoBundle /\ UNCHANGED <<key, op, lpc, found>>
        /\ at'[p] = pred[p]
    BY <1>1, <1>3 DEF EnterSnapshot, BeginLookup, nodeVars, callVars, localVars
  <2>2. found'[p] = <<>>
    BY <1>1, <2>1 DEF FoundInv
  <2>3. key[pred[p]] < op[p].lo /\ key[pred[p]] \in Int /\ op[p].lo \in Int
    BY <2>1, KeyProps, OpProps DEF LInv, LocalInv, PlaceInv, StoppedLPCs, ReadLPCs, FormInv
  <2>4. KeysAt(qts[p])' \subseteq Int
    <3>1. key' \in [Nodes -> SetKeys \cup {InitKey[HeadNode], InitKey[MaxNode]}]
      BY <2>1 DEF LInv, FormInv
    <3>2. \A n \in Nodes : key'[n] \in Int
      BY <3>1, KeysAssumption
    <3> QED
      BY <3>2, Basics DEF KeysAt, Listed
  <2>5. {k \in KeysAt(qts[p])' : op'[p].lo <= k /\ k <= key'[at'[p]]} = {}
    BY <2>1, <2>3, <2>4
  <2>6. Collected(p)'
    BY <2>1, <2>2, <2>3, <2>5 DEF Collected, Rising, ToSet
  <2> QED
    BY <1>1, <2>2, <2>6 DEF FoundInv
<1>4. CASE ReadBundle(p)
  <2>1. UNCHANGED <<key, op, lpc, found, at, qts>>
    BY <1>4 DEF ReadBundle, LookupStep, CheckFirst, LoadSecond, CheckSecond, AwaitLabel, Walk,
                nodeVars, callVars, localVars
  <2> QED
    BY <1>1, <2>1, FoundStays
<1>5. CASE StartQuery(p)
  <2>1. lpc[p] = "announce" /\ UNCHANGED <<found, at>>
    BY <1>5 DEF StartQuery, StartTraversal, AnnounceStep, ReadClock, Announce, ClearFlag,
                readVars, localVars
  <2>2. pc[p] \in {"idle"} \cup AnnouncePCs
    BY <1>1, <2>1 DEF PcInv
  <2> QED
    BY <1>1, <2>1, <2>2 DEF FoundInv, ReadsWell
<1>6. CASE EndQuery(p)
  BY <1>1, <1>6 DEF EndQuery, ReturnKeys, Goto, FoundInv
<1>7. CASE ~(Collect(p) \/ EnterSnapshot(p) \/ ReadBundle(p) \/ StartQuery(p) \/ EndQuery(p))
  <2>1. lpc[p] # "query" /\ lpc'[p] # "query" /\ (found'[p] = found[p] \/ found'[p] = <<>>)
    <3> USE <1>1, <1>7 DEF Goto, ReturnKeys, callVars, localVars
    <3>1. lpc[p] # "idle" => op[p].type \in OpTypes
      BY OpProps DEF LInv, LocalInv
    <3>2. CASE Search(p)
      BY <3>1, <3>2 DEF Search, Found, OpTypes
    <3> QED
      BY <3>2
      DEF ListStep, Call, LockCurr, LockPred, Invalid, Present, BeginInsert, BeginErase,
          PrepareAndLabel, LinWrite, FinalizeBundles, Unlink, UnlockFirst, UnlockPred,
          RetryCurr, RetryPred, EnterNewest, GetNext, EndContains
  <2> QED
    BY <1>1, <2>1 DEF FoundInv
<1> QED
  BY <1>2, <1>3, <1>4, <1>5, <1>6, <1>7

LEMMA NextFound ==
  ASSUME SInv, LInv, CollectInv, [ListNext]_listVars
  PROVE  CollectInv'
<1>1. ASSUME NEW p \in Procs, Call(p) \/ ListStep(p) PROVE CollectInv'
  <2>1. [Next]_vars /\ Frame(p)
    BY <1>1, StepIsNext, FrameHolds
  <2>2. FoundInv(p)'
    BY <1>1, <2>1, OwnFound
  <2>3. /\ found' = [q \in Procs |-> found'[q]]
        /\ \A q \in Procs : q # p => found'[q] = found[q]
    BY <1>1, OthersFound DEF CollectInv
  <2>4. ASSUME NEW q \in Procs, q # p PROVE FoundInv(q)'
    BY <2>1, <2>3, <2>4, FoundStays DEF Frame, CollectInv
  <2> QED
    BY <2>2, <2>3, <2>4 DEF CollectInv
<1>2. CASE UNCHANGED listVars
  <2>1. [Next]_vars /\ UNCHANGED <<key, lpc, op, at, qts, found>>
    BY <1>2 DEF listVars, vars, nodeVars, callVars, localVars
  <2>2. \A q \in Procs : FoundInv(q)'
    BY <2>1, FoundStays DEF CollectInv
  <2> QED
    BY <2>1, <2>2 DEF CollectInv
<1> QED
  BY <1>1, <1>2 DEF ListNext, Done

LEMMA FoundInvariant == ListSpec => [](SInv /\ LInv /\ CollectInv)
<1>1. ListInit => CollectInv
  BY DEF ListInit, CollectInv, FoundInv
<1>2. (SInv /\ LInv /\ CollectInv) /\ [ListNext]_listVars => CollectInv'
  BY NextFound
<1> QED
  BY <1>1, <1>2, ListInvariant, PTL DEF ListSpec

\* What a range query has collected is what its snapshot, the list as of its
\* timestamp, holds from lo up to the node it has come to, in order.
THEOREM QueriesCollect == ListSpec => []CollectsSnapshot
<1>1. SInv /\ LInv /\ CollectInv => CollectsSnapshot
  <2> DEFINE N == Cardinality(Nodes)
             seen(t) == {key[PathAt(t)[i]] : i \in 1 .. N}
  <2> SUFFICES ASSUME SInv, LInv, CollectInv, NEW p \in Procs,
                      lpc[p] = "query", pc[p] = "query", at[p] # NoBundle
               PROVE  /\ ToSet(found[p]) = {k \in seen(qts[p]) : op[p].lo <= k /\ k < key[out[p]]}
                      /\ \A i, j \in 1 .. Len(found[p]) : i < j => found[p][i] < found[p][j]
    BY DEF CollectsSnapshot
  <2>1. Collected(p)
    BY DEF CollectInv, FoundInv
  <2>2. PICK t \in FirstTS .. clock : t = qts[p]
    BY <2>1, UpToNext
  <2>3. \A k \in KeysAt(t) : k \in Int /\ (op[p].lo <= k => (k <= key[at[p]] <=> k < key[out[p]]))
    BY <2>1, <2>2, UpToNext
  <2>4. /\ SortedLinks(key, LinksAt(t))
        /\ \A n \in Nodes : key[n] \in Int /\ key[HeadNode] <= key[n] /\ key[n] <= key[MaxNode]
    BY SnapshotProps
  <2>5. PICK g : g = PathAt(t) /\ Follows(g, LinksAt(t), N)
    BY <2>4, PathFollows DEF LinksAt
  <2>6. op[p].lo \in Int /\ key[HeadNode] < op[p].lo /\ key[HeadNode] \in Int
    BY <2>4, OpProps, KeyProps, Basics DEF LInv, LocalInv
  <2>7. N \in Nat
    BY ListAssumption, FS_CardinalityType
  <2>8. ASSUME NEW k, k \in KeysAt(t), op[p].lo <= k PROVE k \in seen(t)
    <3>1. PICK m \in Listed(LinksAt(t)) : k = key[m]
      BY <2>8 DEF KeysAt
    <3>2. PICK i \in 0 .. N : g[i] = m
      BY <2>4, <2>5, WalkComplete
    <3>3. i # 0
      <4>1. g[0] = HeadNode
        BY <2>5 DEF Follows
      <4> QED
        BY <2>6, <2>8, <3>1, <3>2, <4>1
    <3>4. i \in 1 .. N
      BY <2>7, <3>3
    <3> QED
      BY <2>5, <3>1, <3>2, <3>4
  <2>9. seen(t) \subseteq KeysAt(t)
    <3> HIDE DEF N
    <3>1. \A i \in 1 .. N : g[i] \in Listed(LinksAt(t))
      BY <2>5, <2>7 DEF Follows
    <3> QED
      BY <2>5, <3>1 DEF KeysAt
  <2> HIDE DEF seen
  <2>10. ToSet(found[p]) = {k \in seen(t) : op[p].lo <= k /\ k < key[out[p]]}
    BY <2>1, <2>2, <2>3, <2>8, <2>9 DEF Collected
  <2> QED
    BY <2>1, <2>2, <2>10 DEF Collected, Rising
<1> QED
  BY <1>1, FoundInvariant, PTL

-----------------------------------------------------------------------------
(***************************************************************************)
(* The operations are linearizable.  Updates take effect when the clock    *)
(* reaches their label, those of one label in any order, a range query     *)
(* when it reads the clock, a contains at some time between its call and   *)
(* its last read.                                                          *)
(***************************************************************************)
\* The set that the list holds: the keys of the nodes linked at the clock.
AbstractKeys == KeysAt(clock) \cap SetKeys

\* The operations under way, and the updates among them that have taken effect.
Active == {p \in Procs : lpc[p] # "idle"}
Finished == {p \in Procs : lpc[p] = "unlockPred" \/ (ts[p] # NullTS /\ ts[p] < clock)}

\* What an operation would report if it took effect now.
Report(q) == ResultOf(op[q], AbstractKeys)

\* contains has been led to m, from a smaller key: what it returns if it stops
\* there is among the results E.
HopDone(q, E, m) ==
  /\ m \in alloc
  /\ key[m] > op[q].lo => <<>> \in E
  /\ key[m] = op[q].lo => <<op[q].lo>> \in E /\ (m \in Listed(LinksAt(clock)) \/ <<>> \in E)

\* The results E have those that q can still return: an update's that has taken
\* effect and, of an operation that only reads, what it would report now;
SawDone(q, E) ==
  /\ q \in Finished => <<op[q].lo>> \in E
  /\ lpc[q] # "idle" /\ op[q].type \in {"contains", "range"} => Report(q) \in E

\* what contains returns if it stops at the node it has been led to, or will be
\* by the entry it reads once that has its label;
SawHop(q, E) ==
  lpc[q] = "contains" =>
    /\ pc[q] = "got" => HopDone(q, E, out[q])
    /\ pc[q] = "get" /\ Label(at[q], cur[q]) <= clock =>
         HopDone(q, E, bundle[at[q]].entries[cur[q]].ptr)

\* and what a range query finds in its snapshot.
SawQuery(q, E) ==
  lpc[q] \in {"announce", "query"} /\ qts[q] # NullTS =>
    Ascending(InRange(op[q]) \cap KeysAt(qts[q])) \in E

Saw(q, E) == SawDone(q, E) /\ SawHop(q, E) /\ SawQuery(q, E)

\* contains reads a bundle of a node with a smaller key than its own.
GetInv(q) ==
  /\ lpc[q] \in {"enter", "contains"} => op[q].type = "contains"
  /\ lpc[q] \in {"announce", "query"} => op[q].type = "range"
  /\ lpc[q] = "contains" /\ pc[q] = "get" => at[q] \in alloc /\ key[at[q]] < op[q].lo

\* A range query reads no bundle of a node past its range.
RangeInv(q) ==
  lpc[q] = "query" /\ at[q] # NoBundle =>
    at[q] \in alloc /\ (key[at[q]] <= op[q].hi \/ key[at[q]] < op[q].lo)

\* When an update's label is the next one its place is as it found it.
CommitInv(q) == ts[q] = clock => ValueAt(pred[q], clock) = curr[q]

LinInv ==
  /\ Sound(configs, Active)
  /\ \E R : /\ Accounts(configs, op, AbstractKeys, Active, Finished, R)
            /\ \A q \in Procs : Saw(q, R[q])
  /\ \A q \in Procs : GetInv(q) /\ RangeInv(q) /\ CommitInv(q)

-----------------------------------------------------------------------------
\* The clock is one of the times of SnapshotProps.
LEMMA ClockNow ==
  ASSUME SInv
  PROVE  clock \in FirstTS .. clock /\ clock \in Nat /\ clock # NullTS /\ FirstTS <= clock
BY DEF SInv, RInv, IInv, TypeOK, UInv, ClockInv, FirstTS, NullTS

\* A key is listed once.
LEMMA KeyOnce ==
  ASSUME NEW k, NEW links, SortedLinks(k, links),
         \A n \in Nodes : k[n] \in Int /\ k[HeadNode] <= k[n] /\ k[n] <= k[MaxNode],
         NEW m \in Listed(links), NEW n \in Listed(links), k[m] = k[n]
  PROVE  m = n
<1>1. Listed(links) \subseteq Nodes /\ MaxNode \in Nodes /\ HeadNode \in Nodes
  BY Basics DEF Listed
<1>2. ASSUME NEW x \in Listed(links) \ {MaxNode} PROVE links[x] \in Listed(links) /\ k[x] < k[links[x]]
  BY SortedProps
<1>3. ASSUME NEW x \in Listed(links), NEW y \in Listed(links), k[x] = k[y], x # HeadNode, x # y PROVE FALSE
  <2>1. y # MaxNode /\ x # MaxNode
    <3>1. \A z \in Listed(links) \ {MaxNode} : k[z] < k[MaxNode]
      <4> SUFFICES ASSUME NEW z \in Listed(links) \ {MaxNode} PROVE k[z] < k[MaxNode]
        OBVIOUS
      <4>1. z \in Nodes /\ links[z] \in Nodes /\ k[z] < k[links[z]]
        BY <1>1, <1>2
      <4> QED
        BY <4>1, <1>1
    <3> QED
      BY <1>1, <1>3, <3>1
  <2>2. PICK h : h = [z \in Nodes |-> IF z = x THEN 2 * k[z] + 1 ELSE 2 * k[z]]
    OBVIOUS
  <2>3. \A z \in Nodes : h[z] = IF z = x THEN 2 * k[z] + 1 ELSE 2 * k[z]
    BY <2>2
  <2>4. SortedLinks(h, links)
    <3>1. ASSUME NEW z \in Listed(links) \ {MaxNode} PROVE h[z] < h[links[z]]
      <4>1. z \in Nodes /\ links[z] \in Nodes /\ k[z] < k[links[z]]
        BY <1>1, <1>2
      <4>2. k[z] \in Int /\ k[links[z]] \in Int
        BY <4>1
      <4> QED
        BY <2>3, <4>1, <4>2
    <3> QED
      BY <3>1, SortedProps
  <2>5. \A z \in Nodes : h[z] \in Int /\ h[HeadNode] <= h[z] /\ h[z] <= h[MaxNode]
    <3> SUFFICES ASSUME NEW z \in Nodes PROVE h[z] \in Int /\ h[HeadNode] <= h[z] /\ h[z] <= h[MaxNode]
      OBVIOUS
    <3>1. k[x] < k[MaxNode] /\ k[x] \in Int /\ k[MaxNode] \in Int
      <4>1. x \in Nodes /\ links[x] \in Nodes /\ k[x] < k[links[x]]
        BY <1>1, <1>2, <1>3, <2>1
      <4> QED
        BY <1>1, <4>1
    <3>2. k[z] \in Int /\ k[HeadNode] \in Int /\ k[HeadNode] <= k[z] /\ k[z] <= k[MaxNode]
      BY <1>1
    <3> QED
      BY <1>1, <1>3, <2>1, <2>3, <3>1, <3>2
  <2>6. h[x] <= h[y] \/ h[links[y]] <= h[x]
    BY <1>3, <2>1, <2>4, <2>5, NoneBetween
  <2>7. y \in Nodes /\ x \in Nodes /\ links[y] \in Nodes /\ k[y] < k[links[y]]
    BY <1>1, <1>2, <1>3, <2>1
  <2>8. k[y] \in Int /\ k[x] \in Int /\ k[links[y]] \in Int
    BY <2>7
  <2> QED
    BY <1>3, <2>3, <2>6, <2>7, <2>8
<1>4. CASE m # HeadNode
  BY <1>3, <1>4
<1>5. CASE m = HeadNode /\ n # HeadNode
  BY <1>3, <1>5
<1> QED
  BY <1>4, <1>5

\* Where an update that has its label has led a link.
LEMMA FinalValue ==
  ASSUME SInv, NEW p \in Updaters, pc[p] \in {"finalize", "unlock"}, NEW k \in 1 .. Len(upd[p])
  PROVE  ValueAt(upd[p][k].bundle, clock) = upd[p][k].ptr
<1> DEFINE b == upd[p][k].bundle
           n == Newest(bundle[b])
<1>1. IInv /\ p \in Procs /\ p # NoProc /\ ts[p] \in Nat /\ clock \in Nat
  <2>1. pc[p] \in UpdatePCs
    BY DEF UpdatePCs
  <2> QED
    BY <2>1, UpdateState DEF SInv, RInv
<1>2. b \in Bundles /\ owner[b] = p
  BY <1>1, Exclusive
<1>3. n # 0 /\ n \in Nat /\ bundle[b].entries[n].ptr = upd[p][k].ptr
  <2>1. n # 0 /\ bundle[b].entries[n].ptr = upd[p][k].ptr
    BY DEF SInv, PtrInv, HasPrepared
  <2>2. bundle[b] \in Bundle
    BY <1>1, <1>2 DEF IInv, TypeOK
  <2> QED
    BY <2>1, <2>2, NewestNat
<1>4. ts[p] # NullTS /\ ts[p] < clock
  BY <1>1 DEF IInv, UInv, UpdateInv
<1> HIDE DEF b, n
<1>5. Label(b, n) <= clock
  <2>1. CASE IsPending(bundle[b], n)
    BY <1>1, <1>2, <1>4, <2>1 DEF Label
  <2>2. CASE ~IsPending(bundle[b], n)
    BY <1>1, <1>2, <1>3, <2>2 DEF Label, IInv, UInv, LabelsReached, n
  <2> QED
    BY <2>1, <2>2
<1>6. n \in Visible(b, clock)
  BY <1>3, <1>5 DEF Visible, n
<1>7. VersionAt(b, clock) = n
  BY <1>1, <1>2, <1>3, <1>6, ValueType DEF n
<1> QED
  BY <1>3, <1>6, <1>7 DEF ValueAt, b

\* A node that is marked is not in the list any more.
LEMMA MarkedGone ==
  ASSUME SInv, LInv, NEW m \in alloc, marked[m]
  PROVE  m \notin Listed(LinksAt(clock))
<1>1. m \in Nodes /\ m # MaxNode /\ LinkOf(m) /\ m \in Bundles
  BY Basics DEF LInv, FormInv, LinkInv
<1>2. ValueAt(m, clock) = HeadNode
  <2>1. CASE owner[m] = NoProc
    BY <1>1, <2>1, IdleLink DEF LinkOf, SInv, RInv
  <2>2. CASE owner[m] # NoProc
    <3>1. PICK q \in Updaters : q = owner[m]
      BY <1>1, <2>2 DEF SInv, RInv, IInv, TypeOK
    <3>2. m \in BundlesOf(upd[q]) /\ q \in Procs
      BY <1>1, <3>1, Basics DEF SInv, RInv, IInv, UInv, OwnerInv
    <3>3. PICK k \in 1 .. Len(upd[q]) : m = upd[q][k].bundle
      BY <3>2 DEF BundlesOf
    <3>4. pc[q] \in UpdatePCs
      BY <3>2, <3>3 DEF SInv, RInv, IInv, UInv, UpdateInv
    <3>5. lpc[q] \in {"label", "finalize", "unlock"}
      BY <3>2, <3>4 DEF LInv, LocalInv, PcInv, UpdatePCs, GetPCs, AnnouncePCs, LookupPCs
    <3>6. /\ op[q].type \in {"insert", "erase"} /\ WriteInv(q)
      BY <3>2, <3>5, OwnsNodes DEF LInv, LocalInv
    <3>7. CASE op[q].type = "insert"
      <4>1. PICK n : n = upd[q][1].bundle
        OBVIOUS
      <4>2. InsertInv(q, n)
        BY <3>5, <3>6, <3>7, <4>1 DEF WriteInv
      <4>3. ~marked[n] /\ ~marked[pred[q]] /\ BundlesOf(upd[q]) = {pred[q], n}
        BY <3>2, <3>5, <3>7, <4>1, <4>2, OwnsNodes DEF InsertInv
      <4> QED
        BY <3>2, <4>3
    <3>8. CASE op[q].type = "erase"
      <4>1. PICK s : s = upd[q][1].ptr
        OBVIOUS
      <4>2. EraseInv(q, s)
        BY <3>5, <3>6, <3>8, <4>1 DEF WriteInv
      <4>3. /\ ~marked[pred[q]] /\ (marked[curr[q]] <=> lpc[q] # "label")
            /\ upd[q] = <<Write(pred[q], s), Write(curr[q], HeadNode)>>
        BY <4>2 DEF EraseInv
      <4>4. /\ Len(upd[q]) = 2 /\ upd[q][1].bundle = pred[q]
            /\ upd[q][2].bundle = curr[q] /\ upd[q][2].ptr = HeadNode
        BY <4>3 DEF Write
      <4>5. k = 2 /\ m = curr[q]
        BY <3>3, <4>3, <4>4
      <4>6. lpc[q] # "label"
        BY <4>3, <4>5
      <4>7. pc[q] \in {"finalize", "unlock"}
        BY <3>2, <3>5, <4>6 DEF LInv, LocalInv, PcInv
      <4> QED
        BY <3>3, <4>4, <4>5, <4>7, FinalValue
    <3> QED
      BY <3>6, <3>7, <3>8
  <2> QED
    BY <2>1, <2>2
<1>3. LinksAt(clock)[m] = HeadNode
  BY <1>1, <1>2 DEF LinksAt
<1> QED
  BY <1>1, <1>3 DEF Listed

\* An insert that finds its key between its neighbours finds it in the list.
LEMMA PresentListed ==
  ASSUME SInv, LInv, NEW p \in Procs, lpc[p] = "validate", ValidateLinks(p)
  PROVE  pred[p] \in Listed(LinksAt(clock)) /\ curr[p] \in Listed(LinksAt(clock))
<1>1. lpc[p] \in StoppedLPCs /\ lock[pred[p]] = p /\ pc[p] = "idle"
  BY DEF StoppedLPCs, UpdateLPCs, LInv, LocalInv, LockInv, PcInv
<1>2. /\ pred[p] \in alloc \ {MaxNode} /\ curr[p] \in alloc \ {HeadNode}
      /\ pred[p] \in Nodes /\ curr[p] \in Nodes /\ p # NoProc
  BY <1>1, Neighbours, Basics
<1>3. PICK n \in Nodes : n = pred[p]
  BY <1>2
<1>4. owner[n] = NoProc
  <2> SUFFICES ASSUME owner[n] # NoProc PROVE FALSE
    OBVIOUS
  <2>1. PICK q \in Updaters : q = owner[n]
    BY <1>3, Basics DEF SInv, RInv, IInv, TypeOK
  <2>2. n \in BundlesOf(upd[q]) /\ q \in Procs
    BY <2>1, Basics DEF SInv, RInv, IInv, UInv, OwnerInv
  <2>3. pc[q] \in UpdatePCs
    BY <2>2 DEF SInv, RInv, IInv, UInv, UpdateInv, BundlesOf
  <2>4. lpc[q] \in {"label", "finalize", "unlock"}
    BY <2>2, <2>3 DEF LInv, LocalInv, PcInv, UpdatePCs, GetPCs, AnnouncePCs, LookupPCs
  <2>5. /\ op[q].type \in {"insert", "erase"} /\ WriteInv(q) /\ LockInv(q)
        /\ (op[q].type = "erase" => BundlesOf(upd[q]) = {pred[q], curr[q]})
        /\ (op[q].type = "insert" => BundlesOf(upd[q]) = {pred[q], upd[q][1].bundle})
    BY <2>2, <2>4, OwnsNodes DEF LInv, LocalInv
  <2>6. lock[pred[q]] = q /\ (op[q].type = "erase" => lock[curr[q]] = q)
    BY <2>4, <2>5 DEF LockInv, UpdateLPCs
  <2>7. op[q].type = "insert" => lock[upd[q][1].bundle] = q
    BY <2>4, <2>5 DEF WriteInv, InsertInv
  <2>8. lock[n] = q
    BY <2>2, <2>5, <2>6, <2>7
  <2>9. q = p
    BY <1>1, <1>3, <2>8
  <2> QED
    BY <1>1, <2>3, <2>9 DEF UpdatePCs
<1>5. ~marked[n] /\ next[n] = curr[p] /\ LinkOf(n)
  BY <1>2, <1>3 DEF ValidateLinks, LInv, LinkInv
<1>6. ValueAt(n, clock) = curr[p]
  BY <1>3, <1>4, <1>5, IdleLink, Basics DEF LinkOf, SInv, RInv
<1>7. n \in Listed(LinksAt(clock)) \ {MaxNode} /\ LinksAt(clock)[n] = curr[p]
  BY <1>2, <1>3, <1>6, Basics DEF Listed, LinksAt
<1>8. curr[p] \in Listed(LinksAt(clock))
  BY <1>7, ClockNow, SnapshotProps, SortedProps
<1> QED
  BY <1>3, <1>7, <1>8

(***************************************************************************)
(* The updates that take effect when the clock advances.                   *)
(***************************************************************************)
\* An update whose label is the next one: its place is in the list, and its key
\* is there exactly if it is an erase.
LEMMA ArrivingPlace ==
  ASSUME SInv, LInv, NEW q \in Procs, CommitInv(q), ts[q] = clock
  PROVE  /\ lpc[q] = "label" /\ pc[q] \in {"reload", "bump"} /\ op[q] \in Operation
         /\ op[q].type \in {"insert", "erase"}
         /\ pred[q] \in Listed(LinksAt(clock)) \ {MaxNode} /\ LinksAt(clock)[pred[q]] = curr[q]
         /\ curr[q] \in Listed(LinksAt(clock)) /\ curr[q] # HeadNode
         /\ key[pred[q]] < op[q].lo /\ op[q].lo <= key[curr[q]]
         /\ op[q].type = "erase" => /\ op[q].lo = key[curr[q]] /\ op[q].lo \in AbstractKeys
                                    /\ curr[q] # MaxNode
         /\ op[q].type = "insert" => op[q].lo < key[curr[q]] /\ op[q].lo \notin AbstractKeys
         /\ owner[pred[q]] = q
         /\ op[q].type = "erase" => owner[curr[q]] = q
<1>1. pc[q] \in {"reload", "bump"}
  BY ClockNow DEF SInv, RInv, IInv, UInv, UpdateInv
<1>2. lpc[q] = "label" /\ lpc[q] \in StoppedLPCs /\ lpc[q] # "idle"
  BY <1>1, Labelling DEF StoppedLPCs, UpdateLPCs
<1>3. /\ pred[q] \in alloc \ {MaxNode} /\ curr[q] \in alloc \ {HeadNode}
      /\ pred[q] \in Nodes /\ curr[q] \in Nodes
      /\ op[q].type = "erase" => curr[q] # MaxNode
      /\ key[pred[q]] < op[q].lo /\ op[q].lo <= key[curr[q]]
      /\ op[q].lo \in Int /\ key[pred[q]] \in Int /\ key[curr[q]] \in Int
  BY <1>2, Neighbours
<1>4. /\ op[q] \in Operation /\ op[q].lo \in SetKeys
      /\ op[q].type \in {"insert", "erase"} /\ owner[pred[q]] = q
      /\ op[q].type = "erase" => owner[curr[q]] = q
  BY <1>2, OwnsNodes, OpProps DEF LInv, LocalInv
<1>5. ValueAt(pred[q], clock) = curr[q]
  BY DEF CommitInv
<1>6. pred[q] \in Listed(LinksAt(clock)) \ {MaxNode} /\ LinksAt(clock)[pred[q]] = curr[q]
  BY <1>3, <1>5, Basics DEF Listed, LinksAt
<1>7. /\ SortedLinks(key, LinksAt(clock))
      /\ \A n \in Nodes : key[n] \in Int /\ key[HeadNode] <= key[n] /\ key[n] <= key[MaxNode]
      /\ Listed(LinksAt(clock)) \subseteq Nodes
  BY ClockNow, SnapshotProps
<1>8. curr[q] \in Listed(LinksAt(clock))
  BY <1>6, <1>7, SortedProps
<1>9. op[q].type = "erase" => op[q].lo = key[curr[q]] /\ op[q].lo \in AbstractKeys
  <2> SUFFICES ASSUME op[q].type = "erase" PROVE op[q].lo = key[curr[q]] /\ op[q].lo \in AbstractKeys
    OBVIOUS
  <2>1. op[q].lo = key[curr[q]]
    BY <1>2 DEF LInv, LocalInv, PlaceInv
  <2> QED
    BY <1>4, <1>8, <2>1 DEF AbstractKeys, KeysAt
<1>10. op[q].type = "insert" => op[q].lo < key[curr[q]] /\ op[q].lo \notin AbstractKeys
  <2> SUFFICES ASSUME op[q].type = "insert" PROVE op[q].lo < key[curr[q]] /\ op[q].lo \notin AbstractKeys
    OBVIOUS
  <2>1. op[q].lo < key[curr[q]]
    <3>1. PICK n : n = upd[q][1].bundle
      OBVIOUS
    <3> QED
      BY <1>2, <3>1 DEF LInv, LocalInv, WriteInv, InsertInv
  <2>2. ASSUME NEW m \in Listed(LinksAt(clock)), key[m] = op[q].lo PROVE FALSE
    <3>1. key[m] <= key[pred[q]] \/ key[curr[q]] <= key[m]
      BY <1>6, <1>7, NoneBetween
    <3> QED
      BY <1>3, <2>1, <2>2, <3>1
  <2> QED
    BY <2>1, <2>2 DEF AbstractKeys, KeysAt
<1> QED
  BY <1>1, <1>2, <1>3, <1>4, <1>6, <1>8, <1>9, <1>10

\* They are about different keys.
LEMMA ArrivingApart ==
  ASSUME SInv, LInv, NEW q \in Procs, CommitInv(q), ts[q] = clock,
         NEW r \in Procs, CommitInv(r), ts[r] = clock, op[q].lo = op[r].lo
  PROVE  q = r
<1>1. /\ SortedLinks(key, LinksAt(clock))
      /\ \A n \in Nodes : key[n] \in Int /\ key[HeadNode] <= key[n] /\ key[n] <= key[MaxNode]
      /\ Listed(LinksAt(clock)) \subseteq Nodes
  BY ClockNow, SnapshotProps
<1>2. /\ op[q].type \in {"insert", "erase"}
      /\ pred[q] \in Listed(LinksAt(clock)) \ {MaxNode} /\ LinksAt(clock)[pred[q]] = curr[q]
      /\ curr[q] \in Listed(LinksAt(clock))
      /\ key[pred[q]] < op[q].lo
      /\ op[q].type = "erase" => op[q].lo = key[curr[q]] /\ op[q].lo \in AbstractKeys
      /\ op[q].type = "insert" => op[q].lo < key[curr[q]] /\ op[q].lo \notin AbstractKeys
      /\ owner[pred[q]] = q
      /\ op[q].type = "erase" => owner[curr[q]] = q
      /\ op[q].lo \in Int
  BY ArrivingPlace, AboutOneKey
<1>3. /\ op[r].type \in {"insert", "erase"}
      /\ pred[r] \in Listed(LinksAt(clock)) \ {MaxNode} /\ LinksAt(clock)[pred[r]] = curr[r]
      /\ curr[r] \in Listed(LinksAt(clock))
      /\ key[pred[r]] < op[r].lo
      /\ op[r].type = "erase" => op[r].lo = key[curr[r]] /\ op[r].lo \in AbstractKeys
      /\ op[r].type = "insert" => op[r].lo < key[curr[r]] /\ op[r].lo \notin AbstractKeys
      /\ owner[pred[r]] = r
      /\ op[r].type = "erase" => owner[curr[r]] = r
  BY ArrivingPlace
<1>4. CASE op[q].type = "erase"
  <2>1. op[r].type = "erase"
    BY <1>2, <1>3, <1>4
  <2>2. curr[q] = curr[r]
    BY <1>1, <1>2, <1>3, <1>4, <2>1, KeyOnce
  <2> QED
    BY <1>2, <1>3, <1>4, <2>1, <2>2
<1>5. CASE op[q].type = "insert"
  <2>1. op[r].type = "insert"
    BY <1>2, <1>3, <1>5
  <2>2. key[pred[r]] <= key[pred[q]] \/ key[curr[q]] <= key[pred[r]]
    BY <1>1, <1>2, <1>3, NoneBetween
  <2>3. key[pred[q]] <= key[pred[r]] \/ key[curr[r]] <= key[pred[q]]
    BY <1>1, <1>2, <1>3, NoneBetween
  <2>4. /\ key[pred[q]] \in Int /\ key[pred[r]] \in Int
        /\ key[curr[q]] \in Int /\ key[curr[r]] \in Int
    BY <1>1, <1>2, <1>3
  <2>5. key[pred[q]] = key[pred[r]]
    BY <1>2, <1>3, <1>5, <2>1, <2>2, <2>3, <2>4
  <2>6. pred[q] = pred[r]
    BY <1>1, <1>2, <1>3, <2>5, KeyOnce
  <2> QED
    BY <1>2, <1>3, <2>6
<1> QED
  BY <1>2, <1>4, <1>5

\* What one of them makes of the nodes it writes.
LEMMA ArrivingWrites ==
  ASSUME SInv, LInv, NEW q \in Procs, CommitInv(q), ts[q] = clock
  PROVE  /\ pred[q] \in Listed(LinksAt(clock + 1))
         /\ op[q].type = "erase" => /\ curr[q] \notin Listed(LinksAt(clock + 1))
                                    /\ BundlesOf(upd[q]) = {pred[q], curr[q]}
         /\ op[q].type = "insert" =>
              /\ upd[q][1].bundle \in Listed(LinksAt(clock + 1))
              /\ key[upd[q][1].bundle] = op[q].lo
              /\ BundlesOf(upd[q]) = {pred[q], upd[q][1].bundle}
<1>1. /\ lpc[q] = "label" /\ op[q].type \in {"insert", "erase"}
      /\ curr[q] # HeadNode /\ pred[q] # MaxNode
      /\ op[q].type = "erase" => curr[q] # MaxNode
  BY ArrivingPlace
<1>2. q \in Arriving /\ WriteInv(q)
  BY Basics DEF Arriving, LInv, LocalInv
<1>3. /\ lpc[q] \in StoppedLPCs /\ pred[q] \in Nodes /\ curr[q] \in Nodes
      /\ curr[q] \in alloc /\ HeadNode # NoPtr /\ NoPtr \notin Nodes
  BY <1>1, Neighbours, Basics DEF StoppedLPCs, UpdateLPCs
<1>4. CASE op[q].type = "insert"
  <2>1. PICK n : n = upd[q][1].bundle
    OBVIOUS
  <2>2. InsertInv(q, n)
    BY <1>1, <1>2, <1>4, <2>1 DEF WriteInv
  <2>3. /\ upd[q] = <<Write(n, curr[q]), Write(pred[q], n)>> /\ n \in alloc \ {HeadNode, MaxNode}
        /\ key[n] = op[q].lo
    BY <2>2 DEF InsertInv
  <2>4. /\ Len(upd[q]) = 2 /\ upd[q][1].bundle = n /\ upd[q][1].ptr = curr[q]
        /\ upd[q][2].bundle = pred[q] /\ upd[q][2].ptr = n
    BY <2>3 DEF Write
  <2>5. ValueAt(n, clock + 1) = curr[q] /\ ValueAt(pred[q], clock + 1) = n
    BY <1>2, <2>4, ArrivingValue
  <2>6. n \in Nodes
    BY <2>3 DEF LInv, FormInv
  <2>7. n \in Listed(LinksAt(clock + 1)) /\ pred[q] \in Listed(LinksAt(clock + 1))
    BY <1>1, <1>3, <2>3, <2>5, <2>6 DEF Listed, LinksAt
  <2>8. BundlesOf(upd[q]) = {pred[q], n}
    BY <1>1, <1>4, <2>1, OwnsNodes
  <2> QED
    BY <1>4, <2>1, <2>3, <2>7, <2>8
<1>5. CASE op[q].type = "erase"
  <2>1. PICK s : s = upd[q][1].ptr
    OBVIOUS
  <2>2. EraseInv(q, s)
    BY <1>1, <1>2, <1>5, <2>1 DEF WriteInv
  <2>3. /\ upd[q] = <<Write(pred[q], s), Write(curr[q], HeadNode)>> /\ next[curr[q]] = s
    BY <2>2 DEF EraseInv
  <2>4. /\ Len(upd[q]) = 2 /\ upd[q][1].bundle = pred[q] /\ upd[q][1].ptr = s
        /\ upd[q][2].bundle = curr[q] /\ upd[q][2].ptr = HeadNode
    BY <2>3 DEF Write
  <2>5. ValueAt(pred[q], clock + 1) = s /\ ValueAt(curr[q], clock + 1) = HeadNode
    BY <1>2, <2>4, ArrivingValue
  <2>6. s \in Nodes /\ s # HeadNode
    <3>1. s \in alloc /\ key[curr[q]] < key[s]
      BY <1>1, <1>3, <1>5, <2>3 DEF LInv, LinkInv, LinkOf
    <3>2. /\ s \in Nodes /\ key[s] \in Int /\ key[curr[q]] \in Int /\ key[HeadNode] \in Int
          /\ key[HeadNode] <= key[curr[q]]
      BY <1>3, <3>1, KeyProps, Basics DEF LInv, FormInv
    <3> QED
      BY <3>1, <3>2
  <2>7. curr[q] \notin Listed(LinksAt(clock + 1)) /\ pred[q] \in Listed(LinksAt(clock + 1))
    BY <1>1, <1>3, <1>5, <2>5, <2>6 DEF Listed, LinksAt
  <2>8. BundlesOf(upd[q]) = {pred[q], curr[q]}
    BY <1>1, <1>5, OwnsNodes
  <2> QED
    BY <1>5, <2>7, <2>8
<1> QED
  BY <1>1, <1>4, <1>5

\* The keys of the list at the clock's next value.
LEMMA NextKeys ==
  ASSUME SInv, LInv, \A q \in Procs : CommitInv(q), clock + 1 < Pending
  PROVE  KeysAt(clock + 1) \cap SetKeys =
           (AbstractKeys \cup PutIn(op, Arriving)) \ TakenOut(op, Arriving)
<1>1. \A n \in Nodes : key[n] \in Int /\ key[HeadNode] <= key[n] /\ key[n] <= key[MaxNode]
  BY ClockNow, SnapshotProps
<1>2. SortedLinks(key, LinksAt(clock))
  BY ClockNow, SnapshotProps
<1>3. PICK L \in SUBSET Nodes : L = Listed(LinksAt(clock))
  BY Basics DEF Listed
<1>4. PICK M \in SUBSET Nodes : M = Listed(LinksAt(clock + 1))
  BY Basics DEF Listed
<1>5. ASSUME NEW n \in Nodes, \A q \in Arriving : n \notin BundlesOf(upd[q]) PROVE n \in L <=> n \in M
  <2>1. \A q \in Arriving : \A k \in 1 .. Len(upd[q]) : upd[q][k].bundle # n
    BY <1>5, Basics DEF Arriving, BundlesOf
  <2>2. ValueAt(n, clock + 1) = ValueAt(n, clock)
    BY <2>1, OtherValue, Basics
  <2> QED
    BY <1>3, <1>4, <2>2 DEF Listed, LinksAt
<1>6. ASSUME NEW q \in Arriving
      PROVE  /\ q \in Procs /\ op[q].type \in {"insert", "erase"} /\ op[q].lo \in SetKeys
             /\ pred[q] \in L /\ pred[q] \in M
             /\ op[q].type = "erase" => /\ curr[q] \in L /\ curr[q] \notin M
                                        /\ key[curr[q]] = op[q].lo /\ op[q].lo \in AbstractKeys
                                        /\ BundlesOf(upd[q]) = {pred[q], curr[q]}
             /\ op[q].type = "insert" =>
                  /\ upd[q][1].bundle \in M /\ key[upd[q][1].bundle] = op[q].lo
                  /\ op[q].lo \notin AbstractKeys
                  /\ BundlesOf(upd[q]) = {pred[q], upd[q][1].bundle}
  BY <1>3, <1>4, <1>6, ArrivingPlace, ArrivingWrites, AboutOneKey, Basics DEF Arriving
<1>7. ASSUME NEW k \in KeysAt(clock + 1) \cap SetKeys
      PROVE  (k \in AbstractKeys \/ k \in PutIn(op, Arriving)) /\ k \notin TakenOut(op, Arriving)
  <2>1. PICK n \in M : key[n] = k
    BY <1>4, <1>7 DEF KeysAt
  <2>2. CASE n \in L
    <3>1. k \in AbstractKeys
      BY <1>3, <1>7, <2>1, <2>2 DEF AbstractKeys, KeysAt
    <3>2. ASSUME k \in TakenOut(op, Arriving) PROVE FALSE
      <4>1. PICK q \in Arriving : op[q].type = "erase" /\ k = op[q].lo
        BY <3>2 DEF TakenOut
      <4>2. curr[q] \in L /\ curr[q] \notin M /\ key[curr[q]] = k
        BY <1>6, <4>1
      <4>3. n = curr[q]
        BY <1>1, <1>2, <1>3, <2>1, <2>2, <4>2, KeyOnce
      <4> QED
        BY <2>1, <4>2, <4>3
    <3> QED
      BY <3>1, <3>2
  <2>3. CASE n \notin L
    <3>1. PICK q \in Arriving : n \in BundlesOf(upd[q])
      BY <1>5, <2>1, <2>3
    <3>2. op[q].type = "insert" /\ n = upd[q][1].bundle
      BY <1>6, <2>1, <2>3, <3>1
    <3>3. k = op[q].lo /\ k \notin AbstractKeys
      BY <1>6, <2>1, <3>2
    <3>4. k \in PutIn(op, Arriving)
      BY <3>2, <3>3 DEF PutIn
    <3>5. ASSUME k \in TakenOut(op, Arriving) PROVE FALSE
      <4>1. PICK r \in Arriving : op[r].type = "erase" /\ k = op[r].lo
        BY <3>5 DEF TakenOut
      <4> QED
        BY <1>6, <3>3, <4>1
    <3> QED
      BY <3>4, <3>5
  <2> QED
    BY <2>2, <2>3
<1>8. ASSUME NEW k \in AbstractKeys \cup PutIn(op, Arriving), k \notin TakenOut(op, Arriving)
      PROVE  k \in KeysAt(clock + 1) \cap SetKeys
  <2>1. CASE k \in AbstractKeys
    <3>1. PICK n \in L : key[n] = k
      BY <1>3, <2>1 DEF AbstractKeys, KeysAt
    <3>2. k \in SetKeys
      BY <2>1 DEF AbstractKeys
    <3>3. n \in M
      <4>1. ASSUME n \notin M PROVE FALSE
        <5>1. PICK q \in Arriving : n \in BundlesOf(upd[q])
          BY <1>5, <3>1, <4>1
        <5>2. op[q].type = "erase" /\ n = curr[q]
          BY <1>6, <4>1, <5>1
        <5>3. k = op[q].lo
          BY <1>6, <3>1, <5>2
        <5> QED
          BY <1>8, <5>2, <5>3 DEF TakenOut
      <4> QED
        BY <4>1
    <3> QED
      BY <1>4, <3>1, <3>2, <3>3 DEF KeysAt
  <2>2. CASE k \in PutIn(op, Arriving)
    <3>1. PICK q \in Arriving : op[q].type = "insert" /\ k = op[q].lo
      BY <2>2 DEF PutIn
    <3>2. upd[q][1].bundle \in M /\ key[upd[q][1].bundle] = k /\ k \in SetKeys
      BY <1>6, <3>1
    <3> QED
      BY <1>4, <3>2 DEF KeysAt
  <2> QED
    BY <1>8, <2>1, <2>2
<1>9. \A k : k \in KeysAt(clock + 1) \cap SetKeys <=>
               k \in (AbstractKeys \cup PutIn(op, Arriving)) \ TakenOut(op, Arriving)
  BY <1>7, <1>8
<1> QED
  BY <1>9, Zenon

\* A node that goes out of the list takes its key with it.
LEMMA NextGone ==
  ASSUME SInv, LInv, \A q \in Procs : CommitInv(q), clock + 1 < Pending,
         NEW m \in Listed(LinksAt(clock)), m \notin Listed(LinksAt(clock + 1))
  PROVE  key[m] \notin KeysAt(clock + 1) \cap SetKeys
<1>1. m \in Nodes
  BY Basics DEF Listed
<1>2. \E q \in Arriving : m \in BundlesOf(upd[q])
  <2> SUFFICES ASSUME \A q \in Arriving : m \notin BundlesOf(upd[q]) PROVE FALSE
    OBVIOUS
  <2>1. \A q \in Arriving : \A k \in 1 .. Len(upd[q]) : upd[q][k].bundle # m
    BY Basics DEF Arriving, BundlesOf
  <2>2. ValueAt(m, clock + 1) = ValueAt(m, clock)
    BY <1>1, <2>1, OtherValue, Basics
  <2> QED
    BY <1>1, <2>2 DEF Listed, LinksAt
<1>3. PICK q \in Procs : q \in Arriving /\ ts[q] = clock /\ m \in BundlesOf(upd[q])
  BY <1>2, Basics DEF Arriving
<1>4. op[q].type = "erase" /\ m = curr[q]
  <2>1. /\ pred[q] \in Listed(LinksAt(clock + 1))
        /\ op[q].type = "erase" => BundlesOf(upd[q]) = {pred[q], curr[q]}
        /\ op[q].type = "insert" =>
              /\ upd[q][1].bundle \in Listed(LinksAt(clock + 1))
              /\ BundlesOf(upd[q]) = {pred[q], upd[q][1].bundle}
    BY <1>3, ArrivingWrites
  <2>2. op[q].type \in {"insert", "erase"}
    BY <1>3, ArrivingPlace
  <2> QED
    BY <1>3, <2>1, <2>2
<1>5. key[m] = op[q].lo
  BY <1>3, <1>4, ArrivingPlace
<1>6. key[m] \in TakenOut(op, Arriving)
  BY <1>3, <1>4, <1>5 DEF TakenOut
<1> QED
  BY <1>6, NextKeys

(***************************************************************************)
(* What contains is led to.                                                *)
(***************************************************************************)
\* The newest entry of the bundle of a node with a smaller key, once its label
\* has been reached, leads to the key, or past it if the list does not have it,
\* or to a node with a smaller key yet.
LEMMA HopFrom ==
  ASSUME SInv, LInv, NEW n \in alloc, NEW x \in SetKeys, key[n] < x,
         NEW i, i = Newest(bundle[n]), i # 0, Label(n, i) <= clock,
         NEW m, m = bundle[n].entries[i].ptr
  PROVE  /\ m \in alloc
         /\ key[m] > x => x \notin AbstractKeys
         /\ key[m] = x => x \in AbstractKeys /\ m \in Listed(LinksAt(clock))
<1>1. n \in Nodes /\ n \in Bundles /\ IInv /\ bundle[n] \in Bundle
  BY Basics DEF LInv, FormInv, SInv, RInv, IInv, TypeOK
<1>2. i \in Nat /\ i \in 1 .. i
  BY <1>1, NewestNat
<1>3. i \in Visible(n, clock)
  BY <1>2 DEF Visible
<1>4. VersionAt(n, clock) = i
  BY <1>1, <1>2, <1>3, ValueType
<1>5. ValueAt(n, clock) = m
  BY <1>3, <1>4 DEF ValueAt
<1>6. m \in Nodes
  BY <1>1, <1>2, NewestNat, Basics
<1>7. /\ SortedLinks(key, LinksAt(clock))
      /\ \A l \in Nodes : key[l] \in Int /\ key[HeadNode] <= key[l] /\ key[l] <= key[MaxNode]
      /\ Listed(LinksAt(clock)) \subseteq alloc /\ alloc \subseteq Nodes
      /\ ValueAt(MaxNode, clock) = NoPtr
  BY ClockNow, SnapshotProps
<1>8. CASE m = HeadNode
  <2>1. m \in alloc /\ key[m] < x
    BY <1>8, KeyProps DEF LInv, FormInv
  <2>2. key[m] \in Int /\ x \in Int
    BY <1>6, <1>7, KeysAssumption
  <2> QED
    BY <2>1, <2>2
<1>9. CASE m # HeadNode
  <2>1. n \in Listed(LinksAt(clock)) \ {MaxNode} /\ LinksAt(clock)[n] = m
    BY <1>1, <1>5, <1>6, <1>7, <1>9, Basics DEF Listed, LinksAt
  <2>2. m \in Listed(LinksAt(clock))
    BY <1>7, <2>1, SortedProps
  <2>3. ASSUME key[m] > x PROVE x \notin AbstractKeys
    <3>1. ASSUME NEW l \in Listed(LinksAt(clock)), key[l] = x PROVE FALSE
      <4>1. key[l] <= key[n] \/ key[m] <= key[l]
        BY <1>7, <2>1, NoneBetween
      <4>2. key[l] \in Int /\ key[n] \in Int /\ key[m] \in Int
        BY <1>1, <1>6, <1>7
      <4> QED
        BY <2>3, <3>1, <4>1, <4>2
    <3> QED
      BY <3>1 DEF AbstractKeys, KeysAt
  <2>4. key[m] = x => x \in AbstractKeys
    BY <2>2 DEF AbstractKeys, KeysAt
  <2> QED
    BY <1>7, <2>2, <2>3, <2>4
<1> QED
  BY <1>8, <1>9

\* An entry with the newest label is the newest entry.
LEMMA UnreachedNewest ==
  ASSUME SInv, NEW b \in Bundles, NEW i \in 1 .. Newest(bundle[b]), ~(Label(b, i) <= clock)
  PROVE  i = Newest(bundle[b])
<1>1. IsPending(bundle[b], i)
  BY DEF Label, SInv, RInv, IInv, UInv, LabelsReached
<1> QED
  BY <1>1 DEF SInv, RInv, IInv, UInv, PendingInv

\* Where contains goes next is accounted for.
LEMMA HopSeen ==
  ASSUME SInv, LInv, NEW q \in Procs, NEW E, Report(q) \in E, op[q] \in Operation,
         op[q].type = "contains", NEW n \in alloc, key[n] < op[q].lo,
         Newest(bundle[n]) # 0, Label(n, Newest(bundle[n])) <= clock
  PROVE  HopDone(q, E, bundle[n].entries[Newest(bundle[n])].ptr)
<1>1. PICK i : i = Newest(bundle[n])
  OBVIOUS
<1>2. PICK m : m = bundle[n].entries[i].ptr
  OBVIOUS
<1>3. PICK x \in SetKeys : x = op[q].lo
  BY AboutOneKey
<1>4. /\ m \in alloc
      /\ key[m] > x => x \notin AbstractKeys
      /\ key[m] = x => x \in AbstractKeys /\ m \in Listed(LinksAt(clock))
  BY <1>1, <1>2, <1>3, HopFrom
<1>5. x \notin AbstractKeys => Report(q) = <<>>
  BY <1>3, WhatReaders DEF Report
<1>6. x \in AbstractKeys => Report(q) = <<x>>
  BY <1>3, WhatReaders DEF Report
<1> QED
  BY <1>1, <1>2, <1>3, <1>4, <1>5, <1>6 DEF HopDone

LEMMA HopSeenNext ==
  ASSUME NEW q \in Procs, NEW E, NEW n
  PROVE  (/\ SInv /\ LInv /\ Report(q) \in E /\ op[q] \in Operation
          /\ op[q].type = "contains" /\ n \in alloc /\ key[n] < op[q].lo
          /\ Newest(bundle[n]) # 0 /\ Label(n, Newest(bundle[n])) <= clock)'
         => HopDone(q, E, bundle[n].entries[Newest(bundle[n])].ptr)'
<1>1. (/\ SInv /\ LInv /\ Report(q) \in E /\ op[q] \in Operation
       /\ op[q].type = "contains" /\ n \in alloc /\ key[n] < op[q].lo
       /\ Newest(bundle[n]) # 0 /\ Label(n, Newest(bundle[n])) <= clock)
      => HopDone(q, E, bundle[n].entries[Newest(bundle[n])].ptr)
  BY HopSeen
<1> QED
  BY <1>1, PTL

-----------------------------------------------------------------------------
(***************************************************************************)
(* Steps that leave the clock alone.                                       *)
(***************************************************************************)
\* What a process stands on stays when others take their steps.
LEMMA SideFrame ==
  ASSUME SInv, LInv, NEW p \in Procs, Call(p) \/ ListStep(p), NEW q \in Procs, q # p
  PROVE  cur'[q] = cur[q] /\ ts'[q] = ts[q]
<1>1. Update(p) \/ Query(p) \/ RunContains(p) \/ UNCHANGED vars
  BY StepOfProvider
<1>2. CASE Update(p)
  <2>1. ts \in [Procs -> Nat]
    BY DEF SInv, RInv, IInv, TypeOK
  <2> QED
    BY <1>2, <2>1
    DEF Update, UpdateStep, BeginUpdate, Prepare, LoadTS, ReloadTS, FetchAdd, Finalize,
        EndUpdate, NextBundle, updateVars, readVars
<1>3. CASE Query(p) \/ RunContains(p)
  <2>1. UNCHANGED ts
    BY <1>3, TypeQuery DEF SInv, RInv, Reads, updateVars
  <2> QED
    BY <1>3, <2>1, OwnRead DEF SInv
<1>4. CASE UNCHANGED vars
  BY <1>4 DEF vars
<1> QED
  BY <1>1, <1>2, <1>3, <1>4

\* While the clock stands, a label that has been reached had been before, and the
\* list has the keys it had.
LEMMA ReachedBefore ==
  ASSUME SInv, [Next]_vars, clock' = clock, NEW b \in Bundles,
         NEW i \in 1 .. Newest(bundle[b]), Label(b, i)' <= clock
  PROVE  Label(b, i) <= clock /\ bundle'[b].entries[i].ptr = bundle[b].entries[i].ptr
<1>1. clock \in Nat /\ IInv /\ Newest(bundle[b]) \in Nat
  BY NewestNat DEF SInv, RInv, IInv, TypeOK
<1>2. ASSUME NEW p \in Updaters, LoadTS(p)
      PROVE  Label(b, i) <= clock /\ bundle'[b].entries[i].ptr = bundle[b].entries[i].ptr
  <2>1. UNCHANGED <<bundle, owner>> /\ ts' = [ts EXCEPT ![p] = clock] /\ p \in Procs
    BY <1>2, ProcsAssumption DEF LoadTS
  <2>2. ts \in [Procs -> Nat]
    BY <1>1 DEF IInv, TypeOK
  <2>3. CASE owner[b] = p /\ IsPending(bundle[b], i)
    <3>1. Label(b, i)' = clock + 1
      <4>1. ts'[owner'[b]] = clock /\ owner'[b] = p /\ p # NoProc /\ clock # NullTS
        BY <2>1, <2>2, <2>3, Basics, ClockNow
      <4> QED
        BY <2>1, <2>3, <4>1 DEF Label
    <3> QED
      BY <1>1, <3>1
  <2>4. CASE ~(owner[b] = p /\ IsPending(bundle[b], i))
    <3>1. Label(b, i)' = Label(b, i)
      BY <2>1, <2>2, <2>4 DEF Label
    <3> QED
      BY <2>1, <3>1
  <2> QED
    BY <2>3, <2>4
<1>3. CASE ~\E p \in Updaters : LoadTS(p)
  <2>1. LabelsKept(b)
    BY <1>1, <1>3, NeverCleans, StepKeepsLabels
  <2>2. Newest(bundle'[b]) \in Nat
    BY PastHeld, NewestNat DEF IInv, TypeOK
  <2> QED
    BY <1>1, <2>1, <2>2 DEF LabelsKept
<1> QED
  BY <1>2, <1>3

LEMMA KeysHeld ==
  ASSUME SInv, LInv, [Next]_vars, clock' = clock, \A n \in alloc : key'[n] = key[n]
  PROVE  /\ AbstractKeys' = AbstractKeys
         /\ Listed(LinksAt(clock))' = Listed(LinksAt(clock))
<1>1. PICK t \in FirstTS .. clock : t = clock
  BY ClockNow
<1>2. LinksAt(t)' = LinksAt(t) /\ KeysAt(t)' = KeysAt(t)
  BY SnapshotStays
<1>3. LinksAt(clock)' = LinksAt(t)' /\ KeysAt(clock)' = KeysAt(t)'
  BY <1>1 DEF LinksAt, KeysAt, ValueAt, VersionAt, Visible, Label
<1>4. LinksAt(clock)' = LinksAt(clock) /\ KeysAt(clock)' = KeysAt(clock)
  BY <1>1, <1>2, <1>3
<1> QED
  BY <1>4 DEF AbstractKeys, Listed

\* An operation that goes on has among more results those it had.
LEMMA DoneKept ==
  ASSUME AbstractKeys' = AbstractKeys, NEW q \in Procs, NEW E, NEW F, E \subseteq F, SawDone(q, E),
         op'[q] = op[q], lpc'[q] # "idle" => lpc[q] # "idle", q \in Finished' => q \in Finished
  PROVE  SawDone(q, F)'
<1>1. Report(q)' = Report(q)
  BY DEF Report
<1> QED
  BY <1>1 DEF SawDone

\* A hop that is over stays so.
LEMMA HopKept ==
  ASSUME alloc \subseteq alloc', \A n \in alloc : key'[n] = key[n],
         Listed(LinksAt(clock))' = Listed(LinksAt(clock)),
         NEW q \in Procs, NEW E, NEW F, E \subseteq F, op'[q] = op[q], NEW m, HopDone(q, E, m)
  PROVE  HopDone(q, F, m)'
BY DEF HopDone

\* So does the result of a query.
LEMMA QueryKept ==
  ASSUME SInv, LInv, [Next]_vars, \A n \in alloc : key'[n] = key[n],
         NEW q \in Procs, NEW E, NEW F, E \subseteq F, op'[q] = op[q], qts'[q] = qts[q],
         lpc[q] \in {"announce", "query"}, SawQuery(q, E)
  PROVE  SawQuery(q, F)'
<1> SUFFICES ASSUME qts[q] # NullTS PROVE SawQuery(q, F)'
  BY DEF SawQuery
<1>1. qts[q] \in FirstTS .. clock
  BY DEF SInv, RInv, ReadInv, ReadsWell, IInv, TypeOK, FirstTS
<1>2. PICK t \in FirstTS .. clock : t = qts[q]
  BY <1>1
<1>3. KeysAt(t)' = KeysAt(t)
  BY SnapshotStays
<1>4. KeysAt(qts[q])' = KeysAt(qts[q])
  <2>1. KeysAt(qts[q])' = KeysAt(t)'
    BY <1>2 DEF LinksAt, KeysAt, ValueAt, VersionAt, Visible, Label
  <2> QED
    BY <1>2, <1>3, <2>1
<1> QED
  BY <1>4 DEF SawQuery

\* A process that does not take the step, while the clock stands.
LEMMA SawKept ==
  ASSUME SInv, LInv, [Next]_vars, clock' = clock, alloc \subseteq alloc',
         \A n \in alloc : key'[n] = key[n],
         NEW q \in Procs, GetInv(q), q \in Finished' => q \in Finished,
         /\ lpc'[q] = lpc[q] /\ op'[q] = op[q] /\ pc'[q] = pc[q] /\ qts'[q] = qts[q]
         /\ at'[q] = at[q] /\ out'[q] = out[q] /\ cur'[q] = cur[q],
         NEW E, NEW F, E \subseteq F, Saw(q, E)
  PROVE  Saw(q, F)'
<1>1. AbstractKeys' = AbstractKeys /\ Listed(LinksAt(clock))' = Listed(LinksAt(clock))
  BY KeysHeld
<1>2. SawDone(q, F)'
  BY <1>1, DoneKept DEF Saw
<1>3. SawHop(q, F)'
  <2> SUFFICES ASSUME lpc[q] = "contains" PROVE SawHop(q, F)'
    BY DEF SawHop
  <2>1. pc[q] = "got" => HopDone(q, F, out[q])'
    <3> SUFFICES ASSUME pc[q] = "got" PROVE HopDone(q, F, out[q])'
      OBVIOUS
    <3>1. PICK m : m = out[q]
      OBVIOUS
    <3>2. HopDone(q, F, m)'
      BY <1>1, <3>1, HopKept DEF Saw, SawHop
    <3> QED
      BY <3>1, <3>2 DEF HopDone
  <2>2. pc[q] = "get" /\ Label(at[q], cur[q])' <= clock' =>
          HopDone(q, F, bundle[at[q]].entries[cur[q]].ptr)'
    <3> SUFFICES ASSUME pc[q] = "get", Label(at[q], cur[q])' <= clock'
                 PROVE  HopDone(q, F, bundle[at[q]].entries[cur[q]].ptr)'
      OBVIOUS
    <3>1. PICK b, i : b = at[q] /\ i = cur[q]
      OBVIOUS
    <3>2. b \in Bundles /\ i \in 1 .. Newest(bundle[b])
      <4>1. b \in Bundles /\ i \in 0 .. Newest(bundle[b]) /\ i # 0 /\ bundle[b] \in Bundle
        BY <3>1 DEF SInv, RInv, IInv, TypeOK, ReaderInv
      <4> QED
        BY <4>1, NewestNat
    <3>3. Label(b, i)' <= clock
      BY <3>1 DEF Label
    <3>4. Label(b, i) <= clock /\ bundle'[b].entries[i].ptr = bundle[b].entries[i].ptr
      BY <3>2, <3>3, ReachedBefore
    <3>5. PICK m : m = bundle[b].entries[i].ptr
      OBVIOUS
    <3>6. HopDone(q, F, m)'
      BY <1>1, <3>1, <3>4, <3>5, HopKept DEF Saw, SawHop
    <3> QED
      BY <3>1, <3>4, <3>5, <3>6 DEF HopDone
  <2> QED
    BY <2>1, <2>2 DEF SawHop
<1>4. SawQuery(q, F)'
  <2>1. CASE lpc[q] \in {"announce", "query"}
    BY <2>1, QueryKept DEF Saw
  <2>2. CASE lpc[q] \notin {"announce", "query"}
    BY <2>2 DEF SawQuery
  <2> QED
    BY <2>1, <2>2
<1> QED
  BY <1>2, <1>3, <1>4 DEF Saw

\* Only the return of an update takes it out of those that have taken effect,
\* while the clock stands.
LEMMA FinishedKept ==
  ASSUME SInv, LInv, NEW p \in Procs, Call(p) \/ ListStep(p), clock' = clock
  PROVE  /\ \A q \in Procs : q # p => (q \in Finished' <=> q \in Finished)
         /\ ~UnlockPred(p) => Finished' = Finished
         /\ UnlockPred(p) => p \in Finished
<1>1. ASSUME NEW q \in Procs, q # p PROVE q \in Finished' <=> q \in Finished
  <2>1. ts'[q] = ts[q] /\ lpc'[q] = lpc[q]
    BY <1>1, SideFrame, FrameHolds DEF Frame
  <2> QED
    BY <2>1 DEF Finished
<1>2. ASSUME ~UnlockPred(p) PROVE p \in Finished' <=> p \in Finished
  <2>1. /\ lpc \in [Procs -> {"idle", "search"} \cup StoppedLPCs] /\ ts \in [Procs -> Nat]
        /\ pc \in [Procs -> PCs]
        /\ (ts[p] # NullTS <=> pc[p] \in {"reload", "bump", "finalize", "unlock"})
        /\ (pc[p] \in {"finalize", "unlock"} => ts[p] < clock)
        /\ PcInv(p) /\ clock \in Nat
    BY DEF LInv, FormInv, LocalInv, SInv, RInv, IInv, TypeOK, UInv, UpdateInv
  <2>2. CASE UnlockFirst(p)
    <3>1. lpc'[p] = "unlockPred" /\ pc[p] = "unlock"
      BY <2>1, <2>2 DEF UnlockFirst, Goto
    <3> QED
      BY <2>1, <3>1 DEF Finished
  <2>3. CASE PrepareAndLabel(p)
    <3>1. lpc'[p] = "label" /\ lpc[p] = "label"
      BY <2>1, <2>3 DEF PrepareAndLabel
    <3>2. ts'[p] = ts[p] \/ (ts'[p] = clock /\ ts[p] = NullTS)
      BY <2>1, <2>3 DEF PrepareAndLabel, Prepare, LoadTS, ReloadTS, FetchAdd, updateVars
    <3> QED
      BY <2>1, <3>1, <3>2 DEF Finished
  <2>4. CASE ~UnlockFirst(p) /\ ~PrepareAndLabel(p)
    <3>1. ts'[p] = ts[p]
      BY <1>2, <2>4
      DEF ListStep, Call, Search, LockCurr, LockPred, Invalid, Present, BeginInsert, BeginErase,
          LinWrite, FinalizeBundles, Unlink, RetryCurr, RetryPred, EnterNewest, GetNext,
          EndContains, StartQuery, EnterSnapshot, ReadBundle, Collect, EndQuery, vars, updateVars,
          BeginUpdate, Finalize, StartTraversal, AnnounceStep, ReadClock, Announce, ClearFlag,
          BeginLookup, LookupStep, CheckFirst, LoadSecond, CheckSecond, AwaitLabel, Walk,
          EndTraversal, BeginGet, Get, EndGet
    <3>2. lpc'[p] # "unlockPred" /\ lpc[p] # "unlockPred"
      <4>1. lpc[p] # "idle" => op[p].type \in OpTypes
        BY OpProps DEF LInv, LocalInv
      <4>2. CASE Search(p)
        BY <2>1, <4>1, <4>2 DEF Search, Found, OpTypes, Goto, ReturnKeys
      <4> QED
        BY <1>2, <2>1, <2>4, <4>2
        DEF ListStep, Call, LockCurr, LockPred, Invalid, Present, BeginInsert, BeginErase,
            LinWrite, FinalizeBundles, Unlink, RetryCurr, RetryPred, EnterNewest, GetNext,
            EndContains, StartQuery, EnterSnapshot, ReadBundle, Collect, EndQuery, Goto, ReturnKeys
    <3> QED
      BY <3>1, <3>2 DEF Finished
  <2> QED
    BY <2>2, <2>3, <2>4
<1>3. UnlockPred(p) => p \in Finished
  BY DEF UnlockPred, Finished
<1>4. ~UnlockPred(p) => Finished' = Finished
  <2> SUFFICES ASSUME ~UnlockPred(p) PROVE Finished' = Finished
    OBVIOUS
  <2>1. \A q \in Procs : q \in Finished' <=> q \in Finished
    BY <1>1, <1>2
  <2>2. \A q : (q \in Finished' => q \in Procs) /\ (q \in Finished => q \in Procs)
    BY DEF Finished
  <2>3. \A q : q \in Finished' <=> q \in Finished
    BY <2>1, <2>2
  <2> QED
    BY <2>3, Zenon
<1> QED
  BY <1>1, <1>3, <1>4

\* The others, while the clock stands.
LEMMA OthersSee ==
  ASSUME SInv, LInv, NEW p \in Procs, Call(p) \/ ListStep(p), clock' = clock,
         NEW q \in Procs, q # p, GetInv(q), CommitInv(q)
  PROVE  /\ GetInv(q)' /\ CommitInv(q)'
         /\ \A E, F : E \subseteq F /\ Saw(q, E) => Saw(q, F)'
<1>1. [Next]_vars /\ Frame(p)
  BY StepIsNext, FrameHolds
<1>2. /\ lpc'[q] = lpc[q] /\ op'[q] = op[q] /\ pc'[q] = pc[q] /\ qts'[q] = qts[q]
      /\ at'[q] = at[q] /\ out'[q] = out[q] /\ cur'[q] = cur[q] /\ ts'[q] = ts[q]
      /\ pred'[q] = pred[q] /\ curr'[q] = curr[q]
      /\ alloc \subseteq alloc' /\ \A n \in alloc : key'[n] = key[n]
  BY <1>1, SideFrame DEF Frame
<1>3. GetInv(q)'
  BY <1>2 DEF GetInv
<1>4. CommitInv(q)'
  <2> SUFFICES ASSUME ts'[q] = clock' PROVE ValueAt(pred[q], clock)' = curr'[q]
    BY DEF CommitInv
  <2>1. PICK t \in FirstTS .. clock : t = clock
    BY ClockNow
  <2>2. PICK n \in Nodes : n = pred[q]
    BY DEF LInv, FormInv
  <2>3. ValueAt(n, t) = curr[q]
    BY <1>2, <2>1, <2>2 DEF CommitInv
  <2>4. ValueAt(n, t)' = ValueAt(n, t)
    BY <1>1, PastHeld, Basics
  <2>5. pred'[q] = n /\ clock' = t
    BY <1>2, <2>1, <2>2
  <2>6. ValueAt(pred[q], clock)' = ValueAt(n, t)'
    BY <2>5 DEF ValueAt, VersionAt, Visible, Label
  <2> QED
    BY <1>2, <2>3, <2>4, <2>6
<1>5. ASSUME NEW E, NEW F, E \subseteq F, Saw(q, E) PROVE Saw(q, F)'
  BY <1>1, <1>2, <1>5, FinishedKept, SawKept
<1> QED
  BY <1>3, <1>4, <1>5

\* When an update loads the clock its place is still as it found it.
LEMMA LoadedPlace ==
  ASSUME SInv, LInv, NEW p \in Procs, pc[p] = "load", NEW b \in Bundles, owner[b] = p
  PROVE  ValueAt(b, clock) = ValueAt(b, LastTS)
<1>1. IInv /\ clock \in Nat /\ clock <= LastTS /\ LastTS \in Nat /\ LastTS < Pending
  BY PendingAssumption DEF SInv, RInv, IInv, TypeOK, UInv, ClockInv, LastTS
<1>2. ts[p] = NullTS
  BY DEF SInv, RInv, IInv, UInv, UpdateInv
<1>3. \A i \in 1 .. Newest(bundle[b]) : Label(b, i) <= clock \/ Label(b, i) = Pending
  BY <1>1, <1>2 DEF Label, SInv, RInv, IInv, UInv, LabelsReached
<1>4. \A i \in 1 .. Newest(bundle[b]) : Label(b, i) <= clock <=> Label(b, i) <= LastTS
  BY <1>1, <1>3, LabelRange
<1>5. Visible(b, clock) = Visible(b, LastTS)
  BY <1>4 DEF Visible
<1> QED
  BY <1>5, SameVisible

LEMMA OwnCommit ==
  ASSUME SInv, LInv, NEW p \in Procs, CommitInv(p), Call(p) \/ ListStep(p)
  PROVE  CommitInv(p)'
<1> SUFFICES ASSUME ts'[p] = clock' PROVE ValueAt(pred[p], clock)' = curr'[p]
  BY DEF CommitInv
<1>1. [Next]_vars /\ Frame(p)
  BY StepIsNext, FrameHolds
<1>2. IInv' /\ LocalInv(p)' /\ PcInv(p)
  BY <1>1, PastHeld, OwnLocal DEF LInv, LocalInv
<1>3. clock' # NullTS
  BY <1>2 DEF IInv, UInv, ClockInv, FirstTS, NullTS
<1>4. pc'[p] \in {"reload", "bump"}
  <2>1. UpdateInv' /\ clock' \in Nat
    BY <1>2 DEF IInv, TypeOK, UInv
  <2>2. ts'[p] # NullTS /\ ~(ts'[p] < clock')
    BY <1>3, <2>1
  <2> QED
    BY <2>1, <2>2 DEF UpdateInv
<1>5. lpc'[p] = "label"
  BY <1>2, <1>4 DEF LocalInv, PcInv, GetPCs, AnnouncePCs, LookupPCs
<1>6. /\ lpc \in [Procs -> {"idle", "search"} \cup StoppedLPCs] /\ pc \in [Procs -> PCs]
      /\ ts \in [Procs -> Nat] /\ clock \in Nat
  BY DEF LInv, FormInv, SInv, RInv, IInv, TypeOK
<1>7. PrepareAndLabel(p)
  <2>1. CASE Search(p)
    <3>1. lpc[p] # "idle" => op[p].type \in OpTypes
      BY OpProps DEF LInv, LocalInv
    <3> QED
      BY <1>5, <1>6, <2>1, <3>1 DEF Search, Found, OpTypes, Goto, ReturnKeys
  <2>2. CASE BeginInsert(p) \/ BeginErase(p)
    BY <1>4, <1>6, <2>2 DEF BeginInsert, BeginErase, BeginUpdate
  <2> QED
    BY <1>5, <1>6, <2>1, <2>2
    DEF ListStep, Call, LockCurr, LockPred, Invalid, Present, UnlockFirst, UnlockPred,
        LinWrite, FinalizeBundles, Unlink, RetryCurr, RetryPred, EnterNewest, GetNext,
        EndContains, StartQuery, EnterSnapshot, ReadBundle, Collect, EndQuery, Goto, ReturnKeys
<1>8. LoadTS(p) \/ ReloadTS(p)
  BY <1>4, <1>6, <1>7 DEF PrepareAndLabel, Prepare, NextBundle, FetchAdd
<1>9. clock' = clock /\ pred' = pred /\ curr' = curr /\ lpc[p] = "label"
  BY <1>7, <1>8 DEF LoadTS, ReloadTS, PrepareAndLabel, localVars
<1>10. PICK t \in FirstTS .. clock : t = clock
  BY ClockNow
<1>11. PICK n \in Nodes : n = pred[p]
  BY DEF LInv, FormInv
<1>12. ValueAt(n, clock) = curr[p]
  <2>1. CASE LoadTS(p)
    <3>1. pc[p] = "load" /\ UnseenInv(p) /\ owner[n] = p
      BY <1>9, <1>11, <2>1, OwnsNodes DEF LoadTS, LInv, LocalInv
    <3>2. ValueAt(n, LastTS) = curr[p]
      BY <1>11, <3>1 DEF UnseenInv
    <3> QED
      BY <3>1, <3>2, LoadedPlace, Basics
  <2>2. CASE ReloadTS(p)
    <3>1. ts' = ts
      BY <2>2 DEF ReloadTS, updateVars
    <3> QED
      BY <1>9, <1>11, <3>1 DEF CommitInv
  <2> QED
    BY <1>8, <2>1, <2>2
<1>13. ValueAt(n, t)' = ValueAt(n, t)
  BY <1>1, PastHeld, Basics
<1>14. ValueAt(pred[p], clock)' = ValueAt(n, t)'
  BY <1>9, <1>10, <1>11 DEF ValueAt, VersionAt, Visible, Label
<1> QED
  BY <1>9, <1>10, <1>12, <1>13, <1>14

\* contains goes only to nodes in use with smaller keys.
LEMMA OwnGet ==
  ASSUME SInv, LInv, NEW p \in Procs, GetInv(p), NEW E, Saw(p, E), Call(p) \/ ListStep(p)
  PROVE  GetInv(p)'
<1>1. /\ lpc \in [Procs -> {"idle", "search"} \cup StoppedLPCs] /\ pc \in [Procs -> PCs]
      /\ op \in [Procs -> Operation \cup {[type |-> "none"]}]
      /\ at \in [Procs -> Bundles \cup {NoBundle}]
      /\ PlaceInv(p) /\ Frame(p)
  BY FrameHolds DEF LInv, FormInv, LocalInv, SInv, RInv, IInv, TypeOK
<1>2. CASE Search(p)
  <2>1. lpc[p] # "idle" => op[p].type \in OpTypes
    BY OpProps DEF LInv, LocalInv
  <2> QED
    BY <1>1, <1>2, <2>1 DEF Search, Found, OpTypes, Goto, ReturnKeys, GetInv, callVars
<1>3. CASE EnterNewest(p)
  <2>1. /\ lpc[p] = "enter" /\ lpc'[p] = "contains" /\ op' = op /\ at'[p] = pred[p] /\ key' = key
        /\ alloc' = alloc
    BY <1>1, <1>3 DEF EnterNewest, BeginGet, Goto, callVars, nodeVars
  <2>2. pred[p] \in alloc /\ key[pred[p]] < op[p].lo
    BY <1>1, <2>1 DEF PlaceInv, StoppedLPCs, ReadLPCs
  <2> QED
    BY <2>1, <2>2 DEF GetInv
<1>4. CASE GetNext(p)
  <2>1. /\ lpc[p] = "contains" /\ lpc'[p] = "contains" /\ op' = op /\ key' = key /\ alloc' = alloc
    BY <1>1, <1>4 DEF GetNext, callVars, nodeVars
  <2>2. CASE Get(p)
    <3>1. pc'[p] = "got"
      BY <1>1, <2>2 DEF Get, Return
    <3> QED
      BY <2>1, <3>1 DEF GetInv
  <2>3. CASE pc[p] = "got" /\ key[out[p]] < op[p].lo /\ BeginGet(p, out[p])
    <3>1. at'[p] = out[p]
      BY <1>1, <2>3 DEF BeginGet
    <3>2. out[p] \in alloc
      BY <2>1, <2>3 DEF Saw, SawHop, HopDone
    <3> QED
      BY <2>1, <2>3, <3>1, <3>2 DEF GetInv
  <2> QED
    BY <1>4, <2>2, <2>3 DEF GetNext
<1>5. CASE StartQuery(p) \/ EnterSnapshot(p) \/ ReadBundle(p) \/ Collect(p)
  <2>1. lpc[p] \in {"announce", "query"} /\ lpc'[p] \in {"announce", "query"} /\ op' = op
    BY <1>1, <1>5 DEF StartQuery, EnterSnapshot, ReadBundle, Collect, Goto, callVars
  <2> QED
    BY <2>1 DEF GetInv
<1>6. CASE ~(Search(p) \/ EnterNewest(p) \/ GetNext(p) \/ StartQuery(p) \/ EnterSnapshot(p)
             \/ ReadBundle(p) \/ Collect(p))
  <2>1. lpc'[p] \notin {"enter", "contains", "announce", "query"}
    BY <1>1, <1>6
    DEF ListStep, Call, LockCurr, LockPred, Invalid, Present, BeginInsert, BeginErase,
        PrepareAndLabel, UnlockFirst, UnlockPred, LinWrite, FinalizeBundles, Unlink, RetryCurr,
        RetryPred, EndContains, EndQuery, Goto, ReturnKeys
  <2> QED
    BY <2>1 DEF GetInv
<1> QED
  BY <1>2, <1>3, <1>4, <1>5, <1>6

\* contains steps along the bundles.
LEMMA OwnHop ==
  ASSUME SInv, LInv, NEW p \in Procs, GetInv(p), NEW E, Saw(p, E), EnterNewest(p) \/ GetNext(p)
  PROVE  SawHop(p, E)'
<1>1. /\ lpc \in [Procs -> {"idle", "search"} \cup StoppedLPCs] /\ pc \in [Procs -> PCs]
      /\ at \in [Procs -> Bundles \cup {NoBundle}] /\ cur \in [Procs -> Nat]
      /\ out \in [Procs -> Ptrs \cup {NoPtr}]
      /\ PlaceInv(p) /\ CallInv(p) /\ NothingFreed
  BY DEF LInv, FormInv, LocalInv, SInv, RInv, IInv, TypeOK
<1>2. /\ lpc[p] \in {"enter", "contains"} /\ lpc'[p] = "contains"
      /\ UNCHANGED <<op, key, alloc, clock, bundle, owner, ts, next>>
  BY <1>1 DEF EnterNewest, GetNext, Goto, callVars, nodeVars, BeginGet, Get, updateVars
<1>3. op[p] \in Operation /\ op[p].type = "contains" /\ Report(p) \in E
  BY <1>1, <1>2 DEF CallInv, GetInv, Saw, SawDone
<1>4. UNCHANGED vars \/ RunContains(p)
  <2>1. EnterNewest(p) \/ GetNext(p) => ListStep(p)
    BY DEF ListStep
  <2>2. EnterNewest(p) => RunContains(p)
    <3> SUFFICES ASSUME EnterNewest(p) PROVE RunContains(p)
      OBVIOUS
    <3>1. pred[p] \in Bundles /\ BeginGet(p, pred[p])
      BY Basics DEF EnterNewest, LInv, FormInv
    <3> QED
      BY <3>1 DEF RunContains
  <2>3. GetNext(p) => RunContains(p)
    <3> SUFFICES ASSUME GetNext(p) PROVE RunContains(p)
      OBVIOUS
    <3>1. CASE Get(p)
      BY <3>1 DEF RunContains
    <3>2. CASE pc[p] = "got" /\ key[out[p]] < op[p].lo /\ BeginGet(p, out[p])
      <4>1. lpc[p] = "contains"
        BY DEF GetNext
      <4>2. out[p] \in Bundles
        BY <3>2, <4>1, Basics DEF LInv, LocalInv, PcInv
      <4> QED
        BY <3>2, <4>2 DEF RunContains
    <3> QED
      BY <3>1, <3>2 DEF GetNext
  <2> QED
    BY <2>2, <2>3
<1>5. [Next]_vars
  BY <1>4, Basics DEF Next
<1>6. AbstractKeys' = AbstractKeys /\ Listed(LinksAt(clock))' = Listed(LinksAt(clock))
  BY <1>2, <1>5, KeysHeld
<1>7. ASSUME NEW b \in alloc, key[b] < op[p].lo, BeginGet(p, b) PROVE SawHop(p, E)'
  <2>1. PICK i : i = Newest(bundle[b])
    OBVIOUS
  <2>2. pc'[p] = "get" /\ at'[p] = b /\ cur'[p] = i /\ i # 0
    BY <1>1, <1>7, <2>1 DEF BeginGet
  <2>3. ASSUME Label(at[p], cur[p])' <= clock' PROVE HopDone(p, E, bundle[at[p]].entries[cur[p]].ptr)'
    <3>1. Label(at[p], cur[p])' = Label(b, i)
      BY <1>2, <2>2 DEF Label
    <3>2. Label(b, i) <= clock
      BY <1>2, <2>3, <3>1
    <3>3. PICK m : m = bundle[b].entries[i].ptr
      OBVIOUS
    <3>4. HopDone(p, E, m)
      BY <1>3, <1>7, <2>1, <2>2, <3>2, <3>3, HopSeen
    <3>5. HopDone(p, E, m)'
      BY <1>2, <1>6, <3>4, HopKept
    <3>6. bundle'[at'[p]].entries[cur'[p]].ptr = m
      BY <1>2, <2>2, <3>3
    <3> QED
      BY <3>5, <3>6 DEF HopDone
  <2> QED
    BY <2>2, <2>3 DEF SawHop
<1>8. CASE EnterNewest(p)
  <2>1. pred[p] \in alloc /\ key[pred[p]] < op[p].lo /\ BeginGet(p, pred[p])
    BY <1>1, <1>8 DEF EnterNewest, PlaceInv, StoppedLPCs, ReadLPCs
  <2> QED
    BY <1>7, <2>1
<1>9. CASE GetNext(p)
  <2>1. lpc[p] = "contains"
    BY <1>9 DEF GetNext
  <2>2. CASE Get(p)
    <3>1. PICK b, i : b = at[p] /\ i = cur[p]
      OBVIOUS
    <3>2. b \in Bundles /\ i \in 1 .. Newest(bundle[b]) /\ i # 0 /\ pc[p] = "get"
      <4>1. /\ pc[p] = "get" /\ b \in Bundles /\ i \in 0 .. Newest(bundle[b]) /\ i # 0
            /\ bundle[b] \in Bundle
        BY <2>2, <3>1 DEF Get, SInv, RInv, IInv, TypeOK, ReaderInv
      <4> QED
        BY <4>1, NewestNat
    <3>3. ~Freed(b, i) /\ ~IsPending(bundle[b], i)
      <4>1. ~Freed(b, i)
        BY <1>1, <3>2 DEF NothingFreed, Freed
      <4> QED
        BY <2>2, <3>1, <4>1 DEF Get
    <3>4. PICK m : m = bundle[b].entries[i].ptr
      OBVIOUS
    <3>5. pc'[p] = "got" /\ out'[p] = m
      BY <1>1, <2>2, <3>1, <3>2, <3>3, <3>4 DEF Get, Return
    <3>6. Label(b, i) <= clock
      BY <3>2, <3>3 DEF Label, SInv, RInv, IInv, UInv, LabelsReached
    <3>7. HopDone(p, E, m)
      BY <2>1, <3>1, <3>2, <3>4, <3>6 DEF Saw, SawHop
    <3>8. HopDone(p, E, m)'
      BY <1>2, <1>6, <3>7, HopKept
    <3>9. HopDone(p, E, out[p])'
      BY <3>5, <3>8 DEF HopDone
    <3> QED
      BY <3>5, <3>9 DEF SawHop
  <2>3. CASE pc[p] = "got" /\ key[out[p]] < op[p].lo /\ BeginGet(p, out[p])
    <3>1. out[p] \in alloc
      BY <2>1, <2>3 DEF Saw, SawHop, HopDone
    <3> QED
      BY <1>7, <2>3, <3>1
  <2> QED
    BY <1>9, <2>2, <2>3 DEF GetNext
<1> QED
  BY <1>8, <1>9

\* A range query takes its snapshot, and keeps it.
LEMMA OwnQuery ==
  ASSUME SInv, LInv, NEW p \in Procs, GetInv(p), NEW E, Saw(p, E), ListStep(p),
         StartQuery(p) \/ EnterSnapshot(p) \/ ReadBundle(p) \/ Collect(p)
  PROVE  SawQuery(p, E)'
<1>1. /\ lpc \in [Procs -> {"idle", "search"} \cup StoppedLPCs] /\ pc \in [Procs -> PCs]
      /\ qts \in [Procs -> Nat] /\ CallInv(p)
  BY DEF LInv, FormInv, LocalInv, SInv, RInv, IInv, TypeOK
<1>2. /\ lpc[p] \in {"announce", "query"} /\ UNCHANGED <<op, clock>>
      /\ UNCHANGED nodeVars /\ lpc'[p] \in {"announce", "query"}
  BY <1>1
  DEF StartQuery, EnterSnapshot, ReadBundle, Collect, Goto, callVars, StartTraversal, AnnounceStep,
      ReadClock, Announce, ClearFlag, BeginLookup, LookupStep, CheckFirst, LoadSecond, CheckSecond,
      AwaitLabel, Walk
<1>3. [Next]_vars /\ UNCHANGED key
  BY <1>2, StepIsNext DEF nodeVars
<1>4. CASE qts'[p] = qts[p]
  BY <1>2, <1>3, <1>4, QueryKept DEF Saw
<1>5. CASE qts'[p] # qts[p]
  <2>1. ReadClock(p)
    BY <1>5
    DEF StartQuery, EnterSnapshot, ReadBundle, Collect, StartTraversal, AnnounceStep,
        Announce, ClearFlag, BeginLookup, LookupStep, CheckFirst, LoadSecond, CheckSecond,
        AwaitLabel, Walk
  <2>2. qts'[p] = clock /\ op[p] \in Operation /\ op[p].type = "range"
    BY <1>1, <1>2, <2>1 DEF ReadClock, CallInv, GetInv
  <2>3. PICK t \in FirstTS .. clock : t = clock
    BY ClockNow
  <2>4. KeysAt(t)' = KeysAt(t)
    BY <1>3, SnapshotStays
  <2>5. KeysAt(qts[p])' = KeysAt(t)'
    BY <2>2, <2>3 DEF LinksAt, KeysAt, ValueAt, VersionAt, Visible, Label
  <2>6. Report(p) \in E
    BY <1>2, <2>2 DEF Saw, SawDone
  <2>7. Report(p) = Ascending(InRange(op[p]) \cap AbstractKeys)
    BY <2>2, WhatReaders DEF Report
  <2>8. InRange(op[p]) \cap AbstractKeys = InRange(op[p]) \cap KeysAt(t)
    BY <2>3 DEF AbstractKeys, InRange
  <2> QED
    BY <1>2, <2>4, <2>5, <2>6, <2>7, <2>8 DEF SawQuery
<1> QED
  BY <1>4, <1>5

\* What a process can return it still can after a step of its own, unless that is
\* its return or the clock advances.
LEMMA OwnSaw ==
  ASSUME SInv, LInv, NEW p \in Procs, GetInv(p), NEW E, Saw(p, E), ListStep(p), clock' = clock,
         lpc[p] # "idle", lpc'[p] # "idle", op' = op
  PROVE  Saw(p, E)'
<1>1. [Next]_vars /\ Frame(p)
  BY StepIsNext, FrameHolds
<1>2. /\ lpc \in [Procs -> {"idle", "search"} \cup StoppedLPCs] /\ pc \in [Procs -> PCs]
      /\ (lpc[p] = "search" => pc[p] = "idle" /\ qts[p] = NullTS)
  BY DEF LInv, FormInv, LocalInv, PcInv, SInv, RInv, IInv, TypeOK, QuietInv, Quiet, QueryingPCs,
         LookupPCs
<1>3. SawDone(p, E)'
  <2>1. ~UnlockPred(p)
    BY <1>2 DEF UnlockPred, ReturnKeys, Goto
  <2>2. Finished' = Finished
    BY <2>1, FinishedKept
  <2>3. AbstractKeys' = AbstractKeys
    BY <1>1, KeysHeld DEF Frame
  <2> QED
    BY <2>2, <2>3, DoneKept DEF Saw
<1>4. CASE EnterNewest(p) \/ GetNext(p)
  <2>1. lpc'[p] = "contains"
    BY <1>2, <1>4 DEF EnterNewest, GetNext, Goto
  <2>2. SawQuery(p, E)'
    BY <2>1 DEF SawQuery
  <2> QED
    BY <1>3, <1>4, <2>2, OwnHop DEF Saw
<1>5. CASE StartQuery(p) \/ EnterSnapshot(p) \/ ReadBundle(p) \/ Collect(p)
  <2>1. lpc'[p] \in {"announce", "query"}
    BY <1>2, <1>5 DEF StartQuery, EnterSnapshot, ReadBundle, Collect, Goto
  <2>2. SawHop(p, E)'
    BY <2>1 DEF SawHop
  <2> QED
    BY <1>3, <1>5, <2>2, OwnQuery DEF Saw
<1>6. CASE Search(p)
  <2>1. lpc[p] # "idle" => op[p].type \in OpTypes
    BY OpProps DEF LInv, LocalInv
  <2>2. lpc[p] = "search" /\ qts' = qts
    BY <1>6 DEF Search, vars
  <2>3. lpc'[p] # "contains"
    BY <1>2, <1>6, <2>1, <2>2 DEF Search, Found, OpTypes, Goto, ReturnKeys
  <2> QED
    BY <1>2, <1>3, <2>2, <2>3 DEF Saw, SawHop, SawQuery
<1>7. CASE ~(Search(p) \/ EnterNewest(p) \/ GetNext(p) \/ StartQuery(p) \/ EnterSnapshot(p)
             \/ ReadBundle(p) \/ Collect(p))
  <2>1. lpc'[p] \notin {"contains", "announce", "query"}
    BY <1>2, <1>7
    DEF ListStep, LockCurr, LockPred, Invalid, Present, BeginInsert, BeginErase,
        PrepareAndLabel, UnlockFirst, UnlockPred, LinWrite, FinalizeBundles, Unlink, RetryCurr,
        RetryPred, EndContains, EndQuery, Goto, ReturnKeys
  <2> QED
    BY <1>3, <2>1 DEF Saw, SawHop, SawQuery
<1> QED
  BY <1>4, <1>5, <1>6, <1>7

\* A range query goes on only from nodes in its range, or before it.
LEMMA RangeKept ==
  ASSUME SInv, LInv, CollectInv, NEW p \in Procs, Call(p) \/ ListStep(p), NEW q \in Procs, RangeInv(q)
  PROVE  RangeInv(q)'
<1>1. [Next]_vars /\ Frame(p)
  BY StepIsNext, FrameHolds
<1>2. ASSUME lpc'[q] = lpc[q], op'[q] = op[q], at'[q] = at[q] PROVE RangeInv(q)'
  BY <1>1, <1>2 DEF Frame, RangeInv
<1>3. /\ lpc \in [Procs -> {"idle", "search"} \cup StoppedLPCs] /\ pc \in [Procs -> PCs]
      /\ at \in [Procs -> Bundles \cup {NoBundle}] /\ PlaceInv(p)
      /\ (pc[p] \in AnnouncePCs \cup {"idle"} => at[p] = NoBundle)
  BY DEF LInv, FormInv, LocalInv, SInv, RInv, IInv, TypeOK, ReadInv, ReadsWell
<1>4. CASE q # p
  BY <1>1, <1>2, <1>4 DEF Frame
<1>5. CASE q = p
  <2>1. CASE StartQuery(p)
    <3>1. pc[p] \in AnnouncePCs \cup {"idle"} /\ at' = at
      BY <2>1
      DEF StartQuery, StartTraversal, AnnounceStep, ReadClock, Announce, ClearFlag, AnnouncePCs, readVars
    <3> QED
      BY <1>3, <1>5, <3>1 DEF RangeInv
  <2>2. CASE EnterSnapshot(p)
    <3>1. at'[p] = pred[p] /\ UNCHANGED <<key, alloc, op>> /\ lpc[p] = "query"
      BY <1>3, <2>2 DEF EnterSnapshot, BeginLookup, nodeVars, callVars
    <3>2. pred[p] \in alloc /\ key[pred[p]] < op[p].lo
      BY <1>3, <3>1 DEF PlaceInv, StoppedLPCs, ReadLPCs
    <3> QED
      BY <1>5, <3>1, <3>2 DEF RangeInv
  <2>3. CASE Collect(p)
    <3>1. /\ at'[p] = out[p] /\ UNCHANGED <<key, alloc, op>> /\ key[out[p]] <= op[p].hi
          /\ lpc[p] = "query" /\ pc[p] = "query" /\ at[p] # NoBundle
      BY <1>3, <2>3 DEF Collect, BeginLookup, nodeVars, callVars
    <3>2. Collected(p)
      BY <3>1 DEF CollectInv, FoundInv
    <3>3. qts[p] \in FirstTS .. clock /\ out[p] \in Listed(LinksAt(qts[p]))
      BY <3>1, <3>2, UpToNext
    <3>4. out[p] \in alloc
      BY <3>3, SnapshotProps
    <3> QED
      BY <1>5, <3>1, <3>4 DEF RangeInv
  <2>4. CASE ReadBundle(p)
    <3>1. UNCHANGED <<lpc, op, at>>
      BY <2>4
      DEF ReadBundle, LookupStep, CheckFirst, LoadSecond, CheckSecond, AwaitLabel, Walk, callVars
    <3> QED
      BY <1>2, <3>1
  <2>5. CASE ~(StartQuery(p) \/ EnterSnapshot(p) \/ Collect(p) \/ ReadBundle(p))
    <3>1. lpc'[p] # "query"
      <4>1. lpc[p] # "idle" => op[p].type \in OpTypes
        BY OpProps DEF LInv, LocalInv
      <4>2. CASE Search(p)
        BY <1>3, <4>1, <4>2 DEF Search, Found, OpTypes, Goto, ReturnKeys
      <4> QED
        BY <1>3, <2>5, <4>2
        DEF ListStep, Call, LockCurr, LockPred, Invalid, Present, BeginInsert, BeginErase,
            PrepareAndLabel, UnlockFirst, UnlockPred, LinWrite, FinalizeBundles, Unlink, RetryCurr,
            RetryPred, EnterNewest, GetNext, EndContains, EndQuery, Goto, ReturnKeys
    <3> QED
      BY <1>5, <3>1 DEF RangeInv
  <2> QED
    BY <2>1, <2>2, <2>3, <2>4, <2>5
<1> QED
  BY <1>4, <1>5

\* Every step that is neither a call nor a return, while the clock stands.
LEMMA StepKeeps ==
  ASSUME SInv, LInv, CollectInv, LinInv, NEW p \in Procs, ListStep(p), clock' = clock,
         lpc[p] # "idle", lpc'[p] # "idle", op' = op, configs' = configs
  PROVE  LinInv'
<1>1. [Next]_vars /\ Frame(p)
  BY StepIsNext, FrameHolds
<1>2. PICK R : /\ Accounts(configs, op, AbstractKeys, Active, Finished, R)
               /\ \A q \in Procs : Saw(q, R[q])
  BY DEF LinInv
<1>3. ASSUME NEW q \in Procs PROVE GetInv(q)' /\ RangeInv(q)' /\ CommitInv(q)' /\ Saw(q, R[q])'
  <2>1. GetInv(q) /\ RangeInv(q) /\ CommitInv(q) /\ Saw(q, R[q])
    BY <1>2 DEF LinInv
  <2>2. CASE q # p
    <3>1. R[q] \subseteq R[q]
      OBVIOUS
    <3> QED
      BY <2>1, <2>2, <3>1, OthersSee, RangeKept
  <2>3. CASE q = p
    BY <2>1, <2>3, OwnGet, OwnCommit, OwnSaw, RangeKept
  <2> QED
    BY <2>2, <2>3
<1>4. AbstractKeys' = AbstractKeys
  BY <1>1, KeysHeld DEF Frame
<1>5. Finished' = Finished
  <2>1. ~UnlockPred(p)
    BY DEF UnlockPred, ReturnKeys, Goto, LInv, FormInv
  <2> QED
    BY <2>1, FinishedKept
<1>6. Active' = Active
  <2>1. \A q : q \in Active' <=> q \in Active
    BY <1>1 DEF Frame, Active
  <2> QED
    BY <2>1, Zenon
<1>7. Accounts(configs', op', AbstractKeys', Active', Finished', R)
  BY <1>2, <1>4, <1>5, <1>6
<1>8. Sound(configs', Active')
  BY <1>6 DEF LinInv
<1> QED
  BY <1>3, <1>7, <1>8 DEF LinInv

\* The observer's processes.
LEMMA Observed == Clients = Procs /\ Clients = 1 .. NumProcs /\ NumProcs \in Nat
BY ListAssumption, ProcsAssumption DEF Procs

\* An operation comes.
LEMMA CallHolds ==
  ASSUME SInv, LInv, LInv', CollectInv, LinInv, NEW p \in Procs, Call(p)
  PROVE  LinInv'
<1>1. [Next]_vars /\ Frame(p) /\ clock' = clock
  BY StepIsNext, FrameHolds DEF Call, vars
<1>2. PICK R : /\ Accounts(configs, op, AbstractKeys, Active, Finished, R)
               /\ \A q \in Procs : Saw(q, R[q])
  BY DEF LinInv
<1>3. /\ lpc[p] = "idle" /\ lpc'[p] = "search" /\ configs' = Invoke(configs, p) /\ pc'[p] = "idle"
      /\ ts'[p] = NullTS /\ ts[p] = NullTS
  BY DEF Call, Goto, vars, LInv, FormInv, LocalInv, PcInv, SInv, RInv, IInv, UInv, UpdateInv
<1>4. AbstractKeys' = AbstractKeys
  BY <1>1, KeysHeld DEF Frame
<1>5. Finished' = Finished
  BY <1>1, <1>3, FinishedKept DEF UnlockPred
<1>6. p \notin Finished /\ p \notin Active /\ Active \subseteq Procs
  BY <1>3 DEF Finished, Active
<1>7. Active' = Active \cup {p}
  <2>1. \A q : q \in Active' <=> q \in Active \cup {p}
    BY <1>1, <1>3 DEF Frame, Active
  <2> QED
    BY <2>1, Zenon
<1>8. PICK S, T, A, C, call : /\ S = AbstractKeys /\ T = Finished /\ A = Active \cup {p}
                              /\ C = configs' /\ call = op'
  OBVIOUS
<1>9. PICK R1 : /\ Sound(C, A) /\ Accounts(C, call, S, A, T \ {p}, R1)
                /\ \A q \in Clients : q # p => R1[q] = R[q]
  <2>1. Sound(configs, Active) /\ p \in Clients \ Active /\ \A q \in Active : op'[q] = op[q]
    BY <1>1, <1>6, Observed DEF LinInv, Frame
  <2>2. /\ Sound(Invoke(configs, p), Active \cup {p})
        /\ Accounts(Invoke(configs, p), op', AbstractKeys, Active \cup {p}, Finished \ {p},
                    [q \in Clients |-> IF q = p THEN {} ELSE R[q]])
    BY <1>2, <2>1, InvokeAccounts
  <2>3. PICK R1 : R1 = [q \in Clients |-> IF q = p THEN {} ELSE R[q]]
    OBVIOUS
  <2>4. /\ Sound(configs', Active \cup {p})
        /\ Accounts(configs', op', AbstractKeys, Active \cup {p}, Finished \ {p}, R1)
    BY ONLY <1>3, <2>2, <2>3
  <2>5. Sound(C, A) /\ Accounts(C, call, S, A, T \ {p}, R1)
    BY ONLY <1>8, <2>4
  <2>6. \A q \in Clients : q # p => R1[q] = R[q]
    BY ONLY <2>3
  <2> QED
    BY <2>5, <2>6
<1>10. Accounts(C, call, S, A, T, R1)
  <2>1. T \ {p} = T
    BY <1>6, <1>8
  <2> QED
    BY <1>9, <2>1
<1>11. PICK Q : /\ Accounts(C, call, S, A, T, Q) /\ \A q \in Clients : R1[q] \subseteq Q[q]
                /\ \A q \in A \ T : After(call[q], S) = S => ResultOf(call[q], S) \in Q[q]
  <2>1. PICK n \in Nat : Clients = 1 .. n
    BY Observed
  <2> QED
    BY ONLY <1>9, <1>10, <2>1, ReadsAll
<1>12. ASSUME NEW q \in Procs PROVE GetInv(q)' /\ RangeInv(q)' /\ CommitInv(q)' /\ Saw(q, Q[q])'
  <2>1. GetInv(q) /\ RangeInv(q) /\ CommitInv(q) /\ Saw(q, R[q])
    BY <1>2 DEF LinInv
  <2>2. CASE q # p
    <3>1. R[q] \subseteq Q[q]
      BY <1>9, <1>11, <2>2, Observed
    <3> QED
      BY <1>1, <2>1, <2>2, <3>1, OthersSee, RangeKept
  <2>3. CASE q = p
    <3>1. op'[p] \in Operation
      BY <1>3 DEF LInv, LocalInv, CallInv
    <3>2. op'[p].type \in {"contains", "range"} => Report(p)' \in Q[p]
      <4> SUFFICES ASSUME op'[p].type \in {"contains", "range"} PROVE Report(p)' \in Q[p]
        OBVIOUS
      <4>1. After(call[p], S) = S
        BY <1>8, <3>1, WhatReaders
      <4>2. p \in A \ T
        BY <1>6, <1>8
      <4>3. ResultOf(call[p], S) \in Q[p]
        BY <1>11, <4>1, <4>2
      <4> QED
        BY <1>4, <1>8, <4>3 DEF Report
    <3>3. p \notin Finished'
      BY <1>5, <1>6
    <3>4. Saw(p, Q[p])'
      BY <1>3, <3>2, <3>3 DEF Saw, SawDone, SawHop, SawQuery
    <3> QED
      BY <2>1, <2>3, <3>4, OwnGet, OwnCommit, RangeKept
  <2> QED
    BY <2>2, <2>3
<1>13. Sound(configs', Active') /\ Accounts(configs', op', AbstractKeys', Active', Finished', Q)
  BY <1>4, <1>5, <1>7, <1>8, <1>9, <1>11
<1> QED
  BY <1>12, <1>13 DEF LinInv

\* An operation returns.
LEMMA ReturnHolds ==
  ASSUME SInv, LInv, CollectInv, LinInv, NEW p \in Procs, ListStep(p), clock' = clock,
         lpc[p] # "idle", lpc'[p] = "idle", ts'[p] = NullTS,
         NEW R, \A q \in Procs : Saw(q, R[q]),
         NEW Q, \A q \in Procs : q # p => R[q] \subseteq Q[q],
         Sound(configs', Active \ {p}),
         Accounts(configs', op', AbstractKeys, Active \ {p}, Finished \ {p}, Q)
  PROVE  LinInv'
<1>1. [Next]_vars /\ Frame(p)
  BY StepIsNext, FrameHolds
<1>2. AbstractKeys' = AbstractKeys
  BY <1>1, KeysHeld DEF Frame
<1>3. p \notin Finished'
  BY DEF Finished
<1>4. Finished' = Finished \ {p}
  <2>1. \A q \in Procs : q # p => (q \in Finished' <=> q \in Finished)
    BY FinishedKept
  <2>2. \A q : (q \in Finished' => q \in Procs) /\ (q \in Finished => q \in Procs)
    BY DEF Finished
  <2>3. \A q : q \in Finished' <=> q \in Finished \ {p}
    BY <1>3, <2>1, <2>2
  <2> QED
    BY <2>3, Zenon
<1>5. Active' = Active \ {p}
  <2>1. \A q : q \in Active' <=> q \in Active \ {p}
    BY <1>1 DEF Frame, Active
  <2> QED
    BY <2>1, Zenon
<1>6. ASSUME NEW q \in Procs PROVE GetInv(q)' /\ RangeInv(q)' /\ CommitInv(q)' /\ Saw(q, Q[q])'
  <2>1. GetInv(q) /\ RangeInv(q) /\ CommitInv(q) /\ Saw(q, R[q])
    BY DEF LinInv
  <2>2. CASE q # p
    BY <2>1, <2>2, OthersSee, RangeKept
  <2>3. CASE q = p
    <3>1. Saw(p, Q[p])'
      BY <1>3 DEF Saw, SawDone, SawHop, SawQuery
    <3> QED
      BY <2>1, <2>3, <3>1, OwnGet, OwnCommit, RangeKept
  <2> QED
    BY <2>2, <2>3
<1>7. Sound(configs', Active') /\ Accounts(configs', op', AbstractKeys', Active', Finished', Q)
  BY <1>2, <1>4, <1>5
<1> QED
  BY <1>6, <1>7 DEF LinInv

\* It returns what it can return.
LEMMA RespondHolds ==
  ASSUME SInv, LInv, CollectInv, LinInv, NEW p \in Procs, ListStep(p), clock' = clock,
         lpc[p] # "idle", ts'[p] = NullTS,
         NEW R, Accounts(configs, op, AbstractKeys, Active, Finished, R), \A q \in Procs : Saw(q, R[q]),
         NEW r \in R[p], ReturnKeys(p, r), r # <<>> \/ op[p].type # "erase"
  PROVE  LinInv'
<1>1. configs' = Respond(configs, op, p, r) /\ lpc'[p] = "idle"
  BY DEF ReturnKeys, Goto, LInv, FormInv
<1>2. Sound(configs, Active) /\ p \in Active
  BY DEF LinInv, Active
<1>3. Sound(configs', Active \ {p})
  BY <1>1, <1>2, RespondAccounts
<1>4. Accounts(configs', op', AbstractKeys, Active \ {p}, Finished \ {p}, R)
  BY <1>1, <1>2, RespondAccounts
<1>5. \A q \in Procs : q # p => R[q] \subseteq R[q]
  OBVIOUS
<1> QED
  BY <1>1, <1>3, <1>4, <1>5, ReturnHolds

\* contains returns.
LEMMA ContainsReturns ==
  ASSUME SInv, LInv, CollectInv, LinInv, NEW p \in Procs, EndContains(p)
  PROVE  LinInv'
<1>1. /\ lpc[p] = "contains" /\ pc[p] = "got" /\ key[out[p]] >= op[p].lo /\ clock' = clock /\ ts' = ts
      /\ ListStep(p)
  BY DEF EndContains, EndGet, updateVars, ListStep
<1>2. PICK R : /\ Accounts(configs, op, AbstractKeys, Active, Finished, R)
               /\ \A q \in Procs : Saw(q, R[q])
  BY DEF LinInv
<1>3. HopDone(p, R[p], out[p])
  BY <1>1, <1>2 DEF Saw, SawHop
<1>4. PICK r : r = IF key[out[p]] = op[p].lo /\ ~marked[out[p]] THEN <<op[p].lo>> ELSE <<>>
  OBVIOUS
<1>5. ReturnKeys(p, r)
  BY <1>4 DEF EndContains
<1>6. out[p] \in alloc /\ key[out[p]] \in Int /\ op[p].lo \in Int
  <2>1. out[p] \in Nodes /\ out[p] \in alloc
    BY <1>3 DEF HopDone, LInv, FormInv
  <2>2. op[p].lo \in Int
    BY <1>1, OpProps DEF LInv, LocalInv
  <2> QED
    BY <2>1, <2>2, KeyProps DEF LInv
<1>7. r \in R[p]
  <2>1. CASE key[out[p]] = op[p].lo /\ ~marked[out[p]]
    BY <1>3, <1>4, <2>1 DEF HopDone
  <2>2. CASE key[out[p]] = op[p].lo /\ marked[out[p]]
    <3>1. out[p] \notin Listed(LinksAt(clock))
      BY <1>6, <2>2, MarkedGone
    <3> QED
      BY <1>3, <1>4, <2>2, <3>1 DEF HopDone
  <2>3. CASE key[out[p]] # op[p].lo
    <3>1. key[out[p]] > op[p].lo
      BY <1>1, <1>6, <2>3
    <3> QED
      BY <1>3, <1>4, <2>3, <3>1 DEF HopDone
  <2> QED
    BY <2>1, <2>2, <2>3
<1>8. ts'[p] = NullTS
  BY <1>1 DEF SInv, RInv, IInv, UInv, UpdateInv
<1>9. op[p].type # "erase"
  BY <1>1 DEF LinInv, GetInv
<1> QED
  BY <1>1, <1>2, <1>5, <1>7, <1>8, <1>9, RespondHolds

\* A range query returns.
LEMMA QueryReturns ==
  ASSUME SInv, LInv, CollectInv, LinInv, NEW p \in Procs, EndQuery(p)
  PROVE  LinInv'
<1>1. /\ lpc[p] = "query" /\ pc[p] = "query" /\ at[p] # NoBundle /\ key[out[p]] > op[p].hi
      /\ clock' = clock /\ ts' = ts /\ ListStep(p) /\ ReturnKeys(p, found[p])
  BY DEF EndQuery, EndTraversal, updateVars, ListStep
<1>2. PICK R : /\ Accounts(configs, op, AbstractKeys, Active, Finished, R)
               /\ \A q \in Procs : Saw(q, R[q])
  BY DEF LinInv
<1>3. Collected(p) /\ RangeInv(p) /\ op[p] \in Operation /\ op[p].type = "range"
  BY <1>1 DEF CollectInv, FoundInv, LinInv, LInv, LocalInv, CallInv, GetInv
<1>4. /\ qts[p] \in FirstTS .. clock /\ out[p] \in Listed(LinksAt(qts[p]))
      /\ \A k \in KeysAt(qts[p]) :
           k \in Int /\ (op[p].lo <= k => (k <= key[at[p]] <=> k < key[out[p]]))
  BY <1>1, <1>3, UpToNext
<1>5. ToSet(found[p]) = {k \in KeysAt(qts[p]) : op[p].lo <= k /\ k <= key[at[p]]}
  BY <1>3 DEF Collected
<1>6. /\ op[p].lo \in SetKeys /\ op[p].hi \in SetKeys
      /\ op[p].lo \in Int /\ op[p].hi \in Int
  BY <1>3, KeysAssumption DEF Operation
<1>7. /\ at[p] \in Nodes /\ out[p] \in Nodes /\ key[at[p]] \in Int /\ key[out[p]] \in Int
      /\ (key[at[p]] <= op[p].hi \/ key[at[p]] < op[p].lo)
  <2>1. at[p] \in alloc /\ (key[at[p]] <= op[p].hi \/ key[at[p]] < op[p].lo)
    BY <1>1, <1>3 DEF RangeInv
  <2>2. at[p] \in Nodes /\ out[p] \in Nodes
    BY <1>4, <2>1, Basics DEF LInv, FormInv, Listed
  <2> QED
    BY <2>1, <2>2, KeyProps DEF LInv
<1>8. \A k \in KeysAt(qts[p]) : op[p].lo <= k /\ k <= op[p].hi => k \in SetKeys
  <2> SUFFICES ASSUME NEW k \in KeysAt(qts[p]), op[p].lo <= k, k <= op[p].hi PROVE k \in SetKeys
    OBVIOUS
  <2>1. PICK n \in Nodes : k = key[n]
    BY Basics DEF KeysAt, Listed
  <2>2. k \in SetKeys \cup {InitKey[HeadNode], InitKey[MaxNode]}
    BY <2>1 DEF LInv, FormInv
  <2>3. InitKey[HeadNode] < op[p].lo /\ op[p].hi < InitKey[MaxNode]
    BY <1>6, KeysAssumption
  <2>4. InitKey[HeadNode] \in Int /\ InitKey[MaxNode] \in Int
    BY KeysAssumption
  <2> QED
    BY <1>6, <2>2, <2>3, <2>4
<1>9. \A k : k \in ToSet(found[p]) <=> k \in InRange(op[p]) \cap KeysAt(qts[p])
  <2>1. ASSUME NEW k \in KeysAt(qts[p])
        PROVE  (op[p].lo <= k /\ k <= key[at[p]]) <=> (op[p].lo <= k /\ k <= op[p].hi)
    BY <1>1, <1>4, <1>6, <1>7
  <2> QED
    BY <1>5, <1>8, <2>1 DEF InRange
<1>10. ToSet(found[p]) = InRange(op[p]) \cap KeysAt(qts[p])
  BY <1>9, Zenon
<1>11. found[p] = Ascending(InRange(op[p]) \cap KeysAt(qts[p]))
  BY <1>3, <1>10, RisingAscends DEF Collected
<1>12. qts[p] # NullTS
  BY <1>4, ClockNow DEF FirstTS, NullTS
<1>13. found[p] \in R[p]
  BY <1>1, <1>2, <1>11, <1>12 DEF Saw, SawQuery
<1>14. ts'[p] = NullTS
  BY <1>1 DEF SInv, RInv, IInv, UInv, UpdateInv
<1> QED
  BY <1>1, <1>2, <1>3, <1>13, <1>14, RespondHolds

\* An update that has taken effect returns.
LEMMA UpdateReturnsDone ==
  ASSUME SInv, LInv, CollectInv, LinInv, NEW p \in Procs, UnlockPred(p)
  PROVE  LinInv'
<1>1. /\ lpc[p] = "unlockPred" /\ clock' = clock /\ ts' = ts /\ ListStep(p)
      /\ ReturnKeys(p, <<op[p].lo>>)
  BY DEF UnlockPred, ListStep, vars
<1>2. PICK R : /\ Accounts(configs, op, AbstractKeys, Active, Finished, R)
               /\ \A q \in Procs : Saw(q, R[q])
  BY DEF LinInv
<1>3. <<op[p].lo>> \in R[p]
  BY <1>1, <1>2 DEF Saw, SawDone, Finished
<1>4. pc[p] = "idle"
  BY <1>1 DEF LInv, LocalInv, PcInv
<1>5. ts'[p] = NullTS
  BY <1>1, <1>4 DEF SInv, RInv, IInv, UInv, UpdateInv
<1>6. <<op[p].lo>> # <<>>
  OBVIOUS
<1> QED
  BY <1>1, <1>2, <1>3, <1>5, <1>6, RespondHolds

\* An insert that finds its key returns.
LEMMA PresentReturns ==
  ASSUME SInv, LInv, CollectInv, LinInv, NEW p \in Procs, Present(p)
  PROVE  LinInv'
<1>1. /\ lpc[p] = "validate" /\ clock' = clock /\ ts' = ts /\ ListStep(p)
      /\ ReturnKeys(p, <<>>) /\ op[p].type = "insert" /\ ValidateLinks(p)
      /\ key[curr[p]] = op[p].lo
  BY DEF Present, ListStep, vars
<1>2. PICK R : /\ Accounts(configs, op, AbstractKeys, Active, Finished, R)
               /\ \A q \in Procs : Saw(q, R[q])
  BY DEF LinInv
<1>3. op[p] \in Operation /\ op[p].lo \in SetKeys /\ pc[p] = "idle"
  BY <1>1, OpProps DEF LInv, LocalInv, PcInv
<1>4. op[p].lo \in AbstractKeys
  <2>1. curr[p] \in Listed(LinksAt(clock))
    BY <1>1, PresentListed
  <2> QED
    BY <1>1, <1>3, <2>1 DEF AbstractKeys, KeysAt
<1>5. After(op[p], AbstractKeys) = AbstractKeys /\ ResultOf(op[p], AbstractKeys) = <<>>
  BY <1>1, <1>3, <1>4, WhatReaders
<1>6. ts[p] = NullTS /\ p \in Active \ Finished
  BY <1>1, <1>3 DEF Active, Finished, SInv, RInv, IInv, UInv, UpdateInv
<1>7. Sound(configs, Active)
  BY DEF LinInv
<1>8. PICK Q : Q = [q \in Clients |-> IF q = p THEN R[p] \cup {ResultOf(op[p], AbstractKeys)} ELSE R[q]]
  OBVIOUS
<1>9. Accounts(configs, op, AbstractKeys, Active, Finished, Q)
  <2>1. Accounts(configs, op, AbstractKeys, Active, Finished,
           [q \in Clients |-> IF q = p THEN R[p] \cup {ResultOf(op[p], AbstractKeys)} ELSE R[q]])
    BY <1>2, <1>5, <1>6, <1>7, ReadsOne
  <2> QED
    BY ONLY <1>8, <2>1
<1>10. \A q \in Procs : R[q] \subseteq Q[q]
  BY <1>8, Observed
<1>11. <<>> \in Q[p]
  BY <1>5, <1>8, Observed
<1>12. configs' = Respond(configs, op, p, <<>>) /\ lpc'[p] = "idle"
  BY <1>1 DEF ReturnKeys, Goto, LInv, FormInv
<1>13. Sound(configs', Active \ {p})
  BY <1>6, <1>7, <1>9, <1>11, <1>12, RespondAccounts
<1>14. Accounts(configs', op', AbstractKeys, Active \ {p}, Finished \ {p}, Q)
  BY <1>6, <1>7, <1>9, <1>11, <1>12, RespondAccounts
<1>15. ts'[p] = NullTS /\ lpc[p] # "idle"
  BY <1>1, <1>6
<1> QED
  BY <1>1, <1>2, <1>10, <1>12, <1>13, <1>14, <1>15, ReturnHolds

\* An erase whose search does not find its key returns, unseen.
LEMMA AbsentReturns ==
  ASSUME SInv, LInv, CollectInv, LinInv, ~ObserveAbsent, NEW p \in Procs, Search(p),
         op[p].type = "erase", ReturnKeys(p, <<>>)
  PROVE  LinInv'
<1>1. lpc[p] = "search" /\ clock' = clock /\ ts' = ts /\ ListStep(p)
  BY DEF Search, ListStep, vars
<1>2. PICK R : /\ Accounts(configs, op, AbstractKeys, Active, Finished, R)
               /\ \A q \in Procs : Saw(q, R[q])
  BY DEF LinInv
<1>3. pc[p] = "idle"
  BY <1>1 DEF LInv, LocalInv, PcInv
<1>4. ts[p] = NullTS /\ p \in Active \ Finished
  BY <1>1, <1>3 DEF Active, Finished, SInv, RInv, IInv, UInv, UpdateInv
<1>5. configs' = RespondUnseen(configs, p) /\ lpc'[p] = "idle"
  BY DEF ReturnKeys, Goto, LInv, FormInv
<1>6. \A q \in Active \ {p} : op'[q] = op[q]
  BY <1>1, FrameHolds DEF Frame, Active
<1>7. Sound(configs, Active)
  BY DEF LinInv
<1>8. Sound(configs', Active \ {p})
  BY <1>2, <1>4, <1>5, <1>6, <1>7, UnseenAccounts
<1>9. Accounts(configs', op', AbstractKeys, Active \ {p}, Finished \ {p}, R)
  <2>1. Accounts(configs', op', AbstractKeys, Active \ {p}, Finished, R)
    BY <1>2, <1>4, <1>5, <1>6, <1>7, UnseenAccounts
  <2>2. Finished \ {p} = Finished
    BY <1>4
  <2> QED
    BY <2>1, <2>2
<1>10. \A q \in Procs : q # p => R[q] \subseteq R[q]
  OBVIOUS
<1> QED
  BY <1>1, <1>2, <1>4, <1>5, <1>8, <1>9, <1>10, ReturnHolds

-----------------------------------------------------------------------------
\* The clock advances: the updates that wait for it take effect, and after them
\* every operation that only reads can.
LEMMA AdvanceHolds ==
  ASSUME SInv, LInv, SInv', LInv', CollectInv, LinInv, NEW p \in Procs, ListStep(p), FetchAdd(p)
  PROVE  LinInv'
<1>1. [Next]_vars /\ Frame(p)
  BY StepIsNext, FrameHolds
<1>2. PICK R : /\ Accounts(configs, op, AbstractKeys, Active, Finished, R)
               /\ \A q \in Procs : Saw(q, R[q])
  BY DEF LinInv
<1>3. /\ pc[p] = "bump" /\ clock' = clock + 1 /\ clock + 1 < Pending /\ clock \in Nat
      /\ UNCHANGED <<bundle, owner, upd, ts, qts, at, cur, out>>
  BY ClockNow DEF FetchAdd, updateVars, readVars
<1>4. lpc[p] = "label" /\ UNCHANGED <<lpc, op, configs, pred, curr, key, alloc, next, marked>>
  <2>1. lpc[p] = "label"
    BY <1>3, Labelling
  <2>2. PrepareAndLabel(p)
    BY <2>1
    DEF ListStep, Search, LockCurr, LockPred, Invalid, Present, BeginInsert, BeginErase,
        UnlockFirst, UnlockPred, LinWrite, FinalizeBundles, Unlink, RetryCurr, RetryPred,
        EnterNewest, GetNext, EndContains, StartQuery, EnterSnapshot, ReadBundle, Collect,
        EndQuery, FetchAdd, vars
  <2> QED
    BY <2>1, <2>2 DEF PrepareAndLabel, nodeVars, callVars, localVars
<1>5. \A q \in Procs : GetInv(q) /\ RangeInv(q) /\ CommitInv(q)
  BY DEF LinInv
<1>6. \A q \in Procs : pc'[q] = pc[q] \/ q = p
  BY <1>1 DEF Frame
<1>7. PICK K \in SUBSET Procs : K = Arriving
  BY Basics DEF Arriving
<1>8. \A q \in K : /\ q \in Procs /\ ts[q] = clock /\ lpc[q] = "label" /\ op[q] \in Operation
                   /\ op[q].type \in {"insert", "erase"}
                   /\ op[q].type = "erase" => op[q].lo \in AbstractKeys
                   /\ op[q].type = "insert" => op[q].lo \notin AbstractKeys
  BY <1>5, <1>7, ArrivingPlace, Basics DEF Arriving
<1>9. \A q, r \in K : op[q].lo = op[r].lo => q = r
  BY <1>5, <1>8, ArrivingApart
<1>10. K \subseteq Active \ Finished
  <2> SUFFICES ASSUME NEW q \in K PROVE q \in Active \ Finished
    OBVIOUS
  <2> QED
    BY <1>3, <1>8 DEF Active, Finished
<1>11. Active' = Active
  BY <1>4 DEF Active
<1>12. Finished' = Finished \cup K
  <2>1. \A q \in Procs : ts[q] \in Nat /\ ts[q] <= clock
    BY DEF SInv, RInv, IInv, TypeOK, UInv, UpdateInv
  <2>2. \A q \in Procs : q \in Finished' <=> q \in Finished \cup K
    BY <1>3, <1>4, <1>7, <2>1, ClockNow, Basics DEF Finished, Arriving
  <2>3. \A q : (q \in Finished' => q \in Procs) /\ (q \in Finished \cup K => q \in Procs)
    BY DEF Finished
  <2>4. \A q : q \in Finished' <=> q \in Finished \cup K
    BY <2>2, <2>3
  <2> QED
    BY <2>4, Zenon
<1>13. PICK S2 : S2 = (AbstractKeys \cup PutIn(op, K)) \ TakenOut(op, K)
  OBVIOUS
<1>14. PICK u : u = clock + 1
  OBVIOUS
<1>15. LinksAt(u)' = LinksAt(u) /\ KeysAt(u)' = KeysAt(u)
  <2>1. \A n \in Nodes : ValueAt(n, u)' = ValueAt(n, u)
    BY <1>3 DEF ValueAt, VersionAt, Visible, Label
  <2>2. LinksAt(u)' = LinksAt(u)
    BY <2>1 DEF LinksAt
  <2> QED
    BY <1>4, <2>2 DEF KeysAt, Listed
<1>16. LinksAt(clock)' = LinksAt(u) /\ KeysAt(clock)' = KeysAt(u)
  <2>1. clock' = u
    BY <1>3, <1>14
  <2>2. LinksAt(clock)' = LinksAt(u)' /\ KeysAt(clock)' = KeysAt(u)'
    BY <2>1 DEF LinksAt, KeysAt, ValueAt, VersionAt, Visible, Label
  <2> QED
    BY <1>15, <2>2
<1>17. AbstractKeys' = S2
  <2>1. KeysAt(u) \cap SetKeys = S2
    BY <1>3, <1>5, <1>7, <1>13, <1>14, NextKeys
  <2> QED
    BY <1>16, <2>1 DEF AbstractKeys
<1>18. Sound(configs, Active)
  BY DEF LinInv
<1>19. PICK R1 : R1 = [q \in Clients |-> IF q \in K THEN {<<op[q].lo>>} ELSE R[q]]
  OBVIOUS
<1>20. Accounts(configs, op, S2, Active, Finished \cup K, R1)
  <2>1. \A q \in K : /\ op[q] \in Operation
                     /\ \/ op[q].type = "insert" /\ op[q].lo \notin AbstractKeys
                        \/ op[q].type = "erase" /\ op[q].lo \in AbstractKeys
    BY <1>8
  <2>2. PICK n \in Nat : Clients = 1 .. n
    BY Observed
  <2>3. K \in SUBSET (Active \ Finished)
    BY <1>10
  <2>4. Accounts(configs, op, (AbstractKeys \cup PutIn(op, K)) \ TakenOut(op, K), Active, Finished \cup K,
                 [q \in Clients |-> IF q \in K THEN {<<op[q].lo>>} ELSE R[q]])
    BY ONLY <1>2, <1>9, <1>18, <2>1, <2>2, <2>3, TakesMany
  <2> QED
    BY ONLY <1>13, <1>19, <2>4
<1>21. PICK Q : /\ Accounts(configs, op, S2, Active, Finished \cup K, Q)
                /\ \A q \in Clients : R1[q] \subseteq Q[q]
                /\ \A q \in Active \ (Finished \cup K) :
                     After(op[q], S2) = S2 => ResultOf(op[q], S2) \in Q[q]
  <2>1. PICK n \in Nat : Clients = 1 .. n
    BY Observed
  <2> QED
    BY ONLY <1>18, <1>20, <2>1, ReadsAll
<1>22. ASSUME NEW q \in Procs PROVE Saw(q, Q[q])'
  <2>1. q \in K => <<op[q].lo>> \in Q[q]
    BY <1>19, <1>21, Observed
  <2>2. q \notin K => R[q] \subseteq Q[q]
    BY <1>19, <1>21, Observed
  <2>3. lpc[q] # "idle" /\ op[q].type \in {"contains", "range"} => Report(q)' \in Q[q] /\ op[q] \in Operation
    <3> SUFFICES ASSUME lpc[q] # "idle", op[q].type \in {"contains", "range"}
                 PROVE  Report(q)' \in Q[q] /\ op[q] \in Operation
      OBVIOUS
    <3>1. op[q] \in Operation
      BY DEF LInv, LocalInv, CallInv
    <3>2. q \in Active \ (Finished \cup K)
      <4>1. q \notin K
        BY <1>8
      <4>2. q \notin Finished
        <5>1. lpc[q] # "unlockPred"
          BY DEF LInv, LocalInv, CallInv, UpdateLPCs
        <5>2. ASSUME ts[q] # NullTS PROVE FALSE
          <6>1. pc[q] \in UpdatePCs
            BY <5>2 DEF SInv, RInv, IInv, UInv, UpdateInv, UpdatePCs
          <6>2. lpc[q] \in {"label", "finalize", "unlock"}
            BY <6>1 DEF LInv, LocalInv, PcInv, UpdatePCs, GetPCs, AnnouncePCs, LookupPCs
          <6> QED
            BY <6>2 DEF LInv, LocalInv, CallInv, UpdateLPCs, EraseLPCs
        <5> QED
          BY <5>1, <5>2 DEF Finished
      <4> QED
        BY <4>1, <4>2 DEF Active
    <3>3. After(op[q], S2) = S2
      BY <3>1, WhatReaders
    <3>4. ResultOf(op[q], S2) \in Q[q]
      BY <1>21, <3>2, <3>3
    <3> QED
      BY <1>4, <1>17, <3>1, <3>4 DEF Report
  <2>4. Saw(q, R[q])
    BY <1>2
  <2>5. SawDone(q, Q[q])'
    <3>1. q \in Finished' => <<op'[q].lo>> \in Q[q]
      BY <1>4, <1>12, <2>1, <2>2, <2>4 DEF Saw, SawDone
    <3> QED
      BY <1>4, <2>3, <3>1 DEF SawDone
  <2>6. SawHop(q, Q[q])'
    <3> SUFFICES ASSUME lpc[q] = "contains" PROVE SawHop(q, Q[q])'
      BY <1>4 DEF SawHop
    <3>1. /\ op[q].type = "contains" /\ op[q] \in Operation /\ Report(q)' \in Q[q]
          /\ pc'[q] = pc[q] /\ q \notin K
      BY <1>4, <1>5, <1>6, <1>8, <2>3 DEF GetInv
    <3>2. ASSUME NEW m, HopDone(q, R[q], m) PROVE HopDone(q, Q[q], m)'
      <4>1. m \in alloc /\ R[q] \subseteq Q[q]
        BY <2>2, <3>1, <3>2 DEF HopDone
      <4>2. ASSUME key[m] = op[q].lo, m \in Listed(LinksAt(clock)), m \notin Listed(LinksAt(u))
            PROVE  <<>> \in Q[q]
        <5>1. op[q].lo \notin S2
          BY <1>3, <1>5, <1>14, <1>16, <1>17, <4>2, NextGone DEF AbstractKeys
        <5>2. Report(q)' = <<>>
          BY <1>4, <1>17, <3>1, <5>1, WhatReaders DEF Report
        <5> QED
          BY <3>1, <5>2
      <4>3. Listed(LinksAt(clock))' = Listed(LinksAt(u))
        BY <1>16 DEF Listed
      <4> QED
        BY <1>4, <3>2, <4>1, <4>2, <4>3 DEF HopDone
    <3>3. pc[q] = "got" => HopDone(q, Q[q], out[q])'
      <4> SUFFICES ASSUME pc[q] = "got" PROVE HopDone(q, Q[q], out[q])'
        OBVIOUS
      <4>1. PICK m : m = out[q]
        OBVIOUS
      <4>2. HopDone(q, Q[q], m)'
        BY <2>4, <3>2, <4>1 DEF Saw, SawHop
      <4>3. out'[q] = m
        BY <1>3, <4>1
      <4> QED
        BY <4>2, <4>3 DEF HopDone
    <3>4. pc[q] = "get" /\ Label(at[q], cur[q])' <= clock' =>
            HopDone(q, Q[q], bundle[at[q]].entries[cur[q]].ptr)'
      <4> SUFFICES ASSUME pc[q] = "get", Label(at[q], cur[q])' <= clock'
                   PROVE  HopDone(q, Q[q], bundle[at[q]].entries[cur[q]].ptr)'
        OBVIOUS
      <4>1. PICK b, i : b = at[q] /\ i = cur[q]
        OBVIOUS
      <4>2. b \in Bundles /\ i \in 1 .. Newest(bundle[b]) /\ b \in alloc /\ key[b] < op[q].lo
        <5>1. b \in Bundles /\ i \in 0 .. Newest(bundle[b]) /\ i # 0 /\ bundle[b] \in Bundle
          BY <4>1 DEF SInv, RInv, IInv, TypeOK, ReaderInv
        <5>2. b \in alloc /\ key[b] < op[q].lo
          BY <1>5, <4>1 DEF GetInv
        <5> QED
          BY <5>1, <5>2, NewestNat
      <4>3. PICK m : m = bundle[b].entries[i].ptr
        OBVIOUS
      <4>4. bundle'[at'[q]].entries[cur'[q]].ptr = m
        BY <1>3, <4>1, <4>3
      <4>5. CASE Label(b, i) <= clock
        <5>1. HopDone(q, R[q], m)
          BY <2>4, <4>1, <4>3, <4>5 DEF Saw, SawHop
        <5>2. HopDone(q, Q[q], m)'
          BY <3>2, <5>1
        <5> QED
          BY <4>4, <5>2 DEF HopDone
      <4>6. CASE ~(Label(b, i) <= clock)
        <5>1. i = Newest(bundle[b])
          BY <4>2, <4>6, UnreachedNewest
        <5>2. Label(b, i)' <= clock'
          BY <1>3, <4>1 DEF Label
        <5>3. /\ Newest(bundle'[b]) = i /\ Newest(bundle'[b]) # 0 /\ b \in alloc'
              /\ key'[b] < op'[q].lo /\ op'[q] \in Operation /\ op'[q].type = "contains"
          <6>1. i # 0
            BY <4>2
          <6> QED
            BY <1>3, <1>4, <3>1, <4>2, <5>1, <6>1
        <5>4. Label(b, Newest(bundle[b]))' <= clock'
          BY <5>2, <5>3 DEF Label
        <5>5. HopDone(q, Q[q], bundle[b].entries[Newest(bundle[b])].ptr)'
          BY <3>1, <5>3, <5>4, HopSeenNext
        <5>6. bundle'[b].entries[Newest(bundle'[b])].ptr = m
          BY <1>3, <4>3, <5>3
        <5> QED
          BY <4>4, <5>5, <5>6 DEF HopDone
      <4> QED
        BY <4>5, <4>6
    <3> QED
      BY <3>1, <3>3, <3>4 DEF SawHop
  <2>7. SawQuery(q, Q[q])'
    <3>1. CASE lpc[q] \in {"announce", "query"}
      <4>1. q \notin K
        BY <1>8, <3>1
      <4> QED
        BY <1>1, <1>3, <1>4, <2>2, <2>4, <3>1, <4>1, QueryKept DEF Saw
    <3>2. CASE lpc[q] \notin {"announce", "query"}
      BY <1>4, <3>2 DEF SawQuery
    <3> QED
      BY <3>1, <3>2
  <2> QED
    BY <2>5, <2>6, <2>7 DEF Saw
<1>23. ASSUME NEW q \in Procs PROVE GetInv(q)' /\ RangeInv(q)' /\ CommitInv(q)'
  <2>1. RangeInv(q)'
    BY <1>5, RangeKept
  <2>2. CommitInv(q)'
    <3>1. ts'[q] \in Nat /\ ts'[q] <= clock
      BY <1>3 DEF SInv, RInv, IInv, TypeOK, UInv, UpdateInv
    <3>2. ts'[q] # clock'
      BY <1>3, <3>1
    <3> QED
      BY <3>2 DEF CommitInv
  <2>3. GetInv(q)'
    <3>1. CASE q = p
      BY <1>4, <3>1 DEF GetInv
    <3>2. CASE q # p
      BY <1>3, <1>4, <1>5, <1>6, <3>2 DEF GetInv
    <3> QED
      BY <3>1, <3>2
  <2> QED
    BY <2>1, <2>2, <2>3
<1>24. Sound(configs', Active') /\ Accounts(configs', op', AbstractKeys', Active', Finished', Q)
  BY <1>4, <1>11, <1>12, <1>17, <1>18, <1>21
<1> QED
  BY <1>22, <1>23, <1>24 DEF LinInv

\* A step that is not the clock's and does not return an operation is nobody's
\* business: the observer does not see it, and the set that the list holds is the same.
LEMMA QuietHolds ==
  ASSUME SInv, LInv, CollectInv, LinInv, NEW p \in Procs, ListStep(p), ~FetchAdd(p),
         lpc[p] # "idle", lpc'[p] # "idle"
  PROVE  LinInv'
<1>1. lpc \in [Procs -> {"idle", "search"} \cup StoppedLPCs]
  BY DEF LInv, FormInv
<1>2. \A r : ~ReturnKeys(p, r)
  BY <1>1 DEF ReturnKeys, Goto
<1>3. UNCHANGED <<clock, op, configs>>
  <2>1. CASE Search(p)
    BY <1>2, <2>1 DEF Search, vars, callVars
  <2>2. CASE LockCurr(p) \/ LockPred(p) \/ Invalid(p) \/ RetryCurr(p) \/ RetryPred(p)
    BY <2>2 DEF LockCurr, LockPred, Invalid, RetryCurr, RetryPred, vars, callVars
  <2>3. CASE Present(p) \/ UnlockPred(p) \/ EndContains(p) \/ EndQuery(p)
    BY <1>2, <2>3 DEF Present, UnlockPred, EndContains, EndQuery
  <2>4. CASE BeginInsert(p) \/ BeginErase(p)
    BY <2>4 DEF BeginInsert, BeginErase, BeginUpdate, callVars
  <2>5. CASE PrepareAndLabel(p)
    BY <2>5 DEF PrepareAndLabel, Prepare, LoadTS, ReloadTS, callVars
  <2>6. CASE LinWrite(p) \/ Unlink(p)
    BY <2>6 DEF LinWrite, Unlink, vars, callVars
  <2>7. CASE FinalizeBundles(p) \/ UnlockFirst(p)
    BY <2>7 DEF FinalizeBundles, UnlockFirst, Finalize, EndUpdate, callVars
  <2>8. CASE EnterNewest(p) \/ GetNext(p)
    BY <2>8 DEF EnterNewest, GetNext, BeginGet, Get, callVars
  <2>9. CASE StartQuery(p)
    BY <2>9 DEF StartQuery, StartTraversal, AnnounceStep, ReadClock, Announce, ClearFlag, callVars
  <2>10. CASE EnterSnapshot(p) \/ Collect(p)
    BY <2>10 DEF EnterSnapshot, Collect, BeginLookup, callVars
  <2>11. CASE ReadBundle(p)
    BY <2>11
    DEF ReadBundle, LookupStep, CheckFirst, LoadSecond, CheckSecond, AwaitLabel, Walk, callVars
  <2> QED
    BY <2>1, <2>2, <2>3, <2>4, <2>5, <2>6, <2>7, <2>8, <2>9, <2>10, <2>11 DEF ListStep
<1> QED
  BY <1>3, StepKeeps

\* An operation returns only at these steps.
LEMMA WhoReturns ==
  ASSUME LInv, NEW p \in Procs, ListStep(p), lpc[p] # "idle", lpc'[p] = "idle"
  PROVE  \/ Present(p) \/ UnlockPred(p) \/ EndContains(p) \/ EndQuery(p)
         \/ Search(p) /\ op[p].type = "erase" /\ ReturnKeys(p, <<>>)
<1>1. lpc \in [Procs -> {"idle", "search"} \cup StoppedLPCs]
  BY DEF LInv, FormInv
<1>2. \A l : Goto(p, l) => l = "idle"
  BY <1>1 DEF Goto
<1>3. op[p].type \in OpTypes
  BY OpProps DEF LInv, LocalInv
<1>4. CASE Search(p)
  <2>1. ASSUME NEW n PROVE ~Found(p, n)
    BY <1>2, <1>3 DEF Found, OpTypes
  <2> QED
    BY <1>4, <2>1 DEF Search
<1>5. CASE LockCurr(p) \/ LockPred(p) \/ Invalid(p) \/ RetryCurr(p) \/ RetryPred(p)
  BY <1>2, <1>5 DEF LockCurr, LockPred, Invalid, RetryCurr, RetryPred
<1>6. CASE BeginInsert(p) \/ BeginErase(p) \/ LinWrite(p) \/ Unlink(p)
  BY <1>2, <1>6 DEF BeginInsert, BeginErase, LinWrite, Unlink
<1>7. CASE PrepareAndLabel(p) \/ FinalizeBundles(p) \/ UnlockFirst(p)
  BY <1>2, <1>7 DEF PrepareAndLabel, FinalizeBundles, UnlockFirst
<1>8. CASE EnterNewest(p) \/ GetNext(p) \/ StartQuery(p)
  BY <1>2, <1>8 DEF EnterNewest, GetNext, StartQuery
<1>9. CASE EnterSnapshot(p) \/ Collect(p) \/ ReadBundle(p)
  BY <1>9 DEF EnterSnapshot, Collect, ReadBundle
<1> QED
  BY <1>4, <1>5, <1>6, <1>7, <1>8, <1>9 DEF ListStep

\* When nothing happens, what accounts for the calls does so still.
LEMMA LinStands ==
  ASSUME SInv, LInv, LinInv, UNCHANGED listVars
  PROVE  LinInv'
<1>1. /\ UNCHANGED <<clock, bundle, owner, ts, pc, at, cur, out, qts>>
      /\ UNCHANGED <<key, alloc, lpc, op, pred, curr, configs>> /\ UNCHANGED vars /\ [Next]_vars
  BY DEF listVars, vars, nodeVars, callVars, localVars
<1>2. AbstractKeys' = AbstractKeys
  BY <1>1, KeysHeld
<1>3. Active' = Active /\ Finished' = Finished
  BY <1>1 DEF Active, Finished
<1>4. PICK R : /\ Accounts(configs, op, AbstractKeys, Active, Finished, R)
               /\ \A q \in Procs : Saw(q, R[q])
  BY DEF LinInv
<1>5. ASSUME NEW q \in Procs PROVE Saw(q, R[q])' /\ GetInv(q)' /\ RangeInv(q)' /\ CommitInv(q)'
  <2>1. GetInv(q) /\ RangeInv(q) /\ CommitInv(q) /\ Saw(q, R[q])
    BY <1>4 DEF LinInv
  <2>2. R[q] \subseteq R[q]
    OBVIOUS
  <2>3. Saw(q, R[q])'
    BY <1>1, <1>3, <2>1, <2>2, SawKept
  <2>4. GetInv(q)' /\ RangeInv(q)'
    BY <1>1, <2>1 DEF GetInv, RangeInv
  <2>5. CommitInv(q)'
    <3> SUFFICES ASSUME ts[q] = clock PROVE ValueAt(pred[q], clock)' = curr[q]
      BY <1>1 DEF CommitInv
    <3>1. PICK n, t : n = pred[q] /\ t = clock
      OBVIOUS
    <3>2. ValueAt(n, t)' = ValueAt(n, t)
      BY <1>1 DEF ValueAt, VersionAt, Visible, Label
    <3>3. pred'[q] = n /\ clock' = t
      BY <1>1, <3>1
    <3>4. ValueAt(pred[q], clock)' = ValueAt(n, t)'
      BY <3>3 DEF ValueAt, VersionAt, Visible, Label
    <3> QED
      BY <2>1, <3>1, <3>2, <3>4 DEF CommitInv
  <2> QED
    BY <2>3, <2>4, <2>5
<1>6. Accounts(configs', op', AbstractKeys', Active', Finished', R)
  BY <1>1, <1>2, <1>3, <1>4
<1>7. Sound(configs', Active')
  BY <1>1, <1>3 DEF LinInv
<1> QED
  BY <1>5, <1>6, <1>7 DEF LinInv

LEMMA NextLin ==
  ASSUME SInv, LInv, CollectInv, LinInv, ~ObserveAbsent, [ListNext]_listVars
  PROVE  LinInv'
<1>1. SInv' /\ LInv'
  BY NextList
<1>2. ASSUME NEW p \in Procs, Call(p) PROVE LinInv'
  BY <1>1, <1>2, CallHolds
<1>3. ASSUME NEW p \in Procs, ListStep(p) PROVE LinInv'
  <2>1. lpc[p] # "idle"
    BY <1>3
    DEF ListStep, Search, LockCurr, LockPred, Invalid, Present, BeginInsert, BeginErase,
        PrepareAndLabel, LinWrite, FinalizeBundles, Unlink, UnlockFirst, UnlockPred, RetryCurr,
        RetryPred, EnterNewest, GetNext, EndContains, StartQuery, EnterSnapshot, ReadBundle,
        Collect, EndQuery
  <2>2. CASE FetchAdd(p)
    BY <1>1, <1>3, <2>2, AdvanceHolds
  <2>3. CASE lpc'[p] # "idle" /\ ~FetchAdd(p)
    BY <1>3, <2>1, <2>3, QuietHolds
  <2>4. CASE lpc'[p] = "idle"
    BY <1>3, <2>1, <2>4, WhoReturns, PresentReturns, UpdateReturnsDone, ContainsReturns,
       QueryReturns, AbsentReturns
  <2> QED
    BY <2>2, <2>3, <2>4
<1>4. CASE UNCHANGED listVars
  BY <1>4, LinStands
<1> QED
  BY <1>2, <1>3, <1>4 DEF ListNext, Done

\* The observer starts with the keys that the constructor has left.
LEMMA InitKeys ==
  ASSUME ListInit
  PROVE  AbstractKeys = {InitKey[n] : n \in alloc \ {HeadNode, MaxNode}}
<1>1. /\ Init /\ SInv /\ LInv /\ key = InitKey /\ clock = InitClock /\ bundle = InitBundle
      /\ alloc = {MaxNode} \cup {n \in Nodes : Newest(InitBundle[n]) # 0}
      /\ owner = [b \in Bundles |-> NoProc]
  BY InitList DEF ListInit, Init
<1>2. PICK f : f = LinksAt(clock)
  OBVIOUS
<1>3. SortedLinks(key, f) /\ \A n \in Nodes : f[n] = ValueAt(n, clock)
  BY <1>1, <1>2, ClockNow, SnapshotProps DEF LinksAt
<1>4. \A n \in Nodes : key[n] \in Int /\ key[HeadNode] <= key[n] /\ key[n] <= key[MaxNode]
  BY <1>1, KeyProps DEF LInv
<1>5. ASSUME NEW n \in Nodes PROVE n \in Listed(f) <=> n \in alloc
  <2>1. ValueAt(n, clock) = NewestPtr(bundle[n])
    <3>1. owner[n] = NoProc
      BY <1>1, Basics
    <3> QED
      BY <1>1, <3>1, IdleLink, Basics DEF SInv, RInv
  <2>2. Newest(InitBundle[n]) = 0 => f[n] = NoPtr
    BY <1>1, <1>3, <2>1 DEF NewestPtr
  <2>3. Newest(InitBundle[n]) # 0 => f[n] \notin {NoPtr, HeadNode}
    <3> SUFFICES ASSUME Newest(InitBundle[n]) # 0 PROVE f[n] \notin {NoPtr, HeadNode}
      OBVIOUS
    <3>1. InitBundle[n] \in Bundle
      BY InitAssumption, Basics
    <3>2. Newest(InitBundle[n]) \in 1 .. Len(InitBundle[n].entries)
      BY <3>1, NewestNat DEF Newest
    <3>3. InitBundle[n].entries[Newest(InitBundle[n])].ptr # HeadNode
      BY <3>2, InitListAssumption
    <3>4. InitBundle[n].entries[Newest(InitBundle[n])].ptr \in Nodes
      BY <3>1, <3>2, NewestNat, Basics DEF Newest
    <3>5. f[n] = InitBundle[n].entries[Newest(InitBundle[n])].ptr
      BY <1>1, <1>3, <2>1 DEF NewestPtr
    <3> QED
      BY <3>3, <3>4, <3>5, Basics
  <2> QED
    BY <1>1, <2>2, <2>3 DEF Listed
<1>6. /\ HeadNode \in Listed(f) /\ MaxNode \in Listed(f) /\ Listed(f) \subseteq Nodes
      /\ alloc \subseteq Nodes /\ HeadNode # MaxNode
  BY <1>1, <1>3, Basics, SortedProps, KeyProps DEF Listed, LInv
<1>7. ASSUME NEW n \in Listed(f) PROVE key[n] \in SetKeys <=> n \notin {HeadNode, MaxNode}
  <2>1. key[HeadNode] \notin SetKeys /\ key[MaxNode] \notin SetKeys
    BY <1>1, KeysAssumption
  <2>2. key[n] \in SetKeys \cup {key[HeadNode], key[MaxNode]}
    BY <1>1, <1>6 DEF LInv, FormInv
  <2>3. (key[n] = key[HeadNode] => n = HeadNode) /\ (key[n] = key[MaxNode] => n = MaxNode)
    BY <1>3, <1>4, <1>6, KeyOnce
  <2> QED
    BY <2>1, <2>2, <2>3
<1>8. \A k : k \in AbstractKeys <=> k \in {InitKey[n] : n \in alloc \ {HeadNode, MaxNode}}
  BY <1>1, <1>2, <1>5, <1>6, <1>7 DEF AbstractKeys, KeysAt
<1> QED
  BY <1>8, Zenon

LEMMA InitLin ==
  ASSUME ListInit
  PROVE  LinInv
<1>1. /\ SInv /\ LInv /\ clock # NullTS
      /\ lpc = [p \in Procs |-> "idle"] /\ ts = [p \in Procs |-> NullTS]
      /\ configs = Start({InitKey[n] : n \in alloc \ {HeadNode, MaxNode}})
  BY InitList, ClockNow DEF ListInit, Init
<1>2. Active = {} /\ Finished = {}
  BY <1>1 DEF Active, Finished
<1>3. PICK R : R = [q \in Procs |-> {}]
  OBVIOUS
<1>4. Sound(configs, {}) /\ Accounts(configs, op, AbstractKeys, {}, {}, R)
  BY <1>1, InitKeys, StartAccounts
<1>5. ASSUME NEW q \in Procs PROVE Saw(q, R[q]) /\ GetInv(q) /\ RangeInv(q) /\ CommitInv(q)
  <2>1. lpc[q] = "idle" /\ ts[q] # clock /\ q \notin Finished
    BY <1>1, <1>2
  <2> QED
    BY <2>1 DEF Saw, SawDone, SawHop, SawQuery, GetInv, RangeInv, CommitInv
<1> QED
  BY <1>2, <1>4, <1>5 DEF LinInv

LEMMA LinLeft ==
  ASSUME LinInv
  PROVE  Linearizable
<1>1. PICK R : /\ Accounts(configs, op, AbstractKeys, Active, Finished, R)
               /\ \A q \in Procs : Saw(q, R[q])
  BY DEF LinInv
<1>2. \A q \in Active \cap Finished : R[q] # {}
  BY <1>1 DEF Saw, SawDone, Active
<1> QED
  BY <1>1, <1>2, AccountsLeft DEF Linearizable

\* Inserts, erases, contains and range queries are linearizable, all of them
\* against one order, as long as nobody looks at the result of an erase that
\* finds nothing.
THEOREM ListLinearizes == ~ObserveAbsent => (ListSpec => []Linearizable)
<1> SUFFICES ASSUME ~ObserveAbsent PROVE ListSpec => []Linearizable
  OBVIOUS
<1>1. ListInit => LinInv
  BY InitLin
<1>2. SInv /\ LInv /\ CollectInv /\ LinInv /\ [ListNext]_listVars => LinInv'
  BY NextLin
<1>3. LinInv => Linearizable
  BY LinLeft
<1> QED
  BY <1>1, <1>2, <1>3, FoundInvariant, PTL DEF ListSpec
=============================================================================
