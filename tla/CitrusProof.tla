----------------------------- MODULE CitrusProof -----------------------------
(***************************************************************************)
(* Proofs about the bundled Citrus tree, for any number of processes,      *)
(* nodes and keys and any sequence of calls.                               *)
(***************************************************************************)
EXTENDS BundlesProof, CitrusTree

\* The tree hands its updates to the provider itself: which updates the constant
\* Updates of module Bundles allows is of no concern to it.  The theorems are
\* about the value that allows them all.
EveryUpdate ==
  \A w \in Seq([bundle : Bundles, ptr : Ptrs]) :
     /\ w # <<>>
     /\ \A i, j \in 1 .. Len(w) : w[i].bundle = w[j].bundle => i = j
     => w \in Updates

(***************************************************************************)
(* The inductive invariant.                                                *)
(***************************************************************************)
UnlinkTPCs == {"synchronize", "readers", "fix"}
WriteTPCs == {"label", "finalize", "tag", "unlock"} \cup UnlinkTPCs
PrevTPCs == {"lockCurr", "validate"}
SuccTPCs == {"succ", "lockPrevSucc", "lockSucc", "validateSucc"}
SnapshotTPCs == {"enter", "descend", "collect", "left", "right"}
TPCs == {"idle", "start", "search", "insert", "erase", "contains", "range", "lockPrev",
         "retry", "follow"} \cup PrevTPCs \cup SuccTPCs \cup WriteTPCs \cup SnapshotTPCs

Sides == {Left, Right}
Places == Nodes \cup {Null}

Local ==
  [prev : Nodes, dir : Sides, curr : Places, tag : Nat, prevSucc : Places, succ : Places,
   node : Places, held : Seq(Nodes), first : BOOLEAN, entry : Places, left : Places,
   stack : Seq(Nodes), found : Seq(SetKeys \cup {NoKey})]

\* The variables of the tree are functions on the processes, nodes and links.
TreeFormInv ==
  /\ key \in [Nodes -> SetKeys \cup {NoKey}]
  /\ lock \in [Nodes -> Procs \cup {NoProc}]
  /\ marked \in [Nodes -> BOOLEAN]
  /\ alloc \subseteq Nodes
  /\ child \in [Bundles -> Ptrs \cup {NoPtr}]
  /\ tag \in [Bundles -> Nat]
  /\ tpc \in [Procs -> TPCs]
  /\ todo \in [Procs -> Seq(Operation)]
  /\ op \in [Procs -> Operation \cup {[type |-> "none"]}]
  /\ my \in [Procs -> Local]

\* The links of n have a value at time t, and from then on: now, at the time of
\* p's query, at the time that p's update will have.
BornAt(n, t) == \A d \in Sides : Newest(bundle[<<n, d>>]) # 0 /\ Label(<<n, d>>, 1) <= t
InTree(n) == BornAt(n, clock)
InSnapshot(p, n) == BornAt(n, qts[p])
InUpdate(p, n) == BornAt(n, ts[p] + 1)

\* The links of the nodes in use lead to nodes that are in the tree, and a node
\* that is not in use has no links.
RawInv ==
  /\ InTree(Root) /\ InTree(RootChild)
  /\ \A n \in alloc : \A d \in Sides :
       child[<<n, d>>] \in Places /\ \A m \in Nodes : child[<<n, d>>] = m => InTree(m)
  /\ \A n \in Nodes \ alloc : \A d \in Sides :
       Newest(bundle[<<n, d>>]) = 0 /\ child[<<n, d>>] = NoPtr

\* A link never leads to a node before the links of that node have a value.
ClosedInv ==
  \A b \in Bundles : \A i \in 1 .. Newest(bundle[b]) : \A n \in Nodes :
     bundle[b].entries[i].ptr = n /\ Label(b, i) < Pending =>
        \A d \in Sides : Newest(bundle[<<n, d>>]) # 0 /\ Label(<<n, d>>, 1) <= Label(b, i)

\* The links that no update is about are what the newest entries say.
MatchInv ==
  \A n \in alloc : \A d \in Sides :
     owner[<<n, d>>] = NoProc /\ ~marked[n] => child[<<n, d>>] = NewestPtr(bundle[<<n, d>>])

TreeOpInv(p) ==
  /\ tpc[p] # "idle" => op[p] \in Operation
  /\ tpc[p] \in {"insert", "erase", "contains", "range"} => op[p].type = tpc[p]
  /\ tpc[p] \in {"lockPrev", "retry"} \cup PrevTPCs \cup WriteTPCs =>
        op[p].type \in {"insert", "erase"}
  /\ tpc[p] \in {"lockCurr", "tag"} \cup SuccTPCs \cup UnlinkTPCs => op[p].type = "erase"

\* Where a process is in a call of the provider.
TreePcInv(p) ==
  /\ tpc[p] = "label" => pc[p] \in {"prepare", "load", "reload", "bump", "finalize"}
  /\ tpc[p] = "finalize" => pc[p] = "finalize"
  /\ tpc[p] \in {"tag"} \cup UnlinkTPCs => pc[p] = "unlock"
  /\ tpc[p] = "unlock" => pc[p] \in {"unlock", "idle"}
  /\ tpc[p] = "follow" =>
        pc[p] \in GetPCs /\ (pc[p] = "got" => out[p] \in Places /\ \A n \in Nodes : n = out[p] => InTree(n))
  /\ tpc[p] = "range" => pc[p] \in {"idle"} \cup AnnouncePCs
  /\ tpc[p] \in {"enter", "collect"} => pc[p] = "query"
  /\ tpc[p] \in {"descend", "left", "right"} => pc[p] \in {"query"} \cup LookupPCs
  /\ tpc[p] \notin {"follow", "range"} \cup WriteTPCs \cup SnapshotTPCs => pc[p] = "idle"

\* Where a search or an update stands, it stands in the tree.
TreePlaceInv(p) ==
  /\ \A n \in Nodes : n \in {my[p].prev, my[p].curr, my[p].prevSucc, my[p].succ} => InTree(n)
  /\ tpc[p] = "search" => my[p].curr # Null
  /\ tpc[p] \in {"lockPrev"} \cup PrevTPCs /\ op[p].type = "erase" => my[p].curr # Null
  /\ tpc[p] \in {"search", "insert", "erase", "lockPrev"} \cup PrevTPCs => my[p].succ = Null
  /\ tpc[p] \in SuccTPCs => my[p].curr # Null /\ my[p].prevSucc # Null /\ my[p].succ # Null
  /\ {my[p].node, my[p].entry, my[p].left} \subseteq alloc \cup {Null}
  /\ \A i \in 1 .. Len(my[p].held) : my[p].held[i] \in alloc
  /\ \A i \in 1 .. Len(my[p].stack) : my[p].stack[i] \in alloc

TreeLockInv(p) ==
  /\ tpc[p] \in PrevTPCs \cup SuccTPCs => lock[my[p].prev] = p
  /\ (tpc[p] = "validate" /\ op[p].type = "erase") \/ tpc[p] \in SuccTPCs =>
        lock[my[p].curr] = p /\ my[p].curr # my[p].prev
  /\ tpc[p] \in {"lockSucc", "validateSucc"} /\ ~Adjacent(p) =>
        lock[my[p].prevSucc] = p /\ my[p].prevSucc \notin {my[p].prev, my[p].curr}
  /\ tpc[p] = "validateSucc" =>
        lock[my[p].succ] = p /\ my[p].succ \notin {my[p].prev, my[p].curr, my[p].prevSucc}
  /\ tpc[p] \in {"retry"} \cup WriteTPCs =>
        /\ Len(my[p].held) # 0
        /\ \A i, j \in 1 .. Len(my[p].held) : my[p].held[i] = my[p].held[j] => i = j
        /\ \A i \in 1 .. Len(my[p].held) : lock[my[p].held[i]] = p

\* p's update of a node with two children has yet to unlink the successor.
Unfixed(p) == Moves(p) /\ tpc[p] \in {"label", "finalize"} \cup UnlinkTPCs

\* A node that p's update brings, with both its bundles.
Newborn(p, n) ==
  \A d \in Sides : \E k \in 1 .. Len(upd[p]) :
     /\ upd[p][k].bundle = <<n, d>>
     /\ Newest(bundle[<<n, d>>]) = IF HasPrepared(p, k) THEN 1 ELSE 0

\* Where a write of p's update leads is in the tree when the write is seen.
Target(p, n) ==
  \/ InTree(n)
  \/ pc[p] \in {"prepare", "load"} /\ Newborn(p, n)
  \/ pc[p] \in {"reload", "bump", "finalize", "unlock"} /\ InUpdate(p, n)

\* The bundle that p's kth write is about belongs to a node p has locked, and the
\* link will be, or is, what the write says, unless the node is deleted.
WriteOf(p, k) ==
  LET b == upd[p][k].bundle
      c == upd[p][k].ptr
  IN
  /\ b[1] \in alloc /\ lock[b[1]] = p
  /\ c \in alloc \cup {Null} /\ \A n \in Nodes : n = c => Target(p, n)
  /\ tpc[p] = "label" /\ b = Link(p) => c = my[p].node
  /\ Unfixed(p) /\ b = Fixed(p) => c = child[<<my[p].succ, Right>>]
  /\ \/ tpc[p] = "label" /\ b = Link(p)
     \/ Unfixed(p) /\ b = Fixed(p)
     \/ marked[b[1]]
     \/ child[b] = c

TreeWriteInv(p) ==
  /\ \A k \in 1 .. Len(upd[p]) : WriteOf(p, k)
  /\ tpc[p] = "label" => Link(p) \in BundlesOf(upd[p])
  /\ tpc[p] \in UnlinkTPCs => Moves(p)
  /\ Unfixed(p) => /\ op[p].type = "erase" /\ Fixed(p) \in BundlesOf(upd[p])
                   /\ lock[my[p].succ] = p /\ my[p].succ # my[p].prev

HasValue(p, b) == ValueAt(b, qts[p]) # NoPtr

\* What a query holds is in its snapshot.
TreeSnapshotInv(p) ==
  /\ (tpc[p] = "range" /\ pc[p] \in {"announce", "clear"}) \/ tpc[p] = "enter"
        \/ (tpc[p] = "descend" /\ my[p].first) =>
        \A n \in Nodes : n = my[p].prev => InSnapshot(p, n)
  /\ tpc[p] \in {"descend", "left", "right"} =>
        at[p] # NoBundle /\ \A b \in Bundles : b = at[p] => HasValue(p, b)
  /\ tpc[p] \in {"collect", "left", "right"} =>
        \A i \in 1 .. Len(my[p].stack) : \A n \in Nodes : n = my[p].stack[i] => InSnapshot(p, n)
  /\ tpc[p] \in {"left", "right"} =>
        my[p].curr # Null /\ \A n \in Nodes : n = my[p].curr => InSnapshot(p, n)
  /\ tpc[p] = "right" => \A n \in Nodes : n = my[p].left => InSnapshot(p, n)

TreeLocalInv(p) ==
  /\ TreeOpInv(p) /\ TreePcInv(p) /\ TreePlaceInv(p) /\ TreeLockInv(p) /\ TreeWriteInv(p)
  /\ TreeSnapshotInv(p)

TreeInv ==
  TreeFormInv /\ RawInv /\ ClosedInv /\ MatchInv /\ \A p \in Procs : TreeLocalInv(p)

-----------------------------------------------------------------------------
(***************************************************************************)
(* What the assumptions say, and nodes with links at a time.               *)
(***************************************************************************)
LEMMA TreeBasics ==
  /\ Updaters = Procs /\ Queriers = Procs /\ Getters = Procs /\ ~Cleanup /\ NoProc \notin Procs
  /\ Ptrs = Places /\ Null \notin Nodes /\ NoPtr \notin Places
  /\ Root \in Nodes /\ RootChild \in Nodes
  /\ Left \in Sides /\ Right \in Sides /\ Left # Right /\ \A d \in Sides : 1 - d \in Sides
  /\ \A n \in Nodes : \A d \in Sides : <<n, d>> \in Bundles
  /\ \A b \in Bundles : b[1] \in Nodes /\ b[2] \in Sides /\ b = <<b[1], b[2]>>
<1>1. Bundles = Nodes \X Sides
  BY CitrusAssumption DEF Sides
<1>2. Left \in Sides /\ Right \in Sides /\ Left # Right /\ \A d \in Sides : 1 - d \in Sides
  BY DEF Sides, Left, Right
<1> QED
  BY <1>1, <1>2, CitrusAssumption, BundlesAssumption DEF Procs, NoProc, Places

\* What any step of the provider does to the labels.
LEMMA ProviderStep ==
  ASSUME SInv, [Next]_vars
  PROVE  /\ IInv /\ SInv' /\ IInv' /\ LabelStep /\ ~Clean
         /\ clock \in Nat /\ clock' \in Nat /\ FirstTS <= clock /\ clock <= clock'
         /\ clock < Pending /\ Pending \in Nat
<1>1. SInv' /\ IInv /\ IInv' /\ LabelStep
  BY TreeBasics, NextStore, NextInv DEF SInv, RInv
<1>2. ~Clean
  BY TreeBasics
  DEF SInv, RInv, NothingFreed, Clean, CleanStart, CleanAwaitFlag, CleanReadLin,
      CleanLoadHead, CleanCut, CleanEnd
<1>3. clock \in Nat /\ clock' \in Nat /\ FirstTS <= clock /\ clock < Pending
  BY <1>1 DEF IInv, TypeOK, UInv, ClockInv
<1> QED
  BY <1>1, <1>2, <1>3, PendingAssumption DEF LabelStep

\* A node's links have a value from the time of their oldest entries on.
LEMMA BornValue ==
  ASSUME IInv, NEW n \in Nodes, NEW t, BornAt(n, t), NEW d \in Sides
  PROVE  ValueAt(<<n, d>>, t) # NoPtr
<1>1. <<n, d>> \in Bundles
  BY TreeBasics
<1>2. Newest(bundle[<<n, d>>]) \in Nat
  BY <1>1, NewestNat DEF IInv, TypeOK
<1>3. 1 \in Visible(<<n, d>>, t)
  BY <1>2 DEF BornAt, Visible
<1> QED
  BY <1>1, <1>3, ValueType

LEMMA BornLater ==
  ASSUME IInv, NEW n \in Nodes, NEW s \in Nat, NEW t \in Nat, s <= t, BornAt(n, s)
  PROVE  BornAt(n, t)
<1> SUFFICES ASSUME NEW d \in Sides
             PROVE  Newest(bundle[<<n, d>>]) # 0 /\ Label(<<n, d>>, 1) <= t
  BY DEF BornAt
<1>1. <<n, d>> \in Bundles
  BY TreeBasics
<1>2. Newest(bundle[<<n, d>>]) \in Nat
  BY <1>1, NewestNat DEF IInv, TypeOK
<1>3. Newest(bundle[<<n, d>>]) # 0 /\ Label(<<n, d>>, 1) <= s
  BY DEF BornAt
<1>4. Label(<<n, d>>, 1) \in Nat
  BY <1>1, <1>2, <1>3, LabelNat
<1> QED
  BY <1>3, <1>4

LEMMA BornKept ==
  ASSUME SInv, [Next]_vars, NEW n \in Nodes, NEW t \in Nat, t < Pending, BornAt(n, t)
  PROVE  BornAt(n, t)'
<1> SUFFICES ASSUME NEW d \in Sides
             PROVE  Newest(bundle'[<<n, d>>]) # 0 /\ Label(<<n, d>>, 1)' <= t
  BY DEF BornAt
<1>1. <<n, d>> \in Bundles /\ IInv /\ IInv' /\ LabelStep /\ ~Clean
  BY TreeBasics, ProviderStep
<1>2. Newest(bundle[<<n, d>>]) \in Nat /\ Newest(bundle'[<<n, d>>]) \in Nat
  BY <1>1, NewestNat DEF IInv, TypeOK
<1>3. Newest(bundle[<<n, d>>]) # 0 /\ Label(<<n, d>>, 1) <= t
  BY DEF BornAt
<1>4. Label(<<n, d>>, 1) \in Nat /\ 1 \in 1 .. Newest(bundle[<<n, d>>])
  BY <1>1, <1>2, <1>3, LabelNat
<1>5. Label(<<n, d>>, 1) < Pending
  BY <1>3, <1>4, PendingAssumption
<1>6. 1 \in 1 .. Newest(bundle'[<<n, d>>]) /\ Label(<<n, d>>, 1)' = Label(<<n, d>>, 1)
  BY <1>1, <1>4, <1>5, SettledKept
<1> QED
  BY <1>2, <1>3, <1>6

\* The same after a step.
LEMMA BornLaterNext ==
  ASSUME NEW n \in Nodes, NEW s \in Nat, NEW t \in Nat, s <= t
  PROVE  IInv' /\ BornAt(n, s)' => BornAt(n, t)'
<1>1. IInv /\ BornAt(n, s) => BornAt(n, t)
  BY BornLater
<1> QED
  BY <1>1, PTL

LEMMA InTreeStays ==
  ASSUME SInv, [Next]_vars, NEW n \in Nodes, InTree(n)
  PROVE  InTree(n)'
<1>1. PICK s \in Nat : s = clock
  BY ProviderStep
<1>2. PICK t \in Nat : t = clock'
  BY ProviderStep
<1>3. s <= t /\ s < Pending /\ IInv'
  BY <1>1, <1>2, ProviderStep
<1>4. BornAt(n, s)'
  BY <1>1, <1>3, BornKept DEF InTree
<1>5. BornAt(n, t)'
  BY <1>3, <1>4, BornLaterNext
<1> QED
  BY <1>2, <1>5 DEF InTree, BornAt

LEMMA InSnapshotStays ==
  ASSUME SInv, [Next]_vars, NEW p \in Procs, NEW n \in Nodes, InSnapshot(p, n), qts'[p] = qts[p]
  PROVE  InSnapshot(p, n)'
<1>1. qts[p] \in Nat /\ qts[p] <= clock
  BY ProviderStep DEF SInv, RInv, ReadInv, ReadsWell, IInv, TypeOK, NullTS
<1>2. PICK t \in Nat : t = qts[p] /\ t < Pending
  BY <1>1, ProviderStep
<1>3. BornAt(n, t)'
  BY <1>2, BornKept DEF InSnapshot
<1> QED
  BY <1>2, <1>3 DEF InSnapshot, BornAt

LEMMA InUpdateStays ==
  ASSUME SInv, [Next]_vars, NEW p \in Procs, NEW n \in Nodes, InUpdate(p, n), ts'[p] = ts[p]
  PROVE  InUpdate(p, n)'
<1>1. ts[p] + 1 \in Nat /\ ts[p] + 1 < Pending
  <2>1. IInv
    BY ProviderStep
  <2>2. ts[p] \in Nat
    BY <2>1 DEF IInv, TypeOK
  <2>3. ts[p] + 1 < Pending
    BY <2>1 DEF IInv, UInv, UpdateInv
  <2> QED
    BY <2>2, <2>3
<1>2. PICK t \in Nat : t = ts[p] + 1 /\ t < Pending
  BY <1>1
<1>3. BornAt(n, t)'
  BY <1>2, BornKept DEF InUpdate
<1> QED
  BY <1>2, <1>3 DEF InUpdate, BornAt

\* What has links is in use.
LEMMA BornInUse ==
  ASSUME RawInv, NEW n \in Nodes, NEW t, BornAt(n, t)
  PROVE  n \in alloc
BY TreeBasics DEF RawInv, BornAt

\* Whatever the snapshot of a query holds is in the tree.
LEMMA SnapshotInTree ==
  ASSUME SInv, NEW p \in Procs, NEW n \in Nodes, InSnapshot(p, n)
  PROVE  InTree(n)
<1>1. IInv /\ qts[p] \in Nat /\ qts[p] <= clock /\ clock \in Nat
  BY DEF SInv, RInv, ReadInv, ReadsWell, IInv, TypeOK, NullTS
<1> QED
  BY <1>1, BornLater DEF InSnapshot, InTree

\* A link with a value at a time leads to a node with links at that time.
LEMMA ValueBorn ==
  ASSUME IInv, ClosedInv, NEW b \in Bundles, NEW t \in Nat, t < Pending, ValueAt(b, t) # NoPtr
  PROVE  ValueAt(b, t) \in Places /\ \A n \in Nodes : n = ValueAt(b, t) => BornAt(n, t)
<1>1. Visible(b, t) # {} /\ ValueAt(b, t) \in Places
  BY ValueType, TreeBasics
<1>2. PICK i \in 1 .. Newest(bundle[b]) : i = VersionAt(b, t) /\ Label(b, i) <= t
  BY <1>1, ValueType DEF Visible
<1>3. Label(b, i) \in Nat /\ ValueAt(b, t) = bundle[b].entries[i].ptr
  BY <1>1, <1>2, LabelNat DEF ValueAt
<1>4. ASSUME NEW n \in Nodes, n = ValueAt(b, t) PROVE BornAt(n, t)
  <2>1. PICK s \in Nat : s = Label(b, i)
    BY <1>3
  <2>2. s < Pending /\ s <= t
    BY <1>2, <2>1, PendingAssumption
  <2>3. BornAt(n, s)
    BY <1>3, <1>4, <2>1, <2>2 DEF ClosedInv, BornAt
  <2> QED
    BY <2>2, <2>3, BornLater
<1> QED
  BY <1>1, <1>4

-----------------------------------------------------------------------------
(***************************************************************************)
(* What a process's step leaves alone in the provider.                     *)
(***************************************************************************)
ProviderFrame(p) ==
  /\ \A q \in Procs : q # p =>
       /\ pc'[q] = pc[q] /\ upd'[q] = upd[q] /\ idx'[q] = idx[q] /\ ts'[q] = ts[q]
       /\ qts'[q] = qts[q] /\ at'[q] = at[q] /\ out'[q] = out[q]
  /\ \A b \in Bundles : owner[b] \notin {p, NoProc} =>
       owner'[b] = owner[b] /\ bundle'[b] = bundle[b]

LEMMA UpdateFrame ==
  ASSUME IInv, NEW p \in Procs, Update(p)
  PROVE  ProviderFrame(p)
<1> USE DEF ProviderFrame
<1>1. /\ pc \in [Procs -> PCs] /\ idx \in [Procs -> Nat] /\ ts \in [Procs -> Nat]
      /\ upd \in [Procs -> Updates \cup {<<>>}] /\ bundle \in [Bundles -> Bundle]
      /\ p \in Updaters
  BY TreeBasics DEF IInv, TypeOK
<1>2. ASSUME NEW w \in Updates, BeginUpdate(p, w) PROVE ProviderFrame(p)
  BY <1>1, <1>2 DEF BeginUpdate, readVars
<1>3. CASE LoadTS(p) \/ ReloadTS(p) \/ FetchAdd(p)
  BY <1>1, <1>3 DEF LoadTS, ReloadTS, FetchAdd, readVars, updateVars
<1>4. ASSUME NEW l, NextBundle(p, l)
      PROVE  \A q \in Procs : q # p => pc'[q] = pc[q] /\ idx'[q] = idx[q]
  BY <1>1, <1>4 DEF NextBundle
<1>5. ASSUME pc[p] \in {"prepare", "finalize"}, NEW b \in Bundles, owner[b] \notin {p, NoProc}
      PROVE  b # upd[p][idx[p]].bundle
  BY <1>1, <1>5, UpdateState DEF UpdatePCs
<1>6. CASE Prepare(p)
  <2>1. pc[p] = "prepare" /\ NextBundle(p, "load") /\ UNCHANGED <<owner, upd, ts, qts, readVars>>
    BY <1>6 DEF Prepare
  <2>2. ASSUME NEW b \in Bundles, owner[b] \notin {p, NoProc} PROVE bundle'[b] = bundle[b]
    <3>1. b # upd[p][idx[p]].bundle
      BY <1>5, <2>1, <2>2
    <3> QED
      BY <1>1, <1>6, <3>1 DEF Prepare
  <2> QED
    BY <1>4, <2>1, <2>2 DEF readVars
<1>7. CASE Finalize(p)
  <2>1. pc[p] = "finalize" /\ NextBundle(p, "unlock") /\ UNCHANGED <<owner, upd, ts, qts, readVars>>
    BY <1>7 DEF Finalize
  <2>2. ASSUME NEW b \in Bundles, owner[b] \notin {p, NoProc} PROVE bundle'[b] = bundle[b]
    <3>1. b # upd[p][idx[p]].bundle
      BY <1>5, <2>1, <2>2
    <3> QED
      BY <1>1, <1>7, <3>1 DEF Finalize
  <2> QED
    BY <1>4, <2>1, <2>2 DEF readVars
<1>8. CASE EndUpdate(p)
  BY <1>1, <1>8 DEF EndUpdate, readVars
<1> QED
  BY <1>2, <1>3, <1>6, <1>7, <1>8 DEF Update, UpdateStep

LEMMA ReadFrame ==
  ASSUME IInv, NEW p \in Procs, Query(p) \/ RunContains(p)
  PROVE  ProviderFrame(p)
<1> USE DEF ProviderFrame
<1>1. /\ pc \in [Procs -> PCs] /\ qts \in [Procs -> Nat] /\ at \in [Procs -> Bundles \cup {NoBundle}]
      /\ out \in [Procs -> Ptrs \cup {NoPtr}]
  BY DEF IInv, TypeOK
<1>2. Reads(p)
  BY TypeQuery
<1>3. UNCHANGED <<bundle, owner, upd, idx, ts>> /\ \A q \in Procs : q # p => pc'[q] = pc[q]
  BY <1>1, <1>2 DEF Reads, updateVars
<1>4. \A q \in Procs : q # p => qts'[q] = qts[q] /\ at'[q] = at[q] /\ out'[q] = out[q]
  BY <1>1
  DEF Query, RunContains, StartTraversal, AnnounceStep, ReadClock, Announce, ClearFlag, BeginLookup,
      LookupStep, CheckFirst, LoadSecond, CheckSecond, AwaitLabel, Walk, EndTraversal, BeginGet,
      Get, EndGet, Return, Continue, readVars
<1> QED
  BY <1>3, <1>4

LEMMA FrameOfProvider ==
  ASSUME IInv, NEW p \in Procs, Update(p) \/ Query(p) \/ RunContains(p) \/ UNCHANGED vars
  PROVE  ProviderFrame(p)
<1>1. CASE UNCHANGED vars
  BY <1>1 DEF vars, ProviderFrame
<1> QED
  BY <1>1, UpdateFrame, ReadFrame

-----------------------------------------------------------------------------
(***************************************************************************)
(* The tree drives the provider as the provider expects.                   *)
(***************************************************************************)

\* The nodes that a process's local variables stand on are in use.
LEMMA Stands ==
  ASSUME TreeInv, NEW p \in Procs
  PROVE  /\ my[p] \in Local /\ TreeLocalInv(p)
         /\ my[p].prev \in alloc /\ my[p].prev \in Nodes /\ my[p].dir \in Sides
         /\ my[p].curr \in alloc \cup {Null} /\ my[p].curr \in Places
         /\ my[p].prevSucc \in alloc \cup {Null} /\ my[p].prevSucc \in Places
         /\ my[p].succ \in alloc \cup {Null} /\ my[p].succ \in Places
         /\ Link(p) = <<my[p].prev, my[p].dir>> /\ Link(p) \in Bundles
<1>1. my[p] \in Local /\ TreeLocalInv(p) /\ RawInv
  BY DEF TreeInv, TreeFormInv
<1>2. /\ my[p].prev \in Nodes /\ my[p].dir \in Sides /\ my[p].curr \in Places
      /\ my[p].prevSucc \in Places /\ my[p].succ \in Places
  BY <1>1 DEF Local
<1>3. \A n \in Nodes : n \in {my[p].prev, my[p].curr, my[p].prevSucc, my[p].succ} => n \in alloc
  <2> TAKE n \in Nodes
  <2> HAVE n \in {my[p].prev, my[p].curr, my[p].prevSucc, my[p].succ}
  <2>1. InTree(n)
    BY <1>1 DEF TreeLocalInv, TreePlaceInv
  <2> QED
    BY <1>1, <2>1, BornInUse DEF InTree
<1>4. Link(p) = <<my[p].prev, my[p].dir>> /\ Link(p) \in Bundles
  BY <1>2, TreeBasics DEF Link
<1> QED
  BY <1>1, <1>2, <1>3, <1>4 DEF Places

\* Where the links of a node in use lead.
LEMMA ChildOf ==
  ASSUME TreeInv, NEW n \in alloc, NEW d \in Sides
  PROVE  /\ n \in Nodes /\ <<n, d>> \in Bundles
         /\ child[<<n, d>>] \in Places /\ child[<<n, d>>] \in alloc \cup {Null}
         /\ \A m \in Nodes : child[<<n, d>>] = m => InTree(m)
<1>1. n \in Nodes /\ RawInv
  BY DEF TreeInv, TreeFormInv
<1>2. child[<<n, d>>] \in Places /\ \A m \in Nodes : child[<<n, d>>] = m => InTree(m)
  BY <1>1 DEF RawInv
<1>3. child[<<n, d>>] # Null => child[<<n, d>>] \in alloc
  BY <1>1, <1>2, BornInUse DEF InTree, Places
<1> QED
  BY <1>1, <1>2, <1>3, TreeBasics

LEMMA WriteProps ==
  ASSUME NEW n \in Nodes, NEW d \in Sides, NEW c \in Places
  PROVE  /\ Write(n, d, c) \in [bundle : Bundles, ptr : Ptrs]
         /\ Write(n, d, c).bundle = <<n, d>> /\ Write(n, d, c).ptr = c
BY TreeBasics DEF Write

LEMMA ThreeWrites ==
  ASSUME EveryUpdate, NEW a \in [bundle : Bundles, ptr : Ptrs],
         NEW b \in [bundle : Bundles, ptr : Ptrs], NEW c \in [bundle : Bundles, ptr : Ptrs],
         a.bundle # b.bundle, a.bundle # c.bundle, b.bundle # c.bundle
  PROVE  <<a, b, c>> \in Updates
<1> DEFINE w == <<a, b, c>>
<1>1. w \in Seq([bundle : Bundles, ptr : Ptrs]) /\ w # <<>> /\ Len(w) = 3
      /\ w[1] = a /\ w[2] = b /\ w[3] = c
  OBVIOUS
<1> HIDE DEF w
<1>2. \A i, j \in 1 .. Len(w) : w[i].bundle = w[j].bundle => i = j
  <2> SUFFICES ASSUME NEW i \in 1 .. 3, NEW j \in 1 .. 3, w[i].bundle = w[j].bundle PROVE i = j
    BY <1>1
  <2>1. i \in {1, 2, 3} /\ j \in {1, 2, 3}
    OBVIOUS
  <2> QED
    BY <1>1, <2>1
<1>3. w \in Updates
  BY <1>1, <1>2 DEF EveryUpdate
<1> QED
  BY <1>3 DEF w

\* What an insert of node n, and an erase of a node that c replaces, write.
InsertWrites(p, n) ==
  <<Write(n, Left, Null), Write(n, Right, Null), Write(my[p].prev, my[p].dir, n)>>
EraseWrites(p, c) ==
  <<Write(my[p].prev, my[p].dir, c),
    Write(my[p].curr, Left, RootChild), Write(my[p].curr, Right, RootChild)>>

\* What an erase writes that moves a copy m of the successor up.
MoveWrites(p, m) ==
  <<Write(my[p].prev, my[p].dir, m),
    Write(m, Left, child[<<my[p].curr, Left>>]), Write(m, Right, MovedRight(p)),
    Write(my[p].curr, Left, RootChild), Write(my[p].curr, Right, RootChild)>>
  \o IF Adjacent(p) THEN <<>>
     ELSE <<Write(my[p].prevSucc, Left, child[<<my[p].succ, Right>>])>>

LEMMA InsertAllowed ==
  ASSUME EveryUpdate, TreeInv, NEW p \in Procs, NEW n \in Nodes \ alloc
  PROVE  InsertWrites(p, n) \in Updates
<1>1. my[p].prev \in Nodes /\ my[p].prev # n /\ my[p].dir \in Sides
  BY Stands
<1>2. <<n, Left>> # <<n, Right>> /\ \A d \in Sides : <<n, d>> # <<my[p].prev, my[p].dir>>
  BY <1>1, TreeBasics
<1> QED
  BY <1>1, <1>2, WriteProps, ThreeWrites, TreeBasics DEF InsertWrites, Places

LEMMA EraseAllowed ==
  ASSUME EveryUpdate, TreeInv, NEW p \in Procs, NEW c \in Places,
         my[p].curr # Null, my[p].curr # my[p].prev
  PROVE  EraseWrites(p, c) \in Updates
<1>1. /\ my[p].prev \in Nodes /\ my[p].curr \in Nodes /\ my[p].curr # my[p].prev
      /\ my[p].dir \in Sides
  BY Stands DEF Places
<1>2. /\ <<my[p].curr, Left>> # <<my[p].curr, Right>>
      /\ \A d \in Sides : <<my[p].curr, d>> # <<my[p].prev, my[p].dir>>
  BY <1>1, TreeBasics
<1> QED
  BY <1>1, <1>2, WriteProps, ThreeWrites, TreeBasics DEF EraseWrites, Places

\* The state in which an erase has locked all it needs.
LEMMA AllLocked ==
  ASSUME TreeInv, NEW p \in Procs, tpc[p] = "validateSucc"
  PROVE  /\ my[p].curr \in alloc /\ my[p].prevSucc \in alloc /\ my[p].succ \in alloc
         /\ my[p].curr \in Nodes /\ my[p].prevSucc \in Nodes /\ my[p].succ \in Nodes
         /\ my[p].prev # my[p].curr /\ my[p].succ \notin {my[p].prev, my[p].curr, my[p].prevSucc}
         /\ ~Adjacent(p) => my[p].prevSucc \notin {my[p].prev, my[p].curr}
         /\ lock[my[p].prev] = p /\ lock[my[p].curr] = p /\ lock[my[p].succ] = p
         /\ ~Adjacent(p) => lock[my[p].prevSucc] = p
         /\ MovedRight(p) \in Places /\ MovedRight(p) \in alloc \cup {Null}
         /\ \A n \in Nodes : n = MovedRight(p) => InTree(n)
         /\ op[p].type = "erase" /\ pc[p] = "idle"
<1>1. TreeOpInv(p) /\ TreePcInv(p) /\ TreePlaceInv(p) /\ TreeLockInv(p)
  BY Stands DEF TreeLocalInv
<1>2. tpc[p] \in SuccTPCs
  BY DEF SuccTPCs
<1>3. my[p].curr # Null /\ my[p].prevSucc # Null /\ my[p].succ # Null
  BY <1>1, <1>2 DEF TreePlaceInv
<1>4. /\ my[p].curr \in alloc /\ my[p].prevSucc \in alloc /\ my[p].succ \in alloc
      /\ my[p].curr \in Nodes /\ my[p].prevSucc \in Nodes /\ my[p].succ \in Nodes
  BY <1>3, Stands DEF Places
<1>5. /\ my[p].prev # my[p].curr /\ my[p].succ \notin {my[p].prev, my[p].curr, my[p].prevSucc}
      /\ ~Adjacent(p) => my[p].prevSucc \notin {my[p].prev, my[p].curr}
      /\ lock[my[p].prev] = p /\ lock[my[p].curr] = p /\ lock[my[p].succ] = p
      /\ ~Adjacent(p) => lock[my[p].prevSucc] = p
  BY <1>1, <1>2 DEF TreeLockInv
<1>6. /\ MovedRight(p) \in Places /\ MovedRight(p) \in alloc \cup {Null}
      /\ \A n \in Nodes : n = MovedRight(p) => InTree(n)
  <2>1. CASE Adjacent(p)
    BY <1>4, <2>1, ChildOf, TreeBasics DEF MovedRight
  <2>2. CASE ~Adjacent(p)
    BY <1>4, <2>2, ChildOf, TreeBasics DEF MovedRight
  <2> QED
    BY <2>1, <2>2
<1>7. op[p].type = "erase" /\ pc[p] = "idle"
  BY <1>1, <1>2 DEF TreeOpInv, TreePcInv, SuccTPCs, WriteTPCs, SnapshotTPCs, UnlinkTPCs
<1> QED
  BY <1>4, <1>5, <1>6, <1>7

\* The writes one by one, and their bundles, which are all different.
LEMMA MoveShape ==
  ASSUME TreeInv, NEW p \in Procs, tpc[p] = "validateSucc", NEW m \in Nodes \ alloc
  PROVE  LET w == MoveWrites(p, m)
         IN  /\ w \in Seq([bundle : Bundles, ptr : Ptrs])
             /\ Len(w) = IF Adjacent(p) THEN 5 ELSE 6
             /\ w[1].bundle = Link(p) /\ w[1].ptr = m
             /\ w[2].bundle = <<m, Left>> /\ w[2].ptr = child[<<my[p].curr, Left>>]
             /\ w[3].bundle = <<m, Right>> /\ w[3].ptr = MovedRight(p)
             /\ w[4].bundle = <<my[p].curr, Left>> /\ w[4].ptr = RootChild
             /\ w[5].bundle = <<my[p].curr, Right>> /\ w[5].ptr = RootChild
             /\ ~Adjacent(p) => /\ w[6].bundle = <<my[p].prevSucc, Left>>
                                /\ w[6].ptr = child[<<my[p].succ, Right>>]
<1> DEFINE T == [bundle : Bundles, ptr : Ptrs]
           a == Write(my[p].prev, my[p].dir, m)
           b == Write(m, Left, child[<<my[p].curr, Left>>])
           c == Write(m, Right, MovedRight(p))
           d == Write(my[p].curr, Left, RootChild)
           e == Write(my[p].curr, Right, RootChild)
           f == Write(my[p].prevSucc, Left, child[<<my[p].succ, Right>>])
           s == <<a, b, c, d, e>>
           w == MoveWrites(p, m)
<1>1. /\ my[p].prev \in Nodes /\ my[p].dir \in Sides /\ my[p].curr \in Nodes
      /\ my[p].prevSucc \in Nodes /\ MovedRight(p) \in Places
      /\ child[<<my[p].curr, Left>>] \in Places /\ child[<<my[p].succ, Right>>] \in Places
  BY AllLocked, Stands, ChildOf, TreeBasics
<1>2. /\ a \in T /\ b \in T /\ c \in T /\ d \in T /\ e \in T /\ f \in T
      /\ a.bundle = Link(p) /\ a.ptr = m
      /\ b.bundle = <<m, Left>> /\ b.ptr = child[<<my[p].curr, Left>>]
      /\ c.bundle = <<m, Right>> /\ c.ptr = MovedRight(p)
      /\ d.bundle = <<my[p].curr, Left>> /\ d.ptr = RootChild
      /\ e.bundle = <<my[p].curr, Right>> /\ e.ptr = RootChild
      /\ f.bundle = <<my[p].prevSucc, Left>> /\ f.ptr = child[<<my[p].succ, Right>>]
  BY <1>1, WriteProps, TreeBasics DEF Places, Link
<1>3. w = s \o IF Adjacent(p) THEN <<>> ELSE <<f>>
  BY DEF MoveWrites
<1> HIDE DEF a, b, c, d, e, f, T
<1>4. /\ s \in Seq(T) /\ Len(s) = 5
      /\ s[1] = a /\ s[2] = b /\ s[3] = c /\ s[4] = d /\ s[5] = e
  BY <1>2
<1> HIDE DEF s, w
<1>5. CASE Adjacent(p)
  <2>1. w = s
    BY <1>3, <1>4, <1>5, ConcatEmptySeq
  <2> QED
    BY <1>2, <1>4, <1>5, <2>1 DEF T, w
<1>6. CASE ~Adjacent(p)
  <2>1. w = Append(s, f)
    <3>1. w = s \o <<f>>
      BY <1>3, <1>6
    <3> QED
      BY <1>2, <1>4, <3>1, AppendIsConcat
  <2>2. w \in Seq(T) /\ Len(w) = 6 /\ w[6] = f /\ \A i \in 1 .. 5 : w[i] = s[i]
    <3>1. /\ Append(s, f) \in Seq(T) /\ Len(Append(s, f)) = Len(s) + 1
          /\ \A i \in 1 .. Len(s) : Append(s, f)[i] = s[i]
          /\ Append(s, f)[Len(s) + 1] = f
      <4>1. f \in T /\ s \in Seq(T)
        BY <1>2, <1>4
      <4> QED
        BY ONLY <4>1, AppendProperties
    <3> QED
      BY <1>4, <2>1, <3>1
  <2> QED
    BY <1>2, <1>4, <1>6, <2>2 DEF T, w
<1> QED
  BY <1>5, <1>6

LEMMA MoveAllowed ==
  ASSUME EveryUpdate, TreeInv, NEW p \in Procs, tpc[p] = "validateSucc", NEW m \in Nodes \ alloc
  PROVE  MoveWrites(p, m) \in Updates
<1>1. PICK w : w = MoveWrites(p, m)
  OBVIOUS
<1>2. /\ w \in Seq([bundle : Bundles, ptr : Ptrs]) /\ Len(w) = (IF Adjacent(p) THEN 5 ELSE 6)
      /\ w[1].bundle = <<my[p].prev, my[p].dir>>
      /\ w[2].bundle = <<m, Left>> /\ w[3].bundle = <<m, Right>>
      /\ w[4].bundle = <<my[p].curr, Left>> /\ w[5].bundle = <<my[p].curr, Right>>
      /\ ~Adjacent(p) => w[6].bundle = <<my[p].prevSucc, Left>>
  BY <1>1, MoveShape DEF Link
<1>3. /\ m \notin {my[p].prev, my[p].curr, my[p].prevSucc} /\ my[p].prev # my[p].curr
      /\ ~Adjacent(p) => my[p].prevSucc \notin {my[p].prev, my[p].curr}
      /\ Left # Right
  BY AllLocked, Stands, TreeBasics
<1>4. \A i, j \in 1 .. Len(w) : w[i].bundle = w[j].bundle => i = j
  <2> SUFFICES ASSUME NEW i \in 1 .. Len(w), NEW j \in 1 .. Len(w), w[i].bundle = w[j].bundle
               PROVE  i = j
    OBVIOUS
  <2>1. i \in {1, 2, 3, 4, 5, 6} /\ j \in {1, 2, 3, 4, 5, 6} /\ (i = 6 \/ j = 6 => ~Adjacent(p))
    BY <1>2
  <2> QED
    BY <1>2, <1>3, <2>1
<1>5. w # <<>>
  BY <1>2
<1> QED
  BY <1>1, <1>2, <1>4, <1>5 DEF EveryUpdate

\* What the lookup of a query has read.
LEMMA ReadResult ==
  ASSUME SInv, TreeInv, NEW p \in Procs, tpc[p] \in {"descend", "left", "right"}, pc[p] = "query"
  PROVE  /\ out[p] \in Places /\ out[p] \in alloc \cup {Null}
         /\ \A n \in Nodes : n = out[p] => InSnapshot(p, n)
<1>1. TreeSnapshotInv(p) /\ IInv /\ ClosedInv /\ RawInv
  BY Stands DEF TreeLocalInv, TreeInv, SInv, RInv
<1>2. at[p] \in Bundles /\ ValueAt(at[p], qts[p]) # NoPtr
  BY <1>1 DEF TreeSnapshotInv, HasValue, IInv, TypeOK
<1>3. out[p] = ValueAt(at[p], qts[p]) /\ qts[p] \in Nat /\ qts[p] <= clock
  BY <1>1, <1>2, BundlesAssumption
  DEF SInv, RInv, ReadInv, ReadsWell, IInv, TypeOK, NullTS
<1>4. PICK b \in Bundles : b = at[p]
  BY <1>2
<1>5. PICK t \in Nat : t = qts[p]
  BY <1>3
<1>6. t < Pending
  BY <1>1, <1>3, <1>5, PendingAssumption DEF IInv, TypeOK, UInv, ClockInv
<1>7. out[p] = ValueAt(b, t) /\ ValueAt(b, t) # NoPtr
  BY <1>2, <1>3, <1>4, <1>5
<1>8. out[p] \in Places /\ \A n \in Nodes : n = out[p] => BornAt(n, t)
  BY <1>1, <1>6, <1>7, ValueBorn
<1>9. \A n \in Nodes : n = out[p] => InSnapshot(p, n) /\ n \in alloc
  BY <1>1, <1>5, <1>8, BornInUse DEF InSnapshot
<1> QED
  BY <1>8, <1>9 DEF Places

LEMMA SideOf == \A p, n : Side(p, n) \in Sides
BY TreeBasics DEF Side

\* Links that a step of the tree asks the provider for.
LEMMA LinkNamed ==
  ASSUME NEW n \in Places, n # Null, NEW d \in Sides
  PROVE  n \in Nodes /\ <<n, d>> \in Bundles
BY TreeBasics DEF Places

LEMMA StepOfProvider ==
  ASSUME EveryUpdate, SInv, TreeInv, NEW p \in Procs, Call(p) \/ TreeStep(p)
  PROVE  Update(p) \/ Query(p) \/ RunContains(p) \/ UNCHANGED vars
<1>1. p \in Updaters /\ p \in Queriers /\ p \in Getters
  BY TreeBasics
<1>2. Link(p) \in Bundles /\ my[p] \in Local /\ TreeLocalInv(p)
  BY Stands
<1>3. CASE BeginInsert(p)
  <2>1. PICK n \in Nodes \ alloc : BeginUpdate(p, InsertWrites(p, n))
    BY <1>3 DEF BeginInsert, NewNode, InsertWrites
  <2> QED
    BY <1>1, <2>1, InsertAllowed DEF Update
<1>4. CASE BeginErase(p)
  <2>1. my[p].curr # Null /\ my[p].curr # my[p].prev /\ my[p].curr \in alloc
    BY <1>2, <1>4, Stands
    DEF BeginErase, Valid, TreeLocalInv, TreePlaceInv, TreeLockInv, PrevTPCs
  <2>2. PICK d \in Sides : BeginUpdate(p, EraseWrites(p, child[<<my[p].curr, 1 - d>>]))
    BY <1>4 DEF BeginErase, EraseWrites, Sides
  <2>3. child[<<my[p].curr, 1 - d>>] \in Places
    BY <2>1, ChildOf, TreeBasics
  <2> QED
    BY <1>1, <2>1, <2>2, <2>3, EraseAllowed DEF Update
<1>5. CASE BeginMove(p)
  <2>1. tpc[p] = "validateSucc"
    BY <1>5 DEF BeginMove
  <2>2. PICK m \in Nodes \ alloc : BeginUpdate(p, MoveWrites(p, m))
    BY <1>5 DEF BeginMove, NewNode, MoveWrites
  <2> QED
    BY <1>1, <2>1, <2>2, MoveAllowed DEF Update
<1>6. CASE PrepareAndLabel(p) \/ FinalizeBundles(p) \/ Unlock(p)
  BY <1>1, <1>6 DEF PrepareAndLabel, FinalizeBundles, Unlock, Update, UpdateStep
<1>7. CASE FollowNewest(p)
  <2>1. ASSUME tpc[p] = "follow", pc[p] = "got", ~Stops(p, out[p])
        PROVE  <<out[p], Side(p, out[p])>> \in Bundles
    <3>1. out[p] \in Places /\ out[p] # Null
      BY <1>2, <2>1 DEF TreeLocalInv, TreePcInv, Stops
    <3> QED
      BY <3>1, LinkNamed, SideOf
  <2> QED
    BY <1>1, <1>2, <1>7, <2>1 DEF FollowNewest, RunContains
<1>8. CASE EndContains(p)
  BY <1>1, <1>8 DEF EndContains, RunContains
<1>9. CASE StartQuery(p) \/ ReadBundle(p) \/ EndQuery(p) \/ EnterSnapshot(p)
  BY <1>1, <1>2, <1>9 DEF StartQuery, ReadBundle, EndQuery, EnterSnapshot, Query
<1>10. CASE Descend(p)
  <2>1. out[p] \in Places /\ out[p] # Null
    BY <1>10, ReadResult DEF Descend, HasRead, Stops
  <2>2. my[p].prev \in Nodes
    BY Stands
  <2>3. NextLink(p) \in Bundles
    BY <2>1, <2>2, LinkNamed, SideOf, TreeBasics DEF NextLink
  <2> QED
    BY <1>1, <1>10, <2>3 DEF Descend, Query
<1>11. CASE Collect(p)
  <2>1. my[p].stack \in Seq(Nodes) /\ my[p].stack # <<>>
    BY <1>2, <1>11 DEF Collect, Local
  <2>2. Head(my[p].stack) \in Nodes
    BY <2>1, HeadTailProperties
  <2>3. <<Head(my[p].stack), Left>> \in Bundles
    BY <2>2, TreeBasics
  <2> QED
    BY <1>1, <1>11, <2>3 DEF Collect, Query
<1>12. CASE ReadRight(p)
  <2>1. my[p].curr # Null /\ my[p].curr \in Places
    BY <1>2, <1>12, Stands DEF ReadRight, HasRead, TreeLocalInv, TreeSnapshotInv
  <2>2. <<my[p].curr, Right>> \in Bundles
    BY <2>1, LinkNamed, TreeBasics
  <2> QED
    BY <1>1, <1>12, <2>2 DEF ReadRight, Query
<1>13. CASE \/ Call(p) \/ Begin(p) \/ Search(p) \/ EndSearch(p) \/ LockPrev(p) \/ LockCurr(p)
            \/ Invalid(p) \/ FindSucc(p) \/ NextSucc(p) \/ LockSucc(p) \/ InvalidSucc(p)
            \/ LinWrite(p) \/ Synchronize(p) \/ UnlinkSucc(p) \/ RaiseTag(p)
            \/ EnterRange(p) \/ Push(p)
  BY <1>13
  DEF Call, Begin, Search, EndSearch, LockPrev, LockCurr, Invalid, FindSucc, NextSucc, LockSucc,
      InvalidSucc, LinWrite, Synchronize, UnlinkSucc, RaiseTag, EnterRange, Push
<1> QED
  BY <1>3, <1>4, <1>5, <1>6, <1>7, <1>8, <1>9, <1>10, <1>11, <1>12, <1>13 DEF TreeStep

LEMMA StepIsNext ==
  ASSUME EveryUpdate, SInv, TreeInv, NEW p \in Procs, Call(p) \/ TreeStep(p)
  PROVE  [Next]_vars /\ ProviderFrame(p)
<1>1. Update(p) \/ Query(p) \/ RunContains(p) \/ UNCHANGED vars
  BY StepOfProvider
<1>2. ProviderFrame(p)
  BY <1>1, FrameOfProvider DEF SInv, RInv
<1> QED
  BY <1>1, <1>2, TreeBasics DEF Next

-----------------------------------------------------------------------------
(***************************************************************************)
(* What a process's step leaves alone in the tree.                         *)
(***************************************************************************)
LocalFrame(p) ==
  \A q \in Procs : q # p => tpc'[q] = tpc[q] /\ op'[q] = op[q] /\ my'[q] = my[q]

NodeFrame(p) ==
  /\ alloc \subseteq alloc'
  /\ \A n \in alloc : lock[n] \notin {p, NoProc} => lock'[n] = lock[n]
  /\ \A n \in alloc : lock[n] # p => marked'[n] = marked[n]
  /\ \A n \in Nodes : marked[n] => marked'[n]
  /\ \A n \in alloc : lock[n] # p => \A d \in Sides : child'[<<n, d>>] = child[<<n, d>>]

LEMMA LocalsKept ==
  ASSUME TreeInv, NEW p \in Procs, Call(p) \/ TreeStep(p)
  PROVE  LocalFrame(p)
<1> USE DEF LocalFrame
<1>1. /\ tpc \in [Procs -> TPCs] /\ op \in [Procs -> Operation \cup {[type |-> "none"]}]
      /\ my \in [Procs -> Local]
  BY DEF TreeInv, TreeFormInv
<1>2. CASE Call(p) \/ Begin(p) \/ Search(p) \/ Invalid(p) \/ LockPrev(p) \/ LockCurr(p)
  BY <1>1, <1>2 DEF Call, Begin, Search, Invalid, LockPrev, LockCurr, callVars, Goto
<1>3. CASE FindSucc(p) \/ NextSucc(p) \/ LockSucc(p) \/ InvalidSucc(p)
  BY <1>1, <1>3 DEF FindSucc, NextSucc, LockSucc, InvalidSucc, callVars, Goto
<1>4. CASE BeginInsert(p) \/ BeginErase(p) \/ BeginMove(p)
  BY <1>1, <1>4 DEF BeginInsert, BeginErase, BeginMove, callVars, Goto
<1>5. CASE PrepareAndLabel(p) \/ LinWrite(p) \/ FinalizeBundles(p)
           \/ Synchronize(p) \/ UnlinkSucc(p) \/ RaiseTag(p)
  BY <1>1, <1>5
  DEF PrepareAndLabel, LinWrite, FinalizeBundles, Synchronize, UnlinkSucc, RaiseTag, callVars, Goto
<1>6. CASE EndSearch(p) \/ Unlock(p) \/ EndContains(p) \/ EndQuery(p)
  BY <1>1, <1>6 DEF EndSearch, Unlock, EndContains, EndQuery, ReturnKeys, callVars, Goto
<1>7. CASE FollowNewest(p) \/ StartQuery(p) \/ EnterSnapshot(p) \/ ReadBundle(p)
  BY <1>1, <1>7 DEF FollowNewest, StartQuery, EnterSnapshot, ReadBundle, callVars, Goto
<1>8. CASE Descend(p) \/ EnterRange(p) \/ Collect(p) \/ ReadRight(p) \/ Push(p)
  BY <1>1, <1>8 DEF Descend, EnterRange, Collect, ReadRight, Push, callVars, Goto
<1> QED
  BY <1>2, <1>3, <1>4, <1>5, <1>6, <1>7, <1>8 DEF TreeStep

\* The steps that leave the nodes as they are.
QuietNodes(p) ==
  \/ Call(p) \/ Begin(p) \/ Search(p) \/ EndSearch(p) \/ Invalid(p)
  \/ FindSucc(p) \/ NextSucc(p) \/ InvalidSucc(p) \/ PrepareAndLabel(p) \/ FinalizeBundles(p)
  \/ Synchronize(p) \/ FollowNewest(p) \/ EndContains(p) \/ StartQuery(p) \/ EnterSnapshot(p)
  \/ ReadBundle(p) \/ Descend(p) \/ EnterRange(p) \/ Collect(p) \/ ReadRight(p) \/ Push(p)
  \/ EndQuery(p)

LEMMA QuietNodesKept ==
  ASSUME NEW p \in Procs, QuietNodes(p)
  PROVE  UNCHANGED <<key, lock, marked, child, tag, alloc>>
BY DEF QuietNodes, Call, Begin, Search, EndSearch, Invalid, FindSucc, NextSucc, InvalidSucc,
       PrepareAndLabel, FinalizeBundles, Synchronize, FollowNewest, EndContains, StartQuery,
       EnterSnapshot, ReadBundle, Descend, EnterRange, Collect, ReadRight, Push, EndQuery, nodeVars

LEMMA StepKinds ==
  ASSUME NEW p \in Procs, Call(p) \/ TreeStep(p)
  PROVE  \/ QuietNodes(p)
         \/ LockPrev(p) \/ LockCurr(p) \/ LockSucc(p) \/ Unlock(p)
         \/ BeginInsert(p) \/ BeginErase(p) \/ BeginMove(p)
         \/ LinWrite(p) \/ UnlinkSucc(p) \/ RaiseTag(p)
BY DEF TreeStep, QuietNodes

\* What LinWrite and UnlinkSucc change is locked.
LEMMA LinkLocked ==
  ASSUME SInv, TreeInv, NEW p \in Procs, tpc[p] = "label"
  PROVE  /\ \E k \in 1 .. Len(upd[p]) : upd[p][k].bundle = Link(p) /\ upd[p][k].ptr = my[p].node
         /\ lock[my[p].prev] = p
<1>1. TreeWriteInv(p)
  BY Stands DEF TreeLocalInv
<1>2. Link(p) \in BundlesOf(upd[p])
  BY <1>1 DEF TreeWriteInv
<1>3. PICK k \in 1 .. Len(upd[p]) : upd[p][k].bundle = Link(p)
  BY <1>2 DEF BundlesOf
<1>4. WriteOf(p, k)
  BY <1>1 DEF TreeWriteInv
<1>5. upd[p][k].ptr = my[p].node /\ lock[Link(p)[1]] = p
  BY <1>3, <1>4 DEF WriteOf
<1> QED
  BY <1>3, <1>5 DEF Link

LEMMA FixedLocked ==
  ASSUME SInv, TreeInv, NEW p \in Procs, Unfixed(p)
  PROVE  /\ \E k \in 1 .. Len(upd[p]) :
              /\ upd[p][k].bundle = Fixed(p)
              /\ upd[p][k].ptr = child[<<my[p].succ, Right>>]
              /\ Fixed(p)[1] \in alloc /\ Fixed(p)[1] \in Nodes
         /\ lock[Fixed(p)[1]] = p /\ Fixed(p)[2] \in Sides /\ Fixed(p) \in Bundles
         /\ Fixed(p) = <<Fixed(p)[1], Fixed(p)[2]>>
         /\ my[p].succ \in alloc /\ my[p].succ \in Nodes /\ lock[my[p].succ] = p
         /\ my[p].succ # my[p].prev
<1>1. TreeWriteInv(p) /\ my[p] \in Local /\ my[p].succ \in alloc \cup {Null} /\ alloc \subseteq Nodes
  BY Stands DEF TreeLocalInv, TreeInv, TreeFormInv
<1>2. Fixed(p) \in BundlesOf(upd[p]) /\ lock[my[p].succ] = p /\ my[p].succ # my[p].prev
  BY <1>1 DEF TreeWriteInv
<1>3. PICK k \in 1 .. Len(upd[p]) : upd[p][k].bundle = Fixed(p)
  BY <1>2 DEF BundlesOf
<1>4. WriteOf(p, k)
  BY <1>1 DEF TreeWriteInv
<1>5. /\ upd[p][k].ptr = child[<<my[p].succ, Right>>]
      /\ lock[Fixed(p)[1]] = p /\ Fixed(p)[1] \in alloc
  BY <1>3, <1>4 DEF WriteOf
<1>6. my[p].succ \in alloc /\ my[p].succ \in Nodes
  BY <1>1 DEF Unfixed, Moves
<1>7. Fixed(p)[2] \in Sides /\ Fixed(p) = <<Fixed(p)[1], Fixed(p)[2]>>
  BY TreeBasics DEF Fixed
<1>8. Fixed(p) \in Bundles
  BY <1>1, <1>5, <1>7, TreeBasics
<1> QED
  BY <1>1, <1>2, <1>3, <1>5, <1>6, <1>7, <1>8

LEMMA NodesKept ==
  ASSUME SInv, TreeInv, NEW p \in Procs, Call(p) \/ TreeStep(p)
  PROVE  NodeFrame(p)
<1> USE DEF NodeFrame
<1>1. /\ lock \in [Nodes -> Procs \cup {NoProc}] /\ marked \in [Nodes -> BOOLEAN]
      /\ alloc \subseteq Nodes /\ child \in [Bundles -> Ptrs \cup {NoPtr}]
      /\ \A n \in Nodes : \A d \in Sides : <<n, d>> \in Bundles
      /\ NoProc # p
  BY TreeBasics DEF TreeInv, TreeFormInv
<1>2. CASE QuietNodes(p)
  BY <1>2, QuietNodesKept
<1>3. CASE LockPrev(p) \/ LockCurr(p) \/ LockSucc(p)
  <2>1. UNCHANGED <<marked, child, alloc>>
    BY <1>3 DEF LockPrev, LockCurr, LockSucc
  <2>2. PICK n : lock[n] = NoProc /\ lock' = [lock EXCEPT ![n] = p]
    BY <1>3 DEF LockPrev, LockCurr, LockSucc, AcquireLock
  <2> QED
    BY <1>1, <2>1, <2>2
<1>4. CASE Unlock(p)
  <2>1. UNCHANGED <<marked, child, alloc>> /\ lock' = [lock EXCEPT ![Head(my[p].held)] = NoProc]
    BY <1>4 DEF Unlock
  <2>2. lock[Head(my[p].held)] = p
    <3>1. my[p] \in Local /\ TreeLockInv(p) /\ tpc[p] \in {"retry"} \cup WriteTPCs
      BY <1>4, Stands DEF TreeLocalInv, Unlock, WriteTPCs
    <3>2. Len(my[p].held) # 0 /\ \A i \in 1 .. Len(my[p].held) : lock[my[p].held[i]] = p
      BY <3>1 DEF TreeLockInv
    <3>3. my[p].held \in Seq(Nodes)
      BY <3>1 DEF Local
    <3>4. Len(my[p].held) \in Nat /\ Head(my[p].held) = my[p].held[1]
      BY <3>2, <3>3
    <3> QED
      BY <3>2, <3>4
  <2> QED
    BY <1>1, <2>1, <2>2
<1>5. ASSUME NEW n \in Nodes, NEW k, NEW c, NewNode(p, n, k, c)
      PROVE  /\ alloc \subseteq alloc'
             /\ \A m \in alloc : lock'[m] = lock[m]
             /\ \A m \in alloc : \A d \in Sides : child'[<<m, d>>] = child[<<m, d>>]
  <2>1. n \notin alloc
    BY <1>5 DEF NewNode
  <2>2. ASSUME NEW m \in alloc PROVE lock'[m] = lock[m]
    BY <1>1, <1>5, <2>1, <2>2 DEF NewNode
  <2>3. ASSUME NEW m \in alloc, NEW d \in Sides PROVE child'[<<m, d>>] = child[<<m, d>>]
    BY <1>1, <1>5, <2>1, <2>3 DEF NewNode
  <2> QED
    BY <1>5, <2>2, <2>3 DEF NewNode
<1>6. CASE BeginInsert(p)
  <2>1. PICK n \in Nodes : NewNode(p, n, op[p].lo, <<Null, Null>>)
    BY <1>6 DEF BeginInsert
  <2>2. marked' = marked
    BY <1>6 DEF BeginInsert
  <2> QED
    BY <1>1, <1>5, <2>1, <2>2
<1>7. CASE BeginErase(p)
  <2>1. lock[my[p].curr] = p
    BY <1>7, Stands DEF BeginErase, Valid, TreeLocalInv, TreeLockInv
  <2>2. UNCHANGED <<lock, child, alloc>> /\ marked' = [marked EXCEPT ![my[p].curr] = TRUE]
    BY <1>7 DEF BeginErase
  <2> QED
    BY <1>1, <2>1, <2>2
<1>8. CASE BeginMove(p)
  <2>1. lock[my[p].curr] = p
    BY <1>8, AllLocked DEF BeginMove
  <2>2. marked' = [marked EXCEPT ![my[p].curr] = TRUE]
    BY <1>8 DEF BeginMove
  <2>3. PICK n \in Nodes : NewNode(p, n, key[my[p].succ],
                                   <<child[<<my[p].curr, Left>>], child[<<my[p].curr, Right>>]>>)
    BY <1>8 DEF BeginMove
  <2> QED
    BY <1>1, <1>5, <2>1, <2>2, <2>3
<1>9. CASE LinWrite(p)
  <2>1. lock[my[p].prev] = p
    BY <1>9, LinkLocked DEF LinWrite
  <2>2. UNCHANGED <<lock, marked, alloc>> /\ child' = [child EXCEPT ![Link(p)] = my[p].node]
    BY <1>9 DEF LinWrite
  <2>3. ASSUME NEW n \in alloc, lock[n] # p, NEW d \in Sides PROVE child'[<<n, d>>] = child[<<n, d>>]
    <3>1. <<n, d>> # Link(p)
      BY <2>1, <2>3 DEF Link
    <3> QED
      BY <1>1, <2>2, <3>1
  <2> QED
    BY <1>1, <2>2, <2>3
<1>10. CASE UnlinkSucc(p)
  <2>1. Unfixed(p)
    BY <1>10, Stands DEF UnlinkSucc, Unfixed, TreeLocalInv, TreeWriteInv, UnlinkTPCs
  <2>2. lock[Fixed(p)[1]] = p /\ lock[my[p].succ] = p
    BY <2>1, FixedLocked
  <2>3. /\ UNCHANGED <<lock, alloc>> /\ marked' = [marked EXCEPT ![my[p].succ] = TRUE]
        /\ child' = [child EXCEPT ![Fixed(p)] = child[<<my[p].succ, Right>>]]
    BY <1>10 DEF UnlinkSucc
  <2>4. ASSUME NEW n \in alloc, lock[n] # p, NEW d \in Sides PROVE child'[<<n, d>>] = child[<<n, d>>]
    <3>1. <<n, d>> # Fixed(p)
      BY <2>2, <2>4
    <3> QED
      BY <1>1, <2>3, <3>1
  <2>5. \A n \in alloc : lock[n] # p => marked'[n] = marked[n]
    BY <1>1, <2>2, <2>3
  <2>6. \A n \in Nodes : marked[n] => marked'[n]
    BY <1>1, <2>3
  <2> QED
    BY <1>1, <2>3, <2>4, <2>5, <2>6
<1>11. CASE RaiseTag(p)
  BY <1>11 DEF RaiseTag
<1> QED
  BY <1>2, <1>3, <1>4, <1>6, <1>7, <1>8, <1>9, <1>10, <1>11, StepKinds

-----------------------------------------------------------------------------
(***************************************************************************)
(* The step of a process keeps the invariant of the others.                *)
(***************************************************************************)
StepOf(p) == [Next]_vars /\ ProviderFrame(p) /\ LocalFrame(p) /\ NodeFrame(p)

LEMMA Framed ==
  ASSUME EveryUpdate, SInv, TreeInv, NEW p \in Procs, Call(p) \/ TreeStep(p)
  PROVE  StepOf(p)
BY StepIsNext, LocalsKept, NodesKept DEF StepOf

LEMMA OthersPlaces ==
  ASSUME SInv, TreeInv, NEW p \in Procs, StepOf(p), NEW q \in Procs, q # p
  PROVE  TreeOpInv(q)' /\ TreePcInv(q)' /\ TreePlaceInv(q)'
<1>1. TreeOpInv(q) /\ TreePcInv(q) /\ TreePlaceInv(q)
  BY Stands DEF TreeLocalInv
<1>2. /\ tpc'[q] = tpc[q] /\ op'[q] = op[q] /\ my'[q] = my[q]
      /\ pc'[q] = pc[q] /\ out'[q] = out[q] /\ [Next]_vars /\ alloc \subseteq alloc'
  BY DEF StepOf, LocalFrame, ProviderFrame, NodeFrame
<1>3. TreeOpInv(q)'
  BY <1>1, <1>2 DEF TreeOpInv
<1>4. \A n \in Nodes : InTree(n) => InTree(n)'
  BY <1>2, InTreeStays
<1>5. TreePcInv(q)'
  BY <1>1, <1>2, <1>4 DEF TreePcInv
<1>6. TreePlaceInv(q)'
  BY <1>1, <1>2, <1>4 DEF TreePlaceInv
<1> QED
  BY <1>3, <1>5, <1>6

LEMMA OthersLocks ==
  ASSUME SInv, TreeInv, NEW p \in Procs, StepOf(p), NEW q \in Procs, q # p
  PROVE  TreeLockInv(q)'
<1>1. TreeLockInv(q) /\ TreePlaceInv(q)
  BY Stands DEF TreeLocalInv
<1>2. tpc'[q] = tpc[q] /\ op'[q] = op[q] /\ my'[q] = my[q]
  BY DEF StepOf, LocalFrame
<1>3. \A n \in alloc : lock[n] = q => lock'[n] = q
  BY TreeBasics DEF StepOf, NodeFrame
<1>4. /\ my[q].prev \in alloc /\ my[q].curr \in alloc \cup {Null}
      /\ my[q].prevSucc \in alloc \cup {Null} /\ my[q].succ \in alloc \cup {Null}
  BY Stands
<1>5. /\ (tpc[q] = "validate" /\ op[q].type = "erase") \/ tpc[q] \in SuccTPCs => my[q].curr # Null
      /\ tpc[q] \in SuccTPCs => my[q].prevSucc # Null /\ my[q].succ # Null
      /\ \A i \in 1 .. Len(my[q].held) : my[q].held[i] \in alloc
  BY <1>1 DEF TreePlaceInv, PrevTPCs
<1>6. (Adjacent(q))' <=> Adjacent(q)
  BY <1>2 DEF Adjacent
<1>7. tpc[q] \in {"lockSucc", "validateSucc"} => tpc[q] \in SuccTPCs
  BY DEF SuccTPCs
<1>8. tpc[q] \in PrevTPCs \cup SuccTPCs => lock'[my[q].prev] = q
  BY <1>1, <1>3, <1>4 DEF TreeLockInv
<1>9. (tpc[q] = "validate" /\ op[q].type = "erase") \/ tpc[q] \in SuccTPCs =>
        lock'[my[q].curr] = q /\ my[q].curr # my[q].prev
  BY <1>1, <1>3, <1>4, <1>5 DEF TreeLockInv
<1>10. tpc[q] \in {"lockSucc", "validateSucc"} /\ ~Adjacent(q) =>
        lock'[my[q].prevSucc] = q /\ my[q].prevSucc \notin {my[q].prev, my[q].curr}
  BY <1>1, <1>3, <1>4, <1>5, <1>7 DEF TreeLockInv
<1>11. tpc[q] = "validateSucc" =>
        lock'[my[q].succ] = q /\ my[q].succ \notin {my[q].prev, my[q].curr, my[q].prevSucc}
  BY <1>1, <1>3, <1>4, <1>5, <1>7 DEF TreeLockInv
<1>12. tpc[q] \in {"retry"} \cup WriteTPCs =>
        /\ Len(my[q].held) # 0
        /\ \A i, j \in 1 .. Len(my[q].held) : my[q].held[i] = my[q].held[j] => i = j
        /\ \A i \in 1 .. Len(my[q].held) : lock'[my[q].held[i]] = q
  BY <1>1, <1>3, <1>5 DEF TreeLockInv
<1> QED
  BY <1>2, <1>6, <1>8, <1>9, <1>10, <1>11, <1>12 DEF TreeLockInv

LEMMA TargetStays ==
  ASSUME SInv, TreeInv, NEW p \in Procs, StepOf(p), NEW q \in Procs, q # p, NEW n \in Nodes,
         Target(q, n)
  PROVE  Target(q, n)'
<1>1. /\ pc'[q] = pc[q] /\ upd'[q] = upd[q] /\ idx'[q] = idx[q] /\ ts'[q] = ts[q]
      /\ [Next]_vars /\ IInv /\ NoProc # q /\ q \in Updaters
  BY TreeBasics DEF StepOf, ProviderFrame, SInv, RInv
<1>2. CASE InTree(n)
  BY <1>1, <1>2, InTreeStays DEF Target
<1>3. CASE pc[q] \in {"prepare", "load"} /\ Newborn(q, n)
  <2>1. ASSUME NEW d \in Sides, NEW k \in 1 .. Len(upd[q]), upd[q][k].bundle = <<n, d>>
        PROVE  bundle'[<<n, d>>] = bundle[<<n, d>>]
    <3>1. <<n, d>> \in Bundles /\ <<n, d>> \in BundlesOf(upd[q])
      BY <2>1, TreeBasics DEF BundlesOf
    <3>2. owner[<<n, d>>] = q
      BY <1>1, <3>1 DEF IInv, UInv, OwnerInv
    <3> QED
      BY <1>1, <3>1, <3>2 DEF StepOf, ProviderFrame
  <2>2. \A k : HasPrepared(q, k)' <=> HasPrepared(q, k)
    BY <1>1 DEF HasPrepared
  <2>3. Newborn(q, n)'
    BY <1>1, <1>3, <2>1, <2>2 DEF Newborn
  <2> QED
    BY <1>1, <1>3, <2>3 DEF Target
<1>4. CASE pc[q] \in {"reload", "bump", "finalize", "unlock"} /\ InUpdate(q, n)
  BY <1>1, <1>4, InUpdateStays DEF Target
<1> QED
  BY <1>2, <1>3, <1>4 DEF Target

LEMMA OthersWrites ==
  ASSUME SInv, TreeInv, NEW p \in Procs, StepOf(p), NEW q \in Procs, q # p
  PROVE  TreeWriteInv(q)'
<1>1. TreeWriteInv(q)
  BY Stands DEF TreeLocalInv
<1>2. tpc'[q] = tpc[q] /\ my'[q] = my[q] /\ op'[q] = op[q] /\ upd'[q] = upd[q]
  BY DEF StepOf, LocalFrame, ProviderFrame
<1>3. \A n \in alloc : n \in alloc' /\ (lock[n] = q => lock'[n] = q)
  BY TreeBasics DEF StepOf, NodeFrame
<1>4. \A n \in alloc : \A d \in Sides :
         lock[n] = q => child'[<<n, d>>] = child[<<n, d>>] /\ marked'[n] = marked[n]
  BY DEF StepOf, NodeFrame
<1>5. /\ Link(q)' = Link(q) /\ Fixed(q)' = Fixed(q) /\ (Unfixed(q)' <=> Unfixed(q))
      /\ (Moves(q)' <=> Moves(q))
  BY <1>2 DEF Link, Fixed, Adjacent, Unfixed, Moves
<1>6. Unfixed(q) => /\ lock'[my[q].succ] = q
                    /\ child'[<<my[q].succ, Right>>] = child[<<my[q].succ, Right>>]
  <2> HAVE Unfixed(q)
  <2>1. lock[my[q].succ] = q /\ my[q].succ \in alloc
    BY FixedLocked
  <2> QED
    BY <1>3, <1>4, <2>1, TreeBasics
<1>7. ASSUME NEW k \in 1 .. Len(upd[q]) PROVE WriteOf(q, k)'
  <2> DEFINE b == upd[q][k].bundle
             c == upd[q][k].ptr
  <2>1. /\ b[1] \in alloc /\ lock[b[1]] = q
        /\ c \in alloc \cup {Null} /\ \A n \in Nodes : n = c => Target(q, n)
        /\ tpc[q] = "label" /\ b = Link(q) => c = my[q].node
        /\ Unfixed(q) /\ b = Fixed(q) => c = child[<<my[q].succ, Right>>]
        /\ \/ tpc[q] = "label" /\ b = Link(q)
           \/ Unfixed(q) /\ b = Fixed(q)
           \/ marked[b[1]]
           \/ child[b] = c
    BY <1>1, <1>7 DEF TreeWriteInv, WriteOf
  <2>2. b \in Bundles
    <3>1. upd[q] \in Updates
      BY <1>7, TreeBasics DEF SInv, RInv, IInv, TypeOK
    <3> QED
      BY <1>7, <3>1, UpdateProps
  <2>3. child'[b] = child[b] /\ marked'[b[1]] = marked[b[1]]
    BY <1>4, <2>1, <2>2, TreeBasics
  <2>4. \A n \in Nodes : n = c => Target(q, n)'
    BY <2>1, TargetStays
  <2>5. b[1] \in alloc' /\ lock'[b[1]] = q /\ c \in alloc' \cup {Null}
    BY <1>3, <2>1
  <2> HIDE DEF b, c
  <2>6. /\ tpc'[q] = "label" /\ b = Link(q)' => c = my'[q].node
        /\ Unfixed(q)' /\ b = Fixed(q)' => c = child'[<<my'[q].succ, Right>>]
        /\ \/ tpc'[q] = "label" /\ b = Link(q)'
           \/ Unfixed(q)' /\ b = Fixed(q)'
           \/ marked'[b[1]]
           \/ child'[b] = c
    BY <1>2, <1>5, <1>6, <2>1, <2>3
  <2>7. b = upd'[q][k].bundle /\ c = upd'[q][k].ptr
    BY <1>2 DEF b, c
  <2> QED
    BY <2>4, <2>5, <2>6, <2>7 DEF WriteOf
<1>8. /\ tpc'[q] = "label" => Link(q)' \in BundlesOf(upd'[q])
      /\ tpc'[q] \in UnlinkTPCs => Moves(q)'
      /\ Unfixed(q)' => /\ op'[q].type = "erase" /\ Fixed(q)' \in BundlesOf(upd'[q])
                        /\ lock'[my'[q].succ] = q /\ my'[q].succ # my'[q].prev
  BY <1>1, <1>2, <1>5, <1>6 DEF TreeWriteInv
<1> QED
  BY <1>2, <1>7, <1>8 DEF TreeWriteInv

LEMMA ReadTime ==
  ASSUME SInv, NEW q \in Procs, pc[q] \in QueryingPCs
  PROVE  qts[q] \in FirstTS .. clock /\ qts[q] \in Nat /\ clock \in Nat /\ qts[q] < Pending
<1>1. qts[q] \in Nat /\ clock \in Nat /\ clock < Pending /\ Pending \in Nat
  BY PendingAssumption DEF SInv, RInv, IInv, TypeOK, UInv, ClockInv
<1>2. FirstTS <= qts[q] /\ qts[q] <= clock
  BY DEF SInv, RInv, ReadInv, ReadsWell
<1> QED
  BY <1>1, <1>2 DEF FirstTS

LEMMA OthersSnapshots ==
  ASSUME SInv, TreeInv, NEW p \in Procs, StepOf(p), NEW q \in Procs, q # p
  PROVE  TreeSnapshotInv(q)'
<1>1. TreeSnapshotInv(q) /\ TreePcInv(q)
  BY Stands DEF TreeLocalInv
<1>2. /\ tpc'[q] = tpc[q] /\ my'[q] = my[q] /\ pc'[q] = pc[q] /\ at'[q] = at[q]
      /\ qts'[q] = qts[q] /\ [Next]_vars
  BY DEF StepOf, LocalFrame, ProviderFrame
<1>3. \A n \in Nodes : InSnapshot(q, n) => InSnapshot(q, n)'
  BY <1>2, InSnapshotStays
<1>4. ASSUME tpc[q] \in {"descend", "left", "right"}, NEW b \in Bundles, HasValue(q, b)
      PROVE  HasValue(q, b)'
  <2>1. pc[q] \in QueryingPCs
    BY <1>1, <1>4 DEF TreePcInv, QueryingPCs
  <2>2. PICK t \in FirstTS .. clock : t = qts[q]
    BY <2>1, ReadTime
  <2>3. ValueAt(b, t)' = ValueAt(b, t)
    BY <1>2, ProviderStep, ValueKept
  <2>4. ValueAt(b, qts[q])' = ValueAt(b, t)'
    <3>1. qts'[q] = t
      BY <1>2, <2>2
    <3> QED
      BY <3>1 DEF ValueAt, VersionAt, Visible
  <2>5. ValueAt(b, t) # NoPtr
    BY <1>4, <2>2 DEF HasValue
  <2> QED
    BY <2>3, <2>4, <2>5 DEF HasValue
<1> QED
  BY <1>1, <1>2, <1>3, <1>4 DEF TreeSnapshotInv

LEMMA Others ==
  ASSUME SInv, TreeInv, NEW p \in Procs, StepOf(p), NEW q \in Procs, q # p
  PROVE  TreeLocalInv(q)'
BY OthersPlaces, OthersLocks, OthersWrites, OthersSnapshots DEF TreeLocalInv

-----------------------------------------------------------------------------
(***************************************************************************)
(* The types.                                                              *)
(***************************************************************************)
NodesTyped ==
  /\ key \in [Nodes -> SetKeys \cup {NoKey}]
  /\ lock \in [Nodes -> Procs \cup {NoProc}]
  /\ marked \in [Nodes -> BOOLEAN]
  /\ alloc \subseteq Nodes
  /\ child \in [Bundles -> Ptrs \cup {NoPtr}]
  /\ tag \in [Bundles -> Nat]

CallsTyped ==
  /\ tpc \in [Procs -> TPCs]
  /\ todo \in [Procs -> Seq(Operation)]
  /\ op \in [Procs -> Operation \cup {[type |-> "none"]}]

LEMMA FreshTyped == Fresh \in Local
<1>1. Fresh.held \in Seq(Nodes) /\ Fresh.stack \in Seq(Nodes) /\ Fresh.found \in Seq(SetKeys \cup {NoKey})
  BY DEF Fresh
<1> QED
  BY TreeBasics DEF Fresh, Local, Places

LEMMA CurrOp ==
  ASSUME TreeInv, NEW p \in Procs, tpc[p] # "idle"
  PROVE  op[p] \in Operation /\ op[p].type \in OpTypes /\ op[p].lo \in SetKeys /\ op[p].hi \in SetKeys
BY Stands DEF TreeLocalInv, TreeOpInv, Operation

LEMMA NodesTypedKept ==
  ASSUME SInv, TreeInv, NEW p \in Procs, Call(p) \/ TreeStep(p)
  PROVE  NodesTyped'
<1> USE DEF NodesTyped
<1>1. NodesTyped /\ NoProc \notin Procs
  BY TreeBasics DEF TreeInv, TreeFormInv
<1>2. CASE QuietNodes(p)
  BY <1>1, <1>2, QuietNodesKept
<1>3. CASE LockPrev(p) \/ LockCurr(p) \/ LockSucc(p)
  BY <1>1, <1>3 DEF LockPrev, LockCurr, LockSucc, AcquireLock
<1>4. CASE Unlock(p)
  BY <1>1, <1>4 DEF Unlock
<1>5. ASSUME NEW n \in Nodes, NEW k \in SetKeys \cup {NoKey}, NEW a \in Places, NEW b \in Places,
             NewNode(p, n, k, <<a, b>>), marked' \in [Nodes -> BOOLEAN], tag' = tag
      PROVE  NodesTyped'
  BY <1>1, <1>5, TreeBasics DEF NewNode
<1>6. CASE BeginInsert(p)
  <2>1. op[p].lo \in SetKeys
    <3>1. tpc[p] # "idle"
      BY <1>6 DEF BeginInsert, Valid
    <3> QED
      BY <3>1, CurrOp
  <2>2. PICK n \in Nodes : NewNode(p, n, op[p].lo, <<Null, Null>>)
    BY <1>6 DEF BeginInsert
  <2>3. marked' = marked /\ tag' = tag
    BY <1>6 DEF BeginInsert
  <2> QED
    BY <1>1, <1>5, <2>1, <2>2, <2>3 DEF Places
<1>7. CASE BeginErase(p)
  BY <1>1, <1>7 DEF BeginErase
<1>8. CASE BeginMove(p)
  <2>1. my[p].succ \in Nodes /\ my[p].curr \in alloc
    BY <1>8, AllLocked DEF BeginMove
  <2>2. /\ key[my[p].succ] \in SetKeys \cup {NoKey}
        /\ child[<<my[p].curr, Left>>] \in Places /\ child[<<my[p].curr, Right>>] \in Places
    BY <1>1, <2>1, ChildOf, TreeBasics
  <2>3. PICK n \in Nodes : NewNode(p, n, key[my[p].succ],
                                   <<child[<<my[p].curr, Left>>], child[<<my[p].curr, Right>>]>>)
    BY <1>8 DEF BeginMove
  <2>4. marked' \in [Nodes -> BOOLEAN] /\ tag' = tag
    BY <1>1, <1>8 DEF BeginMove
  <2> QED
    BY <1>5, <2>2, <2>3, <2>4
<1>9. CASE LinWrite(p)
  <2>1. my[p].node \in Ptrs
    BY Stands, TreeBasics DEF Local
  <2> QED
    BY <1>1, <1>9, <2>1 DEF LinWrite
<1>10. CASE UnlinkSucc(p)
  <2>1. Unfixed(p)
    BY <1>10, Stands DEF UnlinkSucc, Unfixed, TreeLocalInv, TreeWriteInv, UnlinkTPCs
  <2>2. my[p].succ \in alloc
    BY <2>1, FixedLocked
  <2>3. child[<<my[p].succ, Right>>] \in Ptrs
    BY <2>2, ChildOf, TreeBasics
  <2> QED
    BY <1>1, <1>10, <2>3 DEF UnlinkSucc
<1>11. CASE RaiseTag(p)
  <2>1. PICK link, v : /\ tag' = [tag EXCEPT ![link] = v]
                       /\ v = tag[link] + 1 \/ v = tag[link]
    BY <1>11 DEF RaiseTag
  <2>2. link \in Bundles => v \in Nat
    BY <1>1, <2>1
  <2>3. tag' \in [Bundles -> Nat]
    BY <1>1, <2>1, <2>2
  <2> QED
    BY <1>1, <1>11, <2>3 DEF RaiseTag
<1> QED
  BY <1>2, <1>3, <1>4, <1>6, <1>7, <1>8, <1>9, <1>10, <1>11, StepKinds

LEMMA CallsTypedKept ==
  ASSUME SInv, TreeInv, NEW p \in Procs, Call(p) \/ TreeStep(p)
  PROVE  CallsTyped'
<1> USE DEF CallsTyped
<1>1. CallsTyped
  BY DEF TreeInv, TreeFormInv
<1>2. tpc[p] # "idle" => op[p].type \in TPCs
  BY CurrOp DEF OpTypes, TPCs
<1>3. \A l \in TPCs : Goto(p, l) => tpc' \in [Procs -> TPCs]
  BY <1>1 DEF Goto
<1>4. CASE Call(p)
  <2>1. todo[p] \in Seq(Operation) /\ todo[p] # <<>>
    BY <1>1, <1>4 DEF Call
  <2>2. Head(todo[p]) \in Operation /\ Tail(todo[p]) \in Seq(Operation)
    BY <2>1, HeadTailProperties
  <2> QED
    BY <1>1, <1>3, <1>4, <2>2 DEF Call, TPCs
<1>5. CASE Begin(p) \/ Invalid(p) \/ LockPrev(p) \/ LockCurr(p)
  BY <1>1, <1>3, <1>5 DEF Begin, Invalid, LockPrev, LockCurr, callVars, TPCs, PrevTPCs
<1>6. CASE Search(p)
  BY <1>1, <1>2, <1>3, <1>6 DEF Search, callVars
<1>7. CASE FindSucc(p) \/ NextSucc(p) \/ LockSucc(p) \/ InvalidSucc(p)
  BY <1>1, <1>3, <1>7 DEF FindSucc, NextSucc, LockSucc, InvalidSucc, callVars, TPCs, SuccTPCs
<1>8. CASE BeginInsert(p) \/ BeginErase(p) \/ BeginMove(p)
  BY <1>1, <1>3, <1>8 DEF BeginInsert, BeginErase, BeginMove, callVars, TPCs, WriteTPCs
<1>9. CASE PrepareAndLabel(p) \/ LinWrite(p) \/ FinalizeBundles(p)
           \/ Synchronize(p) \/ UnlinkSucc(p) \/ RaiseTag(p)
  BY <1>1, <1>3, <1>9
  DEF PrepareAndLabel, LinWrite, FinalizeBundles, Synchronize, UnlinkSucc, RaiseTag, callVars,
      TPCs, WriteTPCs, UnlinkTPCs
<1>10. ASSUME NEW r, ReturnKeys(p, r) PROVE CallsTyped'
  BY <1>1, <1>3, <1>10 DEF ReturnKeys, TPCs
<1>11. CASE EndSearch(p) \/ EndContains(p) \/ EndQuery(p)
  BY <1>1, <1>3, <1>10, <1>11 DEF EndSearch, EndContains, EndQuery, callVars, TPCs
<1>12. CASE Unlock(p)
  BY <1>1, <1>3, <1>10, <1>12 DEF Unlock, callVars, TPCs
<1>13. CASE FollowNewest(p) \/ StartQuery(p) \/ EnterSnapshot(p) \/ ReadBundle(p)
  BY <1>1, <1>3, <1>13
  DEF FollowNewest, StartQuery, EnterSnapshot, ReadBundle, callVars, TPCs, SnapshotTPCs
<1>14. CASE Descend(p) \/ EnterRange(p) \/ Collect(p) \/ ReadRight(p) \/ Push(p)
  BY <1>1, <1>3, <1>14 DEF Descend, EnterRange, Collect, ReadRight, Push, callVars, TPCs, SnapshotTPCs
<1> QED
  BY <1>4, <1>5, <1>6, <1>7, <1>8, <1>9, <1>11, <1>12, <1>13, <1>14 DEF TreeStep

LEMMA LocalsTyped ==
  ASSUME SInv, TreeInv, NEW p \in Procs, Call(p) \/ TreeStep(p)
  PROVE  my' \in [Procs -> Local]
<1>1. /\ my \in [Procs -> Local] /\ my[p] \in Local
      /\ my[p] =
           [prev |-> my[p].prev, dir |-> my[p].dir, curr |-> my[p].curr, tag |-> my[p].tag,
            prevSucc |-> my[p].prevSucc, succ |-> my[p].succ, node |-> my[p].node,
            held |-> my[p].held, first |-> my[p].first, entry |-> my[p].entry,
            left |-> my[p].left, stack |-> my[p].stack, found |-> my[p].found]
  BY DEF TreeInv, TreeFormInv, Local
<1>2. ASSUME NEW r \in Local, my' = [my EXCEPT ![p] = r] PROVE my' \in [Procs -> Local]
  BY <1>1, <1>2
<1>3. CASE UNCHANGED my
  BY <1>1, <1>3
<1>4. /\ my[p].prev \in Nodes /\ my[p].dir \in Sides /\ my[p].curr \in Places
      /\ my[p].prevSucc \in Places /\ my[p].succ \in Places /\ my[p].held \in Seq(Nodes)
      /\ my[p].stack \in Seq(Nodes) /\ my[p].found \in Seq(SetKeys \cup {NoKey})
      /\ my[p].curr # Null => my[p].curr \in alloc
      /\ my[p].succ # Null => my[p].succ \in alloc
  BY <1>1, Stands DEF Local
<1>5. ASSUME NEW r, ReturnKeys(p, r) PROVE my' \in [Procs -> Local]
  BY <1>2, <1>5, FreshTyped DEF ReturnKeys
<1>6. CASE Begin(p)
  <2>1. [Fresh EXCEPT !.prev = RootChild] \in Local
    BY FreshTyped, TreeBasics DEF Local
  <2> QED
    BY <1>2, <1>6, <2>1, FreshTyped DEF Begin
<1>7. CASE Search(p)
  <2> DEFINE d == Side(p, my[p].curr)
             c == child[<<my[p].curr, d>>]
             r == [my[p] EXCEPT !.prev = my[p].curr, !.dir = d, !.curr = c]
  <2>1. my[p].curr \in alloc
    BY <1>4, <1>7, Stands DEF Search, TreeLocalInv, TreePlaceInv
  <2>2. d \in Sides
    BY SideOf
  <2>3. c \in Places /\ my[p].curr \in Nodes
    BY <2>1, <2>2, ChildOf
  <2>4. my' = [my EXCEPT ![p] = r]
    BY <1>1, <1>7 DEF Search
  <2> HIDE DEF c, d
  <2>5. r \in Local
    BY <1>1, <2>2, <2>3 DEF Local
  <2> QED
    BY <1>2, <2>4, <2>5
<1>8. CASE EndSearch(p)
  <2>1. CASE my' = [my EXCEPT ![p].tag = tag[Link(p)]]
    <3>1. tag[Link(p)] \in Nat
      BY Stands DEF TreeInv, TreeFormInv
    <3>2. [my[p] EXCEPT !.tag = tag[Link(p)]] \in Local
      BY <1>1, <3>1 DEF Local
    <3> QED
      BY <1>1, <1>2, <2>1, <3>2
  <2> QED
    BY <1>5, <1>8, <2>1 DEF EndSearch
<1>9. ASSUME NEW s \in Seq(Nodes), my' = [my EXCEPT ![p].held = s] PROVE my' \in [Procs -> Local]
  <2>1. [my[p] EXCEPT !.held = s] \in Local
    BY <1>1 DEF Local
  <2> QED
    BY <1>1, <1>2, <1>9, <2>1
<1>10. CASE Invalid(p)
  <2>1. op[p].type # "insert" => my[p].curr \in Nodes
    <3>1. tpc[p] = "validate"
      BY <1>10 DEF Invalid
    <3> QED
      BY <1>4, <3>1, Stands, TreeBasics
      DEF TreeLocalInv, TreeOpInv, TreePlaceInv, PrevTPCs, Places
  <2>2. PICK s : /\ s = (IF op[p].type = "insert" THEN <<my[p].prev>> ELSE <<my[p].prev, my[p].curr>>)
                 /\ my' = [my EXCEPT ![p].held = s]
    BY <1>10 DEF Invalid
  <2>3. s \in Seq(Nodes)
    BY <1>4, <2>1, <2>2
  <2> QED
    BY <1>9, <2>2, <2>3
<1>11. CASE FindSucc(p)
  <2> DEFINE c == child[<<my[p].curr, Right>>]
  <2>1. my[p].curr \in alloc
    BY <1>4, <1>11, Stands DEF FindSucc, Valid, TreeLocalInv, TreePlaceInv, PrevTPCs
  <2>2. c \in Places
    BY <2>1, ChildOf, TreeBasics
  <2>3. my' = [my EXCEPT ![p].prevSucc = my[p].curr, ![p].succ = c]
    BY <1>11 DEF FindSucc
  <2> HIDE DEF c
  <2>4. [my[p] EXCEPT !.prevSucc = my[p].curr, !.succ = c] \in Local
    BY <1>1, <1>4, <2>2 DEF Local
  <2> QED
    BY <1>1, <1>2, <2>3, <2>4
<1>12. CASE NextSucc(p)
  <2> DEFINE c == child[<<my[p].succ, Left>>]
  <2>1. my[p].succ \in alloc
    BY <1>4, <1>12, Stands DEF NextSucc, TreeLocalInv, TreePlaceInv, SuccTPCs
  <2>2. c \in Places
    BY <2>1, ChildOf, TreeBasics
  <2>3. my' = [my EXCEPT ![p].prevSucc = my[p].succ, ![p].succ = c] \/ UNCHANGED my
    BY <1>12 DEF NextSucc
  <2> HIDE DEF c
  <2>4. [my[p] EXCEPT !.prevSucc = my[p].succ, !.succ = c] \in Local
    BY <1>1, <1>4, <2>2 DEF Local
  <2> QED
    BY <1>1, <1>2, <1>3, <2>3, <2>4
<1>13. ASSUME tpc[p] = "validateSucc" PROVE SuccLocks(p) \in Seq(Nodes)
  <2>1. my[p].succ \in Nodes /\ my[p].prevSucc \in Nodes
    BY <1>13, AllLocked
  <2> QED
    BY <2>1 DEF SuccLocks
<1>14. CASE InvalidSucc(p)
  <2>1. tpc[p] = "validateSucc" /\ my' = [my EXCEPT ![p].held = <<my[p].prev, my[p].curr>> \o SuccLocks(p)]
    BY <1>14 DEF InvalidSucc
  <2>2. <<my[p].prev, my[p].curr>> \in Seq(Nodes)
    BY <1>4, <2>1, AllLocked
  <2>3. <<my[p].prev, my[p].curr>> \o SuccLocks(p) \in Seq(Nodes)
    BY <1>13, <2>1, <2>2, ConcatProperties
  <2> QED
    BY <1>9, <2>1, <2>3
<1>15. ASSUME NEW n \in Places, NEW s \in Seq(Nodes),
              my' = [my EXCEPT ![p].node = n, ![p].held = s]
       PROVE  my' \in [Procs -> Local]
  <2>1. [my[p] EXCEPT !.node = n, !.held = s] \in Local
    BY <1>1 DEF Local
  <2> QED
    BY <1>1, <1>2, <1>15, <2>1
<1>16. CASE BeginInsert(p)
  <2>1. PICK n \in Nodes : my' = [my EXCEPT ![p].node = n, ![p].held = <<n, my[p].prev>>]
    BY <1>16 DEF BeginInsert
  <2>2. <<n, my[p].prev>> \in Seq(Nodes) /\ n \in Places
    BY <1>4 DEF Places
  <2> QED
    BY <1>15, <2>1, <2>2
<1>17. CASE BeginErase(p)
  <2>1. my[p].curr \in alloc /\ my[p].curr \in Nodes
    BY <1>4, <1>17, Stands, TreeBasics
    DEF BeginErase, Valid, TreeLocalInv, TreePlaceInv, PrevTPCs, Places
  <2>2. PICK d \in Sides : my' = [my EXCEPT ![p].node = child[<<my[p].curr, 1 - d>>],
                                            ![p].held = <<my[p].prev, my[p].curr>>]
    BY <1>17 DEF BeginErase, Sides
  <2>3. child[<<my[p].curr, 1 - d>>] \in Places
    BY <2>1, ChildOf, TreeBasics
  <2>4. <<my[p].prev, my[p].curr>> \in Seq(Nodes)
    BY <1>4, <2>1
  <2> QED
    BY <1>15, <2>2, <2>3, <2>4
<1>18. CASE BeginMove(p)
  <2>1. PICK m \in Nodes : my' = [my EXCEPT ![p].node = m,
                                            ![p].held = <<my[p].prev, m, my[p].curr>> \o SuccLocks(p)]
    BY <1>18 DEF BeginMove
  <2>2. <<my[p].prev, m, my[p].curr>> \in Seq(Nodes)
    BY <1>4, <1>18, AllLocked DEF BeginMove
  <2>3. <<my[p].prev, m, my[p].curr>> \o SuccLocks(p) \in Seq(Nodes)
    BY <1>13, <1>18, <2>2, ConcatProperties DEF BeginMove
  <2> QED
    BY <1>15, <2>1, <2>3 DEF Places
<1>19. CASE Unlock(p)
  <2>1. CASE my' = [my EXCEPT ![p].held = Tail(my[p].held)]
    <3>1. Len(my[p].held) # 0
      BY <1>19, Stands DEF Unlock, TreeLocalInv, TreeLockInv, WriteTPCs
    <3>2. my[p].held # <<>>
      BY <3>1
    <3>3. Tail(my[p].held) \in Seq(Nodes)
      BY <1>4, <3>2, HeadTailProperties
    <3> QED
      BY <1>9, <2>1, <3>3
  <2> QED
    BY <1>5, <1>19, <2>1 DEF Unlock
<1>20. CASE EndContains(p) \/ EndQuery(p)
  BY <1>5, <1>20 DEF EndContains, EndQuery
<1>21. CASE Descend(p)
  <2>1. [my[p] EXCEPT !.first = FALSE] \in Local
    BY <1>1 DEF Local
  <2> QED
    BY <1>1, <1>2, <1>21, <2>1 DEF Descend
<1>22. CASE EnterRange(p)
  <2>1. PICK s : /\ s = (IF out[p] = Null THEN <<>> ELSE <<out[p]>>)
                 /\ my' = [my EXCEPT ![p].entry = out[p], ![p].stack = s]
    BY <1>22 DEF EnterRange
  <2>2. out[p] \in Places
    BY <1>22, ReadResult DEF EnterRange, HasRead
  <2>3. s \in Seq(Nodes)
    BY <2>1, <2>2 DEF Places
  <2>4. [my[p] EXCEPT !.entry = out[p], !.stack = s] \in Local
    BY <1>1, <2>2, <2>3 DEF Local
  <2> QED
    BY <1>1, <1>2, <2>1, <2>4
<1>23. CASE Collect(p)
  <2> DEFINE n == Head(my[p].stack)
             f == IF Stops(p, n) THEN Append(my[p].found, key[n]) ELSE my[p].found
  <2>1. n \in Nodes /\ Tail(my[p].stack) \in Seq(Nodes)
    BY <1>4, <1>23, HeadTailProperties DEF Collect
  <2>2. key[n] \in SetKeys \cup {NoKey}
    BY <2>1 DEF TreeInv, TreeFormInv
  <2>3. f \in Seq(SetKeys \cup {NoKey})
    <3>1. Append(my[p].found, key[n]) \in Seq(SetKeys \cup {NoKey})
      BY <1>4, <2>2, AppendProperties
    <3> QED
      BY <1>4, <3>1
  <2>4. my' = [my EXCEPT ![p].curr = n, ![p].stack = Tail(my[p].stack), ![p].found = f]
    BY <1>1, <1>23 DEF Collect
  <2> HIDE DEF n, f
  <2>5. [my[p] EXCEPT !.curr = n, !.stack = Tail(my[p].stack), !.found = f] \in Local
    <3> DEFINE s == Tail(my[p].stack)
    <3>1. s \in Seq(Nodes)
      BY <2>1
    <3> HIDE DEF s
    <3>2. [my[p] EXCEPT !.curr = n, !.stack = s, !.found = f] \in Local
      BY <1>1, <2>1, <2>3, <3>1 DEF Local, Places
    <3> QED
      BY <3>2 DEF s
  <2> QED
    BY <1>1, <1>2, <2>4, <2>5
<1>24. CASE ReadRight(p)
  <2>1. out[p] \in Places
    BY <1>24, ReadResult DEF ReadRight, HasRead
  <2>2. [my[p] EXCEPT !.left = out[p]] \in Local
    BY <1>1, <2>1 DEF Local
  <2> QED
    BY <1>1, <1>2, <1>24, <2>2 DEF ReadRight
<1>25. CASE Push(p)
  <2>1. out[p] \in Places /\ my[p].left \in Places
    BY <1>1, <1>25, ReadResult DEF Push, HasRead, Local
  <2>2. PICK a, b : /\ a = (IF out[p] # Null /\ key[my[p].curr] < op[p].hi THEN <<out[p]>> ELSE <<>>)
                    /\ b = (IF my[p].left # Null /\ op[p].lo < key[my[p].curr]
                            THEN <<my[p].left>> ELSE <<>>)
                    /\ my' = [my EXCEPT ![p].stack = a \o b \o my[p].stack]
    BY <1>1, <1>25 DEF Push
  <2>3. a \in Seq(Nodes) /\ b \in Seq(Nodes)
    BY <2>1, <2>2 DEF Places
  <2>4. a \o b \o my[p].stack \in Seq(Nodes)
    BY <1>4, <2>3, ConcatProperties
  <2>5. PICK s \in Seq(Nodes) : s = a \o b \o my[p].stack
    BY <2>4
  <2>6. [my[p] EXCEPT !.stack = s] \in Local
    BY <1>1 DEF Local
  <2> QED
    BY <1>1, <1>2, <2>2, <2>5, <2>6
<1>26. CASE Call(p) \/ LockPrev(p) \/ LockCurr(p) \/ LockSucc(p)
            \/ PrepareAndLabel(p) \/ LinWrite(p) \/ FinalizeBundles(p)
            \/ Synchronize(p) \/ UnlinkSucc(p) \/ RaiseTag(p)
            \/ FollowNewest(p) \/ StartQuery(p) \/ EnterSnapshot(p) \/ ReadBundle(p)
  BY <1>3, <1>26
  DEF Call, LockPrev, LockCurr, LockSucc, PrepareAndLabel, LinWrite, FinalizeBundles, Synchronize,
      UnlinkSucc, RaiseTag, FollowNewest, StartQuery, EnterSnapshot, ReadBundle
<1> QED
  BY <1>6, <1>7, <1>8, <1>10, <1>11, <1>12, <1>14, <1>16, <1>17, <1>18, <1>19, <1>20, <1>21,
     <1>22, <1>23, <1>24, <1>25, <1>26 DEF TreeStep

LEMMA FormKept ==
  ASSUME SInv, TreeInv, NEW p \in Procs, Call(p) \/ TreeStep(p)
  PROVE  TreeFormInv'
BY NodesTypedKept, CallsTypedKept, LocalsTyped DEF NodesTyped, CallsTyped, TreeFormInv

-----------------------------------------------------------------------------
(***************************************************************************)
(* The step of a process keeps its own part of the invariant: where it is. *)
(***************************************************************************)
LEMMA GoneTo ==
  ASSUME TreeInv, NEW p \in Procs
  PROVE  /\ \A l : Goto(p, l) => tpc'[p] = l
         /\ UNCHANGED tpc => tpc'[p] = tpc[p]
         /\ UNCHANGED callVars => op'[p] = op[p]
         /\ UNCHANGED my => my'[p] = my[p]
BY DEF TreeInv, TreeFormInv, Goto, callVars

LEMMA Returned ==
  ASSUME TreeInv, NEW p \in Procs, NEW r, ReturnKeys(p, r)
  PROVE  tpc'[p] = "idle" /\ my'[p] = Fresh
BY GoneTo DEF ReturnKeys, TreeInv, TreeFormInv

LEMMA OwnOp ==
  ASSUME SInv, TreeInv, NEW p \in Procs, Call(p) \/ TreeStep(p)
  PROVE  TreeOpInv(p)'
<1> USE DEF TreeOpInv
<1> USE GoneTo
<1>1. TreeOpInv(p)
  BY Stands DEF TreeLocalInv
<1>2. ASSUME NEW r, ReturnKeys(p, r) PROVE TreeOpInv(p)'
  BY <1>2, Returned DEF PrevTPCs, SuccTPCs, WriteTPCs, UnlinkTPCs
<1>3. CASE Call(p)
  <2>1. op'[p] = Head(todo[p]) /\ todo[p] \in Seq(Operation) /\ todo[p] # <<>>
    BY <1>3 DEF Call, TreeInv, TreeFormInv
  <2>2. Head(todo[p]) \in Operation
    BY <2>1, HeadTailProperties
  <2>3. tpc'[p] = "start"
    BY <1>3 DEF Call
  <2> QED
    BY <2>1, <2>2, <2>3 DEF PrevTPCs, SuccTPCs, WriteTPCs, UnlinkTPCs
<1>4. CASE Begin(p)
  BY <1>1, <1>4 DEF Begin, PrevTPCs, SuccTPCs, WriteTPCs, UnlinkTPCs
<1>5. CASE Search(p)
  <2>1. op[p].type \in OpTypes
    BY <1>5, CurrOp DEF Search
  <2>2. tpc'[p] = op[p].type \/ tpc'[p] = "search"
    BY <1>5 DEF Search
  <2>3. op'[p] = op[p] /\ op[p] \in Operation
    BY <1>1, <1>5 DEF Search
  <2> QED
    BY <2>1, <2>2, <2>3 DEF OpTypes, PrevTPCs, SuccTPCs, WriteTPCs, UnlinkTPCs
<1>6. CASE EndSearch(p)
  BY <1>1, <1>2, <1>6 DEF EndSearch, PrevTPCs, SuccTPCs, WriteTPCs, UnlinkTPCs
<1>7. CASE LockPrev(p) \/ LockCurr(p) \/ Invalid(p)
  BY <1>1, <1>7 DEF LockPrev, LockCurr, Invalid, PrevTPCs, SuccTPCs, WriteTPCs, UnlinkTPCs
<1>8. CASE BeginInsert(p) \/ BeginErase(p) \/ FindSucc(p)
  <2>1. tpc[p] = "validate"
    BY <1>8 DEF BeginInsert, BeginErase, FindSucc, Valid
  <2> QED
    BY <1>1, <1>8, <2>1
    DEF BeginInsert, BeginErase, FindSucc, PrevTPCs, SuccTPCs, WriteTPCs, UnlinkTPCs
<1>9. CASE NextSucc(p) \/ LockSucc(p) \/ InvalidSucc(p) \/ BeginMove(p)
  BY <1>1, <1>9
  DEF NextSucc, LockSucc, InvalidSucc, BeginMove, PrevTPCs, SuccTPCs, WriteTPCs, UnlinkTPCs
<1>10. CASE PrepareAndLabel(p) \/ LinWrite(p) \/ FinalizeBundles(p)
  BY <1>1, <1>10
  DEF PrepareAndLabel, LinWrite, FinalizeBundles, PrevTPCs, SuccTPCs, WriteTPCs, UnlinkTPCs
<1>11. CASE Synchronize(p) \/ UnlinkSucc(p) \/ RaiseTag(p)
  BY <1>1, <1>11
  DEF Synchronize, UnlinkSucc, RaiseTag, PrevTPCs, SuccTPCs, WriteTPCs, UnlinkTPCs
<1>12. CASE Unlock(p)
  BY <1>1, <1>2, <1>12 DEF Unlock, PrevTPCs, SuccTPCs, WriteTPCs, UnlinkTPCs
<1>13. CASE FollowNewest(p) \/ StartQuery(p) \/ EnterSnapshot(p) \/ ReadBundle(p)
  <2>1. /\ op'[p] = op[p] /\ tpc[p] # "idle"
        /\ tpc'[p] \in {"follow", "range", "enter", "descend", "left", "right"}
        /\ tpc'[p] = "range" => tpc[p] = "range"
    BY <1>13 DEF FollowNewest, StartQuery, EnterSnapshot, ReadBundle, HasRead
  <2> QED
    BY <1>1, <2>1 DEF PrevTPCs, SuccTPCs, WriteTPCs, UnlinkTPCs
<1>14. CASE Descend(p) \/ EnterRange(p) \/ Collect(p) \/ ReadRight(p) \/ Push(p)
  BY <1>1, <1>14
  DEF Descend, EnterRange, Collect, ReadRight, Push, HasRead, PrevTPCs, SuccTPCs, WriteTPCs, UnlinkTPCs
<1>15. CASE EndContains(p) \/ EndQuery(p)
  BY <1>2, <1>15 DEF EndContains, EndQuery
<1> QED
  BY <1>3, <1>4, <1>5, <1>6, <1>7, <1>8, <1>9, <1>10, <1>11, <1>12, <1>13, <1>14, <1>15 DEF TreeStep

\* What contains finds at the head of a bundle is in the tree.
LEMMA GotInTree ==
  ASSUME SInv, TreeInv, NEW p \in Procs, Get(p)
  PROVE  /\ pc'[p] = "got" /\ out'[p] \in Places
         /\ \A n \in Nodes : n = out'[p] => InTree(n)
<1>1. IInv /\ NothingFreed /\ ClosedInv /\ pc \in [Procs -> PCs] /\ out \in [Procs -> Ptrs \cup {NoPtr}]
      /\ clock \in Nat /\ clock < Pending
  BY DEF SInv, RInv, TreeInv, IInv, TypeOK, UInv, ClockInv
<1>2. pc[p] = "get" /\ Return(p, cur[p], "got")
  BY DEF Get
<1>3. at[p] \in Bundles /\ cur[p] \in 0 .. Newest(bundle[at[p]]) /\ cur[p] # 0
  BY <1>1, <1>2 DEF IInv, ReaderInv
<1>4. PICK b \in Bundles : b = at[p]
  BY <1>3
<1>5. Newest(bundle[b]) \in Nat
  BY <1>1, NewestNat DEF IInv, TypeOK
<1>6. PICK i \in 1 .. Newest(bundle[b]) : i = cur[p]
  BY <1>3, <1>4, <1>5
<1>7. ~Freed(b, i)
  BY <1>1, <1>5 DEF Freed, NothingFreed
<1>8. ~IsPending(bundle[b], i)
  BY <1>4, <1>6, <1>7 DEF Get
<1>9. /\ Label(b, i) = bundle[b].entries[i].ts /\ Label(b, i) \in Nat /\ Label(b, i) <= clock
  BY <1>1, <1>8, FinalizedLabel DEF IInv, UInv, LabelsReached
<1>10. pc'[p] = "got" /\ out'[p] = bundle[b].entries[i].ptr
  BY <1>1, <1>2, <1>3, <1>4, <1>6, <1>7 DEF Return
<1>11. bundle[b].entries[i].ptr \in Places
  <2>1. bundle[b] \in Bundle
    BY <1>1 DEF IInv, TypeOK
  <2>2. bundle[b].entries \in Seq(Entry)
    BY <2>1 DEF Bundle
  <2>3. bundle[b].entries[i] \in Entry
    BY <2>2, ElementOfSeq DEF Newest
  <2> QED
    BY <2>3, TreeBasics DEF Entry
<1>12. ASSUME NEW n \in Nodes, n = bundle[b].entries[i].ptr PROVE InTree(n)
  <2>1. PICK s \in Nat : s = Label(b, i)
    BY <1>9
  <2>2. s <= clock /\ s < Pending
    BY <1>1, <1>9, <2>1, PendingAssumption
  <2>3. BornAt(n, s)
    BY <1>1, <1>12, <2>1, <2>2 DEF ClosedInv, BornAt
  <2> QED
    BY <1>1, <2>2, <2>3, BornLater DEF InTree
<1> QED
  BY <1>10, <1>11, <1>12

LEMMA OwnPc ==
  ASSUME SInv, TreeInv, NEW p \in Procs, Call(p) \/ TreeStep(p), [Next]_vars
  PROVE  TreePcInv(p)'
<1> USE DEF TreePcInv
<1> USE GoneTo
<1>1. TreePcInv(p) /\ TreeOpInv(p)
  BY Stands DEF TreeLocalInv
<1>2. pc \in [Procs -> PCs]
  BY DEF SInv, RInv, IInv, TypeOK
<1>3. ASSUME UNCHANGED vars, tpc'[p] \notin {"follow"} \cup WriteTPCs \cup SnapshotTPCs, pc[p] = "idle"
      PROVE  TreePcInv(p)'
  BY <1>3 DEF vars, WriteTPCs, UnlinkTPCs, SnapshotTPCs
<1>4. ASSUME NEW r, ReturnKeys(p, r), pc'[p] = "idle" PROVE TreePcInv(p)'
  BY <1>4, Returned DEF WriteTPCs, UnlinkTPCs, SnapshotTPCs
<1>5. tpc[p] \notin {"follow", "range"} \cup WriteTPCs \cup SnapshotTPCs => pc[p] = "idle"
  BY <1>1
<1>6. CASE Call(p) \/ Begin(p)
  BY <1>3, <1>5, <1>6 DEF Call, Begin, WriteTPCs, UnlinkTPCs, SnapshotTPCs
<1>7. CASE Search(p)
  <2>1. op[p].type \in OpTypes
    BY <1>7, CurrOp DEF Search
  <2> QED
    BY <1>3, <1>5, <1>7, <2>1 DEF Search, OpTypes, WriteTPCs, UnlinkTPCs, SnapshotTPCs
<1>8. CASE EndSearch(p)
  <2>1. pc[p] = "idle" /\ UNCHANGED vars
    BY <1>5, <1>8 DEF EndSearch, WriteTPCs, UnlinkTPCs, SnapshotTPCs
  <2>2. pc'[p] = "idle"
    BY <2>1 DEF vars
  <2> QED
    BY <1>3, <1>4, <1>8, <2>1, <2>2 DEF EndSearch, WriteTPCs, UnlinkTPCs, SnapshotTPCs
<1>9. CASE LockPrev(p) \/ LockCurr(p) \/ Invalid(p)
  BY <1>3, <1>5, <1>9 DEF LockPrev, LockCurr, Invalid, WriteTPCs, UnlinkTPCs, SnapshotTPCs
<1>10. CASE FindSucc(p) \/ NextSucc(p) \/ LockSucc(p) \/ InvalidSucc(p)
  BY <1>3, <1>5, <1>10
  DEF FindSucc, Valid, NextSucc, LockSucc, InvalidSucc, WriteTPCs, UnlinkTPCs, SnapshotTPCs
<1>11. CASE BeginInsert(p) \/ BeginErase(p) \/ BeginMove(p)
  <2>1. tpc'[p] = "label"
    BY <1>11 DEF BeginInsert, BeginErase, BeginMove
  <2>2. \E w : BeginUpdate(p, w)
    BY <1>11 DEF BeginInsert, BeginErase, BeginMove
  <2>3. pc'[p] = "prepare"
    BY <1>2, <2>2 DEF BeginUpdate
  <2> QED
    BY <2>1, <2>3 DEF WriteTPCs, UnlinkTPCs, SnapshotTPCs
<1>12. CASE PrepareAndLabel(p)
  <2>1. tpc'[p] = "label" /\ tpc[p] = "label"
    BY <1>12 DEF PrepareAndLabel
  <2>2. pc'[p] \in {"prepare", "load", "reload", "bump", "finalize"}
    BY <1>2, <1>12 DEF PrepareAndLabel, Prepare, NextBundle, LoadTS, ReloadTS, FetchAdd
  <2> QED
    BY <2>1, <2>2 DEF WriteTPCs, UnlinkTPCs, SnapshotTPCs
<1>13. CASE LinWrite(p)
  BY <1>13 DEF LinWrite, vars, WriteTPCs, UnlinkTPCs, SnapshotTPCs
<1>14. CASE FinalizeBundles(p)
  <2>1. tpc[p] = "finalize" /\ Finalize(p) /\ pc[p] = "finalize"
    BY <1>14 DEF FinalizeBundles, Finalize
  <2>2. CASE idx[p] < Len(upd[p])
    <3>1. tpc'[p] = "finalize" /\ pc'[p] = "finalize"
      BY <1>2, <1>14, <2>1, <2>2 DEF FinalizeBundles, Finalize, NextBundle
    <3> QED
      BY <3>1 DEF WriteTPCs, UnlinkTPCs, SnapshotTPCs
  <2>3. CASE ~(idx[p] < Len(upd[p]))
    <3>1. tpc'[p] \in {"unlock", "synchronize", "tag"} /\ pc'[p] = "unlock"
      BY <1>2, <1>14, <2>1, <2>3 DEF FinalizeBundles, Finalize, NextBundle
    <3> QED
      BY <3>1 DEF WriteTPCs, UnlinkTPCs, SnapshotTPCs
  <2> QED
    BY <2>2, <2>3
<1>15. CASE Synchronize(p) \/ UnlinkSucc(p) \/ RaiseTag(p)
  <2>1. tpc[p] \in {"tag"} \cup UnlinkTPCs /\ UNCHANGED vars
    BY <1>15 DEF Synchronize, UnlinkSucc, RaiseTag, UnlinkTPCs
  <2>2. pc'[p] = "unlock"
    BY <1>1, <2>1 DEF vars
  <2>3. tpc'[p] \in {"tag", "unlock"} \cup UnlinkTPCs
    BY <1>15 DEF Synchronize, UnlinkSucc, RaiseTag, UnlinkTPCs
  <2> QED
    BY <2>2, <2>3 DEF WriteTPCs, UnlinkTPCs, SnapshotTPCs
<1>16. CASE Unlock(p)
  <2>1. pc[p] \in {"unlock", "idle"}
    BY <1>1, <1>16 DEF Unlock, WriteTPCs, UnlinkTPCs, SnapshotTPCs
  <2>2. pc'[p] = "idle"
    BY <1>2, <1>16, <2>1 DEF Unlock, EndUpdate, vars
  <2> QED
    BY <1>4, <1>16, <2>2 DEF Unlock, WriteTPCs, UnlinkTPCs, SnapshotTPCs
<1>17. CASE FollowNewest(p)
  <2>1. tpc'[p] = "follow"
    BY <1>17 DEF FollowNewest
  <2>2. ASSUME NEW b, BeginGet(p, b) PROVE pc'[p] = "get"
    BY <1>2, <2>2 DEF BeginGet
  <2>3. CASE Get(p)
    <3>1. pc'[p] = "got" /\ out'[p] \in Places /\ \A n \in Nodes : n = out'[p] => InTree(n)'
      BY <2>3, GotInTree, InTreeStays
    <3> QED
      BY <2>1, <3>1 DEF GetPCs, WriteTPCs, UnlinkTPCs, SnapshotTPCs
  <2>4. ASSUME pc'[p] = "get" PROVE TreePcInv(p)'
    BY <2>1, <2>4 DEF GetPCs, WriteTPCs, UnlinkTPCs, SnapshotTPCs
  <2> QED
    BY <1>17, <2>2, <2>3, <2>4 DEF FollowNewest
<1>18. CASE EndContains(p)
  BY <1>2, <1>4, <1>18 DEF EndContains, EndGet
<1>19. CASE StartQuery(p)
  <2>1. tpc[p] = "range" /\ tpc'[p] = (IF pc[p] = "clear" THEN "enter" ELSE "range")
    BY <1>19 DEF StartQuery
  <2>2. IF pc[p] = "clear" THEN pc'[p] = "query" ELSE pc'[p] \in AnnouncePCs
    BY <1>2, <1>19
    DEF StartQuery, StartTraversal, AnnounceStep, ReadClock, Announce, ClearFlag, AnnouncePCs
  <2> QED
    BY <2>1, <2>2 DEF WriteTPCs, UnlinkTPCs, SnapshotTPCs
<1>20. ASSUME NEW b, BeginLookup(p, b), tpc'[p] \in {"descend", "left", "right"}
       PROVE  TreePcInv(p)'
  <2>1. pc'[p] = "first"
    BY <1>2, <1>20 DEF BeginLookup
  <2> QED
    BY <1>20, <2>1 DEF LookupPCs, WriteTPCs, UnlinkTPCs, SnapshotTPCs
<1>21. CASE EnterSnapshot(p) \/ Descend(p) \/ Collect(p) \/ ReadRight(p)
  BY <1>20, <1>21 DEF EnterSnapshot, Descend, Collect, ReadRight, HasRead
<1>22. CASE ReadBundle(p)
  <2>1. pc'[p] \in {"query"} \cup LookupPCs
    BY <1>2, <1>22
    DEF ReadBundle, LookupStep, CheckFirst, LoadSecond, CheckSecond, AwaitLabel, Walk, Return,
        Continue, LookupPCs
  <2>2. tpc'[p] \in {"descend", "left", "right"}
    BY <1>22 DEF ReadBundle
  <2> QED
    BY <2>1, <2>2 DEF WriteTPCs, UnlinkTPCs, SnapshotTPCs
<1>23. CASE EnterRange(p) \/ Push(p)
  <2>1. tpc'[p] = "collect" /\ pc'[p] = "query"
    BY <1>23 DEF EnterRange, Push, HasRead, vars
  <2> QED
    BY <2>1 DEF WriteTPCs, UnlinkTPCs, SnapshotTPCs
<1>24. CASE EndQuery(p)
  BY <1>2, <1>4, <1>24 DEF EndQuery, EndTraversal
<1> QED
  BY <1>6, <1>7, <1>8, <1>9, <1>10, <1>11, <1>12, <1>13, <1>14, <1>15, <1>16, <1>17, <1>18, <1>19,
     <1>21, <1>22, <1>23, <1>24 DEF TreeStep

-----------------------------------------------------------------------------
(***************************************************************************)
(* The parts of a process's local variables, and the steps that set some.  *)
(***************************************************************************)
SameSearch(u, r) == u.prev = r.prev /\ u.dir = r.dir /\ u.curr = r.curr /\ u.tag = r.tag
SameSucc(u, r) == u.prevSucc = r.prevSucc /\ u.succ = r.succ
SameUpdate(u, r) == u.node = r.node /\ u.held = r.held
SameQuery(u, r) == /\ u.first = r.first /\ u.entry = r.entry /\ u.left = r.left
                   /\ u.stack = r.stack /\ u.found = r.found

SetsTag(p, a) == my' = [my EXCEPT ![p].tag = a]
SetsHeld(p, a) == my' = [my EXCEPT ![p].held = a]
SetsNode(p, a, b) == my' = [my EXCEPT ![p].node = a, ![p].held = b]
SetsSucc(p, a, b) == my' = [my EXCEPT ![p].prevSucc = a, ![p].succ = b]
SetsFirst(p, a) == my' = [my EXCEPT ![p].first = a]
SetsLeft(p, a) == my' = [my EXCEPT ![p].left = a]
SetsStack(p, a) == my' = [my EXCEPT ![p].stack = a]

LEMMA SearchMoves ==
  ASSUME TreeInv, NEW p \in Procs, Search(p)
  PROVE  /\ my'[p].prev = my[p].curr
         /\ my'[p].curr = child[<<my[p].curr, Side(p, my[p].curr)>>]
         /\ SameSucc(my'[p], my[p]) /\ SameUpdate(my'[p], my[p]) /\ SameQuery(my'[p], my[p])
<1>1. PICK a, b, c : /\ a = my[p].curr /\ b = Side(p, my[p].curr)
                     /\ c = child[<<my[p].curr, Side(p, my[p].curr)>>]
                     /\ my' = [my EXCEPT ![p].prev = a, ![p].dir = b, ![p].curr = c]
  BY DEF Search
<1>2. my[p] \in Local /\ my'[p] = [my[p] EXCEPT !.prev = a, !.dir = b, !.curr = c]
  BY <1>1 DEF TreeInv, TreeFormInv
<1>3. PICK r, u : /\ r = my[p] /\ u = my'[p] /\ r \in Local
                  /\ u = [r EXCEPT !.prev = a, !.dir = b, !.curr = c]
  BY <1>2, Zenon
<1>4. u.prev = a /\ u.curr = c /\ SameSucc(u, r) /\ SameUpdate(u, r) /\ SameQuery(u, r)
  BY <1>3 DEF Local, SameSucc, SameUpdate, SameQuery
<1> QED
  BY <1>1, <1>3, <1>4, Zenon

LEMMA TagSet ==
  ASSUME TreeInv, NEW p \in Procs, NEW a,
         SetsTag(p, a)
  PROVE  /\ my'[p].tag = a
         /\ my'[p].prev = my[p].prev /\ my'[p].dir = my[p].dir /\ my'[p].curr = my[p].curr
         /\ SameSucc(my'[p], my[p]) /\ SameUpdate(my'[p], my[p]) /\ SameQuery(my'[p], my[p])
<1>1. my[p] \in Local /\ my'[p] = [my[p] EXCEPT !.tag = a]
  BY DEF TreeInv, TreeFormInv, SetsTag
<1> QED
  BY <1>1 DEF Local, SameSucc, SameUpdate, SameQuery

LEMMA HeldSet ==
  ASSUME TreeInv, NEW p \in Procs, NEW a,
         SetsHeld(p, a)
  PROVE  /\ my'[p].held = a
         /\ my'[p].node = my[p].node
         /\ SameSearch(my'[p], my[p]) /\ SameSucc(my'[p], my[p]) /\ SameQuery(my'[p], my[p])
<1>1. my[p] \in Local /\ my'[p] = [my[p] EXCEPT !.held = a]
  BY DEF TreeInv, TreeFormInv, SetsHeld
<1> QED
  BY <1>1 DEF Local, SameSearch, SameSucc, SameQuery

LEMMA NodeSet ==
  ASSUME TreeInv, NEW p \in Procs, NEW a, NEW b,
         SetsNode(p, a, b)
  PROVE  /\ my'[p].node = a /\ my'[p].held = b
         /\ SameSearch(my'[p], my[p]) /\ SameSucc(my'[p], my[p]) /\ SameQuery(my'[p], my[p])
<1>1. my[p] \in Local /\ my'[p] = [my[p] EXCEPT !.node = a, !.held = b]
  BY DEF TreeInv, TreeFormInv, SetsNode
<1>2. PICK r, u : /\ r = my[p] /\ u = my'[p] /\ r \in Local
                  /\ u = [r EXCEPT !.node = a, !.held = b]
  BY <1>1, Zenon
<1>3. /\ u.node = a /\ u.held = b
      /\ SameSearch(u, r) /\ SameSucc(u, r) /\ SameQuery(u, r)
  BY <1>2 DEF Local, SameSearch, SameSucc, SameQuery
<1> QED
  BY <1>2, <1>3, Zenon

LEMMA SuccSet ==
  ASSUME TreeInv, NEW p \in Procs, NEW a, NEW b,
         SetsSucc(p, a, b)
  PROVE  /\ my'[p].prevSucc = a /\ my'[p].succ = b
         /\ SameSearch(my'[p], my[p]) /\ SameUpdate(my'[p], my[p]) /\ SameQuery(my'[p], my[p])
<1>1. my[p] \in Local /\ my'[p] = [my[p] EXCEPT !.prevSucc = a, !.succ = b]
  BY DEF TreeInv, TreeFormInv, SetsSucc
<1>2. PICK r, u : /\ r = my[p] /\ u = my'[p] /\ r \in Local
                  /\ u = [r EXCEPT !.prevSucc = a, !.succ = b]
  BY <1>1, Zenon
<1>3. /\ u.prevSucc = a /\ u.succ = b
      /\ SameSearch(u, r) /\ SameUpdate(u, r) /\ SameQuery(u, r)
  BY <1>2 DEF Local, SameSearch, SameUpdate, SameQuery
<1> QED
  BY <1>2, <1>3, Zenon

LEMMA FirstSet ==
  ASSUME TreeInv, NEW p \in Procs, NEW a,
         SetsFirst(p, a)
  PROVE  /\ my'[p].first = a
         /\ my'[p].entry = my[p].entry /\ my'[p].left = my[p].left
         /\ my'[p].stack = my[p].stack /\ my'[p].found = my[p].found
         /\ SameSearch(my'[p], my[p]) /\ SameSucc(my'[p], my[p]) /\ SameUpdate(my'[p], my[p])
<1>1. my[p] \in Local /\ my'[p] = [my[p] EXCEPT !.first = a]
  BY DEF TreeInv, TreeFormInv, SetsFirst
<1> QED
  BY <1>1 DEF Local, SameSearch, SameSucc, SameUpdate

LEMMA EntrySet ==
  ASSUME TreeInv, NEW p \in Procs, EnterRange(p)
  PROVE  /\ my'[p].entry = out[p]
         /\ my'[p].stack \in {<<>>, <<out[p]>>} /\ (my'[p].stack # <<>> => out[p] # Null)
         /\ my'[p].first = my[p].first /\ my'[p].left = my[p].left
         /\ SameSearch(my'[p], my[p]) /\ SameSucc(my'[p], my[p]) /\ SameUpdate(my'[p], my[p])
<1>1. PICK a, b : /\ a = out[p] /\ b \in {<<>>, <<out[p]>>} /\ (b # <<>> => out[p] # Null)
                  /\ my' = [my EXCEPT ![p].entry = a, ![p].stack = b]
  BY DEF EnterRange
<1>2. my[p] \in Local /\ my'[p] = [my[p] EXCEPT !.entry = a, !.stack = b]
  BY <1>1 DEF TreeInv, TreeFormInv
<1>3. PICK r, u : /\ r = my[p] /\ u = my'[p] /\ r \in Local
                  /\ u = [r EXCEPT !.entry = a, !.stack = b]
  BY <1>2, Zenon
<1>4. /\ u.entry = a /\ u.stack = b /\ u.first = r.first /\ u.left = r.left
      /\ SameSearch(u, r) /\ SameSucc(u, r) /\ SameUpdate(u, r)
  BY <1>3 DEF Local, SameSearch, SameSucc, SameUpdate
<1> QED
  BY <1>1, <1>3, <1>4, Zenon

LEMMA NodeTaken ==
  ASSUME TreeInv, NEW p \in Procs, Collect(p)
  PROVE  /\ my'[p].curr = Head(my[p].stack) /\ my'[p].stack = Tail(my[p].stack)
         /\ my'[p].prev = my[p].prev /\ my'[p].dir = my[p].dir
         /\ my'[p].first = my[p].first /\ my'[p].entry = my[p].entry /\ my'[p].left = my[p].left
         /\ SameSucc(my'[p], my[p]) /\ SameUpdate(my'[p], my[p])
<1>1. PICK a, b, c : /\ a = Head(my[p].stack) /\ b = Tail(my[p].stack)
                     /\ my' = [my EXCEPT ![p].curr = a, ![p].stack = b, ![p].found = c]
  BY DEF Collect
<1>2. my[p] \in Local /\ my'[p] = [my[p] EXCEPT !.curr = a, !.stack = b, !.found = c]
  BY <1>1 DEF TreeInv, TreeFormInv
<1>3. PICK r, u : /\ r = my[p] /\ u = my'[p] /\ r \in Local
                  /\ u = [r EXCEPT !.curr = a, !.stack = b, !.found = c]
  BY <1>2, Zenon
<1>4. /\ u.curr = a /\ u.stack = b /\ u.prev = r.prev /\ u.dir = r.dir
      /\ u.first = r.first /\ u.entry = r.entry /\ u.left = r.left
      /\ SameSucc(u, r) /\ SameUpdate(u, r)
  BY <1>3 DEF Local, SameSucc, SameUpdate
<1> QED
  BY <1>1, <1>3, <1>4, Zenon

LEMMA LeftSet ==
  ASSUME TreeInv, NEW p \in Procs, NEW a,
         SetsLeft(p, a)
  PROVE  /\ my'[p].left = a
         /\ my'[p].first = my[p].first /\ my'[p].entry = my[p].entry
         /\ my'[p].stack = my[p].stack /\ my'[p].found = my[p].found
         /\ SameSearch(my'[p], my[p]) /\ SameSucc(my'[p], my[p]) /\ SameUpdate(my'[p], my[p])
<1>1. my[p] \in Local /\ my'[p] = [my[p] EXCEPT !.left = a]
  BY DEF TreeInv, TreeFormInv, SetsLeft
<1> QED
  BY <1>1 DEF Local, SameSearch, SameSucc, SameUpdate

LEMMA StackSet ==
  ASSUME TreeInv, NEW p \in Procs, NEW a,
         SetsStack(p, a)
  PROVE  /\ my'[p].stack = a
         /\ my'[p].first = my[p].first /\ my'[p].entry = my[p].entry
         /\ my'[p].left = my[p].left /\ my'[p].found = my[p].found
         /\ SameSearch(my'[p], my[p]) /\ SameSucc(my'[p], my[p]) /\ SameUpdate(my'[p], my[p])
<1>1. my[p] \in Local /\ my'[p] = [my[p] EXCEPT !.stack = a]
  BY DEF TreeInv, TreeFormInv, SetsStack
<1> QED
  BY <1>1 DEF Local, SameSearch, SameSucc, SameUpdate

-----------------------------------------------------------------------------
LEMMA TailElements ==
  ASSUME NEW S, NEW s \in Seq(S), s # <<>>
  PROVE  /\ Len(s) \in Nat \ {0} /\ Tail(s) \in Seq(S) /\ Head(s) = s[1] /\ Head(s) \in S
         /\ Len(Tail(s)) = Len(s) - 1
         /\ \A i \in 1 .. Len(Tail(s)) : i + 1 \in 1 .. Len(s) /\ Tail(s)[i] = s[i + 1]
<1>1. Len(s) \in Nat \ {0}
  BY EmptySeq, LenProperties
<1> QED
  BY <1>1, HeadTailProperties

LEMMA ConcatElements ==
  ASSUME NEW S, NEW s \in Seq(S), NEW t \in Seq(S), NEW i \in 1 .. Len(s \o t)
  PROVE  \/ i \in 1 .. Len(s) /\ (s \o t)[i] = s[i]
         \/ i - Len(s) \in 1 .. Len(t) /\ (s \o t)[i] = t[i - Len(s)]
<1>1. Len(s) \in Nat /\ Len(t) \in Nat /\ Len(s \o t) = Len(s) + Len(t)
  BY LenProperties, ConcatProperties
<1> QED
  BY <1>1, ConcatProperties

LEMMA ShortSeqs ==
  ASSUME NEW S, NEW a \in S, NEW b \in S, NEW c \in S
  PROVE  /\ <<a>> \in Seq(S) /\ Len(<<a>>) = 1 /\ <<a>>[1] = a
         /\ <<a, b>> \in Seq(S) /\ Len(<<a, b>>) = 2 /\ <<a, b>>[1] = a /\ <<a, b>>[2] = b
         /\ <<a, b, c>> \in Seq(S) /\ Len(<<a, b, c>>) = 3
         /\ <<a, b, c>>[1] = a /\ <<a, b, c>>[2] = b /\ <<a, b, c>>[3] = c
         /\ <<a>> \o <<b>> = <<a, b>> /\ <<>> \o <<a>> = <<a>>
<1>1. <<a>> \in Seq(S) /\ Len(<<a>>) = 1 /\ <<a>>[1] = a
  OBVIOUS
<1>2. <<a, b>> \in Seq(S) /\ Len(<<a, b>>) = 2 /\ <<a, b>>[1] = a /\ <<a, b>>[2] = b
  OBVIOUS
<1>3. /\ <<a, b, c>> \in Seq(S) /\ Len(<<a, b, c>>) = 3
      /\ <<a, b, c>>[1] = a /\ <<a, b, c>>[2] = b /\ <<a, b, c>>[3] = c
  OBVIOUS
<1>4. <<>> \o <<a>> = <<a>>
  BY <1>1, ConcatEmptySeq
<1>5. <<a>> \o <<b>> = <<a, b>>
  <2>1. Append(<<a>>, b) = <<a>> \o <<b>>
    BY <1>1, AppendIsConcat
  <2>2. /\ Append(<<a>>, b) \in Seq(S) /\ Len(Append(<<a>>, b)) = 2
        /\ Append(<<a>>, b)[1] = a /\ Append(<<a>>, b)[2] = b
    BY <1>1, AppendProperties
  <2>3. \A i \in 1 .. Len(Append(<<a>>, b)) : Append(<<a>>, b)[i] = <<a, b>>[i]
    BY <1>2, <2>2
  <2> QED
    BY <1>2, <2>1, <2>2, <2>3, SeqEqual
<1> QED
  BY <1>1, <1>2, <1>3, <1>4, <1>5

\* The steps of a search.
LEMMA SearchPlaces ==
  ASSUME SInv, TreeInv, NEW p \in Procs, StepOf(p),
         \/ Call(p) \/ Begin(p) \/ Search(p) \/ EndSearch(p) \/ LockPrev(p) \/ LockCurr(p)
         \/ EndContains(p) \/ EndQuery(p) \/ Unlock(p)
  PROVE  TreePlaceInv(p)'
<1> USE GoneTo
<1>1. TreePlaceInv(p) /\ TreeOpInv(p) /\ RawInv
  BY Stands DEF TreeLocalInv, TreeInv
<1>2. alloc \subseteq alloc' /\ \A n \in Nodes : InTree(n) => InTree(n)'
  BY InTreeStays DEF StepOf, NodeFrame
<1>3. /\ Len(Fresh.held) = 0 /\ Len(Fresh.stack) = 0 /\ Fresh.prevSucc = Null /\ Fresh.succ = Null
      /\ Fresh.prev = Root /\ Fresh.curr = RootChild
      /\ Fresh.node = Null /\ Fresh.entry = Null /\ Fresh.left = Null
  BY DEF Fresh
<1>4. InTree(Root) /\ InTree(RootChild) /\ Null \notin Nodes /\ RootChild \in Nodes /\ Root \in Nodes
  BY <1>1, TreeBasics DEF RawInv
<1>5. ASSUME NEW r, ReturnKeys(p, r) PROVE TreePlaceInv(p)'
  <2>1. tpc'[p] = "idle" /\ my'[p] = Fresh
    BY <1>5, Returned
  <2> QED
    BY <1>2, <1>3, <1>4, <2>1 DEF TreePlaceInv, PrevTPCs, SuccTPCs
<1>6. CASE Call(p)
  BY <1>1, <1>2, <1>6 DEF Call, TreePlaceInv, PrevTPCs, SuccTPCs
<1>7. CASE Begin(p)
  <2>1. tpc'[p] = "search"
    BY <1>7 DEF Begin
  <2>2. my'[p] = Fresh \/ my'[p] = [Fresh EXCEPT !.prev = RootChild]
    BY <1>7 DEF Begin, TreeInv, TreeFormInv
  <2>3. /\ my'[p].prev \in {Root, RootChild} /\ my'[p].curr = RootChild
        /\ my'[p].prevSucc = Null /\ my'[p].succ = Null /\ my'[p].node = Null
        /\ my'[p].entry = Null /\ my'[p].left = Null /\ Len(my'[p].held) = 0
        /\ Len(my'[p].stack) = 0
    BY <2>2 DEF Fresh
  <2> QED
    BY <1>2, <1>4, <2>1, <2>3 DEF TreePlaceInv, PrevTPCs, SuccTPCs
<1>8. CASE Search(p)
  <2> DEFINE c == child[<<my[p].curr, Side(p, my[p].curr)>>]
  <2>1. tpc[p] = "search" /\ my[p].curr # Null
    BY <1>1, <1>8 DEF Search, TreePlaceInv
  <2>2. my[p].curr \in alloc
    BY <2>1, Stands
  <2>3. c \in Places /\ \A m \in Nodes : m = c => InTree(m)
    BY <2>2, SideOf, ChildOf
  <2>4. /\ my'[p].prev = my[p].curr /\ my'[p].curr = c
        /\ SameSucc(my'[p], my[p]) /\ SameUpdate(my'[p], my[p]) /\ SameQuery(my'[p], my[p])
    BY <1>8, SearchMoves
  <2>5. op[p].type \in OpTypes
    BY <2>1, CurrOp
  <2>6. tpc'[p] = op[p].type \/ (tpc'[p] = "search" /\ c # Null)
    BY <1>8, <2>1 DEF Search, Stops
  <2> HIDE DEF c
  <2>7. \A n \in Nodes : n \in {my'[p].prev, my'[p].curr, my'[p].prevSucc, my'[p].succ} => InTree(n)'
    BY <1>1, <1>2, <2>2, <2>3, <2>4, Stands DEF TreePlaceInv, SameSucc
  <2>8. my'[p].succ = Null
    BY <1>1, <2>1, <2>4 DEF TreePlaceInv, SameSucc
  <2>9. /\ {my'[p].node, my'[p].entry, my'[p].left} \subseteq alloc' \cup {Null}
        /\ \A i \in 1 .. Len(my'[p].held) : my'[p].held[i] \in alloc'
        /\ \A i \in 1 .. Len(my'[p].stack) : my'[p].stack[i] \in alloc'
    BY <1>1, <1>2, <2>4 DEF TreePlaceInv, SameUpdate, SameQuery
  <2>10. tpc'[p] \notin {"lockPrev"} \cup PrevTPCs \cup SuccTPCs
    BY <2>5, <2>6 DEF OpTypes, PrevTPCs, SuccTPCs
  <2>11. tpc'[p] = "search" => my'[p].curr # Null
    BY <2>4, <2>5, <2>6 DEF OpTypes
  <2> QED
    BY <2>7, <2>8, <2>9, <2>10, <2>11 DEF TreePlaceInv
<1>9. CASE EndSearch(p)
  <2>1. CASE /\ my' = [my EXCEPT ![p].tag = tag[Link(p)]] /\ tpc'[p] = "lockPrev"
             /\ op'[p] = op[p] /\ (tpc[p] = "insert") = (my[p].curr = Null)
    <3>1. /\ my'[p].prev = my[p].prev /\ my'[p].curr = my[p].curr
          /\ SameSucc(my'[p], my[p]) /\ SameUpdate(my'[p], my[p]) /\ SameQuery(my'[p], my[p])
      BY <2>1, TagSet DEF SetsTag
    <3>2. tpc[p] \in {"insert", "erase"} /\ op[p].type = tpc[p]
      BY <1>1, <1>9 DEF EndSearch, TreeOpInv
    <3>3. op'[p].type = "erase" => my'[p].curr # Null
      BY <2>1, <3>1, <3>2
    <3> QED
      BY <1>1, <1>2, <2>1, <3>1, <3>2, <3>3
      DEF TreePlaceInv, SameSucc, SameUpdate, SameQuery, PrevTPCs, SuccTPCs
  <2> QED
    BY <1>5, <1>9, <2>1 DEF EndSearch
<1>10. CASE LockPrev(p) \/ LockCurr(p)
  <2>1. my'[p] = my[p] /\ op'[p] = op[p] /\ tpc[p] \in {"lockPrev", "lockCurr"} /\ tpc'[p] \in PrevTPCs
    BY <1>10 DEF LockPrev, LockCurr, PrevTPCs
  <2> QED
    BY <1>1, <1>2, <2>1 DEF TreePlaceInv, PrevTPCs, SuccTPCs
<1>11. CASE EndContains(p) \/ EndQuery(p)
  BY <1>5, <1>11 DEF EndContains, EndQuery
<1>12. CASE Unlock(p)
  <2>1. CASE my' = [my EXCEPT ![p].held = Tail(my[p].held)]
             /\ (tpc'[p] = "start" \/ tpc'[p] = tpc[p])
    <3>1. /\ my'[p].held = Tail(my[p].held) /\ my'[p].node = my[p].node
          /\ SameSearch(my'[p], my[p]) /\ SameSucc(my'[p], my[p]) /\ SameQuery(my'[p], my[p])
      BY <2>1, HeldSet DEF SetsHeld
    <3>2. tpc[p] \in {"unlock", "retry"}
      BY <1>12 DEF Unlock
    <3>3. my[p].held # <<>> /\ my[p].held \in Seq(Nodes)
      BY <3>2, Stands DEF TreeLocalInv, TreeLockInv, WriteTPCs, Local
    <3>4. \A i \in 1 .. Len(my'[p].held) : my'[p].held[i] \in alloc'
      <4> TAKE i \in 1 .. Len(my'[p].held)
      <4>1. i + 1 \in 1 .. Len(my[p].held) /\ my'[p].held[i] = my[p].held[i + 1]
        BY <3>1, <3>3, TailElements
      <4> QED
        BY <1>1, <1>2, <4>1 DEF TreePlaceInv
    <3>5. tpc'[p] \notin {"search", "insert", "erase", "lockPrev"} \cup PrevTPCs \cup SuccTPCs
      BY <2>1, <3>2 DEF PrevTPCs, SuccTPCs
    <3> QED
      BY <1>1, <1>2, <3>1, <3>4, <3>5 DEF TreePlaceInv, SameSearch, SameSucc, SameQuery
  <2> QED
    BY <1>5, <1>12, <2>1 DEF Unlock
<1> QED
  BY <1>6, <1>7, <1>8, <1>9, <1>10, <1>11, <1>12

\* The locks a failed validation, or a move, has taken.
LEMMA SuccLocksShape ==
  ASSUME TreeInv, NEW p \in Procs, tpc[p] = "validateSucc",
         NEW S, my[p].succ \in S, my[p].prevSucc \in S
  PROVE  /\ SuccLocks(p) \in Seq(S)
         /\ Adjacent(p) => SuccLocks(p) = <<my[p].succ>>
         /\ ~Adjacent(p) => SuccLocks(p) = <<my[p].prevSucc, my[p].succ>>
<1>1. /\ <<my[p].succ>> \in Seq(S) /\ <<>> \o <<my[p].succ>> = <<my[p].succ>>
      /\ <<my[p].prevSucc, my[p].succ>> \in Seq(S)
      /\ <<my[p].prevSucc>> \o <<my[p].succ>> = <<my[p].prevSucc, my[p].succ>>
  BY ShortSeqs
<1> QED
  BY <1>1, Zenon DEF SuccLocks

LEMMA UpdatePlaces ==
  ASSUME SInv, TreeInv, NEW p \in Procs, StepOf(p),
         \/ Invalid(p) \/ BeginInsert(p) \/ BeginErase(p) \/ FindSucc(p) \/ NextSucc(p)
         \/ LockSucc(p) \/ InvalidSucc(p) \/ BeginMove(p) \/ PrepareAndLabel(p) \/ LinWrite(p)
         \/ FinalizeBundles(p) \/ Synchronize(p) \/ UnlinkSucc(p) \/ RaiseTag(p)
  PROVE  TreePlaceInv(p)'
<1> USE GoneTo
<1>1. TreePlaceInv(p) /\ TreeOpInv(p) /\ alloc \subseteq Nodes
  BY Stands DEF TreeLocalInv, TreeInv, TreeFormInv
<1>2. alloc \subseteq alloc' /\ \A n \in Nodes : InTree(n) => InTree(n)'
  BY InTreeStays DEF StepOf, NodeFrame
<1>3. my[p].prev \in alloc /\ my[p].curr \in alloc \cup {Null}
  BY Stands
<1>4. ASSUME SameSearch(my'[p], my[p]), SameSucc(my'[p], my[p]), SameQuery(my'[p], my[p]),
             tpc'[p] \notin {"search", "insert", "erase", "lockPrev"} \cup PrevTPCs \cup SuccTPCs,
             my'[p].node \in alloc' \cup {Null},
             \A i \in 1 .. Len(my'[p].held) : my'[p].held[i] \in alloc'
      PROVE  TreePlaceInv(p)'
  BY <1>1, <1>2, <1>4 DEF TreePlaceInv, SameSearch, SameSucc, SameQuery
<1>5. ASSUME NEW s, my' = [my EXCEPT ![p].held = s], tpc'[p] = "retry",
             \A i \in 1 .. Len(s) : s[i] \in alloc
      PROVE  TreePlaceInv(p)'
  <2>1. /\ my'[p].held = s /\ my'[p].node = my[p].node
        /\ SameSearch(my'[p], my[p]) /\ SameSucc(my'[p], my[p]) /\ SameQuery(my'[p], my[p])
    BY <1>5, HeldSet DEF SetsHeld
  <2> QED
    BY <1>1, <1>2, <1>4, <1>5, <2>1 DEF TreePlaceInv, PrevTPCs, SuccTPCs
<1>6. ASSUME NEW n, NEW s, my' = [my EXCEPT ![p].node = n, ![p].held = s], tpc'[p] = "label",
             n \in alloc' \cup {Null}, \A i \in 1 .. Len(s) : s[i] \in alloc'
      PROVE  TreePlaceInv(p)'
  <2>1. /\ my'[p].node = n /\ my'[p].held = s
        /\ SameSearch(my'[p], my[p]) /\ SameSucc(my'[p], my[p]) /\ SameQuery(my'[p], my[p])
    BY <1>6, NodeSet DEF SetsNode
  <2> QED
    BY <1>4, <1>6, <2>1 DEF PrevTPCs, SuccTPCs
<1>7. CASE Invalid(p)
  <2>1. tpc[p] = "validate" /\ tpc'[p] = "retry"
    BY <1>7 DEF Invalid
  <2>2. op[p].type # "insert" => my[p].curr \in alloc
    BY <1>1, <1>3, <2>1 DEF TreeOpInv, TreePlaceInv, PrevTPCs
  <2>3. PICK s : /\ s = (IF op[p].type = "insert" THEN <<my[p].prev>> ELSE <<my[p].prev, my[p].curr>>)
                 /\ my' = [my EXCEPT ![p].held = s]
    BY <1>7 DEF Invalid
  <2>4. \A i \in 1 .. Len(s) : s[i] \in alloc
    <3> TAKE i \in 1 .. Len(s)
    <3>1. i = 1 \/ (i = 2 /\ op[p].type # "insert")
      BY <2>3
    <3> QED
      BY <1>3, <2>2, <2>3, <3>1
  <2> QED
    BY <1>5, <2>1, <2>3, <2>4
<1>8. CASE InvalidSucc(p)
  <2>1. /\ tpc[p] = "validateSucc" /\ tpc'[p] = "retry"
        /\ my' = [my EXCEPT ![p].held = <<my[p].prev, my[p].curr>> \o SuccLocks(p)]
    BY <1>8 DEF InvalidSucc
  <2>2. /\ my[p].curr \in alloc /\ my[p].prevSucc \in alloc /\ my[p].succ \in alloc
    BY <2>1, AllLocked
  <2>3. <<my[p].prev, my[p].curr>> \in Seq(alloc)
    BY <1>3, <2>2, ShortSeqs
  <2>4. SuccLocks(p) \in Seq(alloc)
    BY <2>1, <2>2, SuccLocksShape
  <2>5. PICK s : s \in Seq(alloc) /\ s = <<my[p].prev, my[p].curr>> \o SuccLocks(p)
    BY <2>3, <2>4, ConcatProperties
  <2>6. \A i \in 1 .. Len(s) : s[i] \in alloc
    BY <2>5, ElementOfSeq
  <2> QED
    BY <1>5, <2>1, <2>5, <2>6
<1>9. CASE BeginInsert(p)
  <2>1. PICK n \in Nodes : /\ NewNode(p, n, op[p].lo, <<Null, Null>>)
                           /\ my' = [my EXCEPT ![p].node = n, ![p].held = <<n, my[p].prev>>]
    BY <1>9 DEF BeginInsert
  <2>2. n \in alloc' /\ my[p].prev \in alloc'
    BY <1>2, <1>3, <2>1 DEF NewNode
  <2>3. \A i \in 1 .. Len(<<n, my[p].prev>>) : <<n, my[p].prev>>[i] \in alloc'
    <3> TAKE i \in 1 .. Len(<<n, my[p].prev>>)
    <3>1. i \in {1, 2}
      OBVIOUS
    <3> QED
      BY <2>2, <3>1
  <2>4. tpc'[p] = "label"
    BY <1>9 DEF BeginInsert
  <2> QED
    BY <1>6, <2>1, <2>2, <2>3, <2>4
<1>10. CASE BeginErase(p)
  <2>1. tpc[p] = "validate" /\ op[p].type = "erase" /\ tpc'[p] = "label" /\ alloc' = alloc
    BY <1>10 DEF BeginErase, Valid
  <2>2. my[p].curr \in alloc
    BY <1>1, <1>3, <2>1 DEF TreePlaceInv, PrevTPCs
  <2>3. PICK d \in Sides : my' = [my EXCEPT ![p].node = child[<<my[p].curr, 1 - d>>],
                                            ![p].held = <<my[p].prev, my[p].curr>>]
    BY <1>10 DEF BeginErase, Sides
  <2>4. child[<<my[p].curr, 1 - d>>] \in alloc \cup {Null}
    BY <2>2, ChildOf, TreeBasics
  <2>5. \A i \in 1 .. Len(<<my[p].prev, my[p].curr>>) : <<my[p].prev, my[p].curr>>[i] \in alloc
    <3> TAKE i \in 1 .. Len(<<my[p].prev, my[p].curr>>)
    <3>1. i \in {1, 2}
      OBVIOUS
    <3> QED
      BY <1>3, <2>2, <3>1
  <2> QED
    BY <1>6, <2>1, <2>3, <2>4, <2>5
<1>11. CASE BeginMove(p)
  <2>1. tpc[p] = "validateSucc" /\ tpc'[p] = "label"
    BY <1>11 DEF BeginMove
  <2>2. PICK m \in Nodes : /\ m \in alloc'
                           /\ my' = [my EXCEPT ![p].node = m,
                                       ![p].held = <<my[p].prev, m, my[p].curr>> \o SuccLocks(p)]
    BY <1>11 DEF BeginMove, NewNode
  <2>3. my[p].curr \in alloc' /\ my[p].prevSucc \in alloc' /\ my[p].succ \in alloc' /\ my[p].prev \in alloc'
    BY <1>2, <1>3, <2>1, AllLocked
  <2>4. <<my[p].prev, m, my[p].curr>> \in Seq(alloc')
    BY <2>2, <2>3, ShortSeqs
  <2>5. SuccLocks(p) \in Seq(alloc')
    BY <2>1, <2>3, SuccLocksShape
  <2>6. PICK s : s \in Seq(alloc') /\ s = <<my[p].prev, m, my[p].curr>> \o SuccLocks(p)
    BY <2>4, <2>5, ConcatProperties
  <2>7. \A i \in 1 .. Len(s) : s[i] \in alloc'
    BY <2>6, ElementOfSeq
  <2> QED
    BY <1>6, <2>1, <2>2, <2>6, <2>7
<1>12. CASE FindSucc(p)
  <2> DEFINE c == child[<<my[p].curr, Right>>]
  <2>1. tpc[p] = "validate" /\ op[p].type = "erase" /\ tpc'[p] = "succ" /\ c # Null
    BY <1>12 DEF FindSucc, Valid
  <2>2. my[p].curr \in alloc /\ my[p].curr # Null
    BY <1>1, <1>3, <2>1 DEF TreePlaceInv, PrevTPCs
  <2>3. \A m \in Nodes : m = c => InTree(m)
    BY <2>2, ChildOf, TreeBasics
  <2>4. my' = [my EXCEPT ![p].prevSucc = my[p].curr, ![p].succ = c]
    BY <1>12 DEF FindSucc
  <2> HIDE DEF c
  <2>5. /\ my'[p].prevSucc = my[p].curr /\ my'[p].succ = c
        /\ SameSearch(my'[p], my[p]) /\ SameUpdate(my'[p], my[p]) /\ SameQuery(my'[p], my[p])
    BY <2>4, SuccSet DEF SetsSucc
  <2>6. \A n \in Nodes : n \in {my'[p].prev, my'[p].curr, my'[p].prevSucc, my'[p].succ} => InTree(n)'
    BY <1>1, <1>2, <2>3, <2>5 DEF TreePlaceInv, SameSearch
  <2>7. /\ {my'[p].node, my'[p].entry, my'[p].left} \subseteq alloc' \cup {Null}
        /\ \A i \in 1 .. Len(my'[p].held) : my'[p].held[i] \in alloc'
        /\ \A i \in 1 .. Len(my'[p].stack) : my'[p].stack[i] \in alloc'
    BY <1>1, <1>2, <2>5 DEF TreePlaceInv, SameUpdate, SameQuery
  <2> QED
    BY <2>1, <2>2, <2>5, <2>6, <2>7 DEF TreePlaceInv, PrevTPCs, SuccTPCs, SameSearch
<1>13. CASE NextSucc(p)
  <2>1. tpc[p] = "succ" /\ tpc'[p] \in SuccTPCs
    BY <1>13 DEF NextSucc, SuccTPCs
  <2>2. my[p].curr # Null /\ my[p].prevSucc # Null /\ my[p].succ # Null
    BY <1>1, <2>1 DEF TreePlaceInv, SuccTPCs
  <2>3. CASE UNCHANGED my
    BY <1>1, <1>2, <2>1, <2>2, <2>3 DEF TreePlaceInv, SuccTPCs, PrevTPCs
  <2>4. CASE ~UNCHANGED my
    <3> DEFINE c == child[<<my[p].succ, Left>>]
    <3>1. my' = [my EXCEPT ![p].prevSucc = my[p].succ, ![p].succ = c] /\ c # Null
      BY <1>13, <2>4 DEF NextSucc
    <3>2. my[p].succ \in alloc
      BY <2>2, Stands
    <3>3. \A m \in Nodes : m = c => InTree(m)
      BY <3>2, ChildOf, TreeBasics
    <3> HIDE DEF c
    <3>4. /\ my'[p].prevSucc = my[p].succ /\ my'[p].succ = c
          /\ SameSearch(my'[p], my[p]) /\ SameUpdate(my'[p], my[p]) /\ SameQuery(my'[p], my[p])
      BY <3>1, SuccSet DEF SetsSucc
    <3>5. \A n \in Nodes : n \in {my'[p].prev, my'[p].curr, my'[p].prevSucc, my'[p].succ} => InTree(n)'
      BY <1>1, <1>2, <3>3, <3>4 DEF TreePlaceInv, SameSearch
    <3>6. /\ {my'[p].node, my'[p].entry, my'[p].left} \subseteq alloc' \cup {Null}
          /\ \A i \in 1 .. Len(my'[p].held) : my'[p].held[i] \in alloc'
          /\ \A i \in 1 .. Len(my'[p].stack) : my'[p].stack[i] \in alloc'
      BY <1>1, <1>2, <3>4 DEF TreePlaceInv, SameUpdate, SameQuery
    <3> QED
      BY <2>1, <2>2, <3>1, <3>4, <3>5, <3>6 DEF TreePlaceInv, SuccTPCs, PrevTPCs, SameSearch
  <2> QED
    BY <2>3, <2>4
<1>14. CASE LockSucc(p)
  <2>1. tpc[p] \in SuccTPCs /\ tpc'[p] \in SuccTPCs /\ my'[p] = my[p] /\ op'[p] = op[p]
    BY <1>14 DEF LockSucc, SuccTPCs
  <2> QED
    BY <1>1, <1>2, <2>1 DEF TreePlaceInv, SuccTPCs, PrevTPCs
<1>15. CASE PrepareAndLabel(p) \/ LinWrite(p) \/ FinalizeBundles(p)
            \/ Synchronize(p) \/ UnlinkSucc(p) \/ RaiseTag(p)
  <2>1. tpc'[p] \in WriteTPCs /\ my'[p] = my[p]
    BY <1>15
    DEF PrepareAndLabel, LinWrite, FinalizeBundles, Synchronize, UnlinkSucc, RaiseTag, WriteTPCs,
        UnlinkTPCs
  <2> QED
    BY <1>1, <1>2, <1>4, <2>1
    DEF SameSearch, SameSucc, SameQuery, TreePlaceInv, SuccTPCs, PrevTPCs, WriteTPCs, UnlinkTPCs
<1> QED
  BY <1>7, <1>8, <1>9, <1>10, <1>11, <1>12, <1>13, <1>14, <1>15

LEMMA SeqOfElements ==
  ASSUME NEW S, NEW T, NEW s \in Seq(S), \A i \in 1 .. Len(s) : s[i] \in T
  PROVE  s \in Seq(T)
<1>1. Len(s) \in Nat /\ s \in [1 .. Len(s) -> S]
  BY LenProperties
<1>2. s \in [1 .. Len(s) -> T]
  BY <1>1
<1> QED
  BY <1>1, <1>2

\* The nodes that Push adds are those the query has read.
LEMMA PushedFrom ==
  ASSUME TreeInv, NEW p \in Procs, Push(p),
         NEW S, out[p] \in S \cup {Null}, my[p].left \in S \cup {Null}, my[p].stack \in Seq(S)
  PROVE  my'[p].stack \in Seq(S)
<1>1. PICK x, y : /\ x \in {<<>>, <<out[p]>>} /\ (x # <<>> => out[p] \in S)
                  /\ y \in {<<>>, <<my[p].left>>} /\ (y # <<>> => my[p].left \in S)
                  /\ my' = [my EXCEPT ![p].stack = x \o y \o my[p].stack]
  <2> DEFINE n == my[p].curr
             x == IF out[p] # Null /\ key[n] < op[p].hi THEN <<out[p]>> ELSE <<>>
             y == IF my[p].left # Null /\ op[p].lo < key[n] THEN <<my[p].left>> ELSE <<>>
  <2>1. my' = [my EXCEPT ![p].stack = x \o y \o my[p].stack]
    BY DEF Push
  <2>2. x \in {<<>>, <<out[p]>>} /\ (x # <<>> => out[p] \in S)
    OBVIOUS
  <2>3. y \in {<<>>, <<my[p].left>>} /\ (y # <<>> => my[p].left \in S)
    OBVIOUS
  <2> HIDE DEF x, y
  <2> QED
    BY <2>1, <2>2, <2>3
<1>2. <<>> \in Seq(S) /\ \A a \in S : <<a>> \in Seq(S)
  BY EmptySeq
<1>3. x \in Seq(S)
  BY <1>1, <1>2
<1>4. y \in Seq(S)
  BY <1>1, <1>2
<1>5. x \o y \in Seq(S)
  BY <1>3, <1>4, ConcatProperties
<1>6. (x \o y) \o my[p].stack \in Seq(S)
  BY <1>5, ConcatProperties
<1>7. my'[p].stack = x \o y \o my[p].stack
  BY <1>1, StackSet DEF SetsStack
<1> QED
  BY <1>6, <1>7

LEMMA QueryPlaces ==
  ASSUME SInv, TreeInv, NEW p \in Procs, StepOf(p),
         \/ FollowNewest(p) \/ StartQuery(p) \/ EnterSnapshot(p) \/ ReadBundle(p) \/ Descend(p)
         \/ EnterRange(p) \/ Collect(p) \/ ReadRight(p) \/ Push(p)
  PROVE  TreePlaceInv(p)'
<1> USE GoneTo
<1>1. TreePlaceInv(p) /\ alloc \subseteq Nodes /\ my[p].stack \in Seq(Nodes)
  BY Stands DEF TreeLocalInv, TreeInv, TreeFormInv, Local
<1>2. alloc \subseteq alloc' /\ \A n \in Nodes : InTree(n) => InTree(n)'
  BY InTreeStays DEF StepOf, NodeFrame
<1>3. tpc'[p] \in {"follow", "range"} \cup SnapshotTPCs
  BY DEF FollowNewest, StartQuery, EnterSnapshot, ReadBundle, Descend, EnterRange, Collect,
         ReadRight, Push, HasRead, SnapshotTPCs
<1>4. tpc'[p] \notin {"search", "insert", "erase", "lockPrev"} \cup PrevTPCs \cup SuccTPCs
  BY <1>3 DEF SnapshotTPCs, PrevTPCs, SuccTPCs
<1>5. ASSUME my'[p].prev = my[p].prev, \A n \in Nodes : n = my'[p].curr => InTree(n)',
             SameSucc(my'[p], my[p]), SameUpdate(my'[p], my[p]),
             {my'[p].entry, my'[p].left} \subseteq alloc \cup {Null},
             \A i \in 1 .. Len(my'[p].stack) : my'[p].stack[i] \in alloc
      PROVE  TreePlaceInv(p)'
  BY <1>1, <1>2, <1>4, <1>5 DEF TreePlaceInv, SameSucc, SameUpdate
<1>6. /\ \A n \in Nodes : n = my[p].curr => InTree(n)'
      /\ {my[p].entry, my[p].left} \subseteq alloc \cup {Null}
      /\ \A i \in 1 .. Len(my[p].stack) : my[p].stack[i] \in alloc
  BY <1>1, <1>2 DEF TreePlaceInv
<1>7. my[p].stack \in Seq(alloc)
  BY <1>1, <1>6, SeqOfElements
<1>8. CASE FollowNewest(p) \/ StartQuery(p) \/ EnterSnapshot(p) \/ ReadBundle(p)
  <2>1. my'[p] = my[p]
    BY <1>8 DEF FollowNewest, StartQuery, EnterSnapshot, ReadBundle
  <2> QED
    BY <1>5, <1>6, <2>1 DEF SameSucc, SameUpdate
<1>9. CASE Descend(p)
  <2>1. my' = [my EXCEPT ![p].first = FALSE]
    BY <1>9 DEF Descend
  <2>2. /\ my'[p].entry = my[p].entry /\ my'[p].left = my[p].left /\ my'[p].stack = my[p].stack
        /\ SameSearch(my'[p], my[p]) /\ SameSucc(my'[p], my[p]) /\ SameUpdate(my'[p], my[p])
    BY <2>1, FirstSet DEF SetsFirst
  <2> QED
    BY <1>5, <1>6, <2>2 DEF SameSearch
<1>10. CASE EnterRange(p)
  <2>1. out[p] \in alloc \cup {Null}
    BY <1>10, ReadResult DEF EnterRange, HasRead
  <2>2. /\ my'[p].entry = out[p] /\ my'[p].left = my[p].left
        /\ my'[p].stack \in {<<>>, <<out[p]>>} /\ (my'[p].stack # <<>> => out[p] # Null)
        /\ SameSearch(my'[p], my[p]) /\ SameSucc(my'[p], my[p]) /\ SameUpdate(my'[p], my[p])
    BY <1>10, EntrySet
  <2>3. \A i \in 1 .. Len(my'[p].stack) : my'[p].stack[i] \in alloc
    BY <2>1, <2>2
  <2> QED
    BY <1>5, <1>6, <2>1, <2>2, <2>3 DEF SameSearch
<1>11. CASE Collect(p)
  <2>1. /\ my'[p].curr = Head(my[p].stack) /\ my'[p].stack = Tail(my[p].stack)
        /\ my'[p].prev = my[p].prev /\ my'[p].entry = my[p].entry /\ my'[p].left = my[p].left
        /\ SameSucc(my'[p], my[p]) /\ SameUpdate(my'[p], my[p])
    BY <1>11, NodeTaken
  <2>2. my[p].stack # <<>> /\ tpc[p] = "collect"
    BY <1>11 DEF Collect, HasRead
  <2>3. /\ Head(my[p].stack) \in Nodes /\ Head(my[p].stack) = my[p].stack[1]
        /\ Len(my[p].stack) \in Nat \ {0}
        /\ \A i \in 1 .. Len(Tail(my[p].stack)) :
             i + 1 \in 1 .. Len(my[p].stack) /\ Tail(my[p].stack)[i] = my[p].stack[i + 1]
    BY <1>1, <2>2, TailElements
  <2>4. PICK h \in Nodes : h = Head(my[p].stack)
    BY <2>3
  <2>5. InTree(h)'
    <3>1. InSnapshot(p, h)
      BY <2>2, <2>3, <2>4, Stands DEF TreeLocalInv, TreeSnapshotInv
    <3> QED
      BY <1>2, <3>1, SnapshotInTree
  <2>6. \A i \in 1 .. Len(my'[p].stack) : my'[p].stack[i] \in alloc
    BY <1>6, <2>1, <2>3
  <2> QED
    BY <1>5, <1>6, <2>1, <2>4, <2>5, <2>6
<1>12. CASE ReadRight(p)
  <2>1. my' = [my EXCEPT ![p].left = out[p]] /\ out[p] \in alloc \cup {Null}
    BY <1>12, ReadResult DEF ReadRight, HasRead
  <2>2. /\ my'[p].left = out[p] /\ my'[p].entry = my[p].entry /\ my'[p].stack = my[p].stack
        /\ SameSearch(my'[p], my[p]) /\ SameSucc(my'[p], my[p]) /\ SameUpdate(my'[p], my[p])
    BY <2>1, LeftSet DEF SetsLeft
  <2> QED
    BY <1>5, <1>6, <2>1, <2>2 DEF SameSearch
<1>13. CASE Push(p)
  <2>1. out[p] \in alloc \cup {Null}
    BY <1>13, ReadResult DEF Push, HasRead
  <2>2. my'[p].stack \in Seq(alloc)
    BY <1>6, <1>7, <1>13, <2>1, PushedFrom
  <2>3. PICK s : my' = [my EXCEPT ![p].stack = s]
    BY <1>13 DEF Push
  <2>4. /\ my'[p].left = my[p].left /\ my'[p].entry = my[p].entry
        /\ SameSearch(my'[p], my[p]) /\ SameSucc(my'[p], my[p]) /\ SameUpdate(my'[p], my[p])
    BY <2>3, StackSet DEF SetsStack
  <2>5. \A i \in 1 .. Len(my'[p].stack) : my'[p].stack[i] \in alloc
    BY <2>2, ElementOfSeq
  <2> QED
    BY <1>5, <1>6, <2>4, <2>5 DEF SameSearch
<1> QED
  BY <1>8, <1>9, <1>10, <1>11, <1>12, <1>13

LEMMA OwnPlaces ==
  ASSUME SInv, TreeInv, NEW p \in Procs, StepOf(p), Call(p) \/ TreeStep(p)
  PROVE  TreePlaceInv(p)'
BY SearchPlaces, UpdatePlaces, QueryPlaces DEF TreeStep

-----------------------------------------------------------------------------
(***************************************************************************)
(* The step of a process keeps its own part of the invariant: its locks.   *)
(***************************************************************************)
LockedTPCs == PrevTPCs \cup SuccTPCs \cup {"retry"} \cup WriteTPCs

\* s are different nodes, and each is locked by p.
Holds(p, s) ==
  /\ Len(s) # 0
  /\ \A i, j \in 1 .. Len(s) : s[i] = s[j] => i = j
  /\ \A i \in 1 .. Len(s) : lock[s[i]] = p

Distinct(s) == \A i, j \in 1 .. Len(s) : s[i] = s[j] => i = j
Disjoint(s, t) == \A i \in 1 .. Len(s) : \A j \in 1 .. Len(t) : s[i] # t[j]

Mixes(u, s, t) == \A i \in 1 .. Len(u) : \/ \E j \in 1 .. Len(s) : u[i] = s[j]
                                       \/ \E j \in 1 .. Len(t) : u[i] = t[j]

LEMMA HoldsConcat ==
  ASSUME NEW S, NEW s \in Seq(S), NEW t \in Seq(S), s # <<>>,
         Distinct(s), Distinct(t), Disjoint(s, t)
  PROVE  /\ Len(s \o t) # 0 /\ Distinct(s \o t)
         /\ Mixes(s \o t, s, t)
<1>1. Len(s) \in Nat \ {0} /\ Len(t) \in Nat /\ Len(s \o t) = Len(s) + Len(t)
  BY EmptySeq, LenProperties, ConcatProperties
<1>2. Distinct(s \o t)
  <2> SUFFICES ASSUME NEW i \in 1 .. Len(s \o t), NEW j \in 1 .. Len(s \o t),
                      (s \o t)[i] = (s \o t)[j]
               PROVE  i = j
    BY DEF Distinct
  <2>1. \/ i \in 1 .. Len(s) /\ (s \o t)[i] = s[i]
        \/ i - Len(s) \in 1 .. Len(t) /\ (s \o t)[i] = t[i - Len(s)]
    BY ConcatElements
  <2>2. \/ j \in 1 .. Len(s) /\ (s \o t)[j] = s[j]
        \/ j - Len(s) \in 1 .. Len(t) /\ (s \o t)[j] = t[j - Len(s)]
    BY ConcatElements
  <2> QED
    BY <1>1, <2>1, <2>2 DEF Distinct, Disjoint
<1>3. ASSUME NEW i \in 1 .. Len(s \o t)
      PROVE  \/ \E j \in 1 .. Len(s) : (s \o t)[i] = s[j]
             \/ \E j \in 1 .. Len(t) : (s \o t)[i] = t[j]
  BY ConcatElements
<1> QED
  BY <1>1, <1>2, <1>3 DEF Mixes

\* Only Unlock gives locks away.
LEMMA LocksKept ==
  ASSUME TreeInv, NEW p \in Procs, Call(p) \/ TreeStep(p), ~Unlock(p), NEW n \in Nodes, lock[n] = p
  PROVE  lock'[n] = p
<1>1. lock \in [Nodes -> Procs \cup {NoProc}]
  BY DEF TreeInv, TreeFormInv
<1>2. CASE QuietNodes(p)
  BY <1>2, QuietNodesKept
<1>3. CASE LockPrev(p) \/ LockCurr(p) \/ LockSucc(p)
  BY <1>1, <1>3 DEF LockPrev, LockCurr, LockSucc, AcquireLock
<1>4. CASE BeginInsert(p) \/ BeginMove(p)
  BY <1>1, <1>4 DEF BeginInsert, BeginMove, NewNode
<1>5. CASE BeginErase(p) \/ LinWrite(p) \/ UnlinkSucc(p) \/ RaiseTag(p)
  BY <1>5 DEF BeginErase, LinWrite, UnlinkSucc, RaiseTag
<1> QED
  BY <1>2, <1>3, <1>4, <1>5, StepKinds

\* The steps of an update that change neither its locks nor its variables.
LEMMA WriteSteps ==
  ASSUME TreeInv, NEW p \in Procs,
         PrepareAndLabel(p) \/ LinWrite(p) \/ FinalizeBundles(p)
           \/ Synchronize(p) \/ UnlinkSucc(p) \/ RaiseTag(p)
  PROVE  tpc[p] \in WriteTPCs /\ tpc'[p] \in WriteTPCs /\ my'[p] = my[p] /\ op'[p] = op[p] /\ lock' = lock
<1>1. my'[p] = my[p] /\ op'[p] = op[p] /\ lock' = lock
  BY GoneTo
  DEF PrepareAndLabel, LinWrite, FinalizeBundles, Synchronize, UnlinkSucc, RaiseTag, nodeVars
<1>2. tpc[p] \in WriteTPCs
  BY DEF PrepareAndLabel, LinWrite, FinalizeBundles, Synchronize, UnlinkSucc, RaiseTag, WriteTPCs,
         UnlinkTPCs
<1>3. tpc'[p] \in WriteTPCs
  BY <1>2, GoneTo
  DEF PrepareAndLabel, LinWrite, FinalizeBundles, Synchronize, UnlinkSucc, RaiseTag, WriteTPCs,
      UnlinkTPCs
<1> QED
  BY <1>1, <1>2, <1>3

LEMMA OwnLocks ==
  ASSUME SInv, TreeInv, NEW p \in Procs, StepOf(p), Call(p) \/ TreeStep(p)
  PROVE  TreeLockInv(p)'
<1> USE GoneTo
<1>1. /\ TreePlaceInv(p) /\ TreeOpInv(p) /\ TreeLockInv(p) /\ alloc \subseteq Nodes
      /\ lock \in [Nodes -> Procs \cup {NoProc}] /\ NoProc # p
  BY Stands, TreeBasics DEF TreeLocalInv, TreeInv, TreeFormInv
<1>2. my[p].prev \in alloc /\ my[p].curr \in alloc \cup {Null} /\ my[p].held \in Seq(Nodes)
  BY Stands DEF Local
<1>3. ASSUME tpc'[p] \notin LockedTPCs PROVE TreeLockInv(p)'
  BY <1>3 DEF TreeLockInv, LockedTPCs, PrevTPCs, SuccTPCs
<1>4. ASSUME tpc'[p] \in {"retry"} \cup WriteTPCs, Holds(p, my[p].held)' PROVE TreeLockInv(p)'
  BY <1>4 DEF TreeLockInv, Holds, PrevTPCs, SuccTPCs, WriteTPCs, UnlinkTPCs
<1>5. ~Unlock(p) => \A n \in Nodes : lock[n] = p => lock'[n] = p
  BY LocksKept
<1>6. ASSUME NEW r, ReturnKeys(p, r) PROVE TreeLockInv(p)'
  <2>1. tpc'[p] = "idle"
    BY <1>6, Returned
  <2> QED
    BY <1>3, <2>1 DEF LockedTPCs, PrevTPCs, SuccTPCs, WriteTPCs, UnlinkTPCs
<1>7. CASE Call(p) \/ Begin(p) \/ FollowNewest(p) \/ StartQuery(p) \/ EnterSnapshot(p)
           \/ ReadBundle(p) \/ Descend(p) \/ EnterRange(p) \/ Collect(p) \/ ReadRight(p) \/ Push(p)
  <2>1. tpc'[p] \in {"start", "search", "follow", "enter", "range", "descend", "collect", "left", "right"}
    BY <1>7
    DEF Call, Begin, FollowNewest, StartQuery, EnterSnapshot, ReadBundle, Descend, EnterRange, Collect,
        ReadRight, Push, HasRead
  <2> QED
    BY <1>3, <2>1 DEF LockedTPCs, PrevTPCs, SuccTPCs, WriteTPCs, UnlinkTPCs
<1>8. CASE Search(p)
  <2>1. op[p].type \in OpTypes
    BY <1>8, CurrOp DEF Search
  <2>2. tpc'[p] = op[p].type \/ tpc'[p] = "search"
    BY <1>8 DEF Search
  <2> QED
    BY <1>3, <2>1, <2>2 DEF OpTypes, LockedTPCs, PrevTPCs, SuccTPCs, WriteTPCs, UnlinkTPCs
<1>9. CASE EndSearch(p) \/ EndContains(p) \/ EndQuery(p)
  <2>1. CASE tpc'[p] = "lockPrev"
    BY <1>3, <2>1 DEF LockedTPCs, PrevTPCs, SuccTPCs, WriteTPCs, UnlinkTPCs
  <2> QED
    BY <1>6, <1>9, <2>1 DEF EndSearch, EndContains, EndQuery
<1>10. CASE LockPrev(p)
  <2>1. /\ (tpc'[p] = "validate" /\ op[p].type = "insert") \/ tpc'[p] = "lockCurr"
        /\ my'[p] = my[p] /\ op'[p] = op[p] /\ lock'[my[p].prev] = p
    BY <1>1, <1>2, <1>10 DEF LockPrev, AcquireLock
  <2> QED
    BY <2>1 DEF TreeLockInv, PrevTPCs, SuccTPCs, WriteTPCs, UnlinkTPCs
<1>11. CASE LockCurr(p)
  <2>1. /\ tpc[p] = "lockCurr" /\ tpc'[p] = "validate" /\ my'[p] = my[p] /\ op'[p] = op[p]
        /\ lock[my[p].curr] = NoProc /\ lock' = [lock EXCEPT ![my[p].curr] = p]
    BY <1>11 DEF LockCurr, AcquireLock
  <2>2. op[p].type = "erase" /\ my[p].curr # Null
    BY <1>1, <2>1 DEF TreeOpInv, TreePlaceInv, PrevTPCs
  <2>3. lock[my[p].prev] = p
    BY <1>1, <2>1 DEF TreeLockInv, PrevTPCs
  <2>4. lock'[my[p].prev] = p /\ lock'[my[p].curr] = p /\ my[p].prev # my[p].curr
    BY <1>1, <1>2, <2>1, <2>2, <2>3
  <2> QED
    BY <2>1, <2>4 DEF TreeLockInv, PrevTPCs, SuccTPCs, WriteTPCs, UnlinkTPCs
<1>12. CASE Invalid(p)
  <2>1. tpc[p] = "validate" /\ tpc'[p] = "retry" /\ lock' = lock
    BY <1>12 DEF Invalid, nodeVars
  <2>2. lock[my[p].prev] = p
    BY <1>1, <2>1 DEF TreeLockInv, PrevTPCs
  <2>3. op[p].type # "insert" => lock[my[p].curr] = p /\ my[p].curr # my[p].prev /\ my[p].curr \in alloc
    BY <1>1, <1>2, <2>1 DEF TreeLockInv, TreeOpInv, TreePlaceInv, PrevTPCs
  <2>4. PICK s : /\ s = (IF op[p].type = "insert" THEN <<my[p].prev>> ELSE <<my[p].prev, my[p].curr>>)
                 /\ SetsHeld(p, s)
    BY <1>12 DEF Invalid, SetsHeld
  <2>5. my'[p].held = s
    BY <2>4, HeldSet
  <2>6. CASE op[p].type = "insert"
    <3>1. Len(s) = 1 /\ s[1] = my[p].prev
      BY <2>4, <2>6
    <3> QED
      BY <1>4, <2>1, <2>2, <2>5, <3>1 DEF Holds
  <2>7. CASE op[p].type # "insert"
    <3>1. Len(s) = 2 /\ s[1] = my[p].prev /\ s[2] = my[p].curr
      BY <2>4, <2>7
    <3> QED
      BY <1>4, <2>1, <2>2, <2>3, <2>5, <2>7, <3>1 DEF Holds
  <2> QED
    BY <2>6, <2>7
<1>13. CASE BeginInsert(p)
  <2>1. /\ tpc[p] = "validate" /\ tpc'[p] = "label"
    BY <1>13 DEF BeginInsert, Valid
  <2>2. lock[my[p].prev] = p
    BY <1>1, <2>1 DEF TreeLockInv, PrevTPCs
  <2>3. PICK n \in Nodes : /\ NewNode(p, n, op[p].lo, <<Null, Null>>)
                           /\ my' = [my EXCEPT ![p].node = n, ![p].held = <<n, my[p].prev>>]
    BY <1>13 DEF BeginInsert
  <2>4. n \notin alloc /\ lock' = [lock EXCEPT ![n] = p]
    BY <2>3 DEF NewNode
  <2>5. PICK s : s = <<n, my[p].prev>> /\ SetsNode(p, n, s)
    BY <2>3 DEF SetsNode
  <2>6. my'[p].held = s
    BY <2>5, NodeSet
  <2>7. Len(s) = 2 /\ s[1] = n /\ s[2] = my[p].prev
    BY <2>5
  <2>8. lock'[n] = p /\ lock'[my[p].prev] = p /\ n # my[p].prev
    BY <1>1, <1>2, <2>2, <2>4
  <2> QED
    BY <1>4, <2>1, <2>6, <2>7, <2>8 DEF Holds, WriteTPCs
<1>14. CASE BeginErase(p)
  <2>1. tpc[p] = "validate" /\ op[p].type = "erase" /\ tpc'[p] = "label" /\ lock' = lock
    BY <1>14 DEF BeginErase, Valid
  <2>2. lock[my[p].prev] = p /\ lock[my[p].curr] = p /\ my[p].curr # my[p].prev
    BY <1>1, <2>1 DEF TreeLockInv, PrevTPCs
  <2>3. PICK c, s : SetsNode(p, c, s) /\ s = <<my[p].prev, my[p].curr>>
    BY <1>14 DEF BeginErase, SetsNode
  <2>4. my'[p].held = s
    BY <2>3, NodeSet
  <2>5. Len(s) = 2 /\ s[1] = my[p].prev /\ s[2] = my[p].curr
    BY <2>3
  <2> QED
    BY <1>4, <2>1, <2>2, <2>4, <2>5 DEF Holds, WriteTPCs
<1>15. CASE FindSucc(p)
  <2>1. tpc[p] = "validate" /\ op[p].type = "erase" /\ tpc'[p] = "succ" /\ lock' = lock
    BY <1>15 DEF FindSucc, Valid, nodeVars
  <2>2. lock[my[p].prev] = p /\ lock[my[p].curr] = p /\ my[p].curr # my[p].prev
    BY <1>1, <2>1 DEF TreeLockInv, PrevTPCs
  <2>3. PICK a, b : SetsSucc(p, a, b)
    BY <1>15 DEF FindSucc, SetsSucc
  <2>4. SameSearch(my'[p], my[p])
    BY <2>3, SuccSet
  <2> QED
    BY <2>1, <2>2, <2>4 DEF SameSearch, TreeLockInv, PrevTPCs, SuccTPCs, WriteTPCs, UnlinkTPCs
<1>16. CASE NextSucc(p)
  <2>1. tpc[p] = "succ" /\ lock' = lock
    BY <1>16 DEF NextSucc, nodeVars
  <2>2. lock[my[p].prev] = p /\ lock[my[p].curr] = p /\ my[p].curr # my[p].prev
    BY <1>1, <2>1 DEF TreeLockInv, SuccTPCs
  <2>3. CASE UNCHANGED my /\ tpc'[p] = IF Adjacent(p) THEN "lockSucc" ELSE "lockPrevSucc"
    <3>1. my'[p] = my[p] /\ (tpc'[p] = "lockPrevSucc" \/ (tpc'[p] = "lockSucc" /\ Adjacent(p)))
      BY <2>3
    <3> QED
      BY <2>1, <2>2, <3>1 DEF TreeLockInv, Adjacent, PrevTPCs, SuccTPCs, WriteTPCs, UnlinkTPCs
  <2>4. CASE tpc'[p] = "succ" /\ \E a, b : SetsSucc(p, a, b)
    <3>1. SameSearch(my'[p], my[p])
      BY <2>4, SuccSet
    <3> QED
      BY <2>1, <2>2, <2>4, <3>1 DEF SameSearch, TreeLockInv, PrevTPCs, SuccTPCs, WriteTPCs, UnlinkTPCs
  <2> QED
    BY <1>16, <2>1, <2>3, <2>4 DEF NextSucc, SetsSucc
<1>17. CASE LockSucc(p)
  <2>1. /\ tpc[p] \in SuccTPCs /\ my'[p] = my[p]
        /\ \/ tpc[p] = "lockPrevSucc" /\ AcquireLock(p, my[p].prevSucc) /\ tpc'[p] = "lockSucc"
           \/ tpc[p] = "lockSucc" /\ AcquireLock(p, my[p].succ) /\ tpc'[p] = "validateSucc"
    BY <1>17 DEF LockSucc, SuccTPCs
  <2>2. lock[my[p].prev] = p /\ lock[my[p].curr] = p /\ my[p].curr # my[p].prev
    BY <1>1, <2>1 DEF TreeLockInv
  <2>3. my[p].curr \in alloc /\ my[p].prevSucc \in alloc /\ my[p].succ \in alloc
    BY <1>1, <2>1, Stands DEF TreePlaceInv
  <2>4. lock'[my[p].prev] = p /\ lock'[my[p].curr] = p
    BY <1>1, <1>2, <2>1, <2>2, <2>3 DEF AcquireLock
  <2>5. CASE tpc'[p] = "lockSucc"
    <3>1. lock[my[p].prevSucc] = NoProc /\ lock'[my[p].prevSucc] = p
      BY <1>1, <2>1, <2>3, <2>5 DEF AcquireLock
    <3>2. my[p].prevSucc \notin {my[p].prev, my[p].curr}
      BY <1>1, <2>2, <3>1
    <3> QED
      BY <2>1, <2>2, <2>4, <2>5, <3>1, <3>2
      DEF TreeLockInv, Adjacent, PrevTPCs, SuccTPCs, WriteTPCs, UnlinkTPCs
  <2>6. CASE tpc'[p] = "validateSucc"
    <3>1. lock[my[p].succ] = NoProc /\ lock'[my[p].succ] = p /\ lock' = [lock EXCEPT ![my[p].succ] = p]
      BY <1>1, <2>1, <2>3, <2>6 DEF AcquireLock
    <3>2. ~Adjacent(p) => lock[my[p].prevSucc] = p /\ my[p].prevSucc \notin {my[p].prev, my[p].curr}
      BY <1>1, <2>1, <2>6 DEF TreeLockInv
    <3>3. Adjacent(p) => my[p].prevSucc = my[p].curr
      BY DEF Adjacent
    <3>4. lock[my[p].prevSucc] = p
      BY <2>2, <3>2, <3>3
    <3>5. my[p].succ \notin {my[p].prev, my[p].curr, my[p].prevSucc} /\ lock'[my[p].prevSucc] = p
      BY <1>1, <2>2, <2>3, <3>1, <3>4
    <3> QED
      BY <2>1, <2>2, <2>4, <2>6, <3>1, <3>2, <3>5
      DEF TreeLockInv, Adjacent, PrevTPCs, SuccTPCs, WriteTPCs, UnlinkTPCs
  <2> QED
    BY <2>1, <2>5, <2>6
<1>18. CASE InvalidSucc(p)
  <2>1. /\ tpc[p] = "validateSucc" /\ tpc'[p] = "retry" /\ lock' = lock
    BY <1>18 DEF InvalidSucc, nodeVars
  <2>2. PICK s, t : /\ s = <<my[p].prev, my[p].curr>> /\ t = SuccLocks(p)
                    /\ SetsHeld(p, s \o t)
    BY <1>18 DEF InvalidSucc, SetsHeld
  <2>3. /\ my[p].curr \in Nodes /\ my[p].prev \in Nodes
        /\ my[p].prev # my[p].curr /\ my[p].succ \notin {my[p].prev, my[p].curr, my[p].prevSucc}
        /\ ~Adjacent(p) => my[p].prevSucc \notin {my[p].prev, my[p].curr}
        /\ lock[my[p].prev] = p /\ lock[my[p].curr] = p /\ lock[my[p].succ] = p
        /\ ~Adjacent(p) => lock[my[p].prevSucc] = p
    BY <2>1, AllLocked, Stands
  <2>4. /\ s \in Seq(Nodes) /\ Len(s) = 2 /\ s[1] = my[p].prev /\ s[2] = my[p].curr
    BY <2>2, <2>3, ShortSeqs
  <2>5. /\ t \in Seq(Nodes)
        /\ \/ Adjacent(p) /\ Len(t) = 1 /\ t[1] = my[p].succ
           \/ ~Adjacent(p) /\ Len(t) = 2 /\ t[1] = my[p].prevSucc /\ t[2] = my[p].succ
    <3>1. /\ t \in Seq(Nodes) /\ (Adjacent(p) => t = <<my[p].succ>>)
          /\ ~Adjacent(p) => t = <<my[p].prevSucc, my[p].succ>>
      BY <2>1, <2>2, AllLocked, SuccLocksShape
    <3> QED
      BY <3>1
  <2>6. /\ s # <<>>
        /\ Distinct(s) /\ Distinct(t) /\ Disjoint(s, t)
        /\ \A i \in 1 .. Len(s) : lock[s[i]] = p
        /\ \A i \in 1 .. Len(t) : lock[t[i]] = p
    BY <2>3, <2>4, <2>5 DEF Distinct, Disjoint
  <2>7. my'[p].held = s \o t
    BY <2>2, HeldSet
  <2>8. /\ Len(s \o t) # 0 /\ Distinct(s \o t)
        /\ Mixes(s \o t, s, t)
    BY <2>4, <2>5, <2>6, HoldsConcat
  <2>9. \A i \in 1 .. Len(s \o t) : lock'[(s \o t)[i]] = p
    BY <2>1, <2>6, <2>8 DEF Mixes
  <2> QED
    BY <1>4, <2>1, <2>7, <2>8, <2>9 DEF Holds, Distinct
<1>19. CASE BeginMove(p)
  <2>1. /\ tpc[p] = "validateSucc" /\ tpc'[p] = "label"
    BY <1>19 DEF BeginMove
  <2>2. PICK m, k, c :
             /\ m \in Nodes /\ NewNode(p, m, k, c)
             /\ my' = [my EXCEPT ![p].node = m,
                                 ![p].held = <<my[p].prev, m, my[p].curr>> \o SuccLocks(p)]
    BY <1>19 DEF BeginMove
  <2>3. m \notin alloc /\ lock' = [lock EXCEPT ![m] = p]
    BY <2>2 DEF NewNode
  <2>4. PICK s, t : /\ s = <<my[p].prev, m, my[p].curr>> /\ t = SuccLocks(p)
                    /\ SetsNode(p, m, s \o t)
    BY <2>2 DEF SetsNode
  <2>5. /\ my[p].curr \in alloc /\ my[p].prev \in alloc /\ my[p].prevSucc \in alloc /\ my[p].succ \in alloc
        /\ my[p].prev # my[p].curr /\ my[p].succ \notin {my[p].prev, my[p].curr, my[p].prevSucc}
        /\ ~Adjacent(p) => my[p].prevSucc \notin {my[p].prev, my[p].curr}
        /\ lock[my[p].prev] = p /\ lock[my[p].curr] = p /\ lock[my[p].succ] = p
        /\ ~Adjacent(p) => lock[my[p].prevSucc] = p
    BY <2>1, AllLocked, Stands
  <2>6. /\ lock'[my[p].prev] = p /\ lock'[my[p].curr] = p /\ lock'[my[p].succ] = p /\ lock'[m] = p
        /\ ~Adjacent(p) => lock'[my[p].prevSucc] = p
        /\ m \notin {my[p].prev, my[p].curr, my[p].prevSucc, my[p].succ}
    BY <1>1, <2>2, <2>3, <2>5
  <2>7. /\ s \in Seq(Nodes) /\ Len(s) = 3 /\ s[1] = my[p].prev /\ s[2] = m /\ s[3] = my[p].curr
    <3>1. my[p].prev \in Nodes /\ my[p].curr \in Nodes
      BY <1>1, <2>5
    <3> QED
      BY <2>2, <2>4, <3>1, ShortSeqs
  <2>8. /\ t \in Seq(Nodes)
        /\ \/ Adjacent(p) /\ Len(t) = 1 /\ t[1] = my[p].succ
           \/ ~Adjacent(p) /\ Len(t) = 2 /\ t[1] = my[p].prevSucc /\ t[2] = my[p].succ
    <3>1. /\ t \in Seq(Nodes) /\ (Adjacent(p) => t = <<my[p].succ>>)
          /\ ~Adjacent(p) => t = <<my[p].prevSucc, my[p].succ>>
      BY <2>1, <2>4, AllLocked, SuccLocksShape
    <3> QED
      BY <3>1
  <2>9. /\ s # <<>>
        /\ Distinct(s) /\ Distinct(t) /\ Disjoint(s, t)
        /\ \A i \in 1 .. Len(s) : lock'[s[i]] = p
        /\ \A i \in 1 .. Len(t) : lock'[t[i]] = p
    BY <2>5, <2>6, <2>7, <2>8 DEF Distinct, Disjoint
  <2>10. my'[p].held = s \o t
    BY <2>4, NodeSet
  <2>11. /\ Len(s \o t) # 0 /\ Distinct(s \o t)
         /\ Mixes(s \o t, s, t)
    BY <2>7, <2>8, <2>9, HoldsConcat
  <2>12. \A i \in 1 .. Len(s \o t) : lock'[(s \o t)[i]] = p
    BY <2>9, <2>11 DEF Mixes
  <2> QED
    BY <1>4, <2>1, <2>10, <2>11, <2>12 DEF Holds, Distinct, WriteTPCs
<1>20. CASE PrepareAndLabel(p) \/ LinWrite(p) \/ FinalizeBundles(p)
            \/ Synchronize(p) \/ UnlinkSucc(p) \/ RaiseTag(p)
  <2>1. tpc[p] \in WriteTPCs /\ tpc'[p] \in WriteTPCs /\ my'[p] = my[p] /\ lock' = lock
    BY <1>20, WriteSteps
  <2>2. Holds(p, my[p].held)
    BY <1>1, <2>1 DEF TreeLockInv, Holds
  <2> QED
    BY <1>4, <2>1, <2>2 DEF Holds
<1>21. CASE Unlock(p)
  <2>1. /\ tpc[p] \in {"unlock", "retry"}
        /\ lock' = [lock EXCEPT ![Head(my[p].held)] = NoProc]
    BY <1>21 DEF Unlock
  <2>2. CASE tpc'[p] = "start"
    BY <1>3, <2>2 DEF LockedTPCs, PrevTPCs, SuccTPCs, WriteTPCs, UnlinkTPCs
  <2>3. CASE my' = [my EXCEPT ![p].held = Tail(my[p].held)] /\ tpc'[p] = tpc[p] /\ Len(my[p].held) # 1
    <3>1. my'[p].held = Tail(my[p].held)
      BY <2>3, HeldSet DEF SetsHeld
    <3>2. Holds(p, my[p].held) /\ my[p].held # <<>>
      BY <1>1, <2>1 DEF TreeLockInv, Holds, WriteTPCs
    <3>3. PICK s \in Seq(Nodes) : s = my[p].held /\ s # <<>>
      BY <1>2, <3>2
    <3>4. /\ Len(s) \in Nat \ {0} /\ Head(s) = s[1] /\ Head(s) \in Nodes /\ Len(Tail(s)) = Len(s) - 1
          /\ \A i \in 1 .. Len(Tail(s)) : i + 1 \in 1 .. Len(s) /\ Tail(s)[i] = s[i + 1]
      BY <3>3, TailElements
    <3>5. /\ \A i, j \in 1 .. Len(s) : s[i] = s[j] => i = j
          /\ \A i \in 1 .. Len(s) : lock[s[i]] = p
      BY <3>2, <3>3 DEF Holds
    <3>6. \A i \in 1 .. Len(Tail(s)) : lock'[Tail(s)[i]] = p
      <4> TAKE i \in 1 .. Len(Tail(s))
      <4>1. i + 1 \in 1 .. Len(s) /\ Tail(s)[i] = s[i + 1] /\ i + 1 # 1 /\ 1 \in 1 .. Len(s)
        BY <3>4
      <4>2. s[i + 1] # Head(s) /\ lock[s[i + 1]] = p /\ s[i + 1] \in Nodes
        BY <3>3, <3>4, <3>5, <4>1, ElementOfSeq
      <4> QED
        BY <1>1, <2>1, <3>3, <4>1, <4>2
    <3>7. \A i, j \in 1 .. Len(Tail(s)) : Tail(s)[i] = Tail(s)[j] => i = j
      BY <3>4, <3>5
    <3>8. Len(Tail(s)) # 0
      BY <2>3, <3>3, <3>4
    <3>9. my'[p].held = Tail(s)
      BY <3>1, <3>3
    <3>10. PICK u : u = Tail(s)
      OBVIOUS
    <3>11. Holds(p, my[p].held)'
      BY <3>6, <3>7, <3>8, <3>9, <3>10 DEF Holds
    <3> QED
      BY <1>4, <2>1, <2>3, <3>11 DEF WriteTPCs
  <2> QED
    BY <1>6, <1>21, <2>2, <2>3 DEF Unlock
<1> QED
  BY <1>7, <1>8, <1>9, <1>10, <1>11, <1>12, <1>13, <1>14, <1>15, <1>16, <1>17, <1>18, <1>19, <1>20,
     <1>21 DEF TreeStep

-----------------------------------------------------------------------------
(***************************************************************************)
(* The step of a process keeps its own part of the invariant: its snapshot.*)
(***************************************************************************)

\* While a query keeps its timestamp, the links of its snapshot keep theirs.
LEMMA HasValueStays ==
  ASSUME SInv, [Next]_vars, NEW p \in Procs, pc[p] \in QueryingPCs, qts'[p] = qts[p],
         NEW b \in Bundles, HasValue(p, b)
  PROVE  HasValue(p, b)'
<1>1. PICK t \in FirstTS .. clock : t = qts[p]
  BY ReadTime
<1>2. ValueAt(b, t)' = ValueAt(b, t)
  BY ProviderStep, ValueKept
<1>3. ValueAt(b, qts[p])' = ValueAt(b, t)'
  <2>1. qts'[p] = t
    BY <1>1
  <2> QED
    BY <2>1 DEF ValueAt, VersionAt, Visible
<1>4. ValueAt(b, t) # NoPtr
  BY <1>1 DEF HasValue
<1> QED
  BY <1>2, <1>3, <1>4 DEF HasValue

\* A lookup begins at a link that has a value.
LEMMA LookupBegun ==
  ASSUME SInv, [Next]_vars, NEW p \in Procs, NEW b, BeginLookup(p, b)
  PROVE  /\ qts'[p] = qts[p] /\ at'[p] = b /\ at'[p] # NoBundle
         /\ \A c \in Bundles : c = at'[p] => HasValue(p, c)'
<1>1. /\ pc \in [Procs -> PCs] /\ at \in [Procs -> Bundles \cup {NoBundle}] /\ IInv'
      /\ NoBundle \notin Bundles
  BY ProviderStep, BundlesAssumption DEF SInv, RInv, IInv, TypeOK
<1>2. /\ pc[p] = "query" /\ pc'[p] = "first" /\ at'[p] = b /\ qts' = qts
      /\ ValueAt(b, qts[p]) # NoPtr
  BY <1>1 DEF BeginLookup
<1>3. b \in Bundles
  BY <1>1, <1>2 DEF IInv, ReaderInv, LookupPCs
<1>4. HasValue(p, b)'
  BY <1>2, <1>3, HasValueStays DEF HasValue, QueryingPCs
<1> QED
  BY <1>1, <1>2, <1>3, <1>4, Zenon

\* The steps of a query that has its timestamp.
LEMMA QuerySnapshots ==
  ASSUME SInv, TreeInv, NEW p \in Procs, StepOf(p),
         \/ EnterSnapshot(p) \/ ReadBundle(p) \/ Descend(p) \/ EnterRange(p)
         \/ Collect(p) \/ ReadRight(p) \/ Push(p)
  PROVE  TreeSnapshotInv(p)'
<1> USE GoneTo
<1>1. TreeSnapshotInv(p) /\ TreePcInv(p) /\ [Next]_vars /\ my[p].stack \in Seq(Nodes)
  BY Stands DEF TreeLocalInv, StepOf, Local
<1>2. pc[p] \in QueryingPCs
  BY <1>1
  DEF EnterSnapshot, ReadBundle, Descend, EnterRange, Collect, ReadRight, Push, HasRead, TreePcInv,
      QueryingPCs
<1>3. qts'[p] = qts[p]
  BY DEF EnterSnapshot, ReadBundle, Descend, EnterRange, Collect, ReadRight, Push, BeginLookup,
         LookupStep, CheckFirst, LoadSecond, CheckSecond, AwaitLabel, Walk, vars
<1>4. \A n \in Nodes : InSnapshot(p, n) => InSnapshot(p, n)'
  BY <1>1, <1>3, InSnapshotStays
<1>5. CASE EnterSnapshot(p)
  <2>1. /\ tpc[p] = "enter" /\ tpc'[p] = "descend" /\ my'[p] = my[p] /\ BeginLookup(p, Link(p))
    BY <1>5 DEF EnterSnapshot, HasRead
  <2>2. at'[p] # NoBundle /\ \A c \in Bundles : c = at'[p] => HasValue(p, c)'
    BY <1>1, <2>1, LookupBegun
  <2> QED
    BY <1>1, <1>4, <2>1, <2>2 DEF TreeSnapshotInv
<1>6. CASE ReadBundle(p)
  <2>1. /\ tpc[p] \in {"descend", "left", "right"} /\ tpc'[p] = tpc[p] /\ my'[p] = my[p]
        /\ at'[p] = at[p]
    BY <1>6 DEF ReadBundle, LookupStep, CheckFirst, LoadSecond, CheckSecond, AwaitLabel, Walk
  <2>2. at'[p] # NoBundle /\ \A c \in Bundles : c = at'[p] => HasValue(p, c)'
    BY <1>1, <1>2, <1>3, <2>1, HasValueStays DEF TreeSnapshotInv
  <2> QED
    BY <1>1, <1>4, <2>1, <2>2 DEF TreeSnapshotInv
<1>7. CASE Descend(p)
  <2>1. tpc[p] = "descend" /\ tpc'[p] = "descend" /\ BeginLookup(p, NextLink(p)) /\ SetsFirst(p, FALSE)
    BY <1>7 DEF Descend, HasRead, SetsFirst
  <2>2. at'[p] # NoBundle /\ \A c \in Bundles : c = at'[p] => HasValue(p, c)'
    BY <1>1, <2>1, LookupBegun
  <2>3. ~my'[p].first
    BY <2>1, FirstSet
  <2> QED
    BY <2>1, <2>2, <2>3 DEF TreeSnapshotInv
<1>8. CASE EnterRange(p)
  <2>1. tpc'[p] = "collect"
    BY <1>8 DEF EnterRange
  <2>2. out[p] \in Places /\ \A n \in Nodes : n = out[p] => InSnapshot(p, n)
    BY <1>8, ReadResult DEF EnterRange, HasRead
  <2>3. my'[p].stack \in {<<>>, <<out[p]>>}
    BY <1>8, EntrySet
  <2>4. \A i \in 1 .. Len(my'[p].stack) : \A n \in Nodes : n = my'[p].stack[i] => InSnapshot(p, n)'
    BY <1>4, <2>2, <2>3
  <2> QED
    BY <2>1, <2>4 DEF TreeSnapshotInv
<1>9. CASE Collect(p)
  <2>1. /\ tpc[p] = "collect" /\ tpc'[p] = "left" /\ my[p].stack # <<>>
        /\ BeginLookup(p, <<Head(my[p].stack), Left>>)
    BY <1>9 DEF Collect, HasRead
  <2>2. at'[p] # NoBundle /\ \A c \in Bundles : c = at'[p] => HasValue(p, c)'
    BY <1>1, <2>1, LookupBegun
  <2>3. my'[p].curr = Head(my[p].stack) /\ my'[p].stack = Tail(my[p].stack)
    BY <1>9, NodeTaken
  <2>4. /\ Head(my[p].stack) \in Nodes /\ Head(my[p].stack) = my[p].stack[1]
        /\ Len(my[p].stack) \in Nat \ {0}
        /\ \A i \in 1 .. Len(Tail(my[p].stack)) :
             i + 1 \in 1 .. Len(my[p].stack) /\ Tail(my[p].stack)[i] = my[p].stack[i + 1]
    BY <1>1, <2>1, TailElements
  <2>5. \A i \in 1 .. Len(my[p].stack) : \A n \in Nodes : n = my[p].stack[i] => InSnapshot(p, n)'
    BY <1>1, <1>4, <2>1 DEF TreeSnapshotInv
  <2>6. \A i \in 1 .. Len(my'[p].stack) : \A n \in Nodes : n = my'[p].stack[i] => InSnapshot(p, n)'
    <3> TAKE i \in 1 .. Len(my'[p].stack)
    <3>1. PICK j : j = i + 1 /\ j \in 1 .. Len(my[p].stack) /\ my'[p].stack[i] = my[p].stack[j]
      BY <2>3, <2>4
    <3> QED
      BY <2>5, <3>1
  <2>7. my'[p].curr # Null /\ \A n \in Nodes : n = my'[p].curr => InSnapshot(p, n)'
    <3>1. 1 \in 1 .. Len(my[p].stack) /\ my'[p].curr = my[p].stack[1] /\ my'[p].curr \in Nodes
      BY <2>3, <2>4
    <3> QED
      BY <2>5, <3>1, TreeBasics
  <2> QED
    BY <2>1, <2>2, <2>6, <2>7 DEF TreeSnapshotInv
<1>10. CASE ReadRight(p)
  <2>1. /\ tpc[p] = "left" /\ tpc'[p] = "right" /\ SetsLeft(p, out[p])
        /\ BeginLookup(p, <<my[p].curr, Right>>)
    BY <1>10 DEF ReadRight, HasRead, SetsLeft
  <2>2. at'[p] # NoBundle /\ \A c \in Bundles : c = at'[p] => HasValue(p, c)'
    BY <1>1, <2>1, LookupBegun
  <2>3. my'[p].left = out[p] /\ my'[p].stack = my[p].stack /\ my'[p].curr = my[p].curr
    BY <2>1, LeftSet DEF SameSearch
  <2>4. \A n \in Nodes : n = out[p] => InSnapshot(p, n)
    BY <1>10, ReadResult DEF ReadRight, HasRead
  <2> QED
    BY <1>1, <1>4, <2>1, <2>2, <2>3, <2>4 DEF TreeSnapshotInv
<1>11. CASE Push(p)
  <2>1. tpc[p] = "right" /\ tpc'[p] = "collect"
    BY <1>11 DEF Push, HasRead
  <2> DEFINE S == {n \in Nodes : InSnapshot(p, n)}
  <2>2. out[p] \in S \cup {Null}
    BY <1>11, ReadResult DEF Push, HasRead, Places
  <2>3. my[p].left \in S \cup {Null}
    BY <1>1, <2>1, Stands DEF TreeSnapshotInv, Local, Places
  <2>4. my[p].stack \in Seq(S)
    <3>1. \A i \in 1 .. Len(my[p].stack) : my[p].stack[i] \in S
      BY <1>1, <2>1, ElementOfSeq DEF TreeSnapshotInv
    <3> HIDE DEF S
    <3> QED
      BY <1>1, <3>1, SeqOfElements
  <2>5. my'[p].stack \in Seq(S)
    <3> HIDE DEF S
    <3> QED
      BY <1>11, <2>2, <2>3, <2>4, PushedFrom
  <2>6. \A i \in 1 .. Len(my'[p].stack) : my'[p].stack[i] \in S
    BY <2>5, ElementOfSeq
  <2>7. \A i \in 1 .. Len(my'[p].stack) : \A n \in Nodes : n = my'[p].stack[i] => InSnapshot(p, n)'
    BY <1>4, <2>6
  <2> QED
    BY <2>1, <2>7 DEF TreeSnapshotInv
<1> QED
  BY <1>5, <1>6, <1>7, <1>8, <1>9, <1>10, <1>11

LEMMA OwnSnapshots ==
  ASSUME SInv, TreeInv, NEW p \in Procs, StepOf(p), Call(p) \/ TreeStep(p)
  PROVE  TreeSnapshotInv(p)'
<1> USE GoneTo
<1>1. TreeSnapshotInv(p) /\ TreePcInv(p) /\ [Next]_vars /\ pc \in [Procs -> PCs]
  BY Stands DEF TreeLocalInv, StepOf, SInv, RInv, IInv, TypeOK
<1>2. ASSUME tpc'[p] \notin SnapshotTPCs, tpc'[p] = "range" => pc'[p] \notin {"announce", "clear"}
      PROVE  TreeSnapshotInv(p)'
  BY <1>2 DEF TreeSnapshotInv, SnapshotTPCs
<1>3. ASSUME NEW r, ReturnKeys(p, r) PROVE TreeSnapshotInv(p)'
  <2>1. tpc'[p] = "idle"
    BY <1>3, Returned
  <2> QED
    BY <1>2, <2>1 DEF SnapshotTPCs
<1>4. CASE Call(p) \/ Begin(p) \/ FollowNewest(p)
  <2>1. tpc'[p] \in {"start", "search", "follow"}
    BY <1>4 DEF Call, Begin, FollowNewest
  <2> QED
    BY <1>2, <2>1 DEF SnapshotTPCs
<1>5. CASE Search(p)
  <2>1. op[p].type \in OpTypes
    BY <1>5, CurrOp DEF Search
  <2>2. tpc'[p] = op[p].type \/ tpc'[p] = "search"
    BY <1>5 DEF Search
  <2>3. pc'[p] = "idle"
    BY <1>1, <1>5 DEF Search, TreePcInv, vars, WriteTPCs, UnlinkTPCs, SnapshotTPCs
  <2> QED
    BY <1>2, <2>1, <2>2, <2>3 DEF OpTypes, SnapshotTPCs
<1>6. CASE EndSearch(p) \/ EndContains(p) \/ EndQuery(p)
  <2>1. CASE tpc'[p] = "lockPrev"
    BY <1>2, <2>1 DEF SnapshotTPCs
  <2> QED
    BY <1>3, <1>6, <2>1 DEF EndSearch, EndContains, EndQuery
<1>7. CASE LockPrev(p) \/ LockCurr(p) \/ Invalid(p) \/ BeginInsert(p) \/ BeginErase(p)
           \/ FindSucc(p) \/ NextSucc(p) \/ LockSucc(p) \/ InvalidSucc(p) \/ BeginMove(p)
  <2>1. tpc'[p] \in {"validate", "lockCurr", "retry", "label", "succ", "lockPrevSucc", "lockSucc",
                     "validateSucc"}
    BY <1>7
    DEF LockPrev, LockCurr, Invalid, BeginInsert, BeginErase, FindSucc, NextSucc, LockSucc,
        InvalidSucc, BeginMove
  <2> QED
    BY <1>2, <2>1 DEF SnapshotTPCs
<1>8. CASE PrepareAndLabel(p) \/ LinWrite(p) \/ FinalizeBundles(p)
           \/ Synchronize(p) \/ UnlinkSucc(p) \/ RaiseTag(p)
  <2>1. tpc'[p] \in WriteTPCs
    BY <1>8, WriteSteps
  <2> QED
    BY <1>2, <2>1 DEF SnapshotTPCs, WriteTPCs, UnlinkTPCs
<1>9. CASE Unlock(p)
  <2>1. CASE tpc'[p] = "start" \/ (tpc[p] \in {"unlock", "retry"} /\ tpc'[p] = tpc[p])
    BY <1>2, <2>1 DEF SnapshotTPCs
  <2> QED
    BY <1>3, <1>9, <2>1 DEF Unlock
<1>10. CASE StartQuery(p)
  <2>1. /\ tpc[p] = "range" /\ my'[p] = my[p]
        /\ tpc'[p] = (IF pc[p] = "clear" THEN "enter" ELSE "range")
    BY <1>10 DEF StartQuery
  <2>2. my[p].prev \in Nodes /\ InTree(my[p].prev)
    BY Stands DEF TreeLocalInv, TreePlaceInv
  <2>3. PICK n \in Nodes : n = my[p].prev
    BY <2>2
  <2>4. ASSUME InSnapshot(p, n)', tpc'[p] \in {"range", "enter"} PROVE TreeSnapshotInv(p)'
    BY <2>1, <2>3, <2>4 DEF TreeSnapshotInv
  <2>5. CASE StartTraversal(p)
    <3>1. pc'[p] = "clock" /\ tpc'[p] = "range"
      BY <1>1, <2>1, <2>5 DEF StartTraversal
    <3> QED
      BY <1>2, <3>1 DEF SnapshotTPCs
  <2>6. CASE ReadClock(p)
    <3>1. clock' = clock /\ qts'[p] = clock
      BY <2>6 DEF ReadClock, SInv, RInv, IInv, TypeOK
    <3>2. InTree(n)'
      BY <1>1, <2>2, <2>3, InTreeStays
    <3>3. InSnapshot(p, n)'
      BY <3>1, <3>2 DEF InTree, InSnapshot, BornAt
    <3> QED
      BY <2>1, <2>4, <3>3
  <2>7. CASE Announce(p) \/ ClearFlag(p)
    <3>1. qts'[p] = qts[p] /\ pc[p] \in {"announce", "clear"}
      BY <2>7 DEF Announce, ClearFlag
    <3>2. InSnapshot(p, n)
      BY <1>1, <2>1, <2>3, <3>1 DEF TreeSnapshotInv
    <3>3. InSnapshot(p, n)'
      BY <1>1, <3>1, <3>2, InSnapshotStays
    <3> QED
      BY <2>1, <2>4, <3>3
  <2> QED
    BY <1>10, <2>5, <2>6, <2>7 DEF StartQuery, AnnounceStep
<1>11. CASE EnterSnapshot(p) \/ ReadBundle(p) \/ Descend(p) \/ EnterRange(p)
            \/ Collect(p) \/ ReadRight(p) \/ Push(p)
  BY <1>11, QuerySnapshots
<1> QED
  BY <1>4, <1>5, <1>6, <1>7, <1>8, <1>9, <1>10, <1>11 DEF TreeStep

-----------------------------------------------------------------------------
(***************************************************************************)
(* The step of a process keeps its own part of the invariant: its writes.  *)
(***************************************************************************)

\* A process that is not in an update of the provider has no writes.
LEMMA NoWrites ==
  ASSUME SInv, TreeInv, NEW p \in Procs, StepOf(p), Call(p) \/ TreeStep(p),
         tpc'[p] \notin WriteTPCs \/ (tpc'[p] = "unlock" /\ pc'[p] = "idle")
  PROVE  TreeWriteInv(p)'
<1>1. TreePcInv(p)' /\ IInv'
  BY OwnPc, ProviderStep DEF StepOf
<1>2. pc'[p] \notin UpdatePCs
  BY <1>1
  DEF TreePcInv, UpdatePCs, GetPCs, AnnouncePCs, LookupPCs, WriteTPCs, SnapshotTPCs
<1>3. upd'[p] = <<>>
  BY <1>1, <1>2 DEF IInv, UInv, UpdateInv
<1>4. Len(upd'[p]) = 0
  BY <1>3
<1>5. \A k \in 1 .. Len(upd'[p]) : WriteOf(p, k)'
  BY <1>4
<1>6. tpc'[p] \notin {"label", "finalize"} \cup UnlinkTPCs
  BY DEF WriteTPCs, UnlinkTPCs
<1> QED
  BY <1>5, <1>6 DEF TreeWriteInv, Unfixed

\* When its update reads the clock, the bundles of a new node have one entry
\* each, which will get the label of the update.
LEMMA NewbornLabelled ==
  ASSUME SInv, [Next]_vars, NEW p \in Procs, LoadTS(p), NEW n \in Nodes, Newborn(p, n)
  PROVE  InUpdate(p, n)'
<1>1. /\ IInv /\ p \in Updaters /\ p # NoProc /\ ts \in [Procs -> Nat]
      /\ clock \in Nat /\ NullTS < clock
  <2>1. IInv /\ p \in Updaters /\ p # NoProc /\ FirstTS <= clock /\ clock \in Nat
    BY TreeBasics, ProviderStep
  <2> QED
    BY <2>1 DEF IInv, TypeOK, NullTS, FirstTS
<1>2. pc[p] = "load" /\ ts'[p] = clock /\ bundle' = bundle /\ owner' = owner
  BY <1>1 DEF LoadTS
<1> SUFFICES ASSUME NEW d \in Sides
             PROVE  Newest(bundle'[<<n, d>>]) # 0 /\ Label(<<n, d>>, 1)' <= ts'[p] + 1
  BY DEF InUpdate, BornAt
<1>3. PICK k \in 1 .. Len(upd[p]) : /\ upd[p][k].bundle = <<n, d>>
                                    /\ Newest(bundle[<<n, d>>]) = IF HasPrepared(p, k) THEN 1 ELSE 0
  BY DEF Newborn
<1>4. HasPrepared(p, k) /\ Awaits(p, k)
  BY <1>2 DEF HasPrepared, Awaits
<1>5. Newest(bundle[<<n, d>>]) = 1 /\ IsPending(bundle[<<n, d>>], 1)
  BY <1>1, <1>3, <1>4 DEF IInv, UInv, AwaitInv
<1>6. owner[<<n, d>>] = p
  BY <1>1, <1>3, Exclusive
<1>7. Label(<<n, d>>, 1)' = ts'[p] + 1
  <2>1. owner'[<<n, d>>] = p /\ IsPending(bundle'[<<n, d>>], 1) /\ ts'[p] # NullTS
    BY <1>1, <1>2, <1>5, <1>6 DEF NullTS
  <2> QED
    BY <1>1, <2>1 DEF Label
<1> QED
  BY <1>1, <1>2, <1>5, <1>7

\* Where p's writes lead, while p goes through its update.
LEMMA NewbornPrepared ==
  ASSUME SInv, NEW p \in Procs, Prepare(p), NEW n \in Nodes, Newborn(p, n)
  PROVE  Newborn(p, n)' /\ pc'[p] \in {"prepare", "load"}
<1>1. IInv /\ p \in Updaters /\ pc[p] = "prepare" /\ upd' = upd
  BY TreeBasics DEF SInv, RInv, Prepare
<1>2. /\ upd[p] \in Updates /\ idx[p] \in 1 .. Len(upd[p]) /\ Len(upd[p]) \in Nat
      /\ bundle[upd[p][idx[p]].bundle] \in Bundle /\ upd[p][idx[p]].ptr \in Ptrs
      /\ bundle \in [Bundles -> Bundle]
  BY <1>1, UpdateState DEF UpdatePCs, IInv, TypeOK
<1>3. /\ pc'[p] = IF idx[p] < Len(upd[p]) THEN "prepare" ELSE "load"
      /\ idx'[p] = IF idx[p] < Len(upd[p]) THEN idx[p] + 1 ELSE 1
  BY <1>1, NextBundleProps DEF Prepare, UpdatePCs
<1>4. \A k \in 1 .. Len(upd[p]) : HasPrepared(p, k)' <=> HasPrepared(p, k) \/ k = idx[p]
  BY <1>1, <1>2, <1>3 DEF HasPrepared
<1>5. ASSUME NEW d \in Sides
      PROVE  \E k \in 1 .. Len(upd[p]) :
                /\ upd[p][k].bundle = <<n, d>>
                /\ Newest(bundle'[<<n, d>>]) = IF HasPrepared(p, k)' THEN 1 ELSE 0
  <2>1. PICK k \in 1 .. Len(upd[p]) : /\ upd[p][k].bundle = <<n, d>>
                                      /\ Newest(bundle[<<n, d>>]) = IF HasPrepared(p, k) THEN 1 ELSE 0
    BY DEF Newborn
  <2>2. <<n, d>> \in Bundles
    BY TreeBasics
  <2>3. bundle' = [bundle EXCEPT ![upd[p][idx[p]].bundle] = Prepared(@, upd[p][idx[p]].ptr)]
    BY DEF Prepare
  <2>4. CASE k = idx[p]
    <3>1. ~HasPrepared(p, k)
      BY <1>1, <1>2, <2>4 DEF HasPrepared
    <3>2. bundle'[<<n, d>>] = Prepared(bundle[<<n, d>>], upd[p][k].ptr)
      BY <1>2, <2>1, <2>2, <2>3, <2>4
    <3>3. Newest(bundle'[<<n, d>>]) = Newest(bundle[<<n, d>>]) + 1
      <4>1. PICK bd \in Bundle, c \in Ptrs : bd = bundle[<<n, d>>] /\ c = upd[p][k].ptr
        BY <1>2, <2>1, <2>2, <2>4
      <4>2. Newest(Prepared(bd, c)) = Newest(bd) + 1
        BY PreparedProps
      <4> QED
        BY <3>2, <4>1, <4>2
    <3> QED
      BY <1>4, <2>1, <2>4, <3>1, <3>3
  <2>5. CASE k # idx[p]
    <3>1. upd[p][idx[p]].bundle # <<n, d>>
      BY <1>2, <2>1, <2>5, UpdateProps
    <3>2. bundle'[<<n, d>>] = bundle[<<n, d>>]
      BY <1>2, <2>2, <2>3, <3>1
    <3> QED
      BY <1>4, <2>1, <2>5, <3>2
  <2> QED
    BY <2>4, <2>5
<1> QED
  BY <1>1, <1>3, <1>5 DEF Newborn

LEMMA OwnTarget ==
  ASSUME SInv, NEW p \in Procs, [Next]_vars,
         Prepare(p) \/ LoadTS(p) \/ ReloadTS(p) \/ FetchAdd(p) \/ Finalize(p) \/ UNCHANGED vars,
         NEW n \in Nodes, Target(p, n)
  PROVE  Target(p, n)'
<1>1. pc \in [Procs -> PCs]
  BY DEF SInv, RInv, IInv, TypeOK
<1>2. CASE InTree(n)
  BY <1>2, InTreeStays DEF Target
<1>3. CASE pc[p] \in {"prepare", "load"} /\ Newborn(p, n)
  <2>1. CASE Prepare(p)
    BY <1>3, <2>1, NewbornPrepared DEF Target
  <2>2. CASE LoadTS(p)
    <3>1. pc'[p] = "reload"
      BY <1>1, <2>2 DEF LoadTS
    <3> QED
      BY <1>3, <2>2, <3>1, NewbornLabelled DEF Target
  <2>3. CASE UNCHANGED vars
    <3>1. Newborn(p, n)' /\ pc'[p] = pc[p]
      BY <1>3, <2>3 DEF Newborn, HasPrepared, vars
    <3> QED
      BY <1>3, <3>1 DEF Target
  <2> QED
    BY <1>3, <2>1, <2>2, <2>3 DEF ReloadTS, FetchAdd, Finalize
<1>4. CASE pc[p] \in {"reload", "bump", "finalize", "unlock"} /\ InUpdate(p, n)
  <2>1. ts'[p] = ts[p] /\ pc'[p] \in {"reload", "bump", "finalize", "unlock"}
    BY <1>1, <1>4
    DEF Prepare, LoadTS, ReloadTS, FetchAdd, Finalize, NextBundle, vars, updateVars
  <2>2. InUpdate(p, n)'
    BY <1>4, <2>1, InUpdateStays
  <2> QED
    BY <2>1, <2>2 DEF Target
<1> QED
  BY <1>2, <1>3, <1>4 DEF Target

-----------------------------------------------------------------------------
\* The part of WriteOf that a step of the update leaves alone.
WriteKept(p) ==
  /\ upd'[p] = upd[p] /\ my'[p] = my[p] /\ op'[p] = op[p] /\ lock' = lock /\ alloc' = alloc
  /\ \A n \in Nodes : Target(p, n) => Target(p, n)'
  /\ \A n \in Nodes : marked[n] => marked'[n]
  /\ Link(p)' = Link(p) /\ Fixed(p)' = Fixed(p) /\ (Moves(p)' <=> Moves(p))

LEMMA WritesKept ==
  ASSUME SInv, TreeInv, NEW p \in Procs, StepOf(p),
         PrepareAndLabel(p) \/ LinWrite(p) \/ FinalizeBundles(p)
           \/ Synchronize(p) \/ UnlinkSucc(p) \/ RaiseTag(p)
  PROVE  WriteKept(p)
<1>1. my'[p] = my[p] /\ op'[p] = op[p] /\ lock' = lock
  BY WriteSteps
<1>2. alloc' = alloc
  BY DEF PrepareAndLabel, LinWrite, FinalizeBundles, Synchronize, UnlinkSucc, RaiseTag, nodeVars
<1>3. Prepare(p) \/ LoadTS(p) \/ ReloadTS(p) \/ FetchAdd(p) \/ Finalize(p) \/ UNCHANGED vars
  BY DEF PrepareAndLabel, LinWrite, FinalizeBundles, Synchronize, UnlinkSucc, RaiseTag
<1>4. upd'[p] = upd[p]
  BY <1>3 DEF Prepare, LoadTS, ReloadTS, FetchAdd, Finalize, vars, updateVars
<1>5. \A n \in Nodes : Target(p, n) => Target(p, n)'
  BY <1>3, OwnTarget DEF StepOf
<1>6. \A n \in Nodes : marked[n] => marked'[n]
  BY DEF StepOf, NodeFrame
<1>7. Link(p)' = Link(p) /\ Fixed(p)' = Fixed(p) /\ (Moves(p)' <=> Moves(p))
  BY <1>1 DEF Link, Fixed, Adjacent, Moves
<1> QED
  BY <1>1, <1>2, <1>4, <1>5, <1>6, <1>7 DEF WriteKept

\* What is left to show of a write that a step of the update leaves in place.
LEMMA WriteStays ==
  ASSUME SInv, TreeInv, NEW p \in Procs, WriteKept(p), NEW k \in 1 .. Len(upd[p]),
         tpc'[p] = "label" => tpc[p] = "label",
         Unfixed(p)' => Unfixed(p) /\ child'[<<my[p].succ, Right>>] = child[<<my[p].succ, Right>>],
         LET b == upd[p][k].bundle
             c == upd[p][k].ptr
         IN  \/ tpc'[p] = "label" /\ b = Link(p)
             \/ Unfixed(p)' /\ b = Fixed(p)
             \/ marked'[b[1]]
             \/ child'[b] = c
  PROVE  WriteOf(p, k)'
<1> DEFINE b == upd[p][k].bundle
           c == upd[p][k].ptr
<1>1. WriteOf(p, k)
  BY Stands DEF TreeLocalInv, TreeWriteInv
<1>2. b = upd'[p][k].bundle /\ c = upd'[p][k].ptr
  BY DEF WriteKept
<1>3. /\ b[1] \in alloc' /\ lock'[b[1]] = p
      /\ c \in alloc' \cup {Null} /\ \A n \in Nodes : n = c => Target(p, n)'
  BY <1>1 DEF WriteKept, WriteOf
<1>4. tpc'[p] = "label" /\ b = Link(p)' => c = my'[p].node
  BY <1>1 DEF WriteKept, WriteOf
<1>5. Unfixed(p)' /\ b = Fixed(p)' => c = child'[<<my'[p].succ, Right>>]
  BY <1>1 DEF WriteKept, WriteOf
<1>6. \/ tpc'[p] = "label" /\ b = Link(p)'
      \/ Unfixed(p)' /\ b = Fixed(p)'
      \/ marked'[b[1]]
      \/ child'[b] = c
  BY DEF WriteKept
<1> HIDE DEF b, c
<1> QED
  BY <1>2, <1>3, <1>4, <1>5, <1>6 DEF WriteOf

LEMMA SteadyWrites ==
  ASSUME SInv, TreeInv, NEW p \in Procs, StepOf(p),
         PrepareAndLabel(p) \/ LinWrite(p) \/ FinalizeBundles(p)
           \/ Synchronize(p) \/ UnlinkSucc(p) \/ RaiseTag(p)
  PROVE  TreeWriteInv(p)'
<1> USE GoneTo
<1>1. WriteKept(p)
  BY WritesKept
<1>2. /\ TreeWriteInv(p) /\ TreeOpInv(p) /\ p \in Updaters
      /\ child \in [Bundles -> Ptrs \cup {NoPtr}] /\ marked \in [Nodes -> BOOLEAN]
  BY Stands, TreeBasics DEF TreeLocalInv, TreeInv, TreeFormInv
<1>3. ASSUME NEW k \in 1 .. Len(upd[p])
      PROVE  LET b == upd[p][k].bundle
                 c == upd[p][k].ptr
             IN  /\ b \in Bundles /\ b[1] \in Nodes
                 /\ tpc[p] = "label" /\ b = Link(p) => c = my[p].node
                 /\ Unfixed(p) /\ b = Fixed(p) => c = child[<<my[p].succ, Right>>]
                 /\ \/ tpc[p] = "label" /\ b = Link(p)
                    \/ Unfixed(p) /\ b = Fixed(p)
                    \/ marked[b[1]]
                    \/ child[b] = c
  <2>1. upd[p][k].bundle \in Bundles
    BY <1>2, <1>3, Exclusive DEF SInv, RInv
  <2>2. WriteOf(p, k)
    BY <1>2, <1>3 DEF TreeWriteInv
  <2> QED
    BY <2>1, <2>2, TreeBasics DEF WriteOf
\* The rest of TreeWriteInv(p) for the step.
<1>4. ASSUME \A k \in 1 .. Len(upd[p]) : WriteOf(p, k)',
             tpc'[p] = "label" => tpc[p] = "label",
             tpc'[p] \in UnlinkTPCs => Moves(p),
             Unfixed(p)' => Unfixed(p)
      PROVE  TreeWriteInv(p)'
  BY <1>1, <1>2, <1>4 DEF TreeWriteInv, WriteKept
<1>5. ASSUME child' = child, marked' = marked,
             tpc'[p] = "label" <=> tpc[p] = "label",
             tpc'[p] \in UnlinkTPCs => Moves(p),
             Unfixed(p)' <=> Unfixed(p)
      PROVE  TreeWriteInv(p)'
  <2>1. ASSUME NEW k \in 1 .. Len(upd[p]) PROVE WriteOf(p, k)'
    BY <1>1, <1>3, <1>5, <2>1, WriteStays
  <2> QED
    BY <1>4, <1>5, <2>1
<1>6. CASE PrepareAndLabel(p)
  <2>1. child' = child /\ marked' = marked /\ tpc'[p] = tpc[p]
    BY <1>6 DEF PrepareAndLabel, nodeVars
  <2>2. Unfixed(p)' <=> Unfixed(p)
    BY <1>1, <2>1 DEF Unfixed, WriteKept
  <2>3. tpc'[p] \in UnlinkTPCs => Moves(p)
    BY <1>2, <2>1 DEF TreeWriteInv
  <2> QED
    BY <1>5, <2>1, <2>2, <2>3
<1>7. CASE LinWrite(p)
  <2>1. /\ tpc[p] = "label" /\ tpc'[p] = "finalize" /\ marked' = marked
        /\ child' = [child EXCEPT ![Link(p)] = my[p].node]
    BY <1>7 DEF LinWrite
  <2>2. Unfixed(p)' <=> Unfixed(p)
    BY <1>1, <2>1 DEF Unfixed, WriteKept
  <2>3. Unfixed(p) => child'[<<my[p].succ, Right>>] = child[<<my[p].succ, Right>>]
    <3> HAVE Unfixed(p)
    <3>1. <<my[p].succ, Right>> # Link(p) /\ <<my[p].succ, Right>> \in Bundles
      BY FixedLocked, TreeBasics DEF Link
    <3> QED
      BY <1>2, <2>1, <3>1
  <2>4. ASSUME NEW k \in 1 .. Len(upd[p]) PROVE WriteOf(p, k)'
    <3> DEFINE b == upd[p][k].bundle
               c == upd[p][k].ptr
    <3>1. /\ b \in Bundles /\ (b = Link(p) => c = my[p].node)
          /\ b = Link(p) \/ (Unfixed(p) /\ b = Fixed(p)) \/ marked[b[1]] \/ child[b] = c
      BY <1>3, <2>1, <2>4
    <3>2. (Unfixed(p)' /\ b = Fixed(p)) \/ marked'[b[1]] \/ child'[b] = c
      BY <1>2, <2>1, <2>2, <3>1
    <3> QED
      BY <1>1, <2>1, <2>2, <2>3, <2>4, <3>2, WriteStays
  <2>5. tpc'[p] \notin UnlinkTPCs
    BY <2>1 DEF UnlinkTPCs
  <2> QED
    BY <1>4, <2>1, <2>2, <2>4, <2>5
<1>8. CASE FinalizeBundles(p)
  <2>1. /\ tpc[p] = "finalize" /\ child' = child /\ marked' = marked
        /\ \/ tpc'[p] = "finalize"
           \/ tpc'[p] = "unlock" /\ op[p].type = "insert"
           \/ tpc'[p] = "synchronize" /\ Moves(p)
           \/ tpc'[p] = "tag" /\ ~Moves(p)
    BY <1>8 DEF FinalizeBundles, nodeVars
  <2>2. Unfixed(p)' <=> Unfixed(p)
    <3>1. op[p].type = "insert" => ~Unfixed(p)
      BY <1>2 DEF TreeWriteInv
    <3> QED
      BY <1>1, <2>1, <3>1 DEF Unfixed, UnlinkTPCs, WriteKept
  <2>3. tpc'[p] \in UnlinkTPCs => Moves(p)
    BY <2>1 DEF UnlinkTPCs
  <2> QED
    BY <1>5, <2>1, <2>2, <2>3
<1>9. CASE Synchronize(p)
  <2>1. /\ tpc[p] \in UnlinkTPCs /\ tpc'[p] \in UnlinkTPCs /\ child' = child /\ marked' = marked
        /\ tpc[p] # "label" /\ tpc'[p] # "label"
    BY <1>9 DEF Synchronize, nodeVars, UnlinkTPCs
  <2>2. Moves(p)
    BY <1>2, <2>1 DEF TreeWriteInv
  <2>3. Unfixed(p)' <=> Unfixed(p)
    BY <1>1, <2>1, <2>2 DEF Unfixed, WriteKept
  <2> QED
    BY <1>5, <2>1, <2>2, <2>3
<1>10. CASE UnlinkSucc(p)
  <2>1. /\ tpc[p] = "fix" /\ tpc'[p] = "tag"
        /\ child' = [child EXCEPT ![Fixed(p)] = child[<<my[p].succ, Right>>]]
    BY <1>10 DEF UnlinkSucc
  <2>2. ~Unfixed(p)' /\ tpc'[p] \notin UnlinkTPCs
    BY <2>1 DEF Unfixed, UnlinkTPCs
  <2>3. ASSUME NEW k \in 1 .. Len(upd[p]) PROVE WriteOf(p, k)'
    <3> DEFINE b == upd[p][k].bundle
               c == upd[p][k].ptr
    <3>1. /\ b \in Bundles /\ b[1] \in Nodes
          /\ Unfixed(p) /\ b = Fixed(p) => c = child[<<my[p].succ, Right>>]
          /\ (Unfixed(p) /\ b = Fixed(p)) \/ marked[b[1]] \/ child[b] = c
      BY <1>3, <2>1, <2>3
    <3>2. Unfixed(p)
      BY <1>2, <2>1 DEF Unfixed, TreeWriteInv, UnlinkTPCs
    <3>3. marked'[b[1]] \/ child'[b] = c
      BY <1>1, <1>2, <2>1, <3>1, <3>2 DEF WriteKept
    <3> QED
      BY <1>1, <2>1, <2>2, <2>3, <3>3, WriteStays
  <2> QED
    BY <1>4, <2>1, <2>2, <2>3
<1>11. CASE RaiseTag(p)
  <2>1. tpc[p] = "tag" /\ tpc'[p] = "unlock" /\ child' = child /\ marked' = marked
    BY <1>11 DEF RaiseTag
  <2> QED
    BY <1>5, <2>1 DEF Unfixed, UnlinkTPCs
<1> QED
  BY <1>6, <1>7, <1>8, <1>9, <1>10, <1>11

-----------------------------------------------------------------------------
\* A write that an update begins with.
BegunWrite(p, b, c) ==
  /\ b[1] \in alloc' /\ lock'[b[1]] = p
  /\ c \in alloc' \cup {Null} /\ \A n \in Nodes : n = c => Target(p, n)'
  /\ b = Link(p)' => c = my'[p].node
  /\ Moves(p)' /\ b = Fixed(p)' => c = child'[<<my'[p].succ, Right>>]
  /\ \/ b = Link(p)'
     \/ Moves(p)' /\ b = Fixed(p)'
     \/ marked'[b[1]]
     \/ child'[b] = c

LEMMA WritesBegun ==
  ASSUME NEW p \in Procs, NEW w, upd'[p] = w, tpc'[p] = "label",
         \A k \in 1 .. Len(w) : BegunWrite(p, w[k].bundle, w[k].ptr),
         Link(p)' \in BundlesOf(w),
         Moves(p)' => /\ op'[p].type = "erase" /\ Fixed(p)' \in BundlesOf(w)
                      /\ lock'[my'[p].succ] = p /\ my'[p].succ # my'[p].prev
  PROVE  TreeWriteInv(p)'
<1>1. Unfixed(p)' <=> Moves(p)'
  BY DEF Unfixed
<1>2. tpc'[p] \notin UnlinkTPCs
  BY DEF UnlinkTPCs
<1>3. ASSUME NEW k \in 1 .. Len(w) PROVE WriteOf(p, k)'
  <2> DEFINE b == upd'[p][k].bundle
             c == upd'[p][k].ptr
  <2>1. BegunWrite(p, b, c)
    BY <1>3
  <2> HIDE DEF b, c
  <2>2. /\ b[1] \in alloc' /\ lock'[b[1]] = p
        /\ c \in alloc' \cup {Null} /\ \A n \in Nodes : n = c => Target(p, n)'
        /\ tpc'[p] = "label" /\ b = Link(p)' => c = my'[p].node
        /\ Unfixed(p)' /\ b = Fixed(p)' => c = child'[<<my'[p].succ, Right>>]
        /\ \/ tpc'[p] = "label" /\ b = Link(p)'
           \/ Unfixed(p)' /\ b = Fixed(p)'
           \/ marked'[b[1]]
           \/ child'[b] = c
    BY <1>1, <2>1 DEF BegunWrite
  <2>3. b = upd'[p][k].bundle /\ c = upd'[p][k].ptr
    BY DEF b, c
  <2> QED
    BY <2>2, <2>3 DEF WriteOf
<1> QED
  BY <1>1, <1>2, <1>3 DEF TreeWriteInv

\* What beginning an update does in the provider.
LEMMA UpdateBegun ==
  ASSUME SInv, NEW p \in Procs, NEW w, BeginUpdate(p, w)
  PROVE  upd'[p] = w /\ pc'[p] = "prepare" /\ idx'[p] = 1 /\ bundle' = bundle
BY DEF BeginUpdate, SInv, RInv, IInv, TypeOK

\* A node that was not in use is new when both its bundles are to be written.
LEMMA NewbornAtFirst ==
  ASSUME SInv, TreeInv, NEW p \in Procs, NEW w, BeginUpdate(p, w), NEW n \in Nodes \ alloc,
         NEW i \in 1 .. Len(w), NEW j \in 1 .. Len(w), Len(w) \in Nat,
         w[i].bundle = <<n, Left>>, w[j].bundle = <<n, Right>>
  PROVE  Target(p, n)'
<1>1. upd'[p] = w /\ pc'[p] = "prepare" /\ idx'[p] = 1 /\ bundle' = bundle
  BY UpdateBegun
<1>2. \A d \in Sides : Newest(bundle[<<n, d>>]) = 0
  BY DEF TreeInv, RawInv
<1>3. \A k \in 1 .. Len(w) : ~HasPrepared(p, k)'
  BY <1>1 DEF HasPrepared
<1>4. \A d \in Sides : d = Left \/ d = Right
  BY DEF Sides
<1>5. ASSUME NEW d \in Sides
      PROVE  \E k \in 1 .. Len(upd'[p]) :
                /\ upd'[p][k].bundle = <<n, d>>
                /\ Newest(bundle'[<<n, d>>]) = IF HasPrepared(p, k)' THEN 1 ELSE 0
  BY <1>1, <1>2, <1>3, <1>4
<1>6. Newborn(p, n)'
  BY <1>5 DEF Newborn
<1> QED
  BY <1>1, <1>6 DEF Target

\* The new node, and what stays of the old ones.
LEMMA NodeMade ==
  ASSUME TreeInv, NEW p \in Procs, NEW n \in Nodes, NEW k, NEW c, NewNode(p, n, k, c)
  PROVE  /\ n \notin alloc /\ n \in alloc' /\ alloc \subseteq alloc' /\ lock'[n] = p
         /\ child'[<<n, Left>>] = c[1] /\ child'[<<n, Right>>] = c[2]
         /\ \A m \in alloc : /\ m # n /\ lock'[m] = lock[m]
                             /\ \A d \in Sides : child'[<<m, d>>] = child[<<m, d>>]
<1>1. /\ lock \in [Nodes -> Procs \cup {NoProc}] /\ child \in [Bundles -> Ptrs \cup {NoPtr}]
      /\ alloc \subseteq Nodes /\ Left # Right
      /\ \A m \in Nodes : \A d \in Sides : <<m, d>> \in Bundles
      /\ Left \in Sides /\ Right \in Sides
  BY TreeBasics DEF TreeInv, TreeFormInv
<1>2. /\ n \notin alloc /\ n \in alloc' /\ alloc \subseteq alloc'
      /\ lock' = [lock EXCEPT ![n] = p]
      /\ child' = [child EXCEPT ![<<n, Left>>] = c[1], ![<<n, Right>>] = c[2]]
  BY DEF NewNode
<1>3. child'[<<n, Left>>] = c[1] /\ child'[<<n, Right>>] = c[2]
  BY <1>1, <1>2
<1>4. \A m \in alloc : /\ m # n /\ lock'[m] = lock[m]
                       /\ \A d \in Sides : child'[<<m, d>>] = child[<<m, d>>]
  BY <1>1, <1>2
<1> QED
  BY <1>1, <1>2, <1>3, <1>4

LEMMA InsertBegun ==
  ASSUME SInv, TreeInv, NEW p \in Procs, StepOf(p), BeginInsert(p)
  PROVE  TreeWriteInv(p)'
<1> USE GoneTo
<1>1. /\ TreePlaceInv(p) /\ TreeLockInv(p) /\ my[p].prev \in alloc /\ my[p].prev \in Nodes
      /\ my[p].dir \in Sides /\ Link(p) = <<my[p].prev, my[p].dir>>
  BY Stands DEF TreeLocalInv
<1>2. tpc[p] = "validate" /\ tpc'[p] = "label"
  BY DEF BeginInsert, Valid
<1>3. lock[my[p].prev] = p /\ my[p].succ = Null
  BY <1>1, <1>2 DEF TreeLockInv, TreePlaceInv, PrevTPCs
<1>4. PICK n \in Nodes : /\ NewNode(p, n, op[p].lo, <<Null, Null>>)
                         /\ BeginUpdate(p, InsertWrites(p, n))
                         /\ SetsNode(p, n, <<n, my[p].prev>>)
  BY DEF BeginInsert, InsertWrites, SetsNode
<1>5. /\ n \notin alloc /\ n \in alloc' /\ my[p].prev \in alloc' /\ lock'[n] = p
      /\ lock'[my[p].prev] = p /\ my[p].prev # n
      /\ child'[<<n, Left>>] = Null /\ child'[<<n, Right>>] = Null
  <2>1. PICK c : c = <<Null, Null>> /\ NewNode(p, n, op[p].lo, c)
    BY <1>4
  <2> QED
    BY <1>1, <1>3, <2>1, NodeMade
<1>6. my'[p].node = n /\ SameSearch(my'[p], my[p]) /\ SameSucc(my'[p], my[p])
  BY <1>4, NodeSet
<1>7. Link(p)' = <<my[p].prev, my[p].dir>> /\ ~Moves(p)'
  BY <1>3, <1>6 DEF Link, Moves, SameSearch, SameSucc
<1>8. PICK w : w = InsertWrites(p, n)
  OBVIOUS
<1>9. /\ Len(w) = 3
      /\ w[1].bundle = <<n, Left>> /\ w[1].ptr = Null
      /\ w[2].bundle = <<n, Right>> /\ w[2].ptr = Null
      /\ w[3].bundle = <<my[p].prev, my[p].dir>> /\ w[3].ptr = n
  BY <1>8 DEF InsertWrites, Write
<1>10. Target(p, n)'
  BY <1>4, <1>5, <1>8, <1>9, NewbornAtFirst
<1>11. \A d \in Sides : child'[<<n, d>>] = Null => BegunWrite(p, <<n, d>>, Null)
  BY <1>5, <1>7, TreeBasics DEF BegunWrite
<1>12. BegunWrite(p, <<my[p].prev, my[p].dir>>, n)
  BY <1>5, <1>6, <1>7, <1>10 DEF BegunWrite
<1>13. \A k \in 1 .. Len(w) : BegunWrite(p, w[k].bundle, w[k].ptr)
  <2> TAKE k \in 1 .. Len(w)
  <2>1. k \in {1, 2, 3}
    BY <1>9
  <2> QED
    BY <1>5, <1>9, <1>11, <1>12, <2>1, TreeBasics
<1>14. Link(p)' \in BundlesOf(w)
  BY <1>7, <1>9 DEF BundlesOf
<1>15. upd'[p] = w
  BY <1>4, <1>8, UpdateBegun
<1> QED
  BY <1>2, <1>7, <1>13, <1>14, <1>15, WritesBegun

LEMMA EraseBegun ==
  ASSUME SInv, TreeInv, NEW p \in Procs, StepOf(p), BeginErase(p)
  PROVE  TreeWriteInv(p)'
<1> USE GoneTo
<1>1. /\ TreePlaceInv(p) /\ TreeLockInv(p) /\ my[p].prev \in alloc /\ my[p].prev \in Nodes
      /\ my[p].dir \in Sides /\ Link(p) = <<my[p].prev, my[p].dir>>
      /\ marked \in [Nodes -> BOOLEAN] /\ RawInv
  BY Stands DEF TreeLocalInv, TreeInv, TreeFormInv
<1>2. tpc[p] = "validate" /\ tpc'[p] = "label" /\ op[p].type = "erase"
  BY DEF BeginErase, Valid
<1>3. /\ lock[my[p].prev] = p /\ lock[my[p].curr] = p /\ my[p].curr # my[p].prev
      /\ my[p].succ = Null /\ my[p].curr \in alloc /\ my[p].curr \in Nodes
  BY <1>1, <1>2, Stands DEF TreeLockInv, TreePlaceInv, PrevTPCs, Places
<1>40. PICK d \in Sides :
         /\ BeginUpdate(p, EraseWrites(p, child[<<my[p].curr, 1 - d>>]))
         /\ SetsNode(p, child[<<my[p].curr, 1 - d>>], <<my[p].prev, my[p].curr>>)
  BY DEF BeginErase, EraseWrites, SetsNode, Sides
<1>4. PICK c : /\ c = child[<<my[p].curr, 1 - d>>]
               /\ BeginUpdate(p, EraseWrites(p, c))
               /\ SetsNode(p, c, <<my[p].prev, my[p].curr>>)
  BY <1>40
<1>5. UNCHANGED <<lock, child, alloc>> /\ marked' = [marked EXCEPT ![my[p].curr] = TRUE]
  BY DEF BeginErase
<1>6. my'[p].node = c /\ SameSearch(my'[p], my[p]) /\ SameSucc(my'[p], my[p])
  BY <1>4, NodeSet
<1>7. Link(p)' = <<my[p].prev, my[p].dir>> /\ ~Moves(p)'
  BY <1>3, <1>6 DEF Link, Moves, SameSearch, SameSucc
<1>8. PICK w : w = EraseWrites(p, c)
  OBVIOUS
<1>9. /\ Len(w) = 3
      /\ w[1].bundle = <<my[p].prev, my[p].dir>> /\ w[1].ptr = c
      /\ w[2].bundle = <<my[p].curr, Left>> /\ w[2].ptr = RootChild
      /\ w[3].bundle = <<my[p].curr, Right>> /\ w[3].ptr = RootChild
  BY <1>8 DEF EraseWrites, Write
<1>10. c \in alloc \cup {Null} /\ \A n \in Nodes : n = c => Target(p, n)'
  <2>1. 1 - d \in Sides
    BY TreeBasics
  <2>2. c \in alloc \cup {Null} /\ \A m \in Nodes : c = m => InTree(m)
    BY <1>3, <1>4, <2>1, ChildOf
  <2> QED
    BY <2>2, InTreeStays DEF StepOf, Target
<1>11. RootChild \in alloc /\ \A n \in Nodes : n = RootChild => Target(p, n)'
  <2>1. RootChild \in Nodes /\ InTree(RootChild)
    BY <1>1, TreeBasics DEF RawInv
  <2>2. InTree(RootChild)'
    BY <2>1, InTreeStays DEF StepOf
  <2> QED
    BY <1>1, <2>1, <2>2, BornInUse DEF InTree, Target
<1>12. BegunWrite(p, <<my[p].prev, my[p].dir>>, c)
  BY <1>1, <1>3, <1>5, <1>6, <1>7, <1>10 DEF BegunWrite
<1>13. \A e \in Sides : BegunWrite(p, <<my[p].curr, e>>, RootChild)
  BY <1>1, <1>3, <1>5, <1>7, <1>11 DEF BegunWrite
<1>14. \A k \in 1 .. Len(w) : BegunWrite(p, w[k].bundle, w[k].ptr)
  <2> TAKE k \in 1 .. Len(w)
  <2>1. k \in {1, 2, 3}
    BY <1>9
  <2> QED
    BY <1>9, <1>12, <1>13, <2>1, TreeBasics
<1>15. Link(p)' \in BundlesOf(w)
  BY <1>7, <1>9 DEF BundlesOf
<1>16. upd'[p] = w
  BY <1>4, <1>8, UpdateBegun
<1> QED
  BY <1>2, <1>7, <1>14, <1>15, <1>16, WritesBegun

LEMMA MoveBegun ==
  ASSUME SInv, TreeInv, NEW p \in Procs, StepOf(p), BeginMove(p)
  PROVE  TreeWriteInv(p)'
<1> USE GoneTo
<1>1. /\ my[p].prev \in alloc /\ my[p].prev \in Nodes /\ my[p].dir \in Sides
      /\ marked \in [Nodes -> BOOLEAN] /\ RawInv
  BY Stands DEF TreeInv, TreeFormInv
<1>2. tpc[p] = "validateSucc" /\ tpc'[p] = "label" /\ op'[p] = op[p]
  BY DEF BeginMove
<1>3. /\ my[p].curr \in alloc /\ my[p].prevSucc \in alloc /\ my[p].succ \in alloc
      /\ my[p].curr \in Nodes /\ my[p].prevSucc \in Nodes /\ my[p].succ \in Nodes
      /\ my[p].prev # my[p].curr /\ my[p].succ \notin {my[p].prev, my[p].curr, my[p].prevSucc}
      /\ ~Adjacent(p) => my[p].prevSucc \notin {my[p].prev, my[p].curr}
      /\ lock[my[p].prev] = p /\ lock[my[p].curr] = p /\ lock[my[p].succ] = p
      /\ ~Adjacent(p) => lock[my[p].prevSucc] = p
      /\ op[p].type = "erase"
  BY <1>2, AllLocked
<1>4. PICK m \in Nodes :
         /\ NewNode(p, m, key[my[p].succ],
                    <<child[<<my[p].curr, Left>>], child[<<my[p].curr, Right>>]>>)
         /\ BeginUpdate(p, MoveWrites(p, m))
         /\ SetsNode(p, m, <<my[p].prev, m, my[p].curr>> \o SuccLocks(p))
  BY DEF BeginMove, MoveWrites, SetsNode
<1>5. marked' = [marked EXCEPT ![my[p].curr] = TRUE]
  BY DEF BeginMove
<1>6. my'[p].node = m /\ SameSearch(my'[p], my[p]) /\ SameSucc(my'[p], my[p])
  BY <1>4, NodeSet
<1>7. /\ Link(p)' = <<my[p].prev, my[p].dir>> /\ Moves(p)' /\ my'[p].succ = my[p].succ
      /\ my'[p].prev = my[p].prev
      /\ Fixed(p)' = IF Adjacent(p) THEN <<m, Right>> ELSE <<my[p].prevSucc, Left>>
  BY <1>3, <1>6, TreeBasics DEF Link, Moves, SameSearch, SameSucc, Fixed, Adjacent
<1>8. \A n \in alloc, d \in Sides :
         /\ child[<<n, d>>] \in Places /\ child[<<n, d>>] \in alloc \cup {Null}
         /\ \A l \in Nodes : child[<<n, d>>] = l => InTree(l)
  BY ChildOf
<1>9. /\ m \notin alloc /\ m \in alloc' /\ alloc \subseteq alloc' /\ lock'[m] = p
      /\ child'[<<m, Left>>] = child[<<my[p].curr, Left>>]
      /\ child'[<<m, Right>>] = child[<<my[p].curr, Right>>]
      /\ \A n \in alloc : /\ n # m /\ lock'[n] = lock[n]
                          /\ \A d \in Sides : child'[<<n, d>>] = child[<<n, d>>]
  <2>1. PICK c : /\ c = <<child[<<my[p].curr, Left>>], child[<<my[p].curr, Right>>]>>
                 /\ NewNode(p, m, key[my[p].succ], c)
    BY <1>4
  <2> QED
    BY <2>1, NodeMade
<1>10. PICK w : w = MoveWrites(p, m)
  OBVIOUS
<1>11. /\ Len(w) = IF Adjacent(p) THEN 5 ELSE 6
       /\ w[1].bundle = <<my[p].prev, my[p].dir>> /\ w[1].ptr = m
       /\ w[2].bundle = <<m, Left>> /\ w[2].ptr = child[<<my[p].curr, Left>>]
       /\ w[3].bundle = <<m, Right>> /\ w[3].ptr = MovedRight(p)
       /\ w[4].bundle = <<my[p].curr, Left>> /\ w[4].ptr = RootChild
       /\ w[5].bundle = <<my[p].curr, Right>> /\ w[5].ptr = RootChild
       /\ ~Adjacent(p) => /\ w[6].bundle = <<my[p].prevSucc, Left>>
                          /\ w[6].ptr = child[<<my[p].succ, Right>>]
  BY <1>2, <1>9, <1>10, MoveShape DEF Link
<1>12. Target(p, m)'
  <2>1. Len(w) \in Nat /\ 2 \in 1 .. Len(w) /\ 3 \in 1 .. Len(w)
    BY <1>11
  <2> QED
    BY <1>4, <1>9, <1>10, <1>11, <2>1, NewbornAtFirst
<1>13. \A n \in Nodes : InTree(n) => Target(p, n)'
  BY InTreeStays DEF StepOf, Target
<1>14. \A n \in alloc, d \in Sides :
          /\ child[<<n, d>>] \in alloc' \cup {Null}
          /\ \A l \in Nodes : l = child[<<n, d>>] => Target(p, l)'
  BY <1>8, <1>9, <1>13
<1>15. RootChild \in alloc' /\ \A n \in Nodes : n = RootChild => Target(p, n)'
  <2>1. RootChild \in Nodes /\ InTree(RootChild)
    BY <1>1, TreeBasics DEF RawInv
  <2> QED
    BY <1>1, <1>9, <1>13, <2>1, BornInUse DEF InTree
<1>16. BegunWrite(p, <<my[p].prev, my[p].dir>>, m)
  BY <1>1, <1>3, <1>6, <1>7, <1>9, <1>12, TreeBasics DEF BegunWrite, Adjacent
<1>17. BegunWrite(p, <<m, Left>>, child[<<my[p].curr, Left>>])
  BY <1>1, <1>3, <1>7, <1>9, <1>14, TreeBasics DEF BegunWrite
<1>18. BegunWrite(p, <<m, Right>>, MovedRight(p))
  BY <1>1, <1>3, <1>7, <1>9, <1>14, TreeBasics DEF BegunWrite, MovedRight
<1>19. \A d \in Sides : BegunWrite(p, <<my[p].curr, d>>, RootChild)
  BY <1>1, <1>3, <1>5, <1>7, <1>9, <1>15 DEF BegunWrite
<1>20. ~Adjacent(p) => BegunWrite(p, <<my[p].prevSucc, Left>>, child[<<my[p].succ, Right>>])
  BY <1>1, <1>3, <1>7, <1>9, <1>14, TreeBasics DEF BegunWrite
<1>21. \A k \in 1 .. Len(w) : BegunWrite(p, w[k].bundle, w[k].ptr)
  <2> TAKE k \in 1 .. Len(w)
  <2>1. k \in {1, 2, 3, 4, 5, 6} /\ (k = 6 => ~Adjacent(p))
    BY <1>11
  <2> QED
    BY <1>11, <1>16, <1>17, <1>18, <1>19, <1>20, <2>1, TreeBasics
<1>22. Link(p)' \in BundlesOf(w) /\ Fixed(p)' \in BundlesOf(w)
  BY <1>7, <1>11 DEF BundlesOf
<1>23. upd'[p] = w
  BY <1>4, <1>10, UpdateBegun
<1>24. op'[p].type = "erase" /\ lock'[my'[p].succ] = p /\ my'[p].succ # my'[p].prev
  BY <1>2, <1>3, <1>7, <1>9
<1> QED
  BY <1>2, <1>21, <1>22, <1>23, <1>24, WritesBegun

LEMMA OwnWrites ==
  ASSUME SInv, TreeInv, NEW p \in Procs, StepOf(p), Call(p) \/ TreeStep(p)
  PROVE  TreeWriteInv(p)'
<1> USE GoneTo
<1>1. CASE BeginInsert(p) \/ BeginErase(p) \/ BeginMove(p)
  BY <1>1, InsertBegun, EraseBegun, MoveBegun
<1>2. CASE PrepareAndLabel(p) \/ LinWrite(p) \/ FinalizeBundles(p)
           \/ Synchronize(p) \/ UnlinkSucc(p) \/ RaiseTag(p)
  BY <1>2, SteadyWrites
<1>3. ASSUME NEW r, ReturnKeys(p, r) PROVE TreeWriteInv(p)'
  <2>1. tpc'[p] = "idle"
    BY <1>3, Returned
  <2> QED
    BY <2>1, NoWrites DEF WriteTPCs, UnlinkTPCs
<1>4. CASE Call(p) \/ Begin(p) \/ FollowNewest(p) \/ StartQuery(p) \/ EnterSnapshot(p)
           \/ ReadBundle(p) \/ Descend(p) \/ EnterRange(p) \/ Collect(p) \/ ReadRight(p) \/ Push(p)
  <2>1. tpc'[p] \in {"start", "search", "follow", "enter", "range", "descend", "collect", "left", "right"}
    BY <1>4
    DEF Call, Begin, FollowNewest, StartQuery, EnterSnapshot, ReadBundle, Descend, EnterRange, Collect,
        ReadRight, Push, HasRead
  <2> QED
    BY <2>1, NoWrites DEF WriteTPCs, UnlinkTPCs
<1>5. CASE Search(p)
  <2>1. op[p].type \in OpTypes
    BY <1>5, CurrOp DEF Search
  <2>2. tpc'[p] = op[p].type \/ tpc'[p] = "search"
    BY <1>5 DEF Search
  <2> QED
    BY <2>1, <2>2, NoWrites DEF OpTypes, WriteTPCs, UnlinkTPCs
<1>6. CASE EndSearch(p) \/ EndContains(p) \/ EndQuery(p)
  <2>1. CASE tpc'[p] = "lockPrev"
    BY <2>1, NoWrites DEF WriteTPCs, UnlinkTPCs
  <2> QED
    BY <1>3, <1>6, <2>1 DEF EndSearch, EndContains, EndQuery
<1>7. CASE LockPrev(p) \/ LockCurr(p) \/ Invalid(p)
           \/ FindSucc(p) \/ NextSucc(p) \/ LockSucc(p) \/ InvalidSucc(p)
  <2>1. tpc'[p] \in {"validate", "lockCurr", "retry", "succ", "lockPrevSucc", "lockSucc",
                     "validateSucc"}
    BY <1>7 DEF LockPrev, LockCurr, Invalid, FindSucc, NextSucc, LockSucc, InvalidSucc
  <2> QED
    BY <2>1, NoWrites DEF WriteTPCs, UnlinkTPCs
<1>8. CASE Unlock(p)
  <2>1. tpc[p] \in {"unlock", "retry"} /\ pc[p] \in {"unlock", "idle"} /\ pc \in [Procs -> PCs]
    BY <1>8, Stands
    DEF Unlock, TreeLocalInv, TreePcInv, WriteTPCs, UnlinkTPCs, SnapshotTPCs, SInv, RInv, IInv, TypeOK
  <2>2. pc'[p] = "idle"
    BY <1>8, <2>1 DEF Unlock, EndUpdate, vars
  <2>3. CASE tpc'[p] \in {"start", "retry", "unlock"}
    BY <2>2, <2>3, NoWrites DEF WriteTPCs, UnlinkTPCs
  <2> QED
    BY <1>3, <1>8, <2>1, <2>3 DEF Unlock
<1> QED
  BY <1>1, <1>2, <1>3, <1>4, <1>5, <1>6, <1>7, <1>8 DEF TreeStep

-----------------------------------------------------------------------------
(***************************************************************************)
(* The part of the invariant that is about all the nodes.                  *)
(***************************************************************************)

\* A process only touches the bundles that its update is about.
LEMMA BundleKept ==
  ASSUME IInv, NEW p \in Procs, Update(p) \/ Query(p) \/ RunContains(p) \/ UNCHANGED vars,
         NEW b \in Bundles, owner[b] # p
  PROVE  bundle'[b] = bundle[b]
<1>1. bundle \in [Bundles -> Bundle] /\ p \in Updaters
  BY TreeBasics DEF IInv, TypeOK
<1>2. CASE Query(p) \/ RunContains(p)
  BY <1>2, TypeQuery DEF Reads
<1>3. CASE UNCHANGED vars
  BY <1>3 DEF vars
<1>4. CASE Prepare(p) \/ Finalize(p)
  <2>1. upd[p][idx[p]].bundle # b
    BY <1>1, <1>4, UpdateState DEF Prepare, Finalize, UpdatePCs
  <2> QED
    BY <1>1, <1>4, <2>1 DEF Prepare, Finalize
<1>5. CASE \E w \in Updates : BeginUpdate(p, w)
  BY <1>5 DEF BeginUpdate
<1>6. CASE LoadTS(p) \/ ReloadTS(p) \/ FetchAdd(p) \/ EndUpdate(p)
  BY <1>6 DEF LoadTS, ReloadTS, FetchAdd, EndUpdate
<1> QED
  BY <1>2, <1>3, <1>4, <1>5, <1>6 DEF Update, UpdateStep

\* A bundle with an owner belongs to a node that its owner has locked.
LEMMA OwnedBundle ==
  ASSUME SInv, TreeInv, NEW p \in Procs, NEW n \in Nodes, NEW d \in Sides, owner[<<n, d>>] = p
  PROVE  /\ n \in alloc /\ lock[n] = p
         /\ \E k \in 1 .. Len(upd[p]) : upd[p][k].bundle = <<n, d>> /\ WriteOf(p, k)
<1>1. PICK b \in Bundles : b = <<n, d>>
  BY TreeBasics
<1>2. p \in Updaters /\ IInv
  BY TreeBasics DEF SInv, RInv
<1>3. b \in BundlesOf(upd[p])
  BY <1>1, <1>2 DEF IInv, UInv, OwnerInv
<1>4. PICK k \in 1 .. Len(upd[p]) : upd[p][k].bundle = b
  BY <1>3 DEF BundlesOf
<1>5. WriteOf(p, k)
  BY DEF TreeInv, TreeLocalInv, TreeWriteInv
<1>6. b[1] \in alloc /\ lock[b[1]] = p
  BY <1>4, <1>5 DEF WriteOf
<1> QED
  BY <1>1, <1>4, <1>5, <1>6

LEMMA OwnedWrite ==
  ASSUME SInv, TreeInv, NEW p \in Procs, NEW b \in Bundles, owner[b] = p
  PROVE  \E k \in 1 .. Len(upd[p]) : upd[p][k].bundle = b /\ WriteOf(p, k)
<1>1. PICK n \in Nodes, d \in Sides : b = <<n, d>>
  <2>1. b[1] \in Nodes /\ b[2] \in Sides /\ b = <<b[1], b[2]>>
    BY TreeBasics
  <2> QED
    BY <2>1
<1>2. owner[<<n, d>>] = p
  BY <1>1
<1> QED
  BY <1>1, <1>2, OwnedBundle

\* Where a link leads after a step, if not where it led before.
LEMMA ChildStep ==
  ASSUME SInv, TreeInv, NEW p \in Procs, Call(p) \/ TreeStep(p), NEW n \in Nodes, NEW d \in Sides
  PROVE  \/ child'[<<n, d>>] = child[<<n, d>>] /\ (n \in alloc' => n \in alloc)
         \/ /\ n \in alloc' /\ child'[<<n, d>>] \in Places
            /\ \A m \in Nodes : child'[<<n, d>>] = m => InTree(m)
<1> DEFINE Leads(c) == c \in Places /\ \A m \in Nodes : c = m => InTree(m)
<1>0. /\ child \in [Bundles -> Ptrs \cup {NoPtr}] /\ alloc \subseteq Nodes
      /\ <<n, d>> \in Bundles /\ (d = Left \/ d = Right)
      /\ Left \in Sides /\ Right \in Sides /\ Null \notin Nodes
  BY TreeBasics DEF TreeInv, TreeFormInv, Sides
<1>1. ASSUME NEW m \in Nodes, NEW k, NEW c, NewNode(p, m, k, c), Leads(c[1]), Leads(c[2])
      PROVE  \/ child'[<<n, d>>] = child[<<n, d>>] /\ (n \in alloc' => n \in alloc)
             \/ n \in alloc' /\ Leads(child'[<<n, d>>])
  <2>1. CASE n = m
    <3>1. n \in alloc' /\ child'[<<n, Left>>] = c[1] /\ child'[<<n, Right>>] = c[2]
      BY <1>1, <2>1, NodeMade
    <3> QED
      BY <1>0, <1>1, <3>1
  <2>2. CASE n # m
    <3>1. /\ alloc' = alloc \cup {m}
          /\ child' = [child EXCEPT ![<<m, Left>>] = c[1], ![<<m, Right>>] = c[2]]
      BY <1>1 DEF NewNode
    <3> QED
      BY <1>0, <2>2, <3>1
  <2> QED
    BY <2>1, <2>2
<1>2. CASE BeginInsert(p)
  <2>1. PICK m \in Nodes : NewNode(p, m, op[p].lo, <<Null, Null>>)
    BY <1>2 DEF BeginInsert
  <2>2. PICK c : c = <<Null, Null>>
    OBVIOUS
  <2>3. Leads(c[1]) /\ Leads(c[2]) /\ NewNode(p, m, op[p].lo, c)
    BY <1>0, <2>1, <2>2 DEF Places
  <2> QED
    BY <1>1, <2>3
<1>3. CASE BeginMove(p)
  <2>1. tpc[p] = "validateSucc"
    BY <1>3 DEF BeginMove
  <2>2. PICK m \in Nodes : NewNode(p, m, key[my[p].succ],
                                   <<child[<<my[p].curr, Left>>], child[<<my[p].curr, Right>>]>>)
    BY <1>3 DEF BeginMove
  <2>3. PICK c : c = <<child[<<my[p].curr, Left>>], child[<<my[p].curr, Right>>]>>
    OBVIOUS
  <2>4. my[p].curr \in alloc
    BY <2>1, AllLocked
  <2>5. Leads(child[<<my[p].curr, Left>>]) /\ Leads(child[<<my[p].curr, Right>>])
    BY <1>0, <2>4, ChildOf
  <2>6. Leads(c[1]) /\ Leads(c[2]) /\ NewNode(p, m, key[my[p].succ], c)
    BY <2>2, <2>3, <2>5
  <2> QED
    BY <1>1, <2>6
<1>4. CASE LinWrite(p)
  <2>1. /\ tpc[p] = "label" /\ pc[p] = "finalize" /\ alloc' = alloc
        /\ child' = [child EXCEPT ![Link(p)] = my[p].node]
    BY <1>4 DEF LinWrite
  <2>2. PICK k \in 1 .. Len(upd[p]) : upd[p][k].bundle = Link(p) /\ upd[p][k].ptr = my[p].node
    BY <2>1, LinkLocked
  <2>3. WriteOf(p, k)
    BY DEF TreeInv, TreeLocalInv, TreeWriteInv
  <2>4. my[p].node \in Places /\ \A m \in Nodes : m = my[p].node => Target(p, m)
    BY <1>0, <2>2, <2>3 DEF WriteOf, Places
  <2>5. ASSUME NEW m \in Nodes, Target(p, m) PROVE InTree(m)
    <3>1. IInv /\ ts[p] \in Nat /\ clock \in Nat /\ ts[p] < clock
      BY <2>1, ProviderStep DEF SInv, RInv, IInv, TypeOK, UInv, UpdateInv
    <3>2. InTree(m) \/ InUpdate(p, m)
      BY <2>1, <2>5 DEF Target
    <3>3. PICK s \in Nat, t \in Nat : s = ts[p] + 1 /\ t = clock
      BY <3>1
    <3>4. s <= t
      BY <3>1, <3>3
    <3>5. InUpdate(p, m) => BornAt(m, s)
      BY <3>3 DEF InUpdate
    <3>6. BornAt(m, s) => BornAt(m, t)
      BY <3>1, <3>4, BornLater
    <3> QED
      BY <3>2, <3>3, <3>5, <3>6 DEF InTree
  <2>6. Leads(my[p].node)
    BY <2>4, <2>5
  <2>7. my[p].prev \in alloc /\ Link(p) = <<my[p].prev, my[p].dir>>
    BY Stands
  <2>8. CASE <<n, d>> = Link(p)
    BY <1>0, <2>1, <2>6, <2>7, <2>8
  <2>9. CASE <<n, d>> # Link(p)
    BY <1>0, <2>1, <2>9
  <2> QED
    BY <2>8, <2>9
<1>5. CASE UnlinkSucc(p)
  <2>1. /\ tpc[p] = "fix" /\ alloc' = alloc
        /\ child' = [child EXCEPT ![Fixed(p)] = child[<<my[p].succ, Right>>]]
    BY <1>5 DEF UnlinkSucc
  <2>2. Unfixed(p)
    BY <2>1 DEF Unfixed, TreeInv, TreeLocalInv, TreeWriteInv, UnlinkTPCs
  <2>3. /\ Fixed(p)[1] \in alloc /\ Fixed(p) = <<Fixed(p)[1], Fixed(p)[2]>> /\ my[p].succ \in alloc
    BY <2>2, FixedLocked
  <2>4. Leads(child[<<my[p].succ, Right>>])
    BY <1>0, <2>3, ChildOf
  <2>5. CASE <<n, d>> = Fixed(p)
    <3>1. n \in alloc
      BY <2>3, <2>5
    <3> QED
      BY <1>0, <2>1, <2>4, <2>5, <3>1
  <2>6. CASE <<n, d>> # Fixed(p)
    BY <1>0, <2>1, <2>6
  <2> QED
    BY <2>5, <2>6
<1>6. CASE LockPrev(p) \/ LockCurr(p) \/ LockSucc(p) \/ Unlock(p) \/ BeginErase(p) \/ RaiseTag(p)
  BY <1>6 DEF LockPrev, LockCurr, LockSucc, Unlock, BeginErase, RaiseTag
<1>7. CASE QuietNodes(p)
  BY <1>7, QuietNodesKept
<1> QED
  BY <1>2, <1>3, <1>4, <1>5, <1>6, <1>7, StepKinds

LEMMA RawKept ==
  ASSUME EveryUpdate, SInv, TreeInv, NEW p \in Procs, Call(p) \/ TreeStep(p)
  PROVE  RawInv'
<1>1. StepOf(p) /\ [Next]_vars /\ IInv /\ RawInv /\ alloc \subseteq alloc' /\ alloc \subseteq Nodes
  BY Framed DEF StepOf, NodeFrame, SInv, RInv, TreeInv, TreeFormInv
<1>2. InTree(Root)' /\ InTree(RootChild)'
  BY <1>1, TreeBasics, InTreeStays DEF RawInv
<1>3. ASSUME NEW n \in alloc', NEW d \in Sides
      PROVE  child'[<<n, d>>] \in Places /\ \A m \in Nodes : child'[<<n, d>>] = m => InTree(m)'
  <2>1. n \in Nodes
    BY FormKept DEF TreeFormInv
  <2>2. child'[<<n, d>>] \in Places /\ \A m \in Nodes : child'[<<n, d>>] = m => InTree(m)
    <3>1. CASE child'[<<n, d>>] = child[<<n, d>>] /\ n \in alloc
      BY <3>1, ChildOf
    <3> QED
      BY <2>1, <3>1, ChildStep
  <2> QED
    BY <1>1, <2>2, InTreeStays
<1>4. ASSUME NEW n \in Nodes \ alloc', NEW d \in Sides
      PROVE  Newest(bundle'[<<n, d>>]) = 0 /\ child'[<<n, d>>] = NoPtr
  <2>1. n \notin alloc /\ <<n, d>> \in Bundles
    BY <1>1, TreeBasics
  <2>2. Newest(bundle[<<n, d>>]) = 0 /\ child[<<n, d>>] = NoPtr
    BY <1>1, <2>1 DEF RawInv
  <2>3. child'[<<n, d>>] = child[<<n, d>>]
    BY ChildStep
  <2>4. owner[<<n, d>>] # p
    BY <2>1, OwnedBundle
  <2>5. PICK b \in Bundles : b = <<n, d>>
    BY <2>1
  <2>6. bundle'[b] = bundle[b]
    BY <1>1, <2>4, <2>5, BundleKept, StepOfProvider
  <2> QED
    BY <2>2, <2>3, <2>5, <2>6
<1> QED
  BY <1>2, <1>3, <1>4 DEF RawInv

-----------------------------------------------------------------------------
\* When an update reads the clock, the entries that it labels lead to nodes whose
\* links have a value by then, or get the same label.
LEMMA LabelledClosed ==
  ASSUME SInv, TreeInv, NEW p \in Procs, [Next]_vars, LoadTS(p),
         NEW b \in Bundles, NEW i \in 1 .. Newest(bundle[b]), NEW n \in Nodes,
         bundle[b].entries[i].ptr = n, Label(b, i) = Pending, Label(b, i)' # Pending,
         NEW t, t = Label(b, i)'
  PROVE  BornAt(n, t)'
<1>1. /\ IInv /\ IInv' /\ p \in Updaters /\ p # NoProc /\ ts \in [Procs -> Nat]
      /\ pc \in [Procs -> PCs] /\ clock \in Nat /\ FirstTS <= clock
      /\ owner \in [Bundles -> Procs \cup {NoProc}]
  <2>1. IInv /\ IInv' /\ p \in Updaters /\ p # NoProc /\ clock \in Nat /\ FirstTS <= clock
    BY TreeBasics, ProviderStep
  <2>2. owner \in [Bundles -> Procs \cup {NoProc}]
    BY <2>1, TreeBasics DEF IInv, TypeOK
  <2> QED
    BY <2>1, <2>2 DEF IInv, TypeOK
<1>2. /\ pc[p] = "load" /\ pc'[p] = "reload" /\ ts' = [ts EXCEPT ![p] = clock] /\ clock' = clock
      /\ bundle' = bundle /\ owner' = owner
  BY <1>1 DEF LoadTS
<1>3. IsPending(bundle[b], i)
  <2>1. ~IsPending(bundle[b], i) => Label(b, i)' = Label(b, i)
    BY <1>2 DEF Label
  <2> QED
    BY <2>1
<1>4. owner[b] = p
  <2>1. ASSUME owner[b] # p PROVE Label(b, i)' = Label(b, i)
    <3>1. owner[b] # NoProc => ts'[owner[b]] = ts[owner[b]]
      BY <1>1, <1>2, <2>1
    <3> QED
      BY <1>2, <3>1 DEF Label
  <2> QED
    BY <2>1
<1>5. t = clock + 1 /\ ts'[p] = clock
  <2>1. ts'[p] = clock /\ ts'[p] # NullTS
    BY <1>1, <1>2 DEF NullTS, FirstTS
  <2> QED
    BY <1>1, <1>2, <1>3, <1>4, <2>1 DEF Label
<1>6. PICK k \in 1 .. Len(upd[p]) : upd[p][k].bundle = b /\ WriteOf(p, k)
  BY <1>4, OwnedWrite
<1>7. i = Newest(bundle[b])
  BY <1>1, <1>3, PendingOwner
<1>8. upd[p][k].ptr = n
  <2>1. HasPrepared(p, k)
    BY <1>2 DEF HasPrepared
  <2>2. bundle[b].entries[Newest(bundle[b])].ptr = upd[p][k].ptr
    BY <1>1, <1>6, <2>1 DEF SInv, PtrInv
  <2> QED
    BY <1>7, <2>2
<1>9. Target(p, n)'
  <2>1. Target(p, n)
    BY <1>6, <1>8 DEF WriteOf
  <2> QED
    BY <2>1, OwnTarget
<1>10. InTree(n)' \/ InUpdate(p, n)'
  BY <1>2, <1>9 DEF Target
<1>11. CASE InUpdate(p, n)'
  BY <1>5, <1>11 DEF InUpdate, BornAt
<1>12. CASE InTree(n)'
  <2>1. PICK s \in Nat : s = clock /\ s <= t /\ t \in Nat
    BY <1>1, <1>5
  <2>2. BornAt(n, s)'
    BY <1>2, <1>12, <2>1 DEF InTree, BornAt
  <2> QED
    BY <1>1, <2>1, <2>2, BornLaterNext
<1> QED
  BY <1>10, <1>11, <1>12

LEMMA ClosedKept ==
  ASSUME EveryUpdate, SInv, TreeInv, NEW p \in Procs, Call(p) \/ TreeStep(p)
  PROVE  ClosedInv'
<1>1. /\ [Next]_vars /\ ProviderFrame(p) /\ IInv /\ IInv' /\ LabelStep /\ ~Clean /\ ClosedInv
      /\ clock \in Nat /\ clock < Pending /\ Pending \in Nat
  BY Framed, ProviderStep DEF StepOf, TreeInv
<1> SUFFICES ASSUME NEW b \in Bundles, NEW i \in 1 .. Newest(bundle'[b]), NEW n \in Nodes,
                    bundle'[b].entries[i].ptr = n,
                    NEW t, t = Label(b, i)', t < Pending
             PROVE  BornAt(n, t)'
  BY DEF ClosedInv, BornAt
<1>2. Newest(bundle[b]) \in Nat /\ Newest(bundle'[b]) \in Nat
  BY <1>1, NewestNat DEF IInv, TypeOK
<1>3. CASE i \in 1 .. Newest(bundle[b]) /\ Label(b, i) < Pending
  <2>1. PICK s : s = Label(b, i)
    OBVIOUS
  <2>2. s \in Nat /\ s < Pending
    BY <1>1, <1>3, <2>1, LabelRange
  <2>3. Label(b, i)' = s /\ bundle[b].entries[i].ptr = n
    BY <1>1, <1>3, <2>1, SettledKept
  <2>4. BornAt(n, s)
    BY <1>1, <1>3, <2>1, <2>3 DEF ClosedInv, BornAt
  <2>5. BornAt(n, s)'
    BY <1>1, <2>2, <2>4, BornKept
  <2>6. s = t
    BY <2>3
  <2> QED
    BY <2>5, <2>6 DEF BornAt
<1>4. CASE ~(i \in 1 .. Newest(bundle[b]) /\ Label(b, i) < Pending)
  <2>1. CASE \E q \in Updaters : LoadTS(q)
    <3>1. PICK q \in Procs : LoadTS(q)
      BY <2>1, TreeBasics
    <3>2. pc'[q] # pc[q]
      BY <1>1, <3>1 DEF LoadTS, IInv, TypeOK
    <3>3. q = p
      BY <1>1, <3>2 DEF ProviderFrame
    <3>4. bundle' = bundle
      BY <3>1 DEF LoadTS
    <3>5. i \in 1 .. Newest(bundle[b]) /\ bundle[b].entries[i].ptr = n
      BY <3>4
    <3>6. Label(b, i) \in Nat /\ ~(Label(b, i) < Pending) /\ (Label(b, i) <= clock + 1 \/ Label(b, i) = Pending)
      BY <1>1, <1>4, <3>5, LabelRange
    <3>7. Label(b, i) = Pending
      BY <1>1, <3>6
    <3>8. Label(b, i)' # Pending
      BY <1>1
    <3> QED
      BY <1>1, <3>1, <3>3, <3>5, <3>7, <3>8, LabelledClosed
  <2>2. CASE ~\E q \in Updaters : LoadTS(q)
    <3>1. LabelsKept(b)
      BY <1>1, <2>2, StepKeepsLabels
    <3>2. i \in 1 .. Newest(bundle[b]) => Label(b, i)' = Label(b, i)
      BY <1>2, <3>1 DEF LabelsKept
    <3>3. i \notin 1 .. Newest(bundle[b]) => Label(b, i)' = Pending
      BY <1>2, <3>1 DEF LabelsKept
    <3> QED
      BY <1>1, <1>4, <3>2, <3>3
  <2> QED
    BY <2>1, <2>2
<1> QED
  BY <1>3, <1>4

-----------------------------------------------------------------------------
\* A process gives its bundles back only when its update ends, and takes others
\* only when one begins.
LEMMA OwnerStep ==
  ASSUME IInv, NEW p \in Procs, Update(p) \/ Query(p) \/ RunContains(p) \/ UNCHANGED vars,
         NEW b \in Bundles, owner[b] = p
  PROVE  owner'[b] = p \/ EndUpdate(p)
<1>1. CASE Query(p) \/ RunContains(p)
  BY <1>1, TypeQuery DEF Reads, updateVars
<1>2. CASE UNCHANGED vars
  BY <1>2 DEF vars
<1>3. CASE \E w \in Updates : BeginUpdate(p, w)
  BY <1>3 DEF BeginUpdate
<1>4. CASE Prepare(p) \/ LoadTS(p) \/ ReloadTS(p) \/ FetchAdd(p) \/ Finalize(p)
  BY <1>4 DEF Prepare, LoadTS, ReloadTS, FetchAdd, Finalize, updateVars
<1> QED
  BY <1>1, <1>2, <1>3, <1>4 DEF Update, UpdateStep

\* The writes of a process change no link that its update is not about.
LEMMA LinkKept ==
  ASSUME SInv, TreeInv, NEW p \in Procs, Call(p) \/ TreeStep(p),
         NEW n \in alloc, NEW d \in Sides, owner[<<n, d>>] # p
  PROVE  child'[<<n, d>>] = child[<<n, d>>]
<1>0. /\ child \in [Bundles -> Ptrs \cup {NoPtr}] /\ <<n, d>> \in Bundles
      /\ p \in Updaters /\ IInv
  BY TreeBasics, ChildOf DEF TreeInv, TreeFormInv, SInv, RInv
<1>1. \A b \in BundlesOf(upd[p]) : b \in Bundles => b # <<n, d>>
  BY <1>0 DEF IInv, UInv, OwnerInv
<1>2. CASE \E m \in Nodes : \E k, c : NewNode(p, m, k, c)
  <2>1. PICK m \in Nodes : \E k, c : NewNode(p, m, k, c)
    BY <1>2
  <2>2. PICK k, c : NewNode(p, m, k, c)
    BY <2>1
  <2>3. \A x \in alloc : \A e \in Sides : child'[<<x, e>>] = child[<<x, e>>]
    BY <2>2, NodeMade
  <2> QED
    BY <2>3
<1>3. CASE BeginInsert(p) \/ BeginMove(p)
  <2>1. \E m \in Nodes : \E k, c : NewNode(p, m, k, c)
    BY <1>3 DEF BeginInsert, BeginMove
  <2> QED
    BY <1>2, <2>1
<1>4. CASE LinWrite(p)
  <2>1. /\ tpc[p] = "label" /\ child' = [child EXCEPT ![Link(p)] = my[p].node]
    BY <1>4 DEF LinWrite
  <2>2. Link(p) \in BundlesOf(upd[p]) /\ Link(p) \in Bundles
    BY <2>1, Stands DEF TreeInv, TreeLocalInv, TreeWriteInv
  <2> QED
    BY <1>0, <1>1, <2>1, <2>2
<1>5. CASE UnlinkSucc(p)
  <2>1. /\ tpc[p] = "fix" /\ child' = [child EXCEPT ![Fixed(p)] = child[<<my[p].succ, Right>>]]
    BY <1>5 DEF UnlinkSucc
  <2>2. Unfixed(p)
    BY <2>1 DEF Unfixed, TreeInv, TreeLocalInv, TreeWriteInv, UnlinkTPCs
  <2>3. Fixed(p) \in BundlesOf(upd[p]) /\ Fixed(p) \in Bundles
    BY <2>2, FixedLocked DEF TreeInv, TreeLocalInv, TreeWriteInv
  <2> QED
    BY <1>0, <1>1, <2>1, <2>3
<1>6. CASE LockPrev(p) \/ LockCurr(p) \/ LockSucc(p) \/ Unlock(p) \/ BeginErase(p) \/ RaiseTag(p)
  BY <1>6 DEF LockPrev, LockCurr, LockSucc, Unlock, BeginErase, RaiseTag
<1>7. CASE QuietNodes(p)
  BY <1>7, QuietNodesKept
<1> QED
  BY <1>3, <1>4, <1>5, <1>6, <1>7, StepKinds

\* A new node belongs to an update.
LEMMA NewOwned ==
  ASSUME SInv, TreeInv, NEW p \in Procs, Call(p) \/ TreeStep(p),
         NEW n \in alloc', n \notin alloc, NEW d \in Sides
  PROVE  owner'[<<n, d>>] = p
<1>0. /\ n \in Nodes /\ <<n, d>> \in Bundles /\ (d = Left \/ d = Right) /\ Left # Right
      /\ \A m \in Nodes : <<m, Left>> \in Bundles /\ <<m, Right>> \in Bundles
  <2>1. n \in Nodes
    BY FormKept DEF TreeFormInv
  <2> QED
    BY <2>1, TreeBasics DEF Sides
<1>1. ASSUME NEW w, BeginUpdate(p, w), <<n, d>> \in BundlesOf(w)
      PROVE  owner'[<<n, d>>] = p
  BY <1>0, <1>1 DEF BeginUpdate
<1>2. CASE BeginInsert(p)
  <2>1. PICK m \in Nodes : NewNode(p, m, op[p].lo, <<Null, Null>>) /\ BeginUpdate(p, InsertWrites(p, m))
    BY <1>2 DEF BeginInsert, InsertWrites
  <2>2. m = n
    BY <2>1 DEF NewNode
  <2>3. PICK w : w = InsertWrites(p, n)
    OBVIOUS
  <2>4. Len(w) = 3 /\ w[1].bundle = <<n, Left>> /\ w[2].bundle = <<n, Right>>
    BY <2>3 DEF InsertWrites, Write
  <2>5. <<n, Left>> \in BundlesOf(w) /\ <<n, Right>> \in BundlesOf(w)
    BY <2>4 DEF BundlesOf
  <2> QED
    BY <1>0, <1>1, <2>1, <2>2, <2>3, <2>5
<1>3. CASE BeginMove(p)
  <2>1. tpc[p] = "validateSucc"
    BY <1>3 DEF BeginMove
  <2>2. PICK m \in Nodes : /\ NewNode(p, m, key[my[p].succ],
                                      <<child[<<my[p].curr, Left>>], child[<<my[p].curr, Right>>]>>)
                           /\ BeginUpdate(p, MoveWrites(p, m))
    BY <1>3 DEF BeginMove, MoveWrites
  <2>3. m = n /\ n \in Nodes \ alloc
    BY <1>0, <2>2 DEF NewNode
  <2>4. PICK w : w = MoveWrites(p, n)
    OBVIOUS
  <2>5. Len(w) \in {5, 6} /\ w[2].bundle = <<n, Left>> /\ w[3].bundle = <<n, Right>>
    BY <2>1, <2>3, <2>4, MoveShape
  <2>6. <<n, Left>> \in BundlesOf(w) /\ <<n, Right>> \in BundlesOf(w)
    BY <2>5 DEF BundlesOf
  <2> QED
    BY <1>0, <1>1, <2>2, <2>3, <2>4, <2>6
<1>4. CASE LockPrev(p) \/ LockCurr(p) \/ LockSucc(p) \/ Unlock(p) \/ BeginErase(p) \/ RaiseTag(p)
           \/ LinWrite(p) \/ UnlinkSucc(p)
  BY <1>4 DEF LockPrev, LockCurr, LockSucc, Unlock, BeginErase, RaiseTag, LinWrite, UnlinkSucc
<1>5. CASE QuietNodes(p)
  BY <1>5, QuietNodesKept
<1> QED
  BY <1>2, <1>3, <1>4, <1>5, StepKinds

\* An update ends with the first unlock, and its writes have been made by then.
LEMMA UpdateEnds ==
  ASSUME SInv, TreeInv, NEW p \in Procs, Call(p) \/ TreeStep(p), EndUpdate(p),
         NEW b \in Bundles, owner[b] = p
  PROVE  Unlock(p) /\ tpc[p] = "unlock"
<1>1. pc[p] = "unlock" /\ p \in Updaters /\ IInv /\ owner'[b] = NoProc /\ p # NoProc
  BY TreeBasics DEF EndUpdate, SInv, RInv, BundlesOf, IInv, UInv, OwnerInv
<1>2. tpc[p] \in {"tag", "unlock"} \cup UnlinkTPCs
  BY <1>1, Stands
  DEF TreeLocalInv, TreePcInv, WriteTPCs, SnapshotTPCs, GetPCs, AnnouncePCs, LookupPCs
<1>3. ~(Synchronize(p) \/ UnlinkSucc(p) \/ RaiseTag(p))
  BY <1>1 DEF Synchronize, UnlinkSucc, RaiseTag, vars
<1>4. ~QuietNodes(p) \/ Synchronize(p)
  BY <1>2
  DEF UnlinkTPCs, QuietNodes, Call, Begin, Search, EndSearch, Invalid, Valid, FindSucc, NextSucc,
      InvalidSucc, PrepareAndLabel, FinalizeBundles, FollowNewest, EndContains, StartQuery,
      EnterSnapshot, ReadBundle, Descend, EnterRange, Collect, ReadRight, Push, EndQuery, HasRead
<1>5. ~(LockPrev(p) \/ LockCurr(p) \/ LockSucc(p) \/ BeginInsert(p) \/ BeginErase(p)
        \/ BeginMove(p) \/ LinWrite(p))
  BY <1>2
  DEF UnlinkTPCs, LockPrev, LockCurr, LockSucc, BeginInsert, BeginErase, BeginMove, LinWrite, Valid
<1>6. Unlock(p)
  BY <1>3, <1>4, <1>5, StepKinds
<1> QED
  BY <1>2, <1>6 DEF Unlock, UnlinkTPCs

LEMMA MatchKept ==
  ASSUME EveryUpdate, SInv, TreeInv, NEW p \in Procs, Call(p) \/ TreeStep(p)
  PROVE  MatchInv'
<1>1. /\ StepOf(p) /\ IInv /\ MatchInv /\ p # NoProc
      /\ Update(p) \/ Query(p) \/ RunContains(p) \/ UNCHANGED vars
      /\ owner \in [Bundles -> Procs \cup {NoProc}]
  <2>1. IInv /\ MatchInv
    BY DEF SInv, RInv, TreeInv
  <2> QED
    BY <2>1, TreeBasics, Framed, StepOfProvider DEF IInv, TypeOK
<1> SUFFICES ASSUME NEW n \in alloc', NEW d \in Sides, owner'[<<n, d>>] = NoProc, ~marked'[n]
             PROVE  child'[<<n, d>>] = NewestPtr(bundle'[<<n, d>>])
  BY DEF MatchInv
<1>2. n \in alloc
  BY <1>1, NewOwned
<1>3. n \in Nodes /\ ~marked[n]
  BY <1>1, <1>2 DEF StepOf, NodeFrame, TreeInv, TreeFormInv
<1>4. PICK b \in Bundles : b = <<n, d>>
  BY <1>3, TreeBasics
<1>5. CASE owner[b] # p
  <2>1. owner[b] = NoProc
    BY <1>1, <1>4, <1>5 DEF StepOf, ProviderFrame
  <2>2. bundle'[b] = bundle[b]
    BY <1>1, <1>5, BundleKept
  <2>3. child'[b] = child[b]
    BY <1>2, <1>4, <1>5, LinkKept
  <2> QED
    BY <1>1, <1>2, <1>3, <1>4, <2>1, <2>2, <2>3 DEF MatchInv
<1>6. CASE owner[b] = p
  <2>1. EndUpdate(p)
    BY <1>1, <1>4, <1>6, OwnerStep
  <2>2. Unlock(p) /\ tpc[p] = "unlock"
    BY <1>6, <2>1, UpdateEnds
  <2>3. PICK k \in 1 .. Len(upd[p]) : upd[p][k].bundle = b /\ WriteOf(p, k)
    BY <1>6, OwnedWrite
  <2>4. child[b] = upd[p][k].ptr
    BY <1>3, <1>4, <2>2, <2>3 DEF WriteOf, Unfixed, UnlinkTPCs
  <2>5. pc[p] = "unlock" /\ p \in Updaters /\ bundle' = bundle
    BY <2>1, TreeBasics DEF EndUpdate
  <2>6. HasPrepared(p, k)
    BY <2>5 DEF HasPrepared
  <2>7. Newest(bundle[b]) # 0 /\ bundle[b].entries[Newest(bundle[b])].ptr = upd[p][k].ptr
    BY <2>3, <2>5, <2>6 DEF SInv, PtrInv
  <2>8. child' = child
    BY <2>2 DEF Unlock
  <2> QED
    BY <1>4, <2>4, <2>5, <2>7, <2>8 DEF NewestPtr
<1> QED
  BY <1>5, <1>6

-----------------------------------------------------------------------------
(***************************************************************************)
(* The invariant holds from the start on.                                  *)
(***************************************************************************)
LEMMA OwnStep ==
  ASSUME SInv, TreeInv, NEW p \in Procs, StepOf(p), Call(p) \/ TreeStep(p)
  PROVE  TreeLocalInv(p)'
BY OwnOp, OwnPc, OwnPlaces, OwnLocks, OwnWrites, OwnSnapshots DEF TreeLocalInv, StepOf

LEMMA ProcessKeeps ==
  ASSUME EveryUpdate, SInv, TreeInv, NEW p \in Procs, Call(p) \/ TreeStep(p)
  PROVE  TreeInv'
<1>1. StepOf(p)
  BY Framed
<1>2. \A q \in Procs : TreeLocalInv(q)'
  BY <1>1, OwnStep, Others
<1> QED
  BY <1>2, FormKept, RawKept, ClosedKept, MatchKept DEF TreeInv

LEMMA StutterKeeps ==
  ASSUME TreeInv, UNCHANGED treeVars
  PROVE  TreeInv'
<1>1. /\ UNCHANGED vars /\ UNCHANGED <<key, lock, marked, child, tag, alloc>>
      /\ UNCHANGED <<todo, op, my, tpc>>
  BY DEF treeVars, nodeVars, callVars
<1>2. UNCHANGED <<clock, bundle, owner, pc, upd, idx, ts, qts, at, out>>
  BY <1>1 DEF vars, updateVars, readVars
<1>3. TreeFormInv'
  BY <1>1 DEF TreeInv, TreeFormInv
<1>4. \A n, t : BornAt(n, t)' <=> BornAt(n, t)
  BY <1>2 DEF BornAt, Label
<1>5. RawInv'
  BY <1>1, <1>2, <1>4 DEF TreeInv, RawInv, InTree, BornAt
<1>6. ClosedInv'
  BY <1>2 DEF TreeInv, ClosedInv, Label
<1>7. MatchInv'
  BY <1>1, <1>2 DEF TreeInv, MatchInv
<1>8. ASSUME NEW p \in Procs PROVE TreeLocalInv(p)'
  <2> USE <1>1, <1>2
  <2>1. TreeLocalInv(p) /\ \A n : InTree(n)' <=> InTree(n)
    BY <1>4 DEF TreeInv, InTree, BornAt
  <2>2. \A n : /\ InSnapshot(p, n)' <=> InSnapshot(p, n)
               /\ InUpdate(p, n)' <=> InUpdate(p, n)
               /\ Newborn(p, n)' <=> Newborn(p, n)
    BY <1>4 DEF InSnapshot, InUpdate, BornAt, Newborn, HasPrepared
  <2>3. \A b : HasValue(p, b)' <=> HasValue(p, b)
    BY DEF HasValue, ValueAt, VersionAt, Visible, Label
  <2>4. TreeOpInv(p)'
    BY <2>1 DEF TreeLocalInv, TreeOpInv
  <2>5. TreePcInv(p)'
    BY <2>1 DEF TreeLocalInv, TreePcInv
  <2>6. TreePlaceInv(p)'
    BY <2>1 DEF TreeLocalInv, TreePlaceInv
  <2>7. TreeLockInv(p)'
    BY <2>1 DEF TreeLocalInv, TreeLockInv, Adjacent
  <2>8. \A n : Target(p, n)' <=> Target(p, n)
    BY <2>1, <2>2 DEF Target
  <2>9. \A k : WriteOf(p, k)' <=> WriteOf(p, k)
    BY <2>8 DEF WriteOf, Link, Fixed, Unfixed, Moves, Adjacent
  <2>10. TreeWriteInv(p)'
    BY <2>1, <2>9 DEF TreeLocalInv, TreeWriteInv, Link, Fixed, Unfixed, Moves, Adjacent
  <2>11. TreeSnapshotInv(p)'
    BY <2>1, <2>2, <2>3 DEF TreeLocalInv, TreeSnapshotInv
  <2> QED
    BY <2>4, <2>5, <2>6, <2>7, <2>10, <2>11 DEF TreeLocalInv
<1> QED
  BY <1>3, <1>5, <1>6, <1>7, <1>8 DEF TreeInv

LEMMA TreeKeeps ==
  ASSUME EveryUpdate, SInv, TreeInv, [TreeNext]_treeVars
  PROVE  SInv' /\ TreeInv' /\ [Next]_vars
<1>1. CASE UNCHANGED treeVars
  <2>1. [Next]_vars
    BY <1>1 DEF treeVars
  <2> QED
    BY <1>1, <2>1, StutterKeeps, ProviderStep
<1>2. ASSUME NEW p \in Procs, Call(p) \/ TreeStep(p) PROVE SInv' /\ TreeInv' /\ [Next]_vars
  <2>1. [Next]_vars
    BY <1>2, StepIsNext
  <2> QED
    BY <1>2, <2>1, ProcessKeeps, ProviderStep
<1> QED
  BY <1>1, <1>2 DEF TreeNext, Done

\* A step of the tree is one of the read-side sections, or leaves them alone.
LEMMA RcuStep ==
  ASSUME [TreeNext]_treeVars
  PROVE  [RcuNext]_rcuVars
<1>1. Threads = Procs
  BY CitrusAssumption DEF Threads, Procs
<1>2. CASE UNCHANGED treeVars
  BY <1>2 DEF treeVars
<1>3. ASSUME NEW p \in Procs, Call(p) \/ TreeStep(p) PROVE [RcuNext]_rcuVars
  <2>1. ReadLock(p) \/ ReadUnlock(p) \/ SyncStart(p) \/ SyncStep(p) => RcuNext
    BY <1>1 DEF RcuNext
  <2>2. CASE Begin(p) \/ EndSearch(p) \/ EndContains(p) \/ Synchronize(p)
    BY <2>1, <2>2 DEF Begin, EndSearch, EndContains, Synchronize
  <2>3. CASE LockPrev(p) \/ LockCurr(p) \/ LockSucc(p) \/ Unlock(p) \/ BeginInsert(p)
             \/ BeginErase(p) \/ BeginMove(p) \/ LinWrite(p) \/ UnlinkSucc(p) \/ RaiseTag(p)
    BY <2>3 DEF LockPrev, LockCurr, LockSucc, Unlock, BeginInsert, BeginErase, BeginMove,
                LinWrite, UnlinkSucc, RaiseTag
  <2>4. CASE QuietNodes(p) /\ ~(Begin(p) \/ EndSearch(p) \/ EndContains(p) \/ Synchronize(p))
    BY <2>4
    DEF QuietNodes, Call, Search, Invalid, FindSucc, NextSucc, InvalidSucc, PrepareAndLabel,
        FinalizeBundles, FollowNewest, StartQuery, EnterSnapshot, ReadBundle, Descend, EnterRange,
        Collect, ReadRight, Push, EndQuery
  <2> QED
    BY <1>3, <2>2, <2>3, <2>4, StepKinds
<1> QED
  BY <1>2, <1>3 DEF TreeNext, Done

-----------------------------------------------------------------------------
\* The entries that the tree starts with.
LEMMA FirstEntries ==
  ASSUME NEW b \in Bundles, NEW e, e = InitBundle[b].entries
  PROVE  /\ Newest(InitBundle[b]) = Len(e) /\ Len(e) \in Nat
         /\ \A i \in 1 .. Len(e) :
              /\ e[i].ptr \in Places /\ e[i].ts \in Nat /\ e[i].ts <= InitClock /\ e[i].ts # Pending
<1>1. InitBundle[b] \in Bundle
  BY InitAssumption
<1>2. e \in Seq(Entry) /\ Newest(InitBundle[b]) = Len(e)
  BY <1>1 DEF Bundle, Newest
<1>3. Len(e) \in Nat /\ \A i \in 1 .. Len(e) : e[i] \in Entry
  BY <1>2
<1>4. \A i \in 1 .. Len(e) : e[i].ts \in FirstTS .. InitClock
  BY InitAssumption
<1>5. InitClock \in Nat /\ InitClock < Pending /\ FirstTS \in Nat
  BY ClockAssumption DEF FirstTS
<1>6. ASSUME NEW i \in 1 .. Len(e)
      PROVE  e[i].ptr \in Places /\ e[i].ts \in Nat /\ e[i].ts <= InitClock /\ e[i].ts # Pending
  <2>1. e[i] \in Entry /\ e[i].ts \in FirstTS .. InitClock
    BY <1>3, <1>4
  <2>2. e[i].ptr \in Places
    BY <2>1, TreeBasics DEF Entry
  <2> QED
    BY <1>5, <2>1, <2>2, PendingAssumption
<1> QED
  BY <1>2, <1>3, <1>6

\* A node with both bundles at time t.
MadeAt(n, t) ==
  \A d \in Sides : LET e == InitBundle[<<n, d>>].entries IN Len(e) # 0 /\ e[1].ts <= t

LEMMA FirstMade ==
  /\ \A n \in Nodes : Len(InitBundle[<<n, Left>>].entries) = 0
                         <=> Len(InitBundle[<<n, Right>>].entries) = 0
  /\ MadeAt(Root, InitClock) /\ MadeAt(RootChild, InitClock)
  /\ \A b \in Bundles : \A i \in 1 .. Len(InitBundle[b].entries) :
       InitBundle[b].entries[i].ptr \in Nodes =>
          MadeAt(InitBundle[b].entries[i].ptr, InitBundle[b].entries[i].ts)
<1>1. /\ \A n \in Nodes : InitBundle[<<n, Left>>].entries = <<>>
                             <=> InitBundle[<<n, Right>>].entries = <<>>
      /\ MadeAt(Root, InitClock) /\ MadeAt(RootChild, InitClock)
      /\ \A b \in Bundles : \A i \in 1 .. Len(InitBundle[b].entries) :
           InitBundle[b].entries[i].ptr \in Nodes =>
              MadeAt(InitBundle[b].entries[i].ptr, InitBundle[b].entries[i].ts)
  BY InitTreeAssumption DEF MadeAt, Sides
<1>2. ASSUME NEW b \in Bundles
      PROVE  InitBundle[b].entries = <<>> <=> Len(InitBundle[b].entries) = 0
  <2>1. InitBundle[b].entries \in Seq(Entry)
    BY InitAssumption DEF Bundle
  <2> QED
    BY <2>1
<1>3. ASSUME NEW n \in Nodes
      PROVE  Len(InitBundle[<<n, Left>>].entries) = 0 <=> Len(InitBundle[<<n, Right>>].entries) = 0
  <2>1. PICK a \in Bundles, b \in Bundles : a = <<n, Left>> /\ b = <<n, Right>>
    BY TreeBasics
  <2>2. InitBundle[a].entries = <<>> <=> InitBundle[b].entries = <<>>
    BY <1>1, <2>1
  <2> QED
    BY <1>2, <2>1, <2>2
<1> QED
  BY <1>1, <1>3

LEMMA FirstBorn ==
  ASSUME Init, NEW n \in Nodes, NEW t, MadeAt(n, t)
  PROVE  BornAt(n, t)
<1> SUFFICES ASSUME NEW d \in Sides
             PROVE  Newest(bundle[<<n, d>>]) # 0 /\ Label(<<n, d>>, 1) <= t
  BY DEF BornAt
<1>1. PICK b \in Bundles : b = <<n, d>>
  BY TreeBasics
<1>2. PICK e : e = InitBundle[b].entries
  OBVIOUS
<1>3. Len(e) # 0 /\ e[1].ts <= t
  BY <1>1, <1>2 DEF MadeAt
<1>4. /\ Newest(InitBundle[b]) = Len(e) /\ Len(e) \in Nat
      /\ \A i \in 1 .. Len(e) : e[i].ts # Pending
  BY <1>2, FirstEntries
<1>5. e[1].ts # Pending
  BY <1>3, <1>4
<1>6. Label(b, 1) = e[1].ts /\ Newest(bundle[b]) = Len(e)
  BY <1>2, <1>4, <1>5 DEF Init, Label, IsPending
<1> QED
  BY <1>1, <1>3, <1>6

LEMMA FirstForm ==
  ASSUME TreeInit
  PROVE  TreeFormInv
<1>1. /\ key = InitKey /\ InitKey \in [Nodes -> SetKeys \cup {NoKey}]
      /\ lock = [n \in Nodes |-> NoProc] /\ marked = [n \in Nodes |-> FALSE]
      /\ tag = [b \in Bundles |-> 0] /\ alloc \subseteq Nodes
      /\ tpc = [p \in Procs |-> "idle"] /\ op = [p \in Procs |-> [type |-> "none"]]
      /\ my = [p \in Procs |-> Fresh] /\ todo \in Workloads
      /\ Workloads \subseteq [Procs -> Seq(Operation)]
  BY CitrusAssumption DEF TreeInit
<1>2. child \in [Bundles -> Ptrs \cup {NoPtr}]
  <2>1. ASSUME NEW b \in Bundles PROVE NewestPtr(InitBundle[b]) \in Ptrs \cup {NoPtr}
    <3>1. PICK bd \in Bundle : bd = InitBundle[b]
      BY InitAssumption
    <3>2. Newest(bd) \in Nat /\ \A i \in 1 .. Newest(bd) : bd.entries[i].ptr \in Ptrs
      BY NewestNat
    <3> QED
      BY <3>1, <3>2 DEF NewestPtr
  <2> QED
    BY <2>1 DEF TreeInit
<1>3. my \in [Procs -> Local]
  BY <1>1, FreshTyped
<1>4. marked \in [Nodes -> BOOLEAN]
  BY <1>1, Zenon
<1>5. tpc \in [Procs -> TPCs]
  BY <1>1 DEF TPCs
<1> QED
  BY <1>1, <1>2, <1>3, <1>4, <1>5 DEF TreeFormInv

LEMMA FirstLinks ==
  ASSUME TreeInit
  PROVE  RawInv /\ ClosedInv /\ MatchInv
<1>1. /\ Init /\ bundle = InitBundle /\ clock = InitClock /\ InitClock \in Nat
      /\ child = [b \in Bundles |-> NewestPtr(InitBundle[b])]
      /\ alloc = {n \in Nodes : Newest(InitBundle[<<n, Left>>]) # 0}
  BY ClockAssumption DEF TreeInit, Init
<1>2. ASSUME NEW n \in Nodes, NEW t \in Nat, t <= InitClock, MadeAt(n, t)
      PROVE  InTree(n)
  <2>1. PICK s \in Nat : s = clock /\ t <= s
    BY <1>1, <1>2
  <2>2. BornAt(n, t) /\ IInv
    BY <1>1, <1>2, FirstBorn, InitInv
  <2> QED
    BY <2>1, <2>2, BornLater DEF InTree
<1>3. ASSUME NEW n \in Nodes, NEW d \in Sides
      PROVE  /\ n \in alloc => child[<<n, d>>] \in Places
             /\ n \in alloc => \A m \in Nodes : child[<<n, d>>] = m => InTree(m)
             /\ n \notin alloc => Newest(bundle[<<n, d>>]) = 0 /\ child[<<n, d>>] = NoPtr
             /\ child[<<n, d>>] = NewestPtr(bundle[<<n, d>>])
  <2>1. PICK b \in Bundles : b = <<n, d>>
    BY TreeBasics
  <2>2. PICK e : e = InitBundle[b].entries
    OBVIOUS
  <2>3. /\ Newest(InitBundle[b]) = Len(e) /\ Len(e) \in Nat
        /\ \A i \in 1 .. Len(e) : e[i].ptr \in Places /\ e[i].ts \in Nat /\ e[i].ts <= InitClock
    BY <2>2, FirstEntries
  <2>4. n \in alloc <=> Len(e) # 0
    <3>1. d = Left \/ d = Right
      BY DEF Sides
    <3>2. n \in alloc <=> Len(InitBundle[<<n, Left>>].entries) # 0
      BY <1>1 DEF Newest
    <3>3. n \in alloc <=> Len(InitBundle[<<n, Right>>].entries) # 0
      BY <3>2, FirstMade
    <3> QED
      BY <2>1, <2>2, <3>1, <3>2, <3>3
  <2>5. child[b] = NewestPtr(bundle[b]) /\ NewestPtr(bundle[b]) = IF Len(e) = 0 THEN NoPtr ELSE e[Len(e)].ptr
    BY <1>1, <2>2, <2>3 DEF NewestPtr
  <2>6. ASSUME Len(e) # 0, NEW m \in Nodes, e[Len(e)].ptr = m PROVE InTree(m)
    <3>1. Len(e) \in 1 .. Len(e)
      BY <2>3, <2>6
    <3>2. MadeAt(m, e[Len(e)].ts)
      BY <2>2, <2>6, <3>1, FirstMade
    <3>3. e[Len(e)].ts \in Nat /\ e[Len(e)].ts <= InitClock
      BY <2>3, <3>1
    <3> QED
      BY <1>2, <3>2, <3>3
  <2>7. Len(e) # 0 => e[Len(e)].ptr \in Places
    BY <2>3
  <2> QED
    BY <1>1, <2>1, <2>3, <2>4, <2>5, <2>6, <2>7
<1>4. RawInv
  <2>1. InTree(Root) /\ InTree(RootChild)
    BY <1>1, <1>2, FirstMade, TreeBasics
  <2>2. alloc \subseteq Nodes
    BY <1>1
  <2> QED
    BY <1>3, <2>1, <2>2 DEF RawInv
<1>5. ClosedInv
  <2> SUFFICES ASSUME NEW b \in Bundles, NEW i \in 1 .. Newest(bundle[b]), NEW n \in Nodes,
                      bundle[b].entries[i].ptr = n
               PROVE  BornAt(n, Label(b, i))
    BY DEF ClosedInv, BornAt
  <2>1. PICK e : e = InitBundle[b].entries
    OBVIOUS
  <2>2. Newest(InitBundle[b]) = Len(e) /\ \A j \in 1 .. Len(e) : e[j].ts # Pending
    BY <2>1, FirstEntries
  <2>3. i \in 1 .. Len(e) /\ e[i].ptr = n /\ Label(b, i) = e[i].ts
    BY <1>1, <2>1, <2>2 DEF Label, IsPending
  <2>4. MadeAt(n, e[i].ts)
    BY <2>1, <2>3, FirstMade
  <2>5. PICK t : t = e[i].ts
    OBVIOUS
  <2>6. BornAt(n, t)
    BY <1>1, <2>4, <2>5, FirstBorn
  <2> QED
    BY <2>3, <2>5, <2>6
<1>6. MatchInv
  <2>1. alloc \subseteq Nodes
    BY <1>1
  <2> QED
    BY <1>3, <2>1 DEF MatchInv
<1> QED
  BY <1>4, <1>5, <1>6

LEMMA FirstLocals ==
  ASSUME TreeInit, NEW p \in Procs
  PROVE  TreeLocalInv(p)
<1>1. /\ pc[p] = "idle" /\ upd[p] = <<>> /\ tpc[p] = "idle" /\ my[p] = Fresh
  BY DEF TreeInit, Init
<1>2. InTree(Root) /\ InTree(RootChild)
  BY FirstLinks DEF RawInv
<1>3. TreeOpInv(p)
  BY <1>1 DEF TreeOpInv, PrevTPCs, SuccTPCs, WriteTPCs, UnlinkTPCs
<1>4. TreePcInv(p)
  BY <1>1 DEF TreePcInv, UnlinkTPCs
<1>5. TreePlaceInv(p)
  <2>1. /\ Fresh.prev = Root /\ Fresh.curr = RootChild /\ Fresh.prevSucc = Null /\ Fresh.succ = Null
        /\ Fresh.node = Null /\ Fresh.entry = Null /\ Fresh.left = Null
        /\ Len(Fresh.held) = 0 /\ Len(Fresh.stack) = 0
    BY DEF Fresh
  <2> QED
    BY <1>1, <1>2, <2>1, TreeBasics DEF TreePlaceInv, PrevTPCs, SuccTPCs
<1>6. TreeLockInv(p)
  BY <1>1 DEF TreeLockInv, PrevTPCs, SuccTPCs, WriteTPCs, UnlinkTPCs
<1>7. TreeWriteInv(p)
  <2>1. Len(upd[p]) = 0
    BY <1>1
  <2>2. \A k \in 1 .. Len(upd[p]) : WriteOf(p, k)
    BY <2>1
  <2> QED
    BY <1>1, <2>2 DEF TreeWriteInv, Unfixed, UnlinkTPCs
<1>8. TreeSnapshotInv(p)
  BY <1>1 DEF TreeSnapshotInv
<1> QED
  BY <1>3, <1>4, <1>5, <1>6, <1>7, <1>8 DEF TreeLocalInv

LEMMA FirstInv ==
  ASSUME TreeInit
  PROVE  SInv /\ TreeInv
<1>1. SInv
  BY InitStore DEF TreeInit
<1> QED
  BY <1>1, FirstForm, FirstLinks, FirstLocals DEF TreeInv

-----------------------------------------------------------------------------
(***************************************************************************)
(* A section that was open when p's synchronize() began is still open, on  *)
(* the value its thread's counter had then: once p has read the counter    *)
(* its copy has this value, and p does not get past the thread's turn.     *)
(***************************************************************************)
Awaited(p, q) ==
  /\ Reading(q)
  /\ sync[p] # "out"
  /\ sync[p] = "read" /\ q < turn[p] => times[p][q] = time[q]
  /\ sync[p] = "wait" => times[p][q] = time[q] /\ turn[p] <= q

RcuInv ==
  /\ RcuTypeOK
  /\ \A p \in Threads :
       /\ sync[p] = "out" => turn[p] = 1
       /\ \A q \in before[p] : Awaited(p, q)

LEMMA ThreadsFacts ==
  /\ Threads \subseteq Nat /\ 1 \in Threads /\ RcuThreads \in Threads
  /\ \A i \in Threads : i <= RcuThreads /\ (i < RcuThreads => i + 1 \in Threads)
BY RcuAssumption DEF Threads

LEMMA RcuTypeStep == RcuTypeOK /\ [RcuNext]_rcuVars => RcuTypeOK'
<1> SUFFICES ASSUME RcuTypeOK, [RcuNext]_rcuVars PROVE RcuTypeOK'
  OBVIOUS
<1> USE DEF RcuTypeOK
<1>1. ASSUME NEW p \in Threads, ReadLock(p) PROVE RcuTypeOK'
  BY <1>1 DEF ReadLock
<1>2. ASSUME NEW p \in Threads, ReadUnlock(p) PROVE RcuTypeOK'
  BY <1>2 DEF ReadUnlock
<1>3. ASSUME NEW p \in Threads, SyncStart(p) PROVE RcuTypeOK'
  BY <1>3 DEF SyncStart
<1>4. ASSUME NEW p \in Threads, NEW then \in {"wait", "out"}, NextThread(p, then)
      PROVE turn' \in [Threads -> Threads] /\ sync' \in [Threads -> {"out", "read", "wait"}]
  <2>1. CASE turn[p] < RcuThreads
    <3>1. turn[p] + 1 \in Threads
      BY <2>1, ThreadsFacts
    <3>2. turn' = [turn EXCEPT ![p] = turn[p] + 1] /\ sync' = sync
      BY <1>4, <2>1 DEF NextThread
    <3> QED BY <3>1, <3>2
  <2>2. CASE ~(turn[p] < RcuThreads)
    <3>1. turn' = [turn EXCEPT ![p] = 1] /\ sync' = [sync EXCEPT ![p] = then]
      BY <1>4, <2>2 DEF NextThread
    <3> QED BY <3>1, ThreadsFacts
  <2> QED BY <2>1, <2>2
<1>5. ASSUME NEW p \in Threads, SyncStep(p) PROVE RcuTypeOK'
  <2>1. CASE SyncRead(p)
    <3>1. time[turn[p]] \in Nat
      OBVIOUS
    <3>2. times' \in [Threads -> [Threads -> Nat]]
      BY <2>1, <3>1 DEF SyncRead
    <3> QED BY <1>4, <2>1, <3>2 DEF SyncRead
  <2>2. CASE SyncWait(p)
    BY <1>4, <2>2 DEF SyncWait
  <2> QED BY <1>5, <2>1, <2>2 DEF SyncStep
<1>6. CASE UNCHANGED rcuVars
  BY <1>6 DEF rcuVars
<1> QED BY <1>1, <1>2, <1>3, <1>5, <1>6 DEF RcuNext

\* A thread starts its next synchronize() with the first counter.
LEMMA TurnStep ==
  RcuInv /\ [RcuNext]_rcuVars => \A p \in Threads : sync'[p] = "out" => turn'[p] = 1
<1> SUFFICES ASSUME RcuInv, [RcuNext]_rcuVars, NEW p \in Threads, sync'[p] = "out"
             PROVE  turn'[p] = 1
  OBVIOUS
<1> USE DEF RcuInv, RcuTypeOK
<1>1. ASSUME NEW r \in Threads, ReadLock(r) \/ ReadUnlock(r) \/ SyncStart(r)
      PROVE turn'[p] = 1
  BY <1>1 DEF ReadLock, ReadUnlock, SyncStart
<1>2. ASSUME NEW r \in Threads, SyncStep(r) PROVE turn'[p] = 1
  BY <1>2 DEF SyncStep, SyncRead, SyncWait, NextThread
<1>3. CASE UNCHANGED rcuVars
  BY <1>3 DEF rcuVars
<1> QED BY <1>1, <1>2, <1>3 DEF RcuNext

\* No step lets p past a section it has to wait for.
LEMMA AwaitedStep ==
  RcuInv /\ [RcuNext]_rcuVars => \A p \in Threads : \A q \in before'[p] : Awaited(p, q)'
<1> SUFFICES ASSUME RcuInv, [RcuNext]_rcuVars, NEW p \in Threads, NEW q \in before'[p]
             PROVE  Awaited(p, q)'
  OBVIOUS
<1>0. RcuTypeOK /\ RcuTypeOK'
  BY RcuTypeStep DEF RcuInv
<1>00. q \in Threads
  BY <1>0 DEF RcuTypeOK
<1>1. ASSUME NEW r \in Threads, ReadLock(r) \/ ReadUnlock(r) PROVE Awaited(p, q)'
  <2>1. q \in before[p] /\ sync' = sync /\ turn' = turn /\ times' = times
    BY <1>0, <1>1 DEF ReadLock, ReadUnlock, RcuTypeOK
  <2>2. Awaited(p, q)
    BY <2>1 DEF RcuInv
  <2>3. q # r
    BY <1>0, <1>00, <1>1, <2>2 DEF ReadLock, ReadUnlock, Awaited, RcuTypeOK
  <2>4. time'[q] = time[q]
    BY <1>0, <1>00, <1>1, <2>3 DEF ReadLock, ReadUnlock, RcuTypeOK
  <2> QED BY <2>1, <2>2, <2>4 DEF Awaited, Reading
<1>2. ASSUME NEW r \in Threads, SyncStart(r) PROVE Awaited(p, q)'
  <2>1. CASE r = p
    <3>1. turn'[p] = 1 /\ sync'[p] = "read" /\ Reading(q) /\ time' = time
      BY <1>0, <1>2, <2>1 DEF SyncStart, RcuInv, RcuTypeOK
    <3>2. ~(q < 1)
      BY <1>00, RcuAssumption DEF Threads
    <3> QED BY <3>1, <3>2 DEF Awaited, Reading
  <2>2. CASE r # p
    <3>1. q \in before[p] /\ sync'[p] = sync[p] /\ UNCHANGED <<time, times, turn>>
      BY <1>0, <1>2, <2>2 DEF SyncStart, RcuTypeOK
    <3>2. Awaited(p, q)
      BY <3>1 DEF RcuInv
    <3> QED BY <3>1, <3>2 DEF Awaited, Reading
  <2> QED BY <2>1, <2>2
<1>3. ASSUME NEW r \in Threads, SyncStep(r), r # p PROVE Awaited(p, q)'
  <2>1. /\ q \in before[p] /\ time' = time /\ times'[p] = times[p]
        /\ sync'[p] = sync[p] /\ turn'[p] = turn[p]
    BY <1>0, <1>3 DEF SyncStep, SyncRead, SyncWait, NextThread, RcuTypeOK
  <2>2. Awaited(p, q)
    BY <2>1 DEF RcuInv
  <2> QED BY <2>1, <2>2 DEF Awaited, Reading
<1>4. CASE SyncRead(p)
  <2>1. q \in before[p] /\ time' = time /\ sync[p] = "read"
    BY <1>0, <1>4 DEF SyncRead, RcuTypeOK
  <2>2. Awaited(p, q)
    BY <2>1 DEF RcuInv
  <2>3. q = turn[p] \/ q < turn[p] => times'[p][q] = time[q]
    BY <1>0, <1>00, <1>4, <2>1, <2>2 DEF SyncRead, Awaited, RcuTypeOK
  <2>4. CASE turn[p] < RcuThreads
    <3>1. sync'[p] = "read" /\ turn'[p] = turn[p] + 1
      BY <1>0, <1>4, <2>1, <2>4 DEF SyncRead, NextThread, RcuTypeOK
    <3>2. q < turn[p] + 1 => q = turn[p] \/ q < turn[p]
      <4>1. q \in Nat /\ turn[p] \in Nat
        BY <1>0, <1>00, ThreadsFacts DEF RcuTypeOK
      <4> QED BY <4>1
    <3> QED BY <2>1, <2>2, <2>3, <3>1, <3>2 DEF Awaited, Reading
  <2>5. CASE ~(turn[p] < RcuThreads)
    <3>1. sync'[p] = "wait" /\ turn'[p] = 1
      BY <1>0, <1>4, <2>1, <2>5 DEF SyncRead, NextThread, RcuTypeOK
    <3>2. 1 <= q /\ (q = turn[p] \/ q < turn[p])
      <4>1. turn[p] \in 1 .. RcuThreads /\ q \in 1 .. RcuThreads
        BY <1>0, <1>00 DEF RcuTypeOK, Threads
      <4> QED BY <2>5, <4>1, RcuAssumption
    <3> QED BY <2>1, <2>2, <2>3, <3>1, <3>2 DEF Awaited, Reading
  <2> QED BY <2>4, <2>5
<1>5. CASE SyncWait(p)
  <2>1. q \in before[p] /\ time' = time /\ times' = times /\ sync[p] = "wait"
    BY <1>5 DEF SyncWait
  <2>2. Awaited(p, q)
    BY <2>1 DEF RcuInv
  <2>3. times[p][q] = time[q] /\ turn[p] <= q /\ time[q] % 2 = 0 /\ time[q] \in Nat
    BY <1>0, <1>00, <2>1, <2>2 DEF Awaited, Reading, RcuTypeOK
  <2>4. turn[p] # q
    BY <1>5, <2>3 DEF SyncWait
  <2>5. turn[p] < RcuThreads /\ turn[p] + 1 <= q
    <3>1. turn[p] \in 1 .. RcuThreads /\ q \in 1 .. RcuThreads
      BY <1>0, <1>00 DEF RcuTypeOK, Threads
    <3> QED BY <2>3, <2>4, <3>1, RcuAssumption
  <2>6. sync'[p] = "wait" /\ turn'[p] = turn[p] + 1
    BY <1>0, <1>5, <2>1, <2>5 DEF SyncWait, NextThread, RcuTypeOK
  <2> QED BY <2>1, <2>2, <2>3, <2>5, <2>6 DEF Awaited, Reading
<1>6. CASE UNCHANGED rcuVars
  <2>1. q \in before[p] /\ UNCHANGED <<time, times, sync, turn>>
    BY <1>6 DEF rcuVars
  <2> QED BY <2>1 DEF rcuVars, RcuInv, Awaited, Reading
<1> QED BY <1>1, <1>2, <1>3, <1>4, <1>5, <1>6 DEF RcuNext, SyncStep

LEMMA RcuInvariant == RcuSpec => []RcuInv
<1>1. RcuInit => RcuInv
  BY ThreadsFacts DEF RcuInit, RcuInv, RcuTypeOK
<1>2. RcuInv /\ [RcuNext]_rcuVars => RcuInv'
  BY RcuTypeStep, TurnStep, AwaitedStep DEF RcuInv
<1> QED BY <1>1, <1>2, PTL DEF RcuSpec

(***************************************************************************)
(* When synchronize() (citrus/urcu_impl.h) returns, every read-side        *)
(* section that was open when it was called has ended: no search that      *)
(* could have passed the old place of a moved successor is still under     *)
(* way when the successor is unlinked there.                               *)
(***************************************************************************)
THEOREM GracePeriodHolds == RcuSpec => []GracePeriod
<1>1. RcuInv => GracePeriod
  BY DEF RcuInv, RcuTypeOK, Awaited, GracePeriod
<1> QED BY <1>1, RcuInvariant, PTL

-----------------------------------------------------------------------------
(***************************************************************************)
(* The theorems.                                                           *)
(***************************************************************************)

\* The sections of the searches are the ones of module Urcu: the tree calls
\* readLock, readUnlock and synchronize (citrus/urcu_impl.h) as they expect it.
THEOREM TreeRunsReaders == TreeSpec => RcuSpec
<1>1. TreeInit => RcuInit
  BY DEF TreeInit
<1>2. [TreeNext]_treeVars => [RcuNext]_rcuVars
  BY RcuStep
<1> QED
  BY <1>1, <1>2, PTL DEF TreeSpec, RcuSpec

\* When an erase unlinks a successor it has copied, the searches that were under
\* way when it called synchronize have ended.
THEOREM TreeWaitsForSearches == TreeSpec => []GracePeriod
BY TreeRunsReaders, GracePeriodHolds, PTL

\* The invariant at the top of this module: the tree's variables are typed, the
\* links in use and the bundles' entries lead to nodes that have bundles of their
\* own by then, idle links are what their bundles say, and every operation holds
\* the locks, the nodes and the writes that its place in the code requires.
THEOREM TreeInvariance ==
  ASSUME EveryUpdate
  PROVE  TreeSpec => [](SInv /\ TreeInv /\ RcuTypeOK)
<1>1. TreeInit => SInv /\ TreeInv
  BY FirstInv
<1>2. SInv /\ TreeInv /\ [TreeNext]_treeVars => (SInv /\ TreeInv)'
  BY TreeKeeps
<1>3. TreeSpec => [](SInv /\ TreeInv)
  BY <1>1, <1>2, PTL DEF TreeSpec
<1>4. RcuInv => RcuTypeOK
  BY DEF RcuInv
<1> QED
  BY <1>3, <1>4, TreeRunsReaders, RcuInvariant, PTL

\* The tree calls the provider as the provider expects it, so that whatever is
\* proved about the provider holds of the tree's bundles.
THEOREM TreeRunsProvider ==
  ASSUME EveryUpdate
  PROVE  TreeSpec => Spec
<1>1. TreeInit => Init /\ SInv /\ TreeInv
  BY FirstInv DEF TreeInit
<1>2. SInv /\ TreeInv /\ [TreeNext]_treeVars => (SInv /\ TreeInv)' /\ [Next]_vars
  BY TreeKeeps
<1> QED
  BY <1>1, <1>2, PTL DEF TreeSpec, Spec

\* So the range queries of the tree read one snapshot: what every lookup finds is
\* what its link led to at the query's timestamp (rq_bundle.h), and the bundles
\* implement the abstract store whatever the updates of the tree are.
THEOREM TreeQueriesReadSnapshot ==
  ASSUME EveryUpdate
  PROVE  TreeSpec => []ReadsSnapshot /\ ImplementsStore
<1>1. ~Cleanup
  BY TreeBasics
<1>2. (Spec => []ReadsSnapshot) /\ (Spec => ImplementsStore)
  BY <1>1, QueriesReadSnapshot, ProviderImplementsStore
<1> QED
  BY <1>2, TreeRunsProvider, PTL

LEMMA TypesOfInv ==
  ASSUME TreeInv, RcuTypeOK
  PROVE  TreeTypeOK
<1>1. TreeFormInv /\ RawInv
  BY DEF TreeInv
<1>2. child \in [Bundles -> alloc \cup {Null, NoPtr}]
  <2>1. ASSUME NEW b \in Bundles PROVE child[b] \in alloc \cup {Null, NoPtr}
    <3>1. b[1] \in Nodes /\ b[2] \in Sides /\ b = <<b[1], b[2]>>
      BY TreeBasics
    <3>2. PICK n \in Nodes, d \in Sides : b = <<n, d>>
      BY <3>1
    <3>3. CASE n \in alloc
      <4>1. child[<<n, d>>] \in alloc \cup {Null}
        BY <3>3, ChildOf
      <4> QED
        BY <3>2, <4>1
    <3>4. CASE n \notin alloc
      BY <1>1, <3>2, <3>4 DEF RawInv
    <3> QED
      BY <3>3, <3>4
  <2>2. child \in [Bundles -> Ptrs \cup {NoPtr}]
    BY <1>1 DEF TreeFormInv
  <2> QED
    BY <2>1, <2>2
<1>3. ASSUME NEW p \in Procs
      PROVE  /\ {my[p].curr, my[p].node, my[p].succ, my[p].entry, my[p].left} \subseteq alloc \cup {Null}
             /\ Range(my[p].held \o my[p].stack) \subseteq alloc
  <2>1. TreePlaceInv(p) /\ my[p].held \in Seq(Nodes) /\ my[p].stack \in Seq(Nodes)
    BY Stands DEF TreeLocalInv, Local
  <2>2. {my[p].curr, my[p].node, my[p].succ, my[p].entry, my[p].left} \subseteq alloc \cup {Null}
    BY <2>1, Stands DEF TreePlaceInv
  <2>3. PICK s, t : s = my[p].held /\ t = my[p].stack
    OBVIOUS
  <2>4. /\ s \in Seq(Nodes) /\ \A i \in 1 .. Len(s) : s[i] \in alloc
        /\ t \in Seq(Nodes) /\ \A i \in 1 .. Len(t) : t[i] \in alloc
    BY <2>1, <2>3 DEF TreePlaceInv
  <2>5. s \in Seq(alloc) /\ t \in Seq(alloc)
    BY <2>4, SeqOfElements
  <2>6. s \o t \in Seq(alloc)
    BY <2>5
  <2>7. PICK u \in Seq(alloc) : u = s \o t
    BY <2>6
  <2>8. Range(u) \subseteq alloc
    BY DEF Range
  <2> QED
    BY <2>2, <2>3, <2>7, <2>8
<1> QED
  BY <1>1, <1>2, <1>3 DEF TreeTypeOK, TreeFormInv

\* The tree is well typed, and none of its links, and no pointer an operation
\* holds, leads to a node that is not in use.
THEOREM TreeTypes ==
  ASSUME EveryUpdate
  PROVE  TreeSpec => []TreeTypeOK
<1>1. TreeInv /\ RcuTypeOK => TreeTypeOK
  BY TypesOfInv
<1> QED
  BY <1>1, TreeInvariance, PTL

LEMMA FoundByInv ==
  ASSUME SInv, TreeInv
  PROVE  EntryFound
<1> SUFFICES ASSUME NEW p \in Procs
             PROVE  LET known(b) == ValueAt(b, qts[p]) # NoPtr IN
                    /\ HasRead(p, "enter") => known(Link(p))
                    /\ HasRead(p, "descend") /\ ~Stops(p, out[p]) => known(NextLink(p))
                    /\ HasRead(p, "collect") => \A n \in Range(my[p].stack) : known(<<n, Left>>)
                    /\ HasRead(p, "left") => known(<<my[p].curr, Right>>)
  BY DEF EntryFound
<1>1. ASSUME NEW n \in Nodes, InSnapshot(p, n), NEW d \in Sides, NEW b, b = <<n, d>>
      PROVE  ValueAt(b, qts[p]) # NoPtr
  <2>1. IInv
    BY DEF SInv, RInv
  <2>2. PICK t : t = qts[p]
    OBVIOUS
  <2>3. ValueAt(<<n, d>>, t) # NoPtr
    BY <1>1, <2>1, <2>2, BornValue DEF InSnapshot
  <2> QED
    BY <1>1, <2>2, <2>3
<1>2. /\ TreeSnapshotInv(p) /\ my[p].prev \in Nodes /\ my[p].dir \in Sides
      /\ Link(p) = <<my[p].prev, my[p].dir>> /\ my[p].curr \in Places /\ my[p].stack \in Seq(Nodes)
  BY Stands DEF TreeLocalInv, Local
<1>3. ASSUME HasRead(p, "enter") PROVE ValueAt(Link(p), qts[p]) # NoPtr
  <2>1. InSnapshot(p, my[p].prev)
    BY <1>2, <1>3 DEF TreeSnapshotInv, HasRead
  <2> QED
    BY <1>1, <1>2, <2>1
<1>4. ASSUME HasRead(p, "descend"), ~Stops(p, out[p]) PROVE ValueAt(NextLink(p), qts[p]) # NoPtr
  <2>1. tpc[p] = "descend" /\ pc[p] = "query" /\ out[p] # Null
    BY <1>4 DEF HasRead, Stops
  <2>2. out[p] \in Nodes /\ InSnapshot(p, out[p])
    BY <2>1, ReadResult DEF Places
  <2>3. my[p].first => InSnapshot(p, my[p].prev)
    BY <1>2, <2>1 DEF TreeSnapshotInv
  <2>4. PICK n \in Nodes : InSnapshot(p, n) /\ n = IF my[p].first THEN my[p].prev ELSE out[p]
    BY <1>2, <2>2, <2>3
  <2>5. Side(p, out[p]) \in Sides
    BY SideOf
  <2>6. NextLink(p) = <<n, Side(p, out[p])>>
    BY <2>4 DEF NextLink
  <2> QED
    BY <1>1, <2>4, <2>5, <2>6
<1>5. ASSUME HasRead(p, "collect"), NEW n \in Range(my[p].stack)
      PROVE  ValueAt(<<n, Left>>, qts[p]) # NoPtr
  <2>1. PICK s \in Seq(Nodes) : s = my[p].stack
    BY <1>2
  <2>2. PICK i \in 1 .. Len(s) : n = s[i]
    BY <1>5, <2>1 DEF Range
  <2>3. n \in Nodes
    BY <2>2
  <2>4. InSnapshot(p, n)
    BY <1>2, <1>5, <2>1, <2>2, <2>3 DEF TreeSnapshotInv, HasRead
  <2> QED
    BY <1>1, <2>3, <2>4, TreeBasics
<1>6. ASSUME HasRead(p, "left") PROVE ValueAt(<<my[p].curr, Right>>, qts[p]) # NoPtr
  <2>1. my[p].curr \in Nodes /\ InSnapshot(p, my[p].curr)
    BY <1>2, <1>6 DEF TreeSnapshotInv, HasRead, Places
  <2> QED
    BY <1>1, <2>1, TreeBasics
<1> QED
  BY <1>3, <1>4, <1>5, <1>6

\* A range query (bundle_citrus_impl.h) never asks a bundle for a time before its
\* oldest entry: the asserts after getPtrByTimestamp hold.
THEOREM EntriesAreFound ==
  ASSUME EveryUpdate
  PROVE  TreeSpec => []EntryFound
<1>1. SInv /\ TreeInv => EntryFound
  BY FoundByInv
<1> QED
  BY <1>1, TreeInvariance, PTL

\* The links of a node that nobody has locked, and that is not deleted, are what
\* the newest entries of its bundles say: an erase that has shown its whole
\* change in the bundles makes up for it in the links before it lets go.
THEOREM LinksFollowBundles ==
  ASSUME EveryUpdate
  PROVE  TreeSpec => []LinksMatchBundles
<1>1. ASSUME SInv, TreeInv PROVE LinksMatchBundles
  <2> SUFFICES ASSUME NEW n \in alloc, lock[n] = NoProc, ~marked[n], NEW d \in Sides
               PROVE  child[<<n, d>>] = NewestPtr(bundle[<<n, d>>])
    BY DEF LinksMatchBundles, Sides
  <2>1. n \in Nodes /\ <<n, d>> \in Bundles /\ NoProc \notin Procs
    BY <1>1, ChildOf, TreeBasics
  <2>2. owner[<<n, d>>] \in Procs \cup {NoProc}
    BY <1>1, <2>1, TreeBasics DEF SInv, RInv, IInv, TypeOK
  <2>3. owner[<<n, d>>] \notin Procs
    <3>1. ASSUME NEW p \in Procs, owner[<<n, d>>] = p PROVE FALSE
      <4>1. lock[n] = p
        BY <1>1, <2>1, <3>1, OwnedBundle
      <4> QED
        BY <2>1, <4>1
    <3> QED
      BY <3>1
  <2> QED
    BY <1>1, <2>2, <2>3 DEF TreeInv, MatchInv
<1>2. SInv /\ TreeInv => LinksMatchBundles
  BY <1>1
<1> QED
  BY <1>2, TreeInvariance, PTL
=============================================================================
