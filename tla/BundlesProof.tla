---------------------------- MODULE BundlesProof ----------------------------
(***************************************************************************)
(* Proofs about the bundled range-query provider, for any number of        *)
(* processes, bundles, entries and updates.                                *)
(***************************************************************************)
EXTENDS Bundles, SequenceTheorems, WellFoundedInduction, TLAPS

-----------------------------------------------------------------------------
(***************************************************************************)
(* The bundle operators.                                                   *)
(***************************************************************************)

\* A set of positions in a bundle has a greatest one: the CHOOSE of Reclaimed
\* and of VersionAt is met.
LEMMA Greatest ==
  ASSUME NEW n \in Nat, NEW S \in SUBSET (0 .. n), S # {}
  PROVE  LET m == CHOOSE i \in S : \A j \in S : j <= i
         IN  m \in S /\ \A j \in S : j <= m
<1> DEFINE T == {n - i : i \in S}
<1>1. T \subseteq Nat /\ T # {}
  <2>1. \A i \in S : i \in 0 .. n
    OBVIOUS
  <2>2. \A i \in S : n - i \in Nat
    BY <2>1
  <2>3. PICK i \in S : TRUE
    OBVIOUS
  <2>4. n - i \in T
    BY <2>3
  <2> QED
    BY <2>2, <2>4
<1>2. IsWellFoundedOn(OpToRel(<, Nat), Nat)
  BY NatLessThanWellFounded
<1>3. PICK x \in T : \A y \in T : ~(<<y, x>> \in OpToRel(<, Nat))
  BY <1>1, <1>2, WFMin
<1>4. PICK i \in S : x = n - i
  BY <1>3
<1>5. \A y \in T : ~(y < x)
  BY <1>1, <1>3 DEF OpToRel
<1>6. \A j \in S : j <= i
  <2> TAKE j \in S
  <2>1. n - j \in T
    OBVIOUS
  <2>2. ~(n - j < n - i)
    BY <2>1, <1>5, <1>4
  <2> QED
    BY <2>2
<1> QED
  BY <1>6

\* prepare() adds a pending entry at the head and leaves the others alone.
LEMMA PreparedProps ==
  ASSUME NEW bd \in Bundle, NEW p \in Ptrs
  PROVE  /\ Prepared(bd, p) \in Bundle
         /\ Newest(Prepared(bd, p)) = Newest(bd) + 1
         /\ Prepared(bd, p).low = bd.low
         /\ \A i \in 1 .. Newest(bd) : Prepared(bd, p).entries[i] = bd.entries[i]
         /\ Prepared(bd, p).entries[Newest(bd) + 1] = [ts |-> Pending, ptr |-> p]
<1> DEFINE e == [ts |-> Pending, ptr |-> p]
<1>1. e \in Entry /\ bd.entries \in Seq(Entry)
  BY PendingAssumption DEF Entry, Bundle
<1>2. /\ Append(bd.entries, e) \in Seq(Entry)
      /\ Len(Append(bd.entries, e)) = Len(bd.entries) + 1
      /\ \A i \in 1 .. Len(bd.entries) : Append(bd.entries, e)[i] = bd.entries[i]
      /\ Append(bd.entries, e)[Len(bd.entries) + 1] = e
  BY <1>1, AppendProperties
<1>3. Prepared(bd, p) = [entries |-> Append(bd.entries, e), low |-> bd.low]
  BY DEF Prepared, Bundle
<1> QED
  BY <1>2, <1>3 DEF Newest, Bundle

\* finalize() labels the head entry and leaves the others alone.
LEMMA FinalizedProps ==
  ASSUME NEW bd \in Bundle, NEW t \in Nat, Newest(bd) # 0
  PROVE  /\ Finalized(bd, t) \in Bundle
         /\ Newest(Finalized(bd, t)) = Newest(bd)
         /\ Finalized(bd, t).low = bd.low
         /\ \A i \in 1 .. Newest(bd) :
              i # Newest(bd) => Finalized(bd, t).entries[i] = bd.entries[i]
         /\ Finalized(bd, t).entries[Newest(bd)].ts = t
         /\ Finalized(bd, t).entries[Newest(bd)].ptr = bd.entries[Newest(bd)].ptr
<1> DEFINE n == Newest(bd)
           e == [bd.entries[n] EXCEPT !.ts = t]
<1>1. bd.entries \in Seq(Entry) /\ n \in 1 .. Len(bd.entries)
  BY LenProperties DEF Newest, Bundle
<1>2. bd.entries[n] \in Entry
  BY <1>1, ElementOfSeq
<1>3. e \in Entry /\ e.ts = t /\ e.ptr = bd.entries[n].ptr
  BY <1>2 DEF Entry
<1> DEFINE s == [bd.entries EXCEPT ![n] = e]
<1> HIDE DEF e
<1>4. /\ s \in Seq(Entry) /\ Len(s) = Len(bd.entries)
      /\ \A j \in 1 .. Len(bd.entries) : s[j] = IF j = n THEN e ELSE bd.entries[j]
  BY <1>1, <1>3, ExceptSeq
<1>5. Finalized(bd, t) = [bd EXCEPT !.entries = s]
  BY DEF Finalized, Newest, e
<1> HIDE DEF s
<1>6. Finalized(bd, t) = [entries |-> s, low |-> bd.low]
  BY <1>5 DEF Bundle
<1> QED
  BY <1>1, <1>3, <1>4, <1>6 DEF Newest, Bundle

\* reclaimEntries() moves low up to an entry that the timestamp needs, and
\* changes no entry.
LEMMA ReclaimedProps ==
  ASSUME NEW bd \in Bundle, NEW h \in 1 .. Newest(bd), NEW t \in Nat
  PROVE  /\ Reclaimed(bd, h, t) \in Bundle
         /\ Reclaimed(bd, h, t).entries = bd.entries
         /\ \/ Reclaimed(bd, h, t).low = bd.low
            \/ /\ Reclaimed(bd, h, t).low \in bd.low .. h
               /\ bd.entries[Reclaimed(bd, h, t).low].ts <= t
<1> DEFINE first == IF IsPending(bd, h) THEN NextOf(bd, h) ELSE h
           needed == {i \in bd.low .. first : bd.entries[i].ts <= t}
           m == CHOOSE i \in needed : \A j \in needed : j <= i
<1>1. bd.low \in Nat \ {0} /\ h \in Nat /\ first \in 0 .. h
  BY LenProperties DEF Bundle, Newest, NextOf
<1>2. CASE needed = {}
  BY <1>2 DEF Reclaimed
<1>3. CASE needed # {}
  <2>1. needed \in SUBSET (0 .. h)
    BY <1>1
  <2> HIDE DEF first
  <2>2. m \in needed
    <3> HIDE DEF needed
    <3> QED
      BY <2>1, <1>1, <1>3, Greatest
  <2>3. Reclaimed(bd, h, t) = [bd EXCEPT !.low = m]
    BY <1>3 DEF Reclaimed, first
  <2>4. m \in bd.low .. first /\ bd.entries[m].ts <= t
    <3> DEFINE P(i) == bd.entries[i].ts <= t
    <3>1. m \in {i \in bd.low .. first : P(i)}
      BY <2>2
    <3> HIDE DEF P, m
    <3>2. m \in bd.low .. first /\ P(m)
      BY <3>1
    <3> QED
      BY <3>2 DEF P
  <2> HIDE DEF m
  <2>5. m \in bd.low .. h /\ m \in Nat \ {0}
    BY <2>4, <1>1
  <2> QED
    BY <2>3, <2>4, <2>5 DEF Bundle
<1> QED
  BY <1>2, <1>3

-----------------------------------------------------------------------------
(***************************************************************************)
(* The inductive invariant.  TypeOK and the order of the labels are not    *)
(* inductive by themselves: that the label an update finalizes with is     *)
(* greater than those below it rests on the update having held the lock    *)
(* since before it loaded the clock, and that it has been reached on the   *)
(* second load of getNextTS.                                               *)
(***************************************************************************)
ClockInv == FirstTS <= clock /\ clock < Pending

\* What the local variables of an update hold at each of its steps.
UpdateInv ==
  \A p \in Procs :
     /\ IF pc[p] \in UpdatePCs
        THEN p \in Updaters /\ upd[p] \in Updates /\ idx[p] \in 1 .. Len(upd[p])
        ELSE upd[p] = <<>> /\ idx[p] = 0
     /\ pc[p] \in {"load", "reload", "bump"} => idx[p] = 1
     /\ ts[p] # NullTS <=> pc[p] \in {"reload", "bump", "finalize", "unlock"}
     /\ ts[p] <= clock /\ ts[p] + 1 < Pending
     /\ pc[p] \in {"finalize", "unlock"} => ts[p] < clock

\* An update owns its bundles, and no others.
OwnerInv ==
  \A p \in Updaters, b \in Bundles : owner[b] = p <=> b \in BundlesOf(upd[p])

\* p has prepared its kth bundle and not yet finalized it.
Awaits(p, k) ==
  \/ pc[p] = "prepare" /\ k < idx[p]
  \/ pc[p] \in {"load", "reload", "bump"}
  \/ pc[p] = "finalize" /\ k >= idx[p]

\* A pending entry is the head, and some update is going to finalize it.
PendingInv ==
  \A b \in Bundles : \A i \in 1 .. Newest(bundle[b]) :
     IsPending(bundle[b], i) =>
        /\ i = Newest(bundle[b])
        /\ \E p \in Updaters : \E k \in 1 .. Len(upd[p]) :
              upd[p][k].bundle = b /\ Awaits(p, k)

\* The head of a bundle an update has prepared is pending, and the label it is
\* going to get is greater than those of the entries below.
AwaitInv ==
  \A p \in Updaters : \A k \in 1 .. Len(upd[p]) :
     Awaits(p, k) =>
        LET bd == bundle[upd[p][k].bundle] IN
        /\ Newest(bd) # 0
        /\ IsPending(bd, Newest(bd))
        /\ ts[p] # NullTS =>
              \A i \in 1 .. Newest(bd) : i # Newest(bd) => bd.entries[i].ts <= ts[p]

OrderInv ==
  \A b \in Bundles : \A i, j \in 1 .. Newest(bundle[b]) :
     i < j => bundle[b].entries[i].ts < bundle[b].entries[j].ts

\* A read stands on an entry, or has come to the end of the list.
ReaderInv ==
  \A p \in Procs :
     /\ pc[p] \in LookupPCs \cup {"get"} =>
           at[p] \in Bundles /\ cur[p] \in 0 .. Newest(bundle[at[p]])
     /\ pc[p] \in {"first", "second", "secondTS", "wait", "get"} => cur[p] # 0
     /\ pc[p] = "secondTS" => cur[p] # 1

CleanerInv ==
  cpc = "cut" => cbun \in Bundles /\ chead \in 1 .. Newest(bundle[cbun])

\* The part of the invariant that updates keep, and the whole of it.
UInv ==
  /\ ClockInv /\ UpdateInv /\ OwnerInv /\ LabelsReached
  /\ PendingInv /\ AwaitInv /\ OrderInv

IInv == TypeOK /\ UInv /\ ReaderInv /\ CleanerInv

-----------------------------------------------------------------------------
\* What an update is: one or more writes, each to another bundle.
LEMMA UpdateProps ==
  ASSUME NEW w \in Updates
  PROVE  /\ Len(w) \in Nat \ {0}
         /\ \A k \in 1 .. Len(w) : w[k].bundle \in Bundles /\ w[k].ptr \in Ptrs
         /\ \A j, k \in 1 .. Len(w) : w[j].bundle = w[k].bundle => j = k
<1>1. w \in Seq([bundle : Bundles, ptr : Ptrs]) /\ w # <<>>
  BY UpdatesAssumption
<1>2. Len(w) \in Nat \ {0}
  BY <1>1, LenProperties, EmptySeq
<1>3. \A k \in 1 .. Len(w) : w[k] \in [bundle : Bundles, ptr : Ptrs]
  BY <1>1, ElementOfSeq
<1> QED
  BY <1>2, <1>3, UpdatesAssumption

\* The number of entries of a bundle.
LEMMA NewestNat ==
  ASSUME NEW bd \in Bundle
  PROVE  /\ Newest(bd) \in Nat
         /\ bd.low \in Nat \ {0}
         /\ \A i \in 1 .. Newest(bd) : bd.entries[i].ts \in Nat /\ bd.entries[i].ptr \in Ptrs
<1>1. bd.entries \in Seq(Entry) /\ bd.low \in Nat \ {0}
  BY DEF Bundle
<1>2. Len(bd.entries) \in Nat
  BY <1>1, LenProperties
<1>3. \A i \in 1 .. Len(bd.entries) : bd.entries[i] \in Entry
  BY <1>1, ElementOfSeq
<1> QED
  BY <1>1, <1>2, <1>3 DEF Newest, Entry

LEMMA InitInv == Init => IInv
<1> SUFFICES ASSUME Init PROVE IInv
  OBVIOUS
<1>1. \A b \in Bundles : /\ InitBundle[b] \in Bundle
                         /\ Newest(InitBundle[b]) \in Nat
                         /\ \A i \in 1 .. Newest(InitBundle[b]) :
                              InitBundle[b].entries[i].ts \in FirstTS .. InitClock
  BY InitAssumption, NewestNat DEF Newest
<1>2. Len(<<>>) = 0 /\ NumProcs \in Nat \ {0} /\ 1 \in Procs
  BY ProcsAssumption DEF Procs
<1>3. TypeOK
  BY <1>1, <1>2, InitAssumption, ClockAssumption
  DEF Init, TypeOK, NullTS, NoProc, PCs
<1>4. ClockInv
  BY ClockAssumption DEF Init, ClockInv
<1>5. UpdateInv
  BY ClockAssumption, PendingAssumption
  DEF Init, UpdateInv, UpdatePCs, NullTS, FirstTS
<1>6. OwnerInv
  BY ProcsAssumption DEF Init, OwnerInv, BundlesOf, NoProc, Procs
<1>7. \A b \in Bundles : \A i \in 1 .. Newest(bundle[b]) :
         bundle[b].entries[i].ts <= clock /\ ~IsPending(bundle[b], i)
  BY <1>1, ClockAssumption, PendingAssumption DEF Init, IsPending, FirstTS
<1>8. LabelsReached /\ PendingInv
  BY <1>7 DEF LabelsReached, PendingInv
<1>9. AwaitInv
  BY ProcsAssumption DEF Init, AwaitInv, Awaits
<1>10. OrderInv
  BY <1>1, InitAssumption DEF Init, OrderInv, Newest
<1>11. ReaderInv /\ CleanerInv
  BY DEF Init, ReaderInv, CleanerInv, LookupPCs
<1> QED
  BY <1>3, <1>4, <1>5, <1>6, <1>8, <1>9, <1>10, <1>11 DEF IInv, UInv

-----------------------------------------------------------------------------
(***************************************************************************)
(* Types.                                                                  *)
(***************************************************************************)

\* A read that stands on entry i of its bundle returns a pointer, or nothing.
LEMMA ReturnType ==
  ASSUME TypeOK, NEW p \in Procs, at[p] \in Bundles,
         NEW i \in 0 .. Newest(bundle[at[p]]), NEW l, Return(p, i, l)
  PROVE  /\ out' \in [Procs -> Ptrs \cup {NoPtr}]
         /\ cur' = [cur EXCEPT ![p] = 0]
         /\ pc' = [pc EXCEPT ![p] = l]
<1>1. bundle[at[p]] \in Bundle
  BY DEF TypeOK
<1>2. i # 0 => bundle[at[p]].entries[i].ptr \in Ptrs
  BY <1>1, NewestNat
<1>3. PICK v \in IF i = 0 THEN {NoPtr}
                 ELSE IF Freed(at[p], i) THEN Ptrs ELSE {bundle[at[p]].entries[i].ptr} :
        out' = [out EXCEPT ![p] = v]
  BY DEF Return
<1>4. v \in Ptrs \cup {NoPtr}
  BY <1>2, <1>3
<1> QED
  BY <1>3, <1>4 DEF Return, TypeOK

LEMMA TypeUpdate ==
  ASSUME IInv, NEW p \in Updaters, Update(p)
  PROVE  TypeOK'
<1> USE DEF IInv, UInv
<1>1. p \in Procs
  BY ProcsAssumption
<1>2. ASSUME pc[p] \in UpdatePCs
      PROVE  /\ upd[p] \in Updates /\ idx[p] \in 1 .. Len(upd[p]) /\ Len(upd[p]) \in Nat
             /\ upd[p][idx[p]].bundle \in Bundles /\ upd[p][idx[p]].ptr \in Ptrs
             /\ bundle[upd[p][idx[p]].bundle] \in Bundle
  BY <1>1, <1>2, UpdateProps DEF UpdateInv, TypeOK
<1>3. ASSUME NEW w \in Updates, BeginUpdate(p, w) PROVE TypeOK'
  <2>1. Len(w) \in Nat \ {0}
    BY UpdateProps
  <2>2. owner' \in [Bundles -> Updaters \cup {NoProc}]
    BY <1>3 DEF TypeOK, BeginUpdate
  <2>3. upd' \in [Procs -> Updates \cup {<<>>}] /\ idx' \in [Procs -> Nat]
    BY <1>1, <1>3 DEF TypeOK, BeginUpdate
  <2>4. ASSUME NEW q \in Procs PROVE idx'[q] <= Len(upd'[q])
    <3>1. CASE q = p
      <4>1. idx'[q] = 1 /\ upd'[q] = w
        BY <1>1, <1>3, <3>1 DEF TypeOK, BeginUpdate
      <4> QED
        BY <2>1, <4>1
    <3>2. CASE q # p
      <4>1. idx'[q] = idx[q] /\ upd'[q] = upd[q]
        BY <1>1, <1>3, <3>2 DEF TypeOK, BeginUpdate
      <4> QED
        BY <4>1 DEF TypeOK
    <3> QED
      BY <3>1, <3>2
  <2>5. pc' \in [Procs -> PCs]
    BY <1>1, <1>3 DEF TypeOK, BeginUpdate, PCs, UpdatePCs
  <2> QED
    BY <1>3, <2>2, <2>3, <2>4, <2>5
    DEF TypeOK, BeginUpdate, announceVars, readVars, cleanVars
<1>4. ASSUME NEW l \in {"load", "unlock"}, pc[p] \in UpdatePCs, NextBundle(p, l),
             UNCHANGED upd
      PROVE  /\ idx' \in [Procs -> Nat] /\ \A q \in Procs : idx'[q] <= Len(upd'[q])
             /\ pc' \in [Procs -> PCs]
  <2>1. idx[p] \in 1 .. Len(upd[p]) /\ Len(upd[p]) \in Nat
    BY <1>2, <1>4
  <2>2. /\ idx' \in [Procs -> Nat]
        /\ idx'[p] <= Len(upd[p])
        /\ \A q \in Procs : q # p => idx'[q] = idx[q]
    <3>1. PICK j \in Nat : j <= Len(upd[p]) /\ idx' = [idx EXCEPT ![p] = j]
      <4>1. idx[p] < Len(upd[p]) => idx[p] + 1 \in Nat /\ idx[p] + 1 <= Len(upd[p])
        BY <2>1
      <4>2. 1 \in Nat /\ 1 <= Len(upd[p])
        BY <2>1
      <4>3. \/ idx[p] < Len(upd[p]) /\ idx' = [idx EXCEPT ![p] = idx[p] + 1]
            \/ idx' = [idx EXCEPT ![p] = 1]
        BY <1>4 DEF NextBundle
      <4> QED
        BY <4>1, <4>2, <4>3
    <3>2. idx \in [Procs -> Nat]
      BY DEF TypeOK
    <3> QED
      BY <1>1, <3>1, <3>2
  <2>3. ASSUME NEW q \in Procs PROVE idx'[q] <= Len(upd'[q])
    <3>1. idx[q] <= Len(upd[q])
      BY DEF TypeOK
    <3> QED
      BY <1>4, <2>2, <3>1
  <2>4. pc' \in [Procs -> PCs]
    BY <1>1, <1>4 DEF NextBundle, TypeOK, PCs, UpdatePCs
  <2> QED
    BY <2>2, <2>3, <2>4
<1>5. CASE Prepare(p)
  <2> DEFINE w == upd[p][idx[p]]
  <2>1. pc[p] \in UpdatePCs
    BY <1>5 DEF Prepare, UpdatePCs
  <2>2. Prepared(bundle[w.bundle], w.ptr) \in Bundle
    BY <1>2, <2>1, PreparedProps
  <2>3. bundle' \in [Bundles -> Bundle]
    BY <1>5, <2>2 DEF Prepare, TypeOK
  <2> QED
    BY <1>4, <1>5, <2>1, <2>3 DEF TypeOK, Prepare, announceVars, readVars, cleanVars
<1>6. CASE LoadTS(p)
  BY <1>1, <1>6 DEF TypeOK, LoadTS, PCs, UpdatePCs, announceVars, readVars, cleanVars
<1>7. CASE ReloadTS(p)
  BY <1>1, <1>7 DEF TypeOK, ReloadTS, PCs, UpdatePCs, updateVars, announceVars, readVars, cleanVars
<1>8. CASE FetchAdd(p)
  BY <1>1, <1>8 DEF TypeOK, FetchAdd, PCs, UpdatePCs, updateVars, announceVars, readVars, cleanVars
<1>9. CASE Finalize(p)
  <2> DEFINE w == upd[p][idx[p]]
  <2>1. pc[p] \in UpdatePCs
    BY <1>9 DEF Finalize, UpdatePCs
  <2>2. Newest(bundle[w.bundle]) # 0
    <3>1. idx[p] \in 1 .. Len(upd[p]) /\ idx[p] >= idx[p]
      BY <1>2, <2>1
    <3>2. Awaits(p, idx[p])
      BY <1>9, <3>1 DEF Finalize, Awaits
    <3> QED
      BY <3>1, <3>2 DEF AwaitInv
  <2>3. Finalized(bundle[w.bundle], ts[p] + 1) \in Bundle
    BY <1>1, <1>2, <2>1, <2>2, FinalizedProps DEF TypeOK
  <2>4. bundle' \in [Bundles -> Bundle]
    BY <1>9, <2>3 DEF Finalize, TypeOK
  <2> QED
    BY <1>4, <1>9, <2>1, <2>4 DEF TypeOK, Finalize, announceVars, readVars, cleanVars
<1>10. CASE EndUpdate(p)
  BY <1>1, <1>10
  DEF TypeOK, EndUpdate, NullTS, PCs, UpdatePCs, announceVars, readVars, cleanVars
<1> QED
  BY <1>3, <1>5, <1>6, <1>7, <1>8, <1>9, <1>10 DEF Update, UpdateStep

\* What a step of a range query or of contains leaves alone, besides the clock
\* and the bundles.
Reads(p) ==
  /\ UNCHANGED <<clock, bundle, updateVars, cleanVars>>
  /\ pc'= [pc EXCEPT ![p] = pc'[p]]
  /\ pc[p] \notin UpdatePCs /\ pc'[p] \notin UpdatePCs

LEMMA TypeQuery ==
  ASSUME IInv, NEW p \in Procs, Query(p) \/ RunContains(p)
  PROVE  TypeOK' /\ Reads(p)
<1> USE DEF IInv, UInv, Reads, updateVars, announceVars, readVars, cleanVars,
            PCs, UpdatePCs, AnnouncePCs, LookupPCs, GetPCs, NullTS
<1>1. CASE StartTraversal(p)
  BY <1>1 DEF TypeOK, StartTraversal
<1>2. CASE ReadClock(p)
  BY <1>2 DEF TypeOK, ReadClock
<1>3. CASE Announce(p)
  BY <1>3 DEF TypeOK, Announce
<1>4. CASE ClearFlag(p)
  BY <1>4 DEF TypeOK, ClearFlag
<1>5. ASSUME NEW b \in Bundles, BeginLookup(p, b) \/ BeginGet(p, b)
      PROVE  TypeOK' /\ Reads(p)
  <2>1. Newest(bundle[b]) \in Nat
    BY NewestNat DEF TypeOK
  <2>2. CASE BeginLookup(p, b)
    BY <2>1, <2>2 DEF TypeOK, BeginLookup
  <2>3. CASE BeginGet(p, b)
    BY <2>1, <2>3 DEF TypeOK, BeginGet
  <2> QED
    BY <1>5, <2>2, <2>3
<1>6. CASE LookupStep(p) \/ Get(p)
  <2>1. /\ at[p] \in Bundles
        /\ Newest(bundle[at[p]]) \in Nat
        /\ bundle[at[p]].low \in Nat \ {0}
        /\ cur[p] \in 0 .. Newest(bundle[at[p]])
        /\ pc[p] = "secondTS" => cur[p] - 1 \in 0 .. Newest(bundle[at[p]])
    <3>1. pc[p] \in LookupPCs \cup {"get"}
      BY <1>6
      DEF LookupStep, Get, CheckFirst, LoadSecond, CheckSecond, AwaitLabel, Walk
    <3>2. /\ at[p] \in Bundles /\ cur[p] \in 0 .. Newest(bundle[at[p]])
          /\ pc[p] = "secondTS" => cur[p] # 0
      BY <3>1 DEF ReaderInv
    <3>3. Newest(bundle[at[p]]) \in Nat /\ bundle[at[p]].low \in Nat \ {0}
      BY <3>2, NewestNat DEF TypeOK
    <3> QED
      BY <3>2, <3>3
  <2>2. ASSUME NEW i \in 0 .. Newest(bundle[at[p]]), NEW l \in {"query", "got"},
               Return(p, i, l), UNCHANGED <<clock, bundle, updateVars, announceVars,
                                            qts, at, cleanVars>>,
               pc[p] \in LookupPCs \cup {"get"}
        PROVE  TypeOK' /\ Reads(p)
    <3>1. /\ out' \in [Procs -> Ptrs \cup {NoPtr}]
          /\ cur' = [cur EXCEPT ![p] = 0]
          /\ pc' = [pc EXCEPT ![p] = l]
      BY <2>1, <2>2, ReturnType
    <3> QED
      BY <2>2, <3>1 DEF TypeOK
  <2>3. ASSUME NEW i \in Nat, NEW l \in LookupPCs,
               Continue(p, i, l), UNCHANGED <<clock, bundle, updateVars, announceVars,
                                              qts, at, cleanVars>>,
               pc[p] \in LookupPCs
        PROVE  TypeOK' /\ Reads(p)
    BY <2>3 DEF TypeOK, Continue
  <2>4. CASE CheckFirst(p)
    BY <2>1, <2>2, <2>3, <2>4 DEF CheckFirst
  <2>5. CASE LoadSecond(p)
    BY <2>1, <2>3, <2>5 DEF LoadSecond
  <2>6. CASE CheckSecond(p)
    BY <2>1, <2>2, <2>3, <2>6 DEF CheckSecond
  <2>7. CASE AwaitLabel(p)
    BY <2>1, <2>3, <2>7 DEF AwaitLabel
  <2>8. CASE Walk(p)
    <3>1. cur[p] # 0 => NextOf(bundle[at[p]], cur[p]) \in Nat
      BY <2>1 DEF NextOf
    <3> QED
      BY <2>1, <2>2, <2>3, <2>8, <3>1 DEF Walk
  <2>9. CASE Get(p)
    BY <2>1, <2>2, <2>9 DEF Get
  <2> QED
    BY <1>6, <2>4, <2>5, <2>6, <2>7, <2>8, <2>9 DEF LookupStep
<1>7. CASE EndTraversal(p)
  BY <1>7 DEF TypeOK, EndTraversal
<1>8. CASE EndGet(p)
  BY <1>8 DEF TypeOK, EndGet
<1> QED
  BY <1>1, <1>2, <1>3, <1>4, <1>5, <1>6, <1>7, <1>8 DEF Query, AnnounceStep, RunContains

\* What a step of the cleaner leaves alone.
Cleans ==
  /\ UNCHANGED workVars
  /\ \A b \in Bundles : bundle'[b].entries = bundle[b].entries

LEMMA TypeClean ==
  ASSUME IInv, Clean
  PROVE  TypeOK' /\ Cleans
<1> USE DEF IInv, UInv, Cleans, workVars
<1>1. CASE CleanStart
  BY <1>1, ProcsAssumption DEF TypeOK, CleanStart, Procs
<1>2. CASE CleanAwaitFlag
  BY <1>2 DEF TypeOK, CleanAwaitFlag
<1>3. CASE CleanReadLin
  <2>1. scan' \in Procs
    <3>1. scan \in 1 .. NumProcs /\ NumProcs \in Nat \ {0}
      BY ProcsAssumption DEF TypeOK, Procs
    <3> QED
      BY <1>3, <3>1 DEF CleanReadLin, Procs
  <2> QED
    BY <1>3, <2>1 DEF TypeOK, CleanReadLin
<1>4. ASSUME NEW b \in Bundles, CleanLoadHead(b) PROVE TypeOK' /\ Cleans
  <2>1. Newest(bundle[b]) \in Nat
    BY NewestNat DEF TypeOK
  <2> QED
    BY <1>4, <2>1 DEF TypeOK, CleanLoadHead
<1>5. CASE CleanCut
  <2>1. /\ Reclaimed(bundle[cbun], chead, oldest) \in Bundle
        /\ Reclaimed(bundle[cbun], chead, oldest).entries = bundle[cbun].entries
    BY <1>5, ReclaimedProps DEF CleanCut, CleanerInv, TypeOK
  <2> QED
    BY <1>5, <2>1 DEF TypeOK, CleanCut
<1>6. CASE CleanEnd
  BY <1>6 DEF TypeOK, CleanEnd, NullTS
<1> QED
  BY <1>1, <1>2, <1>3, <1>4, <1>5, <1>6 DEF Clean

-----------------------------------------------------------------------------
(***************************************************************************)
(* The labels.                                                             *)
(***************************************************************************)

\* The bundle an update writes is its own, and the update writes it once.
LEMMA Exclusive ==
  ASSUME IInv, NEW p \in Updaters, NEW j \in 1 .. Len(upd[p])
  PROVE  /\ upd[p] \in Updates
         /\ Len(upd[p]) \in Nat
         /\ upd[p][j].bundle \in Bundles /\ upd[p][j].ptr \in Ptrs
         /\ owner[upd[p][j].bundle] = p
         /\ \A q \in Updaters : \A k \in 1 .. Len(upd[q]) :
               upd[p][j].bundle = upd[q][k].bundle => p = q /\ j = k
<1>1. \A q \in Updaters : \A k \in 1 .. Len(upd[q]) :
         /\ upd[q] \in Updates
         /\ upd[q][k].bundle \in Bundles
         /\ owner[upd[q][k].bundle] = q
  <2> TAKE q \in Updaters
  <2> TAKE k \in 1 .. Len(upd[q])
  <2>1. upd[q] \in Updates \cup {<<>>}
    BY ProcsAssumption DEF IInv, TypeOK
  <2>2. upd[q] \in Updates
    <3>1. Len(<<>>) = 0
      BY EmptySeq
    <3> QED
      BY <2>1, <3>1
  <2>3. upd[q][k].bundle \in Bundles
    BY <2>2, UpdateProps
  <2>4. upd[q][k].bundle \in BundlesOf(upd[q])
    BY DEF BundlesOf
  <2> QED
    BY <2>2, <2>3, <2>4 DEF IInv, UInv, OwnerInv
<1>2. ASSUME NEW k \in 1 .. Len(upd[p]), upd[p][j].bundle = upd[p][k].bundle
      PROVE  j = k
  BY <1>1, <1>2, UpdateProps
<1>3. upd[p] \in Updates
  BY <1>1
<1> QED
  BY <1>1, <1>2, <1>3, UpdateProps

\* What every step does to the labels: those the clock has reached stay as they
\* are, and those it has not, and those of new entries, are still ahead of it.
LabelStep ==
  /\ clock <= clock'
  /\ \A b \in Bundles :
       /\ Newest(bundle[b]) <= Newest(bundle'[b])
       /\ \A i \in 1 .. Newest(bundle'[b]) :
            IF i <= Newest(bundle[b])
            THEN /\ bundle'[b].entries[i].ptr = bundle[b].entries[i].ptr
                 /\ \/ Label(b, i)' = Label(b, i)
                    \/ Label(b, i) > clock /\ Label(b, i)' > clock
            ELSE Label(b, i)' > clock

\* A step that takes no update further keeps the update part of the invariant.
LEMMA OtherStep ==
  ASSUME IInv, UNCHANGED <<clock, updateVars>>,
         \A b \in Bundles : bundle'[b].entries = bundle[b].entries,
         \A q \in Procs : \/ pc'[q] = pc[q]
                          \/ pc[q] \notin UpdatePCs /\ pc'[q] \notin UpdatePCs
  PROVE  UInv' /\ LabelStep
<1> USE DEF updateVars
<1>1. \A b \in Bundles : /\ Newest(bundle'[b]) = Newest(bundle[b])
                         /\ Newest(bundle[b]) \in Nat
                         /\ \A i : IsPending(bundle'[b], i) <=> IsPending(bundle[b], i)
  BY NewestNat DEF IInv, TypeOK, Newest, IsPending
<1>2. \A q \in Procs : \A l \in UpdatePCs : pc'[q] = l <=> pc[q] = l
  OBVIOUS
<1>3. \A q \in Updaters : \A k : Awaits(q, k)' <=> Awaits(q, k)
  BY <1>2, ProcsAssumption DEF Awaits, UpdatePCs
<1>4. ClockInv' /\ OwnerInv'
  BY DEF IInv, UInv, ClockInv, OwnerInv, BundlesOf
<1>5. UpdateInv'
  BY <1>2 DEF IInv, UInv, UpdateInv, UpdatePCs
<1>6. LabelsReached'
  BY <1>1 DEF IInv, UInv, LabelsReached
<1>7. PendingInv'
  BY <1>1, <1>3 DEF IInv, UInv, PendingInv
<1>8. AwaitInv'
  <2> SUFFICES ASSUME NEW q \in Updaters, NEW k \in 1 .. Len(upd[q]), Awaits(q, k)
               PROVE  /\ Newest(bundle'[upd[q][k].bundle]) # 0
                      /\ IsPending(bundle'[upd[q][k].bundle],
                                   Newest(bundle'[upd[q][k].bundle]))
                      /\ ts[q] # NullTS =>
                           \A i \in 1 .. Newest(bundle'[upd[q][k].bundle]) :
                              i # Newest(bundle'[upd[q][k].bundle]) =>
                                 bundle'[upd[q][k].bundle].entries[i].ts <= ts[q]
    BY <1>3 DEF AwaitInv
  <2>1. upd[q][k].bundle \in Bundles
    BY Exclusive
  <2> QED
    BY <1>1, <2>1 DEF IInv, UInv, AwaitInv
<1>9. OrderInv'
  BY <1>1 DEF IInv, UInv, OrderInv
<1>10. LabelStep
  BY <1>1 DEF LabelStep, Label, IInv, UInv, ClockInv, FirstTS, TypeOK
<1> QED
  BY <1>4, <1>5, <1>6, <1>7, <1>8, <1>9, <1>10 DEF UInv

\* A pending entry is the head of a bundle that some update owns.
LEMMA PendingOwner ==
  ASSUME IInv, NEW b \in Bundles, NEW i \in 1 .. Newest(bundle[b]),
         IsPending(bundle[b], i)
  PROVE  /\ i = Newest(bundle[b])
         /\ \E q \in Updaters : \E k \in 1 .. Len(upd[q]) :
               upd[q][k].bundle = b /\ Awaits(q, k) /\ owner[b] = q
         /\ NoProc \notin Updaters
  BY Exclusive, ProcsAssumption DEF IInv, UInv, PendingInv, Procs, NoProc

LEMMA BeginStep ==
  ASSUME IInv, NEW p \in Updaters, NEW w \in Updates, BeginUpdate(p, w)
  PROVE  UInv' /\ LabelStep
<1>1. /\ p \in Procs
      /\ pc[p] = "idle" /\ pc' = [pc EXCEPT ![p] = "prepare"]
      /\ upd[p] = <<>> /\ upd' = [upd EXCEPT ![p] = w]
      /\ idx' = [idx EXCEPT ![p] = 1]
      /\ ts[p] = NullTS
      /\ UNCHANGED <<clock, bundle, ts>>
      /\ \A b \in BundlesOf(w) : owner[b] = NoProc
      /\ \A b \in Bundles : owner'[b] = IF b \in BundlesOf(w) THEN p ELSE owner[b]
      /\ Len(w) \in Nat \ {0}
  BY ProcsAssumption, UpdateProps
  DEF BeginUpdate, IInv, UInv, UpdateInv, UpdatePCs
<1>2. /\ \A q \in Updaters : q # NoProc
      /\ \A q \in Updaters : q \in Procs
      /\ Len(<<>>) = 0
  BY ProcsAssumption, EmptySeq DEF Procs, NoProc
<1>3. /\ pc \in [Procs -> PCs]
      /\ upd \in [Procs -> Updates \cup {<<>>}]
      /\ idx \in [Procs -> Nat]
  BY DEF IInv, TypeOK
<1>4. ASSUME NEW q \in Procs, q # p
      PROVE  pc'[q] = pc[q] /\ upd'[q] = upd[q] /\ idx'[q] = idx[q]
  BY <1>1, <1>3, <1>4
<1>5. pc'[p] = "prepare" /\ upd'[p] = w /\ idx'[p] = 1
  BY <1>1, <1>3
<1>6. ClockInv' /\ LabelsReached' /\ OrderInv'
  BY <1>1 DEF IInv, UInv, ClockInv, LabelsReached, OrderInv
<1>7. UpdateInv'
  <2> SUFFICES ASSUME NEW q \in Procs
               PROVE  /\ IF pc'[q] \in UpdatePCs
                         THEN q \in Updaters /\ upd'[q] \in Updates
                              /\ idx'[q] \in 1 .. Len(upd'[q])
                         ELSE upd'[q] = <<>> /\ idx'[q] = 0
                      /\ pc'[q] \in {"load", "reload", "bump"} => idx'[q] = 1
                      /\ ts[q] # NullTS <=> pc'[q] \in {"reload", "bump", "finalize", "unlock"}
                      /\ ts[q] <= clock /\ ts[q] + 1 < Pending
                      /\ pc'[q] \in {"finalize", "unlock"} => ts[q] < clock
    BY <1>1 DEF UpdateInv
  <2>1. CASE q = p
    BY <1>1, <1>5, <2>1 DEF UpdatePCs, IInv, UInv, UpdateInv
  <2>2. CASE q # p
    BY <1>4, <2>2 DEF IInv, UInv, UpdateInv
  <2> QED
    BY <2>1, <2>2
<1>8. OwnerInv'
  <2> SUFFICES ASSUME NEW q \in Updaters, NEW b \in Bundles
               PROVE  owner'[b] = q <=> b \in BundlesOf(upd'[q])
    BY DEF OwnerInv, BundlesOf
  <2>1. owner[b] = q <=> b \in BundlesOf(upd[q])
    BY DEF IInv, UInv, OwnerInv
  <2>2. CASE q = p
    <3>1. b \notin BundlesOf(<<>>)
      BY <1>2 DEF BundlesOf
    <3> QED
      BY <1>1, <1>5, <2>1, <2>2, <3>1
  <2>3. CASE q # p
    BY <1>1, <1>2, <1>4, <2>1, <2>3
  <2> QED
    BY <2>2, <2>3
<1>9. \A q \in Updaters : \A k \in 1 .. Len(upd'[q]) :
         Awaits(q, k)' => q # p /\ k \in 1 .. Len(upd[q]) /\ Awaits(q, k)
  BY <1>2, <1>4, <1>5 DEF Awaits
<1>10. \A q \in Updaters : \A k \in 1 .. Len(upd[q]) :
          Awaits(q, k) => q # p /\ upd'[q] = upd[q] /\ Awaits(q, k)'
  BY <1>1, <1>2, <1>4 DEF Awaits
<1>11. PendingInv'
  BY <1>1, <1>10 DEF IInv, UInv, PendingInv
<1>12. AwaitInv'
  BY <1>1, <1>2, <1>4, <1>9 DEF IInv, UInv, AwaitInv
<1>13. \A b \in Bundles : \A i \in 1 .. Newest(bundle[b]) : Label(b, i)' = Label(b, i)
  <2> TAKE b \in Bundles
  <2> TAKE i \in 1 .. Newest(bundle[b])
  <2>1. CASE ~IsPending(bundle[b], i)
    BY <1>1, <2>1 DEF Label
  <2>2. CASE IsPending(bundle[b], i)
    <3>1. owner[b] \in Updaters /\ owner[b] # NoProc
      BY <2>2, PendingOwner
    <3>2. owner'[b] = owner[b]
      BY <1>1, <3>1
    <3> QED
      BY <1>1, <2>2, <3>2 DEF Label
  <2> QED
    BY <2>1, <2>2
<1>14. LabelStep
  BY <1>1, <1>13, NewestNat DEF LabelStep, IInv, TypeOK
<1> QED
  BY <1>6, <1>7, <1>8, <1>11, <1>12, <1>14 DEF UInv

\* Where an update stands: what the invariant says of it in one place.
LEMMA UpdateState ==
  ASSUME IInv, NEW p \in Updaters, pc[p] \in UpdatePCs
  PROVE  /\ p \in Procs /\ p # NoProc
         /\ upd[p] \in Updates /\ Len(upd[p]) \in Nat \ {0}
         /\ idx[p] \in 1 .. Len(upd[p])
         /\ upd[p][idx[p]].bundle \in Bundles /\ upd[p][idx[p]].ptr \in Ptrs
         /\ bundle[upd[p][idx[p]].bundle] \in Bundle
         /\ owner[upd[p][idx[p]].bundle] = p
         /\ clock \in Nat /\ ts[p] \in Nat
         /\ pc \in [Procs -> PCs]
         /\ upd \in [Procs -> Updates \cup {<<>>}]
         /\ idx \in [Procs -> Nat] /\ ts \in [Procs -> Nat]
<1>1. p \in Procs /\ p # NoProc
  BY ProcsAssumption DEF Procs, NoProc
<1>2. upd[p] \in Updates /\ idx[p] \in 1 .. Len(upd[p])
  BY <1>1 DEF IInv, UInv, UpdateInv
<1>3. Len(upd[p]) \in Nat \ {0}
  BY <1>2, UpdateProps
<1>4. /\ upd[p][idx[p]].bundle \in Bundles /\ upd[p][idx[p]].ptr \in Ptrs
      /\ owner[upd[p][idx[p]].bundle] = p
  BY <1>2, Exclusive
<1> QED
  BY <1>1, <1>2, <1>3, <1>4 DEF IInv, TypeOK

LEMMA LoadStep ==
  ASSUME IInv, NEW p \in Updaters, LoadTS(p)
  PROVE  UInv' /\ LabelStep
<1>1. /\ pc[p] = "load" /\ pc' = [pc EXCEPT ![p] = "reload"]
      /\ ts' = [ts EXCEPT ![p] = clock]
      /\ clock + 1 < Pending
      /\ UNCHANGED <<clock, bundle, owner, upd, idx>>
  BY DEF LoadTS
<1>2. /\ pc[p] \in UpdatePCs /\ ts[p] = NullTS
      /\ pc' \in [Procs -> PCs] /\ ts' \in [Procs -> Nat]
      /\ FirstTS <= clock /\ clock < Pending
      /\ pc'[p] = "reload" /\ ts'[p] = clock
      /\ \A q \in Procs : q # p => pc'[q] = pc[q] /\ ts'[q] = ts[q]
  <2>1. pc[p] \in UpdatePCs
    BY <1>1 DEF UpdatePCs
  <2>2. p \in Procs /\ ts \in [Procs -> Nat] /\ clock \in Nat
    BY <2>1, UpdateState
  <2>3. pc \in [Procs -> PCs]
    BY DEF IInv, TypeOK
  <2> QED
    BY <1>1, <2>1, <2>2, <2>3 DEF IInv, UInv, ClockInv, UpdateInv, PCs, UpdatePCs
<1>3. \A q \in Updaters : q \in Procs
  BY ProcsAssumption
<1>4. ClockInv' /\ OwnerInv' /\ LabelsReached' /\ OrderInv'
  BY <1>1 DEF IInv, UInv, ClockInv, OwnerInv, BundlesOf, LabelsReached, OrderInv
<1>5. UpdateInv'
  <2> SUFFICES ASSUME NEW q \in Procs
               PROVE  /\ IF pc'[q] \in UpdatePCs
                         THEN q \in Updaters /\ upd[q] \in Updates
                              /\ idx[q] \in 1 .. Len(upd[q])
                         ELSE upd[q] = <<>> /\ idx[q] = 0
                      /\ pc'[q] \in {"load", "reload", "bump"} => idx[q] = 1
                      /\ ts'[q] # NullTS <=>
                            pc'[q] \in {"reload", "bump", "finalize", "unlock"}
                      /\ ts'[q] <= clock /\ ts'[q] + 1 < Pending
                      /\ pc'[q] \in {"finalize", "unlock"} => ts'[q] < clock
    BY <1>1 DEF UpdateInv
  <2>1. CASE q = p
    <3>1. /\ upd[p] \in Updates /\ idx[p] \in 1 .. Len(upd[p]) /\ clock \in Nat
          /\ idx[p] = 1
      BY <1>1, <1>2, <1>3, UpdateState DEF IInv, UInv, UpdateInv
    <3> QED
      BY <1>1, <1>2, <2>1, <3>1 DEF UpdatePCs, FirstTS, NullTS
  <2>2. CASE q # p
    BY <1>2, <2>2 DEF IInv, UInv, UpdateInv
  <2> QED
    BY <2>1, <2>2
<1>6. \A q \in Updaters : \A k : Awaits(q, k)' <=> Awaits(q, k)
  BY <1>1, <1>2, <1>3 DEF Awaits
<1>7. PendingInv'
  BY <1>1, <1>6 DEF IInv, UInv, PendingInv
<1>8. AwaitInv'
  <2> SUFFICES ASSUME NEW q \in Updaters, NEW k \in 1 .. Len(upd[q]), Awaits(q, k),
                      NEW bd, bd = bundle[upd[q][k].bundle]
               PROVE  /\ Newest(bd) # 0 /\ IsPending(bd, Newest(bd))
                      /\ ts'[q] # NullTS =>
                           \A i \in 1 .. Newest(bd) :
                              i # Newest(bd) => bd.entries[i].ts <= ts'[q]
    BY <1>1, <1>6 DEF AwaitInv
  <2>1. /\ Newest(bd) # 0 /\ IsPending(bd, Newest(bd))
        /\ ts[q] # NullTS => \A i \in 1 .. Newest(bd) :
                                i # Newest(bd) => bd.entries[i].ts <= ts[q]
    BY DEF IInv, UInv, AwaitInv
  <2>2. upd[q][k].bundle \in Bundles
    BY Exclusive
  <2>3. \A i \in 1 .. Newest(bd) : i # Newest(bd) => bd.entries[i].ts <= clock
    BY <2>2 DEF IInv, UInv, LabelsReached, PendingInv
  <2> QED
    BY <1>2, <1>3, <2>1, <2>3
<1>9. \A b \in Bundles : \A i \in 1 .. Newest(bundle[b]) :
         Label(b, i)' = Label(b, i) \/ (Label(b, i) > clock /\ Label(b, i)' > clock)
  <2> TAKE b \in Bundles
  <2> TAKE i \in 1 .. Newest(bundle[b])
  <2>1. CASE ~IsPending(bundle[b], i)
    BY <1>1, <2>1 DEF Label
  <2>2. CASE IsPending(bundle[b], i)
    <3>1. owner[b] \in Updaters /\ owner[b] # NoProc
      BY <2>2, PendingOwner
    <3>2. CASE owner[b] # p
      BY <1>1, <1>2, <1>3, <2>2, <3>1, <3>2 DEF Label
    <3>3. CASE owner[b] = p
      <4>1. Label(b, i) = Pending
        BY <1>2, <2>2, <3>3 DEF Label
      <4>2. Label(b, i)' = clock + 1
        BY <1>1, <1>2, <2>2, <3>1, <3>3 DEF Label, NullTS, FirstTS
      <4>3. clock \in Nat /\ Pending \in Nat
        BY PendingAssumption DEF IInv, TypeOK
      <4> QED
        BY <1>2, <4>1, <4>2, <4>3
    <3> QED
      BY <3>2, <3>3
  <2> QED
    BY <2>1, <2>2
<1>10. LabelStep
  BY <1>1, <1>9, NewestNat DEF LabelStep, IInv, TypeOK
<1> QED
  BY <1>4, <1>5, <1>7, <1>8, <1>10 DEF UInv

LEMMA ClockStep ==
  ASSUME IInv, NEW p \in Updaters, ReloadTS(p) \/ FetchAdd(p)
  PROVE  UInv' /\ LabelStep
<1>1. /\ pc[p] \in {"reload", "bump"}
      /\ UNCHANGED <<bundle, owner, upd, idx, ts>>
      /\ \/ clock' = clock
         \/ pc[p] = "bump" /\ clock' = clock + 1 /\ clock + 1 < Pending
  BY DEF ReloadTS, FetchAdd, updateVars
<1>2. /\ clock \in Nat /\ clock' \in Nat /\ clock <= clock' /\ clock' < Pending
      /\ FirstTS <= clock'
      /\ p \in Procs /\ ts \in [Procs -> Nat] /\ idx[p] = 1
  BY <1>1, UpdateState DEF IInv, UInv, ClockInv, UpdateInv, UpdatePCs, FirstTS
<1>3. /\ pc'[p] \in {"bump", "finalize"}
      /\ pc'[p] = "finalize" => ts[p] < clock'
      /\ \A q \in Procs : q # p => pc'[q] = pc[q]
  <2>1. pc \in [Procs -> PCs]
    BY DEF IInv, TypeOK
  <2>2. ts[p] <= clock /\ ts[p] \in Nat
    BY <1>2 DEF IInv, UInv, UpdateInv
  <2>3. CASE ReloadTS(p)
    BY <1>2, <2>1, <2>2, <2>3 DEF ReloadTS
  <2>4. CASE FetchAdd(p)
    BY <1>2, <2>1, <2>2, <2>4 DEF FetchAdd
  <2> QED
    BY <2>3, <2>4
<1>4. ClockInv' /\ OwnerInv' /\ OrderInv'
  BY <1>1, <1>2 DEF IInv, UInv, ClockInv, OwnerInv, BundlesOf, OrderInv
<1>5. LabelsReached'
  <2> SUFFICES ASSUME NEW b \in Bundles, NEW i \in 1 .. Newest(bundle[b]),
                      ~IsPending(bundle[b], i)
               PROVE  bundle[b].entries[i].ts <= clock'
    BY <1>1 DEF LabelsReached
  <2>1. bundle[b].entries[i].ts <= clock
    BY DEF IInv, UInv, LabelsReached
  <2>2. bundle[b].entries[i].ts \in Nat
    BY NewestNat DEF IInv, TypeOK
  <2> QED
    BY <1>2, <2>1, <2>2
<1>6. UpdateInv'
  <2> SUFFICES ASSUME NEW q \in Procs
               PROVE  /\ IF pc'[q] \in UpdatePCs
                         THEN q \in Updaters /\ upd[q] \in Updates
                              /\ idx[q] \in 1 .. Len(upd[q])
                         ELSE upd[q] = <<>> /\ idx[q] = 0
                      /\ pc'[q] \in {"load", "reload", "bump"} => idx[q] = 1
                      /\ ts[q] # NullTS <=>
                            pc'[q] \in {"reload", "bump", "finalize", "unlock"}
                      /\ ts[q] <= clock' /\ ts[q] + 1 < Pending
                      /\ pc'[q] \in {"finalize", "unlock"} => ts[q] < clock'
    BY <1>1 DEF UpdateInv
  <2>1. CASE q = p
    BY <1>1, <1>2, <1>3, <2>1 DEF IInv, UInv, UpdateInv, UpdatePCs
  <2>2. CASE q # p
    <3>1. pc'[q] = pc[q] /\ ts[q] \in Nat
      BY <1>2, <1>3, <2>2
    <3> QED
      BY <1>2, <3>1 DEF IInv, UInv, UpdateInv
  <2> QED
    BY <2>1, <2>2
<1>7. \A q \in Updaters : \A k \in 1 .. Len(upd[q]) : Awaits(q, k)' <=> Awaits(q, k)
  BY <1>1, <1>2, <1>3, ProcsAssumption DEF Awaits
<1>8. PendingInv'
  BY <1>1, <1>7 DEF IInv, UInv, PendingInv
<1>9. AwaitInv'
  BY <1>1, <1>7 DEF IInv, UInv, AwaitInv
<1>10. LabelStep
  BY <1>1, <1>2, NewestNat DEF LabelStep, Label, IInv, TypeOK
<1> QED
  BY <1>4, <1>5, <1>6, <1>8, <1>9, <1>10 DEF UInv

LEMMA EndStep ==
  ASSUME IInv, NEW p \in Updaters, EndUpdate(p)
  PROVE  UInv' /\ LabelStep
<1>1. /\ pc[p] = "unlock" /\ pc[p] \in UpdatePCs
      /\ UNCHANGED <<clock, bundle>>
      /\ owner' = [b \in Bundles |-> IF owner[b] = p THEN NoProc ELSE owner[b]]
  BY DEF EndUpdate, UpdatePCs
<1>2. /\ p \in Procs /\ p # NoProc /\ clock \in Nat /\ Len(<<>>) = 0
      /\ \A q \in Updaters : q \in Procs /\ q # NoProc
  BY <1>1, UpdateState, ProcsAssumption, EmptySeq DEF Procs, NoProc
<1>3. /\ pc'[p] = "idle" /\ upd'[p] = <<>> /\ idx'[p] = 0 /\ ts'[p] = NullTS
      /\ \A q \in Procs : q # p => /\ pc'[q] = pc[q] /\ upd'[q] = upd[q]
                                   /\ idx'[q] = idx[q] /\ ts'[q] = ts[q]
  BY <1>1, <1>2, UpdateState DEF EndUpdate
<1>4. ClockInv' /\ LabelsReached' /\ OrderInv'
  BY <1>1 DEF IInv, UInv, ClockInv, LabelsReached, OrderInv
<1>5. UpdateInv'
  <2> SUFFICES ASSUME NEW q \in Procs
               PROVE  /\ IF pc'[q] \in UpdatePCs
                         THEN q \in Updaters /\ upd'[q] \in Updates
                              /\ idx'[q] \in 1 .. Len(upd'[q])
                         ELSE upd'[q] = <<>> /\ idx'[q] = 0
                      /\ pc'[q] \in {"load", "reload", "bump"} => idx'[q] = 1
                      /\ ts'[q] # NullTS <=>
                            pc'[q] \in {"reload", "bump", "finalize", "unlock"}
                      /\ ts'[q] <= clock /\ ts'[q] + 1 < Pending
                      /\ pc'[q] \in {"finalize", "unlock"} => ts'[q] < clock
    BY <1>1 DEF UpdateInv
  <2>1. CASE q = p
    BY <1>2, <1>3, <2>1, PendingAssumption
    DEF UpdatePCs, NullTS, FirstTS, IInv, UInv, ClockInv
  <2>2. CASE q # p
    BY <1>3, <2>2 DEF IInv, UInv, UpdateInv
  <2> QED
    BY <2>1, <2>2
<1>6. OwnerInv'
  <2> SUFFICES ASSUME NEW q \in Updaters, NEW b \in Bundles
               PROVE  owner'[b] = q <=> b \in BundlesOf(upd'[q])
    BY DEF OwnerInv, BundlesOf
  <2>1. owner[b] = q <=> b \in BundlesOf(upd[q])
    BY DEF IInv, UInv, OwnerInv
  <2>2. CASE q = p
    <3>1. b \notin BundlesOf(<<>>)
      BY <1>2 DEF BundlesOf
    <3> QED
      BY <1>1, <1>2, <1>3, <2>2, <3>1
  <2>3. CASE q # p
    BY <1>1, <1>2, <1>3, <2>1, <2>3
  <2> QED
    BY <2>2, <2>3
<1>7. \A q \in Updaters : \A k \in 1 .. Len(upd'[q]) :
         Awaits(q, k)' => q # p /\ k \in 1 .. Len(upd[q]) /\ Awaits(q, k)
  BY <1>2, <1>3 DEF Awaits
<1>8. \A q \in Updaters : \A k \in 1 .. Len(upd[q]) :
         Awaits(q, k) => q # p /\ upd'[q] = upd[q] /\ Awaits(q, k)'
  BY <1>1, <1>2, <1>3 DEF Awaits
<1>9. PendingInv'
  BY <1>1, <1>8 DEF IInv, UInv, PendingInv
<1>10. AwaitInv'
  BY <1>1, <1>2, <1>3, <1>7 DEF IInv, UInv, AwaitInv
<1>11. \A b \in Bundles : \A i \in 1 .. Newest(bundle[b]) : Label(b, i)' = Label(b, i)
  <2> TAKE b \in Bundles
  <2> TAKE i \in 1 .. Newest(bundle[b])
  <2>1. CASE ~IsPending(bundle[b], i)
    BY <1>1, <2>1 DEF Label
  <2>2. CASE IsPending(bundle[b], i)
    <3>1. PICK q \in Updaters : q # p /\ owner[b] = q
      BY <1>8, <2>2, PendingOwner
    <3>2. owner'[b] = q /\ ts'[q] = ts[q]
      BY <1>1, <1>2, <1>3, <3>1
    <3> QED
      BY <1>1, <2>2, <3>1, <3>2 DEF Label
  <2> QED
    BY <2>1, <2>2
<1>12. LabelStep
  BY <1>1, <1>2, <1>11, NewestNat DEF LabelStep, IInv, TypeOK
<1> QED
  BY <1>4, <1>5, <1>6, <1>9, <1>10, <1>12 DEF UInv

\* The loops over the bundles of an update: what NextBundle leaves behind.
LEMMA NextBundleProps ==
  ASSUME IInv, NEW p \in Updaters, pc[p] \in UpdatePCs,
         NEW l \in {"load", "unlock"}, NextBundle(p, l)
  PROVE  /\ pc'[p] = IF idx[p] < Len(upd[p]) THEN pc[p] ELSE l
         /\ idx'[p] = IF idx[p] < Len(upd[p]) THEN idx[p] + 1 ELSE 1
         /\ idx'[p] \in 1 .. Len(upd[p])
         /\ \A q \in Procs : q # p => pc'[q] = pc[q] /\ idx'[q] = idx[q]
<1>1. /\ p \in Procs /\ pc \in [Procs -> PCs] /\ idx \in [Procs -> Nat]
      /\ idx[p] \in 1 .. Len(upd[p]) /\ Len(upd[p]) \in Nat \ {0}
  BY UpdateState
<1>2. CASE idx[p] < Len(upd[p])
  <2>1. idx' = [idx EXCEPT ![p] = idx[p] + 1] /\ pc' = pc
    BY <1>2 DEF NextBundle
  <2> QED
    BY <1>1, <1>2, <2>1
<1>3. CASE ~(idx[p] < Len(upd[p]))
  <2>1. idx' = [idx EXCEPT ![p] = 1] /\ pc' = [pc EXCEPT ![p] = l]
    BY <1>3 DEF NextBundle
  <2> QED
    BY <1>1, <1>3, <2>1
<1> QED
  BY <1>2, <1>3

LEMMA PrepareStep ==
  ASSUME IInv, NEW p \in Updaters, Prepare(p)
  PROVE  UInv' /\ LabelStep
<1>u. pc[p] = "prepare" /\ pc[p] \in UpdatePCs
  BY DEF Prepare, UpdatePCs
<1>m. PICK m \in Nat : m = idx[p]
  BY <1>u, UpdateState
<1>b. PICK b0 \in Bundles : b0 = upd[p][m].bundle
  BY <1>u, <1>m, UpdateState
<1>n. PICK n \in Nat : n = Newest(bundle[b0])
  BY NewestNat DEF IInv, TypeOK
<1>1. /\ pc[p] = "prepare" /\ pc[p] \in UpdatePCs
      /\ UNCHANGED <<clock, owner, upd, ts>>
      /\ bundle' = [bundle EXCEPT ![b0] = Prepared(bundle[b0], upd[p][m].ptr)]
      /\ NextBundle(p, "load")
  BY <1>u, <1>m, <1>b DEF Prepare
<1>2. /\ p \in Procs /\ p # NoProc /\ upd[p] \in Updates
      /\ Len(upd[p]) \in Nat \ {0} /\ m \in 1 .. Len(upd[p])
      /\ b0 \in Bundles /\ owner[b0] = p /\ bundle[b0] \in Bundle
      /\ upd[p][m].ptr \in Ptrs
      /\ n \in Nat /\ clock \in Nat /\ ts[p] = NullTS
      /\ clock < Pending /\ Pending \in Nat
      /\ m = idx[p] /\ b0 = upd[p][m].bundle /\ n = Newest(bundle[b0])
  BY <1>1, <1>m, <1>b, <1>n, UpdateState, PendingAssumption
  DEF IInv, UInv, UpdateInv, ClockInv
<1>3. /\ pc'[p] = IF m < Len(upd[p]) THEN "prepare" ELSE "load"
      /\ idx'[p] = IF m < Len(upd[p]) THEN m + 1 ELSE 1
      /\ idx'[p] \in 1 .. Len(upd[p])
      /\ \A q \in Procs : q # p => pc'[q] = pc[q] /\ idx'[q] = idx[q]
  BY <1>1, <1>2, NextBundleProps
<1>4. /\ Newest(bundle'[b0]) = n + 1
      /\ \A i \in 1 .. n : bundle'[b0].entries[i] = bundle[b0].entries[i]
      /\ bundle'[b0].entries[n + 1].ts = Pending
      /\ \A b \in Bundles : b # b0 => bundle'[b] = bundle[b]
  <2>1. bundle'[b0] = Prepared(bundle[b0], upd[p][m].ptr)
        /\ \A b \in Bundles : b # b0 => bundle'[b] = bundle[b]
    BY <1>1, <1>2 DEF IInv, TypeOK
  <2>2. /\ Newest(bundle[b0]) = n
        /\ bundle[b0] \in Bundle /\ upd[p][m].ptr \in Ptrs
    BY <1>2
  <2>3. /\ Newest(bundle'[b0]) = Newest(bundle[b0]) + 1
        /\ \A i \in 1 .. Newest(bundle[b0]) :
              bundle'[b0].entries[i] = bundle[b0].entries[i]
        /\ bundle'[b0].entries[Newest(bundle[b0]) + 1]
              = [ts |-> Pending, ptr |-> upd[p][m].ptr]
    BY <2>1, <2>2, PreparedProps
  <2> QED
    BY <2>1, <2>2, <2>3
<1>5. \A i \in 1 .. n : /\ ~IsPending(bundle[b0], i)
                        /\ bundle[b0].entries[i].ts <= clock
                        /\ bundle[b0].entries[i].ts \in Nat
  <2> TAKE i \in 1 .. n
  <2>1. ASSUME IsPending(bundle[b0], i) PROVE FALSE
    <3>1. PICK q \in Updaters :
             \E k \in 1 .. Len(upd[q]) : upd[q][k].bundle = b0 /\ Awaits(q, k)
      BY <1>2, <2>1, PendingOwner
    <3>2. PICK k \in 1 .. Len(upd[q]) : upd[q][k].bundle = b0 /\ Awaits(q, k)
      BY <3>1
    <3>3. q = p /\ k = m
      BY <1>2, <3>2, Exclusive
    <3> QED
      BY <1>1, <1>2, <3>2, <3>3 DEF Awaits
  <2> QED
    BY <1>2, <2>1, NewestNat DEF IInv, UInv, LabelsReached
<1>6. UpdateInv'
  <2> SUFFICES ASSUME NEW q \in Procs
               PROVE  /\ IF pc'[q] \in UpdatePCs
                         THEN q \in Updaters /\ upd[q] \in Updates
                              /\ idx'[q] \in 1 .. Len(upd[q])
                         ELSE upd[q] = <<>> /\ idx'[q] = 0
                      /\ pc'[q] \in {"load", "reload", "bump"} => idx'[q] = 1
                      /\ ts[q] # NullTS <=>
                            pc'[q] \in {"reload", "bump", "finalize", "unlock"}
                      /\ ts[q] <= clock /\ ts[q] + 1 < Pending
                      /\ pc'[q] \in {"finalize", "unlock"} => ts[q] < clock
    BY <1>1 DEF UpdateInv
  <2>1. CASE q = p
    BY <1>1, <1>2, <1>3, <2>1 DEF IInv, UInv, UpdateInv, UpdatePCs
  <2>2. CASE q # p
    BY <1>3, <2>2 DEF IInv, UInv, UpdateInv
  <2> QED
    BY <2>1, <2>2
<1>7. ClockInv' /\ OwnerInv'
  BY <1>1 DEF IInv, UInv, ClockInv, OwnerInv, BundlesOf
<1>8. /\ \A i \in 1 .. n : ~IsPending(bundle'[b0], i)
      /\ IsPending(bundle'[b0], n + 1)
  BY <1>4, <1>5 DEF IsPending
<1>9. ASSUME NEW b \in Bundles, NEW i \in 1 .. Newest(bundle'[b])
      PROVE  \/ b = b0 /\ i = n + 1
             \/ /\ ~(b = b0 /\ i = n + 1)
                /\ i \in 1 .. Newest(bundle[b])
                /\ bundle'[b].entries[i] = bundle[b].entries[i]
                /\ b = b0 => i \in 1 .. n
                /\ IsPending(bundle'[b], i) <=> IsPending(bundle[b], i)
  <2>1. CASE b = b0
    <3>1. n \in Nat /\ i \in 1 .. n + 1 /\ Newest(bundle[b0]) = n
      BY <1>2, <1>4, <2>1
    <3>2. CASE i # n + 1
      <4>1. i \in 1 .. n
        BY <3>1, <3>2
      <4>2. bundle'[b0].entries[i] = bundle[b0].entries[i]
        BY <1>4, <4>1
      <4> QED
        BY <2>1, <3>1, <3>2, <4>1, <4>2 DEF IsPending
    <3> QED
      BY <2>1, <3>2
  <2>2. CASE b # b0
    BY <1>4, <2>2
  <2> QED
    BY <2>1, <2>2
<1>10. LabelsReached'
  <2> SUFFICES ASSUME NEW b \in Bundles, NEW i \in 1 .. Newest(bundle'[b]),
                      ~IsPending(bundle'[b], i)
               PROVE  bundle'[b].entries[i].ts <= clock
    BY <1>1 DEF LabelsReached
  <2> QED
    BY <1>8, <1>9 DEF IInv, UInv, LabelsReached
<1>11. OrderInv'
  <2> SUFFICES ASSUME NEW b \in Bundles, NEW i \in 1 .. Newest(bundle'[b]),
                      NEW j \in 1 .. Newest(bundle'[b]), i < j
               PROVE  bundle'[b].entries[i].ts < bundle'[b].entries[j].ts
    BY DEF OrderInv
  <2>1. CASE b = b0 /\ j = n + 1
    <3>1. i # n + 1
      BY <2>1
    <3>2. i \in 1 .. n /\ bundle'[b].entries[i] = bundle[b0].entries[i]
      BY <1>9, <2>1, <3>1
    <3>3. bundle[b0].entries[i].ts <= clock /\ bundle[b0].entries[i].ts \in Nat
      BY <1>5, <3>2
    <3>4. bundle'[b].entries[j].ts = Pending /\ clock < Pending
          /\ clock \in Nat /\ Pending \in Nat
      BY <1>2, <1>4, <2>1
    <3> QED
      BY <3>2, <3>3, <3>4
  <2>2. CASE ~(b = b0 /\ j = n + 1)
    <3>1. ~(b = b0 /\ i = n + 1)
      <4>1. ASSUME b = b0, i = n + 1 PROVE FALSE
        <5>1. j \in 1 .. n
          BY <1>9, <2>2, <4>1
        <5> QED
          BY <4>1, <5>1
      <4> QED
        BY <4>1
    <3> QED
      BY <1>9, <2>2, <3>1 DEF IInv, UInv, OrderInv
  <2> QED
    BY <2>1, <2>2
<1>12. \A q \in Updaters : \A k \in 1 .. Len(upd[q]) :
          Awaits(q, k)' <=> Awaits(q, k) \/ (q = p /\ k = m)
  <2> TAKE q \in Updaters
  <2> TAKE k \in 1 .. Len(upd[q])
  <2>1. CASE q = p
    BY <1>1, <1>2, <1>3, <2>1 DEF Awaits
  <2>2. CASE q # p
    <3>1. q \in Procs
      BY ProcsAssumption
    <3> QED
      BY <1>3, <2>2, <3>1 DEF Awaits
  <2> QED
    BY <2>1, <2>2
<1>13. PendingInv'
  <2> SUFFICES ASSUME NEW b \in Bundles, NEW i \in 1 .. Newest(bundle'[b]),
                      IsPending(bundle'[b], i)
               PROVE  /\ i = Newest(bundle'[b])
                      /\ \E q \in Updaters : \E k \in 1 .. Len(upd[q]) :
                            upd[q][k].bundle = b /\ Awaits(q, k)'
    BY <1>1 DEF PendingInv
  <2>1. CASE b = b0
    <3>1. i = n + 1
      BY <1>5, <1>9, <2>1
    <3>2. Newest(bundle'[b]) = n + 1
      BY <1>4, <2>1
    <3>3. p \in Updaters /\ m \in 1 .. Len(upd[p]) /\ upd[p][m].bundle = b
      BY <1>2, <2>1
    <3> QED
      BY <1>12, <3>1, <3>2, <3>3
  <2>2. CASE b # b0
    <3>1. bundle'[b] = bundle[b]
      BY <1>4, <2>2
    <3>2. /\ i = Newest(bundle[b])
          /\ \E q \in Updaters : \E k \in 1 .. Len(upd[q]) :
                upd[q][k].bundle = b /\ Awaits(q, k)
      BY <3>1, PendingOwner
    <3> QED
      BY <1>12, <3>1, <3>2
  <2> QED
    BY <2>1, <2>2
<1>14. AwaitInv'
  <2> SUFFICES ASSUME NEW q \in Updaters, NEW k \in 1 .. Len(upd[q]), Awaits(q, k)',
                      NEW bd, bd = bundle'[upd[q][k].bundle]
               PROVE  /\ Newest(bd) # 0 /\ IsPending(bd, Newest(bd))
                      /\ ts[q] # NullTS =>
                           \A i \in 1 .. Newest(bd) :
                              i # Newest(bd) => bd.entries[i].ts <= ts[q]
    BY <1>1 DEF AwaitInv
  <2>1. CASE q = p /\ k = m
    <3>1. bd = bundle'[b0] /\ ts[q] = NullTS /\ n \in Nat
      BY <1>2, <2>1
    <3> QED
      BY <1>4, <1>8, <3>1
  <2>2. CASE ~(q = p /\ k = m)
    <3>1. Awaits(q, k)
      BY <1>12, <2>2
    <3>2. upd[q][k].bundle \in Bundles /\ upd[q][k].bundle # b0
      BY <1>2, <2>2, Exclusive
    <3>3. bd = bundle[upd[q][k].bundle]
      BY <1>4, <3>2
    <3> QED
      BY <3>1, <3>3 DEF IInv, UInv, AwaitInv
  <2> QED
    BY <2>1, <2>2
<1>15. LabelStep
  <2>1. \A b \in Bundles : Newest(bundle[b]) \in Nat
    BY NewestNat DEF IInv, TypeOK
  <2> SUFFICES ASSUME NEW b \in Bundles
               PROVE  /\ Newest(bundle[b]) <= Newest(bundle'[b])
                      /\ \A i \in 1 .. Newest(bundle'[b]) :
                           IF i <= Newest(bundle[b])
                           THEN /\ bundle'[b].entries[i].ptr = bundle[b].entries[i].ptr
                                /\ Label(b, i)' = Label(b, i)
                           ELSE Label(b, i)' > clock
    <3>1. clock <= clock'
      <4>1. clock' = clock
        BY <1>1
      <4>2. clock \in Nat
        BY <1>2
      <4> QED
        BY <4>1, <4>2
    <3> QED
      BY <3>1 DEF LabelStep
  <2>2. Newest(bundle[b]) <= Newest(bundle'[b])
    <3>1. CASE b = b0
      <4>1. Newest(bundle[b]) = n /\ Newest(bundle'[b]) = n + 1
        BY <1>2, <1>4, <3>1
      <4> QED
        BY <4>1
    <3>2. CASE b # b0
      BY <1>4, <2>1, <3>2
    <3> QED
      BY <3>1, <3>2
  <2>3. ASSUME NEW i \in 1 .. Newest(bundle'[b]), b = b0 /\ i = n + 1
        PROVE  ~(i <= Newest(bundle[b])) /\ Label(b, i)' > clock
    <3>1. Newest(bundle[b]) = n /\ IsPending(bundle'[b], i)
      BY <1>2, <1>8, <2>3
    <3>2. owner'[b] = p /\ ts'[p] = NullTS
      BY <1>1, <1>2, <2>3
    <3>3. Label(b, i)' = Pending
      BY <3>1, <3>2 DEF Label
    <3> QED
      BY <1>2, <2>3, <3>1, <3>3
  <2>4. ASSUME NEW i \in 1 .. Newest(bundle'[b]), ~(b = b0 /\ i = n + 1)
        PROVE  /\ i <= Newest(bundle[b])
               /\ bundle'[b].entries[i].ptr = bundle[b].entries[i].ptr
               /\ Label(b, i)' = Label(b, i)
    <3>1. /\ i \in 1 .. Newest(bundle[b])
          /\ bundle'[b].entries[i] = bundle[b].entries[i]
          /\ IsPending(bundle'[b], i) <=> IsPending(bundle[b], i)
      BY <1>9, <2>4
    <3> QED
      BY <1>1, <2>1, <3>1 DEF Label
  <2> QED
    BY <2>2, <2>3, <2>4
<1> QED
  BY <1>6, <1>7, <1>10, <1>11, <1>13, <1>14, <1>15 DEF UInv

LEMMA FinalizeStep ==
  ASSUME IInv, NEW p \in Updaters, Finalize(p)
  PROVE  UInv' /\ LabelStep
<1>u. pc[p] = "finalize" /\ pc[p] \in UpdatePCs
  BY DEF Finalize, UpdatePCs
<1>m. PICK m \in Nat : m = idx[p]
  BY <1>u, UpdateState
<1>b. PICK b0 \in Bundles : b0 = upd[p][m].bundle
  BY <1>u, <1>m, UpdateState
<1>n. PICK n \in Nat : n = Newest(bundle[b0])
  BY NewestNat DEF IInv, TypeOK
<1>t. PICK t \in Nat : t = ts[p] + 1
  BY <1>u, UpdateState
<1>1. /\ pc[p] = "finalize" /\ pc[p] \in UpdatePCs
      /\ UNCHANGED <<clock, owner, upd, ts>>
      /\ bundle' = [bundle EXCEPT ![b0] = Finalized(bundle[b0], t)]
      /\ NextBundle(p, "unlock")
  BY <1>u, <1>m, <1>b, <1>t DEF Finalize
<1>2. /\ p \in Procs /\ p # NoProc /\ upd[p] \in Updates
      /\ Len(upd[p]) \in Nat \ {0} /\ m \in 1 .. Len(upd[p])
      /\ b0 \in Bundles /\ owner[b0] = p /\ bundle[b0] \in Bundle
      /\ n \in Nat /\ clock \in Nat /\ ts[p] # NullTS /\ ts[p] \in Nat
      /\ t \in Nat /\ t <= clock /\ t < Pending /\ Pending \in Nat
      /\ m = idx[p] /\ b0 = upd[p][m].bundle /\ n = Newest(bundle[b0])
      /\ t = ts[p] + 1
  BY <1>1, <1>m, <1>b, <1>n, <1>t, UpdateState, PendingAssumption
  DEF IInv, UInv, UpdateInv, ClockInv
<1>3. /\ pc'[p] = IF m < Len(upd[p]) THEN "finalize" ELSE "unlock"
      /\ idx'[p] = IF m < Len(upd[p]) THEN m + 1 ELSE 1
      /\ idx'[p] \in 1 .. Len(upd[p])
      /\ \A q \in Procs : q # p => pc'[q] = pc[q] /\ idx'[q] = idx[q]
  BY <1>1, <1>2, NextBundleProps
<1>4. /\ n # 0 /\ IsPending(bundle[b0], n)
      /\ \A i \in 1 .. n : i # n => bundle[b0].entries[i].ts <= ts[p]
  <2>1. Awaits(p, m)
    BY <1>1, <1>2 DEF Awaits
  <2> QED
    BY <1>2, <2>1 DEF IInv, UInv, AwaitInv
<1>5. /\ Newest(bundle'[b0]) = n
      /\ \A i \in 1 .. n : i # n => bundle'[b0].entries[i] = bundle[b0].entries[i]
      /\ bundle'[b0].entries[n].ts = t
      /\ bundle'[b0].entries[n].ptr = bundle[b0].entries[n].ptr
      /\ \A b \in Bundles : b # b0 => bundle'[b] = bundle[b]
  <2>1. bundle'[b0] = Finalized(bundle[b0], t)
        /\ \A b \in Bundles : b # b0 => bundle'[b] = bundle[b]
    BY <1>1, <1>2 DEF IInv, TypeOK
  <2>2. /\ Newest(bundle[b0]) = n /\ Newest(bundle[b0]) # 0
        /\ bundle[b0] \in Bundle /\ t \in Nat
    BY <1>2, <1>4
  <2>3. /\ Newest(bundle'[b0]) = Newest(bundle[b0])
        /\ \A i \in 1 .. Newest(bundle[b0]) :
              i # Newest(bundle[b0]) => bundle'[b0].entries[i] = bundle[b0].entries[i]
        /\ bundle'[b0].entries[Newest(bundle[b0])].ts = t
        /\ bundle'[b0].entries[Newest(bundle[b0])].ptr
              = bundle[b0].entries[Newest(bundle[b0])].ptr
    <3>1. \A bd \in Bundle : Newest(bd) # 0 =>
             /\ Newest(Finalized(bd, t)) = Newest(bd)
             /\ \A i \in 1 .. Newest(bd) :
                   i # Newest(bd) => Finalized(bd, t).entries[i] = bd.entries[i]
             /\ Finalized(bd, t).entries[Newest(bd)].ts = t
             /\ Finalized(bd, t).entries[Newest(bd)].ptr = bd.entries[Newest(bd)].ptr
      BY FinalizedProps
    <3> QED
      BY <2>1, <2>2, <3>1
  <2> QED
    BY <2>1, <2>2, <2>3
<1>6. UpdateInv'
  <2> SUFFICES ASSUME NEW q \in Procs
               PROVE  /\ IF pc'[q] \in UpdatePCs
                         THEN q \in Updaters /\ upd[q] \in Updates
                              /\ idx'[q] \in 1 .. Len(upd[q])
                         ELSE upd[q] = <<>> /\ idx'[q] = 0
                      /\ pc'[q] \in {"load", "reload", "bump"} => idx'[q] = 1
                      /\ ts[q] # NullTS <=>
                            pc'[q] \in {"reload", "bump", "finalize", "unlock"}
                      /\ ts[q] <= clock /\ ts[q] + 1 < Pending
                      /\ pc'[q] \in {"finalize", "unlock"} => ts[q] < clock
    BY <1>1 DEF UpdateInv
  <2>1. CASE q = p
    BY <1>1, <1>2, <1>3, <2>1 DEF IInv, UInv, UpdateInv, UpdatePCs
  <2>2. CASE q # p
    BY <1>3, <2>2 DEF IInv, UInv, UpdateInv
  <2> QED
    BY <2>1, <2>2
<1>7. ClockInv' /\ OwnerInv'
  BY <1>1 DEF IInv, UInv, ClockInv, OwnerInv, BundlesOf
<1>8. \A i \in 1 .. n : i # n => ~IsPending(bundle[b0], i)
  <2>1. Newest(bundle[b0]) = n
    BY <1>2
  <2> QED
    BY <2>1, PendingOwner
<1>9. ASSUME NEW b \in Bundles, NEW i \in 1 .. Newest(bundle'[b])
      PROVE  /\ i \in 1 .. Newest(bundle[b])
             /\ bundle'[b].entries[i].ptr = bundle[b].entries[i].ptr
             /\ \/ /\ b = b0 /\ i = n
                   /\ bundle'[b].entries[i].ts = t /\ ~IsPending(bundle'[b], i)
                \/ /\ ~(b = b0 /\ i = n)
                   /\ b = b0 => i \in 1 .. n /\ ~IsPending(bundle[b], i)
                   /\ bundle'[b].entries[i] = bundle[b].entries[i]
                   /\ IsPending(bundle'[b], i) <=> IsPending(bundle[b], i)
  <2>1. CASE b = b0
    <3>1. n \in Nat /\ i \in 1 .. n /\ Newest(bundle[b]) = n
      BY <1>2, <1>5, <2>1
    <3>2. CASE i = n
      <4>1. t # Pending
        BY <1>2
      <4> QED
        BY <1>5, <2>1, <3>1, <3>2, <4>1 DEF IsPending
    <3>3. CASE i # n
      <4>1. bundle'[b0].entries[i] = bundle[b0].entries[i] /\ ~IsPending(bundle[b0], i)
        BY <1>5, <1>8, <3>1, <3>3
      <4> QED
        BY <2>1, <3>1, <3>3, <4>1 DEF IsPending
    <3> QED
      BY <3>2, <3>3
  <2>2. CASE b # b0
    BY <1>5, <2>2
  <2> QED
    BY <2>1, <2>2
<1>10. LabelsReached'
  <2> SUFFICES ASSUME NEW b \in Bundles, NEW i \in 1 .. Newest(bundle'[b]),
                      ~IsPending(bundle'[b], i)
               PROVE  bundle'[b].entries[i].ts <= clock
    BY <1>1 DEF LabelsReached
  <2>1. t <= clock
    BY <1>2
  <2> QED
    BY <1>9, <2>1 DEF IInv, UInv, LabelsReached
<1>11. OrderInv'
  <2> SUFFICES ASSUME NEW b \in Bundles, NEW i \in 1 .. Newest(bundle'[b]),
                      NEW j \in 1 .. Newest(bundle'[b]), i < j
               PROVE  bundle'[b].entries[i].ts < bundle'[b].entries[j].ts
    BY DEF OrderInv
  <2>1. CASE b = b0 /\ j = n
    <3>1. i # n
      BY <2>1
    <3>2. i \in 1 .. n /\ bundle'[b].entries[i] = bundle[b0].entries[i]
      BY <1>9, <2>1, <3>1
    <3>3. bundle[b0].entries[i].ts <= ts[p]
      BY <1>4, <3>1, <3>2
    <3>4. Newest(bundle[b0]) = n /\ bundle[b0] \in Bundle
      BY <1>2
    <3>5. bundle[b0].entries[i].ts \in Nat
      BY <3>2, <3>4, NewestNat
    <3>6. bundle'[b].entries[j].ts = t /\ t = ts[p] + 1 /\ ts[p] \in Nat
      BY <1>2, <1>5, <2>1
    <3> QED
      BY <3>2, <3>3, <3>5, <3>6
  <2>2. CASE ~(b = b0 /\ j = n)
    <3>1. ~(b = b0 /\ i = n)
      <4>1. ASSUME b = b0, i = n PROVE FALSE
        <5>1. j \in 1 .. n
          BY <1>9, <2>2, <4>1
        <5> QED
          BY <4>1, <5>1
      <4> QED
        BY <4>1
    <3> QED
      BY <1>9, <2>2, <3>1 DEF IInv, UInv, OrderInv
  <2> QED
    BY <2>1, <2>2
<1>12. \A q \in Updaters : \A k \in 1 .. Len(upd[q]) :
          Awaits(q, k)' <=> Awaits(q, k) /\ ~(q = p /\ k = m)
  <2> TAKE q \in Updaters
  <2> TAKE k \in 1 .. Len(upd[q])
  <2>1. CASE q = p
    BY <1>1, <1>2, <1>3, <2>1 DEF Awaits
  <2>2. CASE q # p
    <3>1. q \in Procs
      BY ProcsAssumption
    <3> QED
      BY <1>3, <2>2, <3>1 DEF Awaits
  <2> QED
    BY <2>1, <2>2
<1>13. PendingInv'
  <2> SUFFICES ASSUME NEW b \in Bundles, NEW i \in 1 .. Newest(bundle'[b]),
                      IsPending(bundle'[b], i)
               PROVE  /\ i = Newest(bundle'[b])
                      /\ \E q \in Updaters : \E k \in 1 .. Len(upd[q]) :
                            upd[q][k].bundle = b /\ Awaits(q, k)'
    BY <1>1 DEF PendingInv
  <2>1. b # b0
    BY <1>9
  <2>2. bundle'[b] = bundle[b]
    BY <1>5, <2>1
  <2>3. i = Newest(bundle[b])
    BY <2>2, PendingOwner
  <2>4. PICK q \in Updaters :
           \E k \in 1 .. Len(upd[q]) : upd[q][k].bundle = b /\ Awaits(q, k)
    BY <2>2, PendingOwner
  <2>5. PICK k \in 1 .. Len(upd[q]) : upd[q][k].bundle = b /\ Awaits(q, k)
    BY <2>4
  <2>6. ~(q = p /\ k = m)
    BY <1>2, <2>1, <2>5
  <2> QED
    BY <1>12, <2>2, <2>3, <2>5, <2>6
<1>14. AwaitInv'
  <2> SUFFICES ASSUME NEW q \in Updaters, NEW k \in 1 .. Len(upd[q]), Awaits(q, k)',
                      NEW bd, bd = bundle'[upd[q][k].bundle]
               PROVE  /\ Newest(bd) # 0 /\ IsPending(bd, Newest(bd))
                      /\ ts[q] # NullTS =>
                           \A i \in 1 .. Newest(bd) :
                              i # Newest(bd) => bd.entries[i].ts <= ts[q]
    BY <1>1 DEF AwaitInv
  <2>1. Awaits(q, k) /\ ~(q = p /\ k = m)
    BY <1>12
  <2>2. upd[q][k].bundle \in Bundles /\ upd[q][k].bundle # b0
    BY <1>2, <2>1, Exclusive
  <2>3. bd = bundle[upd[q][k].bundle]
    BY <1>5, <2>2
  <2> QED
    BY <2>1, <2>3 DEF IInv, UInv, AwaitInv
<1>15. LabelStep
  <2>1. \A b \in Bundles : Newest(bundle[b]) \in Nat
    BY NewestNat DEF IInv, TypeOK
  <2> SUFFICES ASSUME NEW b \in Bundles
               PROVE  /\ Newest(bundle'[b]) = Newest(bundle[b])
                      /\ \A i \in 1 .. Newest(bundle'[b]) :
                           /\ i <= Newest(bundle[b])
                           /\ bundle'[b].entries[i].ptr = bundle[b].entries[i].ptr
                           /\ Label(b, i)' = Label(b, i)
    <3>1. clock <= clock'
      <4>1. clock' = clock
        BY <1>1
      <4>2. clock \in Nat
        BY <1>2
      <4> QED
        BY <4>1, <4>2
    <3> QED
      BY <2>1, <3>1 DEF LabelStep
  <2>2. Newest(bundle'[b]) = Newest(bundle[b])
    BY <1>2, <1>5
  <2>3. ASSUME NEW i \in 1 .. Newest(bundle'[b])
        PROVE  /\ i <= Newest(bundle[b])
               /\ bundle'[b].entries[i].ptr = bundle[b].entries[i].ptr
               /\ Label(b, i)' = Label(b, i)
    <3>1. i <= Newest(bundle[b]) /\ bundle'[b].entries[i].ptr = bundle[b].entries[i].ptr
      BY <1>9, <2>1
    <3>2. CASE b = b0 /\ i = n
      <4>1. Label(b, i)' = t
        BY <1>9, <3>2 DEF Label
      <4>2. IsPending(bundle[b], i) /\ owner[b] = p
        BY <1>2, <1>4, <3>2
      <4>3. Label(b, i) = ts[p] + 1
        BY <1>2, <4>2 DEF Label
      <4> QED
        BY <1>2, <3>1, <4>1, <4>3
    <3>3. CASE ~(b = b0 /\ i = n)
      <4>1. /\ bundle'[b].entries[i] = bundle[b].entries[i]
            /\ IsPending(bundle'[b], i) <=> IsPending(bundle[b], i)
        BY <1>9, <3>3
      <4> QED
        BY <1>1, <3>1, <4>1 DEF Label
    <3> QED
      BY <3>2, <3>3
  <2> QED
    BY <2>2, <2>3
<1> QED
  BY <1>6, <1>7, <1>10, <1>11, <1>13, <1>14, <1>15 DEF UInv

-----------------------------------------------------------------------------
(***************************************************************************)
(* Reads and the cleaner.                                                  *)
(***************************************************************************)

\* Bundles only grow, whatever the step: a position in one stays a position.
LEMMA Grows ==
  ASSUME IInv, LabelStep, TypeOK', NEW b \in Bundles, NEW i \in 0 .. Newest(bundle[b])
  PROVE  i \in 0 .. Newest(bundle'[b])
<1>1. Newest(bundle[b]) \in Nat
  BY NewestNat DEF IInv, TypeOK
<1>2. bundle'[b] \in Bundle
  BY DEF TypeOK
<1>3. Newest(bundle'[b]) \in Nat
  BY <1>2, NewestNat
<1> QED
  BY <1>1, <1>3 DEF LabelStep

\* A step keeps the reads that it does not take further.
LEMMA OtherReads ==
  ASSUME IInv, LabelStep, TypeOK', NEW q \in Procs,
         \/ pc'[q] = pc[q] /\ at'[q] = at[q] /\ cur'[q] = cur[q]
         \/ pc'[q] \notin LookupPCs \cup {"get"}
  PROVE  /\ pc'[q] \in LookupPCs \cup {"get"} =>
               at'[q] \in Bundles /\ cur'[q] \in 0 .. Newest(bundle'[at'[q]])
         /\ pc'[q] \in {"first", "second", "secondTS", "wait", "get"} => cur'[q] # 0
         /\ pc'[q] = "secondTS" => cur'[q] # 1
<1>1. CASE pc'[q] \notin LookupPCs \cup {"get"}
  BY <1>1 DEF LookupPCs
<1>2. CASE pc'[q] = pc[q] /\ at'[q] = at[q] /\ cur'[q] = cur[q]
  <2>1. /\ pc[q] \in LookupPCs \cup {"get"} =>
               at[q] \in Bundles /\ cur[q] \in 0 .. Newest(bundle[at[q]])
        /\ pc[q] \in {"first", "second", "secondTS", "wait", "get"} => cur[q] # 0
        /\ pc[q] = "secondTS" => cur[q] # 1
    BY DEF IInv, ReaderInv
  <2>2. pc[q] \in LookupPCs \cup {"get"} => cur[q] \in 0 .. Newest(bundle'[at[q]])
    BY <2>1, Grows
  <2> QED
    BY <1>2, <2>1, <2>2
<1> QED
  BY <1>1, <1>2

LEMMA ReadsFurther ==
  ASSUME IInv, TypeOK', LabelStep, NEW p \in Procs, Query(p) \/ RunContains(p), Reads(p)
  PROVE  ReaderInv'
<1> USE DEF LookupPCs
<1>1. bundle' = bundle
  BY DEF Reads
<1>2. pc \in [Procs -> PCs] /\ at \in [Procs -> Bundles \cup {NoBundle}] /\ cur \in [Procs -> Nat]
  BY DEF IInv, TypeOK
<1>3. ASSUME NEW q \in Procs, q # p
      PROVE  pc'[q] = pc[q] /\ at'[q] = at[q] /\ cur'[q] = cur[q]
  <2>1. pc'[q] = pc[q]
    BY <1>2, <1>3 DEF Reads
  <2>2. at'[q] = at[q] /\ cur'[q] = cur[q]
    BY <1>2, <1>3
    DEF Query, RunContains, StartTraversal, AnnounceStep, ReadClock, Announce, ClearFlag,
        BeginLookup, LookupStep, CheckFirst, LoadSecond, CheckSecond, AwaitLabel, Walk,
        Return, Continue, EndTraversal, BeginGet, Get, EndGet, readVars
  <2> QED
    BY <2>1, <2>2
<1>4. /\ pc'[p] \in LookupPCs \cup {"get"} =>
            at'[p] \in Bundles /\ cur'[p] \in 0 .. Newest(bundle[at'[p]])
      /\ pc'[p] \in {"first", "second", "secondTS", "wait", "get"} => cur'[p] # 0
      /\ pc'[p] = "secondTS" => cur'[p] # 1
  <2>1. CASE StartTraversal(p) \/ AnnounceStep(p) \/ EndTraversal(p) \/ EndGet(p)
    BY <1>2, <2>1
    DEF StartTraversal, AnnounceStep, ReadClock, Announce, ClearFlag, EndTraversal, EndGet
  <2>2. ASSUME NEW b \in Bundles, BeginLookup(p, b) \/ BeginGet(p, b)
        PROVE  /\ at'[p] \in Bundles /\ cur'[p] \in 0 .. Newest(bundle[at'[p]])
               /\ cur'[p] # 0 /\ pc'[p] # "secondTS"
    <3>1. Newest(bundle[b]) \in Nat
      BY NewestNat DEF IInv, TypeOK
    <3>2. at'[p] = b /\ cur'[p] = Newest(bundle[b]) /\ pc'[p] \in {"first", "get"}
      BY <1>2, <2>2 DEF BeginLookup, BeginGet
    <3>3. Newest(bundle[b]) # 0
      <4>1. ASSUME Newest(bundle[b]) = 0, NEW t PROVE ValueAt(b, t) = NoPtr
        BY <4>1 DEF ValueAt, Visible
      <4> QED
        BY <2>2, <4>1 DEF BeginLookup, BeginGet
    <3> QED
      BY <3>1, <3>2, <3>3
  <2>3. CASE LookupStep(p) \/ Get(p)
    <3>1. /\ at[p] \in Bundles /\ at'[p] = at[p]
          /\ cur[p] \in 0 .. Newest(bundle[at[p]]) /\ cur[p] \in Nat
          /\ Newest(bundle[at[p]]) \in Nat
          /\ bundle[at[p]].low \in Nat \ {0}
      <4>1. pc[p] \in LookupPCs \cup {"get"} /\ at' = at
        BY <2>3
        DEF LookupStep, Get, CheckFirst, LoadSecond, CheckSecond, AwaitLabel, Walk
      <4>2. at[p] \in Bundles /\ cur[p] \in 0 .. Newest(bundle[at[p]])
        BY <4>1 DEF IInv, ReaderInv
      <4> QED
        BY <1>2, <4>1, <4>2, NewestNat DEF IInv, TypeOK
    <3>2. \A i, l : Continue(p, i, l) => cur'[p] = i /\ pc'[p] = l
      BY <1>2 DEF Continue
    <3>3. \A i, l : Return(p, i, l) => cur'[p] = 0 /\ pc'[p] = l
      BY <1>2 DEF Return
    <3>4. CASE CheckFirst(p)
      BY <3>1, <3>2, <3>3, <3>4 DEF CheckFirst, IInv, ReaderInv
    <3>5. CASE LoadSecond(p)
      <4>1. cur[p] # 0
        BY <3>5 DEF LoadSecond, IInv, ReaderInv
      <4>2. NextOf(bundle[at[p]], cur[p]) # 0 => cur[p] # 1
        BY <3>1 DEF NextOf
      <4> QED
        BY <3>1, <3>2, <3>5, <4>1, <4>2 DEF LoadSecond
    <3>6. CASE CheckSecond(p)
      <4>1. cur[p] # 0
        BY <3>6 DEF CheckSecond, IInv, ReaderInv
      <4>2. cur[p] - 1 \in 0 .. Newest(bundle[at[p]])
        BY <3>1, <4>1
      <4> QED
        BY <3>1, <3>2, <3>3, <3>6, <4>1, <4>2 DEF CheckSecond
    <3>7. CASE AwaitLabel(p)
      BY <3>1, <3>2, <3>7 DEF AwaitLabel
    <3>8. CASE Walk(p)
      <4>1. cur[p] # 0 => NextOf(bundle[at[p]], cur[p]) \in 0 .. Newest(bundle[at[p]])
        BY <3>1 DEF NextOf
      <4> QED
        BY <3>1, <3>2, <3>3, <3>8, <4>1 DEF Walk
    <3>9. CASE Get(p)
      BY <3>3, <3>9 DEF Get
    <3> QED
      BY <2>3, <3>4, <3>5, <3>6, <3>7, <3>8, <3>9 DEF LookupStep
  <2> QED
    BY <2>1, <2>2, <2>3 DEF Query, RunContains
<1>5. \A q \in Procs :
        /\ pc'[q] \in LookupPCs \cup {"get"} =>
               at'[q] \in Bundles /\ cur'[q] \in 0 .. Newest(bundle'[at'[q]])
        /\ pc'[q] \in {"first", "second", "secondTS", "wait", "get"} => cur'[q] # 0
        /\ pc'[q] = "secondTS" => cur'[q] # 1
  BY <1>1, <1>3, <1>4, OtherReads
<1> QED
  BY <1>5 DEF ReaderInv

\* An update and the cleaner leave the reads of others alone.
LEMMA ReadsUndisturbed ==
  ASSUME IInv, TypeOK', LabelStep, UNCHANGED readVars,
         \A q \in Procs : pc'[q] = pc[q] \/ pc'[q] \notin LookupPCs \cup {"get"}
  PROVE  ReaderInv'
<1>1. \A q \in Procs : at'[q] = at[q] /\ cur'[q] = cur[q]
  BY DEF readVars
<1> QED
  BY <1>1, OtherReads DEF ReaderInv

\* The head the cleaner has loaded stays in its bundle.
LEMMA CleanerUndisturbed ==
  ASSUME IInv, TypeOK', LabelStep, UNCHANGED cleanVars
  PROVE  CleanerInv'
<1>1. CASE cpc # "cut"
  BY <1>1 DEF CleanerInv, cleanVars
<1>2. CASE cpc = "cut"
  <2>1. cbun \in Bundles /\ chead \in 1 .. Newest(bundle[cbun])
    BY <1>2 DEF IInv, CleanerInv
  <2>2. Newest(bundle[cbun]) \in Nat
    BY <2>1, NewestNat DEF IInv, TypeOK
  <2>3. chead \in 0 .. Newest(bundle[cbun]) /\ chead # 0
    BY <2>1, <2>2
  <2>4. chead \in 0 .. Newest(bundle'[cbun])
    BY <2>1, <2>3, Grows
  <2>5. Newest(bundle'[cbun]) \in Nat
    BY <2>1, NewestNat DEF TypeOK
  <2>6. chead \in 1 .. Newest(bundle'[cbun])
    BY <2>3, <2>4, <2>5
  <2> QED
    BY <2>1, <2>6 DEF CleanerInv, cleanVars
<1> QED
  BY <1>1, <1>2

\* An update frees nothing, and leaves finalized entries as they are.
LEMMA UpdateKeeps ==
  ASSUME IInv, NEW p \in Updaters, Update(p)
  PROVE  \A b \in Bundles :
            /\ bundle'[b].low = bundle[b].low
            /\ \A i \in 1 .. Newest(bundle[b]) :
                  ~IsPending(bundle[b], i) => bundle'[b].entries[i] = bundle[b].entries[i]
<1>1. bundle \in [Bundles -> Bundle]
  BY DEF IInv, TypeOK
<1>2. CASE Prepare(p)
  <2>1. upd[p][idx[p]].bundle \in Bundles /\ upd[p][idx[p]].ptr \in Ptrs
    BY <1>2, Exclusive, ProcsAssumption
    DEF Prepare, IInv, UInv, UpdateInv, UpdatePCs
  <2>2. PICK k \in Bundles, x \in Ptrs : bundle' = [bundle EXCEPT ![k] = Prepared(@, x)]
    BY <1>2, <2>1 DEF Prepare
  <2>3. /\ Prepared(bundle[k], x).low = bundle[k].low
        /\ \A i \in 1 .. Newest(bundle[k]) :
              Prepared(bundle[k], x).entries[i] = bundle[k].entries[i]
    BY <1>1, PreparedProps
  <2>4. \A b \in Bundles : bundle'[b] = IF b = k THEN Prepared(bundle[k], x) ELSE bundle[b]
    BY <1>1, <2>2
  <2> QED
    BY <2>3, <2>4
<1>3. CASE Finalize(p)
  <2>1. p \in Procs /\ idx[p] \in 1 .. Len(upd[p]) /\ Awaits(p, idx[p]) /\ ts[p] + 1 \in Nat
    BY <1>3, ProcsAssumption, UpdateProps
    DEF Finalize, IInv, UInv, UpdateInv, UpdatePCs, Awaits, TypeOK
  <2>2. PICK k : k = upd[p][idx[p]].bundle
    OBVIOUS
  <2>3. k \in Bundles /\ Newest(bundle[k]) # 0 /\ IsPending(bundle[k], Newest(bundle[k]))
    BY <2>1, <2>2, Exclusive DEF IInv, UInv, AwaitInv
  <2>4. PICK t \in Nat : bundle' = [bundle EXCEPT ![k] = Finalized(@, t)]
    BY <1>3, <2>1, <2>2 DEF Finalize
  <2>5. /\ Finalized(bundle[k], t).low = bundle[k].low
        /\ \A i \in 1 .. Newest(bundle[k]) :
              i # Newest(bundle[k]) =>
                 Finalized(bundle[k], t).entries[i] = bundle[k].entries[i]
    BY <1>1, <2>3, FinalizedProps
  <2>6. \A b \in Bundles : bundle'[b] = IF b = k THEN Finalized(bundle[k], t) ELSE bundle[b]
    BY <1>1, <2>4
  <2> QED
    BY <2>3, <2>5, <2>6
<1>4. CASE ~(Prepare(p) \/ Finalize(p))
  <2>1. bundle' = bundle
    BY <1>4 DEF Update, UpdateStep, BeginUpdate, LoadTS, ReloadTS, FetchAdd, EndUpdate
  <2> QED
    BY <2>1
<1> QED
  BY <1>2, <1>3, <1>4

LEMMA NextInv ==
  ASSUME IInv, [Next]_vars
  PROVE  IInv' /\ LabelStep
<1>1. ASSUME NEW p \in Updaters, Update(p) PROVE IInv' /\ LabelStep
  <2>1. TypeOK'
    BY <1>1, TypeUpdate
  <2>2. UInv' /\ LabelStep
    BY <1>1, BeginStep, LoadStep, ClockStep, PrepareStep, FinalizeStep, EndStep
    DEF Update, UpdateStep
  <2>3. UNCHANGED readVars /\ UNCHANGED cleanVars
    BY <1>1
    DEF Update, UpdateStep, BeginUpdate, LoadTS, ReloadTS, FetchAdd, Prepare, Finalize,
        EndUpdate
  <2>4. \A q \in Procs : pc'[q] = pc[q] \/ pc'[q] \notin LookupPCs \cup {"get"}
    <3>1. pc \in [Procs -> PCs]
      BY DEF IInv, TypeOK
    <3> QED
      BY <1>1, <3>1
      DEF Update, UpdateStep, BeginUpdate, LoadTS, ReloadTS, FetchAdd, Prepare, Finalize,
          EndUpdate, NextBundle, LookupPCs
  <2>5. ReaderInv' /\ CleanerInv'
    BY <2>1, <2>2, <2>3, <2>4, ReadsUndisturbed, CleanerUndisturbed
  <2> QED
    BY <2>1, <2>2, <2>5 DEF IInv
<1>2. ASSUME NEW p \in Procs, Query(p) \/ RunContains(p) PROVE IInv' /\ LabelStep
  <2>1. TypeOK' /\ Reads(p)
    BY <1>2, TypeQuery
  <2>2. \A q \in Procs : \/ pc'[q] = pc[q]
                         \/ pc[q] \notin UpdatePCs /\ pc'[q] \notin UpdatePCs
    BY <2>1 DEF Reads, IInv, TypeOK
  <2>3. UInv' /\ LabelStep
    BY <2>1, <2>2, OtherStep DEF Reads
  <2>4. ReaderInv'
    BY <1>2, <2>1, <2>3, ReadsFurther
  <2>5. CleanerInv'
    BY <2>1, <2>3, CleanerUndisturbed DEF Reads
  <2> QED
    BY <2>1, <2>3, <2>4, <2>5 DEF IInv
<1>3. ASSUME Clean PROVE IInv' /\ LabelStep
  <2>1. TypeOK' /\ Cleans
    BY <1>3, TypeClean
  <2>2. UInv' /\ LabelStep
    BY <2>1, OtherStep DEF Cleans, workVars, updateVars
  <2>3. ReaderInv'
    BY <2>1, <2>2, ReadsUndisturbed DEF Cleans, workVars, readVars
  <2>4. CleanerInv'
    <3>1. CASE \E b \in Bundles : CleanLoadHead(b)
      <4>1. PICK b \in Bundles : CleanLoadHead(b)
        BY <3>1
      <4>2. Newest(bundle[b]) \in Nat \ {0}
        BY <4>1, NewestNat DEF CleanLoadHead, IInv, TypeOK
      <4>3. bundle' = bundle /\ cbun' = b /\ chead' = Newest(bundle[b])
        BY <4>1 DEF CleanLoadHead
      <4> QED
        BY <4>2, <4>3 DEF CleanerInv
    <3>2. CASE ~\E b \in Bundles : CleanLoadHead(b)
      <4>1. cpc' # "cut"
        BY <1>3, <3>2
        DEF Clean, CleanStart, CleanAwaitFlag, CleanReadLin, CleanCut, CleanEnd
      <4> QED
        BY <4>1 DEF CleanerInv
    <3> QED
      BY <3>1, <3>2
  <2> QED
    BY <2>1, <2>2, <2>3, <2>4 DEF IInv
<1>4. CASE UNCHANGED vars
  <2>1. TypeOK'
    BY <1>4 DEF IInv, TypeOK, vars
  <2>2. UInv' /\ LabelStep
    BY <1>4, OtherStep DEF vars, updateVars
  <2>3. ReaderInv' /\ CleanerInv'
    BY <1>4, <2>1, <2>2, ReadsUndisturbed, CleanerUndisturbed DEF vars, readVars, cleanVars
  <2> QED
    BY <2>1, <2>2, <2>3 DEF IInv
<1> QED
  BY <1>1, <1>2, <1>3, <1>4, ProcsAssumption DEF Next

-----------------------------------------------------------------------------
(***************************************************************************)
(* The theorems.                                                           *)
(***************************************************************************)

\* The invariant holds in every state the provider reaches.
THEOREM Invariance == Spec => []IInv
<1>1. Init => IInv
  BY InitInv
<1>2. IInv /\ [Next]_vars => IInv'
  BY NextInv
<1> QED
  BY <1>1, <1>2, PTL DEF Spec

\* Type correctness: getPtrByTimestamp and getPtr return pointers of the bundle
\* they read, the loops of an update stay within its bundles, and the cleaner
\* within the bundle it reclaims.
THEOREM TypeCorrectness == Spec => []TypeOK
<1>1. IInv => TypeOK
  BY DEF IInv
<1> QED
  BY <1>1, Invariance, PTL

\* A label is a number.
LEMMA LabelNat ==
  ASSUME IInv, NEW b \in Bundles, NEW i \in 1 .. Newest(bundle[b])
  PROVE  Label(b, i) \in Nat
<1>1. bundle[b].entries[i].ts \in Nat
  BY NewestNat DEF IInv, TypeOK
<1>2. owner[b] # NoProc => ts[owner[b]] \in Nat
  BY ProcsAssumption DEF IInv, TypeOK
<1> QED
  BY <1>1, <1>2, PendingAssumption DEF Label

\* The labels of a bundle are in order, and only the head of a locked node is
\* pending.
LEMMA LabelOrder ==
  ASSUME IInv
  PROVE  BundleOrder
<1> SUFFICES ASSUME NEW b \in Bundles
             PROVE  /\ \A i, j \in 1 .. Newest(bundle[b]) : i < j => Label(b, i) < Label(b, j)
                    /\ \A i \in 1 .. Newest(bundle[b]) :
                         IsPending(bundle[b], i) => i = Newest(bundle[b]) /\ owner[b] # NoProc
  BY DEF BundleOrder
<1>1. \A i \in 1 .. Newest(bundle[b]) :
         IsPending(bundle[b], i) => i = Newest(bundle[b]) /\ owner[b] # NoProc
  BY PendingOwner
<1>2. ASSUME NEW i \in 1 .. Newest(bundle[b]), NEW j \in 1 .. Newest(bundle[b]), i < j
      PROVE  Label(b, i) < Label(b, j)
  <2> DEFINE e == bundle[b].entries
  <2>1. Newest(bundle[b]) \in Nat /\ e[i].ts \in Nat /\ e[j].ts \in Nat
    BY NewestNat DEF IInv, TypeOK
  <2>2. i # Newest(bundle[b])
    BY <1>2, <2>1
  <2>3. Label(b, i) = e[i].ts /\ e[i].ts <= clock
    BY <1>1, <2>2 DEF Label, IInv, UInv, LabelsReached
  <2>4. CASE ~IsPending(bundle[b], j)
    BY <1>2, <2>3, <2>4 DEF Label, IInv, UInv, OrderInv
  <2>5. CASE IsPending(bundle[b], j)
    <3>1. PICK q \in Updaters :
             /\ \E k \in 1 .. Len(upd[q]) : upd[q][k].bundle = b /\ Awaits(q, k)
             /\ owner[b] = q /\ q # NoProc /\ q \in Procs
      BY <2>5, PendingOwner, ProcsAssumption
    <3>2. PICK k \in 1 .. Len(upd[q]) : upd[q][k].bundle = b /\ Awaits(q, k)
      BY <3>1
    <3>3. CASE ts[q] = NullTS
      <4>1. Label(b, j) = Pending
        BY <2>5, <3>1, <3>3 DEF Label
      <4>2. clock < Pending /\ clock \in Nat /\ Pending \in Nat
        BY PendingAssumption DEF IInv, UInv, ClockInv, TypeOK
      <4> QED
        BY <2>1, <2>3, <4>1, <4>2
    <3>4. CASE ts[q] # NullTS
      <4>1. Label(b, j) = ts[q] + 1
        BY <2>5, <3>1, <3>4 DEF Label
      <4>2. e[i].ts <= ts[q]
        BY <2>2, <3>2, <3>4 DEF IInv, UInv, AwaitInv
      <4>3. ts[q] \in Nat
        BY <3>1 DEF IInv, TypeOK
      <4> QED
        BY <2>1, <2>3, <4>1, <4>2, <4>3
    <3> QED
      BY <3>3, <3>4
  <2> QED
    BY <2>4, <2>5
<1> QED
  BY <1>1, <1>2

\* Whoever updates a bundle, and however the updates and their two loads of the
\* clock interleave, the labels of a bundle decrease from the head on and only
\* the head of a locked node is pending.
THEOREM LabelsOrdered == Spec => []BundleOrder
<1>1. IInv => BundleOrder
  BY LabelOrder
<1> QED
  BY <1>1, Invariance, PTL

\* No bundle holds a label that the clock has not reached.
THEOREM ClockReachesLabels == Spec => []LabelsReached
<1>1. IInv => LabelsReached
  BY DEF IInv, UInv
<1> QED
  BY <1>1, Invariance, PTL

\* Which entries are visible at a timestamp the clock has reached never changes.
LEMMA VisibleKept ==
  ASSUME IInv, IInv', LabelStep, NEW b \in Bundles, NEW t \in FirstTS .. clock
  PROVE  Visible(b, t)' = Visible(b, t)
<1>1. /\ clock \in Nat /\ t \in Nat /\ t <= clock
      /\ Newest(bundle[b]) \in Nat /\ Newest(bundle'[b]) \in Nat
      /\ Newest(bundle[b]) <= Newest(bundle'[b])
  <2>1. clock \in Nat /\ bundle[b] \in Bundle /\ bundle'[b] \in Bundle
    BY DEF IInv, TypeOK
  <2>2. Newest(bundle[b]) \in Nat /\ Newest(bundle'[b]) \in Nat
    BY <2>1, NewestNat
  <2> QED
    BY <2>1, <2>2 DEF LabelStep, FirstTS
<1>2. \A i \in 1 .. Newest(bundle[b]) : Label(b, i) \in Nat
  BY LabelNat
<1>3. \A i \in 1 .. Newest(bundle'[b]) : Label(b, i)' \in Nat
  <2>1. bundle'[b] \in Bundle
    BY DEF IInv, TypeOK
  <2>2. \A i \in 1 .. Newest(bundle'[b]) : bundle'[b].entries[i].ts \in Nat
    BY <2>1, NewestNat
  <2>3. owner'[b] # NoProc => ts'[owner'[b]] \in Nat
    BY ProcsAssumption DEF IInv, TypeOK
  <2> QED
    BY <2>2, <2>3, PendingAssumption DEF Label
<1>4. ASSUME NEW i \in 1 .. Newest(bundle'[b]), Label(b, i)' <= t
      PROVE  i \in 1 .. Newest(bundle[b]) /\ Label(b, i) <= t
  BY <1>1, <1>2, <1>3, <1>4 DEF LabelStep
<1>5. ASSUME NEW i \in 1 .. Newest(bundle[b]), Label(b, i) <= t
      PROVE  i \in 1 .. Newest(bundle'[b]) /\ Label(b, i)' <= t
  BY <1>1, <1>2, <1>5 DEF LabelStep
<1>6. \A i : i \in Visible(b, t)' <=> i \in Visible(b, t)
  BY <1>4, <1>5 DEF Visible
<1> QED
  BY <1>6

\* What a link led to at a timestamp the clock has reached never changes.
LEMMA ValueKept ==
  ASSUME IInv, IInv', LabelStep, NEW b \in Bundles, NEW t \in FirstTS .. clock
  PROVE  ValueAt(b, t)' = ValueAt(b, t)
<1>1. Visible(b, t)' = Visible(b, t)
  BY VisibleKept
<1>2. CASE Visible(b, t) = {}
  BY <1>1, <1>2 DEF ValueAt
<1>3. CASE Visible(b, t) # {}
  <2>1. Newest(bundle[b]) \in Nat /\ Newest(bundle'[b]) \in Nat
    BY NewestNat DEF IInv, TypeOK
  <2>2. Newest(bundle[b]) <= Newest(bundle'[b])
    BY DEF LabelStep
  <2>3. Visible(b, t) \in SUBSET (0 .. Newest(bundle[b]))
    BY <2>1 DEF Visible
  <2>4. VersionAt(b, t) \in Visible(b, t)
    BY <1>3, <2>1, <2>3, Greatest DEF VersionAt
  <2>5. VersionAt(b, t)' = VersionAt(b, t)
    BY <1>1 DEF VersionAt
  <2>6. VersionAt(b, t) \in 1 .. Newest(bundle[b])
    BY <2>4 DEF Visible
  <2>7. bundle'[b].entries[VersionAt(b, t)].ptr = bundle[b].entries[VersionAt(b, t)].ptr
    BY <2>1, <2>2, <2>6 DEF LabelStep
  <2> QED
    BY <1>1, <1>3, <2>5, <2>7 DEF ValueAt
<1> QED
  BY <1>2, <1>3

\* The past is settled: once the clock has reached a timestamp, what any link
\* led to at that timestamp is the same in all states to come.
THEOREM HistoryKept == Spec => PastIsSettled
<1>1. ASSUME IInv, IInv', [Next]_vars
      PROVE  [\A b \in Bundles : \A t \in FirstTS .. clock :
                 ValueAt(b, t)' = ValueAt(b, t)]_vars
  BY <1>1, NextInv, ValueKept
<1> QED
  BY <1>1, Invariance, PTL DEF Spec, PastIsSettled
-----------------------------------------------------------------------------
(***************************************************************************)
(* The background cleaner and the announced range queries do not get in    *)
(* each other's way, for any number of processes and bundles.              *)
(***************************************************************************)
ReadingPCs == {"query"} \cup LookupPCs

(***************************************************************************)
(* The inductive invariant.  A query raises rq_flag before it reads the    *)
(* clock, and lowers it when its timestamp is in the table; the cleaner    *)
(* reads the clock first and each flag before the announced timestamp.     *)
(***************************************************************************)
QueryInv ==
  \A p \in Procs :
     /\ pc[p] \in AnnouncePCs => flag[p]
     /\ qts[p] # NullTS <=> pc[p] \in {"announce", "clear"} \cup ReadingPCs
     /\ pc[p] \in {"clear"} \cup ReadingPCs => lin[p] = qts[p]

\* The cleaner's timestamp is none that p's query is older than.
Bounded(p) == qts[p] # NullTS => oldest <= qts[p]

ScanInv ==
  /\ cpc # "idle" => oldest <= clock
  /\ cpc \in {"scan", "lin"} => \A p \in Procs : p < scan => Bounded(p)
  /\ cpc = "lin" => Bounded(scan) \/ lin[scan] = qts[scan]
  /\ cpc \in {"clean", "cut"} => \A p \in Procs : Bounded(p)

\* Where entries have been cut off, the oldest one left has a label that the
\* clock has reached and no query is older than.
LowInv ==
  \A b \in Bundles :
     \/ bundle[b].low = 1
     \/ \E m \in 1 .. Newest(bundle[b]) :
           /\ m = bundle[b].low
           /\ Label(b, m) <= clock
           /\ \A p \in Procs : qts[p] # NullTS => Label(b, m) <= qts[p]

AnnounceInv == QueryInv /\ ScanInv /\ LowInv

CInv == IInv /\ AnnounceInv

-----------------------------------------------------------------------------
LEMMA InitCleaner == Init => AnnounceInv
<1> SUFFICES ASSUME Init PROVE AnnounceInv
  OBVIOUS
<1>1. QueryInv
  BY DEF Init, QueryInv, AnnouncePCs, ReadingPCs, LookupPCs
<1>2. ScanInv
  BY DEF Init, ScanInv
<1>3. LowInv
  BY InitAssumption DEF Init, LowInv
<1> QED
  BY <1>1, <1>2, <1>3 DEF AnnounceInv

\* A process that is not in a query has announced nothing.
LEMMA QueryStep ==
  ASSUME IInv, QueryInv, [Next]_vars
  PROVE  QueryInv'
<1> USE DEF UpdatePCs, AnnouncePCs, ReadingPCs, LookupPCs, GetPCs, announceVars
<1>1. /\ pc \in [Procs -> PCs] /\ flag \in [Procs -> BOOLEAN]
      /\ lin \in [Procs -> Nat] /\ qts \in [Procs -> Nat]
      /\ clock \in Nat /\ clock # NullTS
  BY DEF IInv, TypeOK, UInv, ClockInv, FirstTS, NullTS
<1>2. ASSUME NEW p \in Updaters, Update(p) PROVE QueryInv'
  <2>1. /\ UNCHANGED <<flag, lin, qts>>
        /\ \A q \in Procs : \/ pc'[q] = pc[q]
                            \/ /\ pc[q] \in {"idle"} \cup UpdatePCs
                               /\ pc'[q] \in {"idle"} \cup UpdatePCs
    BY <1>1, <1>2, ProcsAssumption
    DEF Update, UpdateStep, BeginUpdate, LoadTS, ReloadTS, FetchAdd, Prepare, Finalize,
        EndUpdate, NextBundle
  <2> QED
    BY <2>1 DEF QueryInv
<1>3. ASSUME NEW p \in Procs, Query(p) PROVE QueryInv'
  <2>1. CASE StartTraversal(p)
    BY <1>1, <2>1 DEF QueryInv, StartTraversal
  <2>2. CASE ReadClock(p)
    BY <1>1, <2>2 DEF QueryInv, ReadClock
  <2>3. CASE Announce(p)
    BY <1>1, <2>3 DEF QueryInv, Announce
  <2>4. CASE ClearFlag(p)
    BY <1>1, <2>4 DEF QueryInv, ClearFlag
  <2>5. CASE EndTraversal(p)
    BY <1>1, <2>5 DEF QueryInv, EndTraversal
  <2>6. CASE (\E b \in Bundles : BeginLookup(p, b)) \/ LookupStep(p)
    <3>1. /\ UNCHANGED <<flag, lin, qts>>
          /\ pc[p] \in ReadingPCs
          /\ \E l \in ReadingPCs : pc' = [pc EXCEPT ![p] = l]
      BY <2>6
      DEF BeginLookup, LookupStep, CheckFirst, LoadSecond, CheckSecond, AwaitLabel, Walk,
          Return, Continue
    <3> QED
      BY <1>1, <3>1 DEF QueryInv
  <2> QED
    BY <1>3, <2>1, <2>2, <2>3, <2>4, <2>5, <2>6 DEF Query, AnnounceStep
<1>4. ASSUME NEW p \in Procs, RunContains(p) PROVE QueryInv'
  <2>1. /\ UNCHANGED <<flag, lin, qts>>
        /\ pc[p] \in {"idle"} \cup GetPCs
        /\ \E l \in {"idle"} \cup GetPCs : pc' = [pc EXCEPT ![p] = l]
    BY <1>4 DEF RunContains, BeginGet, Get, EndGet, Return
  <2> QED
    BY <1>1, <2>1 DEF QueryInv
<1>5. CASE Clean \/ UNCHANGED vars
  <2>1. UNCHANGED <<pc, flag, lin, qts>>
    BY <1>5
    DEF Clean, CleanStart, CleanAwaitFlag, CleanReadLin, CleanLoadHead, CleanCut, CleanEnd,
        workVars, vars
  <2> QED
    BY <2>1 DEF QueryInv
<1> QED
  BY <1>2, <1>3, <1>4, <1>5, ProcsAssumption DEF Next

\* A query gets its timestamp from the clock, and has announced it when it
\* differs from what the table held.
LEMMA Timestamps ==
  ASSUME IInv, [Next]_vars, ~Clean
  PROVE  /\ UNCHANGED cleanVars
         /\ \A b \in Bundles : bundle'[b].low = bundle[b].low
         /\ \A p \in Procs : \/ qts'[p] = clock
                             \/ qts'[p] = NullTS
                             \/ /\ qts'[p] = qts[p]
                                /\ lin'[p] = lin[p] \/ lin'[p] = qts'[p]
<1> USE DEF cleanVars
<1>1. lin \in [Procs -> Nat] /\ qts \in [Procs -> Nat] /\ bundle \in [Bundles -> Bundle]
  BY DEF IInv, TypeOK
<1>2. ASSUME NEW p \in Updaters, Update(p)
      PROVE  /\ UNCHANGED <<lin, qts, cleanVars>>
             /\ \A b \in Bundles : bundle'[b].low = bundle[b].low
  <2>1. UNCHANGED <<lin, qts, cleanVars>>
    BY <1>2
    DEF Update, UpdateStep, BeginUpdate, LoadTS, ReloadTS, FetchAdd, Prepare, Finalize,
        EndUpdate, announceVars
  <2> QED
    BY <1>2, <2>1, UpdateKeeps
<1>3. ASSUME NEW p \in Procs, Query(p) \/ RunContains(p)
      PROVE  /\ UNCHANGED <<bundle, cleanVars>>
             /\ \A q \in Procs : \/ qts'[q] = clock
                                 \/ qts'[q] = NullTS
                                 \/ /\ qts'[q] = qts[q]
                                    /\ lin'[q] = lin[q] \/ lin'[q] = qts'[q]
  <2>1. CASE StartTraversal(p) \/ ClearFlag(p)
    BY <2>1 DEF StartTraversal, ClearFlag
  <2>2. CASE ReadClock(p)
    BY <1>1, <2>2 DEF ReadClock, announceVars
  <2>3. CASE Announce(p)
    BY <1>1, <2>3 DEF Announce
  <2>4. CASE EndTraversal(p)
    BY <1>1, <2>4 DEF EndTraversal
  <2>5. CASE (\E b \in Bundles : BeginLookup(p, b)) \/ LookupStep(p)
    BY <2>5
    DEF BeginLookup, LookupStep, CheckFirst, LoadSecond, CheckSecond, AwaitLabel, Walk,
        announceVars
  <2>6. CASE RunContains(p)
    BY <2>6 DEF RunContains, BeginGet, Get, EndGet, announceVars
  <2> QED
    BY <1>3, <2>1, <2>2, <2>3, <2>4, <2>5, <2>6 DEF Query, AnnounceStep
<1>4. CASE UNCHANGED vars
  BY <1>4 DEF vars
<1> QED
  BY <1>2, <1>3, <1>4, ProcsAssumption DEF Next

\* However the announcement of a query falls between the cleaner's reads, the
\* cleaner's timestamp bounds it.
LEMMA ScanStep ==
  ASSUME IInv, QueryInv, ScanInv, [Next]_vars, LabelStep
  PROVE  ScanInv'
<1>1. /\ clock \in Nat /\ oldest \in Nat /\ scan \in Nat /\ NumProcs \in Nat
      /\ lin \in [Procs -> Nat] /\ qts \in [Procs -> Nat]
      /\ scan \in Procs /\ Procs = 1 .. NumProcs
      /\ cpc \in {"idle", "scan", "lin", "clean", "cut"}
  <2>1. NumProcs \in Nat /\ Procs = 1 .. NumProcs
    BY ProcsAssumption DEF Procs
  <2>2. scan \in Procs
    BY DEF IInv, TypeOK
  <2> QED
    BY <2>1, <2>2 DEF IInv, TypeOK
<1>2. CASE ~Clean
  <2>1. /\ UNCHANGED cleanVars
        /\ \A p \in Procs : \/ qts'[p] = clock
                            \/ qts'[p] = NullTS
                            \/ /\ qts'[p] = qts[p]
                               /\ lin'[p] = lin[p] \/ lin'[p] = qts'[p]
    BY <1>2, Timestamps
  <2>2. cpc # "idle" => \A p \in Procs : Bounded(p) => Bounded(p)'
    BY <2>1 DEF Bounded, ScanInv, cleanVars
  <2>3. cpc = "lin" /\ lin[scan] = qts[scan] => Bounded(scan)' \/ lin'[scan] = qts'[scan]
    BY <1>1, <2>1 DEF Bounded, ScanInv, cleanVars
  <2>4. clock \in Nat /\ clock' \in Nat /\ clock <= clock'
    <3>1. IInv'
      BY NextInv
    <3> QED
      BY <1>1, <3>1 DEF LabelStep, IInv, TypeOK
  <2>5. oldest' = oldest /\ cpc' = cpc /\ scan' = scan
    BY <2>1 DEF cleanVars
  <2> QED
    BY <1>1, <2>2, <2>3, <2>4, <2>5 DEF ScanInv
<1>3. CASE Clean
  <2> USE DEF workVars
  <2>1. CASE CleanStart
    BY <1>1, <2>1 DEF CleanStart, ScanInv, Bounded
  <2>2. CASE CleanAwaitFlag
    <3>1. pc[scan] \notin AnnouncePCs
      BY <1>1, <2>2 DEF CleanAwaitFlag, QueryInv
    <3>2. Bounded(scan) \/ lin[scan] = qts[scan]
      BY <1>1, <3>1 DEF QueryInv, Bounded, AnnouncePCs
    <3> QED
      BY <2>2, <3>2 DEF CleanAwaitFlag, ScanInv, Bounded
  <2>3. CASE CleanReadLin
    <3>1. oldest' \in Nat /\ oldest' <= oldest /\ oldest <= clock
      BY <1>1, <2>3 DEF CleanReadLin, ScanInv
    <3>2. ASSUME NEW p \in Procs, p < scan PROVE Bounded(p)'
      BY <1>1, <2>3, <3>1, <3>2 DEF CleanReadLin, ScanInv, Bounded
    <3>3. ASSUME NEW p \in Procs, p = scan PROVE Bounded(p)'
      BY <1>1, <2>3, <3>1, <3>3 DEF CleanReadLin, ScanInv, Bounded, NullTS
    <3>4. ASSUME NEW p \in Procs, p <= scan PROVE Bounded(p)'
      BY <1>1, <3>2, <3>3, <3>4
    <3>5. clock' = clock /\ cpc' \in {"scan", "clean"}
      BY <2>3 DEF CleanReadLin
    <3>6. CASE scan < NumProcs
      <4>1. scan' = scan + 1 /\ cpc' = "scan"
        BY <2>3, <3>6 DEF CleanReadLin
      <4>2. \A p \in Procs : p < scan' => Bounded(p)'
        BY <1>1, <3>4, <4>1
      <4> QED
        BY <1>1, <3>1, <3>5, <4>1, <4>2 DEF ScanInv
    <3>7. CASE ~(scan < NumProcs)
      <4>1. cpc' = "clean" /\ \A p \in Procs : p <= scan
        BY <1>1, <2>3, <3>7 DEF CleanReadLin
      <4> QED
        BY <1>1, <3>1, <3>4, <3>5, <4>1 DEF ScanInv
    <3> QED
      BY <3>6, <3>7
  <2>4. CASE (\E b \in Bundles : CleanLoadHead(b)) \/ CleanCut
    <3>1. /\ UNCHANGED <<clock, qts, lin, oldest>>
          /\ cpc \in {"clean", "cut"} /\ cpc' \in {"clean", "cut"}
      BY <2>4 DEF CleanLoadHead, CleanCut
    <3> QED
      BY <3>1 DEF ScanInv, Bounded
  <2>5. CASE CleanEnd
    BY <2>5 DEF CleanEnd, ScanInv
  <2> QED
    BY <1>3, <2>1, <2>2, <2>3, <2>4, <2>5 DEF Clean
<1> QED
  BY <1>2, <1>3

\* The oldest entry left of a bundle stays old enough for every query, and the
\* cleaner only moves on to one that its timestamp is not older than.
LEMMA LowStep ==
  ASSUME IInv, ScanInv, LowInv, [Next]_vars, LabelStep, IInv'
  PROVE  LowInv'
<1>1. /\ clock \in Nat /\ clock' \in Nat /\ clock <= clock'
      /\ qts \in [Procs -> Nat] /\ bundle \in [Bundles -> Bundle]
      /\ bundle' \in [Bundles -> Bundle]
  BY DEF IInv, TypeOK, LabelStep
<1>2. ASSUME NEW b \in Bundles, bundle'[b].low = bundle[b].low,
             \A p \in Procs : qts'[p] # NullTS => qts'[p] = clock \/ qts'[p] = qts[p]
      PROVE  \/ bundle'[b].low = 1
             \/ \E m \in 1 .. Newest(bundle'[b]) :
                   /\ m = bundle'[b].low
                   /\ Label(b, m)' <= clock'
                   /\ \A p \in Procs : qts'[p] # NullTS => Label(b, m)' <= qts'[p]
  <2>1. SUFFICES ASSUME bundle[b].low # 1
                 PROVE  \E m \in 1 .. Newest(bundle'[b]) :
                           /\ m = bundle'[b].low
                           /\ Label(b, m)' <= clock'
                           /\ \A p \in Procs : qts'[p] # NullTS => Label(b, m)' <= qts'[p]
    BY <1>2
  <2>2. PICK m \in 1 .. Newest(bundle[b]) :
               /\ m = bundle[b].low
               /\ Label(b, m) <= clock
               /\ \A p \in Procs : qts[p] # NullTS => Label(b, m) <= qts[p]
    BY <2>1 DEF LowInv
  <2>3. Newest(bundle[b]) \in Nat /\ Newest(bundle'[b]) \in Nat
    BY <1>1, NewestNat
  <2>4. m \in 1 .. Newest(bundle'[b]) /\ m <= Newest(bundle[b])
    BY <2>3 DEF LabelStep
  <2>5. Label(b, m) \in Nat
    BY LabelNat
  <2>6. Label(b, m)' = Label(b, m)
    BY <1>1, <2>2, <2>4, <2>5 DEF LabelStep
  <2> QED
    BY <1>1, <1>2, <2>2, <2>4, <2>5, <2>6
<1>3. CASE ~Clean
  <2>1. \A b \in Bundles : bundle'[b].low = bundle[b].low
    BY <1>3, Timestamps
  <2>2. \A p \in Procs : qts'[p] # NullTS => qts'[p] = clock \/ qts'[p] = qts[p]
    BY <1>3, Timestamps
  <2> QED
    BY <1>2, <2>1, <2>2 DEF LowInv
<1>4. CASE Clean /\ ~CleanCut
  <2>1. bundle' = bundle /\ qts' = qts
    BY <1>4
    DEF Clean, CleanStart, CleanAwaitFlag, CleanReadLin, CleanLoadHead, CleanEnd, workVars
  <2> QED
    BY <1>2, <2>1 DEF LowInv
<1>5. CASE CleanCut
  <2>1. UNCHANGED <<clock, qts, owner, ts>>
    BY <1>5 DEF CleanCut, workVars
  <2>2. /\ cbun \in Bundles /\ chead \in 1 .. Newest(bundle[cbun]) /\ oldest \in Nat
        /\ bundle' = [bundle EXCEPT ![cbun] = Reclaimed(@, chead, oldest)]
        /\ oldest <= clock /\ \A p \in Procs : qts[p] # NullTS => oldest <= qts[p]
    BY <1>5 DEF CleanCut, IInv, CleanerInv, TypeOK, ScanInv, Bounded
  <2> SUFFICES ASSUME NEW b \in Bundles, bundle'[b].low # bundle[b].low
               PROVE  \E m \in 1 .. Newest(bundle'[b]) :
                         /\ m = bundle'[b].low
                         /\ Label(b, m)' <= clock'
                         /\ \A p \in Procs : qts'[p] # NullTS => Label(b, m)' <= qts'[p]
    BY <1>2, <2>1 DEF LowInv
  <2>3. PICK m : m = bundle'[b].low
    OBVIOUS
  <2>4. b = cbun /\ bundle'[b] = Reclaimed(bundle[b], chead, oldest)
    BY <1>1, <2>2
  <2>5. /\ bundle'[b].entries = bundle[b].entries
        /\ m \in bundle[b].low .. chead
        /\ bundle[b].entries[m].ts <= oldest
    BY <1>1, <2>2, <2>3, <2>4, ReclaimedProps
  <2>6. Newest(bundle[b]) \in Nat /\ bundle[b].low \in Nat \ {0}
    BY <1>1, NewestNat
  <2>7. Newest(bundle'[b]) = Newest(bundle[b]) /\ m \in 1 .. Newest(bundle[b])
    BY <2>2, <2>4, <2>5, <2>6 DEF Newest
  <2>8. bundle[b].entries[m].ts \in Nat
    BY <1>1, <2>7, NewestNat
  <2>9. bundle[b].entries[m].ts < Pending
    BY <1>1, <2>2, <2>5, <2>8, PendingAssumption DEF IInv, UInv, ClockInv
  <2>10. Label(b, m)' = bundle[b].entries[m].ts
    BY <2>5, <2>8, <2>9, PendingAssumption DEF Label, IsPending
  <2> QED
    BY <1>1, <2>1, <2>2, <2>3, <2>5, <2>7, <2>8, <2>10
<1> QED
  BY <1>3, <1>4, <1>5

-----------------------------------------------------------------------------
\* The strengthened invariant holds in every state the provider reaches.
THEOREM CleanerInvariance == Spec => []CInv
<1>1. Init => CInv
  BY InitInv, InitCleaner DEF CInv
<1>2. CInv /\ [Next]_vars => CInv'
  BY NextInv, QueryStep, ScanStep, LowStep DEF CInv, AnnounceInv
<1> QED
  BY <1>1, <1>2, PTL DEF Spec

\* The announcement handshake is right for any number of queries: the cleaner
\* never acts on a timestamp that an announced or announcing query is older than.
THEOREM CleanerBounded == Spec => []OldestBoundsQueries
<1>1. ASSUME CInv PROVE OldestBoundsQueries
  BY <1>1, ProcsAssumption
  DEF CInv, AnnounceInv, ScanInv, Bounded, OldestBoundsQueries
<1> QED
  BY <1>1, CleanerInvariance, PTL

\* No entry that the timestamp of a query selects is unlinked, in any bundle,
\* for as long as the query lasts.
THEOREM NeededEntriesKept == Spec => []SnapshotKept
<1>1. ASSUME CInv PROVE SnapshotKept
  <2> SUFFICES ASSUME NEW p \in Queriers, NEW b \in Bundles,
                      pc[p] \in LookupPCs \cup {"query"},
                      ValueAt(b, qts[p]) # NoPtr
               PROVE  VersionAt(b, qts[p]) >= bundle[b].low
    BY DEF SnapshotKept
  <2> DEFINE seen == Visible(b, qts[p])
             n == Newest(bundle[b])
  <2>1. n \in Nat /\ bundle[b].low \in Nat \ {0}
    BY <1>1, NewestNat DEF CInv, IInv, TypeOK
  <2>2. seen # {} /\ seen \in SUBSET (0 .. n) /\ \A i \in seen : i \in 1 .. n
    BY <2>1 DEF ValueAt, Visible
  <2> HIDE DEF seen, n
  <2>3. VersionAt(b, qts[p]) \in seen /\ \A j \in seen : j <= VersionAt(b, qts[p])
    BY <2>1, <2>2, Greatest DEF VersionAt, seen
  <2>4. VersionAt(b, qts[p]) \in 1 .. n
    BY <2>2, <2>3
  <2>5. CASE bundle[b].low = 1
    BY <2>1, <2>4, <2>5
  <2>6. CASE bundle[b].low # 1
    <3>1. qts[p] # NullTS /\ p \in Procs
      BY <1>1, ProcsAssumption DEF CInv, AnnounceInv, QueryInv, ReadingPCs
    <3>2. PICK m \in 1 .. n : m = bundle[b].low /\ Label(b, m) <= qts[p]
      BY <1>1, <2>6, <3>1 DEF CInv, AnnounceInv, LowInv, n
    <3>3. bundle[b].low \in seen
      BY <3>2 DEF Visible, seen, n
    <3> QED
      BY <2>1, <2>3, <2>4, <3>3
  <2> QED
    BY <2>5, <2>6
<1> QED
  BY <1>1, CleanerInvariance, PTL

-----------------------------------------------------------------------------
(***************************************************************************)
(* The head a query has loaded.  Entries that come in front of it later    *)
(* have labels that the query's timestamp does not reach.                  *)
(***************************************************************************)
HeadPCs == {"first", "second", "secondTS", "wait"}

OnHead(p) ==
  /\ Visible(at[p], qts[p]) # {}
  /\ \A j \in Visible(at[p], qts[p]) : j <= cur[p]

HoldsHead(p) ==
  /\ qts[p] # NullTS => FirstTS <= qts[p] /\ qts[p] <= clock
  /\ pc[p] \in HeadPCs => OnHead(p)

HeadInv == \A p \in Procs : HoldsHead(p)

HInv == CInv /\ HeadInv

\* A read that has not come past the head loaded it earlier or loads it now.
Loads(p) ==
  \/ pc[p] \in HeadPCs /\ UNCHANGED <<at[p], cur[p]>>
  \/ /\ pc[p] = "query" /\ UNCHANGED <<clock, bundle, owner, ts>>
     /\ at'[p] \in Bundles /\ ValueAt(at'[p], qts[p]) # NoPtr
     /\ cur'[p] = Newest(bundle[at'[p]])

LEMMA HeadLoaded ==
  ASSUME HInv, [Next]_vars, NEW q \in Procs
  PROVE  /\ qts'[q] \in {qts[q], clock, NullTS}
         /\ pc'[q] \in HeadPCs => qts'[q] = qts[q] /\ Loads(q)
<1> USE DEF HeadPCs, UpdatePCs, AnnouncePCs, LookupPCs, GetPCs
<1>1. /\ IInv /\ pc \in [Procs -> PCs] /\ qts \in [Procs -> Nat]
      /\ at \in [Procs -> Bundles \cup {NoBundle}] /\ cur \in [Procs -> Nat]
  BY DEF HInv, CInv, IInv, TypeOK
<1>2. ASSUME NEW p \in Updaters, Update(p)
      PROVE  UNCHANGED <<qts, at, cur>> /\ (pc'[q] \in HeadPCs => pc'[q] = pc[q])
  BY <1>1, <1>2, ProcsAssumption
  DEF Update, UpdateStep, BeginUpdate, LoadTS, ReloadTS, FetchAdd, Prepare, Finalize,
      EndUpdate, NextBundle, readVars
<1>3. ASSUME NEW p \in Procs, RunContains(p)
      PROVE  /\ qts' = qts
             /\ pc'[q] \in HeadPCs => pc'[q] = pc[q] /\ UNCHANGED <<at[q], cur[q]>>
  BY <1>1, <1>3 DEF RunContains, BeginGet, Get, EndGet, Return
<1>4. ASSUME NEW p \in Procs, Query(p)
      PROVE  /\ qts'[q] \in {qts[q], clock, NullTS}
             /\ pc'[q] \in HeadPCs => qts'[q] = qts[q] /\ Loads(q)
  <2>1. CASE StartTraversal(p) \/ AnnounceStep(p) \/ EndTraversal(p)
    BY <1>1, <2>1
    DEF StartTraversal, AnnounceStep, ReadClock, Announce, ClearFlag, EndTraversal, readVars,
        Loads
  <2>2. ASSUME NEW b \in Bundles, BeginLookup(p, b)
        PROVE  qts' = qts /\ (pc'[q] \in HeadPCs => Loads(q))
    BY <1>1, <2>2 DEF BeginLookup, Loads, updateVars
  <2>3. CASE LookupStep(p)
    <3>1. qts' = qts /\ at' = at
      BY <2>3 DEF LookupStep, CheckFirst, LoadSecond, CheckSecond, AwaitLabel, Walk
    <3>2. pc'[q] \in HeadPCs => pc[q] \in HeadPCs /\ cur'[q] = cur[q]
      BY <1>1, <2>3
      DEF LookupStep, CheckFirst, LoadSecond, CheckSecond, AwaitLabel, Walk, Return, Continue
    <3> QED
      BY <3>1, <3>2 DEF Loads
  <2> QED
    BY <1>4, <2>1, <2>2, <2>3 DEF Query
<1>5. CASE Clean \/ UNCHANGED vars
  BY <1>5
  DEF Clean, CleanStart, CleanAwaitFlag, CleanReadLin, CleanLoadHead, CleanCut, CleanEnd,
      workVars, vars, Loads
<1>6. (\E p \in Updaters : Update(p)) \/ (\E p \in Procs : RunContains(p)) =>
         /\ qts'[q] = qts[q]
         /\ pc'[q] \in HeadPCs => Loads(q)
  BY <1>2, <1>3 DEF Loads
<1> QED
  BY <1>4, <1>5, <1>6, ProcsAssumption DEF Next

LEMMA HeadStep ==
  ASSUME HInv, [Next]_vars
  PROVE  HeadInv'
<1>1. /\ IInv /\ IInv' /\ LabelStep
      /\ clock \in Nat /\ clock' \in Nat /\ clock <= clock' /\ FirstTS <= clock
      /\ qts \in [Procs -> Nat] /\ at \in [Procs -> Bundles \cup {NoBundle}]
  BY NextInv DEF HInv, CInv, IInv, TypeOK, UInv, ClockInv, LabelStep
<1>2. SUFFICES ASSUME NEW q \in Procs PROVE HoldsHead(q)'
  BY DEF HeadInv
<1>3. HoldsHead(q) /\ qts'[q] \in {qts[q], clock, NullTS}
  BY HeadLoaded DEF HInv, HeadInv
<1>4. qts'[q] # NullTS => FirstTS <= qts'[q] /\ qts'[q] <= clock'
  BY <1>1, <1>3 DEF HoldsHead, FirstTS
<1>5. ASSUME pc'[q] \in HeadPCs PROVE OnHead(q)'
  <2>1. qts'[q] = qts[q] /\ Loads(q)
    BY <1>5, HeadLoaded
  <2>2. CASE pc[q] \in HeadPCs /\ UNCHANGED <<at[q], cur[q]>>
    <3>1. at[q] \in Bundles /\ qts[q] # NullTS
      BY <2>2
      DEF HInv, CInv, AnnounceInv, QueryInv, ReadingPCs, LookupPCs, HeadPCs, IInv, ReaderInv
    <3>2. PICK b \in Bundles, t \in FirstTS .. clock : b = at[q] /\ t = qts[q]
      BY <1>1, <1>3, <3>1 DEF HoldsHead, FirstTS
    <3>3. Visible(b, t)' = Visible(b, t)
      BY <1>1, VisibleKept
    <3>4. Visible(at[q], qts[q])' = Visible(b, t)'
      <4>1. at'[q] = b /\ qts'[q] = t
        BY <2>1, <2>2, <3>2
      <4> QED
        BY <4>1 DEF Visible
    <3> QED
      BY <1>3, <2>2, <3>2, <3>3, <3>4 DEF HoldsHead, OnHead
  <2>3. CASE ~(pc[q] \in HeadPCs /\ UNCHANGED <<at[q], cur[q]>>)
    <3>1. /\ UNCHANGED <<clock, bundle, owner, ts>>
          /\ at'[q] \in Bundles /\ ValueAt(at'[q], qts[q]) # NoPtr
          /\ cur'[q] = Newest(bundle[at'[q]])
      BY <2>1, <2>3 DEF Loads
    <3>2. PICK b \in Bundles : b = at'[q]
      BY <3>1
    <3>3. Newest(bundle[b]) \in Nat
      BY <1>1, NewestNat DEF IInv, TypeOK
    <3>4. Visible(b, qts[q]) # {} /\ \A j \in Visible(b, qts[q]) : j <= Newest(bundle[b])
      BY <3>1, <3>2, <3>3 DEF ValueAt, Visible
    <3>5. Visible(at[q], qts[q])' = Visible(b, qts[q])
      BY <2>1, <3>1, <3>2 DEF Visible, Label
    <3> QED
      BY <3>1, <3>2, <3>4, <3>5 DEF OnHead
  <2> QED
    BY <2>2, <2>3
<1> QED
  BY <1>4, <1>5 DEF HoldsHead

\* The entry that a query loaded as the head of a bundle is not freed before
\* the query has come past it, whatever updates and the cleaner do meanwhile.
THEOREM LoadedHeadKept == Spec => []HeadNotFreed
<1>1. Init => HInv
  <2>1. ASSUME Init PROVE HeadInv
    BY <2>1 DEF Init, HeadInv, HoldsHead, HeadPCs
  <2> QED
    BY <2>1, InitInv, InitCleaner DEF HInv, CInv
<1>2. HInv /\ [Next]_vars => HInv'
  <2> SUFFICES ASSUME HInv, [Next]_vars PROVE HInv'
    OBVIOUS
  <2>1. CInv'
    BY NextInv, QueryStep, ScanStep, LowStep DEF HInv, CInv, AnnounceInv
  <2> QED
    BY <2>1, HeadStep DEF HInv
<1>3. ASSUME HInv PROVE HeadNotFreed
  <2> SUFFICES ASSUME NEW p \in Queriers, pc[p] \in {"first", "second", "wait"}
               PROVE  cur[p] >= bundle[at[p]].low
    BY DEF HeadNotFreed
  <2>1. /\ p \in Procs /\ at[p] \in Bundles /\ qts[p] # NullTS /\ OnHead(p)
        /\ cur[p] \in Nat /\ cur[p] # 0
    BY <1>3, ProcsAssumption
    DEF HInv, CInv, AnnounceInv, QueryInv, ReadingPCs, LookupPCs, IInv, TypeOK, ReaderInv,
        HeadInv, HoldsHead, HeadPCs
  <2>2. CASE bundle[at[p]].low = 1
    BY <2>1, <2>2
  <2>3. CASE bundle[at[p]].low # 1
    <3>1. PICK m \in 1 .. Newest(bundle[at[p]]) :
                 m = bundle[at[p]].low /\ Label(at[p], m) <= qts[p]
      BY <1>3, <2>1, <2>3 DEF HInv, CInv, AnnounceInv, LowInv
    <3>2. m \in Visible(at[p], qts[p])
      BY <3>1 DEF Visible
    <3> QED
      BY <2>1, <3>1, <3>2 DEF OnHead
  <2> QED
    BY <2>2, <2>3
<1> QED
  BY <1>1, <1>2, <1>3, PTL DEF Spec

-----------------------------------------------------------------------------
(***************************************************************************)
(* Range queries read a snapshot, and the provider implements the atomic   *)
(* store: when nothing is reclaimed, updates are atomic over all their     *)
(* links and range queries are snapshots.                                  *)
(***************************************************************************)

(***************************************************************************)
(* The inductive invariant.  A read never passes an entry that its query   *)
(* may see, and it leaves the head of the bundle only when the head, or    *)
(* the entry behind it, has a label that decides where the read ends.      *)
(***************************************************************************)
NothingFreed == cpc = "idle" /\ \A b \in Bundles : bundle[b].low = 1

QueryingPCs == {"announce", "clear", "query"} \cup LookupPCs

\* The link p's read is in exists, and its value is the entry p stands on or
\* one behind it.
Ahead(p) ==
  /\ Visible(at[p], qts[p]) # {}
  /\ \A j \in Visible(at[p], qts[p]) : j <= cur[p]

ReadsWell(p) ==
  /\ qts[p] # NullTS => FirstTS <= qts[p] /\ qts[p] <= clock
  /\ pc[p] \in QueryingPCs => qts[p] # NullTS
  /\ pc[p] \in {"idle"} \cup UpdatePCs \cup AnnouncePCs => at[p] = NoBundle
  /\ pc[p] \in LookupPCs => Ahead(p)
  /\ pc[p] = "walk" => ~IsPending(bundle[at[p]], cur[p])
  /\ pc[p] = "query" /\ at[p] # NoBundle => out[p] = ValueAt(at[p], qts[p])

ReadInv == \A p \in Procs : ReadsWell(p)

RInv == IInv /\ NothingFreed /\ ReadInv

-----------------------------------------------------------------------------
(***************************************************************************)
(* Where a read of a bundle at a timestamp ends.                           *)
(***************************************************************************)

\* A finalized entry has its own label.
LEMMA FinalizedLabel ==
  ASSUME IInv, NEW b \in Bundles, NEW i \in 1 .. Newest(bundle[b])
  PROVE  /\ bundle[b].entries[i].ts \in Nat
         /\ bundle[b].entries[i].ts <= clock => ~IsPending(bundle[b], i)
         /\ ~IsPending(bundle[b], i) => Label(b, i) = bundle[b].entries[i].ts
<1>1. bundle[b].entries[i].ts \in Nat /\ clock \in Nat /\ clock < Pending
  BY NewestNat DEF IInv, TypeOK, UInv, ClockInv
<1> QED
  BY <1>1, PendingAssumption DEF IsPending, Label

\* No entry in front of one whose label is t or more is visible at t.
LEMMA NoneInFront ==
  ASSUME IInv, NEW b \in Bundles, NEW t \in Nat, NEW i \in 1 .. Newest(bundle[b]),
         Label(b, i) >= t, NEW j \in Visible(b, t)
  PROVE  j <= i /\ (Label(b, i) > t => j < i)
<1>1. j \in 1 .. Newest(bundle[b]) /\ Label(b, j) <= t
  BY DEF Visible
<1>2. Label(b, i) \in Nat /\ Label(b, j) \in Nat /\ Newest(bundle[b]) \in Nat
  BY <1>1, LabelNat, NewestNat DEF IInv, TypeOK
<1>3. i < j => Label(b, i) < Label(b, j)
  BY <1>1, LabelOrder DEF BundleOrder
<1> QED
  BY <1>1, <1>2, <1>3

\* A read that has come to an entry old enough is at the value of the link.
LEMMA Answer ==
  ASSUME IInv, NEW b \in Bundles, NEW t \in Nat, t <= clock,
         NEW i \in 1 .. Newest(bundle[b]), bundle[b].entries[i].ts <= t,
         \A j \in Visible(b, t) : j <= i
  PROVE  ValueAt(b, t) = bundle[b].entries[i].ptr
<1>1. Newest(bundle[b]) \in Nat /\ clock \in Nat
  BY NewestNat DEF IInv, TypeOK
<1>2. bundle[b].entries[i].ts \in Nat
  BY FinalizedLabel
<1>3. Label(b, i) <= t
  BY <1>1, <1>2, FinalizedLabel
<1>4. i \in Visible(b, t) /\ Visible(b, t) \in SUBSET (0 .. Newest(bundle[b]))
  BY <1>1, <1>3 DEF Visible
<1>5. VersionAt(b, t) \in Visible(b, t) /\ i <= VersionAt(b, t)
  BY <1>1, <1>4, Greatest DEF VersionAt
<1>6. VersionAt(b, t) = i
  BY <1>1, <1>4, <1>5
<1> QED
  BY <1>4, <1>6 DEF ValueAt

-----------------------------------------------------------------------------
(***************************************************************************)
(* The steps of a read.                                                    *)
(***************************************************************************)

\* What a step of p's read makes of it.
Proceeds(p) ==
  /\ pc'[p] \in {"query"} \cup LookupPCs
  /\ pc'[p] \in LookupPCs => \A j \in Visible(at[p], qts[p]) : j <= cur'[p]
  /\ pc'[p] = "walk" => ~IsPending(bundle[at[p]], cur'[p])
  /\ pc'[p] = "query" => out'[p] = ValueAt(at[p], qts[p])

LEMMA ReadStep ==
  ASSUME RInv, NEW p \in Procs, LookupStep(p)
  PROVE  Proceeds(p)
<1> DEFINE b == at[p]
           t == qts[p]
           c == cur[p]
           e == bundle[b].entries
           n == Newest(bundle[b])
<1>1. pc[p] \in LookupPCs
  BY DEF LookupStep, CheckFirst, LoadSecond, CheckSecond, AwaitLabel, Walk, LookupPCs
<1>2. b \in Bundles /\ c \in 0 .. n /\ n \in Nat /\ bundle[b].low = 1
  BY <1>1, NewestNat DEF RInv, IInv, ReaderInv, NothingFreed, TypeOK
<1>3. t \in Nat /\ t <= clock /\ clock \in Nat
  BY <1>1 DEF RInv, IInv, ReadInv, ReadsWell, QueryingPCs, TypeOK
<1>4. c \in 1 .. n /\ \A j \in Visible(b, t) : j <= c
  <2>1. Visible(b, t) # {} /\ \A j \in Visible(b, t) : j <= c
    BY <1>1 DEF RInv, ReadInv, ReadsWell, Ahead
  <2> QED
    BY <1>2, <2>1 DEF Visible
<1>5. \A i : ~Freed(b, i)
  BY <1>2 DEF Freed
<1>6. \A i \in 1 .. n : i # n => ~IsPending(bundle[b], i)
  BY <1>2 DEF RInv, IInv, UInv, PendingInv
<1>7. pc \in [Procs -> PCs] /\ cur \in [Procs -> Nat] /\ out \in [Procs -> Ptrs \cup {NoPtr}]
  BY DEF RInv, IInv, TypeOK
<1>8. ASSUME NEW i \in 1 .. n, Return(p, i, "query"), e[i].ts <= t,
             \A j \in Visible(b, t) : j <= i
      PROVE  Proceeds(p)
  <2>1. out'[p] = e[i].ptr /\ pc'[p] = "query"
    BY <1>5, <1>7, <1>8 DEF Return
  <2>2. ValueAt(b, t) = e[i].ptr
    BY <1>2, <1>3, <1>8, Answer DEF RInv
  <2> QED
    BY <2>1, <2>2 DEF Proceeds, LookupPCs
<1>9. ASSUME NEW i \in Nat, NEW l \in LookupPCs, Continue(p, i, l),
             \A j \in Visible(b, t) : j <= i,
             l = "walk" => ~IsPending(bundle[b], i)
      PROVE  Proceeds(p)
  BY <1>7, <1>9 DEF Continue, Proceeds, LookupPCs
<1> USE DEF LookupPCs
<1>10. CASE CheckFirst(p)
  BY <1>2, <1>4, <1>5, <1>8, <1>9, <1>10 DEF CheckFirst
<1>11. CASE LoadSecond(p)
  BY <1>2, <1>4, <1>9, <1>11 DEF LoadSecond
<1>12. CASE CheckSecond(p)
  <2>1. c - 1 \in 1 .. n /\ c - 1 # n
    <3>1. c # 0 /\ c # 1
      BY <1>12 DEF CheckSecond, RInv, IInv, ReaderInv
    <3> QED
      BY <1>2, <3>1
  <2>2. e[c - 1].ts \in Nat /\ ~IsPending(bundle[b], c - 1) /\ Label(b, c - 1) = e[c - 1].ts
    BY <1>2, <1>6, <2>1, FinalizedLabel DEF RInv
  <2>3. ASSUME e[c - 1].ts >= t PROVE \A j \in Visible(b, t) : j <= c - 1
    BY <1>2, <1>3, <2>1, <2>2, <2>3, NoneInFront DEF RInv
  <2>4. CASE e[c - 1].ts = t /\ Return(p, c - 1, "query")
    BY <1>3, <1>8, <2>1, <2>2, <2>3, <2>4
  <2>5. CASE e[c - 1].ts > t /\ Continue(p, c - 1, "walk")
    BY <1>3, <1>9, <2>1, <2>2, <2>3, <2>5
  <2>6. CASE e[c - 1].ts < t /\ Continue(p, c, "wait")
    BY <1>4, <1>9, <2>6
  <2> QED
    BY <1>5, <1>12, <2>4, <2>5, <2>6 DEF CheckSecond
<1>13. CASE AwaitLabel(p)
  BY <1>2, <1>4, <1>5, <1>9, <1>13 DEF AwaitLabel
<1>14. CASE Walk(p)
  <2>1. ~IsPending(bundle[b], c) /\ c # 0
    BY <1>4, <1>14 DEF Walk, RInv, ReadInv, ReadsWell
  <2>2. e[c].ts \in Nat /\ Label(b, c) = e[c].ts
    BY <1>2, <1>4, <2>1, FinalizedLabel DEF RInv
  <2>3. CASE e[c].ts <= t /\ Return(p, c, "query")
    BY <1>4, <1>8, <2>3
  <2>4. CASE e[c].ts > t /\ Continue(p, NextOf(bundle[b], c), "walk")
    <3>1. \A j \in Visible(b, t) : j < c
      BY <1>2, <1>3, <1>4, <2>2, <2>4, NoneInFront DEF RInv
    <3>2. PICK j : j \in Visible(b, t)
      BY <1>1 DEF RInv, ReadInv, ReadsWell, Ahead
    <3>3. j \in 1 .. n
      BY <3>2 DEF Visible
    <3>4. NextOf(bundle[b], c) = c - 1 /\ c - 1 \in 1 .. n /\ c - 1 # n
      BY <1>2, <1>4, <3>1, <3>2, <3>3 DEF NextOf
    <3>5. \A k \in Visible(b, t) : k <= c - 1
      BY <1>2, <1>4, <3>1 DEF Visible
    <3> QED
      BY <1>6, <1>9, <2>4, <3>4, <3>5
  <2> QED
    BY <1>5, <1>14, <2>1, <2>3, <2>4 DEF Walk
<1> QED
  BY <1>10, <1>11, <1>12, <1>13, <1>14 DEF LookupStep

-----------------------------------------------------------------------------
(***************************************************************************)
(* What the steps of others leave alone.                                   *)
(***************************************************************************)

\* Nothing is freed without the cleaner.
LEMMA FreedNothing ==
  ASSUME RInv, ~Cleanup, [Next]_vars
  PROVE  NothingFreed'
<1>1. ASSUME NEW p \in Updaters, Update(p)
      PROVE  cpc' = cpc /\ \A b \in Bundles : bundle'[b].low = bundle[b].low
  <2>1. cpc' = cpc
    BY <1>1
    DEF Update, UpdateStep, BeginUpdate, LoadTS, ReloadTS, FetchAdd, Prepare, Finalize,
        EndUpdate, cleanVars
  <2> QED
    BY <1>1, <2>1, UpdateKeeps DEF RInv
<1>2. ASSUME NEW p \in Procs, Query(p) \/ RunContains(p)
      PROVE  UNCHANGED <<cpc, bundle>>
  BY <1>2, TypeQuery DEF RInv, Reads, cleanVars
<1>3. ~Clean
  BY DEF RInv, NothingFreed, Clean, CleanStart, CleanAwaitFlag, CleanReadLin, CleanLoadHead,
         CleanCut, CleanEnd
<1>4. CASE UNCHANGED vars
  BY <1>4 DEF RInv, NothingFreed, vars
<1> QED
  BY <1>1, <1>2, <1>3, <1>4, ProcsAssumption DEF Next, RInv, NothingFreed

\* The reads that a step does not take further stay where they are, and what
\* they look for stays what it was.
LEMMA Undisturbed ==
  ASSUME RInv, IInv', LabelStep, NEW q \in Procs,
         at'[q] = at[q] /\ cur'[q] = cur[q] /\ out'[q] = out[q] /\ qts'[q] = qts[q],
         \/ pc'[q] = pc[q]
         \/ pc[q] \in {"idle"} \cup UpdatePCs /\ pc'[q] \in {"idle"} \cup UpdatePCs,
         \A b \in Bundles : \A i \in 1 .. Newest(bundle[b]) :
            ~IsPending(bundle[b], i) => bundle'[b].entries[i] = bundle[b].entries[i]
  PROVE  ReadsWell(q)'
<1> USE DEF QueryingPCs, UpdatePCs, AnnouncePCs, LookupPCs
<1>1. /\ clock \in Nat /\ clock' \in Nat /\ clock <= clock'
      /\ qts[q] \in Nat /\ at[q] \in Bundles \cup {NoBundle}
  BY DEF RInv, IInv, TypeOK, LabelStep
<1>2. ReadsWell(q)
  BY DEF RInv, ReadInv
<1>3. pc'[q] = pc[q] \/ (pc'[q] \notin QueryingPCs /\ at[q] = NoBundle)
  BY <1>2 DEF ReadsWell
<1>4. ASSUME at[q] # NoBundle, pc[q] \in QueryingPCs
      PROVE  /\ Visible(at[q], qts[q])' = Visible(at[q], qts[q])
             /\ ValueAt(at[q], qts[q])' = ValueAt(at[q], qts[q])
  <2>1. PICK b \in Bundles, t \in FirstTS .. clock : b = at[q] /\ t = qts[q]
    BY <1>1, <1>2, <1>4 DEF ReadsWell, FirstTS
  <2>2. /\ Visible(b, t)' = Visible(b, t)
        /\ ValueAt(b, t)' = ValueAt(b, t)
    BY VisibleKept, ValueKept DEF RInv
  <2>3. /\ Visible(at[q], qts[q])' = Visible(b, t)'
        /\ ValueAt(at[q], qts[q])' = ValueAt(b, t)'
    <3>1. b = at'[q] /\ t = qts'[q]
      BY <2>1
    <3> QED
      BY <3>1 DEF Visible, ValueAt, VersionAt
  <2> QED
    BY <2>1, <2>2, <2>3
<1>5. pc[q] \in LookupPCs =>
         at[q] \in Bundles /\ cur[q] \in 0 .. Newest(bundle[at[q]])
  BY DEF RInv, IInv, ReaderInv
<1>6. at[q] # NoBundle => at[q] \in Bundles
  BY <1>1
<1>7. pc[q] \in LookupPCs => Ahead(q)'
  BY <1>2, <1>4, <1>5, BundlesAssumption DEF ReadsWell, Ahead
<1>8. pc[q] = "walk" => ~IsPending(bundle'[at[q]], cur[q])
  <2> SUFFICES ASSUME pc[q] = "walk" PROVE ~IsPending(bundle'[at[q]], cur[q])
    OBVIOUS
  <2>1. /\ Visible(at[q], qts[q]) # {}
        /\ \A j \in Visible(at[q], qts[q]) : j <= cur[q] /\ j \in 1 .. Newest(bundle[at[q]])
    BY <1>2 DEF ReadsWell, Ahead, Visible
  <2>2. Newest(bundle[at[q]]) \in Nat
    BY <1>5, NewestNat DEF RInv, IInv, TypeOK
  <2>3. cur[q] \in 1 .. Newest(bundle[at[q]])
    BY <1>5, <2>1, <2>2
  <2> QED
    BY <1>2, <1>5, <2>3 DEF ReadsWell, IsPending
<1>9. pc[q] = "query" /\ at[q] # NoBundle => out[q] = ValueAt(at[q], qts[q])'
  BY <1>2, <1>4 DEF ReadsWell
<1> QED
  BY <1>1, <1>2, <1>3, <1>7, <1>8, <1>9 DEF ReadsWell

\* A query, or a lookup of contains, takes its own read further.
LEMMA OwnRead ==
  ASSUME RInv, NEW p \in Procs, Query(p) \/ RunContains(p)
  PROVE  /\ ReadsWell(p)'
         /\ \A q \in Procs : q # p => /\ pc'[q] = pc[q] /\ at'[q] = at[q] /\ cur'[q] = cur[q]
                                      /\ out'[q] = out[q] /\ qts'[q] = qts[q]
<1> USE DEF QueryingPCs, UpdatePCs, AnnouncePCs, LookupPCs, GetPCs
<1>1. /\ pc \in [Procs -> PCs] /\ at \in [Procs -> Bundles \cup {NoBundle}]
      /\ cur \in [Procs -> Nat] /\ out \in [Procs -> Ptrs \cup {NoPtr}]
      /\ qts \in [Procs -> Nat] /\ clock \in Nat
  BY DEF RInv, IInv, TypeOK
<1>2. UNCHANGED <<clock, bundle, owner, ts>>
  BY TypeQuery DEF RInv, Reads, updateVars
<1>3. ReadsWell(p)
  BY DEF RInv, ReadInv
<1>4. ASSUME NEW q \in Procs, q # p
      PROVE  /\ pc'[q] = pc[q] /\ at'[q] = at[q] /\ cur'[q] = cur[q]
             /\ out'[q] = out[q] /\ qts'[q] = qts[q]
  <2>1. pc'[q] = pc[q]
    BY <1>1, <1>4, TypeQuery DEF RInv, Reads
  <2>2. at'[q] = at[q] /\ cur'[q] = cur[q] /\ out'[q] = out[q] /\ qts'[q] = qts[q]
    BY <1>1, <1>4
    DEF Query, RunContains, StartTraversal, AnnounceStep, ReadClock, Announce, ClearFlag,
        BeginLookup, LookupStep, CheckFirst, LoadSecond, CheckSecond, AwaitLabel, Walk,
        Return, Continue, EndTraversal, BeginGet, Get, EndGet, readVars
  <2> QED
    BY <2>1, <2>2
<1>5. ReadsWell(p)'
  <2>1. CASE StartTraversal(p)
    BY <1>1, <1>3, <2>1 DEF StartTraversal, ReadsWell, readVars
  <2>2. CASE ReadClock(p)
    BY <1>1, <1>3, <2>2
       DEF ReadClock, ReadsWell, readVars, RInv, IInv, UInv, ClockInv, FirstTS, NullTS
  <2>3. CASE Announce(p)
    BY <1>1, <1>3, <2>3 DEF Announce, ReadsWell, readVars
  <2>4. CASE ClearFlag(p)
    BY <1>1, <1>3, <2>4 DEF ClearFlag, ReadsWell, readVars
  <2>5. CASE EndTraversal(p)
    BY <1>1, <1>3, <2>5 DEF EndTraversal, ReadsWell
  <2>6. ASSUME NEW b \in Bundles, BeginLookup(p, b) PROVE ReadsWell(p)'
    <3>1. /\ pc'[p] = "first" /\ at'[p] = b /\ cur'[p] = Newest(bundle[b])
          /\ qts'[p] = qts[p] /\ qts[p] # NullTS /\ ValueAt(b, qts[p]) # NoPtr
      BY <1>1, <1>3, <2>6 DEF BeginLookup, ReadsWell
    <3>2. Newest(bundle[b]) \in Nat
      BY NewestNat DEF RInv, IInv, TypeOK
    <3>3. /\ Visible(b, qts[p]) # {}
          /\ \A j \in Visible(b, qts[p]) : j <= Newest(bundle[b])
      BY <3>1, <3>2 DEF ValueAt, Visible
    <3>4. Visible(at[p], qts[p])' = Visible(b, qts[p])
      BY <1>2, <3>1 DEF Visible, Label
    <3>5. Ahead(p)'
      BY <3>1, <3>3, <3>4 DEF Ahead
    <3> QED
      BY <1>2, <1>3, <3>1, <3>5 DEF ReadsWell
  <2>7. CASE LookupStep(p)
    <3>1. pc[p] \in LookupPCs /\ at' = at /\ qts' = qts
      BY <2>7 DEF LookupStep, CheckFirst, LoadSecond, CheckSecond, AwaitLabel, Walk
    <3>2. Proceeds(p)
      BY <2>7, ReadStep
    <3>3. /\ Visible(at[p], qts[p])' = Visible(at[p], qts[p])
          /\ ValueAt(at[p], qts[p])' = ValueAt(at[p], qts[p])
      BY <1>2, <3>1 DEF ValueAt, VersionAt, Visible, Label
    <3>4. pc'[p] \in LookupPCs => Ahead(p)'
      BY <1>3, <3>1, <3>2, <3>3 DEF ReadsWell, Ahead, Proceeds
    <3> QED
      BY <1>2, <1>3, <3>1, <3>2, <3>3, <3>4 DEF ReadsWell, Proceeds
  <2>8. CASE RunContains(p)
    <3>1. qts' = qts
      BY <2>8 DEF RunContains, BeginGet, Get, EndGet
    <3>2. pc'[p] \in GetPCs \/ (pc'[p] = "idle" /\ at'[p] = NoBundle)
      BY <1>1, <2>8 DEF RunContains, BeginGet, Get, EndGet, Return
    <3> QED
      BY <1>2, <1>3, <3>1, <3>2 DEF ReadsWell
  <2> QED
    BY <2>1, <2>2, <2>3, <2>4, <2>5, <2>6, <2>7, <2>8 DEF Query, AnnounceStep
<1> QED
  BY <1>4, <1>5

LEMMA NextRead ==
  ASSUME RInv, ~Cleanup, [Next]_vars
  PROVE  RInv'
<1>1. IInv' /\ LabelStep
  BY NextInv DEF RInv
<1>2. NothingFreed'
  BY FreedNothing
<1>3. ASSUME NEW p \in Updaters, Update(p) PROVE ReadInv'
  <2>1. UNCHANGED <<readVars, qts>>
    BY <1>3
    DEF Update, UpdateStep, BeginUpdate, LoadTS, ReloadTS, FetchAdd, Prepare, Finalize,
        EndUpdate
  <2>2. \A q \in Procs : \/ pc'[q] = pc[q]
                         \/ /\ pc[q] \in {"idle"} \cup UpdatePCs
                            /\ pc'[q] \in {"idle"} \cup UpdatePCs
    <3>1. pc \in [Procs -> PCs]
      BY DEF RInv, IInv, TypeOK
    <3> QED
      BY <1>3, <3>1, ProcsAssumption
      DEF Update, UpdateStep, BeginUpdate, LoadTS, ReloadTS, FetchAdd, Prepare, Finalize,
          EndUpdate, NextBundle, UpdatePCs
  <2>3. \A b \in Bundles : \A i \in 1 .. Newest(bundle[b]) :
           ~IsPending(bundle[b], i) => bundle'[b].entries[i] = bundle[b].entries[i]
    BY <1>3, UpdateKeeps DEF RInv
  <2> QED
    BY <1>1, <2>1, <2>2, <2>3, Undisturbed DEF ReadInv, readVars
<1>4. ASSUME NEW p \in Procs, Query(p) \/ RunContains(p) PROVE ReadInv'
  <2>1. bundle' = bundle
    BY <1>4, TypeQuery DEF RInv, Reads
  <2>2. \A q \in Procs : q # p => ReadsWell(q)'
    BY <1>1, <1>4, <2>1, OwnRead, Undisturbed
  <2> QED
    BY <1>4, <2>2, OwnRead DEF ReadInv
<1>5. ASSUME UNCHANGED vars PROVE ReadInv'
  <2>1. UNCHANGED <<bundle, pc, at, cur, out, qts>>
    BY <1>5 DEF vars
  <2>2. ASSUME NEW q \in Procs PROVE ReadsWell(q)'
    BY <1>1, <2>1, Undisturbed
  <2> QED
    BY <2>2 DEF ReadInv
<1>6. ~Clean
  BY DEF RInv, NothingFreed, Clean, CleanStart, CleanAwaitFlag, CleanReadLin, CleanLoadHead,
         CleanCut, CleanEnd
<1>7. \/ \E p \in Updaters : Update(p)
      \/ \E p \in Procs : Query(p) \/ RunContains(p)
      \/ UNCHANGED vars
  BY <1>6, ProcsAssumption DEF Next
<1>8. ReadInv'
  BY <1>3, <1>4, <1>5, <1>7
<1> QED
  BY <1>1, <1>2, <1>8 DEF RInv

-----------------------------------------------------------------------------
\* Range queries read a snapshot: every link a query reads is answered as of
\* the timestamp the query took from the clock, whatever the updates that run
\* meanwhile have prepared, labelled or finalized.
THEOREM QueriesReadSnapshot ==
  ASSUME ~Cleanup
  PROVE  Spec => []ReadsSnapshot
<1>1. Init => RInv
  <2> SUFFICES ASSUME Init PROVE RInv
    OBVIOUS
  <2>1. NothingFreed
    BY InitAssumption DEF Init, NothingFreed
  <2>2. ReadInv
    BY DEF Init, ReadInv, ReadsWell, QueryingPCs, LookupPCs
  <2> QED
    BY <2>1, <2>2, InitInv DEF RInv
<1>2. RInv /\ [Next]_vars => RInv'
  BY NextRead
<1>3. RInv => ReadsSnapshot
  BY ProcsAssumption DEF RInv, ReadInv, ReadsWell, ReadsSnapshot
<1> QED
  BY <1>1, <1>2, <1>3, PTL DEF Spec

-----------------------------------------------------------------------------
(***************************************************************************)
(* What the invariant of the reads leaves out: the head of a bundle leads  *)
(* where the update that prepared it will have the link lead, until that   *)
(* update returns, and a process that runs no query holds no timestamp and *)
(* no result.                                                              *)
(***************************************************************************)
HasPrepared(p, k) ==
  \/ pc[p] = "prepare" /\ k < idx[p]
  \/ pc[p] \in {"load", "reload", "bump", "finalize", "unlock"}

PtrInv ==
  \A p \in Updaters : \A k \in 1 .. Len(upd[p]) :
     HasPrepared(p, k) => LET bd == bundle[upd[p][k].bundle]
                          IN  /\ Newest(bd) # 0
                              /\ bd.entries[Newest(bd)].ptr = upd[p][k].ptr

Quiet(p) ==
  /\ qts[p] # NullTS => pc[p] \in QueryingPCs
  /\ pc[p] \in {"idle"} \cup UpdatePCs \cup AnnouncePCs => out[p] = NoPtr

QuietInv == \A p \in Procs : Quiet(p)

SInv == RInv /\ PtrInv /\ QuietInv

-----------------------------------------------------------------------------
(***************************************************************************)
(* The invariant holds.                                                    *)
(***************************************************************************)
LEMMA QuietStep ==
  ASSUME SInv, ~Cleanup, [Next]_vars
  PROVE  QuietInv'
<1> USE DEF QueryingPCs, UpdatePCs, AnnouncePCs, LookupPCs
<1>1. /\ pc \in [Procs -> PCs] /\ out \in [Procs -> Ptrs \cup {NoPtr}]
      /\ qts \in [Procs -> Nat]
  BY DEF SInv, RInv, IInv, TypeOK
<1>2. ASSUME NEW p \in Updaters, Update(p) PROVE QuietInv'
  <2>1. UNCHANGED <<out, qts>>
    BY <1>2
    DEF Update, UpdateStep, BeginUpdate, LoadTS, ReloadTS, FetchAdd, Prepare, Finalize,
        EndUpdate, readVars
  <2>2. \A q \in Procs : \/ pc'[q] = pc[q]
                         \/ /\ pc[q] \in {"idle"} \cup UpdatePCs
                            /\ pc'[q] \in {"idle"} \cup UpdatePCs
    BY <1>1, <1>2, ProcsAssumption
    DEF Update, UpdateStep, BeginUpdate, LoadTS, ReloadTS, FetchAdd, Prepare, Finalize,
        EndUpdate, NextBundle
  <2> QED
    BY <2>1, <2>2 DEF SInv, QuietInv, Quiet
<1>3. ASSUME NEW p \in Procs, Query(p) \/ RunContains(p) PROVE QuietInv'
  <2>1. \A q \in Procs : q # p => pc'[q] = pc[q] /\ out'[q] = out[q] /\ qts'[q] = qts[q]
    BY <1>3, OwnRead DEF SInv
  <2>2. Quiet(p)
    BY DEF SInv, QuietInv
  <2>3. Quiet(p)'
    <3>1. CASE StartTraversal(p) \/ ReadClock(p) \/ Announce(p) \/ ClearFlag(p)
      BY <1>1, <2>2, <3>1
      DEF StartTraversal, ReadClock, Announce, ClearFlag, Quiet, readVars
    <3>2. CASE (\E b \in Bundles : BeginLookup(p, b)) \/ EndTraversal(p)
      BY <1>1, <2>2, <3>2 DEF BeginLookup, EndTraversal, Quiet, NullTS
    <3>3. CASE LookupStep(p)
      BY <1>1, <2>2, <3>3
      DEF LookupStep, CheckFirst, LoadSecond, CheckSecond, AwaitLabel, Walk, Return, Continue,
          Quiet
    <3>4. CASE RunContains(p)
      BY <1>1, <2>2, <3>4 DEF RunContains, BeginGet, Get, EndGet, Return, Quiet
    <3> QED
      BY <1>3, <3>1, <3>2, <3>3, <3>4 DEF Query, AnnounceStep
  <2> QED
    BY <2>1, <2>3 DEF SInv, QuietInv, Quiet
<1>4. CASE UNCHANGED vars
  BY <1>4 DEF SInv, QuietInv, Quiet, vars
<1>5. ~Clean
  BY DEF SInv, RInv, NothingFreed, Clean, CleanStart, CleanAwaitFlag, CleanReadLin,
         CleanLoadHead, CleanCut, CleanEnd
<1> QED
  BY <1>2, <1>3, <1>4, <1>5, ProcsAssumption DEF Next

\* A step that prepares and finalizes nothing.
LEMMA PtrKept ==
  ASSUME SInv, bundle' = bundle, upd' = upd,
         \A q \in Updaters : \A k \in 1 .. Len(upd[q]) : HasPrepared(q, k)' => HasPrepared(q, k)
  PROVE  PtrInv'
BY DEF SInv, PtrInv

LEMMA PtrPrepare ==
  ASSUME SInv, NEW p \in Updaters, Prepare(p)
  PROVE  PtrInv'
<1> DEFINE w == upd[p][idx[p]]
           bd == bundle[w.bundle]
<1>1. IInv /\ PtrInv /\ pc[p] = "prepare" /\ pc[p] \in UpdatePCs
  BY DEF SInv, RInv, Prepare, UpdatePCs
<1>2. /\ idx[p] \in 1 .. Len(upd[p]) /\ Len(upd[p]) \in Nat \ {0}
      /\ w.bundle \in Bundles /\ w.ptr \in Ptrs /\ bd \in Bundle
      /\ p \in Procs
  BY <1>1, UpdateState
<1>3. /\ upd' = upd
      /\ bundle' = [bundle EXCEPT ![w.bundle] = Prepared(@, w.ptr)]
      /\ bundle \in [Bundles -> Bundle]
  BY <1>1 DEF Prepare, IInv, TypeOK
<1>4. /\ Newest(bundle'[w.bundle]) # 0
      /\ bundle'[w.bundle].entries[Newest(bundle'[w.bundle])].ptr = w.ptr
      /\ \A b \in Bundles : b # w.bundle => bundle'[b] = bundle[b]
  <2>1. bundle'[w.bundle] = Prepared(bd, w.ptr)
    BY <1>2, <1>3
  <2>2. /\ Newest(Prepared(bd, w.ptr)) = Newest(bd) + 1
        /\ Prepared(bd, w.ptr).entries[Newest(bd) + 1] = [ts |-> Pending, ptr |-> w.ptr]
    BY <1>2, PreparedProps
  <2>3. /\ Newest(bundle'[w.bundle]) # 0
        /\ bundle'[w.bundle].entries[Newest(bundle'[w.bundle])].ptr = w.ptr
    <3>1. Newest(bd) \in Nat
      BY <1>2, NewestNat
    <3> QED
      BY <2>1, <2>2, <3>1
  <2>4. \A b \in Bundles : b # w.bundle => bundle'[b] = bundle[b]
    BY <1>2, <1>3
  <2> QED
    BY <2>3, <2>4
<1>5. /\ pc'[p] = IF idx[p] < Len(upd[p]) THEN "prepare" ELSE "load"
      /\ idx'[p] = IF idx[p] < Len(upd[p]) THEN idx[p] + 1 ELSE 1
      /\ \A q \in Procs : q # p => pc'[q] = pc[q] /\ idx'[q] = idx[q]
  BY <1>1, NextBundleProps DEF Prepare
<1>6. ASSUME NEW q \in Updaters, NEW k \in 1 .. Len(upd[q]), HasPrepared(q, k)'
      PROVE  /\ Newest(bundle'[upd[q][k].bundle]) # 0
             /\ bundle'[upd[q][k].bundle].entries[Newest(bundle'[upd[q][k].bundle])].ptr
                  = upd[q][k].ptr
  <2>1. CASE q = p /\ k = idx[p]
    BY <1>4, <2>1
  <2>2. CASE ~(q = p /\ k = idx[p])
    <3>1. HasPrepared(q, k)
      BY <1>1, <1>2, <1>5, <1>6, <2>2, ProcsAssumption DEF HasPrepared
    <3>2. upd[q][k].bundle # w.bundle /\ upd[q][k].bundle \in Bundles
      BY <1>1, <1>2, <2>2, Exclusive
    <3>3. /\ Newest(bundle[upd[q][k].bundle]) # 0
          /\ bundle[upd[q][k].bundle].entries[Newest(bundle[upd[q][k].bundle])].ptr
               = upd[q][k].ptr
      BY <1>1, <3>1 DEF PtrInv
    <3> QED
      BY <1>4, <3>2, <3>3
  <2> QED
    BY <2>1, <2>2
<1> HIDE DEF w, bd
<1> QED
  <2>1. ASSUME NEW q \in Updaters, NEW k \in 1 .. Len(upd'[q]), HasPrepared(q, k)'
        PROVE  /\ Newest(bundle'[upd'[q][k].bundle]) # 0
               /\ bundle'[upd'[q][k].bundle].entries[Newest(bundle'[upd'[q][k].bundle])].ptr
                    = upd'[q][k].ptr
    BY <1>3, <2>1, <1>6
  <2> QED
    BY <2>1 DEF PtrInv

LEMMA PtrFinalize ==
  ASSUME SInv, NEW p \in Updaters, Finalize(p)
  PROVE  PtrInv'
<1> DEFINE w == upd[p][idx[p]]
           bd == bundle[w.bundle]
<1>1. IInv /\ PtrInv /\ pc[p] = "finalize" /\ pc[p] \in UpdatePCs
  BY DEF SInv, RInv, Finalize, UpdatePCs
<1>2. /\ idx[p] \in 1 .. Len(upd[p]) /\ Len(upd[p]) \in Nat \ {0}
      /\ w.bundle \in Bundles /\ bd \in Bundle /\ ts[p] + 1 \in Nat
      /\ p \in Procs
  BY <1>1, UpdateState
<1>3. /\ upd' = upd
      /\ bundle' = [bundle EXCEPT ![w.bundle] = Finalized(@, ts[p] + 1)]
      /\ bundle \in [Bundles -> Bundle]
  BY <1>1 DEF Finalize, IInv, TypeOK
<1>4. Newest(bd) # 0
  <2>1. HasPrepared(p, idx[p])
    BY <1>1, <1>2 DEF HasPrepared
  <2> QED
    BY <1>1, <1>2, <2>1, ProcsAssumption DEF PtrInv
<1>5. \A b \in Bundles : /\ Newest(bundle'[b]) = Newest(bundle[b])
                         /\ bundle'[b].entries[Newest(bundle'[b])].ptr
                              = bundle[b].entries[Newest(bundle[b])].ptr
  <2>1. bundle'[w.bundle] = Finalized(bd, ts[p] + 1)
    BY <1>2, <1>3
  <2>2. \A b \in Bundles : b # w.bundle => bundle'[b] = bundle[b]
    BY <1>2, <1>3
  <2>3. LET f == Finalized(bd, ts[p] + 1)
        IN  Newest(f) = Newest(bd) /\ f.entries[Newest(bd)].ptr = bd.entries[Newest(bd)].ptr
    BY <1>2, <1>4, FinalizedProps
  <2> QED
    BY <2>1, <2>2, <2>3
<1>6. /\ pc'[p] = IF idx[p] < Len(upd[p]) THEN "finalize" ELSE "unlock"
      /\ idx'[p] = IF idx[p] < Len(upd[p]) THEN idx[p] + 1 ELSE 1
      /\ \A q \in Procs : q # p => pc'[q] = pc[q] /\ idx'[q] = idx[q]
  BY <1>1, NextBundleProps DEF Finalize
<1>7. ASSUME NEW q \in Updaters, NEW k \in 1 .. Len(upd[q]), HasPrepared(q, k)'
      PROVE  /\ Newest(bundle'[upd[q][k].bundle]) # 0
             /\ bundle'[upd[q][k].bundle].entries[Newest(bundle'[upd[q][k].bundle])].ptr
                  = upd[q][k].ptr
  <2>1. HasPrepared(q, k)
    BY <1>1, <1>2, <1>6, <1>7, ProcsAssumption DEF HasPrepared
  <2>2. upd[q][k].bundle \in Bundles
    BY <1>1, Exclusive
  <2>3. /\ Newest(bundle[upd[q][k].bundle]) # 0
        /\ bundle[upd[q][k].bundle].entries[Newest(bundle[upd[q][k].bundle])].ptr
             = upd[q][k].ptr
    BY <1>1, <2>1 DEF PtrInv
  <2> QED
    BY <1>5, <2>2, <2>3
<1> HIDE DEF w, bd
<1> QED
  <2>1. ASSUME NEW q \in Updaters, NEW k \in 1 .. Len(upd'[q]), HasPrepared(q, k)'
        PROVE  /\ Newest(bundle'[upd'[q][k].bundle]) # 0
               /\ bundle'[upd'[q][k].bundle].entries[Newest(bundle'[upd'[q][k].bundle])].ptr
                    = upd'[q][k].ptr
    BY <1>3, <2>1, <1>7
  <2> QED
    BY <2>1 DEF PtrInv

LEMMA PtrStep ==
  ASSUME SInv, ~Cleanup, [Next]_vars
  PROVE  PtrInv'
<1> USE DEF UpdatePCs
<1>1. /\ IInv /\ pc \in [Procs -> PCs] /\ upd \in [Procs -> Updates \cup {<<>>}]
      /\ idx \in [Procs -> Nat]
  BY DEF SInv, RInv, IInv, TypeOK
<1>2. \A q \in Updaters : q \in Procs
  BY ProcsAssumption
<1>3. \A q \in Procs : pc[q] \notin UpdatePCs => upd[q] = <<>>
  BY <1>1 DEF IInv, UInv, UpdateInv
<1>4. Len(<<>>) = 0
  BY EmptySeq
<1>5. ASSUME NEW p \in Updaters, Update(p) PROVE PtrInv'
  <2>1. CASE Prepare(p)
    BY <2>1, PtrPrepare
  <2>2. CASE Finalize(p)
    BY <2>2, PtrFinalize
  <2>3. CASE LoadTS(p)
    <3>1. \A q \in Updaters : \A k \in 1 .. Len(upd[q]) : HasPrepared(q, k)' => HasPrepared(q, k)
      BY <1>1, <1>2, <2>3 DEF LoadTS, HasPrepared
    <3> QED
      BY <2>3, <3>1, PtrKept DEF LoadTS
  <2>4. CASE ReloadTS(p) \/ FetchAdd(p)
    <3>1. \A q \in Updaters : \A k \in 1 .. Len(upd[q]) : HasPrepared(q, k)' => HasPrepared(q, k)
      BY <1>1, <1>2, <2>4 DEF ReloadTS, FetchAdd, HasPrepared, updateVars
    <3> QED
      BY <2>4, <3>1, PtrKept DEF ReloadTS, FetchAdd, updateVars
  <2>5. CASE (\E w \in Updates : BeginUpdate(p, w)) \/ EndUpdate(p)
    <3>1. bundle' = bundle /\ (pc'[p] = "idle" \/ (pc'[p] = "prepare" /\ idx'[p] = 1))
      <4>1. bundle' = bundle
        BY <2>5 DEF BeginUpdate, EndUpdate
      <4>2. ASSUME NEW w \in Updates, BeginUpdate(p, w)
            PROVE  pc'[p] = "prepare" /\ idx'[p] = 1
        BY <1>1, <1>2, <4>2 DEF BeginUpdate
      <4>3. ASSUME EndUpdate(p) PROVE pc'[p] = "idle"
        BY <1>1, <1>2, <4>3 DEF EndUpdate
      <4> QED
        BY <2>5, <4>1, <4>2, <4>3
    <3>2. \A q \in Updaters : q # p => pc'[q] = pc[q] /\ idx'[q] = idx[q] /\ upd'[q] = upd[q]
      BY <1>1, <1>2, <2>5 DEF BeginUpdate, EndUpdate
    <3>4. ASSUME NEW q \in Updaters, NEW k \in 1 .. Len(upd'[q]), HasPrepared(q, k)'
          PROVE  /\ q # p /\ HasPrepared(q, k) /\ upd'[q] = upd[q]
      <4>1. q # p
        BY <3>1, <3>4 DEF HasPrepared
      <4> QED
        BY <3>2, <3>4, <4>1 DEF HasPrepared
    <3> QED
      BY <3>1, <3>4 DEF SInv, PtrInv
  <2> QED
    BY <1>5, <2>1, <2>2, <2>3, <2>4, <2>5 DEF Update, UpdateStep
<1>6. ASSUME NEW p \in Procs, Query(p) \/ RunContains(p) PROVE PtrInv'
  <2>1. Reads(p)
    BY <1>1, <1>6, TypeQuery
  <2>2. UNCHANGED <<bundle, upd, idx>>
    BY <2>1 DEF Reads, updateVars
  <2>3. pc[p] \notin UpdatePCs /\ \A q \in Procs : q # p => pc'[q] = pc[q]
    BY <2>1, <1>1 DEF Reads
  <2>4. \A q \in Updaters : \A k \in 1 .. Len(upd[q]) : HasPrepared(q, k)' => HasPrepared(q, k)
    BY <1>2, <1>3, <1>4, <2>2, <2>3 DEF HasPrepared
  <2> QED
    BY <2>2, <2>4, PtrKept
<1>7. CASE UNCHANGED vars
  BY <1>7, PtrKept DEF vars, HasPrepared
<1>8. ~Clean
  BY DEF SInv, RInv, NothingFreed, Clean, CleanStart, CleanAwaitFlag, CleanReadLin,
         CleanLoadHead, CleanCut, CleanEnd
<1> QED
  BY <1>5, <1>6, <1>7, <1>8, ProcsAssumption DEF Next

LEMMA NextStore ==
  ASSUME SInv, ~Cleanup, [Next]_vars
  PROVE  SInv'
BY QuietStep, PtrStep, NextRead DEF SInv

-----------------------------------------------------------------------------
(***************************************************************************)
(* What each variable of the store stands for, and the steps that leave it *)
(* alone.                                                                  *)
(***************************************************************************)
StoreView == [b \in Bundles |-> ValueAt(b, clock)]
UpdateView == [p \in Updaters |-> upd[p]]
CommittedView == [p \in Updaters |-> Committed(p)]
SnapshotOf(p) == IF SnapshotTaken(p) THEN [b \in Bundles |-> ValueAt(b, qts[p])] ELSE <<>>
SnapshotView == [p \in Queriers |-> SnapshotOf(p)]
QueryResult(p) == [link |-> IF at[p] = NoBundle \/ ~SnapshotTaken(p) THEN <<>> ELSE at[p],
                target |-> IF SnapshotTaken(p) THEN out[p] ELSE NoPtr]
ResultView == [p \in Queriers |-> QueryResult(p)]

\* The links keep their targets as long as the clock stands still.
LEMMA StoreHeld ==
  ASSUME SInv, [Next]_vars, clock' = clock
  PROVE  StoreView' = StoreView
<1>1. IInv /\ IInv' /\ LabelStep
  BY NextInv DEF SInv, RInv
<1>2. clock \in FirstTS .. clock
  BY <1>1 DEF IInv, TypeOK, UInv, ClockInv, FirstTS
<1>3. PICK t \in FirstTS .. clock : t = clock
  BY <1>2
<1>4. \A b \in Bundles : ValueAt(b, t)' = ValueAt(b, t)
  BY <1>1, ValueKept
<1>5. \A b \in Bundles : ValueAt(b, clock)' = ValueAt(b, t)'
  <2>1. clock' = t
    BY <1>3
  <2> QED
    BY <2>1 DEF ValueAt, VersionAt, Visible
<1> QED
  BY <1>3, <1>4, <1>5 DEF StoreView

\* A query keeps its snapshot until it ends.
LEMMA SnapshotHeld ==
  ASSUME SInv, [Next]_vars, NEW q \in Procs, qts'[q] = qts[q]
  PROVE  SnapshotOf(q)' = SnapshotOf(q)
<1>1. IInv /\ IInv' /\ LabelStep
  BY NextInv DEF SInv, RInv
<1>2. CASE qts[q] = NullTS
  BY <1>2 DEF SnapshotOf, SnapshotTaken
<1>3. CASE qts[q] # NullTS
  <2>1. qts[q] \in FirstTS .. clock
    BY <1>1, <1>3 DEF SInv, RInv, ReadInv, ReadsWell, IInv, TypeOK, FirstTS
  <2>2. PICK t \in FirstTS .. clock : t = qts[q]
    BY <2>1
  <2>3. \A b \in Bundles : ValueAt(b, t)' = ValueAt(b, t)
    BY <1>1, ValueKept
  <2>4. \A b \in Bundles : ValueAt(b, qts[q])' = ValueAt(b, t)'
    <3>1. qts'[q] = t
      BY <2>2
    <3> QED
      BY <3>1 DEF ValueAt, VersionAt, Visible
  <2> QED
    BY <1>3, <2>2, <2>3, <2>4 DEF SnapshotOf, SnapshotTaken
<1> QED
  BY <1>2, <1>3

\* The steps of an update show nothing to the queries.
LEMMA QueriesHeld ==
  ASSUME SInv, [Next]_vars, UNCHANGED <<qts, at, out>>
  PROVE  UNCHANGED <<SnapshotView, ResultView>>
<1>1. \A q \in Queriers : SnapshotOf(q)' = SnapshotOf(q)
  BY SnapshotHeld, ProcsAssumption
<1> QED
  BY <1>1 DEF SnapshotView, ResultView, QueryResult, SnapshotTaken

-----------------------------------------------------------------------------
(***************************************************************************)
(* When the clock advances, the updates that loaded its value take effect. *)
(***************************************************************************)
Arriving == {q \in Updaters : ts[q] = clock}

\* An update whose label is next waits for it with all its bundles prepared.
LEMMA ArrivingAwaits ==
  ASSUME SInv, NEW q \in Arriving
  PROVE  /\ q \in Updaters /\ upd[q] \in Updates /\ ts[q] # NullTS /\ ts[q] = clock
         /\ \A k \in 1 .. Len(upd[q]) : Awaits(q, k)
<1>1. IInv /\ q \in Updaters /\ q \in Procs /\ ts[q] = clock
  BY ProcsAssumption DEF SInv, RInv, Arriving
<1>2. clock \in Nat /\ clock # NullTS
  BY <1>1 DEF IInv, TypeOK, UInv, ClockInv, FirstTS, NullTS
<1>3. pc[q] \in {"reload", "bump"}
  BY <1>1, <1>2 DEF IInv, UInv, UpdateInv
<1> QED
  BY <1>1, <1>2, <1>3 DEF IInv, UInv, UpdateInv, UpdatePCs, Awaits

\* A link that an arriving update writes leads where the update says.
LEMMA ArrivingValue ==
  ASSUME SInv, NEW q \in Arriving, NEW k \in 1 .. Len(upd[q])
  PROVE  ValueAt(upd[q][k].bundle, clock + 1) = upd[q][k].ptr
<1> DEFINE b == upd[q][k].bundle
           n == Newest(bundle[b])
           V == Visible(b, clock + 1)
<1>1. /\ IInv /\ q \in Updaters /\ q # NoProc /\ ts[q] # NullTS /\ ts[q] = clock
      /\ Awaits(q, k) /\ clock \in Nat
  <2>1. q \in Updaters /\ ts[q] # NullTS /\ ts[q] = clock /\ Awaits(q, k)
    BY ArrivingAwaits
  <2>2. q # NoProc
    BY <2>1, ProcsAssumption DEF Procs, NoProc
  <2> QED
    BY <2>1, <2>2 DEF SInv, RInv, IInv, TypeOK
<1>2. b \in Bundles /\ owner[b] = q
  BY <1>1, Exclusive
<1>3. n \in Nat /\ n # 0 /\ IsPending(bundle[b], n)
  <2>1. n \in Nat
    BY <1>1, <1>2, NewestNat DEF IInv, TypeOK
  <2> QED
    BY <1>1, <2>1 DEF IInv, UInv, AwaitInv
<1>4. Label(b, n) = clock + 1
  BY <1>1, <1>2, <1>3 DEF Label
<1> HIDE DEF b
<1>5. n \in V /\ V \in SUBSET (0 .. n)
  BY <1>1, <1>3, <1>4 DEF Visible
<1>6. VersionAt(b, clock + 1) = n
  <2>1. VersionAt(b, clock + 1) \in V /\ n <= VersionAt(b, clock + 1)
    <3> HIDE DEF V, n
    <3>1. LET m == CHOOSE i \in V : \A j \in V : j <= i IN m \in V /\ \A j \in V : j <= m
      BY <1>3, <1>5, Greatest
    <3> QED
      BY <1>5, <3>1 DEF VersionAt, V
  <2> QED
    BY <1>3, <1>5, <2>1
<1>7. bundle[b].entries[n].ptr = upd[q][k].ptr
  BY <1>1 DEF SInv, PtrInv, HasPrepared, Awaits, b
<1> QED
  BY <1>5, <1>6, <1>7 DEF ValueAt, b

\* A link that none of them writes keeps its target.
LEMMA OtherValue ==
  ASSUME SInv, clock + 1 < Pending, NEW b \in Bundles,
         \A q \in Arriving : \A k \in 1 .. Len(upd[q]) : upd[q][k].bundle # b
  PROVE  ValueAt(b, clock + 1) = ValueAt(b, clock)
<1>1. IInv /\ clock \in Nat /\ Pending \in Nat
  BY PendingAssumption DEF SInv, RInv, IInv, TypeOK
<1>2. ASSUME NEW i \in 1 .. Newest(bundle[b]), Label(b, i) <= clock + 1
      PROVE  Label(b, i) <= clock
  <2>1. CASE ~IsPending(bundle[b], i)
    BY <1>1, <2>1 DEF IInv, UInv, LabelsReached, Label
  <2>2. CASE IsPending(bundle[b], i)
    <3>1. PICK q \in Updaters : /\ owner[b] = q
                                /\ \E k \in 1 .. Len(upd[q]) : upd[q][k].bundle = b
      BY <1>1, <2>2, PendingOwner
    <3>2. Label(b, i) = ts[q] + 1
      BY <1>1, <1>2, <2>2, <3>1 DEF Label
    <3>3. ts[q] # clock /\ ts[q] \in Nat
      BY <1>1, <3>1, ProcsAssumption DEF Arriving, IInv, TypeOK
    <3> QED
      BY <1>1, <1>2, <3>2, <3>3
  <2> QED
    BY <2>1, <2>2
<1>3. \A i \in 1 .. Newest(bundle[b]) : Label(b, i) \in Nat
  BY <1>1, LabelNat
<1>4. Visible(b, clock + 1) = Visible(b, clock)
  BY <1>1, <1>2, <1>3 DEF Visible
<1>5. VersionAt(b, clock + 1) = VersionAt(b, clock)
  BY <1>4, Zenon DEF VersionAt
<1> QED
  BY <1>4, <1>5 DEF ValueAt

\* The target that an update gives a link is that of its one write to it.
LEMMA OneTarget ==
  ASSUME NEW w \in Updates, NEW k \in 1 .. Len(w)
  PROVE  /\ Store!Writes(w, w[k].bundle)
         /\ Store!TargetIn(w, w[k].bundle) = w[k].ptr
<1> DEFINE P(i) == i \in 1 .. Len(w) /\ w[i].bundle = w[k].bundle
           j == CHOOSE i \in 1 .. Len(w) : w[i].bundle = w[k].bundle
<1>1. j \in 1 .. Len(w) /\ w[j].bundle = w[k].bundle
  OBVIOUS
<1>2. j = k
  BY <1>1, UpdateProps
<1> QED
  BY <1>2 DEF Store!Writes, Store!TargetIn

LEMMA ClockAdvances ==
  ASSUME SInv, clock + 1 < Pending, NEW b \in Bundles
  PROVE  ValueAt(b, clock + 1) =
            IF \E q \in Arriving : Store!Writes(upd[q], b)
            THEN Store!TargetIn(upd[CHOOSE q \in Arriving : Store!Writes(upd[q], b)], b)
            ELSE ValueAt(b, clock)
<1>1. CASE \E q \in Arriving : Store!Writes(upd[q], b)
  <2> DEFINE q == CHOOSE q \in Arriving : Store!Writes(upd[q], b)
  <2>1. q \in Arriving /\ Store!Writes(upd[q], b)
    BY <1>1
  <2> HIDE DEF q
  <2>2. PICK k \in 1 .. Len(upd[q]) : upd[q][k].bundle = b
    BY <2>1 DEF Store!Writes
  <2>3. ValueAt(b, clock + 1) = upd[q][k].ptr
    BY <2>1, <2>2, ArrivingValue
  <2>4. Store!TargetIn(upd[q], b) = upd[q][k].ptr
    <3>1. upd[q] \in Updates
      BY <2>1, ArrivingAwaits
    <3> QED
      BY <2>2, <3>1, OneTarget
  <2> QED
    BY <1>1, <2>3, <2>4 DEF q
<1>2. CASE ~\E q \in Arriving : Store!Writes(upd[q], b)
  BY <1>2, OtherValue DEF Store!Writes
<1> QED
  BY <1>1, <1>2

-----------------------------------------------------------------------------
(***************************************************************************)
(* Every step of the provider is a step of the store, or shows nothing.    *)
(***************************************************************************)
LEMMA ViewVars ==
  ASSUME UNCHANGED <<StoreView, UpdateView, CommittedView, SnapshotView, ResultView>>
  PROVE  UNCHANGED Store!vars
BY DEF Store!vars, StoreView, UpdateView, CommittedView, SnapshotView, SnapshotOf, ResultView,
       QueryResult

LEMMA BeginMaps ==
  ASSUME SInv, [Next]_vars, NEW p \in Updaters, NEW w \in Updates, BeginUpdate(p, w)
  PROVE  Store!Begin(p, w)
<1>1. /\ IInv /\ p \in Procs /\ upd \in [Procs -> Updates \cup {<<>>}]
      /\ \A q \in Updaters : q \in Procs /\ q # NoProc
  <2>1. \A q \in Updaters : q \in Procs /\ q # NoProc
    BY ProcsAssumption DEF Procs, NoProc
  <2> QED
    BY <2>1 DEF SInv, RInv, IInv, TypeOK
<1>2. upd[p] = <<>>
  BY <1>1 DEF BeginUpdate, IInv, UInv, UpdateInv, UpdatePCs
<1>3. /\ UNCHANGED <<clock, ts, qts, at, out>>
      /\ upd' = [upd EXCEPT ![p] = w]
      /\ \A b \in BundlesOf(w) : owner[b] = NoProc
  BY DEF BeginUpdate, readVars
<1>4. \A q \in Updaters, b \in Bundles : ~(Store!Writes(upd[q], b) /\ Store!Writes(w, b))
  <2> SUFFICES ASSUME NEW q \in Updaters, NEW b \in Bundles,
                      Store!Writes(upd[q], b), Store!Writes(w, b)
               PROVE  FALSE
    OBVIOUS
  <2>1. b \in BundlesOf(upd[q]) /\ b \in BundlesOf(w)
    BY DEF Store!Writes, BundlesOf
  <2> QED
    BY <1>1, <1>3, <2>1 DEF IInv, UInv, OwnerInv
<1>5. StoreView' = StoreView /\ UNCHANGED <<SnapshotView, ResultView>>
  BY <1>3, StoreHeld, QueriesHeld
<1>6. UpdateView' = [UpdateView EXCEPT ![p] = w] /\ CommittedView' = CommittedView
  BY <1>1, <1>3 DEF UpdateView, CommittedView, Committed
<1>7. UpdateView[p] = <<>> /\ \A q \in Updaters : UpdateView[q] = upd[q]
  BY <1>2 DEF UpdateView
<1> QED
  BY <1>4, <1>5, <1>6, <1>7
  DEF Store!Begin, Store!NoUpdate, StoreView, UpdateView, CommittedView, SnapshotView,
      SnapshotOf, ResultView, QueryResult

LEMMA EndMaps ==
  ASSUME SInv, [Next]_vars, NEW p \in Updaters, EndUpdate(p)
  PROVE  Store!End(p)
<1>1. IInv /\ p \in Procs /\ \A q \in Updaters : q \in Procs
  BY ProcsAssumption DEF SInv, RInv
<1>2. /\ upd \in [Procs -> Updates \cup {<<>>}] /\ ts \in [Procs -> Nat] /\ clock \in Nat
  BY <1>1 DEF IInv, TypeOK
<1>3. Committed(p)
  BY <1>1, <1>2 DEF EndUpdate, IInv, UInv, UpdateInv, Committed
<1>4. /\ UNCHANGED <<clock, qts, at, out>>
      /\ upd' = [upd EXCEPT ![p] = <<>>] /\ ts' = [ts EXCEPT ![p] = NullTS]
  BY DEF EndUpdate, readVars
<1>5. StoreView' = StoreView /\ UNCHANGED <<SnapshotView, ResultView>>
  BY <1>4, StoreHeld, QueriesHeld
<1>6. UpdateView' = [UpdateView EXCEPT ![p] = <<>>]
  BY <1>1, <1>2, <1>4 DEF UpdateView
<1>7. CommittedView' = [CommittedView EXCEPT ![p] = FALSE]
  <2>1. Committed(p)' = FALSE /\ \A q \in Updaters : q # p => Committed(q)' = Committed(q)
    BY <1>1, <1>2, <1>4 DEF Committed
  <2> QED
    BY <2>1, Zenon DEF CommittedView
<1>8. CommittedView[p]
  BY <1>3 DEF CommittedView
<1> QED
  BY <1>5, <1>6, <1>7, <1>8
  DEF Store!End, Store!NoUpdate, StoreView, UpdateView, CommittedView, SnapshotView,
      SnapshotOf, ResultView, QueryResult

\* Steps within an update that leave the clock alone.
LEMMA UpdateStutters ==
  ASSUME SInv, [Next]_vars, NEW p \in Updaters,
         Prepare(p) \/ LoadTS(p) \/ ReloadTS(p) \/ Finalize(p)
  PROVE  UNCHANGED Store!vars
<1>1. IInv /\ p \in Procs /\ \A q \in Updaters : q \in Procs
  BY ProcsAssumption DEF SInv, RInv
<1>2. ts \in [Procs -> Nat] /\ clock \in Nat
  BY <1>1 DEF IInv, TypeOK
<1>3. UNCHANGED <<clock, upd, qts, at, out>>
  BY DEF Prepare, LoadTS, ReloadTS, Finalize, updateVars, readVars
<1>4. StoreView' = StoreView /\ UNCHANGED <<SnapshotView, ResultView>>
  BY <1>3, StoreHeld, QueriesHeld
<1>5. \A q \in Updaters : Committed(q)' = Committed(q)
  <2>1. CASE LoadTS(p)
    <3>1. ts[p] = NullTS /\ ts'[p] = clock /\ \A q \in Updaters : q # p => ts'[q] = ts[q]
      BY <1>1, <1>2, <2>1 DEF LoadTS, IInv, UInv, UpdateInv
    <3>2. Committed(p)' = FALSE /\ Committed(p) = FALSE
      BY <1>2, <1>3, <3>1 DEF Committed
    <3> QED
      BY <1>3, <3>1, <3>2 DEF Committed
  <2>2. CASE ts' = ts
    BY <1>3, <2>2 DEF Committed
  <2> QED
    BY <2>1, <2>2 DEF Prepare, ReloadTS, Finalize, updateVars
<1>6. UNCHANGED <<UpdateView, CommittedView>>
  BY <1>3, <1>5 DEF UpdateView, CommittedView
<1> QED
  BY <1>4, <1>6, ViewVars

LEMMA AdvanceMaps ==
  ASSUME SInv, [Next]_vars, NEW p \in Updaters, FetchAdd(p)
  PROVE  /\ Arriving = {} => UNCHANGED Store!vars
         /\ Arriving # {} => Store!Commit(Arriving)
<1>1. IInv /\ \A q \in Updaters : q \in Procs
  BY ProcsAssumption DEF SInv, RInv
<1>2. ts \in [Procs -> Nat] /\ clock \in Nat /\ clock # NullTS
  BY <1>1 DEF IInv, TypeOK, UInv, ClockInv, FirstTS, NullTS
<1>3. /\ UNCHANGED <<bundle, owner, upd, ts, qts, at, out>>
      /\ clock' = clock + 1 /\ clock + 1 < Pending
  BY DEF FetchAdd, updateVars, readVars
<1>4. UNCHANGED <<UpdateView, SnapshotView, ResultView>>
  BY <1>3, QueriesHeld DEF UpdateView
<1>5. \A q \in Updaters : Committed(q)' = (Committed(q) \/ q \in Arriving)
  BY <1>1, <1>2, <1>3 DEF Committed, Arriving
<1>6. \A b \in Bundles :
         ValueAt(b, clock)' = IF \E q \in Arriving : Store!Writes(upd[q], b)
                              THEN Store!TargetIn(upd[CHOOSE q \in Arriving :
                                                       Store!Writes(upd[q], b)], b)
                              ELSE ValueAt(b, clock)
  <2>1. ASSUME NEW b \in Bundles PROVE ValueAt(b, clock)' = ValueAt(b, clock + 1)
    BY <1>3 DEF ValueAt, VersionAt, Visible, Label
  <2> QED
    BY <1>3, <2>1, ClockAdvances
<1>7. \A q \in Arriving : q \in Updaters /\ UpdateView[q] = upd[q] /\ upd[q] # <<>>
                          /\ ~CommittedView[q]
  <2> TAKE q \in Arriving
  <2>1. q \in Updaters /\ upd[q] \in Updates /\ ts[q] = clock
    BY ArrivingAwaits
  <2>2. upd[q] # <<>>
    BY <2>1, UpdatesAssumption
  <2>3. ~Committed(q)
    BY <1>2, <2>1 DEF Committed
  <2> QED
    BY <2>1, <2>2, <2>3 DEF UpdateView, CommittedView
<1>8. StoreView' =
        [b \in Bundles |->
           IF \E q \in Arriving : Store!Writes(UpdateView[q], b)
           THEN Store!TargetIn(UpdateView[CHOOSE q \in Arriving :
                                            Store!Writes(UpdateView[q], b)], b)
           ELSE StoreView[b]]
  <2> SUFFICES ASSUME NEW b \in Bundles
               PROVE  ValueAt(b, clock)' =
                        IF \E q \in Arriving : Store!Writes(UpdateView[q], b)
                        THEN Store!TargetIn(UpdateView[CHOOSE q \in Arriving :
                                                         Store!Writes(UpdateView[q], b)], b)
                        ELSE ValueAt(b, clock)
    BY DEF StoreView
  <2>1. \A q \in Arriving : Store!Writes(UpdateView[q], b) = Store!Writes(upd[q], b)
    BY <1>7
  <2>2. (CHOOSE q \in Arriving : Store!Writes(UpdateView[q], b))
          = CHOOSE q \in Arriving : Store!Writes(upd[q], b)
    BY <2>1, Zenon
  <2>3. (\E q \in Arriving : Store!Writes(upd[q], b)) =>
           (CHOOSE q \in Arriving : Store!Writes(upd[q], b)) \in Arriving
    OBVIOUS
  <2> QED
    BY <1>6, <1>7, <2>1, <2>2, <2>3
<1>9. CommittedView' = [q \in Updaters |-> CommittedView[q] \/ q \in Arriving]
  BY <1>5, Zenon DEF CommittedView
<1>10. ASSUME Arriving = {} PROVE UNCHANGED Store!vars
  <2>1. \A q \in Updaters : Committed(q)' = Committed(q)
    BY <1>5, <1>10 DEF Committed
  <2>2. \A b \in Bundles : ValueAt(b, clock)' = ValueAt(b, clock)
    BY <1>6, <1>10
  <2> QED
    BY <1>4, <2>1, <2>2, ViewVars DEF StoreView, CommittedView
<1>11. Store!Commit(Arriving)
  BY <1>4, <1>7, <1>8, <1>9
  DEF Store!Commit, Store!NoUpdate, StoreView, UpdateView, CommittedView, SnapshotView,
      SnapshotOf, ResultView, QueryResult
<1> QED
  BY <1>10, <1>11

\* Steps that take no part in an update, and the snapshots of other processes.
LEMMA ReadsHeld ==
  ASSUME SInv, [Next]_vars, NEW p \in Procs, Query(p) \/ RunContains(p)
  PROVE  /\ UNCHANGED <<StoreView, UpdateView, CommittedView>>
         /\ \A q \in Queriers : q # p => /\ SnapshotOf(q)' = SnapshotOf(q)
                                         /\ QueryResult(q)' = QueryResult(q)
         /\ qts'[p] = qts[p] => SnapshotOf(p)' = SnapshotOf(p)
<1>1. UNCHANGED <<clock, bundle, owner, upd, ts>>
  BY TypeQuery DEF SInv, RInv, Reads, updateVars
<1>2. UNCHANGED <<StoreView, UpdateView, CommittedView>>
  BY <1>1, StoreHeld DEF UpdateView, CommittedView, Committed
<1>3. \A q \in Procs : q # p => at'[q] = at[q] /\ out'[q] = out[q] /\ qts'[q] = qts[q]
  BY OwnRead DEF SInv
<1>4. \A q \in Procs : qts'[q] = qts[q] => SnapshotOf(q)' = SnapshotOf(q)
  BY SnapshotHeld
<1> QED
  BY <1>2, <1>3, <1>4, ProcsAssumption DEF QueryResult, SnapshotTaken

\* A step that changes neither the timestamp nor the result of a query.
LEMMA ReadStutters ==
  ASSUME SInv, [Next]_vars, NEW p \in Procs, Query(p) \/ RunContains(p),
         qts'[p] = qts[p], QueryResult(p)' = QueryResult(p)
  PROVE  UNCHANGED Store!vars
<1>1. /\ UNCHANGED <<StoreView, UpdateView, CommittedView>>
      /\ \A q \in Queriers : SnapshotOf(q)' = SnapshotOf(q) /\ QueryResult(q)' = QueryResult(q)
  BY ReadsHeld
<1>2. UNCHANGED <<SnapshotView, ResultView>>
  BY <1>1 DEF SnapshotView, ResultView
<1> QED
  BY <1>1, <1>2, ViewVars

LEMMA TakeMaps ==
  ASSUME SInv, [Next]_vars, NEW p \in Queriers, ReadClock(p)
  PROVE  Store!Take(p)
<1>1. /\ p \in Procs /\ Query(p) /\ IInv
      /\ qts \in [Procs -> Nat] /\ clock \in Nat /\ clock # NullTS
  <2>1. p \in Procs /\ Query(p)
    BY ProcsAssumption DEF Query, AnnounceStep
  <2>2. IInv
    BY DEF SInv, RInv
  <2> QED
    BY <2>1, <2>2 DEF IInv, TypeOK, UInv, ClockInv, FirstTS, NullTS
<1>2. /\ UNCHANGED <<clock, bundle, owner, ts, at, out>>
      /\ qts'[p] = clock /\ pc[p] = "clock"
  BY <1>1 DEF ReadClock, updateVars, readVars
<1>3. qts[p] = NullTS /\ at[p] = NoBundle /\ out[p] = NoPtr
  BY <1>1, <1>2 DEF SInv, RInv, ReadInv, ReadsWell, QuietInv, Quiet, QueryingPCs, UpdatePCs,
                    AnnouncePCs, LookupPCs
<1>4. /\ UNCHANGED <<StoreView, UpdateView, CommittedView>>
      /\ \A q \in Queriers : q # p => /\ SnapshotOf(q)' = SnapshotOf(q)
                                      /\ QueryResult(q)' = QueryResult(q)
  BY <1>1, ReadsHeld
<1>5. SnapshotOf(p) = <<>> /\ SnapshotOf(p)' = StoreView
  <2>1. \A b \in Bundles : ValueAt(b, qts[p])' = ValueAt(b, clock)
    BY <1>2 DEF ValueAt, VersionAt, Visible, Label
  <2> QED
    BY <1>1, <1>2, <1>3, <2>1 DEF SnapshotOf, SnapshotTaken, StoreView
<1>6. QueryResult(p)' = QueryResult(p)
  BY <1>2, <1>3 DEF QueryResult, SnapshotTaken
<1>7. SnapshotView[p] = <<>> /\ SnapshotView' = [SnapshotView EXCEPT ![p] = StoreView]
  BY <1>4, <1>5 DEF SnapshotView
<1>8. ResultView' = ResultView
  BY <1>4, <1>6 DEF ResultView
<1> QED
  BY <1>4, <1>7, <1>8
  DEF Store!Take, Store!NoSnapshot, StoreView, UpdateView, CommittedView, SnapshotView,
      SnapshotOf, ResultView, QueryResult

\* A snapshot of one or more links is not the empty one.
LEMMA SomeLink ==
  ASSUME NEW b \in Bundles, NEW p \in Procs, SnapshotTaken(p)
  PROVE  SnapshotOf(p) # <<>>
<1>1. DOMAIN SnapshotOf(p) = Bundles
  BY DEF SnapshotOf
<1>2. DOMAIN <<>> = {}
  OBVIOUS
<1> QED
  BY <1>1, <1>2

LEMMA ForgetMaps ==
  ASSUME SInv, [Next]_vars, NEW p \in Queriers, NEW b \in Bundles, BeginLookup(p, b)
  PROVE  Store!Forget(p)
<1>1. /\ p \in Procs /\ Query(p)
      /\ at \in [Procs -> Bundles \cup {NoBundle}] /\ out \in [Procs -> Ptrs \cup {NoPtr}]
  BY ProcsAssumption DEF Query, SInv, RInv, IInv, TypeOK
<1>2. /\ qts' = qts /\ at'[p] = b /\ out'[p] = NoPtr /\ pc[p] = "query"
  BY <1>1 DEF BeginLookup
<1>3. SnapshotTaken(p)
  BY <1>1, <1>2 DEF SInv, RInv, ReadInv, ReadsWell, QueryingPCs, SnapshotTaken
<1>4. /\ UNCHANGED <<StoreView, UpdateView, CommittedView>>
      /\ \A q \in Queriers : SnapshotOf(q)' = SnapshotOf(q)
      /\ \A q \in Queriers : q # p => QueryResult(q)' = QueryResult(q)
  BY <1>1, <1>2, ReadsHeld
<1>5. QueryResult(p)' = [link |-> b, target |-> NoPtr]
  BY <1>2, <1>3, BundlesAssumption DEF QueryResult, SnapshotTaken
<1>6. SnapshotView' = SnapshotView /\ SnapshotView[p] # <<>>
  BY <1>3, <1>4, <1>1, SomeLink DEF SnapshotView
<1>7. ResultView' = [ResultView EXCEPT ![p] = [link |-> b, target |-> NoPtr]]
  BY <1>4, <1>5 DEF ResultView
<1> QED
  BY <1>4, <1>6, <1>7
  DEF Store!Forget, Store!NoSnapshot, StoreView, UpdateView, CommittedView, SnapshotView,
      SnapshotOf, ResultView, QueryResult

LEMMA AnswerMaps ==
  ASSUME SInv, [Next]_vars, NEW p \in Queriers, LookupStep(p)
  PROVE  Store!Answer(p) \/ UNCHANGED Store!vars
<1>1. /\ p \in Procs /\ Query(p)
      /\ pc \in [Procs -> PCs] /\ out \in [Procs -> Ptrs \cup {NoPtr}]
  BY ProcsAssumption DEF Query, SInv, RInv, IInv, TypeOK
<1>2. pc[p] \in LookupPCs /\ UNCHANGED <<qts, at>>
  BY DEF LookupStep, CheckFirst, LoadSecond, CheckSecond, AwaitLabel, Walk, LookupPCs
<1>3. SnapshotTaken(p) /\ at[p] \in Bundles /\ at[p] # NoBundle /\ Ahead(p)
  BY <1>1, <1>2, BundlesAssumption
  DEF SInv, RInv, ReadInv, ReadsWell, QueryingPCs, SnapshotTaken, IInv, ReaderInv
<1>4. out' = out \/ pc'[p] = "query"
  BY <1>1 DEF LookupStep, CheckFirst, LoadSecond, CheckSecond, AwaitLabel, Walk, Return,
              Continue
<1>5. CASE out' = out
  BY <1>1, <1>2, <1>5, ReadStutters DEF QueryResult, SnapshotTaken
<1>6. CASE pc'[p] = "query"
  <2>1. out'[p] = ValueAt(at[p], qts[p])
    BY <1>1, <1>6, ReadStep DEF SInv, Proceeds
  <2>2. ValueAt(at[p], qts[p]) # NoPtr
    <3>1. PICK b \in Bundles, t \in Nat : b = at[p] /\ t = qts[p]
      BY <1>1, <1>3 DEF SInv, RInv, IInv, TypeOK
    <3>2. bundle[b] \in Bundle /\ Newest(bundle[b]) \in Nat
      BY NewestNat DEF SInv, RInv, IInv, TypeOK
    <3>3. Visible(b, t) \in SUBSET (0 .. Newest(bundle[b])) /\ Visible(b, t) # {}
      BY <1>3, <3>1, <3>2 DEF Ahead, Visible
    <3>4. VersionAt(b, t) \in Visible(b, t)
      BY <3>2, <3>3, Greatest DEF VersionAt
    <3>5. VersionAt(b, t) \in 1 .. Newest(bundle[b])
      BY <3>4 DEF Visible
    <3>6. bundle[b].entries[VersionAt(b, t)].ptr \in Ptrs
      BY <3>2, <3>5, NewestNat
    <3> QED
      BY <3>1, <3>3, <3>6, BundlesAssumption DEF ValueAt
  <2>3. /\ UNCHANGED <<StoreView, UpdateView, CommittedView>>
        /\ \A q \in Queriers : SnapshotOf(q)' = SnapshotOf(q)
        /\ \A q \in Queriers : q # p => QueryResult(q)' = QueryResult(q)
    BY <1>1, <1>2, ReadsHeld
  <2>4. /\ QueryResult(p) = [link |-> at[p], target |-> out[p]]
        /\ QueryResult(p)' = [link |-> at[p], target |-> ValueAt(at[p], qts[p])]
    BY <1>2, <1>3, <2>1 DEF QueryResult, SnapshotTaken
  <2>5. SnapshotOf(p)[at[p]] = ValueAt(at[p], qts[p])
    BY <1>3 DEF SnapshotOf
  <2>6. /\ SnapshotView' = SnapshotView /\ SnapshotView[p] # <<>>
        /\ ResultView[p].link \in Bundles
        /\ SnapshotView[p][ResultView[p].link] # NoPtr
    BY <1>1, <1>3, <2>2, <2>3, <2>4, <2>5, SomeLink DEF SnapshotView, ResultView
  <2>7. ResultView' =
           [ResultView EXCEPT ![p].target = SnapshotView[p][ResultView[p].link]]
    <3>1. SnapshotView[p][ResultView[p].link] = ValueAt(at[p], qts[p])
      BY <2>4, <2>5 DEF SnapshotView, ResultView
    <3>2. [ResultView[p] EXCEPT !.target = ValueAt(at[p], qts[p])] = QueryResult(p)'
      BY <2>4 DEF ResultView
    <3>3. ResultView' = [ResultView EXCEPT ![p] = QueryResult(p)']
      BY <2>3 DEF ResultView
    <3> QED
      BY <3>1, <3>2, <3>3
  <2> QED
    BY <2>3, <2>6, <2>7
    DEF Store!Answer, Store!NoSnapshot, StoreView, UpdateView, CommittedView, SnapshotView,
        SnapshotOf, ResultView, QueryResult
<1> QED
  BY <1>4, <1>5, <1>6

LEMMA ReleaseMaps ==
  ASSUME SInv, [Next]_vars, NEW p \in Queriers, EndTraversal(p)
  PROVE  Store!Release(p)
<1>1. p \in Procs /\ Query(p) /\ qts \in [Procs -> Nat]
  BY ProcsAssumption DEF Query, SInv, RInv, IInv, TypeOK
<1>2. qts'[p] = NullTS
  BY <1>1 DEF EndTraversal
<1>3. /\ UNCHANGED <<StoreView, UpdateView, CommittedView>>
      /\ \A q \in Queriers : q # p => /\ SnapshotOf(q)' = SnapshotOf(q)
                                      /\ QueryResult(q)' = QueryResult(q)
  BY <1>1, ReadsHeld
<1>4. SnapshotOf(p)' = <<>> /\ QueryResult(p)' = [link |-> <<>>, target |-> NoPtr]
  BY <1>2 DEF SnapshotOf, QueryResult, SnapshotTaken
<1>5. /\ SnapshotView' = [SnapshotView EXCEPT ![p] = <<>>]
      /\ ResultView' = [ResultView EXCEPT ![p] = [link |-> <<>>, target |-> NoPtr]]
  BY <1>3, <1>4 DEF SnapshotView, ResultView
<1> QED
  BY <1>3, <1>5
  DEF Store!Release, Store!NoSnapshot, Store!NoResult, StoreView, UpdateView, CommittedView,
      SnapshotView, SnapshotOf, ResultView, QueryResult

\* contains, and the announcement of a query, show nothing.
LEMMA OtherReadStutters ==
  ASSUME SInv, [Next]_vars, NEW p \in Procs,
         \/ RunContains(p)
         \/ Query(p) /\ (StartTraversal(p) \/ Announce(p) \/ ClearFlag(p))
  PROVE  UNCHANGED Store!vars
<1>1. qts' = qts
  BY DEF RunContains, BeginGet, Get, EndGet, StartTraversal, Announce, ClearFlag
<1>2. CASE RunContains(p)
  <2>1. qts[p] = NullTS
    <3>1. pc[p] \in {"idle", "got", "get"}
      BY <1>2 DEF RunContains, BeginGet, Get, EndGet
    <3> QED
      BY <3>1 DEF SInv, QuietInv, Quiet, QueryingPCs, LookupPCs
  <2>2. QueryResult(p)' = QueryResult(p)
    BY <1>1, <2>1 DEF QueryResult, SnapshotTaken
  <2> QED
    BY <1>1, <1>2, <2>2, ReadStutters
<1>3. CASE Query(p) /\ (StartTraversal(p) \/ Announce(p) \/ ClearFlag(p))
  <2>1. UNCHANGED <<at, out>>
    BY <1>3 DEF StartTraversal, Announce, ClearFlag, readVars
  <2>2. QueryResult(p)' = QueryResult(p)
    BY <1>1, <2>1 DEF QueryResult, SnapshotTaken
  <2> QED
    BY <1>1, <1>3, <2>2, ReadStutters
<1> QED
  BY <1>2, <1>3

LEMMA StepMaps ==
  ASSUME SInv, ~Cleanup, [Next]_vars
  PROVE  [Store!Next]_(Store!vars)
<1>1. ASSUME NEW p \in Updaters, Update(p) PROVE [Store!Next]_(Store!vars)
  <2>1. ASSUME NEW w \in Updates, BeginUpdate(p, w) PROVE Store!Next
    BY <2>1, BeginMaps DEF Store!Next
  <2>2. ASSUME EndUpdate(p) PROVE Store!Next
    BY <2>2, EndMaps DEF Store!Next
  <2>3. ASSUME FetchAdd(p) PROVE [Store!Next]_(Store!vars)
    <3>1. CASE Arriving = {}
      BY <2>3, <3>1, AdvanceMaps
    <3>2. CASE Arriving # {}
      <4>1. Arriving \in (SUBSET Updaters) \ {{}}
        BY <3>2 DEF Arriving
      <4> QED
        BY <2>3, <4>1, AdvanceMaps DEF Store!Next
    <3> QED
      BY <3>1, <3>2
  <2> QED
    BY <1>1, <2>1, <2>2, <2>3, UpdateStutters DEF Update, UpdateStep
<1>2. ASSUME NEW p \in Queriers, Query(p) PROVE [Store!Next]_(Store!vars)
  <2>1. p \in Procs
    BY ProcsAssumption
  <2>2. CASE StartTraversal(p) \/ Announce(p) \/ ClearFlag(p)
    BY <1>2, <2>1, <2>2, OtherReadStutters
  <2>3. CASE ReadClock(p)
    BY <2>3, TakeMaps DEF Store!Next
  <2>4. CASE \E b \in Bundles : BeginLookup(p, b)
    BY <2>4, ForgetMaps DEF Store!Next
  <2>5. CASE LookupStep(p)
    BY <2>5, AnswerMaps DEF Store!Next
  <2>6. CASE EndTraversal(p)
    BY <2>6, ReleaseMaps DEF Store!Next
  <2> QED
    BY <1>2, <2>2, <2>3, <2>4, <2>5, <2>6 DEF Query, AnnounceStep
<1>3. ASSUME NEW p \in Getters, RunContains(p) PROVE UNCHANGED Store!vars
  BY <1>3, OtherReadStutters, ProcsAssumption
<1>4. ASSUME UNCHANGED vars PROVE UNCHANGED Store!vars
  <2>1. UNCHANGED <<clock, upd, ts, qts, at, out>>
    BY <1>4 DEF vars
  <2>2. UNCHANGED <<StoreView, SnapshotView, ResultView>>
    BY <2>1, StoreHeld, QueriesHeld
  <2>3. UNCHANGED <<UpdateView, CommittedView>>
    BY <2>1 DEF UpdateView, CommittedView, Committed
  <2> QED
    BY <2>2, <2>3, ViewVars
<1>5. ~Clean
  BY DEF SInv, RInv, NothingFreed, Clean, CleanStart, CleanAwaitFlag, CleanReadLin,
         CleanLoadHead, CleanCut, CleanEnd
<1> QED
  BY <1>1, <1>2, <1>3, <1>4, <1>5 DEF Next

LEMMA InitStore ==
  ASSUME Init
  PROVE  SInv /\ Store!Init
<1>1. /\ IInv /\ clock = InitClock /\ bundle = InitBundle
      /\ upd = [p \in Procs |-> <<>>] /\ ts = [p \in Procs |-> NullTS]
      /\ qts = [p \in Procs |-> NullTS] /\ at = [p \in Procs |-> NoBundle]
      /\ out = [p \in Procs |-> NoPtr] /\ pc = [p \in Procs |-> "idle"]
      /\ cpc = "idle"
  BY InitInv DEF Init
<1>2. SInv
  <2>1. NothingFreed
    BY <1>1, InitAssumption DEF NothingFreed
  <2>2. ReadInv
    BY <1>1 DEF ReadInv, ReadsWell, QueryingPCs, LookupPCs
  <2>3. QuietInv
    BY <1>1 DEF QuietInv, Quiet
  <2>4. PtrInv
    <3>1. \A p \in Updaters : pc[p] = "idle"
      BY <1>1, ProcsAssumption
    <3> QED
      BY <3>1 DEF PtrInv, HasPrepared
  <2> QED
    BY <1>1, <2>1, <2>2, <2>3, <2>4 DEF SInv, RInv
<1>3. ASSUME NEW b \in Bundles PROVE ValueAt(b, clock) = NewestPtr(InitBundle[b])
  <2> DEFINE n == Newest(bundle[b])
             V == Visible(b, clock)
  <2>1. n \in Nat /\ bundle[b] \in Bundle
    BY <1>1, NewestNat DEF IInv, TypeOK
  <2>2. \A i \in 1 .. n : bundle[b].entries[i].ts <= clock
    BY <1>1, InitAssumption, ClockAssumption DEF Newest, FirstTS
  <2>3. \A i \in 1 .. n : Label(b, i) <= clock
    BY <1>1, <2>2, FinalizedLabel
  <2>4. V = 1 .. n
    BY <2>3 DEF Visible
  <2>5. CASE n = 0
    BY <1>1, <2>4, <2>5 DEF ValueAt, NewestPtr
  <2>6. CASE n # 0
    <3>1. n \in V /\ V \in SUBSET (0 .. n)
      BY <2>1, <2>4, <2>6
    <3>2. VersionAt(b, clock) \in V /\ n <= VersionAt(b, clock)
      <4> HIDE DEF V, n
      <4>1. LET m == CHOOSE i \in V : \A j \in V : j <= i
            IN  m \in V /\ \A j \in V : j <= m
        BY <2>1, <3>1, Greatest
      <4> QED
        BY <3>1, <4>1 DEF VersionAt, V
    <3>3. VersionAt(b, clock) = n
      BY <2>1, <3>1, <3>2
    <3> QED
      BY <1>1, <2>6, <3>1, <3>3 DEF ValueAt, NewestPtr
  <2> QED
    BY <2>5, <2>6
<1>4. /\ \A p \in Updaters : upd[p] = <<>> /\ ~Committed(p)
      /\ \A p \in Queriers : /\ SnapshotOf(p) = <<>>
                            /\ QueryResult(p) = [link |-> <<>>, target |-> NoPtr]
  BY <1>1, ProcsAssumption DEF Committed, SnapshotOf, QueryResult, SnapshotTaken
<1>5. /\ StoreView = [b \in Bundles |-> NewestPtr(InitBundle[b])]
      /\ UpdateView = [p \in Updaters |-> <<>>]
      /\ CommittedView = [p \in Updaters |-> FALSE]
      /\ SnapshotView = [p \in Queriers |-> <<>>]
      /\ ResultView = [p \in Queriers |-> [link |-> <<>>, target |-> NoPtr]]
  <2>1. \A p \in Updaters : Committed(p) = FALSE
    BY <1>4 DEF Committed
  <2> QED
    BY <1>3, <1>4, <2>1
    DEF StoreView, UpdateView, CommittedView, SnapshotView, ResultView
<1> QED
  BY <1>2, <1>5
  DEF Store!Init, Store!NoUpdate, Store!NoSnapshot, Store!NoResult, StoreView, UpdateView,
      CommittedView, SnapshotView, SnapshotOf, ResultView, QueryResult

-----------------------------------------------------------------------------
\* The provider implements the atomic store: whatever updates and queries run
\* together, each update takes effect on all its links at once, when the clock
\* reaches its label, and each query reads every link as of one such instant,
\* the one at which it read the clock.
THEOREM ProviderImplementsStore ==
  ASSUME ~Cleanup
  PROVE  Spec => ImplementsStore
<1>1. Init => SInv /\ Store!Init
  BY InitStore
<1>2. SInv /\ [Next]_vars => SInv'
  BY NextStore
<1>3. SInv /\ [Next]_vars => [Store!Next]_(Store!vars)
  BY StepMaps
<1> QED
  BY <1>1, <1>2, <1>3, PTL DEF Spec, ImplementsStore, Store!Spec

-----------------------------------------------------------------------------
(***************************************************************************)
(* What a link leads to at each time, and the one step that changes it:    *)
(* an update's first load of the clock.                                    *)
(***************************************************************************)
\* The last time there is: all the updates that have loaded the clock, and no
\* others, are seen at it.
LastTS == Pending - 1

LabelsKept(b) ==
  /\ Newest(bundle[b]) <= Newest(bundle'[b])
  /\ \A i \in 1 .. Newest(bundle'[b]) :
       IF i <= Newest(bundle[b])
       THEN bundle'[b].entries[i].ptr = bundle[b].entries[i].ptr /\ Label(b, i)' = Label(b, i)
       ELSE Label(b, i)' = Pending

\* A label is reached, or the next one, or unknown.
LEMMA LabelRange ==
  ASSUME IInv, NEW b \in Bundles, NEW i \in 1 .. Newest(bundle[b])
  PROVE  /\ Label(b, i) \in Nat /\ clock \in Nat /\ Pending \in Nat
         /\ Label(b, i) <= clock + 1 \/ Label(b, i) = Pending
         /\ owner[b] = NoProc => Label(b, i) <= clock
<1>1. Label(b, i) \in Nat /\ clock \in Nat /\ Pending \in Nat
  BY LabelNat, PendingAssumption DEF IInv, TypeOK
<1>2. CASE ~IsPending(bundle[b], i)
  BY <1>1, <1>2 DEF IInv, UInv, LabelsReached, Label
<1>3. CASE IsPending(bundle[b], i)
  <2>1. PICK q \in Updaters : owner[b] = q
    BY <1>3, PendingOwner
  <2>2. q \in Procs /\ q # NoProc
    BY <2>1, ProcsAssumption DEF Procs, NoProc
  <2>3. ts[q] \in Nat /\ ts[q] <= clock
    BY <2>2 DEF IInv, TypeOK, UInv, UpdateInv
  <2> QED
    BY <1>1, <1>3, <2>1, <2>2, <2>3 DEF Label
<1> QED
  BY <1>1, <1>2, <1>3

\* The same entries are visible at two times when the labels say so, and then
\* the link leads to the same node.
LEMMA SameVisible ==
  ASSUME NEW b \in Bundles, NEW s, NEW t, Visible(b, s) = Visible(b, t)
  PROVE  ValueAt(b, s) = ValueAt(b, t)
<1>1. VersionAt(b, s) = VersionAt(b, t)
  BY Zenon DEF VersionAt
<1> QED
  BY <1>1 DEF ValueAt

\* A link leads somewhere as soon as one entry is visible.
LEMMA ValueType ==
  ASSUME IInv, NEW b \in Bundles, NEW t
  PROVE  /\ ValueAt(b, t) \in Ptrs \cup {NoPtr}
         /\ ValueAt(b, t) = NoPtr <=> Visible(b, t) = {}
         /\ Visible(b, t) # {} => /\ VersionAt(b, t) \in Visible(b, t)
                                  /\ VersionAt(b, t) \in 1 .. Newest(bundle[b])
                                  /\ \A j \in Visible(b, t) : j <= VersionAt(b, t)
<1>1. bundle[b] \in Bundle
  BY DEF IInv, TypeOK
<1>2. Newest(bundle[b]) \in Nat /\ \A i \in 1 .. Newest(bundle[b]) : bundle[b].entries[i].ptr \in Ptrs
  BY <1>1, NewestNat
<1>3. CASE Visible(b, t) # {}
  <2>1. Visible(b, t) \in SUBSET (0 .. Newest(bundle[b]))
    BY <1>2 DEF Visible
  <2> DEFINE V == Visible(b, t)
  <2>2. LET m == CHOOSE i \in V : \A j \in V : j <= i IN m \in V /\ \A j \in V : j <= m
    <3> HIDE DEF V
    <3> QED
      BY <1>2, <1>3, <2>1, Greatest DEF V
  <2>3. VersionAt(b, t) \in Visible(b, t) /\ \A j \in Visible(b, t) : j <= VersionAt(b, t)
    BY <2>2 DEF VersionAt
  <2>4. VersionAt(b, t) \in 1 .. Newest(bundle[b])
    BY <2>3 DEF Visible
  <2> QED
    BY <1>2, <1>3, <2>3, <2>4, BundlesAssumption DEF ValueAt
<1>4. CASE Visible(b, t) = {}
  BY <1>4 DEF ValueAt
<1> QED
  BY <1>3, <1>4

\* A step that keeps the labels of a link's bundle keeps the link at every time.
LEMMA ViewKept ==
  ASSUME IInv, IInv', NEW b \in Bundles, LabelsKept(b), NEW t \in FirstTS .. LastTS
  PROVE  ValueAt(b, t)' = ValueAt(b, t)
<1>1. /\ Newest(bundle[b]) \in Nat /\ Newest(bundle'[b]) \in Nat
      /\ Newest(bundle[b]) <= Newest(bundle'[b])
  <2>1. bundle[b] \in Bundle /\ bundle'[b] \in Bundle
    BY DEF IInv, TypeOK
  <2> QED
    BY <2>1, NewestNat DEF LabelsKept
<1>2. t < Pending
  BY PendingAssumption DEF LastTS, FirstTS
<1>3. Visible(b, t)' = Visible(b, t)
  <2>1. \A i \in 1 .. Newest(bundle'[b]) :
           Label(b, i)' <= t <=> i <= Newest(bundle[b]) /\ Label(b, i) <= t
    BY <1>1, <1>2, PendingAssumption DEF LabelsKept, FirstTS
  <2>2. \A i : i \in Visible(b, t)' <=> i \in Visible(b, t)
    BY <1>1, <2>1 DEF Visible
  <2> QED
    BY <2>2
<1>4. CASE Visible(b, t) = {}
  BY <1>3, <1>4 DEF ValueAt
<1>5. CASE Visible(b, t) # {}
  <2>1. VersionAt(b, t)' = VersionAt(b, t)
    BY <1>3 DEF VersionAt
  <2>2. VersionAt(b, t) \in 1 .. Newest(bundle[b])
    BY <1>5, ValueType
  <2>3. bundle'[b].entries[VersionAt(b, t)].ptr = bundle[b].entries[VersionAt(b, t)].ptr
    BY <1>1, <2>2 DEF LabelsKept
  <2> QED
    BY <1>3, <1>5, <2>1, <2>3 DEF ValueAt
<1> QED
  BY <1>4, <1>5

\* The times the clock has not reached are all alike.
LEMMA FutureAlike ==
  ASSUME IInv, NEW b \in Bundles, NEW t \in (clock + 1) .. LastTS
  PROVE  ValueAt(b, t) = ValueAt(b, LastTS)
<1>1. clock \in Nat /\ Pending \in Nat
  BY PendingAssumption DEF IInv, TypeOK
<1>2. \A i \in 1 .. Newest(bundle[b]) : Label(b, i) <= t <=> Label(b, i) <= LastTS
  BY <1>1, LabelRange DEF LastTS
<1>3. Visible(b, t) = Visible(b, LastTS)
  BY <1>2 DEF Visible
<1> QED
  BY <1>3, SameVisible

\* A link that nobody updates leads now, and at the last time, where the newest
\* entry of its bundle does.
LEMMA IdleLink ==
  ASSUME IInv, NEW b \in Bundles, owner[b] = NoProc
  PROVE  /\ ValueAt(b, clock) = NewestPtr(bundle[b])
         /\ ValueAt(b, LastTS) = NewestPtr(bundle[b])
<1>1. Newest(bundle[b]) \in Nat
  BY NewestNat DEF IInv, TypeOK
<1>2. clock \in Nat /\ clock <= LastTS
  BY PendingAssumption DEF IInv, TypeOK, UInv, ClockInv, LastTS
<1>3. ASSUME NEW t \in {clock, LastTS} PROVE ValueAt(b, t) = NewestPtr(bundle[b])
  <2>1. \A i \in 1 .. Newest(bundle[b]) : Label(b, i) <= t
    BY <1>2, LabelRange, PendingAssumption DEF LastTS
  <2>2. Visible(b, t) = 1 .. Newest(bundle[b])
    BY <2>1 DEF Visible
  <2>3. CASE Newest(bundle[b]) = 0
    BY <2>2, <2>3 DEF ValueAt, NewestPtr
  <2>4. CASE Newest(bundle[b]) # 0
    <3>1. Newest(bundle[b]) \in Visible(b, t)
      BY <1>1, <2>2, <2>4
    <3>2. VersionAt(b, t) = Newest(bundle[b])
      BY <1>1, <3>1, ValueType
    <3> QED
      BY <2>4, <3>1, <3>2 DEF ValueAt, NewestPtr
  <2> QED
    BY <2>3, <2>4
<1> QED
  BY <1>3

\* The same after a step.
LEMMA ValueTypeNext ==
  ASSUME NEW b \in Bundles, NEW t
  PROVE  IInv' => /\ (ValueAt(b, t) \in Ptrs \cup {NoPtr})'
                  /\ (ValueAt(b, t) = NoPtr <=> Visible(b, t) = {})'
<1>1. IInv => /\ ValueAt(b, t) \in Ptrs \cup {NoPtr}
              /\ ValueAt(b, t) = NoPtr <=> Visible(b, t) = {}
  BY ValueType
<1> QED
  BY <1>1, PTL

\* Steps that change no bundle, no owner and no loaded clock value.
LEMMA LabelsStand ==
  ASSUME IInv, NEW b \in Bundles, UNCHANGED <<bundle, owner, ts>>
  PROVE  LabelsKept(b)
<1>1. Newest(bundle[b]) \in Nat
  BY NewestNat DEF IInv, TypeOK
<1> QED
  BY <1>1 DEF LabelsKept, Label

\* A bundle without a pending entry does not care who owns it.
LEMMA OwnerChanges ==
  ASSUME IInv, UNCHANGED bundle, NEW b \in Bundles,
         owner'[b] # owner[b] => \A i \in 1 .. Newest(bundle[b]) : ~IsPending(bundle[b], i),
         owner'[b] = owner[b] /\ owner[b] # NoProc => ts'[owner[b]] = ts[owner[b]]
  PROVE  LabelsKept(b)
<1>1. Newest(bundle[b]) \in Nat
  BY NewestNat DEF IInv, TypeOK
<1>2. \A i \in 1 .. Newest(bundle[b]) : Label(b, i)' = Label(b, i)
  BY DEF Label
<1> QED
  BY <1>1, <1>2 DEF LabelsKept

LEMMA BeginKeeps ==
  ASSUME IInv, NEW p \in Updaters, NEW w \in Updates, BeginUpdate(p, w), NEW b \in Bundles
  PROVE  LabelsKept(b)
<1>1. /\ UNCHANGED <<bundle, ts>>
      /\ owner'[b] # owner[b] => owner[b] = NoProc
  BY DEF BeginUpdate
<1>2. owner[b] = NoProc => \A i \in 1 .. Newest(bundle[b]) : ~IsPending(bundle[b], i)
  BY PendingOwner
<1> QED
  BY <1>1, <1>2, OwnerChanges

LEMMA EndKeeps ==
  ASSUME IInv, NEW p \in Updaters, EndUpdate(p), NEW b \in Bundles
  PROVE  LabelsKept(b)
<1>1. /\ pc[p] = "unlock" /\ UNCHANGED bundle
      /\ owner'[b] # owner[b] => owner[b] = p
      /\ owner[b] = p => owner'[b] = NoProc
      /\ ts' = [ts EXCEPT ![p] = NullTS] /\ ts \in [Procs -> Nat]
  BY DEF EndUpdate, IInv, TypeOK
<1>2. p # NoProc /\ p \in Procs /\ owner[b] \in Procs \cup {NoProc}
  <2>1. owner[b] \in Updaters \cup {NoProc}
    BY DEF IInv, TypeOK
  <2>2. p # NoProc /\ p \in Procs
    BY ProcsAssumption DEF Procs, NoProc
  <2> QED
    BY <2>1, <2>2, ProcsAssumption
<1>3. owner[b] = p => \A i \in 1 .. Newest(bundle[b]) : ~IsPending(bundle[b], i)
  <2> SUFFICES ASSUME owner[b] = p, NEW i \in 1 .. Newest(bundle[b]), IsPending(bundle[b], i)
               PROVE  FALSE
    OBVIOUS
  <2>1. PICK q \in Updaters : owner[b] = q /\ \E k \in 1 .. Len(upd[q]) : Awaits(q, k)
    BY PendingOwner
  <2> QED
    BY <1>1, <2>1 DEF Awaits
<1>4. owner[b] # p /\ owner[b] # NoProc => ts'[owner[b]] = ts[owner[b]]
  BY <1>1, <1>2
<1> QED
  BY <1>1, <1>2, <1>3, <1>4, OwnerChanges

LEMMA PrepareKeeps ==
  ASSUME IInv, NEW p \in Updaters, Prepare(p), NEW b \in Bundles
  PROVE  LabelsKept(b)
<1> DEFINE w == upd[p][idx[p]]
<1>1. /\ pc[p] = "prepare" /\ pc[p] \in UpdatePCs
      /\ bundle' = [bundle EXCEPT ![w.bundle] = Prepared(@, w.ptr)]
      /\ UNCHANGED <<owner, ts>> /\ bundle \in [Bundles -> Bundle]
  BY DEF Prepare, UpdatePCs, IInv, TypeOK
<1>2. /\ w.bundle \in Bundles /\ w.ptr \in Ptrs /\ owner[w.bundle] = p /\ p # NoProc
      /\ p \in Procs
  BY <1>1, UpdateState
<1>3. ts[p] = NullTS
  BY <1>1, <1>2 DEF IInv, UInv, UpdateInv
<1>4. Newest(bundle[b]) \in Nat
  BY <1>1, NewestNat
<1> HIDE DEF w
<1>5. CASE b # w.bundle
  <2>1. bundle'[b] = bundle[b]
    BY <1>1, <1>2, <1>5
  <2> QED
    BY <1>1, <1>4, <2>1 DEF LabelsKept, Label
<1>6. CASE b = w.bundle
  <2> DEFINE bd == bundle[b]
             new == Prepared(bd, w.ptr)
  <2>1. bundle'[b] = new
    BY <1>1, <1>2, <1>6
  <2>2. bd \in Bundle
    BY <1>1
  <2> HIDE DEF bd
  <2>3. /\ Newest(new) = Newest(bd) + 1
        /\ \A i \in 1 .. Newest(bd) : new.entries[i] = bd.entries[i]
        /\ new.entries[Newest(bd) + 1].ts = Pending
    <3>1. /\ Newest(new) = Newest(bd) + 1
          /\ \A i \in 1 .. Newest(bd) : new.entries[i] = bd.entries[i]
          /\ new.entries[Newest(bd) + 1] = [ts |-> Pending, ptr |-> w.ptr]
      BY <1>2, <2>2, PreparedProps
    <3> QED
      BY <3>1
  <2> HIDE DEF new
  <2>4. owner'[b] = p /\ owner[b] = p /\ ts'[p] = NullTS
    BY <1>1, <1>2, <1>3, <1>6
  <2>5. \A i \in 1 .. Newest(bd) : Label(b, i)' = Label(b, i) /\ new.entries[i].ptr = bd.entries[i].ptr
    BY <1>1, <2>1, <2>3 DEF Label, IsPending, bd
  <2>6. \A i \in 1 .. Newest(new) : ~(i <= Newest(bd)) => Label(b, i)' = Pending
    <3> SUFFICES ASSUME NEW i \in 1 .. Newest(new), ~(i <= Newest(bd))
                 PROVE  Label(b, i)' = Pending
      OBVIOUS
    <3>1. i = Newest(bd) + 1
      BY <1>4, <2>3 DEF bd
    <3> QED
      BY <2>1, <2>3, <2>4, <3>1 DEF Label, IsPending
  <2> QED
    BY <1>4, <2>1, <2>3, <2>5, <2>6 DEF LabelsKept, bd
<1> QED
  BY <1>5, <1>6

LEMMA FinalizeKeeps ==
  ASSUME IInv, NEW p \in Updaters, Finalize(p), NEW b \in Bundles
  PROVE  LabelsKept(b)
<1> DEFINE w == upd[p][idx[p]]
<1>1. /\ pc[p] = "finalize" /\ pc[p] \in UpdatePCs
      /\ bundle' = [bundle EXCEPT ![w.bundle] = Finalized(@, ts[p] + 1)]
      /\ UNCHANGED <<owner, ts>> /\ bundle \in [Bundles -> Bundle]
  BY DEF Finalize, UpdatePCs, IInv, TypeOK
<1>2. /\ w.bundle \in Bundles /\ w.ptr \in Ptrs /\ owner[w.bundle] = p /\ p # NoProc
      /\ p \in Procs /\ idx[p] \in 1 .. Len(upd[p]) /\ Len(upd[p]) \in Nat \ {0}
      /\ ts[p] \in Nat
  BY <1>1, UpdateState
<1>3. ts[p] # NullTS /\ ts[p] + 1 < Pending
  BY <1>1, <1>2 DEF IInv, UInv, UpdateInv
<1>4. Awaits(p, idx[p])
  BY <1>1, <1>2 DEF Awaits
<1>5. Newest(bundle[w.bundle]) # 0 /\ IsPending(bundle[w.bundle], Newest(bundle[w.bundle]))
  BY <1>2, <1>4 DEF IInv, UInv, AwaitInv
<1>6. Newest(bundle[b]) \in Nat
  BY <1>1, NewestNat
<1> HIDE DEF w
<1>7. CASE b # w.bundle
  <2>1. bundle'[b] = bundle[b]
    BY <1>1, <1>2, <1>7
  <2> QED
    BY <1>1, <1>6, <2>1 DEF LabelsKept, Label
<1>8. CASE b = w.bundle
  <2> DEFINE bd == bundle[b]
             new == Finalized(bd, ts[p] + 1)
  <2>1. bundle'[b] = new
    BY <1>1, <1>2, <1>8
  <2>2. bd \in Bundle /\ Newest(bd) # 0 /\ ts[p] + 1 \in Nat
    BY <1>1, <1>2, <1>5, <1>8
  <2> HIDE DEF bd
  <2>3. /\ Newest(new) = Newest(bd)
        /\ \A i \in 1 .. Newest(bd) : i # Newest(bd) => new.entries[i] = bd.entries[i]
        /\ new.entries[Newest(bd)].ts = ts[p] + 1
        /\ new.entries[Newest(bd)].ptr = bd.entries[Newest(bd)].ptr
    BY <2>2, FinalizedProps
  <2> HIDE DEF new
  <2>4. owner'[b] = p /\ owner[b] = p /\ ts'[p] = ts[p]
    BY <1>1, <1>2, <1>8
  <2>5. ASSUME NEW i \in 1 .. Newest(bd)
        PROVE  Label(b, i)' = Label(b, i) /\ new.entries[i].ptr = bd.entries[i].ptr
    <3>1. CASE i # Newest(bd)
      BY <1>1, <2>1, <2>3, <3>1 DEF Label, IsPending, bd
    <3>2. CASE i = Newest(bd)
      <4>1. Label(b, i) = ts[p] + 1
        BY <1>2, <1>3, <1>5, <1>8, <2>4, <3>2 DEF Label, bd
      <4>2. ~IsPending(new, i) /\ new.entries[i].ts = ts[p] + 1
        BY <1>2, <1>3, <2>3, <3>2, PendingAssumption DEF IsPending
      <4>3. Label(b, i)' = ts[p] + 1
        BY <2>1, <4>2 DEF Label
      <4> QED
        BY <2>3, <3>2, <4>1, <4>3
    <3> QED
      BY <3>1, <3>2
  <2> QED
    BY <1>6, <2>1, <2>3, <2>5 DEF LabelsKept, bd
<1> QED
  BY <1>7, <1>8

\* Every step but the first load of the clock keeps the labels.
LEMMA StepKeepsLabels ==
  ASSUME IInv, [Next]_vars, ~Clean, ~\E p \in Updaters : LoadTS(p), NEW b \in Bundles
  PROVE  LabelsKept(b)
<1>1. ASSUME NEW p \in Updaters, Update(p) PROVE LabelsKept(b)
  <2>1. CASE ReloadTS(p) \/ FetchAdd(p)
    BY <2>1, LabelsStand DEF ReloadTS, FetchAdd, updateVars
  <2> QED
    BY <1>1, <2>1, BeginKeeps, EndKeeps, PrepareKeeps, FinalizeKeeps DEF Update, UpdateStep
<1>2. ASSUME NEW p \in Procs, Query(p) \/ RunContains(p) PROVE LabelsKept(b)
  <2>1. Reads(p)
    BY <1>2, TypeQuery
  <2> QED
    BY <2>1, LabelsStand DEF Reads, updateVars
<1>3. CASE UNCHANGED vars
  BY <1>3, LabelsStand DEF vars
<1> QED
  BY <1>1, <1>2, <1>3, ProcsAssumption DEF Next

\* An update that loads the clock takes its links to their new targets at all
\* the times the clock has not reached.
LEMMA LoadTakes ==
  ASSUME SInv, IInv', LabelStep, NEW p \in Updaters, LoadTS(p)
  PROVE  /\ \A b \in Bundles, t \in FirstTS .. LastTS :
               t <= clock \/ b \notin BundlesOf(upd[p]) => ValueAt(b, t)' = ValueAt(b, t)
         /\ \A k \in 1 .. Len(upd[p]), b \in Bundles, t \in (clock + 1) .. LastTS :
               b = upd[p][k].bundle => ValueAt(b, t)' = upd[p][k].ptr
<1>1. /\ pc[p] = "load" /\ UNCHANGED <<clock, bundle, owner, upd>>
      /\ ts' = [ts EXCEPT ![p] = clock] /\ clock + 1 < Pending
      /\ IInv /\ p \in Procs /\ p # NoProc /\ ts \in [Procs -> Nat] /\ clock \in Nat
      /\ FirstTS <= clock
  <2>1. p \in Procs /\ p # NoProc
    BY ProcsAssumption DEF Procs, NoProc
  <2>2. IInv /\ ts \in [Procs -> Nat] /\ clock \in Nat /\ FirstTS <= clock
    BY DEF SInv, RInv, IInv, TypeOK, UInv, ClockInv
  <2> QED
    BY <2>1, <2>2 DEF LoadTS
<1>2. ASSUME NEW b \in Bundles, NEW t \in FirstTS .. LastTS, t <= clock
      PROVE  ValueAt(b, t)' = ValueAt(b, t)
  <2>1. t \in FirstTS .. clock
    BY <1>1, <1>2 DEF FirstTS, LastTS
  <2> QED
    BY <1>1, <2>1, ValueKept
<1>3. ASSUME NEW b \in Bundles, NEW t \in FirstTS .. LastTS, b \notin BundlesOf(upd[p])
      PROVE  ValueAt(b, t)' = ValueAt(b, t)
  <2>1. owner[b] # p
    BY <1>1, <1>3 DEF IInv, UInv, OwnerInv
  <2>2. owner[b] \in Procs \cup {NoProc}
    BY <1>1, ProcsAssumption DEF IInv, TypeOK
  <2>3. owner[b] # NoProc => ts'[owner[b]] = ts[owner[b]]
    BY <1>1, <2>1, <2>2
  <2>4. LabelsKept(b)
    BY <1>1, <2>3, OwnerChanges
  <2> QED
    BY <1>1, <2>4, ViewKept
<1>4. ASSUME NEW k \in 1 .. Len(upd[p]), NEW b \in Bundles, NEW t \in (clock + 1) .. LastTS,
             b = upd[p][k].bundle
      PROVE  ValueAt(b, t)' = upd[p][k].ptr
  <2>1. owner[b] = p
    BY <1>1, <1>4, Exclusive
  <2>2. Awaits(p, k) /\ HasPrepared(p, k)
    BY <1>1 DEF Awaits, HasPrepared
  <2>3. Newest(bundle[b]) \in Nat
    BY <1>1, NewestNat DEF IInv, TypeOK
  <2>4. PICK n \in Nat : n = Newest(bundle[b])
    BY <2>3
  <2>5. n # 0 /\ IsPending(bundle[b], n)
    BY <1>1, <1>4, <2>2, <2>4 DEF IInv, UInv, AwaitInv
  <2>6. bundle[b].entries[n].ptr = upd[p][k].ptr
    BY <1>4, <2>2, <2>4 DEF SInv, PtrInv
  <2>7. ts'[p] = clock /\ ts'[p] # NullTS
    BY <1>1 DEF FirstTS, NullTS
  <2>8. Label(b, n)' = clock + 1
    BY <1>1, <2>1, <2>5, <2>7 DEF Label
  <2>9. PICK V : V = Visible(b, t)'
    OBVIOUS
  <2>10. n \in V
    <3>1. n \in 1 .. Newest(bundle'[b]) /\ Label(b, n)' <= t
      BY <1>1, <2>4, <2>5, <2>8
    <3> QED
      BY <2>9, <3>1 DEF Visible
  <2>11. V \in SUBSET (0 .. n)
    BY <1>1, <2>4, <2>9 DEF Visible
  <2>12. LET m == CHOOSE i \in V : \A j \in V : j <= i IN m \in V /\ \A j \in V : j <= m
    BY <2>10, <2>11, Greatest
  <2>13. VersionAt(b, t)' \in V /\ n <= VersionAt(b, t)'
    BY <2>9, <2>10, <2>12 DEF VersionAt
  <2>14. VersionAt(b, t)' = n
    <3>1. \A j \in V : n <= j => j = n
      BY <2>11
    <3> QED
      BY <2>13, <3>1
  <2> QED
    BY <1>1, <2>6, <2>9, <2>10, <2>14 DEF ValueAt
<1> QED
  BY <1>2, <1>3, <1>4

\* A label that is known is never changed, and neither is the pointer it goes
\* with.
LEMMA SettledKept ==
  ASSUME SInv, IInv', LabelStep, [Next]_vars, ~Clean,
         NEW b \in Bundles, NEW i \in 1 .. Newest(bundle[b]), Label(b, i) < Pending
  PROVE  /\ i \in 1 .. Newest(bundle'[b])
         /\ Label(b, i)' = Label(b, i)
         /\ bundle'[b].entries[i].ptr = bundle[b].entries[i].ptr
<1>0. IInv
  BY DEF SInv, RInv
<1>1. Newest(bundle[b]) \in Nat /\ Newest(bundle'[b]) \in Nat
  BY <1>0, NewestNat DEF IInv, TypeOK
<1>2. CASE \E p \in Updaters : LoadTS(p)
  <2>1. PICK p \in Updaters : LoadTS(p)
    BY <1>2
  <2>2. /\ UNCHANGED <<bundle, owner>> /\ pc[p] = "load" /\ ts' = [ts EXCEPT ![p] = clock]
        /\ ts \in [Procs -> Nat] /\ p \in Procs
    BY <1>0, <2>1, ProcsAssumption DEF LoadTS, IInv, TypeOK
  <2>3. ts[p] = NullTS
    BY <1>0, <2>2 DEF IInv, UInv, UpdateInv
  <2>4. CASE IsPending(bundle[b], i)
    <3>1. owner[b] # NoProc /\ ts[owner[b]] # NullTS
      BY <2>4, PendingAssumption DEF Label
    <3>2. owner[b] \in Procs
      BY <1>0, <3>1, ProcsAssumption DEF IInv, TypeOK
    <3>3. ts'[owner[b]] = ts[owner[b]]
      BY <2>2, <2>3, <3>1, <3>2
    <3> QED
      BY <2>2, <3>3 DEF Label
  <2>5. CASE ~IsPending(bundle[b], i)
    BY <2>2, <2>5 DEF Label
  <2> QED
    BY <2>2, <2>4, <2>5
<1>3. CASE ~\E p \in Updaters : LoadTS(p)
  <2>1. LabelsKept(b)
    BY <1>0, <1>3, StepKeepsLabels
  <2> QED
    BY <1>1, <2>1 DEF LabelsKept
<1> QED
  BY <1>2, <1>3
=============================================================================
