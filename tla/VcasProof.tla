----------------------------- MODULE VcasProof ------------------------------
(***************************************************************************)
(* Proofs about the vCAS provider (VersionedCas), for any number of        *)
(* processes and objects and any client.                                   *)
(***************************************************************************)
EXTENDS VersionedCas, SequenceTheorems, WellFoundedInduction, TLAPS

(***************************************************************************)
(* The version a read finds.                                               *)
(***************************************************************************)

\* A set of natural numbers has a least element,
LEMMA LeastOfNat ==
  ASSUME NEW T, T \subseteq Nat, T # {}
  PROVE  \E x \in T : \A y \in T : x <= y
<1> DEFINE R == OpToRel(<, Nat)
<1>1. \E x \in T : \A y \in T : ~ (<<y, x>> \in R)
  <2>1. IsWellFoundedOn(R, Nat)
    BY NatLessThanWellFounded
  <2> QED BY <2>1, WFMin
<1>2. ASSUME NEW x \in T, NEW y \in T, ~ (<<y, x>> \in R) PROVE x <= y
  <2>1. x \in Nat /\ y \in Nat
    OBVIOUS
  <2>2. ~ (y < x)
    BY <1>2, <2>1 DEF OpToRel
  <2> QED BY <2>1, <2>2
<1> QED BY <1>1, <1>2

\* and one that is bounded has a largest.
LEMMA LargestUpTo ==
  ASSUME NEW i \in Nat, NEW T, T \subseteq 1 .. i, T # {}
  PROVE  \E x \in T : \A y \in T : y <= x
<1> DEFINE D == {i - k : k \in T}
<1>1. ASSUME NEW k \in T PROVE k \in 1 .. i
  OBVIOUS
<1>2. D \subseteq Nat
  <2>1. ASSUME NEW k \in T PROVE i - k \in Nat
    <3>1. k \in 1 .. i
      BY <1>1
    <3> QED BY <3>1
  <2> QED BY <2>1
<1>3. D # {}
  OBVIOUS
<1>4. PICK d \in D : \A y \in D : d <= y
  BY <1>2, <1>3, LeastOfNat
<1>5. PICK x \in T : d = i - x
  OBVIOUS
<1>6. ASSUME NEW y \in T PROVE y <= x
  <2>1. i - y \in D
    OBVIOUS
  <2>2. y \in 1 .. i /\ x \in 1 .. i
    BY <1>1
  <2>3. i - x <= i - y
    BY <1>4, <1>5, <2>1
  <2> QED BY <2>2, <2>3
<1> QED BY <1>6

\* VersionAt is the newest version of time t or before, if there is one.
LEMMA VersionAtFinds ==
  ASSUME NEW vs, NEW i \in Nat, NEW t
  PROVE  LET v == VersionAt(vs, i, t) IN
         /\ v \in 0 .. i
         /\ \/ v = 0 /\ \A j \in 1 .. i : ~(vs[j].ts <= t)
            \/ /\ v \in 1 .. i /\ vs[v].ts <= t
               /\ \A j \in 1 .. i : vs[j].ts <= t => j <= v
<1> DEFINE old == {j \in 1 .. i : vs[j].ts <= t}
           Is(j) == (j = 0 /\ old = {}) \/ (j \in old /\ \A k \in old : k <= j)
<1>1. VersionAt(vs, i, t) = CHOOSE j \in 0 .. i : Is(j)
  BY DEF VersionAt
<1>2. \E j \in 0 .. i : Is(j)
  <2>1. CASE old = {}
    <3>1. 0 \in 0 .. i
      OBVIOUS
    <3> QED BY <2>1, <3>1
  <2>2. CASE old # {}
    <3>1. old \subseteq 1 .. i
      OBVIOUS
    <3>2. PICK x \in old : \A y \in old : y <= x
      BY <2>2, <3>1, LargestUpTo
    <3>3. x \in 0 .. i
      BY <3>1
    <3> QED BY <3>2, <3>3
  <2> QED BY <2>1, <2>2
<1>3. VersionAt(vs, i, t) \in 0 .. i /\ Is(VersionAt(vs, i, t))
  BY <1>1, <1>2
<1> QED BY <1>3

\* The answer as of time t depends on the versions of that time only: it is the
\* same for versions ws that begin like vs, and go on with later times.
LEMMA SameAnswer ==
  ASSUME NEW vs, NEW ws, NEW i \in Nat, NEW k \in Nat, i <= k, NEW t \in Nat,
         \A j \in 1 .. i : ws[j].ts = vs[j].ts /\ ws[j].val = vs[j].val,
         \A j \in 1 .. k : j > i => ~(ws[j].ts <= t)
  PROVE  AnswerAt(ws, k, t) = AnswerAt(vs, i, t)
<1> DEFINE v == VersionAt(vs, i, t)
           w == VersionAt(ws, k, t)
<1>1. /\ v \in 0 .. i
      /\ \/ v = 0 /\ \A j \in 1 .. i : ~(vs[j].ts <= t)
         \/ v \in 1 .. i /\ vs[v].ts <= t /\ \A j \in 1 .. i : vs[j].ts <= t => j <= v
  BY VersionAtFinds
<1>2. /\ w \in 0 .. k
      /\ \/ w = 0 /\ \A j \in 1 .. k : ~(ws[j].ts <= t)
         \/ w \in 1 .. k /\ ws[w].ts <= t /\ \A j \in 1 .. k : ws[j].ts <= t => j <= w
  BY VersionAtFinds
<1> HIDE DEF v, w
<1>3. w = v
  <2>1. w # 0 => w \in 1 .. i /\ vs[w].ts <= t
    BY <1>2
  <2>2. v # 0 => v \in 1 .. k /\ ws[v].ts <= t
    BY <1>1
  <2>3. w # 0 => v # 0 /\ w <= v
    BY <1>1, <2>1
  <2>4. v # 0 => w # 0 /\ v <= w
    BY <1>2, <2>2
  <2> QED BY <2>3, <2>4, <1>1, <1>2
<1>4. v # 0 => ws[v].val = vs[v].val
  BY <1>1
<1> QED BY <1>3, <1>4 DEF AnswerAt, v, w

LEMMA AnswerOfSame ==
  ASSUME NEW vs, NEW ws, NEW n \in Nat, NEW t \in Nat,
         \A j \in 1 .. n : ws[j].ts = vs[j].ts /\ ws[j].val = vs[j].val
  PROVE  AnswerAt(ws, n, t) = AnswerAt(vs, n, t)
<1>1. n <= n /\ \A j \in 1 .. n : j > n => ~(ws[j].ts <= t)
  OBVIOUS
<1> QED BY <1>1, SameAnswer

\* So the newest version does not matter, if it is later than t.
LEMMA LaterVersion ==
  ASSUME NEW vs, NEW ws, NEW n \in Nat \ {0}, NEW t \in Nat,
         \A j \in 1 .. n : j # n => ws[j].ts = vs[j].ts /\ ws[j].val = vs[j].val,
         ~(ws[n].ts <= t)
  PROVE  AnswerAt(ws, n, t) = AnswerAt(vs, n - 1, t)
<1>1. PICK m \in Nat : m = n - 1
  OBVIOUS
<1>2. \A j \in 1 .. m : ws[j].ts = vs[j].ts /\ ws[j].val = vs[j].val
  BY <1>1
<1>3. \A j \in 1 .. n : j > m => ~(ws[j].ts <= t)
  BY <1>1
<1>4. n \in Nat /\ m <= n
  BY <1>1
<1>5. AnswerAt(ws, n, t) = AnswerAt(vs, m, t)
  BY <1>2, <1>3, <1>4, SameAnswer
<1> QED BY <1>1, <1>5

-----------------------------------------------------------------------------
(***************************************************************************)
(* The inductive invariant.                                                *)
(***************************************************************************)
Version == [val : Values, ts : Nat \cup {TBD}]

ReadCalls == [kind : {"read", "readAt"}, obj : Objects]
CasCalls == [kind : {"cas", "stored", "failed"}, obj : Objects, old : Values, new : Values]
Calls == ReadCalls \cup CasCalls

Places == {"idle", "done", "ts", "stamp", "install", "reload", "again", "advance"}

\* The type invariant.
VcasTypes ==
  /\ timestamp \in Nat
  /\ versions \in [Objects -> Seq(Version)]
  /\ vpc \in [Procs -> Places]
  /\ call \in [Procs -> Calls \cup {NoCall}]
  /\ ix \in [Procs -> Nat]
  /\ curTS \in [Procs -> Nat]
  /\ snap \in [Procs -> Nat \cup {NoTS}]

\* VersionsOrdered, of the versions of one object.
Ordered(vs, now) ==
  \A i \in 1 .. Len(vs) :
    /\ vs[i].ts = TBD => i = Len(vs)
    /\ vs[i].ts <= now
    /\ \A j \in 1 .. i - 1 : vs[i].ts # TBD => vs[j].ts <= vs[i].ts

Versions(p) == versions[call[p].obj]

\* A process in initTS or before the swap looks at a version of its object; a swap
\* is tried on top of a version with a timestamp; and a time that was loaded is not
\* before those of the versions below, if the version has none yet.
InCall(p) ==
  /\ vpc[p] \in {"ts", "stamp", "install", "reload"} => call[p] \in Calls
  /\ vpc[p] \in {"ts", "stamp", "install"} => ix[p] \in 1 .. Len(Versions(p))
  /\ vpc[p] = "install" => call[p] \in CasCalls /\ Versions(p)[ix[p]].ts # TBD
  /\ vpc[p] = "stamp" =>
       /\ curTS[p] <= timestamp
       /\ Versions(p)[ix[p]].ts = TBD =>
            \A j \in 1 .. ix[p] - 1 : Versions(p)[j].ts <= curTS[p]

VcasInv ==
  /\ VcasTypes
  /\ \A o \in Objects : Ordered(versions[o], timestamp)
  /\ \A p \in Procs : InCall(p)

LEMMA InvGivesOrder == VcasInv => VersionsOrdered
<1> SUFFICES ASSUME VcasInv, NEW o \in Objects, NEW i \in DOMAIN versions[o]
             PROVE  /\ versions[o][i].ts = TBD => i = Len(versions[o])
                    /\ versions[o][i].ts <= timestamp
                    /\ \A j \in 1 .. i - 1 :
                         versions[o][i].ts # TBD => versions[o][j].ts <= versions[o][i].ts
  BY DEF VersionsOrdered
<1>1. versions[o] \in Seq(Version)
  BY DEF VcasInv, VcasTypes
<1>2. i \in 1 .. Len(versions[o])
  BY <1>1, LenProperties
<1> QED BY <1>2 DEF VcasInv, Ordered

LEMMA InitInv == VcasInit => VcasInv
<1> SUFFICES ASSUME VcasInit PROVE VcasInv
  OBVIOUS
<1> USE VcasAssumption DEF VcasInit
<1>1. ASSUME NEW o \in Objects
      PROVE  versions[o] \in Seq(Version) /\ Ordered(versions[o], timestamp)
  <2>1. versions[o] \in {<<>>} \cup {<<[val |-> v, ts |-> t]>> : v \in Values, t \in 0 .. InitTime}
    OBVIOUS
  <2>2. CASE versions[o] = <<>>
    BY <2>2 DEF Ordered
  <2>3. CASE \E v \in Values, t \in 0 .. InitTime : versions[o] = <<[val |-> v, ts |-> t]>>
    <3>1. PICK v \in Values, t \in 0 .. InitTime : versions[o] = <<[val |-> v, ts |-> t]>>
      BY <2>3
    <3>2. [val |-> v, ts |-> t] \in Version
      BY DEF Version
    <3>3. versions[o] \in Seq(Version) /\ Len(versions[o]) = 1
      BY <3>1, <3>2
    <3>4. versions[o][1].ts = t /\ t # TBD /\ t <= timestamp
      BY <3>1 DEF TBD
    <3>5. Ordered(versions[o], timestamp)
      BY <3>3, <3>4 DEF Ordered
    <3> QED BY <3>3, <3>5
  <2> QED BY <2>1, <2>2, <2>3
<1>2. versions \in [Objects -> Seq(Version)]
  <2>1. versions = [o \in Objects |-> versions[o]]
    OBVIOUS
  <2> QED BY <1>1, <2>1
<1>3. VcasTypes
  BY <1>2 DEF VcasTypes, Places
<1>4. ASSUME NEW p \in Procs PROVE InCall(p)
  BY DEF InCall
<1> QED BY <1>1, <1>3, <1>4 DEF VcasInv
-----------------------------------------------------------------------------
(***************************************************************************)
(* How a step changes the versions.                                        *)
(***************************************************************************)

\* What was there stays, with its value, and with its time if it had one.
Kept(vs, ws) ==
  /\ Len(vs) <= Len(ws)
  /\ \A j \in 1 .. Len(vs) :
       /\ ws[j].val = vs[j].val
       /\ vs[j].ts # TBD => ws[j].ts = vs[j].ts

\* initTS.
LEMMA StampSeq ==
  ASSUME NEW vs \in Seq(Version), NEW i \in 1 .. Len(vs), NEW c \in Nat
  PROVE  LET ws == [vs EXCEPT ![i].ts = IF @ = TBD THEN c ELSE @] IN
         /\ ws \in Seq(Version) /\ Len(ws) = Len(vs)
         /\ \A j \in 1 .. Len(vs) :
              /\ ws[j].val = vs[j].val
              /\ ws[j].ts = IF j = i /\ vs[j].ts = TBD THEN c ELSE vs[j].ts
<1> DEFINE e == [vs[i] EXCEPT !.ts = IF @ = TBD THEN c ELSE @]
           ws == [vs EXCEPT ![i] = e]
<1>1. vs[i] \in Version
  BY ElementOfSeq
<1>2. /\ e \in Version /\ e.val = vs[i].val
      /\ e.ts = IF vs[i].ts = TBD THEN c ELSE vs[i].ts
  BY <1>1 DEF Version
<1> HIDE DEF e
<1>3. /\ ws \in Seq(Version) /\ Len(ws) = Len(vs)
      /\ \A j \in 1 .. Len(vs) : ws[j] = IF j = i THEN e ELSE vs[j]
  BY <1>2, ExceptSeq
<1>4. [vs EXCEPT ![i].ts = IF @ = TBD THEN c ELSE @] = ws
  BY DEF e
<1> HIDE DEF ws
<1> QED BY <1>2, <1>3, <1>4

\* A stamp that is not before the times below it, nor ahead of the clock, leaves
\* the versions in order.
LEMMA StampOrdered ==
  ASSUME NEW vs \in Seq(Version), NEW i \in 1 .. Len(vs), NEW c \in Nat, NEW now \in Nat,
         Ordered(vs, now), c <= now,
         vs[i].ts = TBD => \A j \in 1 .. i - 1 : vs[j].ts <= c
  PROVE  LET ws == [vs EXCEPT ![i].ts = IF @ = TBD THEN c ELSE @] IN
         Ordered(ws, now) /\ Kept(vs, ws) /\ ws[i].ts # TBD
<1> DEFINE ws == [vs EXCEPT ![i].ts = IF @ = TBD THEN c ELSE @]
<1>1. /\ ws \in Seq(Version) /\ Len(ws) = Len(vs)
      /\ \A j \in 1 .. Len(vs) :
           /\ ws[j].val = vs[j].val
           /\ ws[j].ts = IF j = i /\ vs[j].ts = TBD THEN c ELSE vs[j].ts
  BY StampSeq
<1> HIDE DEF ws
<1>2. c # TBD
  BY DEF TBD
<1>3. Kept(vs, ws) /\ ws[i].ts # TBD
  BY <1>1, <1>2 DEF Kept
<1>4. ASSUME NEW k \in 1 .. Len(ws)
      PROVE  /\ ws[k].ts = TBD => k = Len(ws)
             /\ ws[k].ts <= now
             /\ \A j \in 1 .. k - 1 : ws[k].ts # TBD => ws[j].ts <= ws[k].ts
  <2>1. /\ vs[k].ts = TBD => k = Len(vs)
        /\ vs[k].ts <= now
        /\ \A j \in 1 .. k - 1 : vs[k].ts # TBD => vs[j].ts <= vs[k].ts
    BY <1>1 DEF Ordered
  <2>2. k \in 1 .. Len(vs) /\ i \in 1 .. Len(vs) /\ Len(vs) \in Nat
    BY <1>1
  <2>3. \A j \in 1 .. k - 1 : j \in 1 .. Len(vs)
    BY <2>2
  <2>4. vs[i].ts = TBD => i = Len(vs)
    BY DEF Ordered
  <2>5. \A j \in 1 .. k - 1 : ws[j].ts = vs[j].ts
    BY <1>1, <2>2, <2>3, <2>4
  <2>6. CASE k = i /\ vs[k].ts = TBD
    BY <1>1, <1>2, <2>1, <2>5, <2>6
  <2>7. CASE ~(k = i /\ vs[k].ts = TBD)
    <3>1. ws[k].ts = vs[k].ts
      BY <1>1, <2>2, <2>7
    <3> QED BY <1>1, <2>1, <2>5, <3>1
  <2> QED BY <2>6, <2>7
<1>5. Ordered(ws, now)
  BY <1>4 DEF Ordered
<1> QED BY <1>3, <1>5 DEF ws

\* A version is put on top of one that has a timestamp.
LEMMA InstallOrdered ==
  ASSUME NEW vs \in Seq(Version), NEW v \in Values, NEW now \in Nat, Ordered(vs, now),
         vs # <<>>, vs[Len(vs)].ts # TBD
  PROVE  LET ws == Append(vs, [val |-> v, ts |-> TBD]) IN
         /\ ws \in Seq(Version) /\ Len(ws) = Len(vs) + 1
         /\ Ordered(ws, now) /\ Kept(vs, ws)
         /\ ws[Len(vs) + 1].ts = TBD
<1> DEFINE e == [val |-> v, ts |-> TBD]
           ws == Append(vs, e)
<1>1. e \in Version /\ e.ts = TBD
  BY DEF Version
<1>2. Len(vs) \in Nat
  BY LenProperties
<1> HIDE DEF e
<1>3. /\ ws \in Seq(Version) /\ Len(ws) = Len(vs) + 1
      /\ ws[Len(vs) + 1] = e
      /\ \A j \in 1 .. Len(vs) : ws[j] = vs[j]
  BY <1>1, <1>2
<1> HIDE DEF ws
<1>4. ASSUME NEW k \in 1 .. Len(ws)
      PROVE  /\ ws[k].ts = TBD => k = Len(ws)
             /\ ws[k].ts <= now
             /\ \A j \in 1 .. k - 1 : ws[k].ts # TBD => ws[j].ts <= ws[k].ts
  <2>1. CASE k = Len(vs) + 1
    BY <1>1, <1>2, <1>3, <2>1 DEF TBD
  <2>2. CASE k \in 1 .. Len(vs)
    <3>1. /\ vs[k].ts = TBD => k = Len(vs)
          /\ vs[k].ts <= now
          /\ \A j \in 1 .. k - 1 : vs[k].ts # TBD => vs[j].ts <= vs[k].ts
      BY <2>2 DEF Ordered
    <3>2. ws[k] = vs[k] /\ \A j \in 1 .. k - 1 : ws[j] = vs[j]
      BY <1>2, <1>3, <2>2
    <3> QED BY <3>1, <3>2
  <2>3. k = Len(vs) + 1 \/ k \in 1 .. Len(vs)
    BY <1>2, <1>3
  <2> QED BY <2>1, <2>2, <2>3
<1>5. Ordered(ws, now)
  BY <1>4 DEF Ordered
<1>6. Kept(vs, ws)
  BY <1>2, <1>3 DEF Kept
<1> QED BY <1>1, <1>3, <1>5, <1>6 DEF ws, e

\* write_vcas.
LEMMA CreateOrdered ==
  ASSUME NEW v \in Values, NEW now \in Nat
  PROVE  LET ws == <<[val |-> v, ts |-> now]>> IN
         ws \in Seq(Version) /\ Len(ws) = 1 /\ ws[1].ts = now /\ Ordered(ws, now)
<1> DEFINE e == [val |-> v, ts |-> now]
           ws == <<e>>
<1>1. e \in Version /\ e.ts = now /\ now # TBD
  BY DEF Version, TBD
<1> HIDE DEF e
<1>2. ws \in Seq(Version) /\ Len(ws) = 1 /\ ws[1] = e
  BY <1>1
<1> HIDE DEF ws
<1>3. Ordered(ws, now)
  BY <1>1, <1>2 DEF Ordered
<1> QED BY <1>1, <1>2, <1>3 DEF ws, e

\* Time goes by, and the versions stay in order.
LEMMA OrderedLater ==
  ASSUME NEW vs \in Seq(Version), NEW now \in Nat, Ordered(vs, now)
  PROVE  Ordered(vs, now + 1)
<1> SUFFICES ASSUME NEW i \in 1 .. Len(vs) PROVE vs[i].ts <= now + 1
  BY DEF Ordered
<1>1. vs[i] \in Version
  BY ElementOfSeq
<1>2. vs[i].ts \in Int /\ vs[i].ts <= now
  BY <1>1 DEF Version, TBD, Ordered
<1> QED BY <1>2
-----------------------------------------------------------------------------
(***************************************************************************)
(* A process is where it was, in its call, as long as versions are kept.   *)
(***************************************************************************)
LEMMA CallsHaveObjects ==
  ASSUME NEW c \in Calls
  PROVE  c.obj \in Objects
BY DEF Calls, ReadCalls, CasCalls

LEMMA OthersInCall ==
  ASSUME VcasInv, NEW q \in Procs,
         vpc'[q] = vpc[q], call'[q] = call[q], ix'[q] = ix[q], curTS'[q] = curTS[q],
         timestamp' \in Nat, timestamp <= timestamp',
         \A o \in Objects : Kept(versions[o], versions'[o])
  PROVE  InCall(q)'
<1> USE DEF VcasInv, VcasTypes
<1>1. CASE vpc[q] \notin {"ts", "stamp", "install"}
  BY <1>1 DEF InCall
<1>2. CASE vpc[q] \in {"ts", "stamp", "install"}
  <2> DEFINE vs == versions[call[q].obj]
             ws == versions'[call[q].obj]
             i == ix[q]
  <2>1. call[q] \in Calls /\ call[q].obj \in Objects
    BY <1>2, CallsHaveObjects DEF InCall
  <2>2. vs \in Seq(Version) /\ Kept(vs, ws) /\ Ordered(vs, timestamp)
    BY <2>1
  <2>3. i \in 1 .. Len(vs) /\ Len(vs) \in Nat
    BY <1>2, <2>2 DEF InCall, Versions
  <2>4. vs = Versions(q) /\ ws = Versions(q)' /\ i = ix[q] /\ i = ix'[q]
    BY DEF Versions
  <2> HIDE DEF vs, ws, i
  <2>5. i \in 1 .. Len(ws)
    <3>1. Len(vs) <= Len(ws)
      BY <2>2 DEF Kept
    <3> QED BY <2>3, <3>1
  <2>6. vs[i].ts # TBD => ws[i].ts = vs[i].ts
    BY <2>2, <2>3 DEF Kept
  <2>7. vpc[q] = "install" => call[q] \in CasCalls /\ ws[i].ts # TBD
    BY <2>4, <2>6 DEF InCall
  <2>8. ASSUME vpc[q] = "stamp", ws[i].ts = TBD, NEW j \in 1 .. i - 1
        PROVE  ws[j].ts <= curTS[q]
    <3>1. vs[i].ts = TBD /\ i = Len(vs)
      BY <2>2, <2>3, <2>6, <2>8 DEF Ordered
    <3>2. j \in 1 .. Len(vs) /\ j # Len(vs)
      BY <2>3, <2>8
    <3>3. vs[j].ts # TBD
      BY <2>2, <3>2 DEF Ordered
    <3>4. ws[j].ts = vs[j].ts
      BY <2>2, <3>2, <3>3 DEF Kept
    <3>5. vs[j].ts <= curTS[q]
      BY <2>4, <2>8, <3>1 DEF InCall
    <3> QED BY <3>4, <3>5
  <2>9. vpc[q] = "stamp" => curTS'[q] <= timestamp'
    <3>1. vpc[q] = "stamp" => curTS[q] <= timestamp
      BY DEF InCall
    <3> QED BY <3>1
  <2> QED BY <1>2, <2>1, <2>4, <2>5, <2>7, <2>8, <2>9 DEF InCall
<1> QED BY <1>1, <1>2

LEMMA KeptSelf ==
  ASSUME NEW vs \in Seq(Version)
  PROVE  Kept(vs, vs)
BY DEF Kept

\* What a call does once it has a version with a timestamp.
LEMMA ProceedMoves ==
  ASSUME VcasTypes, NEW p \in Procs, NEW c \in Calls, NEW i \in Nat, NEW vs,
         Proceed(p, c, i, vs)
  PROVE  \/ vpc' = [vpc EXCEPT ![p] = "done"] /\ ix' = [ix EXCEPT ![p] = 0]
         \/ /\ vpc' = [vpc EXCEPT ![p] = "install"] /\ ix' = [ix EXCEPT ![p] = i]
            /\ c \in CasCalls /\ c.kind = "cas"
<1> USE DEF Reply, Look, At
<1>1. CASE c \in ReadCalls
  <2>1. c.kind \in {"read", "readAt"}
    BY <1>1 DEF ReadCalls
  <2>2. CASE c.kind = "read"
    BY <2>2 DEF Proceed
  <2>3. CASE c.kind = "readAt"
    BY <2>3 DEF Proceed
  <2> QED BY <2>1, <2>2, <2>3
<1>2. CASE c \in CasCalls
  <2>1. c.kind \in {"cas", "stored", "failed"}
    BY <1>2 DEF CasCalls
  <2>2. CASE c.kind = "cas"
    BY <1>2, <2>2 DEF Proceed
  <2>3. CASE c.kind = "stored"
    BY <2>3 DEF Proceed
  <2>4. CASE c.kind = "failed"
    BY <2>4 DEF Proceed
  <2> QED BY <2>1, <2>2, <2>3, <2>4
<1> QED BY <1>1, <1>2 DEF Calls
-----------------------------------------------------------------------------
(***************************************************************************)
(* Every step preserves the invariant.                                     *)
(***************************************************************************)
Elsewhere(p) ==
  \A q \in Procs : q # p =>
    vpc'[q] = vpc[q] /\ call'[q] = call[q] /\ ix'[q] = ix[q] /\ curTS'[q] = curTS[q]

LEMMA StepOf ==
  ASSUME VcasInv, NEW p \in Procs, Elsewhere(p), VcasTypes', timestamp <= timestamp',
         \A o \in Objects : Kept(versions[o], versions'[o]) /\ Ordered(versions'[o], timestamp'),
         InCall(p)'
  PROVE  VcasInv'
<1>1. ASSUME NEW q \in Procs, q # p PROVE InCall(q)'
  <2>1. timestamp' \in Nat
    BY DEF VcasTypes
  <2> QED BY <1>1, <2>1, OthersInCall DEF Elsewhere
<1> QED BY <1>1 DEF VcasInv

\* A step that leaves the clock and the versions alone.
LEMMA QuietStep ==
  ASSUME VcasInv, NEW p \in Procs, Elsewhere(p), UNCHANGED <<timestamp, versions>>,
         VcasTypes', InCall(p)'
  PROVE  VcasInv'
<1>1. timestamp \in Nat /\ timestamp' = timestamp
  BY DEF VcasInv, VcasTypes
<1>2. \A o \in Objects : Kept(versions[o], versions'[o]) /\ Ordered(versions'[o], timestamp')
  BY KeptSelf DEF VcasInv, VcasTypes
<1>3. timestamp <= timestamp'
  BY <1>1
<1> QED BY <1>2, <1>3, StepOf

LEMMA ExamineInv ==
  ASSUME VcasInv, NEW p \in Procs, NEW c \in Calls, Examine(p, c)
  PROVE  VcasInv'
<1> DEFINE vs == versions[c.obj]
<1> USE DEF VcasInv, VcasTypes
<1>1. c.obj \in Objects /\ vs \in Seq(Version) /\ vs # <<>>
  BY CallsHaveObjects DEF Examine
<1>2. Len(vs) \in Nat /\ Len(vs) \in 1 .. Len(vs)
  BY <1>1, EmptySeq
<1>3. /\ call' = [call EXCEPT ![p] = c]
      /\ UNCHANGED <<timestamp, versions, curTS, snap>>
  BY DEF Examine
<1>4. CASE vs[Len(vs)].ts = TBD
  <2>1. vpc' = [vpc EXCEPT ![p] = "ts"] /\ ix' = [ix EXCEPT ![p] = Len(vs)]
    BY <1>4 DEF Examine, Look, At
  <2>2. VcasTypes' /\ Elsewhere(p)
    BY <1>2, <1>3, <2>1 DEF Elsewhere, Places
  <2>3. InCall(p)'
    BY <1>1, <1>2, <1>3, <2>1 DEF InCall, Versions
  <2> QED BY <1>3, <2>2, <2>3, QuietStep
<1>5. CASE vs[Len(vs)].ts # TBD
  <2>1. Proceed(p, c, Len(vs), vs)
    BY <1>5 DEF Examine
  <2>2. \/ vpc' = [vpc EXCEPT ![p] = "done"] /\ ix' = [ix EXCEPT ![p] = 0]
        \/ /\ vpc' = [vpc EXCEPT ![p] = "install"] /\ ix' = [ix EXCEPT ![p] = Len(vs)]
           /\ c \in CasCalls /\ c.kind = "cas"
    BY <1>2, <2>1, ProceedMoves
  <2>3. VcasTypes' /\ Elsewhere(p)
    <3>1. PICK l \in {"done", "install"}, k \in Nat :
            vpc' = [vpc EXCEPT ![p] = l] /\ ix' = [ix EXCEPT ![p] = k]
      <4>1. 0 \in Nat /\ Len(vs) \in Nat
        BY <1>2
      <4> QED BY <2>2, <4>1
    <3>2. vpc' \in [Procs -> Places] /\ ix' \in [Procs -> Nat]
      BY <3>1 DEF Places
    <3>3. VcasTypes'
      BY <1>2, <1>3, <3>2
    <3>4. Elsewhere(p)
      BY <1>2, <1>3, <3>1 DEF Elsewhere
    <3> QED BY <3>3, <3>4
  <2>4. InCall(p)'
    BY <1>1, <1>2, <1>3, <1>5, <2>2 DEF InCall, Versions
  <2> QED BY <1>3, <2>3, <2>4, QuietStep
<1> QED BY <1>4, <1>5

LEMMA LoadClockInv ==
  ASSUME VcasInv, NEW p \in Procs, LoadClock(p)
  PROVE  VcasInv'
<1> DEFINE vs == versions[call[p].obj]
           i == ix[p]
<1> USE DEF VcasInv, VcasTypes
<1>1. call[p] \in Calls /\ call[p].obj \in Objects /\ i \in 1 .. Len(vs)
  BY CallsHaveObjects DEF LoadClock, InCall, Versions
<1>2. vs \in Seq(Version) /\ Ordered(vs, timestamp) /\ i \in Nat
  BY <1>1
<1>3. UNCHANGED <<timestamp, versions, call, snap>>
  BY DEF LoadClock
<1>4. CASE vs[i].ts # TBD
  <2>1. Proceed(p, call[p], i, vs) /\ UNCHANGED curTS
    BY <1>4 DEF LoadClock
  <2>2. \/ vpc' = [vpc EXCEPT ![p] = "done"] /\ ix' = [ix EXCEPT ![p] = 0]
        \/ /\ vpc' = [vpc EXCEPT ![p] = "install"] /\ ix' = [ix EXCEPT ![p] = i]
           /\ call[p] \in CasCalls /\ call[p].kind = "cas"
    BY <1>1, <1>2, <2>1, ProceedMoves
  <2>3. VcasTypes' /\ Elsewhere(p)
    <3>1. PICK l \in {"done", "install"}, k \in Nat :
            vpc' = [vpc EXCEPT ![p] = l] /\ ix' = [ix EXCEPT ![p] = k]
      <4>1. 0 \in Nat /\ i \in Nat
        BY <1>2
      <4> QED BY <2>2, <4>1
    <3>2. vpc' \in [Procs -> Places] /\ ix' \in [Procs -> Nat]
      BY <3>1 DEF Places
    <3>3. VcasTypes'
      BY <1>2, <1>3, <2>1, <3>2
    <3>4. Elsewhere(p)
      BY <1>2, <1>3, <2>1, <3>1 DEF Elsewhere
    <3> QED BY <3>3, <3>4
  <2>4. InCall(p)'
    BY <1>1, <1>2, <1>3, <1>4, <2>2 DEF InCall, Versions
  <2> QED BY <1>3, <2>3, <2>4, QuietStep
<1>5. CASE vs[i].ts = TBD
  <2>1. /\ vpc' = [vpc EXCEPT ![p] = "stamp"] /\ ix' = [ix EXCEPT ![p] = i]
        /\ curTS' = [curTS EXCEPT ![p] = timestamp]
    BY <1>5 DEF LoadClock, Look, At
  <2>2. VcasTypes' /\ Elsewhere(p)
    BY <1>2, <1>3, <2>1 DEF Elsewhere, Places
  <2>3. \A j \in 1 .. i - 1 : vs[j].ts <= timestamp
    <3>1. \A j \in 1 .. i - 1 : j \in 1 .. Len(vs)
      BY <1>1, <1>2, LenProperties
    <3> QED BY <1>2, <3>1 DEF Ordered
  <2>4. InCall(p)'
    BY <1>1, <1>2, <1>3, <2>1, <2>3 DEF InCall, Versions
  <2> QED BY <1>3, <2>2, <2>4, QuietStep
<1> QED BY <1>4, <1>5
\* The versions of one object are changed.
LEMMA OneObject ==
  ASSUME VcasInv, NEW o \in Objects, NEW ws \in Seq(Version),
         versions' = [versions EXCEPT ![o] = ws], UNCHANGED timestamp,
         Kept(versions[o], ws), Ordered(ws, timestamp)
  PROVE  /\ versions' \in [Objects -> Seq(Version)]
         /\ \A x \in Objects : Kept(versions[x], versions'[x]) /\ Ordered(versions'[x], timestamp')
<1> USE DEF VcasInv, VcasTypes
<1>1. versions' \in [Objects -> Seq(Version)]
  OBVIOUS
<1>2. ASSUME NEW x \in Objects
      PROVE  Kept(versions[x], versions'[x]) /\ Ordered(versions'[x], timestamp')
  <2>1. CASE x = o
    BY <2>1
  <2>2. CASE x # o
    BY <2>2, KeptSelf
  <2> QED BY <2>1, <2>2
<1> QED BY <1>1, <1>2

\* initTS of the version a process has loaded the clock for, and what it keeps of
\* the other versions.
LEMMA StampVersions ==
  ASSUME VcasInv, NEW p \in Procs, vpc[p] = "stamp"
  PROVE  LET vs == Versions(p)
             ws == [vs EXCEPT ![ix[p]].ts = IF @ = TBD THEN curTS[p] ELSE @]
         IN  /\ call[p] \in Calls /\ call[p].obj \in Objects
             /\ vs \in Seq(Version) /\ ix[p] \in 1 .. Len(vs)
             /\ ws \in Seq(Version) /\ Len(ws) = Len(vs)
             /\ Kept(vs, ws) /\ Ordered(ws, timestamp) /\ ws[ix[p]].ts # TBD
<1> DEFINE vs == Versions(p)
<1> USE DEF VcasInv, VcasTypes
<1>1. call[p] \in Calls /\ call[p].obj \in Objects /\ ix[p] \in 1 .. Len(vs)
  BY CallsHaveObjects DEF InCall
<1>2. vs \in Seq(Version) /\ Ordered(vs, timestamp)
  BY <1>1 DEF Versions
<1>3. /\ curTS[p] \in Nat /\ timestamp \in Nat /\ curTS[p] <= timestamp
      /\ vs[ix[p]].ts = TBD => \A j \in 1 .. ix[p] - 1 : vs[j].ts <= curTS[p]
  BY DEF InCall
<1> HIDE DEF vs
<1>4. LET ws == [vs EXCEPT ![ix[p]].ts = IF @ = TBD THEN curTS[p] ELSE @]
      IN  ws \in Seq(Version) /\ Len(ws) = Len(vs)
  BY <1>1, <1>2, <1>3, StampSeq
<1>5. LET ws == [vs EXCEPT ![ix[p]].ts = IF @ = TBD THEN curTS[p] ELSE @]
      IN  Ordered(ws, timestamp) /\ Kept(vs, ws) /\ ws[ix[p]].ts # TBD
  BY <1>1, <1>2, <1>3, StampOrdered
<1> QED BY <1>1, <1>2, <1>4, <1>5 DEF vs

LEMMA StampInv ==
  ASSUME VcasInv, NEW p \in Procs, Stamp(p)
  PROVE  VcasInv'
<1> DEFINE vs == Versions(p)
           ws == [vs EXCEPT ![ix[p]].ts = IF @ = TBD THEN curTS[p] ELSE @]
<1>1. vpc[p] = "stamp"
  BY DEF Stamp
<1>2. /\ call[p] \in Calls /\ call[p].obj \in Objects
      /\ vs \in Seq(Version) /\ ix[p] \in 1 .. Len(vs)
      /\ ws \in Seq(Version) /\ Len(ws) = Len(vs)
      /\ Kept(vs, ws) /\ Ordered(ws, timestamp) /\ ws[ix[p]].ts # TBD
  BY <1>1, StampVersions
<1>3. /\ versions' = [versions EXCEPT ![call[p].obj] = ws]
      /\ curTS' = [curTS EXCEPT ![p] = 0]
      /\ Proceed(p, call[p], ix[p], ws)
      /\ UNCHANGED <<timestamp, call, snap>>
  BY DEF Stamp, Versions
<1>4. vs = versions[call[p].obj]
  BY DEF Versions
<1> HIDE DEF vs, ws
<1> USE DEF VcasInv, VcasTypes
<1>5. /\ versions' \in [Objects -> Seq(Version)]
      /\ \A x \in Objects : Kept(versions[x], versions'[x]) /\ Ordered(versions'[x], timestamp')
  BY <1>2, <1>3, <1>4, OneObject
<1>6. \/ vpc' = [vpc EXCEPT ![p] = "done"] /\ ix' = [ix EXCEPT ![p] = 0]
      \/ /\ vpc' = [vpc EXCEPT ![p] = "install"] /\ ix' = [ix EXCEPT ![p] = ix[p]]
         /\ call[p] \in CasCalls /\ call[p].kind = "cas"
  BY <1>2, <1>3, ProceedMoves
<1>7. VcasTypes' /\ Elsewhere(p)
  <2>1. PICK l \in {"done", "install"}, k \in Nat :
          vpc' = [vpc EXCEPT ![p] = l] /\ ix' = [ix EXCEPT ![p] = k]
    BY <1>6
  <2>2. vpc' \in [Procs -> Places] /\ ix' \in [Procs -> Nat]
    BY <2>1 DEF Places
  <2>3. VcasTypes'
    BY <1>3, <1>5, <2>2
  <2>4. Elsewhere(p)
    BY <1>3, <2>1 DEF Elsewhere
  <2> QED BY <2>3, <2>4
<1>8. InCall(p)'
  <2>1. Versions(p)' = ws /\ call' = call
    BY <1>2, <1>3 DEF Versions
  <2>2. CASE vpc'[p] = "done"
    BY <2>2 DEF InCall
  <2>3. CASE vpc'[p] = "install" /\ ix'[p] = ix[p] /\ call[p] \in CasCalls
    BY <1>2, <2>1, <2>3 DEF InCall
  <2>4. vpc'[p] = "done" \/ (vpc'[p] = "install" /\ ix'[p] = ix[p] /\ call[p] \in CasCalls)
    BY <1>6
  <2> QED BY <2>2, <2>3, <2>4
<1>9. timestamp <= timestamp'
  BY <1>3
<1> QED BY <1>5, <1>7, <1>8, <1>9, StepOf

LEMMA InstallInv ==
  ASSUME VcasInv, NEW p \in Procs, Install(p)
  PROVE  VcasInv'
<1> DEFINE o == call[p].obj
           vs == versions[o]
           n == Len(vs)
<1> USE DEF VcasInv, VcasTypes
<1>1. /\ call[p] \in CasCalls /\ o \in Objects /\ call[p].new \in Values
      /\ ix[p] \in 1 .. n /\ vs[ix[p]].ts # TBD
  BY CallsHaveObjects DEF Install, InCall, Versions, CasCalls, Calls
<1>2. vs \in Seq(Version) /\ n \in Nat /\ Ordered(vs, timestamp) /\ vs # <<>>
  BY <1>1
<1>3. UNCHANGED <<timestamp, curTS, snap>>
  BY DEF Install
<1>4. CASE n = ix[p]
  <2> DEFINE ws == Append(vs, [val |-> call[p].new, ts |-> TBD])
  <2>1. /\ versions' = [versions EXCEPT ![o] = ws]
        /\ vpc' = [vpc EXCEPT ![p] = "ts"] /\ ix' = [ix EXCEPT ![p] = n + 1]
        /\ call' = [call EXCEPT ![p].kind = "stored"]
    BY <1>4 DEF Install, Look, At
  <2>2. /\ ws \in Seq(Version) /\ Len(ws) = n + 1
        /\ Ordered(ws, timestamp) /\ Kept(vs, ws)
    BY <1>1, <1>2, <1>4, InstallOrdered
  <2> HIDE DEF ws
  <2>3. /\ versions' \in [Objects -> Seq(Version)]
        /\ \A x \in Objects : Kept(versions[x], versions'[x]) /\ Ordered(versions'[x], timestamp')
    BY <1>1, <1>3, <2>1, <2>2, OneObject
  <2>4. call'[p] \in CasCalls /\ call'[p].obj = o
    BY <1>1, <2>1 DEF CasCalls
  <2>5. VcasTypes'
    <3>1. vpc' \in [Procs -> Places] /\ ix' \in [Procs -> Nat]
      BY <1>2, <2>1 DEF Places
    <3>2. call' \in [Procs -> Calls \cup {NoCall}]
      BY <2>1, <2>4 DEF Calls
    <3> QED BY <1>3, <2>3, <3>1, <3>2
  <2>6. Elsewhere(p)
    BY <1>3, <2>1 DEF Elsewhere
  <2>7. InCall(p)'
    <3>1. Versions(p)' = ws
      BY <1>1, <2>1, <2>4 DEF Versions
    <3>2. vpc'[p] = "ts" /\ ix'[p] = n + 1
      BY <2>1
    <3> QED BY <1>2, <2>2, <2>4, <3>1, <3>2 DEF InCall, Calls
  <2>8. timestamp <= timestamp'
    BY <1>3
  <2> QED BY <2>3, <2>5, <2>6, <2>7, <2>8, StepOf
<1>5. CASE n # ix[p]
  <2>1. /\ UNCHANGED versions
        /\ vpc' = [vpc EXCEPT ![p] = "reload"] /\ ix' = [ix EXCEPT ![p] = ix[p]]
        /\ call' = [call EXCEPT ![p].kind = "failed"]
    BY <1>5 DEF Install, Look, At
  <2>2. call'[p] \in CasCalls
    BY <1>1, <2>1 DEF CasCalls
  <2>3. VcasTypes'
    <3>1. vpc' \in [Procs -> Places] /\ ix' \in [Procs -> Nat]
      BY <2>1 DEF Places
    <3>2. call' \in [Procs -> Calls \cup {NoCall}]
      BY <2>1, <2>2 DEF Calls
    <3> QED BY <1>3, <2>1, <3>1, <3>2
  <2>4. Elsewhere(p)
    BY <1>3, <2>1 DEF Elsewhere
  <2>5. InCall(p)'
    BY <2>1, <2>2 DEF InCall, Calls
  <2> QED BY <1>3, <2>1, <2>3, <2>4, <2>5, QuietStep
<1> QED BY <1>4, <1>5

LEMMA CreateInv ==
  ASSUME VcasInv, NEW p \in Procs, NEW o \in Objects, NEW v \in Values, Create(p, o, v)
  PROVE  VcasInv'
<1> DEFINE ws == <<[val |-> v, ts |-> timestamp]>>
<1> USE DEF VcasInv, VcasTypes
<1>1. /\ versions[o] = <<>> /\ versions' = [versions EXCEPT ![o] = ws]
      /\ UNCHANGED <<timestamp, vpc, call, ix, curTS, snap>>
  BY DEF Create
<1>2. ws \in Seq(Version) /\ Len(ws) = 1 /\ Ordered(ws, timestamp)
  BY CreateOrdered
<1> HIDE DEF ws
<1>3. Kept(versions[o], ws)
  BY <1>1, <1>2, EmptySeq DEF Kept
<1>4. /\ versions' \in [Objects -> Seq(Version)]
      /\ \A x \in Objects : Kept(versions[x], versions'[x]) /\ Ordered(versions'[x], timestamp')
  BY <1>1, <1>2, <1>3, OneObject
<1>5. VcasTypes' /\ Elsewhere(p) /\ timestamp <= timestamp'
  BY <1>1, <1>4 DEF Elsewhere
<1>6. InCall(p)'
  BY <1>1, <1>4, OthersInCall
<1> QED BY <1>4, <1>5, <1>6, StepOf

LEMMA SnapshotInv ==
  ASSUME VcasInv, NEW p \in Procs, SnapshotStep(p) \/ EndSnapshot(p)
  PROVE  VcasInv'
<1> USE DEF VcasInv, VcasTypes
<1>1. CASE TakeSnapshot(p)
  <2>1. VcasTypes' /\ Elsewhere(p)
    BY <1>1 DEF TakeSnapshot, At, Places, Elsewhere
  <2>2. InCall(p)'
    BY <1>1 DEF TakeSnapshot, At, InCall
  <2> QED BY <1>1, <2>1, <2>2, QuietStep DEF TakeSnapshot
<1>2. CASE ReadAgain(p)
  <2>1. VcasTypes' /\ Elsewhere(p)
    BY <1>2 DEF ReadAgain, At, Places, Elsewhere
  <2>2. InCall(p)'
    BY <1>2 DEF ReadAgain, At, InCall
  <2> QED BY <1>2, <2>1, <2>2, QuietStep DEF ReadAgain
<1>3. CASE FetchAndAdd(p)
  <2>1. VcasTypes' /\ Elsewhere(p) /\ timestamp <= timestamp'
    BY <1>3 DEF FetchAndAdd, At, Places, Elsewhere
  <2>2. InCall(p)'
    BY <1>3 DEF FetchAndAdd, At, InCall
  <2>3. ASSUME NEW o \in Objects
        PROVE  Kept(versions[o], versions'[o]) /\ Ordered(versions'[o], timestamp')
    BY <1>3, KeptSelf, OrderedLater DEF FetchAndAdd
  <2> QED BY <2>1, <2>2, <2>3, StepOf
<1>4. CASE EndSnapshot(p)
  <2>1. VcasTypes' /\ Elsewhere(p)
    BY <1>4 DEF EndSnapshot, At, Places, Elsewhere
  <2>2. InCall(p)'
    BY <1>4 DEF EndSnapshot, At, InCall
  <2> QED BY <1>4, <2>1, <2>2, QuietStep DEF EndSnapshot
<1> QED BY <1>1, <1>2, <1>3, <1>4 DEF SnapshotStep

LEMMA StepInv == VcasInv /\ [VcasNext]_vcasVars => VcasInv'
<1> SUFFICES ASSUME VcasInv, [VcasNext]_vcasVars PROVE VcasInv'
  OBVIOUS
<1>1. CASE UNCHANGED vcasVars
  <2>1. UNCHANGED <<timestamp, versions, vpc, call, ix, curTS, snap>>
    BY <1>1 DEF vcasVars
  <2>2. VcasTypes'
    BY <2>1 DEF VcasInv, VcasTypes
  <2>3. \A o \in Objects : Ordered(versions[o], timestamp)'
    BY <2>1 DEF VcasInv, Ordered
  <2>4. \A q \in Procs : InCall(q)'
    BY <2>1 DEF VcasInv, InCall, Versions
  <2> QED BY <2>2, <2>3, <2>4 DEF VcasInv
<1>2. ASSUME NEW p \in Procs, VcasStep(p) PROVE VcasInv'
  <2>1. CASE StampStep(p)
    BY <2>1, LoadClockInv, StampInv DEF StampStep
  <2>2. CASE Install(p)
    BY <2>2, InstallInv
  <2>3. CASE Reload(p)
    <3>1. call[p] \in Calls
      BY <2>3 DEF Reload, VcasInv, InCall
    <3> QED BY <2>3, <3>1, ExamineInv DEF Reload
  <2>4. CASE SnapshotStep(p) \/ EndSnapshot(p)
    BY <2>4, SnapshotInv
  <2>5. ASSUME NEW o \in Objects, BeginRead(p, o) \/ BeginReadAt(p, o) PROVE VcasInv'
    <3>1. [kind |-> "read", obj |-> o] \in Calls /\ [kind |-> "readAt", obj |-> o] \in Calls
      BY DEF Calls, ReadCalls
    <3> QED BY <2>5, <3>1, ExamineInv DEF BeginRead, BeginReadAt
  <2>6. ASSUME NEW o \in Objects, NEW v \in Values, Create(p, o, v) PROVE VcasInv'
    BY <2>6, CreateInv
  <2>7. ASSUME NEW o \in Objects, NEW old \in Values, NEW new \in Values, BeginCas(p, o, old, new)
        PROVE  VcasInv'
    <3>1. [kind |-> "cas", obj |-> o, old |-> old, new |-> new] \in Calls
      BY DEF Calls, CasCalls
    <3> QED BY <2>7, <3>1, ExamineInv DEF BeginCas
  <2> QED BY <1>2, <2>1, <2>2, <2>3, <2>4, <2>5, <2>6, <2>7 DEF VcasStep
<1> QED BY <1>1, <1>2 DEF VcasNext

\* The invariant holds throughout.
THEOREM InvHolds == VcasSpec => []VcasInv
<1> QED BY InitInv, StepInv, PTL DEF VcasSpec

\* The versions of an object are in the order of their timestamps, none is ahead of
\* the clock, and only the newest can lack one (initTS and cas_vcas of rq_vcas.h):
\* for any number of processes and objects, whatever their clients do.
THEOREM VersionsInOrder == VcasSpec => []VersionsOrdered
<1> QED BY InvHolds, InvGivesOrder, PTL
-----------------------------------------------------------------------------
(***************************************************************************)
(* The past.  What an object was at time t is given by its versions; it is *)
(* settled when t is over and no version that has no timestamp yet, of now *)
(* or of later, can get one up to t.                                       *)
(***************************************************************************)

\* PastIsFixed, for one object and one time.
Fixed(o, t) == Settled(o, t) => Settled(o, t)' /\ ValueAsOf(o, t)' = ValueAsOf(o, t)

\* Nobody gets to the point of stamping with the clock of the past.
LEMMA FixedQuiet ==
  ASSUME VcasInv, NEW p \in Procs, NEW o \in Objects, NEW t \in Nat, Settled(o, t),
         Elsewhere(p), timestamp' \in Nat, timestamp <= timestamp',
         versions'[o] = versions[o],
         vpc'[p] = "stamp" => curTS'[p] > t
  PROVE  Settled(o, t)' /\ ValueAsOf(o, t)' = ValueAsOf(o, t)
<1> USE DEF VcasInv, VcasTypes
<1>1. t < timestamp'
  BY DEF Settled
<1>2. ValueAsOf(o, t)' = ValueAsOf(o, t)
  BY DEF ValueAsOf
<1>3. Stamped(versions'[o]) = Stamped(versions[o]) /\ Len(versions'[o]) = Len(versions[o])
  OBVIOUS
<1>4. ASSUME Stamped(versions[o]) # Len(versions[o]), NEW q \in Procs,
             vpc'[q] = "stamp", call'[q].obj = o, ix'[q] = Len(versions[o])
      PROVE  t < curTS'[q]
  <2>1. CASE q = p
    BY <1>4, <2>1
  <2>2. CASE q # p
    BY <1>4, <2>2 DEF Elsewhere, Settled
  <2> QED BY <2>1, <2>2
<1> QED BY <1>1, <1>2, <1>3, <1>4 DEF Settled

\* A process that loads the clock, loads a time later than t.
LEMMA FixedLoadClock ==
  ASSUME VcasInv, NEW p \in Procs, NEW o \in Objects, NEW t \in Nat, Settled(o, t),
         LoadClock(p)
  PROVE  Settled(o, t)' /\ ValueAsOf(o, t)' = ValueAsOf(o, t)
<1> USE DEF VcasInv, VcasTypes
<1>1. /\ call[p] \in Calls /\ ix[p] \in Nat
      /\ UNCHANGED <<timestamp, versions, call, snap>>
  BY DEF LoadClock, InCall
<1>2. t < timestamp
  BY DEF Settled
<1>3. CASE versions[call[p].obj][ix[p]].ts # TBD
  <2>1. Proceed(p, call[p], ix[p], versions[call[p].obj]) /\ UNCHANGED curTS
    BY <1>3 DEF LoadClock
  <2>2. PICK l \in {"done", "install"}, k \in Nat :
          vpc' = [vpc EXCEPT ![p] = l] /\ ix' = [ix EXCEPT ![p] = k]
    BY <1>1, <2>1, ProceedMoves
  <2>3. Elsewhere(p) /\ vpc'[p] # "stamp"
    BY <1>1, <2>1, <2>2 DEF Elsewhere
  <2> QED BY <1>1, <2>3, FixedQuiet
<1>4. CASE versions[call[p].obj][ix[p]].ts = TBD
  <2>1. /\ vpc' = [vpc EXCEPT ![p] = "stamp"] /\ ix' = [ix EXCEPT ![p] = ix[p]]
        /\ curTS' = [curTS EXCEPT ![p] = timestamp]
    BY <1>4 DEF LoadClock, Look, At
  <2>2. Elsewhere(p) /\ curTS'[p] > t
    BY <1>1, <1>2, <2>1 DEF Elsewhere
  <2> QED BY <1>1, <2>2, FixedQuiet
<1> QED BY <1>3, <1>4

\* Two versions with the same value and timestamp are equal.
LEMMA SameVersion ==
  ASSUME NEW v \in Version, NEW w \in Version, v.val = w.val, v.ts = w.ts
  PROVE  v = w
<1>1. v = [val |-> v.val, ts |-> v.ts]
  BY DEF Version
<1>2. w = [val |-> w.val, ts |-> w.ts]
  BY DEF Version
<1> QED BY <1>1, <1>2

\* The stamp of the newest version is later than t.
LEMMA FixedStamp ==
  ASSUME VcasInv, NEW p \in Procs, NEW o \in Objects, NEW t \in Nat, Settled(o, t),
         Stamp(p)
  PROVE  Settled(o, t)' /\ ValueAsOf(o, t)' = ValueAsOf(o, t)
<1> DEFINE vs == Versions(p)
           ws == [vs EXCEPT ![ix[p]].ts = IF @ = TBD THEN curTS[p] ELSE @]
           i == ix[p]
<1>1. vpc[p] = "stamp"
  BY DEF Stamp
<1>2. /\ call[p] \in Calls /\ call[p].obj \in Objects
      /\ vs \in Seq(Version) /\ i \in 1 .. Len(vs)
      /\ ws \in Seq(Version) /\ Len(ws) = Len(vs)
      /\ ws[i].ts # TBD
  BY <1>1, StampVersions
<1>3. \A j \in 1 .. Len(vs) :
        /\ ws[j].val = vs[j].val
        /\ ws[j].ts = IF j = i /\ vs[j].ts = TBD THEN curTS[p] ELSE vs[j].ts
  <2>1. curTS[p] \in Nat
    BY DEF VcasInv, VcasTypes
  <2> QED BY <1>2, <2>1, StampSeq
<1>4. /\ versions' = [versions EXCEPT ![call[p].obj] = ws]
      /\ curTS' = [curTS EXCEPT ![p] = 0]
      /\ Proceed(p, call[p], i, ws)
      /\ UNCHANGED <<timestamp, call, snap>>
  BY DEF Stamp, Versions
<1>5. vs = versions[call[p].obj]
  BY DEF Versions
<1> HIDE DEF vs, ws
<1> USE DEF VcasInv, VcasTypes
<1>6. PICK l \in {"done", "install"}, k \in Nat :
        vpc' = [vpc EXCEPT ![p] = l] /\ ix' = [ix EXCEPT ![p] = k]
  BY <1>2, <1>4, ProceedMoves
<1>7. Elsewhere(p) /\ vpc'[p] # "stamp" /\ timestamp' = timestamp
  BY <1>4, <1>6 DEF Elsewhere
<1>8. CASE call[p].obj # o
  <2>1. versions'[o] = versions[o]
    BY <1>2, <1>4, <1>8
  <2> QED BY <1>7, <2>1, FixedQuiet
<1>9. CASE call[p].obj = o /\ vs[i].ts # TBD
  <2>1. ws = vs
    <3>1. ASSUME NEW j \in 1 .. Len(vs) PROVE ws[j] = vs[j]
      <4>1. vs[j] \in Version /\ ws[j] \in Version
        BY <1>2, ElementOfSeq
      <4>2. ws[j].val = vs[j].val /\ ws[j].ts = vs[j].ts
        BY <1>3, <1>9
      <4> QED BY <4>1, <4>2, SameVersion
    <3> QED BY <1>2, <3>1, SeqEqual
  <2>2. versions'[o] = versions[o]
    BY <1>2, <1>4, <1>5, <1>9, <2>1
  <2> QED BY <1>7, <2>2, FixedQuiet
<1>10. CASE call[p].obj = o /\ vs[i].ts = TBD
  <2>1. i = Len(vs) /\ Len(vs) \in Nat /\ i \in Nat
    BY <1>2, <1>5, <1>10 DEF Ordered
  <2>2. /\ versions[o] = vs /\ versions'[o] = ws
    BY <1>2, <1>4, <1>5, <1>10
  <2>3. vs # <<>> /\ ws # <<>>
    BY <1>2
  <2>4. Stamped(vs) = Len(vs) - 1 /\ Stamped(ws) = Len(ws)
    BY <1>2, <1>10, <2>1, <2>3 DEF Stamped
  <2>5. t < curTS[p] /\ t < timestamp
    BY <1>1, <1>10, <2>1, <2>2, <2>4 DEF Settled
  <2>6. Settled(o, t)'
    BY <1>7, <2>2, <2>4, <2>5 DEF Settled
  <2>7. AnswerAt(ws, Len(ws), t) = AnswerAt(vs, Len(vs) - 1, t)
    <3>1. ws[i].ts = curTS[p] /\ curTS[p] \in Nat
      BY <1>2, <1>3, <1>10
    <3>2. \A j \in 1 .. Len(vs) : j # Len(vs) => ws[j].ts = vs[j].ts /\ ws[j].val = vs[j].val
      BY <1>3, <2>1
    <3>3. Len(ws) = Len(vs) /\ Len(vs) \in Nat \ {0} /\ ~(ws[Len(vs)].ts <= t)
      BY <1>2, <2>1, <2>5, <3>1
    <3> HIDE DEF VcasInv, VcasTypes
    <3> QED BY <3>2, <3>3, LaterVersion
  <2>8. ValueAsOf(o, t)' = ValueAsOf(o, t)
    BY <2>2, <2>4, <2>7 DEF ValueAsOf
  <2> QED BY <2>6, <2>8
<1> QED BY <1>8, <1>9, <1>10

\* A version that is put in place gets its timestamp from a clock not read yet.
LEMMA FixedInstall ==
  ASSUME VcasInv, NEW p \in Procs, NEW o \in Objects, NEW t \in Nat, Settled(o, t),
         Install(p)
  PROVE  Settled(o, t)' /\ ValueAsOf(o, t)' = ValueAsOf(o, t)
<1> DEFINE vs == Versions(p)
           n == Len(vs)
           ws == Append(vs, [val |-> call[p].new, ts |-> TBD])
<1> USE DEF VcasInv, VcasTypes
<1>1. /\ call[p] \in CasCalls /\ call[p].obj \in Objects /\ call[p].new \in Values
      /\ ix[p] \in 1 .. n /\ vs[ix[p]].ts # TBD
  BY CallsHaveObjects DEF Install, InCall, CasCalls, Calls
<1>2. /\ vs \in Seq(Version) /\ n \in Nat /\ Ordered(vs, timestamp) /\ vs # <<>>
      /\ vs = versions[call[p].obj]
  BY <1>1 DEF Versions
<1>3. UNCHANGED <<timestamp, curTS>>
  BY DEF Install
<1>4. CASE n # ix[p]
  <2>1. /\ UNCHANGED versions
        /\ vpc' = [vpc EXCEPT ![p] = "reload"] /\ ix' = [ix EXCEPT ![p] = ix[p]]
        /\ call' = [call EXCEPT ![p].kind = "failed"]
    BY <1>2, <1>4 DEF Install, Look, At
  <2>2. Elsewhere(p) /\ vpc'[p] # "stamp"
    BY <1>3, <2>1 DEF Elsewhere
  <2> QED BY <1>3, <2>1, <2>2, FixedQuiet
<1>5. CASE n = ix[p]
  <2>1. /\ versions' = [versions EXCEPT ![call[p].obj] = ws]
        /\ vpc' = [vpc EXCEPT ![p] = "ts"] /\ ix' = [ix EXCEPT ![p] = n + 1]
        /\ call' = [call EXCEPT ![p].kind = "stored"]
    BY <1>2, <1>5 DEF Install, Look, At
  <2>2. Elsewhere(p) /\ vpc'[p] = "ts"
    BY <1>3, <2>1 DEF Elsewhere
  <2>3. CASE call[p].obj # o
    <3>1. versions'[o] = versions[o]
      BY <1>1, <2>1, <2>3
    <3> QED BY <1>3, <2>2, <3>1, FixedQuiet
  <2>4. CASE call[p].obj = o
    <3>1. /\ ws \in Seq(Version) /\ Len(ws) = n + 1 /\ ws[n + 1].ts = TBD
          /\ \A j \in 1 .. n : ws[j] = vs[j]
      <4>1. /\ ws \in Seq(Version) /\ Len(ws) = Len(vs) + 1 /\ ws[Len(vs) + 1].ts = TBD
        BY <1>1, <1>2, <1>5, InstallOrdered
      <4>2. [val |-> call[p].new, ts |-> TBD] \in Version
        BY <1>1 DEF Version
      <4>3. \A j \in 1 .. Len(vs) : ws[j] = vs[j]
        BY <1>2, <4>2, AppendProperties
      <4> QED BY <4>1, <4>3
    <3> HIDE DEF ws
    <3>2. versions[o] = vs /\ versions'[o] = ws
      BY <1>1, <1>2, <2>1, <2>4
    <3>3. Stamped(vs) = n /\ Stamped(ws) = n
      <4>1. ws # <<>>
        BY <1>2, <3>1
      <4> QED BY <1>1, <1>2, <1>5, <3>1, <4>1 DEF Stamped
    <3>4. AnswerAt(ws, n, t) = AnswerAt(vs, n, t)
      <4>1. \A j \in 1 .. n : ws[j].ts = vs[j].ts /\ ws[j].val = vs[j].val
        BY <3>1
      <4> HIDE DEF n, vs, VcasInv, VcasTypes
      <4> QED BY <1>2, <4>1, AnswerOfSame
    <3>5. ASSUME NEW q \in Procs, vpc'[q] = "stamp", call'[q].obj = o, ix'[q] = Len(ws)
          PROVE  FALSE
      <4>1. q # p
        BY <2>2, <3>5
      <4>2. vpc[q] = "stamp" /\ call[q].obj = o /\ ix[q] = n + 1
        BY <2>2, <3>1, <3>5, <4>1 DEF Elsewhere
      <4>3. ix[q] \in 1 .. Len(versions[o])
        BY <4>2 DEF InCall, Versions
      <4> QED BY <1>2, <3>2, <4>2, <4>3
    <3>6. t < timestamp'
      BY <1>3 DEF Settled
    <3> QED BY <3>2, <3>3, <3>4, <3>5, <3>6 DEF Settled, ValueAsOf
  <2> QED BY <2>3, <2>4
<1> QED BY <1>4, <1>5

\* A new object was not there at time t.
LEMMA FixedCreate ==
  ASSUME VcasInv, NEW p \in Procs, NEW o \in Objects, NEW t \in Nat, Settled(o, t),
         NEW x \in Objects, NEW v \in Values, Create(p, x, v)
  PROVE  Settled(o, t)' /\ ValueAsOf(o, t)' = ValueAsOf(o, t)
<1> DEFINE ws == <<[val |-> v, ts |-> timestamp]>>
<1> USE DEF VcasInv, VcasTypes
<1>1. /\ versions[x] = <<>> /\ versions' = [versions EXCEPT ![x] = ws]
      /\ UNCHANGED <<timestamp, vpc, call, ix, curTS, snap>>
  BY DEF Create
<1>2. ws \in Seq(Version) /\ Len(ws) = 1 /\ ws[1].ts = timestamp
  BY CreateOrdered
<1> HIDE DEF ws
<1>3. t < timestamp
  BY DEF Settled
<1>4. CASE x = o
  <2>1. versions[o] = <<>> /\ versions'[o] = ws
    BY <1>1, <1>4
  <2>2. Stamped(versions[o]) = 0 /\ Stamped(ws) = 1 /\ Len(ws) = 1
    BY <1>2, <2>1 DEF Stamped, TBD
  <2>3. AnswerAt(ws, 1, t) = AnswerAt(versions[o], 1 - 1, t)
    <3>1. \A j \in 1 .. 1 : j # 1 => ws[j].ts = versions[o][j].ts /\ ws[j].val = versions[o][j].val
      OBVIOUS
    <3>2. ~(ws[1].ts <= t)
      BY <1>2, <1>3
    <3>3. 1 \in Nat \ {0}
      OBVIOUS
    <3> HIDE DEF VcasInv, VcasTypes
    <3> QED BY <3>1, <3>2, <3>3, LaterVersion
  <2>4. ValueAsOf(o, t)' = ValueAsOf(o, t)
    <3>1. AnswerAt(ws, 1, t) = AnswerAt(versions[o], 0, t)
      BY <2>3
    <3>2. ValueAsOf(o, t)' = AnswerAt(ws, 1, t)
      BY <2>1, <2>2 DEF ValueAsOf
    <3>3. ValueAsOf(o, t) = AnswerAt(versions[o], 0, t)
      BY <2>2 DEF ValueAsOf
    <3> QED BY <3>1, <3>2, <3>3
  <2>5. Settled(o, t)'
    BY <1>1, <1>3, <2>1, <2>2 DEF Settled
  <2> QED BY <2>4, <2>5
<1>5. CASE x # o
  <2>1. versions'[o] = versions[o]
    BY <1>1, <1>5
  <2>2. Elsewhere(p) /\ (vpc'[p] = "stamp" => curTS'[p] > t)
    BY <1>1 DEF Elsewhere, Settled, Create, Idle
  <2> QED BY <1>1, <2>1, <2>2, FixedQuiet
<1> QED BY <1>4, <1>5

\* A call that begins or begins again leads to no stamp yet.
LEMMA FixedExamine ==
  ASSUME VcasInv, NEW p \in Procs, NEW o \in Objects, NEW t \in Nat, Settled(o, t),
         NEW c \in Calls, Examine(p, c)
  PROVE  Settled(o, t)' /\ ValueAsOf(o, t)' = ValueAsOf(o, t)
<1> DEFINE vs == versions[c.obj]
<1> USE DEF VcasInv, VcasTypes
<1>1. vs \in Seq(Version) /\ Len(vs) \in Nat
  BY CallsHaveObjects
<1>2. call' = [call EXCEPT ![p] = c] /\ UNCHANGED <<timestamp, versions, curTS>>
  BY DEF Examine
<1>3. PICK l \in {"ts", "done", "install"}, k \in Nat :
        vpc' = [vpc EXCEPT ![p] = l] /\ ix' = [ix EXCEPT ![p] = k]
  <2>1. CASE vs[Len(vs)].ts = TBD
    BY <1>1, <2>1 DEF Examine, Look, At
  <2>2. CASE vs[Len(vs)].ts # TBD
    <3>1. Proceed(p, c, Len(vs), vs)
      BY <2>2 DEF Examine
    <3> QED BY <1>1, <3>1, ProceedMoves
  <2> QED BY <2>1, <2>2
<1>4. Elsewhere(p) /\ vpc'[p] # "stamp"
  BY <1>2, <1>3 DEF Elsewhere
<1> QED BY <1>2, <1>4, FixedQuiet

LEMMA FixedSnapshot ==
  ASSUME VcasInv, NEW p \in Procs, NEW o \in Objects, NEW t \in Nat, Settled(o, t),
         SnapshotStep(p) \/ EndSnapshot(p)
  PROVE  Settled(o, t)' /\ ValueAsOf(o, t)' = ValueAsOf(o, t)
<1> USE DEF VcasInv, VcasTypes
<1>1. /\ timestamp' \in Nat /\ timestamp <= timestamp'
      /\ UNCHANGED <<versions, ix, curTS>>
  BY DEF SnapshotStep, TakeSnapshot, ReadAgain, FetchAndAdd, EndSnapshot
<1>2. /\ \E l \in {"again", "advance", "idle"} : vpc' = [vpc EXCEPT ![p] = l]
      /\ call' = call \/ call' = [call EXCEPT ![p] = NoCall]
  BY DEF SnapshotStep, TakeSnapshot, ReadAgain, FetchAndAdd, EndSnapshot, At
<1>3. Elsewhere(p) /\ vpc'[p] # "stamp"
  BY <1>1, <1>2 DEF Elsewhere
<1> QED BY <1>1, <1>3, FixedQuiet

LEMMA StepKeepsPast ==
  ASSUME VcasInv, NEW p \in Procs, VcasStep(p),
         NEW o \in Objects, NEW t \in Nat, Settled(o, t)
  PROVE  Settled(o, t)' /\ ValueAsOf(o, t)' = ValueAsOf(o, t)
<1>1. CASE StampStep(p)
  BY <1>1, FixedLoadClock, FixedStamp DEF StampStep
<1>2. CASE Install(p)
  BY <1>2, FixedInstall
<1>3. CASE Reload(p)
  <2>1. call[p] \in Calls
    BY <1>3 DEF Reload, VcasInv, InCall
  <2> QED BY <1>3, <2>1, FixedExamine DEF Reload
<1>4. CASE SnapshotStep(p) \/ EndSnapshot(p)
  BY <1>4, FixedSnapshot
<1>5. ASSUME NEW x \in Objects, BeginRead(p, x) \/ BeginReadAt(p, x)
      PROVE  Settled(o, t)' /\ ValueAsOf(o, t)' = ValueAsOf(o, t)
  <2>1. [kind |-> "read", obj |-> x] \in Calls /\ [kind |-> "readAt", obj |-> x] \in Calls
    BY DEF Calls, ReadCalls
  <2> QED BY <1>5, <2>1, FixedExamine DEF BeginRead, BeginReadAt
<1>6. ASSUME NEW x \in Objects, NEW v \in Values, Create(p, x, v)
      PROVE  Settled(o, t)' /\ ValueAsOf(o, t)' = ValueAsOf(o, t)
  BY <1>6, FixedCreate
<1>7. ASSUME NEW x \in Objects, NEW old \in Values, NEW new \in Values, BeginCas(p, x, old, new)
      PROVE  Settled(o, t)' /\ ValueAsOf(o, t)' = ValueAsOf(o, t)
  <2>1. [kind |-> "cas", obj |-> x, old |-> old, new |-> new] \in Calls
    BY DEF Calls, CasCalls
  <2> QED BY <1>7, <2>1, FixedExamine DEF BeginCas
<1> QED BY <1>1, <1>2, <1>3, <1>4, <1>5, <1>6, <1>7 DEF VcasStep

\* Once an object is settled at a time that is over, no step of anyone changes what
\* it was then (initTS, cas_vcas and traversal_start of rq_vcas.h): all queries of one
\* timestamp see one state, however many processes race to stamp its versions.
THEOREM PastStaysFixed == VcasSpec => PastIsFixed
<1> DEFINE Past == \A o \in Objects : \A t \in 0 .. timestamp :
                     Settled(o, t) => Settled(o, t)' /\ ValueAsOf(o, t)' = ValueAsOf(o, t)
<1>1. ASSUME VcasInv, [VcasNext]_vcasVars PROVE [Past]_vcasVars
  <2> SUFFICES ASSUME vcasVars' # vcasVars, NEW o \in Objects, NEW t \in 0 .. timestamp,
                      Settled(o, t)
               PROVE  Settled(o, t)' /\ ValueAsOf(o, t)' = ValueAsOf(o, t)
    OBVIOUS
  <2>1. PICK p \in Procs : VcasStep(p)
    BY <1>1 DEF VcasNext
  <2>2. t \in Nat
    BY <1>1 DEF VcasInv, VcasTypes
  <2> QED BY <1>1, <2>1, <2>2, StepKeepsPast
<1>2. VcasInv /\ [VcasNext]_vcasVars => [Past]_vcasVars
  BY <1>1
<1> QED BY <1>2, InvHolds, PTL DEF VcasSpec, PastIsFixed
=============================================================================
