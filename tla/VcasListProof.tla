--------------------------- MODULE VcasListProof ----------------------------
(***************************************************************************)
(* Proofs about the lazy list on versioned fields, for any number of       *)
(* processes, nodes and keys and any sequence of calls.                    *)
(***************************************************************************)
EXTENDS VcasProof, VcasList

(***************************************************************************)
(* The inductive invariant.                                                *)
(***************************************************************************)
ChangePCs == {"validate", "change", "new", "link", "unlink", "last", "unlockCurr"}
HoldPCs == ChangePCs \cup {"lockCurr", "unlockPred"}
LPCs == HoldPCs \cup {"idle", "search", "mark", "lockPred", "start", "query", "add"}

\* The object has a version since time t, or earlier.
Born(o, t) == versions[o] # <<>> /\ versions[o][1].ts # TBD /\ versions[o][1].ts <= t

\* A value of a link, as of t: a node in use that was made by then.
Leads(m, t) == m \in alloc /\ Born(Next(m), t)

ListVarTypes ==
  /\ key \in [Nodes -> Int] /\ key[MaxNode] = InitKey[MaxNode]
  /\ lock \in [Nodes -> Procs \cup {NoProc}]
  /\ alloc \subseteq Nodes /\ HeadNode \in alloc /\ MaxNode \in alloc
  /\ lpc \in [Procs -> LPCs]
  /\ todo \in [Procs -> Seq(Operation)]
  /\ op \in [Procs -> Operation \cup {[type |-> "none"]}]
  /\ pred \in [Procs -> Nodes] /\ curr \in [Procs -> Nodes] /\ newnode \in [Procs -> Nodes]

ListForm ==
  /\ ListVarTypes
  /\ \A n \in Nodes \ alloc : versions[Next(n)] = <<>> /\ versions[Marked(n)] = <<>>
  /\ out = [p \in Procs |-> out[p]]
  /\ InitTime <= timestamp
  /\ Born(Next(HeadNode), InitTime) /\ Born(Marked(HeadNode), InitTime)

\* Every link leads to a node made before the version was stamped, and before its
\* stamp was loaded.
ListLinks ==
  \A n \in Nodes \ {MaxNode} : \A i \in 1 .. Len(versions[Next(n)]) :
     LET v == versions[Next(n)][i]
     IN  /\ Leads(v.val, IF v.ts = TBD THEN timestamp ELSE v.ts)
         /\ \A p \in Procs : vpc[p] = "stamp" /\ call[p].obj = Next(n) /\ ix[p] = i /\ v.ts = TBD
                               => Born(Next(v.val), curTS[p])

\* A version without a timestamp is its writer's.
OwnerStamps ==
  \A o \in Objects : versions[o] # <<>> /\ versions[o][Len(versions[o])].ts = TBD =>
     \E q \in Procs : vpc[q] \in {"ts", "stamp"} /\ call[q].kind = "stored" /\ call[q].obj = o

\* The call of the provider that p is in.
Reads(p, k, o) ==
  /\ vpc[p] \in {"ts", "stamp", "done"}
  /\ call[p] = [kind |-> k, obj |-> o]

Swaps(p, o) ==
  /\ call[p] \in CasCalls /\ call[p].obj = o
  /\ \/ call[p].kind = "cas" /\ vpc[p] = "install" /\ ix[p] = Len(versions[o])
     \/ call[p].kind = "stored" /\ vpc[p] \in {"ts", "stamp"} /\ ix[p] = Len(versions[o])
     \/ vpc[p] = "done"

CallPlace(p) ==
  /\ lpc[p] \in {"idle", "lockPred"} \cup (HoldPCs \ {"unlink", "last"}) => vpc[p] = "idle"
  /\ lpc[p] = "search" => vpc[p] = "idle" \/ Reads(p, "read", Next(curr[p]))
  /\ lpc[p] = "mark" => vpc[p] = "idle" \/ Reads(p, "read", Marked(curr[p]))
  /\ lpc[p] = "unlink" => Swaps(p, Marked(curr[p]))
  /\ lpc[p] = "last" => Swaps(p, Next(pred[p]))
  /\ lpc[p] = "start" => vpc[p] \in {"idle", "again", "advance"}
  /\ lpc[p] = "query" => Reads(p, "readAt", Next(curr[p]))
  /\ lpc[p] = "add" => Reads(p, "readAt", Marked(HeadNode))

HoldsLocks(p) ==
  /\ lpc[p] \in HoldPCs => lock[pred[p]] = p
  /\ lpc[p] \in ChangePCs => lock[curr[p]] = p /\ pred[p] # curr[p]

\* Where p stands, and what it has read.
Stands(p) ==
  /\ lpc[p] # "idle" => op[p] \in Operation
  /\ Leads(curr[p], timestamp) /\ pred[p] \in alloc
  /\ lpc[p] \in {"idle", "start"} => curr[p] = HeadNode
  /\ lpc[p] \in {"search", "query", "add"} => curr[p] # MaxNode
  /\ lpc[p] = "search" /\ vpc[p] = "done" => Leads(out[p], timestamp)
  /\ lpc[p] \in {"lockPred"} \cup HoldPCs /\ op[p].type = "erase" => key[curr[p]] = op[p].lo
  /\ lpc[p] = "unlink" => op[p].type = "erase"
  /\ lpc[p] = "new" => newnode[p] \in alloc
  /\ lpc[p] = "link" => Leads(newnode[p], timestamp)
  /\ lpc[p] = "last" => Leads(call[p].new, timestamp)

Queries(p) ==
  /\ snap[p] # NoTS => InitTime <= snap[p] /\ snap[p] <= timestamp
  /\ lpc[p] \in {"query", "add"} => snap[p] # NoTS /\ Leads(curr[p], snap[p])
  /\ lpc[p] = "query" /\ vpc[p] = "done" => Leads(out[p], snap[p])
  /\ lpc[p] = "add" /\ vpc[p] = "done" => out[p] # NoVal

Own(p) == CallPlace(p) /\ HoldsLocks(p) /\ Stands(p) /\ Queries(p)

VLInv == ListForm /\ ListLinks /\ OwnerStamps /\ \A p \in Procs : Own(p)

-----------------------------------------------------------------------------
(***************************************************************************)
(* Constants.                                                              *)
(***************************************************************************)
LEMMA Fields ==
  /\ \A n \in Nodes : Next(n) \in Objects /\ Marked(n) \in Objects
  /\ \A n, m \in Nodes : Next(n) # Marked(m)
  /\ \A n, m \in Nodes : (Next(n) = Next(m) => n = m) /\ (Marked(n) = Marked(m) => n = m)
  /\ \A o \in Objects : \E n \in Nodes : o = Next(n) \/ o = Marked(n)
BY VcasListAssumption DEF Next, Marked

LEMMA Basics ==
  /\ Nodes \subseteq Values /\ 0 \in Values /\ 1 \in Values /\ NoVal \notin Values
  /\ Clients = Procs /\ NoProc \notin Procs
  /\ HeadNode \in Nodes /\ MaxNode \in Nodes /\ HeadNode # MaxNode
BY VcasListAssumption, VcasStartAssumption, VcasAssumption, VcasKeysAssumption

LEMMA KeysBelowMax ==
  ASSUME ListForm, NEW c \in Operation
  PROVE  c.lo \in Int /\ c.hi \in Int /\ c.lo < key[MaxNode] /\ c.hi < key[MaxNode]
         /\ c.type \in OpTypes
<1>1. c.lo \in SetKeys /\ c.hi \in SetKeys /\ c.type \in OpTypes
  BY DEF Operation
<1> QED BY <1>1, VcasKeysAssumption DEF ListVarTypes, ListForm

LEMMA SomeVersion ==
  ASSUME VcasTypes, NEW o \in Objects
  PROVE  /\ versions[o] \in Seq(Version) /\ Len(versions[o]) \in Nat
         /\ \A i \in 1 .. Len(versions[o]) : versions[o][i] \in Version
         /\ versions[o] # <<>> <=> Len(versions[o]) # 0
         /\ versions[o] # <<>> => /\ 1 \in 1 .. Len(versions[o])
                                  /\ Len(versions[o]) \in 1 .. Len(versions[o])
<1>1. versions[o] \in Seq(Version)
  BY DEF VcasTypes
<1>2. Len(versions[o]) \in Nat /\ \A i \in 1 .. Len(versions[o]) : versions[o][i] \in Version
  BY <1>1, LenProperties, ElementOfSeq
<1>3. versions[o] # <<>> <=> Len(versions[o]) # 0
  BY <1>1, EmptySeq
<1> QED BY <1>1, <1>2, <1>3

-----------------------------------------------------------------------------
(***************************************************************************)
(* What grows.                                                             *)
(***************************************************************************)
LEMMA BornLater ==
  ASSUME NEW o, NEW s \in Int, NEW t \in Int, Born(o, s), s <= t, VcasTypes, o \in Objects
  PROVE  Born(o, t)
<1>1. versions[o][1] \in Version
  BY SomeVersion DEF Born
<1>2. versions[o][1].ts \in Int
  BY <1>1 DEF Version, TBD
<1> QED BY <1>2 DEF Born

\* Versions are kept, by every step of the provider.
Grown == \A o \in Objects : Kept(versions[o], versions'[o])

LEMMA BornStays ==
  ASSUME VcasTypes, VcasTypes', Grown, NEW o \in Objects, NEW t, Born(o, t)
  PROVE  versions'[o] # <<>> /\ versions'[o][1].ts # TBD /\ versions'[o][1].ts <= t
<1>1. 1 \in 1 .. Len(versions[o]) /\ Len(versions[o]) <= Len(versions'[o])
  BY SomeVersion DEF Born, Grown, Kept
<1>2. versions'[o][1].ts = versions[o][1].ts
  BY <1>1 DEF Born, Grown, Kept
<1>3. versions'[o] # <<>>
  <2>1. versions'[o] \in Seq(Version) /\ Len(versions'[o]) \in Nat /\ Len(versions[o]) \in Nat
    BY SomeVersion DEF VcasTypes
  <2> QED BY <1>1, <2>1, EmptySeq
<1> QED BY <1>2, <1>3 DEF Born

LEMMA LeadsLater ==
  ASSUME ListForm, VcasTypes, NEW m, NEW s \in Int, NEW t \in Int, Leads(m, s), s <= t
  PROVE  Leads(m, t)
<1>1. Next(m) \in Objects
  BY Fields DEF Leads, ListForm, ListVarTypes
<1> QED BY <1>1, BornLater DEF Leads

-----------------------------------------------------------------------------
(***************************************************************************)
(* The provider under the list: what a step of it does to the versions.    *)
(***************************************************************************)
LEMMA StampGrows ==
  ASSUME VcasInv, NEW p \in Procs, Stamp(p)
  PROVE  LET o == call[p].obj IN
         /\ o \in Objects /\ ix[p] \in 1 .. Len(versions[o]) /\ Grown
         /\ \A x \in Objects : Len(versions'[x]) = Len(versions[x])
         /\ \A x \in Objects : x # o => versions'[x] = versions[x]
         /\ \A j \in 1 .. Len(versions[o]) :
              /\ versions'[o][j].val = versions[o][j].val
              /\ versions'[o][j].ts = IF j = ix[p] /\ versions[o][j].ts = TBD THEN curTS[p]
                                      ELSE versions[o][j].ts
<1> DEFINE o == call[p].obj
           vs == versions[o]
           ws == [vs EXCEPT ![ix[p]].ts = IF @ = TBD THEN curTS[p] ELSE @]
<1>1. vpc[p] = "stamp" /\ versions' = [versions EXCEPT ![o] = ws]
  BY DEF Stamp
<1>2. /\ call[p] \in Calls /\ o \in Objects /\ vs \in Seq(Version) /\ ix[p] \in 1 .. Len(vs)
      /\ Len(ws) = Len(vs) /\ Kept(vs, ws)
  BY <1>1, StampVersions DEF Versions
<1>3. versions \in [Objects -> Seq(Version)] /\ curTS[p] \in Nat
  BY DEF VcasInv, VcasTypes
<1>4. \A j \in 1 .. Len(vs) :
        /\ ws[j].val = vs[j].val
        /\ ws[j].ts = IF j = ix[p] /\ vs[j].ts = TBD THEN curTS[p] ELSE vs[j].ts
  BY <1>2, <1>3, StampSeq
<1>5. Grown
  <2>1. ASSUME NEW x \in Objects PROVE Kept(versions[x], versions'[x])
    <3>1. CASE x = o
      BY <1>1, <1>2, <1>3, <3>1
    <3>2. CASE x # o
      BY <1>1, <1>3, <3>2, KeptSelf
    <3> QED BY <3>1, <3>2
  <2> QED BY <2>1 DEF Grown
<1>6. versions'[o] = ws /\ \A x \in Objects : x # o => versions'[x] = versions[x]
  BY <1>1, <1>2, <1>3
<1>7. \A x \in Objects : Len(versions'[x]) = Len(versions[x])
  BY <1>2, <1>6
<1> HIDE DEF ws
<1> QED BY <1>2, <1>4, <1>5, <1>6, <1>7

LEMMA InstallGrows ==
  ASSUME VcasInv, NEW p \in Procs, Install(p)
  PROVE  LET o == call[p].obj
             n == Len(versions[o])
         IN
         /\ o \in Objects /\ n \in Nat /\ n # 0 /\ call[p] \in CasCalls /\ Grown
         /\ \A x \in Objects : x # o => versions'[x] = versions[x]
         /\ ix[p] # n => versions' = versions
         /\ ix[p] = n => /\ Len(versions'[o]) = n + 1
                         /\ versions'[o][n + 1] = [val |-> call[p].new, ts |-> TBD]
                         /\ \A i \in 1 .. n : versions'[o][i] = versions[o][i]
<1> DEFINE o == call[p].obj
           vs == versions[o]
           n == Len(vs)
           e == [val |-> call[p].new, ts |-> TBD]
           ws == Append(vs, e)
<1>1. /\ call[p] \in CasCalls /\ o \in Objects /\ call[p].new \in Values
      /\ ix[p] \in 1 .. n /\ vs[ix[p]].ts # TBD
  BY CallsHaveObjects DEF Install, InCall, Versions, CasCalls, Calls, VcasInv
<1>2. vs \in Seq(Version) /\ n \in Nat /\ n # 0 /\ Ordered(vs, timestamp) /\ vs # <<>>
  BY <1>1, SomeVersion DEF VcasInv
<1>3. versions \in [Objects -> Seq(Version)] /\ timestamp \in Nat
  BY DEF VcasInv, VcasTypes
<1>4. CASE n = ix[p]
  <2>1. versions' = [versions EXCEPT ![o] = ws]
    BY <1>4 DEF Install
  <2>2. Len(ws) = n + 1 /\ Kept(vs, ws)
    BY <1>1, <1>2, <1>3, <1>4, InstallOrdered
  <2>3. e \in Version
    BY <1>1 DEF Version
  <2> HIDE DEF e
  <2>4. ws[n + 1] = e /\ \A i \in 1 .. n : ws[i] = vs[i]
    BY <1>2, <2>3, AppendProperties
  <2> HIDE DEF ws
  <2>5. versions'[o] = ws /\ \A x \in Objects : x # o => versions'[x] = versions[x]
    BY <1>1, <1>3, <2>1
  <2>6. Grown
    <3>1. ASSUME NEW x \in Objects PROVE Kept(versions[x], versions'[x])
      <4>1. CASE x = o
        BY <2>2, <2>5, <4>1
      <4>2. CASE x # o
        BY <1>3, <2>5, <4>2, KeptSelf
      <4> QED BY <4>1, <4>2
    <3> QED BY <3>1 DEF Grown
  <2> QED BY <1>1, <1>2, <1>4, <2>2, <2>4, <2>5, <2>6 DEF e
<1>5. CASE n # ix[p]
  <2>1. versions' = versions
    BY <1>5 DEF Install
  <2>2. Grown
    BY <1>3, <2>1, KeptSelf DEF Grown
  <2> QED BY <1>1, <1>2, <1>5, <2>1, <2>2
<1> QED BY <1>4, <1>5

LEMMA CreateGrows ==
  ASSUME VcasInv, NEW p \in Procs, NEW o \in Objects, NEW v \in Values, Create(p, o, v)
  PROVE  /\ Grown /\ versions[o] = <<>>
         /\ versions'[o] = <<[val |-> v, ts |-> timestamp]>>
         /\ \A x \in Objects : x # o => versions'[x] = versions[x]
<1> DEFINE ws == <<[val |-> v, ts |-> timestamp]>>
<1>1. /\ versions[o] = <<>> /\ versions' = [versions EXCEPT ![o] = ws]
      /\ versions \in [Objects -> Seq(Version)] /\ timestamp \in Nat
  BY DEF Create, VcasInv, VcasTypes
<1>2. Kept(versions[o], ws)
  BY <1>1, EmptySeq, CreateOrdered DEF Kept
<1> HIDE DEF ws
<1>3. versions'[o] = ws /\ \A x \in Objects : x # o => versions'[x] = versions[x]
  BY <1>1
<1>4. Grown
  <2>1. ASSUME NEW x \in Objects PROVE Kept(versions[x], versions'[x])
    <3>1. CASE x = o
      BY <1>2, <1>3, <3>1
    <3>2. CASE x # o
      BY <1>1, <1>3, <3>2, KeptSelf
    <3> QED BY <3>1, <3>2
  <2> QED BY <2>1 DEF Grown
<1> QED BY <1>1, <1>3, <1>4 DEF ws

LEMMA SameGrows ==
  ASSUME VcasInv, versions' = versions
  PROVE  Grown
BY KeptSelf DEF Grown, VcasInv, VcasTypes

\* A read that has a version with a timestamp to start from finds one of its time.
LEMMA AnswerFound ==
  ASSUME NEW vs \in Seq(Version), NEW now, Ordered(vs, now), NEW i \in 1 .. Len(vs),
         vs[i].ts # TBD, NEW t, vs[1].ts <= t
  PROVE  \E j \in 1 .. Len(vs) : vs[j].ts # TBD /\ vs[j].ts <= t /\ AnswerAt(vs, i, t) = vs[j].val
<1> DEFINE v == VersionAt(vs, i, t)
<1>1. i \in Nat /\ 1 \in 1 .. i /\ Len(vs) \in Nat
  BY LenProperties
<1>2. /\ v \in 0 .. i
      /\ \/ v = 0 /\ \A j \in 1 .. i : ~(vs[j].ts <= t)
         \/ v \in 1 .. i /\ vs[v].ts <= t /\ \A j \in 1 .. i : vs[j].ts <= t => j <= v
  BY <1>1, VersionAtFinds
<1> HIDE DEF v
<1>3. v \in 1 .. i /\ vs[v].ts <= t /\ v # 0
  BY <1>1, <1>2
<1>4. v \in 1 .. Len(vs)
  BY <1>1, <1>3
<1>5. vs[v].ts # TBD
  <2>1. vs[v].ts = TBD => v = Len(vs)
    BY <1>4 DEF Ordered
  <2> QED BY <1>1, <1>3, <2>1
<1>6. AnswerAt(vs, i, t) = vs[v].val
  BY <1>3 DEF AnswerAt, v
<1> QED BY <1>3, <1>4, <1>5, <1>6

\* A read goes on, or is answered from a version with a timestamp.
Answered(p, k, o) ==
  vpc'[p] = "done" =>
    \E j \in 1 .. Len(versions'[o]) :
       LET v == versions'[o][j]
       IN  v.ts # TBD /\ out'[p] = v.val /\ (k = "readAt" => v.ts <= snap[p])

LEMMA ProceedRead ==
  ASSUME VcasInv, VcasInv', NEW p \in Procs, NEW k \in {"read", "readAt"}, NEW o \in Objects,
         NEW i \in 1 .. Len(versions'[o]), versions'[o][i].ts # TBD,
         k = "readAt" => versions'[o][1].ts <= snap[p],
         Proceed(p, [kind |-> k, obj |-> o], i, versions'[o]), out = [q \in Procs |-> out[q]]
  PROVE  vpc'[p] = "done" /\ Answered(p, k, o)
<1> DEFINE vs == versions'[o]
<1>1. vs \in Seq(Version) /\ Ordered(vs, timestamp')
  BY DEF VcasInv, VcasTypes
<1>2. vpc \in [Procs -> Places]
  BY DEF VcasInv, VcasTypes
<1>3. CASE k = "read"
  <2>1. Reply(p, vs[i].val, FALSE)
    BY <1>3 DEF Proceed
  <2>2. vpc'[p] = "done" /\ out' = [out EXCEPT ![p] = vs[i].val]
    BY <1>2, <2>1 DEF Reply, At
  <2>3. out'[p] = vs[i].val
    BY <2>2
  <2> QED BY <1>3, <2>2, <2>3 DEF Answered
<1>4. CASE k = "readAt"
  <2>1. Reply(p, AnswerAt(vs, i, snap[p]), FALSE)
    BY <1>4 DEF Proceed
  <2>2. vpc'[p] = "done" /\ out' = [out EXCEPT ![p] = AnswerAt(vs, i, snap[p])]
    BY <1>2, <2>1 DEF Reply, At
  <2>3. PICK j \in 1 .. Len(vs) :
           vs[j].ts # TBD /\ vs[j].ts <= snap[p] /\ AnswerAt(vs, i, snap[p]) = vs[j].val
    BY <1>1, <1>4, AnswerFound
  <2>4. out'[p] = AnswerAt(vs, i, snap[p])
    BY <2>2
  <2> QED BY <1>4, <2>2, <2>3, <2>4 DEF Answered
<1> QED BY <1>3, <1>4

\* read_vcas, from the load of the head to the answer.
LEMMA ReadOn ==
  ASSUME VcasInv, VcasInv', out = [q \in Procs |-> out[q]], NEW p \in Procs,
         NEW k \in {"read", "readAt"}, NEW o \in Objects,
         Examine(p, [kind |-> k, obj |-> o]) \/ (StampStep(p) /\ call[p] = [kind |-> k, obj |-> o]),
         k = "readAt" => Born(o, snap[p])
  PROVE  /\ vpc'[p] \in {"ts", "stamp", "done"} /\ call'[p] = [kind |-> k, obj |-> o]
         /\ Answered(p, k, o) /\ snap' = snap
<1> DEFINE c == [kind |-> k, obj |-> o]
<1>1. /\ vpc \in [Procs -> Places] /\ call \in [Procs -> Calls \cup {NoCall}]
      /\ VcasTypes /\ VcasTypes' /\ c \in Calls
  BY DEF VcasInv, VcasTypes, Calls, ReadCalls
<1>2. CASE Examine(p, c)
  <2> DEFINE vs == versions[o]
  <2>1. /\ vs # <<>> /\ call'[p] = c /\ versions' = versions /\ snap' = snap
        /\ Len(vs) \in 1 .. Len(vs)
    BY <1>1, <1>2, SomeVersion DEF Examine
  <2>2. CASE vs[Len(vs)].ts = TBD
    <3>1. vpc' = [vpc EXCEPT ![p] = "ts"]
      BY <1>2, <2>2 DEF Examine, Look, At
    <3> QED BY <1>1, <2>1, <3>1 DEF Answered
  <2>3. CASE vs[Len(vs)].ts # TBD
    <3>1. Proceed(p, c, Len(vs), vs)
      BY <1>2, <2>3 DEF Examine
    <3>2. vpc'[p] = "done" /\ Answered(p, k, o)
      BY <2>1, <2>3, <3>1, ProceedRead DEF Born
    <3> QED BY <2>1, <3>2
  <2> QED BY <2>2, <2>3
<1>3. CASE LoadClock(p) /\ call[p] = c
  <2> DEFINE vs == versions[o]
  <2>1. versions' = versions /\ call' = call /\ snap' = snap
    BY <1>3 DEF LoadClock
  <2>2. ix[p] \in 1 .. Len(vs)
    BY <1>3 DEF LoadClock, VcasInv, InCall, Versions
  <2>3. CASE vs[ix[p]].ts # TBD
    <3>1. Proceed(p, c, ix[p], vs)
      BY <1>3, <2>3 DEF LoadClock
    <3>2. vpc'[p] = "done" /\ Answered(p, k, o)
      BY <2>1, <2>2, <2>3, <3>1, ProceedRead DEF Born
    <3> QED BY <1>3, <2>1, <3>2
  <2>4. CASE vs[ix[p]].ts = TBD
    <3>1. vpc' = [vpc EXCEPT ![p] = "stamp"]
      BY <1>3, <2>4 DEF LoadClock, Look, At
    <3> QED BY <1>1, <1>3, <2>1, <3>1 DEF Answered
  <2> QED BY <2>3, <2>4
<1>4. CASE Stamp(p) /\ call[p] = c
  <2> DEFINE ws == [versions[o] EXCEPT ![ix[p]].ts = IF @ = TBD THEN curTS[p] ELSE @]
  <2>1. /\ vpc[p] = "stamp" /\ call' = call /\ snap' = snap /\ c.obj = o
        /\ versions' = [versions EXCEPT ![o] = ws] /\ Proceed(p, c, ix[p], ws)
    BY <1>4 DEF Stamp
  <2>2. Versions(p) = versions[o]
    BY <1>4 DEF Versions
  <2>3. Len(ws) = Len(versions[o]) /\ ws[ix[p]].ts # TBD /\ ix[p] \in 1 .. Len(versions[o])
    BY <2>1, <2>2, StampVersions
  <2> HIDE DEF ws
  <2>4. /\ versions'[o] = ws /\ Grown
        /\ ix[p] \in 1 .. Len(versions'[o]) /\ versions'[o][ix[p]].ts # TBD
    <3>1. versions'[o] = ws
      BY <2>1 DEF VcasInv, VcasTypes
    <3> QED BY <1>4, <2>3, <3>1, StampGrows
  <2>5. k = "readAt" => versions'[o][1].ts <= snap[p]
    BY <1>1, <2>4, BornStays
  <2>6. vpc'[p] = "done" /\ Answered(p, k, o)
    BY <2>1, <2>4, <2>5, ProceedRead
  <2> QED BY <1>4, <2>1, <2>6
<1> QED BY <1>2, <1>3, <1>4 DEF StampStep

-----------------------------------------------------------------------------
(***************************************************************************)
(* What a step of the provider leaves alone.                               *)
(***************************************************************************)
OutForm == out = [q \in Procs |-> out[q]]

OthersCalls(p) ==
  \A q \in Procs : q # p =>
    /\ vpc'[q] = vpc[q] /\ call'[q] = call[q] /\ ix'[q] = ix[q]
    /\ curTS'[q] = curTS[q] /\ snap'[q] = snap[q] /\ out'[q] = out[q]

\* A process that is about to stamp has loaded the clock just now, or was there before.
Moves(p) ==
  /\ timestamp <= timestamp' /\ Grown
  /\ OthersCalls(p) /\ OutForm'
  /\ vpc'[p] = "stamp" =>
       \/ curTS'[p] = timestamp
       \/ vpc[p] = "stamp" /\ call'[p] = call[p] /\ ix'[p] = ix[p] /\ curTS'[p] = curTS[p]

LEMMA ProceedOut ==
  ASSUME OutForm, NEW p \in Procs, NEW c \in Calls, NEW i, NEW vs, Proceed(p, c, i, vs)
  PROVE  OutForm' /\ \A q \in Procs : q # p => out'[q] = out[q]
<1>1. c.kind \in {"read", "readAt", "cas", "stored", "failed"}
  BY DEF Calls, ReadCalls, CasCalls
<1>2. (\E v : out' = [out EXCEPT ![p] = v]) \/ out' = out
  <2>1. CASE c.kind = "read"
    BY <2>1 DEF Proceed, Reply
  <2>2. CASE c.kind = "readAt"
    BY <2>2 DEF Proceed, Reply
  <2>3. CASE c.kind = "cas"
    BY <2>3 DEF Proceed, Reply, Look
  <2>4. CASE c.kind = "stored"
    BY <2>4 DEF Proceed, Reply
  <2>5. CASE c.kind = "failed"
    BY <2>5 DEF Proceed, Reply
  <2> QED BY <1>1, <2>1, <2>2, <2>3, <2>4, <2>5
<1>3. CASE out' = out
  BY <1>3 DEF OutForm
<1>4. ASSUME NEW v, out' = [out EXCEPT ![p] = v]
      PROVE  OutForm' /\ \A q \in Procs : q # p => out'[q] = out[q]
  <2>1. DOMAIN out = Procs
    BY DEF OutForm
  <2>2. out' = [q \in Procs |-> out'[q]]
    BY <1>4, <2>1
  <2> QED BY <1>4, <2>1, <2>2 DEF OutForm
<1> QED BY <1>2, <1>3, <1>4

LEMMA ProceedLeaves ==
  ASSUME VcasInv, OutForm, NEW p \in Procs, NEW c \in Calls, NEW i \in Nat, NEW vs,
         Proceed(p, c, i, vs)
  PROVE  /\ OutForm' /\ vpc'[p] \in {"done", "install"}
         /\ \A q \in Procs : q # p => vpc'[q] = vpc[q] /\ ix'[q] = ix[q] /\ out'[q] = out[q]
<1>1. VcasTypes
  BY DEF VcasInv
<1>2. \/ vpc' = [vpc EXCEPT ![p] = "done"] /\ ix' = [ix EXCEPT ![p] = 0]
      \/ vpc' = [vpc EXCEPT ![p] = "install"] /\ ix' = [ix EXCEPT ![p] = i]
  BY <1>1, ProceedMoves
<1>3. vpc \in [Procs -> Places] /\ ix \in [Procs -> Nat]
  BY <1>1 DEF VcasTypes
<1> QED BY <1>2, <1>3, ProceedOut

LEMMA ExamineMoves ==
  ASSUME VcasInv, OutForm, NEW p \in Procs, NEW c \in Calls, Examine(p, c)
  PROVE  /\ Moves(p) /\ UNCHANGED <<timestamp, versions, curTS, snap>>
         /\ call'[p] = c /\ vpc'[p] \in {"ts", "done", "install"}
         /\ versions[c.obj] # <<>>
<1> DEFINE vs == versions[c.obj]
<1>1. /\ call' = [call EXCEPT ![p] = c] /\ UNCHANGED <<timestamp, versions, curTS, snap>>
      /\ vs # <<>>
  BY DEF Examine
<1>2. /\ timestamp \in Nat /\ call \in [Procs -> Calls \cup {NoCall}]
      /\ vpc \in [Procs -> Places] /\ ix \in [Procs -> Nat]
      /\ versions \in [Objects -> Seq(Version)]
  BY DEF VcasInv, VcasTypes
<1>3. Grown
  BY <1>1, SameGrows
<1>4. Len(vs) \in Nat
  BY <1>2, LenProperties, CallsHaveObjects
<1>5. /\ OutForm' /\ vpc'[p] \in {"ts", "done", "install"}
      /\ \A q \in Procs : q # p => vpc'[q] = vpc[q] /\ ix'[q] = ix[q] /\ out'[q] = out[q]
  <2>1. CASE vs[Len(vs)].ts = TBD
    <3>1. Look(p, Len(vs), "ts")
      BY <2>1 DEF Examine
    <3>2. vpc' = [vpc EXCEPT ![p] = "ts"] /\ ix' = [ix EXCEPT ![p] = Len(vs)] /\ out' = out
      BY <3>1 DEF Look, At
    <3> HIDE DEF vs
    <3> QED BY <1>2, <3>2 DEF OutForm
  <2>2. CASE vs[Len(vs)].ts # TBD
    <3>1. Proceed(p, c, Len(vs), vs)
      BY <2>2 DEF Examine
    <3> HIDE DEF vs
    <3> QED BY <1>4, <3>1, ProceedLeaves
  <2> QED BY <2>1, <2>2
<1> HIDE DEF vs
<1>6. OthersCalls(p)
  BY <1>1, <1>2, <1>5 DEF OthersCalls
<1> QED BY <1>1, <1>2, <1>3, <1>5, <1>6 DEF Moves, vs

LEMMA LoadClockMoves ==
  ASSUME VcasInv, OutForm, NEW p \in Procs, LoadClock(p)
  PROVE  /\ Moves(p) /\ UNCHANGED <<timestamp, versions, call, snap>>
         /\ versions[call[p].obj][ix[p]].ts = TBD => vpc'[p] = "stamp" /\ ix' = ix
<1> DEFINE vs == versions[call[p].obj]
<1>1. UNCHANGED <<timestamp, versions, call, snap>>
  BY DEF LoadClock
<1>2. /\ timestamp \in Nat /\ call \in [Procs -> Calls \cup {NoCall}]
      /\ vpc \in [Procs -> Places] /\ ix \in [Procs -> Nat] /\ curTS \in [Procs -> Nat]
  BY DEF VcasInv, VcasTypes
<1>3. Grown /\ call[p] \in Calls
  BY <1>1, SameGrows DEF LoadClock, VcasInv, InCall
<1>4. CASE vs[ix[p]].ts # TBD
  <2>1. Proceed(p, call[p], ix[p], vs) /\ curTS' = curTS
    BY <1>4 DEF LoadClock
  <2> HIDE DEF vs
  <2>2. /\ OutForm' /\ vpc'[p] \in {"done", "install"}
        /\ \A q \in Procs : q # p => vpc'[q] = vpc[q] /\ ix'[q] = ix[q] /\ out'[q] = out[q]
    BY <1>2, <1>3, <2>1, ProceedLeaves
  <2>3. OthersCalls(p)
    BY <1>1, <2>1, <2>2 DEF OthersCalls
  <2> QED BY <1>1, <1>2, <1>3, <1>4, <2>2, <2>3 DEF Moves, vs
<1>5. CASE vs[ix[p]].ts = TBD
  <2>1. Look(p, ix[p], "stamp") /\ curTS' = [curTS EXCEPT ![p] = timestamp]
    BY <1>5 DEF LoadClock
  <2> HIDE DEF vs
  <2>2. vpc' = [vpc EXCEPT ![p] = "stamp"] /\ ix' = [ix EXCEPT ![p] = ix[p]] /\ out' = out
    BY <2>1 DEF Look, At
  <2>3. OthersCalls(p) /\ OutForm' /\ ix' = ix
    BY <1>1, <1>2, <2>1, <2>2 DEF OthersCalls, OutForm
  <2>4. vpc'[p] = "stamp" /\ curTS'[p] = timestamp
    BY <1>2, <2>1, <2>2
  <2> QED BY <1>1, <1>2, <1>3, <2>3, <2>4 DEF Moves
<1> QED BY <1>4, <1>5

LEMMA StampMoves ==
  ASSUME VcasInv, OutForm, NEW p \in Procs, Stamp(p)
  PROVE  /\ Moves(p) /\ UNCHANGED <<timestamp, call, snap>>
         /\ vpc'[p] \in {"done", "install"}
<1> DEFINE ws == [versions[call[p].obj] EXCEPT ![ix[p]].ts = IF @ = TBD THEN curTS[p] ELSE @]
<1>1. /\ vpc[p] = "stamp" /\ curTS' = [curTS EXCEPT ![p] = 0]
      /\ Proceed(p, call[p], ix[p], ws) /\ UNCHANGED <<timestamp, call, snap>>
  BY DEF Stamp
<1> HIDE DEF ws
<1>2. /\ timestamp \in Nat /\ ix \in [Procs -> Nat] /\ curTS \in [Procs -> Nat]
      /\ call[p] \in Calls
  BY <1>1 DEF VcasInv, VcasTypes, InCall
<1>3. /\ OutForm' /\ vpc'[p] \in {"done", "install"}
      /\ \A q \in Procs : q # p => vpc'[q] = vpc[q] /\ ix'[q] = ix[q] /\ out'[q] = out[q]
  BY <1>1, <1>2, ProceedLeaves
<1>4. OthersCalls(p)
  BY <1>1, <1>2, <1>3 DEF OthersCalls
<1>5. Grown
  BY StampGrows
<1> QED BY <1>1, <1>2, <1>3, <1>4, <1>5 DEF Moves

LEMMA InstallMoves ==
  ASSUME VcasInv, OutForm, NEW p \in Procs, Install(p)
  PROVE  /\ Moves(p) /\ UNCHANGED <<timestamp, curTS, snap>>
         /\ call' = [call EXCEPT ![p].kind = IF Len(versions[call[p].obj]) = ix[p]
                                             THEN "stored" ELSE "failed"]
         /\ Len(versions[call[p].obj]) = ix[p] => vpc'[p] = "ts" /\ ix'[p] = ix[p] + 1
<1> DEFINE n == Len(versions[call[p].obj])
<1>1. /\ UNCHANGED <<timestamp, curTS, snap>>
      /\ call' = [call EXCEPT ![p].kind = IF n = ix[p] THEN "stored" ELSE "failed"]
      /\ \/ n = ix[p] /\ Look(p, n + 1, "ts")
         \/ n # ix[p] /\ Look(p, ix[p], "reload")
  BY DEF Install
<1>2. /\ timestamp \in Nat /\ ix \in [Procs -> Nat] /\ vpc \in [Procs -> Places]
      /\ call \in [Procs -> Calls \cup {NoCall}] /\ Grown
  BY InstallGrows DEF VcasInv, VcasTypes
<1> HIDE DEF n
<1>3. /\ out' = out /\ \A q \in Procs : q # p => vpc'[q] = vpc[q] /\ ix'[q] = ix[q]
      /\ vpc'[p] # "stamp" /\ (n = ix[p] => vpc'[p] = "ts" /\ ix'[p] = ix[p] + 1)
  BY <1>1, <1>2 DEF Look, At
<1>4. OthersCalls(p) /\ OutForm'
  BY <1>1, <1>2, <1>3 DEF OthersCalls, OutForm
<1> QED BY <1>1, <1>2, <1>3, <1>4 DEF Moves, n

LEMMA QuietMoves ==
  ASSUME VcasInv, OutForm, NEW p \in Procs,
         \/ SnapshotStep(p) \/ EndSnapshot(p) \/ UNCHANGED vcasVars
         \/ \E o \in Objects, v \in Values : Create(p, o, v)
  PROVE  Moves(p)
<1>1. /\ timestamp \in Nat /\ vpc \in [Procs -> Places] /\ snap \in [Procs -> Nat \cup {NoTS}]
      /\ call \in [Procs -> Calls \cup {NoCall}] /\ DOMAIN out = Procs
  BY DEF VcasInv, VcasTypes, OutForm
<1>2. CASE TakeSnapshot(p)
  BY <1>1, <1>2, SameGrows DEF TakeSnapshot, At, Moves, OthersCalls, OutForm
<1>3. CASE ReadAgain(p)
  BY <1>1, <1>3, SameGrows DEF ReadAgain, At, Moves, OthersCalls, OutForm
<1>4. CASE FetchAndAdd(p)
  BY <1>1, <1>4, SameGrows DEF FetchAndAdd, At, Moves, OthersCalls, OutForm
<1>5. CASE EndSnapshot(p)
  <2>1. out' = [q \in Procs |-> out'[q]]
    BY <1>1, <1>5 DEF EndSnapshot
  <2> QED BY <1>1, <1>5, <2>1, SameGrows DEF EndSnapshot, At, Moves, OthersCalls, OutForm
<1>6. CASE UNCHANGED vcasVars
  BY <1>1, <1>6, SameGrows DEF vcasVars, Moves, OthersCalls, OutForm
<1>7. ASSUME NEW o \in Objects, NEW v \in Values, Create(p, o, v)
      PROVE  Moves(p)
  <2>1. Grown
    BY <1>7, CreateGrows
  <2> QED BY <1>1, <1>7, <2>1 DEF Create, Moves, OthersCalls, OutForm
<1> QED BY <1>2, <1>3, <1>4, <1>5, <1>6, <1>7 DEF SnapshotStep

LEMMA ProviderMoves ==
  ASSUME VcasInv, OutForm, NEW p \in Procs, VcasStep(p) \/ UNCHANGED vcasVars
  PROVE  /\ Moves(p)
         /\ \/ versions' = versions \/ Stamp(p) \/ Install(p)
            \/ \E o \in Objects, v \in Values : Create(p, o, v)
<1>1. CASE LoadClock(p)
  BY <1>1, LoadClockMoves
<1>2. CASE Stamp(p)
  BY <1>2, StampMoves
<1>3. CASE Install(p)
  BY <1>3, InstallMoves
<1>4. CASE Reload(p)
  <2>1. call[p] \in Calls
    BY <1>4 DEF Reload, VcasInv, InCall
  <2> QED BY <1>4, <2>1, ExamineMoves DEF Reload
<1>5. CASE SnapshotStep(p) \/ EndSnapshot(p) \/ UNCHANGED vcasVars
  <2>1. versions' = versions
    BY <1>5 DEF SnapshotStep, TakeSnapshot, ReadAgain, FetchAndAdd, EndSnapshot, vcasVars
  <2> QED BY <1>5, <2>1, QuietMoves
<1>6. ASSUME NEW o \in Objects, BeginRead(p, o) \/ BeginReadAt(p, o)
      PROVE  Moves(p) /\ versions' = versions
  <2>1. [kind |-> "read", obj |-> o] \in Calls /\ [kind |-> "readAt", obj |-> o] \in Calls
    BY DEF Calls, ReadCalls
  <2> QED BY <1>6, <2>1, ExamineMoves DEF BeginRead, BeginReadAt
<1>7. ASSUME NEW o \in Objects, NEW old \in Values, NEW new \in Values, BeginCas(p, o, old, new)
      PROVE  Moves(p) /\ versions' = versions
  <2>1. [kind |-> "cas", obj |-> o, old |-> old, new |-> new] \in Calls
    BY DEF Calls, CasCalls
  <2> QED BY <1>7, <2>1, ExamineMoves DEF BeginCas
<1>8. CASE \E o \in Objects, v \in Values : Create(p, o, v)
  BY <1>8, QuietMoves
<1> QED BY <1>1, <1>2, <1>3, <1>4, <1>5, <1>6, <1>7, <1>8 DEF VcasStep, StampStep

-----------------------------------------------------------------------------
(***************************************************************************)
(* The steps of p and the other processes.                                 *)
(***************************************************************************)

\* What p leaves alone in the list: the variables of others, the locks others hold,
\* and the keys of the nodes in use.
ListFrame(p) ==
  /\ alloc \subseteq alloc' /\ \A n \in alloc : key'[n] = key[n]
  /\ \A q \in Procs : q # p => /\ \A n \in Nodes : lock[n] = q => lock'[n] = q
                               /\ lpc'[q] = lpc[q] /\ op'[q] = op[q] /\ pred'[q] = pred[q]
                               /\ curr'[q] = curr[q] /\ newnode'[q] = newnode[q]

\* It puts new versions on fields of nodes that it has locked.
LocksFirst(p) ==
  \A n \in Nodes : \A o \in {Next(n), Marked(n)} :
     versions[o] # <<>> /\ Len(versions'[o]) # Len(versions[o]) => lock[n] = p

LEMMA LeadsStays ==
  ASSUME VcasTypes, VcasTypes', Grown, alloc \subseteq alloc', alloc \subseteq Nodes,
         NEW m, NEW s \in Int, NEW t \in Int, Leads(m, s), s <= t
  PROVE  m \in alloc' /\ versions'[Next(m)] # <<>> /\ versions'[Next(m)][1].ts # TBD
         /\ versions'[Next(m)][1].ts <= t
<1>1. Next(m) \in Objects
  BY Fields DEF Leads
<1>2. Born(Next(m), t)
  BY <1>1, BornLater DEF Leads
<1> QED BY <1>1, <1>2, BornStays DEF Leads

LEMMA SwapsStays ==
  ASSUME VcasInv, ListForm, NEW p \in Procs, NEW q \in Procs, q # p, OthersCalls(p), LocksFirst(p),
         NEW n \in Nodes, NEW o \in {Next(n), Marked(n)}, lock[n] = q, Swaps(q, o)
  PROVE  Swaps(q, o)'
<1>1. vpc'[q] = vpc[q] /\ call'[q] = call[q] /\ ix'[q] = ix[q]
  BY DEF OthersCalls
<1>2. CASE vpc[q] = "done"
  BY <1>1, <1>2 DEF Swaps
<1>3. CASE vpc[q] # "done"
  <2>1. vpc[q] \in {"ts", "stamp", "install"} /\ call[q].obj = o
    BY <1>3 DEF Swaps
  <2>2. ix[q] \in 1 .. Len(versions[o])
    BY <2>1 DEF VcasInv, InCall, Versions
  <2>3. versions[o] # <<>>
    <3>1. o \in Objects /\ VcasTypes
      BY Fields DEF VcasInv
    <3> QED BY <2>2, <3>1, SomeVersion
  <2>4. Len(versions'[o]) = Len(versions[o])
    BY <2>3 DEF LocksFirst
  <2> QED BY <1>1, <2>4 DEF Swaps
<1> QED BY <1>2, <1>3

LEMMA OthersKeep ==
  ASSUME VcasInv, VcasInv', ListForm, NEW p \in Procs, NEW q \in Procs, q # p, Own(q),
         Moves(p), ListFrame(p), LocksFirst(p)
  PROVE  Own(q)'
<1>1. /\ vpc'[q] = vpc[q] /\ call'[q] = call[q] /\ ix'[q] = ix[q]
      /\ curTS'[q] = curTS[q] /\ snap'[q] = snap[q] /\ out'[q] = out[q]
  BY DEF Moves, OthersCalls
<1>2. /\ lpc'[q] = lpc[q] /\ op'[q] = op[q] /\ pred'[q] = pred[q]
      /\ curr'[q] = curr[q] /\ newnode'[q] = newnode[q]
      /\ \A n \in Nodes : lock[n] = q => lock'[n] = q
  BY DEF ListFrame
<1>3. /\ pred[q] \in Nodes /\ curr[q] \in Nodes /\ alloc \subseteq Nodes
      /\ alloc \subseteq alloc' /\ \A n \in alloc : key'[n] = key[n]
      /\ timestamp \in Int /\ timestamp' \in Int /\ timestamp <= timestamp'
      /\ VcasTypes /\ VcasTypes' /\ Grown
  <2>1. VcasTypes /\ VcasTypes' /\ Grown /\ timestamp <= timestamp'
    BY DEF Moves, VcasInv
  <2>2. timestamp \in Int /\ timestamp' \in Int
    BY <2>1 DEF VcasTypes
  <2> QED BY <2>1, <2>2 DEF ListForm, ListVarTypes, ListFrame
<1>4. HoldsLocks(q)'
  BY <1>2, <1>3 DEF Own, HoldsLocks
<1>5. CallPlace(q)'
  <2>1. lpc[q] = "unlink" => Swaps(q, Marked(curr[q]))'
    <3>1. CASE lpc[q] = "unlink"
      <4>1. lock[curr[q]] = q /\ Swaps(q, Marked(curr[q]))
        BY <3>1 DEF Own, HoldsLocks, ChangePCs, CallPlace
      <4>2. PICK n \in Nodes : n = curr[q]
        BY <1>3
      <4>3. Swaps(q, Marked(n))'
        BY <4>1, <4>2, SwapsStays DEF Moves
      <4> QED BY <1>2, <4>2, <4>3 DEF Swaps
    <3> QED BY <3>1
  <2>2. lpc[q] = "last" => Swaps(q, Next(pred[q]))'
    <3>1. CASE lpc[q] = "last"
      <4>1. lock[pred[q]] = q /\ Swaps(q, Next(pred[q]))
        BY <3>1 DEF Own, HoldsLocks, HoldPCs, ChangePCs, CallPlace
      <4>2. PICK n \in Nodes : n = pred[q]
        BY <1>3
      <4>3. Swaps(q, Next(n))'
        BY <4>1, <4>2, SwapsStays DEF Moves
      <4> QED BY <1>2, <4>2, <4>3 DEF Swaps
    <3> QED BY <3>1
  <2> QED BY <1>1, <1>2, <2>1, <2>2 DEF Own, CallPlace, Reads
<1>6. Stands(q)'
  <2>1. \A m : Leads(m, timestamp) =>
           m \in alloc' /\ versions'[Next(m)] # <<>> /\ versions'[Next(m)][1].ts # TBD
           /\ versions'[Next(m)][1].ts <= timestamp'
    BY <1>3, LeadsStays
  <2>2. curr[q] \in alloc
    BY DEF Own, Stands, Leads
  <2>3. Leads(curr[q], timestamp)' /\ pred'[q] \in alloc'
    BY <1>2, <1>3, <2>1 DEF Own, Stands, Leads, Born
  <2>4. lpc'[q] = "search" /\ vpc'[q] = "done" => Leads(out[q], timestamp)'
    BY <1>1, <1>2, <2>1 DEF Own, Stands, Leads, Born
  <2>5. lpc'[q] = "link" => Leads(newnode[q], timestamp)'
    BY <1>1, <1>2, <2>1 DEF Own, Stands, Leads, Born
  <2>6. lpc'[q] = "last" => Leads(call[q].new, timestamp)'
    BY <1>1, <1>2, <2>1 DEF Own, Stands, Leads, Born
  <2> QED BY <1>1, <1>2, <1>3, <2>2, <2>3, <2>4, <2>5, <2>6 DEF Own, Stands
<1>7. Queries(q)'
  <2>1. snap[q] # NoTS => snap[q] \in Int /\ snap[q] <= snap[q]
    BY <1>3 DEF VcasTypes
  <2>2. \A m : snap[q] # NoTS /\ Leads(m, snap[q]) =>
           m \in alloc' /\ versions'[Next(m)] # <<>> /\ versions'[Next(m)][1].ts # TBD
           /\ versions'[Next(m)][1].ts <= snap[q]
    BY <1>3, <2>1, LeadsStays
  <2>3. lpc[q] \in {"query", "add"} => snap[q] # NoTS /\ Leads(curr[q], snap[q])'
    BY <1>1, <1>2, <2>2 DEF Own, Queries, Leads, Born
  <2>4. lpc[q] = "query" /\ vpc[q] = "done" => Leads(out[q], snap[q])'
    BY <1>1, <1>2, <2>2 DEF Own, Queries, Leads, Born
  <2>5. snap[q] # NoTS => InitTime <= snap[q] /\ snap[q] <= timestamp'
    BY <1>3, <2>1, VcasAssumption DEF Own, Queries
  <2> QED BY <1>1, <1>2, <2>3, <2>4, <2>5 DEF Own, Queries
<1> QED BY <1>4, <1>5, <1>6, <1>7 DEF Own

-----------------------------------------------------------------------------
(***************************************************************************)
(* The links.                                                              *)
(***************************************************************************)

\* ListLinks, of one version.
LinkVersion(n, i) ==
  LET v == versions[Next(n)][i]
  IN  /\ Leads(v.val, IF v.ts = TBD THEN timestamp ELSE v.ts)
      /\ \A p \in Procs : vpc[p] = "stamp" /\ call[p].obj = Next(n) /\ ix[p] = i /\ v.ts = TBD
                            => Born(Next(v.val), curTS[p])

\* A version that was there before, which p may have stamped.
LEMMA OldLink ==
  ASSUME VcasInv, VcasInv', ListForm, ListLinks, NEW p \in Procs, Moves(p), alloc \subseteq alloc',
         NEW n \in Nodes \ {MaxNode}, NEW i \in 1 .. Len(versions[Next(n)]),
         versions'[Next(n)][i].val = versions[Next(n)][i].val,
         \/ versions'[Next(n)][i].ts = versions[Next(n)][i].ts
         \/ /\ versions[Next(n)][i].ts = TBD /\ versions'[Next(n)][i].ts = curTS[p]
            /\ Born(Next(versions[Next(n)][i].val), curTS[p])
  PROVE  LinkVersion(n, i)'
<1> DEFINE v == versions[Next(n)][i]
           w == versions'[Next(n)][i]
<1>1. /\ timestamp \in Int /\ timestamp' \in Int /\ timestamp <= timestamp'
      /\ curTS[p] \in Nat /\ \A q \in Procs : curTS[q] \in Int
      /\ VcasTypes /\ VcasTypes' /\ Grown /\ alloc \subseteq Nodes
  <2>1. VcasTypes /\ VcasTypes' /\ Grown /\ timestamp <= timestamp'
    BY DEF Moves, VcasInv
  <2>2. timestamp \in Int /\ timestamp' \in Int /\ curTS \in [Procs -> Nat]
    BY <2>1 DEF VcasTypes
  <2> QED BY <2>1, <2>2 DEF ListForm, ListVarTypes
<1>2. v.ts \in Int
  <2>1. Next(n) \in Objects
    BY Fields
  <2>2. v \in Version
    BY <1>1, <2>1, SomeVersion
  <2> QED BY <2>2 DEF Version, TBD
<1>3. /\ Leads(v.val, IF v.ts = TBD THEN timestamp ELSE v.ts)
      /\ \A q \in Procs : vpc[q] = "stamp" /\ call[q].obj = Next(n) /\ ix[q] = i /\ v.ts = TBD
                            => Born(Next(v.val), curTS[q])
  BY DEF ListLinks
<1>4. w.val = v.val
  OBVIOUS
<1>5. w.ts = v.ts \/ (v.ts = TBD /\ w.ts = curTS[p] /\ Born(Next(v.val), curTS[p]))
  OBVIOUS
<1> HIDE DEF v, w
<1>6. \A m : \A s, t \in Int : Leads(m, s) /\ s <= t =>
           m \in alloc' /\ versions'[Next(m)] # <<>> /\ versions'[Next(m)][1].ts # TBD
           /\ versions'[Next(m)][1].ts <= t
  BY <1>1, LeadsStays
<1> DEFINE t0 == IF v.ts = TBD THEN timestamp ELSE v.ts
           t1 == IF w.ts = TBD THEN timestamp' ELSE w.ts
<1>7. /\ v.val \in alloc' /\ versions'[Next(v.val)] # <<>>
      /\ versions'[Next(v.val)][1].ts # TBD /\ versions'[Next(v.val)][1].ts <= t1
  <2>1. CASE w.ts = v.ts
    <3>1. t0 \in Int /\ t1 \in Int /\ t0 <= t1
      BY <1>1, <1>2, <2>1
    <3> QED BY <1>3, <1>6, <3>1
  <2>2. CASE v.ts = TBD /\ w.ts = curTS[p] /\ Born(Next(v.val), curTS[p])
    <3>1. Leads(v.val, curTS[p])
      BY <1>3, <2>2 DEF Leads
    <3>2. curTS[p] \in Int /\ curTS[p] <= curTS[p] /\ t1 = curTS[p]
      BY <1>1, <2>2 DEF TBD
    <3> QED BY <1>6, <3>1, <3>2
  <2> QED BY <1>5, <2>1, <2>2
<1>8. ASSUME NEW q \in Procs, vpc'[q] = "stamp", call'[q].obj = Next(n), ix'[q] = i, w.ts = TBD
      PROVE  /\ versions'[Next(v.val)] # <<>> /\ versions'[Next(v.val)][1].ts # TBD
             /\ versions'[Next(v.val)][1].ts <= curTS'[q]
  <2>1. v.ts = TBD
    BY <1>1, <1>5, <1>8 DEF TBD
  <2>2. CASE /\ vpc[q] = "stamp" /\ call'[q] = call[q] /\ ix'[q] = ix[q] /\ curTS'[q] = curTS[q]
    <3>1. Born(Next(v.val), curTS[q])
      BY <1>3, <1>8, <2>1, <2>2
    <3>2. Leads(v.val, curTS[q]) /\ curTS[q] \in Int /\ curTS[q] <= curTS[q]
      BY <1>1, <1>3, <3>1 DEF Leads
    <3> QED BY <1>6, <2>2, <3>2
  <2>3. CASE q = p /\ curTS'[p] = timestamp
    <3>1. Leads(v.val, timestamp) /\ timestamp <= timestamp
      BY <1>1, <1>3, <2>1
    <3> QED BY <1>1, <1>6, <2>3, <3>1
  <2>4. \/ vpc[q] = "stamp" /\ call'[q] = call[q] /\ ix'[q] = ix[q] /\ curTS'[q] = curTS[q]
        \/ q = p /\ curTS'[p] = timestamp
    BY <1>8 DEF Moves, OthersCalls
  <2> QED BY <2>2, <2>3, <2>4
<1>9. (LinkVersion(n, i)') <=>
        /\ w.val \in alloc' /\ versions'[Next(w.val)] # <<>>
        /\ versions'[Next(w.val)][1].ts # TBD /\ versions'[Next(w.val)][1].ts <= t1
        /\ \A q \in Procs : vpc'[q] = "stamp" /\ call'[q].obj = Next(n) /\ ix'[q] = i /\ w.ts = TBD
             => /\ versions'[Next(w.val)] # <<>> /\ versions'[Next(w.val)][1].ts # TBD
                /\ versions'[Next(w.val)][1].ts <= curTS'[q]
  BY DEF LinkVersion, Leads, Born, w
<1> HIDE DEF t1
<1> QED BY <1>4, <1>7, <1>8, <1>9

\* A new version leads to a node in use; nobody is stamping it yet.
LEMMA FreshLink ==
  ASSUME VcasInv, VcasInv', ListForm, NEW p \in Procs, Moves(p), alloc \subseteq alloc',
         NEW n \in Nodes \ {MaxNode}, NEW i \in Nat, Len(versions[Next(n)]) < i,
         NEW m, Leads(m, timestamp), versions'[Next(n)][i].val = m,
         versions'[Next(n)][i].ts \in {TBD, timestamp}, timestamp' = timestamp,
         vpc'[p] # "stamp"
  PROVE  LinkVersion(n, i)'
<1> DEFINE w == versions'[Next(n)][i]
           t1 == IF w.ts = TBD THEN timestamp' ELSE w.ts
<1>1. /\ timestamp \in Int /\ timestamp <= timestamp
      /\ VcasTypes /\ VcasTypes' /\ Grown /\ alloc \subseteq Nodes
  <2>1. VcasTypes /\ VcasTypes' /\ Grown
    BY DEF Moves, VcasInv
  <2>2. timestamp \in Int
    BY <2>1 DEF VcasTypes
  <2> QED BY <2>1, <2>2 DEF ListForm, ListVarTypes
<1>2. /\ m \in alloc' /\ versions'[Next(m)] # <<>>
      /\ versions'[Next(m)][1].ts # TBD /\ versions'[Next(m)][1].ts <= timestamp
  BY <1>1, LeadsStays
<1>3. w.val = m /\ t1 = timestamp
  OBVIOUS
<1>4. ASSUME NEW q \in Procs, vpc'[q] = "stamp", call'[q].obj = Next(n), ix'[q] = i
      PROVE  FALSE
  <2>1. q # p /\ vpc[q] = "stamp" /\ call[q].obj = Next(n) /\ ix[q] = i
    BY <1>4 DEF Moves, OthersCalls
  <2>2. i \in 1 .. Len(versions[Next(n)])
    BY <2>1 DEF VcasInv, InCall, Versions
  <2>3. Len(versions[Next(n)]) \in Nat
    BY <1>1, Fields, SomeVersion
  <2> QED BY <2>2, <2>3
<1>5. (LinkVersion(n, i)') <=>
        /\ w.val \in alloc' /\ versions'[Next(w.val)] # <<>>
        /\ versions'[Next(w.val)][1].ts # TBD /\ versions'[Next(w.val)][1].ts <= t1
        /\ \A q \in Procs : vpc'[q] = "stamp" /\ call'[q].obj = Next(n) /\ ix'[q] = i /\ w.ts = TBD
             => /\ versions'[Next(w.val)] # <<>> /\ versions'[Next(w.val)][1].ts # TBD
                /\ versions'[Next(w.val)][1].ts <= curTS'[q]
  BY DEF LinkVersion, Leads, Born
<1> HIDE DEF w, t1
<1> QED BY <1>2, <1>3, <1>4, <1>5

\* What p writes: it stamps, puts a link to a node in use on top, or creates a field.
Writes(p) ==
  \/ versions' = versions
  \/ Stamp(p)
  \/ Install(p) /\ \A n \in Nodes : call[p].obj = Next(n) => Leads(call[p].new, timestamp)
  \/ \E n \in alloc' : Create(p, Marked(n), 0)
  \/ \E n \in alloc', m \in Nodes : Create(p, Next(n), m) /\ Leads(m, timestamp)

LEMMA LinksKept ==
  ASSUME VcasInv, VcasInv', ListForm, ListLinks, NEW p \in Procs, Moves(p),
         alloc \subseteq alloc', alloc' \subseteq Nodes, Writes(p)
  PROVE  ListLinks'
<1> SUFFICES ASSUME NEW n \in Nodes \ {MaxNode}, NEW i \in 1 .. Len(versions'[Next(n)])
             PROVE  LinkVersion(n, i)'
  BY DEF ListLinks, LinkVersion
<1>1. Next(n) \in Objects /\ VcasTypes /\ VcasTypes' /\ timestamp \in Nat
  BY Fields DEF VcasInv, VcasTypes
<1>2. Len(versions[Next(n)]) \in Nat /\ Len(versions'[Next(n)]) \in Nat
  <2>1. versions \in [Objects -> Seq(Version)] /\ versions' \in [Objects -> Seq(Version)]
    BY <1>1 DEF VcasTypes
  <2> QED BY <1>1, <2>1, LenProperties
<1>3. CASE versions'[Next(n)] = versions[Next(n)]
  BY <1>3, OldLink
<1>4. CASE Stamp(p)
  <2>1. CASE call[p].obj # Next(n)
    BY <1>1, <1>3, <1>4, <2>1, StampGrows
  <2>2. CASE call[p].obj = Next(n)
    <3>1. /\ i \in 1 .. Len(versions[Next(n)])
          /\ versions'[Next(n)][i].val = versions[Next(n)][i].val
          /\ versions'[Next(n)][i].ts = IF i = ix[p] /\ versions[Next(n)][i].ts = TBD THEN curTS[p]
                                        ELSE versions[Next(n)][i].ts
      BY <1>1, <1>4, <2>2, StampGrows
    <3>2. vpc[p] = "stamp"
      BY <1>4 DEF Stamp
    <3>3. i = ix[p] /\ versions[Next(n)][i].ts = TBD =>
            Born(Next(versions[Next(n)][i].val), curTS[p])
      BY <2>2, <3>1, <3>2 DEF ListLinks
    <3> QED BY <3>1, <3>3, OldLink
  <2> QED BY <2>1, <2>2
<1>5. CASE Install(p) /\ \A x \in Nodes : call[p].obj = Next(x) => Leads(call[p].new, timestamp)
  <2> DEFINE k == Len(versions[Next(n)])
  <2>1. timestamp' = timestamp /\ vpc'[p] # "stamp"
    <3>1. vpc \in [Procs -> Places]
      BY <1>1 DEF VcasTypes
    <3> QED BY <1>5, <3>1 DEF Install, Look, At
  <2>2. CASE call[p].obj # Next(n) \/ ix[p] # k
    BY <1>1, <1>3, <1>5, <2>2, InstallGrows
  <2>3. CASE call[p].obj = Next(n) /\ ix[p] = k
    <3>1. /\ Len(versions'[Next(n)]) = k + 1
          /\ versions'[Next(n)][k + 1] = [val |-> call[p].new, ts |-> TBD]
          /\ \A j \in 1 .. k : versions'[Next(n)][j] = versions[Next(n)][j]
      BY <1>1, <1>5, <2>3, InstallGrows
    <3>2. CASE i \in 1 .. k
      BY <3>1, <3>2, OldLink
    <3>3. CASE i = k + 1
      <4>1. Leads(call[p].new, timestamp)
        BY <1>5, <2>3
      <4>2. k < i /\ i \in Nat
        BY <1>2, <3>3
      <4>3. versions'[Next(n)][i].val = call[p].new /\ versions'[Next(n)][i].ts = TBD
        BY <3>1, <3>3
      <4> QED BY <2>1, <4>1, <4>2, <4>3, FreshLink
    <3> QED BY <1>2, <3>1, <3>2, <3>3
  <2> QED BY <2>2, <2>3
<1>6. ASSUME NEW x \in alloc', Create(p, Marked(x), 0) PROVE LinkVersion(n, i)'
  <2>1. Marked(x) \in Objects /\ Marked(x) # Next(n) /\ 0 \in Values
    BY Fields, Basics
  <2> QED BY <1>1, <1>3, <1>6, <2>1, CreateGrows
<1>7. ASSUME NEW x \in alloc', NEW m \in Nodes, Create(p, Next(x), m), Leads(m, timestamp)
      PROVE  LinkVersion(n, i)'
  <2>1. Next(x) \in Objects /\ m \in Values
    BY Fields, Basics
  <2>2. CASE x # n
    BY <1>1, <1>3, <1>7, <2>1, <2>2, Fields, CreateGrows
  <2>3. CASE x = n
    <3>1. versions[Next(n)] = <<>> /\ versions'[Next(n)] = <<[val |-> m, ts |-> timestamp]>>
      BY <1>7, <2>1, <2>3, CreateGrows
    <3>2. Len(versions[Next(n)]) = 0 /\ i = 1 /\ i \in Nat
      BY <3>1
    <3>3. versions'[Next(n)][i].val = m /\ versions'[Next(n)][i].ts = timestamp
      BY <3>1, <3>2
    <3>4. timestamp' = timestamp /\ vpc'[p] # "stamp"
      BY <1>7 DEF Create, Idle
    <3>5. Len(versions[Next(n)]) < i
      BY <3>2
    <3> QED BY <1>7, <3>2, <3>3, <3>4, <3>5, FreshLink
  <2> QED BY <2>2, <2>3
<1> QED BY <1>3, <1>4, <1>5, <1>6, <1>7 DEF Writes

-----------------------------------------------------------------------------
(***************************************************************************)
(* The owners of the newest versions.                                      *)
(***************************************************************************)

\* A process that swaps or stamps its own version, holds the lock of the node, and
\* nobody else can have put a version on top.
LEMMA SwapsLocked ==
  ASSUME ListForm, NEW q \in Procs, Own(q),
         vpc[q] = "install" \/ (vpc[q] \in {"ts", "stamp"} /\ call[q].kind = "stored")
  PROVE  \E n \in Nodes : /\ lock[n] = q /\ call[q].obj \in {Next(n), Marked(n)}
                          /\ Swaps(q, call[q].obj)
<1>1. lpc[q] \in LPCs /\ curr[q] \in Nodes /\ pred[q] \in Nodes
  BY DEF ListForm, ListVarTypes
<1>2. vpc[q] # "idle" /\ \A o : ~Reads(q, "read", o) /\ ~Reads(q, "readAt", o)
  BY DEF Reads
<1>3. vpc[q] \notin {"again", "advance"}
  OBVIOUS
<1>4. lpc[q] \in {"unlink", "last"}
  BY <1>1, <1>2, <1>3 DEF Own, CallPlace, LPCs, HoldPCs, ChangePCs
<1>5. CASE lpc[q] = "unlink"
  <2>1. Swaps(q, Marked(curr[q])) /\ lock[curr[q]] = q
    BY <1>5 DEF Own, CallPlace, HoldsLocks, ChangePCs
  <2>2. call[q].obj = Marked(curr[q])
    BY <2>1 DEF Swaps
  <2> QED BY <1>1, <2>1, <2>2
<1>6. CASE lpc[q] = "last"
  <2>1. Swaps(q, Next(pred[q])) /\ lock[pred[q]] = q
    BY <1>6 DEF Own, CallPlace, HoldsLocks, HoldPCs, ChangePCs
  <2>2. call[q].obj = Next(pred[q])
    BY <2>1 DEF Swaps
  <2> QED BY <1>1, <2>1, <2>2
<1> QED BY <1>4, <1>5, <1>6

LEMMA InvProtects == VLInv => LocksProtect
<1> SUFFICES ASSUME VLInv, NEW n \in Nodes, NEW o \in {Next(n), Marked(n)},
                    versions[o] # <<>>, versions[o][Len(versions[o])].ts = TBD
             PROVE  \E p \in Procs :
                      lock[n] = p /\ vpc[p] \in {"ts", "stamp"} /\ call[p].kind = "stored"
  BY DEF LocksProtect
<1>1. PICK q \in Procs : vpc[q] \in {"ts", "stamp"} /\ call[q].kind = "stored" /\ call[q].obj = o
  BY Fields DEF VLInv, OwnerStamps
<1>2. PICK m \in Nodes : lock[m] = q /\ call[q].obj \in {Next(m), Marked(m)}
  BY <1>1, SwapsLocked DEF VLInv
<1>3. m = n
  BY <1>1, <1>2, Fields
<1> QED BY <1>1, <1>2, <1>3

LEMMA WritesLocked ==
  ASSUME VcasInv, ListForm, NEW p \in Procs, Own(p), Writes(p), alloc' \subseteq Nodes
  PROVE  LocksFirst(p)
<1> SUFFICES ASSUME NEW n \in Nodes, NEW o \in {Next(n), Marked(n)}, versions[o] # <<>>,
                    Len(versions'[o]) # Len(versions[o])
             PROVE  lock[n] = p
  BY DEF LocksFirst
<1>1. o \in Objects
  BY Fields
<1>2. ~Stamp(p) /\ versions' # versions
  BY <1>1, StampGrows
<1>3. ASSUME NEW x \in Objects, NEW v \in Values, Create(p, x, v) PROVE FALSE
  BY <1>1, <1>3, CreateGrows
<1>4. Install(p)
  BY <1>2, <1>3, Fields, Basics DEF Writes
<1>5. call[p].obj = o
  BY <1>1, <1>4, InstallGrows
<1>6. PICK m \in Nodes : lock[m] = p /\ o \in {Next(m), Marked(m)}
  BY <1>4, <1>5, SwapsLocked DEF Install
<1> QED BY <1>6, Fields

LEMMA OwnersKept ==
  ASSUME VcasInv, VcasInv', ListForm, OwnerStamps, NEW p \in Procs, Own(p),
         Moves(p), Writes(p), alloc' \subseteq Nodes, VcasStep(p) \/ UNCHANGED vcasVars
  PROVE  OwnerStamps'
<1> SUFFICES ASSUME NEW o \in Objects, versions'[o] # <<>>,
                    versions'[o][Len(versions'[o])].ts = TBD
             PROVE  \E q \in Procs : /\ vpc'[q] \in {"ts", "stamp"} /\ call'[q].kind = "stored"
                                     /\ call'[q].obj = o
  BY DEF OwnerStamps
<1>1. /\ VcasTypes /\ vpc \in [Procs -> Places] /\ call \in [Procs -> Calls \cup {NoCall}]
      /\ ix \in [Procs -> Nat] /\ timestamp \in Nat /\ curTS[p] \in Nat
  BY DEF VcasInv, VcasTypes
<1>2. ASSUME versions[o] # <<>>, versions[o][Len(versions[o])].ts = TBD,
             ~(vpc[p] \in {"ts", "stamp"} /\ call[p].kind = "stored" /\ call[p].obj = o)
      PROVE  \E q \in Procs : /\ vpc'[q] \in {"ts", "stamp"} /\ call'[q].kind = "stored"
                              /\ call'[q].obj = o
  <2>1. PICK q \in Procs : vpc[q] \in {"ts", "stamp"} /\ call[q].kind = "stored" /\ call[q].obj = o
    BY <1>2 DEF OwnerStamps
  <2>2. q # p
    BY <1>2, <2>1
  <2>3. vpc'[q] = vpc[q] /\ call'[q] = call[q]
    BY <2>2 DEF Moves, OthersCalls
  <2> QED BY <2>1, <2>3
<1>3. CASE versions' = versions
  <2>1. versions[o] # <<>> /\ versions[o][Len(versions[o])].ts = TBD
    BY <1>3
  <2>2. CASE ~(vpc[p] \in {"ts", "stamp"} /\ call[p].kind = "stored" /\ call[p].obj = o)
    BY <1>2, <2>1, <2>2
  <2>3. CASE vpc[p] \in {"ts", "stamp"} /\ call[p].kind = "stored" /\ call[p].obj = o
    <3>1. Swaps(p, o)
      BY <2>3, SwapsLocked
    <3>2. ix[p] = Len(versions[o])
      BY <2>3, <3>1 DEF Swaps
    <3>3. LoadClock(p) \/ Stamp(p) \/ UNCHANGED vcasVars
      BY <2>3 DEF VcasStep, StampStep, Install, Reload, SnapshotStep, TakeSnapshot, ReadAgain,
                  FetchAndAdd, EndSnapshot, BeginRead, BeginReadAt, BeginCas, Create, Idle
    <3>4. ~Stamp(p)
      <4>1. SUFFICES ASSUME Stamp(p) PROVE FALSE
        OBVIOUS
      <4>2. versions'[o][ix[p]].ts = curTS[p]
        BY <2>1, <2>3, <3>2, <4>1, StampGrows
      <4> QED BY <1>1, <1>3, <2>1, <3>2, <4>2 DEF TBD
    <3>5. CASE LoadClock(p)
      <4>1. vpc'[p] = "stamp" /\ call' = call
        BY <2>1, <2>3, <3>2, <3>5, LoadClockMoves DEF ListForm, OutForm
      <4> QED BY <2>3, <4>1
    <3>6. CASE UNCHANGED vcasVars
      BY <2>3, <3>6 DEF vcasVars
    <3> QED BY <3>3, <3>4, <3>5, <3>6
  <2> QED BY <2>2, <2>3
<1>4. CASE Stamp(p)
  <2>1. /\ call[p].obj \in Objects /\ ix[p] \in 1 .. Len(versions[call[p].obj]) /\ vpc[p] = "stamp"
    BY <1>4, StampGrows DEF Stamp
  <2>2. CASE call[p].obj # o
    <3>1. versions'[o] = versions[o]
      BY <1>4, <2>2, StampGrows
    <3> QED BY <1>2, <2>2, <3>1
  <2>3. CASE call[p].obj = o
    <3> DEFINE k == Len(versions[o])
    <3>1. /\ Len(versions'[o]) = k /\ k \in 1 .. k
          /\ versions'[o][k].ts = IF k = ix[p] /\ versions[o][k].ts = TBD THEN curTS[p]
                                  ELSE versions[o][k].ts
      <4>1. k \in Nat /\ Len(versions'[o]) = k
        BY <1>1, <1>4, SomeVersion, StampGrows
      <4>2. k \in 1 .. k
        BY <2>1, <2>3, <4>1
      <4> QED BY <1>4, <2>3, <4>1, <4>2, StampGrows
    <3>2. versions[o][k].ts = TBD /\ k # ix[p]
      BY <1>1, <3>1 DEF TBD
    <3>3. versions[o] # <<>>
      BY <1>1, <2>1, <2>3, SomeVersion
    <3>4. ~(vpc[p] \in {"ts", "stamp"} /\ call[p].kind = "stored" /\ call[p].obj = o)
      <4>1. SUFFICES ASSUME call[p].kind = "stored" PROVE FALSE
        BY <2>3
      <4>2. Swaps(p, o)
        BY <2>1, <2>3, <4>1, SwapsLocked
      <4> QED BY <2>1, <3>2, <4>1, <4>2 DEF Swaps
    <3> QED BY <1>2, <3>2, <3>3, <3>4
  <2> QED BY <2>2, <2>3
<1>5. CASE Install(p)
  <2>1. vpc[p] = "install"
    BY <1>5 DEF Install
  <2>2. CASE call[p].obj # o
    <3>1. versions'[o] = versions[o]
      BY <1>5, <2>2, InstallGrows
    <3> QED BY <1>2, <2>1, <3>1
  <2>3. CASE call[p].obj = o
    <3>1. Swaps(p, o)
      BY <2>1, <2>3, SwapsLocked
    <3>2. ix[p] = Len(versions[o]) /\ call[p] \in CasCalls
      BY <2>1, <3>1 DEF Swaps
    <3>3. vpc'[p] = "ts" /\ call' = [call EXCEPT ![p].kind = "stored"]
      BY <1>5, <2>3, <3>2, InstallMoves DEF ListForm, OutForm
    <3>4. call'[p].kind = "stored" /\ call'[p].obj = o
      BY <1>1, <2>3, <3>2, <3>3 DEF CasCalls
    <3> QED BY <3>3, <3>4
  <2> QED BY <2>2, <2>3
<1>6. ASSUME NEW x \in Objects, NEW v \in Values, Create(p, x, v)
      PROVE  \E q \in Procs : /\ vpc'[q] \in {"ts", "stamp"} /\ call'[q].kind = "stored"
                              /\ call'[q].obj = o
  <2>1. CASE x # o
    <3>1. versions'[o] = versions[o]
      BY <1>6, <2>1, CreateGrows
    <3>2. vpc[p] \notin {"ts", "stamp"}
      BY <1>6 DEF Create, Idle
    <3> QED BY <1>2, <3>1, <3>2
  <2>2. CASE x = o
    <3>1. versions'[o] = <<[val |-> v, ts |-> timestamp]>>
      BY <1>6, <2>2, CreateGrows
    <3> QED BY <1>1, <3>1 DEF TBD
  <2> QED BY <2>1, <2>2
<1> QED BY <1>3, <1>4, <1>5, <1>6, Fields, Basics DEF Writes

-----------------------------------------------------------------------------
(***************************************************************************)
(* Nodes that were never used have no fields, and the head has always had  *)
(* its own.                                                                *)
(***************************************************************************)
LEMMA FormKept ==
  ASSUME VcasInv, VcasInv', ListForm, NEW p \in Procs, Moves(p), Writes(p),
         alloc \subseteq alloc', ListVarTypes'
  PROVE  ListForm'
<1>1. VcasTypes /\ VcasTypes' /\ Grown /\ timestamp <= timestamp' /\ OutForm'
  BY DEF VcasInv, Moves
<1>2. timestamp \in Nat /\ timestamp' \in Nat /\ InitTime \in Nat /\ alloc' \subseteq Nodes
  BY <1>1, VcasAssumption DEF VcasTypes, ListVarTypes
<1>3. ASSUME NEW n \in Nodes \ alloc', NEW o \in {Next(n), Marked(n)}
      PROVE  versions'[o] = <<>>
  <2>1. o \in Objects /\ versions[o] = <<>>
    BY Fields DEF ListForm
  <2>2. CASE versions' = versions
    BY <2>1, <2>2
  <2>3. CASE Stamp(p)
    <3>1. call[p].obj # o
      BY <1>1, <2>1, <2>3, StampGrows, SomeVersion
    <3> QED BY <2>1, <2>3, <3>1, StampGrows
  <2>4. CASE Install(p)
    <3>1. call[p].obj # o
      BY <1>1, <2>1, <2>4, InstallGrows, SomeVersion
    <3> QED BY <2>1, <2>4, <3>1, InstallGrows
  <2>5. ASSUME NEW m \in alloc', NEW x \in {Next(m), Marked(m)}, NEW v \in Values, Create(p, x, v)
        PROVE  versions'[o] = <<>>
    <3>1. x \in Objects /\ x # o
      BY <1>2, Fields
    <3> QED BY <2>1, <2>5, <3>1, CreateGrows
  <2> QED BY <2>2, <2>3, <2>4, <2>5, Basics DEF Writes
<1>4. Born(Next(HeadNode), InitTime)' /\ Born(Marked(HeadNode), InitTime)'
  BY <1>1, BornStays, Fields, Basics DEF ListForm, Born
<1>5. InitTime <= timestamp'
  BY <1>1, <1>2 DEF ListForm
<1>6. \A n \in Nodes \ alloc' : versions'[Next(n)] = <<>> /\ versions'[Marked(n)] = <<>>
  BY <1>3
<1>7. out' = [q \in Procs |-> out'[q]]
  BY <1>1 DEF OutForm
<1> QED BY <1>4, <1>5, <1>6, <1>7 DEF ListForm

-----------------------------------------------------------------------------
(***************************************************************************)
(* The list is a client of the provider: what each of its steps does.      *)
(***************************************************************************)
Fits(p) == /\ ListVarTypes' /\ ListFrame(p) /\ Writes(p)
           /\ VcasStep(p) \/ UNCHANGED vcasVars

LEMMA ListUnchanged ==
  ASSUME ListVarTypes, NEW p \in Procs, UNCHANGED listVars
  PROVE  ListVarTypes' /\ ListFrame(p)
BY DEF listVars, lockVars, nodeVars, callVars, localVars, ListVarTypes, ListFrame

LEMMA ReadsWriteNothing ==
  ASSUME NEW p \in Procs, NEW o \in Objects, BeginRead(p, o) \/ BeginReadAt(p, o)
  PROVE  Writes(p) /\ VcasStep(p)
BY DEF BeginRead, BeginReadAt, Examine, Writes, VcasStep

LEMMA EndWritesNothing ==
  ASSUME NEW p \in Procs, EndSnapshot(p)
  PROVE  Writes(p) /\ VcasStep(p)
BY DEF EndSnapshot, Writes, VcasStep

LEMMA StampFits ==
  ASSUME VLInv, NEW p \in Procs, StampIt(p) \/ StartTraversal(p)
  PROVE  Fits(p)
<1>1. UNCHANGED listVars /\ (StampStep(p) \/ SnapshotStep(p))
  BY DEF StampIt, StartTraversal
<1>2. Writes(p)
  BY <1>1 DEF StampStep, LoadClock, SnapshotStep, TakeSnapshot, ReadAgain, FetchAndAdd, Writes
<1> QED BY <1>1, <1>2, ListUnchanged DEF Fits, VLInv, ListForm, VcasStep

LEMMA BeginSearchFits ==
  ASSUME VLInv, NEW p \in Procs, BeginSearch(p)
  PROVE  Fits(p)
<1>1. UNCHANGED listVars /\ BeginRead(p, Next(curr[p]))
  BY DEF BeginSearch
<1>2. Next(curr[p]) \in Objects
  BY Fields DEF VLInv, ListForm, ListVarTypes
<1> QED BY <1>1, <1>2, ListUnchanged, ReadsWriteNothing DEF Fits, VLInv, ListForm

LEMMA InstallFits ==
  ASSUME VLInv, NEW p \in Procs, InstallIt(p)
  PROVE  Fits(p)
<1>1. UNCHANGED listVars /\ Install(p) /\ lpc[p] \in {"unlink", "last"}
  BY DEF InstallIt
<1>2. ASSUME NEW n \in Nodes, call[p].obj = Next(n) PROVE Leads(call[p].new, timestamp)
  <2>1. curr[p] \in Nodes /\ Own(p)
    BY DEF VLInv, ListForm, ListVarTypes
  <2>2. lpc[p] # "unlink"
    BY <1>2, <2>1, Fields DEF Own, CallPlace, Swaps
  <2> QED BY <1>1, <2>1, <2>2 DEF Own, Stands
<1>3. Writes(p) /\ VcasStep(p)
  BY <1>1, <1>2 DEF Writes, VcasStep
<1> QED BY <1>1, <1>3, ListUnchanged DEF Fits, VLInv, ListForm

LEMMA CallFits ==
  ASSUME VLInv, NEW p \in Procs, VcasCall(p)
  PROVE  Fits(p)
<1>1. /\ todo[p] # <<>> /\ op' = [op EXCEPT ![p] = Head(todo[p])]
      /\ todo' = [todo EXCEPT ![p] = Tail(todo[p])]
      /\ UNCHANGED <<lock, key, alloc, pred, curr, newnode>> /\ UNCHANGED vcasVars
      /\ lpc' = [lpc EXCEPT ![p] = IF Head(todo[p]).type = "range" THEN "start" ELSE "search"]
  BY DEF VcasCall, Call, Goto, lockVars, nodeVars, localVars
<1>2. todo[p] \in Seq(Operation) /\ ListVarTypes
  BY DEF VLInv, ListForm, ListVarTypes
<1>3. Head(todo[p]) \in Operation /\ Tail(todo[p]) \in Seq(Operation)
  BY <1>1, <1>2
<1>4. ListVarTypes'
  BY <1>1, <1>2, <1>3 DEF ListVarTypes, LPCs
<1>5. ListFrame(p)
  BY <1>1, <1>2 DEF ListVarTypes, ListFrame
<1>6. Writes(p)
  BY <1>1 DEF Writes, vcasVars
<1> QED BY <1>1, <1>4, <1>5, <1>6 DEF Fits

\* The end of an operation.
LEMMA ReturnFrame ==
  ASSUME ListVarTypes, NEW p \in Procs, NEW r, NEW seen, Return(p, r, seen),
         UNCHANGED <<lock, key, alloc>>
  PROVE  ListVarTypes' /\ ListFrame(p)
<1>1. /\ op' = [op EXCEPT ![p] = [type |-> "none"]] /\ todo' = todo
      /\ pred' = [pred EXCEPT ![p] = HeadNode] /\ curr' = [curr EXCEPT ![p] = HeadNode]
      /\ newnode' = [newnode EXCEPT ![p] = HeadNode] /\ lpc' = [lpc EXCEPT ![p] = "idle"]
  BY DEF Return, Restart, Goto
<1>2. HeadNode \in Nodes
  BY Basics
<1>3. ListVarTypes'
  BY <1>1, <1>2 DEF ListVarTypes, LPCs
<1>4. ListFrame(p)
  BY <1>1, <1>2 DEF ListVarTypes, ListFrame
<1> QED BY <1>3, <1>4

\* A search that goes on.
VisitMoves(p, n) ==
  /\ pred' = [pred EXCEPT ![p] = curr[p]]
  /\ curr' = [curr EXCEPT ![p] = n]
  /\ lpc' = [lpc EXCEPT ![p] = IF Before(p, n) THEN lpc[p]
                               ELSE IF op[p].type = "contains" THEN "mark" ELSE "lockPred"]
  /\ UNCHANGED <<key, lock, alloc, todo, op, newnode>>

LEMMA VisitCases ==
  ASSUME ListVarTypes, NEW p \in Procs, NEW n, Visit(p, n), UNCHANGED <<lock, key, alloc>>
  PROVE  \/ op[p].type = "erase" /\ key[n] > op[p].lo /\ ReturnKeys(p, <<>>)
         \/ ~(op[p].type = "erase" /\ key[n] > op[p].lo) /\ VisitMoves(p, n)
<1>1. CASE op[p].type = "erase" /\ key[n] > op[p].lo
  BY <1>1 DEF Visit
<1>2. CASE ~(op[p].type = "erase" /\ key[n] > op[p].lo)
  <2>1. lpc' = [lpc EXCEPT ![p] = IF Before(p, n) THEN lpc[p]
                                  ELSE IF op[p].type = "contains" THEN "mark" ELSE "lockPred"]
    <3>1. CASE Before(p, n)
      BY <1>2, <3>1 DEF Visit, ListVarTypes
    <3>2. CASE ~Before(p, n)
      BY <1>2, <3>2 DEF Visit, Goto
    <3> QED BY <3>1, <3>2
  <2> QED BY <1>2, <2>1 DEF Visit, VisitMoves, callVars
<1> QED BY <1>1, <1>2

LEMMA SearchFits ==
  ASSUME VLInv, NEW p \in Procs, SearchOn(p)
  PROVE  Fits(p)
<1> DEFINE n == out[p]
<1>1. /\ lpc[p] = "search" /\ Visit(p, n) /\ UNCHANGED <<lock, key, alloc>>
      /\ BeginRead(p, Next(n)) \/ BeginRead(p, Marked(n)) \/ EndSnapshot(p)
      /\ vpc[p] = "done"
  BY DEF SearchOn, lockVars, nodeVars
<1>2. n \in Nodes /\ ListVarTypes
  BY <1>1 DEF VLInv, Own, Stands, Leads, ListForm, ListVarTypes
<1>3. Writes(p) /\ VcasStep(p)
  BY <1>1, <1>2, Fields, ReadsWriteNothing, EndWritesNothing
<1>4. CASE ReturnKeys(p, <<>>)
  BY <1>1, <1>2, <1>3, <1>4, ReturnFrame DEF ReturnKeys, Fits
<1>5. CASE VisitMoves(p, n)
  <2>1. ListVarTypes'
    BY <1>1, <1>2, <1>5 DEF VisitMoves, ListVarTypes, LPCs
  <2>2. ListFrame(p)
    BY <1>1, <1>2, <1>5 DEF VisitMoves, ListVarTypes, ListFrame
  <2> QED BY <1>3, <2>1, <2>2 DEF Fits
<1> QED BY <1>1, <1>2, <1>4, <1>5, VisitCases

LEMMA EndFits ==
  ASSUME VLInv, NEW p \in Procs, EndContains(p) \/ EndQuery(p)
  PROVE  Fits(p)
<1>1. PICK r, seen : Return(p, r, seen) /\ UNCHANGED <<lock, key, alloc>> /\ EndSnapshot(p)
  BY DEF EndContains, EndQuery, ReturnKeys, lockVars, nodeVars
<1> QED BY <1>1, ReturnFrame, EndWritesNothing DEF Fits, VLInv, ListForm

LEMMA ChangedFits ==
  ASSUME VLInv, NEW p \in Procs, Changed(p)
  PROVE  Fits(p)
<1>1. /\ lpc' = [lpc EXCEPT ![p] = "unlockCurr"] /\ EndSnapshot(p)
      /\ UNCHANGED <<lock, key, alloc, todo, op, pred, curr, newnode>>
  BY DEF Changed, Decide, Goto, lockVars, nodeVars, callVars
<1>2. ListVarTypes
  BY DEF VLInv, ListForm
<1>3. ListVarTypes' /\ ListFrame(p)
  BY <1>1, <1>2 DEF ListVarTypes, ListFrame, LPCs, HoldPCs, ChangePCs
<1> QED BY <1>1, <1>3, EndWritesNothing DEF Fits

LEMMA LockFits ==
  ASSUME VLInv, NEW p \in Procs, VcasLock(p) \/ VcasValidate(p)
  PROVE  Fits(p)
<1>1. ListVarTypes /\ HeadNode \in Nodes /\ NoProc \notin Procs
  BY Basics DEF VLInv, ListForm
<1>2. UNCHANGED vcasVars /\ Writes(p)
  BY DEF VcasLock, VcasValidate, Writes, vcasVars
<1>3. \A n \in Nodes : lock[n] # p => lock'[n] = lock[n] \/ lock[n] = NoProc
  <2>1. CASE VcasValidate(p)
    BY <2>1 DEF VcasValidate, Validate, lockVars
  <2>2. CASE LockPred(p) \/ LockCurr(p)
    BY <1>1, <2>2 DEF LockPred, LockCurr, AcquireLock, ListVarTypes
  <2>3. CASE UnlockCurr(p)
    <3>1. lpc[p] = "unlockCurr" /\ lock' = [lock EXCEPT ![curr[p]] = NoProc]
      BY <2>3 DEF UnlockCurr, ReleaseLock
    <3>2. lock[curr[p]] = p
      BY <3>1 DEF VLInv, Own, HoldsLocks, ChangePCs
    <3> QED BY <1>1, <3>1, <3>2 DEF ListVarTypes
  <2>4. CASE UnlockPred(p)
    <3>1. lpc[p] = "unlockPred" /\ lock' = [lock EXCEPT ![pred[p]] = NoProc]
      BY <2>4 DEF UnlockPred, ReleaseLock
    <3>2. lock[pred[p]] = p
      BY <3>1 DEF VLInv, Own, HoldsLocks, HoldPCs
    <3> QED BY <1>1, <3>1, <3>2 DEF ListVarTypes
  <2> QED BY <2>1, <2>2, <2>3, <2>4 DEF VcasLock, LockStep
<1>4. /\ ListVarTypes' /\ UNCHANGED <<key, alloc>>
      /\ \A q \in Procs : q # p => /\ lpc'[q] = lpc[q] /\ op'[q] = op[q] /\ pred'[q] = pred[q]
                                   /\ curr'[q] = curr[q] /\ newnode'[q] = newnode[q]
  <2>1. CASE VcasValidate(p)
    <3>1. /\ UNCHANGED <<lock, key, alloc, todo, op, pred, curr, newnode>>
          /\ lpc' = [lpc EXCEPT ![p] = "unlockCurr"] \/ lpc' = [lpc EXCEPT ![p] = "change"]
      BY <2>1 DEF VcasValidate, Validate, Decide, Goto, lockVars, nodeVars, callVars
    <3> QED BY <1>1, <3>1 DEF ListVarTypes, LPCs, HoldPCs, ChangePCs
  <2>2. CASE LockPred(p) \/ LockCurr(p) \/ UnlockCurr(p)
    <3>1. /\ UNCHANGED <<key, alloc, todo, op, pred, curr, newnode>>
          /\ \E l \in {"lockCurr", "validate", "unlockPred"} : lpc' = [lpc EXCEPT ![p] = l]
      BY <2>2 DEF LockPred, LockCurr, UnlockCurr, Goto, nodeVars, callVars, localVars
    <3>2. \/ lock' = [lock EXCEPT ![pred[p]] = p] \/ lock' = [lock EXCEPT ![curr[p]] = p]
          \/ lock' = [lock EXCEPT ![curr[p]] = NoProc]
      BY <2>2 DEF LockPred, LockCurr, UnlockCurr, AcquireLock, ReleaseLock
    <3>3. lock' \in [Nodes -> Procs \cup {NoProc}]
      BY <1>1, <3>2 DEF ListVarTypes
    <3> QED BY <1>1, <3>1, <3>3 DEF ListVarTypes, LPCs, HoldPCs, ChangePCs
  <2>3. CASE UnlockPred(p)
    <3>1. UNCHANGED <<key, alloc>> /\ lock' = [lock EXCEPT ![pred[p]] = NoProc]
      BY <2>3 DEF UnlockPred, ReleaseLock, nodeVars
    <3>2. lock' \in [Nodes -> Procs \cup {NoProc}]
      BY <1>1, <3>1 DEF ListVarTypes
    <3>3. CASE verdict[p] = "retry"
      <4>1. /\ pred' = [pred EXCEPT ![p] = HeadNode] /\ curr' = [curr EXCEPT ![p] = HeadNode]
            /\ lpc' = [lpc EXCEPT ![p] = "search"] /\ UNCHANGED <<todo, op, newnode>>
        BY <2>3, <3>3 DEF UnlockPred, Restart, Goto, callVars
      <4> QED BY <1>1, <3>1, <3>2, <4>1 DEF ListVarTypes, LPCs
    <3>4. CASE verdict[p] # "retry"
      <4>1. /\ op' = [op EXCEPT ![p] = [type |-> "none"]] /\ todo' = todo
            /\ pred' = [pred EXCEPT ![p] = HeadNode] /\ curr' = [curr EXCEPT ![p] = HeadNode]
            /\ newnode' = [newnode EXCEPT ![p] = HeadNode] /\ lpc' = [lpc EXCEPT ![p] = "idle"]
        BY <2>3, <3>4 DEF UnlockPred, ReturnKeys, Return, Restart, Goto
      <4> QED BY <1>1, <3>1, <3>2, <4>1 DEF ListVarTypes, LPCs
    <3> QED BY <3>3, <3>4
  <2> QED BY <2>1, <2>2, <2>3 DEF VcasLock, LockStep
<1>5. ListFrame(p)
  BY <1>1, <1>3, <1>4 DEF ListFrame
<1> QED BY <1>2, <1>4, <1>5 DEF Fits

LEMMA NewFits ==
  ASSUME VLInv, NEW p \in Procs, NewNode(p) \/ NewLink(p)
  PROVE  Fits(p)
<1>1. ListVarTypes /\ Own(p)
  BY DEF VLInv, ListForm
<1>2. ASSUME NEW o \in Objects, NEW v \in Values, Create(p, o, v) PROVE VcasStep(p)
  BY <1>2 DEF VcasStep
<1>3. CASE NewNode(p)
  <2>1. PICK n \in Nodes : Allocate(p, n) /\ Create(p, Marked(n), 0)
    BY <1>3 DEF NewNode
  <2>2. /\ lpc' = [lpc EXCEPT ![p] = "new"] /\ n \notin alloc /\ alloc' = alloc \cup {n}
        /\ key' = [key EXCEPT ![n] = op[p].lo] /\ newnode' = [newnode EXCEPT ![p] = n]
        /\ UNCHANGED <<lock, todo, op, pred, curr>> /\ lpc[p] = "change"
    BY <1>3, <2>1 DEF NewNode, Allocate, Goto, lockVars, callVars
  <2>3. op[p].lo \in Int
    BY <1>1, <2>2, KeysBelowMax DEF Own, Stands, VLInv
  <2>4. ListVarTypes'
    BY <1>1, <2>2, <2>3 DEF ListVarTypes, LPCs, HoldPCs, ChangePCs
  <2>5. ListFrame(p)
    BY <1>1, <2>2 DEF ListVarTypes, ListFrame
  <2>6. Writes(p) /\ VcasStep(p)
    BY <1>2, <2>1, <2>2, Fields, Basics DEF Writes
  <2> QED BY <2>4, <2>5, <2>6 DEF Fits
<1>4. CASE NewLink(p)
  <2>1. /\ lpc' = [lpc EXCEPT ![p] = "link"] /\ Create(p, Next(newnode[p]), curr[p])
        /\ UNCHANGED <<lock, key, alloc, todo, op, pred, curr, newnode>> /\ lpc[p] = "new"
    BY <1>4 DEF NewLink, Goto, lockVars, nodeVars, callVars, localVars
  <2>2. ListVarTypes' /\ ListFrame(p)
    BY <1>1, <2>1 DEF ListVarTypes, ListFrame, LPCs, HoldPCs, ChangePCs
  <2>3. newnode[p] \in alloc' /\ curr[p] \in Nodes /\ Leads(curr[p], timestamp)
    BY <1>1, <2>1 DEF Own, Stands, ListVarTypes
  <2>4. Writes(p)
    BY <2>1, <2>3 DEF Writes
  <2>5. VcasStep(p)
    BY <1>1, <1>2, <2>1, <2>3, Fields, Basics DEF ListVarTypes
  <2> QED BY <2>2, <2>4, <2>5 DEF Fits
<1> QED BY <1>3, <1>4

\* What the changes of the list ask of cas_vcas.
LEMMA SwapFits ==
  ASSUME VLInv, VcasInv, NEW p \in Procs, Link(p) \/ Mark(p) \/ Unlink(p)
  PROVE  Fits(p)
<1>1. ListVarTypes /\ Own(p) /\ VcasTypes
  BY DEF VLInv, ListForm, VcasInv
<1>2. PICK o, old, new :
        /\ BeginCas(p, o, old, new)
        /\ \/ Link(p) /\ o = Next(pred[p]) /\ old = curr[p] /\ new = newnode[p]
           \/ Mark(p) /\ o = Marked(curr[p]) /\ old = 0 /\ new = 1
           \/ Unlink(p) /\ o = Next(pred[p]) /\ old = curr[p] /\ new = Newest(Next(curr[p]))
  BY DEF Link, Mark, Unlink
<1>3. /\ UNCHANGED <<lock, key, alloc, todo, op, pred, curr, newnode>>
      /\ lpc' = [lpc EXCEPT ![p] = "last"] \/ lpc' = [lpc EXCEPT ![p] = "unlink"]
  BY DEF Link, Mark, Unlink, Goto, lockVars, nodeVars, callVars, localVars
<1>4. ListVarTypes' /\ ListFrame(p)
  BY <1>1, <1>3 DEF ListVarTypes, ListFrame, LPCs, HoldPCs, ChangePCs
<1>5. pred[p] \in Nodes /\ curr[p] \in Nodes /\ newnode[p] \in Nodes
  BY <1>1 DEF ListVarTypes
<1>6. Newest(Next(curr[p])) \in Values
  <2>1. Next(curr[p]) \in Objects /\ versions[Next(curr[p])] # <<>>
    BY <1>1, <1>5, Fields DEF Own, Stands, Leads, Born
  <2> QED BY <1>1, <2>1, SomeVersion DEF Newest, Version
<1>7. o \in Objects /\ old \in Values /\ new \in Values
  BY <1>2, <1>5, <1>6, Fields, Basics
<1>8. VcasStep(p) /\ versions' = versions
  BY <1>2, <1>7 DEF VcasStep, BeginCas, Examine
<1> QED BY <1>4, <1>8 DEF Fits, Writes

LEMMA QueryFits ==
  ASSUME VLInv, NEW p \in Procs, BeginTraversal(p) \/ QueryOn(p) \/ TryAdd(p)
  PROVE  Fits(p)
<1>1. ListVarTypes /\ Own(p) /\ HeadNode \in Nodes
  BY Basics DEF VLInv, ListForm
<1>2. QueryOn(p) => out[p] \in Nodes
  BY <1>1 DEF QueryOn, Own, Queries, Leads, ListVarTypes
<1>3. ListVarTypes' /\ ListFrame(p)
  <2>1. /\ UNCHANGED <<lock, key, alloc, todo, op, pred, newnode>>
        /\ curr' = curr \/ (QueryOn(p) /\ curr' = [curr EXCEPT ![p] = out[p]])
        /\ lpc' = lpc \/ \E l \in {"query", "add"} : lpc' = [lpc EXCEPT ![p] = l]
    BY DEF BeginTraversal, QueryOn, TryAdd, Goto, lockVars, nodeVars, callVars, localVars
  <2> QED BY <1>1, <1>2, <2>1 DEF ListVarTypes, ListFrame, LPCs
<1>4. \E n \in Nodes : BeginReadAt(p, Next(n)) \/ BeginReadAt(p, Marked(n))
  <2>1. CASE BeginTraversal(p)
    BY <1>1, <2>1 DEF BeginTraversal
  <2>2. CASE QueryOn(p)
    BY <1>1, <1>2, <2>2 DEF QueryOn
  <2>3. CASE TryAdd(p)
    <3>1. curr[p] \in Nodes /\ BeginReadAt(p, Next(curr[p]))
      BY <1>1, <2>3 DEF TryAdd, ListVarTypes
    <3> QED BY <3>1
  <2> QED BY <2>1, <2>2, <2>3
<1>5. Writes(p) /\ VcasStep(p)
  BY <1>4, Fields, ReadsWriteNothing
<1> QED BY <1>3, <1>5 DEF Fits

LEMMA StepFits ==
  ASSUME VLInv, VcasInv, NEW p \in Procs, VcasCall(p) \/ ListStep(p)
  PROVE  Fits(p)
BY StampFits, BeginSearchFits, InstallFits, CallFits, SearchFits, EndFits, ChangedFits, LockFits,
   NewFits, SwapFits, QueryFits DEF ListStep

-----------------------------------------------------------------------------
(***************************************************************************)
(* What p has read, and where it stands after its step.                    *)
(***************************************************************************)

\* Leads, in the next state.
LeadsThen(m, t) ==
  m \in alloc' /\ versions'[Next(m)] # <<>> /\ versions'[Next(m)][1].ts # TBD
  /\ versions'[Next(m)][1].ts <= t

Around(p) ==
  VcasInv /\ VcasInv' /\ VLInv /\ Moves(p) /\ Fits(p) /\ ListForm' /\ ListLinks'

LEMMA Surroundings ==
  ASSUME NEW p \in Procs, Around(p)
  PROVE  /\ VcasTypes /\ VcasTypes' /\ Grown /\ alloc \subseteq alloc' /\ alloc' \subseteq Nodes
         /\ timestamp \in Nat /\ timestamp' \in Nat /\ timestamp <= timestamp'
         /\ InitTime \in Nat /\ InitTime <= timestamp /\ InitTime <= timestamp'
         /\ snap[p] \in Int /\ snap'[p] \in Int /\ Own(p) /\ ListVarTypes /\ ListVarTypes'
<1>1. VcasTypes /\ VcasTypes' /\ Grown /\ timestamp <= timestamp'
  BY DEF Around, Moves, VcasInv
<1>2. /\ timestamp \in Nat /\ timestamp' \in Nat /\ InitTime \in Nat
      /\ snap[p] \in Int /\ snap'[p] \in Int
  BY <1>1, VcasAssumption DEF VcasTypes, NoTS
<1>3. alloc \subseteq alloc' /\ alloc' \subseteq Nodes
  BY DEF Around, Fits, ListFrame, ListVarTypes
<1> QED BY <1>1, <1>2, <1>3 DEF Around, VLInv, ListForm, Fits

LEMMA LeadsOn ==
  ASSUME NEW p \in Procs, Around(p)
  PROVE  /\ \A m : Leads(m, timestamp) => LeadsThen(m, timestamp')
         /\ \A m : Leads(m, snap[p]) => LeadsThen(m, snap[p])
         /\ LeadsThen(HeadNode, timestamp')
         /\ snap'[p] # NoTS /\ InitTime <= snap'[p] => LeadsThen(HeadNode, snap'[p])
<1>1. /\ VcasTypes /\ VcasTypes' /\ Grown /\ alloc \subseteq alloc' /\ alloc \subseteq Nodes
      /\ timestamp \in Int /\ timestamp' \in Int /\ timestamp <= timestamp' /\ snap[p] \in Int
      /\ InitTime \in Int /\ InitTime <= timestamp' /\ snap'[p] \in Int /\ snap[p] <= snap[p]
  BY Surroundings
<1>2. \A m : \A s, t \in Int : Leads(m, s) /\ s <= t => LeadsThen(m, t)
  BY <1>1, LeadsStays DEF LeadsThen
<1>3. Leads(HeadNode, InitTime)
  BY DEF Around, VLInv, ListForm, ListVarTypes, Leads
<1> QED BY <1>1, <1>2, <1>3

\* The answer of a link.
LEMMA LinkAnswered ==
  ASSUME NEW p \in Procs, Around(p), NEW k, NEW n \in Nodes, n # MaxNode,
         Answered(p, k, Next(n)), vpc'[p] = "done"
  PROVE  /\ LeadsThen(out'[p], timestamp')
         /\ k = "readAt" => LeadsThen(out'[p], snap[p])
<1> DEFINE vs == versions'[Next(n)]
<1>1. PICK j \in 1 .. Len(vs) :
         vs[j].ts # TBD /\ out'[p] = vs[j].val /\ (k = "readAt" => vs[j].ts <= snap[p])
  BY DEF Answered
<1>2. LeadsThen(out'[p], vs[j].ts)
  <2>1. LinkVersion(n, j)'
    BY DEF Around, ListLinks, LinkVersion
  <2> QED BY <1>1, <2>1 DEF LinkVersion, Leads, Born, LeadsThen
<1>3. vs[j] \in Version /\ vs[j].ts <= timestamp'
  <2>1. Next(n) \in Objects /\ VcasTypes' /\ versions' \in [Objects -> Seq(Version)]
    BY Fields, Surroundings DEF VcasTypes
  <2>2. vs[j] \in Version
    BY <2>1, ElementOfSeq
  <2>3. Ordered(vs, timestamp')
    BY <2>1 DEF Around, VcasInv
  <2> QED BY <2>2, <2>3 DEF Ordered
<1>4. vs[j].ts \in Int /\ snap[p] \in Int /\ timestamp' \in Int
  BY <1>3, Surroundings DEF Version, TBD
<1> HIDE DEF vs
<1>5. versions'[Next(out'[p])][1].ts \in Int
  <2>1. out'[p] \in Nodes /\ VcasTypes' /\ versions' \in [Objects -> Seq(Version)]
    BY <1>2, Surroundings DEF LeadsThen, VcasTypes
  <2>2. Next(out'[p]) \in Objects
    BY <2>1, Fields
  <2>3. versions'[Next(out'[p])] \in Seq(Version) /\ versions'[Next(out'[p])] # <<>>
    BY <1>2, <2>1, <2>2 DEF LeadsThen
  <2>4. 1 \in 1 .. Len(versions'[Next(out'[p])])
    BY <2>3, EmptySeq, LenProperties
  <2>5. versions'[Next(out'[p])][1] \in Version
    BY <2>3, <2>4, ElementOfSeq
  <2> QED BY <2>5 DEF Version, TBD
<1> QED BY <1>1, <1>2, <1>3, <1>4, <1>5 DEF LeadsThen

LEMMA SomethingAnswered ==
  ASSUME NEW p \in Procs, Around(p), NEW k, NEW o \in Objects, Answered(p, k, o), vpc'[p] = "done"
  PROVE  out'[p] # NoVal
<1>1. PICK j \in 1 .. Len(versions'[o]) : out'[p] = versions'[o][j].val
  BY DEF Answered
<1>2. versions'[o] \in Seq(Version)
  BY Surroundings DEF VcasTypes
<1>3. versions'[o][j] \in Version
  BY <1>2, ElementOfSeq
<1> QED BY <1>1, <1>3, Basics DEF Version

-----------------------------------------------------------------------------
(***************************************************************************)
(* cas_vcas on a field of a locked node.                                   *)
(***************************************************************************)
LEMMA SwapStamps ==
  ASSUME VcasInv, OutForm, NEW p \in Procs, NEW o \in Objects, StampStep(p), Swaps(p, o)
  PROVE  Swaps(p, o)' /\ call' = call /\ snap' = snap
<1>1. vpc[p] \in {"ts", "stamp"}
  BY DEF StampStep, LoadClock, Stamp
<1>2. /\ call[p] \in CasCalls /\ call[p].obj = o /\ call[p].kind = "stored"
      /\ ix[p] = Len(versions[o]) /\ vpc \in [Procs -> Places]
  BY <1>1 DEF Swaps, VcasInv, VcasTypes
<1>3. ASSUME NEW vs, Proceed(p, call[p], ix[p], vs) PROVE vpc'[p] = "done"
  BY <1>2, <1>3 DEF Proceed, Reply, At
<1>4. CASE LoadClock(p)
  <2>1. call' = call /\ snap' = snap /\ versions' = versions
    BY <1>4 DEF LoadClock
  <2>2. CASE versions[o][ix[p]].ts # TBD
    <3>1. vpc'[p] = "done"
      BY <1>2, <1>3, <1>4, <2>2 DEF LoadClock
    <3> QED BY <1>2, <2>1, <3>1 DEF Swaps
  <2>3. CASE versions[o][ix[p]].ts = TBD
    <3>1. vpc'[p] = "stamp" /\ ix' = ix
      BY <1>2, <1>4, <2>3, LoadClockMoves
    <3> QED BY <1>2, <2>1, <3>1 DEF Swaps
  <2> QED BY <2>2, <2>3
<1>5. CASE Stamp(p)
  <2>1. call' = call /\ snap' = snap
    BY <1>5 DEF Stamp
  <2>2. vpc'[p] = "done"
    BY <1>3, <1>5 DEF Stamp
  <2> QED BY <1>2, <2>1, <2>2 DEF Swaps
<1> QED BY <1>4, <1>5 DEF StampStep

LEMMA SwapInstalls ==
  ASSUME VcasInv, OutForm, NEW p \in Procs, NEW o \in Objects, Install(p), Swaps(p, o)
  PROVE  Swaps(p, o)' /\ call'[p].new = call[p].new /\ snap' = snap
<1>1. vpc[p] = "install"
  BY DEF Install
<1>2. call[p] \in CasCalls /\ call[p].obj = o /\ ix[p] = Len(versions[o])
  BY <1>1 DEF Swaps
<1>3. /\ call' = [call EXCEPT ![p].kind = "stored"] /\ snap' = snap
      /\ vpc'[p] = "ts" /\ ix'[p] = ix[p] + 1
  BY <1>2, InstallMoves
<1>4. call'[p] \in CasCalls /\ call'[p].obj = o /\ call'[p].kind = "stored"
      /\ call'[p].new = call[p].new
  <2>1. call \in [Procs -> Calls \cup {NoCall}]
    BY DEF VcasInv, VcasTypes
  <2> QED BY <1>2, <1>3, <2>1 DEF CasCalls
<1>5. Len(versions'[o]) = ix[p] + 1
  BY <1>2, InstallGrows
<1> QED BY <1>3, <1>4, <1>5 DEF Swaps

\* The newest version has a timestamp, so it is on top of that one that p swaps.
LEMMA SwapBegins ==
  ASSUME VcasInv, VLInv, NEW p \in Procs, NEW n \in Nodes, lock[n] = p,
         NEW o \in {Next(n), Marked(n)}, NEW old \in Values, NEW new \in Values,
         BeginCas(p, o, old, new)
  PROVE  Swaps(p, o)' /\ call'[p].new = new /\ snap' = snap
<1> DEFINE c == [kind |-> "cas", obj |-> o, old |-> old, new |-> new]
           vs == versions[o]
<1>1. Examine(p, c) /\ vpc[p] \in {"idle", "done"}
  BY DEF BeginCas, Idle
<1>2. vs # <<>> /\ call' = [call EXCEPT ![p] = c] /\ versions' = versions /\ snap' = snap
  BY <1>1 DEF Examine
<1>3. vs[Len(vs)].ts # TBD
  <2>1. SUFFICES ASSUME vs[Len(vs)].ts = TBD PROVE FALSE
    OBVIOUS
  <2>2. PICK q \in Procs : lock[n] = q /\ vpc[q] \in {"ts", "stamp"}
    BY <1>2, <2>1, InvProtects DEF LocksProtect
  <2> QED BY <1>1, <2>2
<1>4. Proceed(p, c, Len(vs), vs)
  BY <1>1, <1>3 DEF Examine
<1>5. /\ vpc \in [Procs -> Places] /\ ix \in [Procs -> Nat]
      /\ call \in [Procs -> Calls \cup {NoCall}]
  BY DEF VcasInv, VcasTypes
<1>6. o \in Objects
  BY Fields
<1>7. call'[p] = c /\ c \in CasCalls /\ c.obj = o /\ c.kind = "cas" /\ c.new = new
  BY <1>2, <1>5, <1>6 DEF CasCalls
<1>8. vpc'[p] = "done" \/ (vpc'[p] = "install" /\ ix'[p] = Len(vs))
  BY <1>4, <1>5 DEF Proceed, Reply, Look, At
<1> HIDE DEF c
<1> QED BY <1>2, <1>7, <1>8 DEF Swaps

-----------------------------------------------------------------------------
(***************************************************************************)
(* The process that takes a step: where it is afterwards.                  *)
(***************************************************************************)

\* Steps inside a call of the provider.
LEMMA OwnInside ==
  ASSUME NEW p \in Procs, Around(p), UNCHANGED listVars, snap'[p] = snap[p], CallPlace(p)',
         lpc[p] = "last" => call'[p].new = call[p].new,
         lpc[p] = "search" /\ vpc'[p] = "done" => LeadsThen(out'[p], timestamp'),
         lpc[p] = "query" /\ vpc'[p] = "done" => LeadsThen(out'[p], snap[p]),
         lpc[p] = "add" /\ vpc'[p] = "done" => out'[p] # NoVal
  PROVE  Own(p)'
<1>1. UNCHANGED <<lock, key, alloc, lpc, op, pred, curr, newnode>>
  BY DEF listVars, lockVars, nodeVars, callVars, localVars
<1>2. /\ \A m : Leads(m, timestamp) => LeadsThen(m, timestamp')
      /\ \A m : Leads(m, snap[p]) => LeadsThen(m, snap[p])
  BY LeadsOn
<1>3. Own(p) /\ timestamp \in Int /\ timestamp' \in Int /\ timestamp <= timestamp' /\ snap[p] \in Int
  BY Surroundings
<1>4. HoldsLocks(p)'
  BY <1>1, <1>3 DEF Own, HoldsLocks
<1>5. Stands(p)'
  BY <1>1, <1>2, <1>3 DEF Own, Stands, Leads, Born, LeadsThen
<1>6. Queries(p)'
  <2>1. snap[p] # NoTS => InitTime <= snap[p] /\ snap[p] <= timestamp'
    BY <1>3 DEF Own, Queries
  <2> QED BY <1>1, <1>2, <1>3, <2>1 DEF Own, Queries, Leads, Born, LeadsThen
<1> QED BY <1>4, <1>5, <1>6 DEF Own

LEMMA StampOwn ==
  ASSUME NEW p \in Procs, Around(p), StampIt(p)
  PROVE  Own(p)'
<1>1. StampStep(p) /\ UNCHANGED listVars /\ vpc[p] \in {"ts", "stamp"}
  BY DEF StampIt, StampStep, LoadClock, Stamp
<1>2. /\ Own(p) /\ OutForm /\ VcasInv /\ VcasInv' /\ lpc[p] \in LPCs
      /\ curr[p] \in Nodes /\ pred[p] \in Nodes /\ HeadNode \in Nodes
  BY Surroundings, Basics DEF Around, VLInv, ListForm, OutForm, ListVarTypes
<1>3. lpc' = lpc /\ curr' = curr /\ pred' = pred
  BY <1>1 DEF listVars, localVars
<1>4. /\ Next(curr[p]) \in Objects /\ Marked(curr[p]) \in Objects
      /\ Next(pred[p]) \in Objects /\ Marked(HeadNode) \in Objects
  BY <1>2, Fields
<1>5. lpc[p] \in {"search", "mark", "unlink", "last", "query", "add"}
  BY <1>1, <1>2 DEF Own, CallPlace, LPCs, HoldPCs, ChangePCs
<1>6. ASSUME NEW o \in Objects, Reads(p, "read", o)
      PROVE  Reads(p, "read", o)' /\ Answered(p, "read", o) /\ snap' = snap
  <2>1. /\ vpc'[p] \in {"ts", "stamp", "done"} /\ call'[p] = [kind |-> "read", obj |-> o]
        /\ Answered(p, "read", o) /\ snap' = snap
    BY <1>1, <1>2, <1>6, ReadOn DEF Reads, OutForm
  <2> QED BY <2>1 DEF Reads
<1>7. ASSUME NEW o \in Objects, Reads(p, "readAt", o), Born(o, snap[p])
      PROVE  Reads(p, "readAt", o)' /\ Answered(p, "readAt", o) /\ snap' = snap
  <2>1. /\ vpc'[p] \in {"ts", "stamp", "done"} /\ call'[p] = [kind |-> "readAt", obj |-> o]
        /\ Answered(p, "readAt", o) /\ snap' = snap
    BY <1>1, <1>2, <1>7, ReadOn DEF Reads, OutForm
  <2> QED BY <2>1 DEF Reads
<1>8. CASE lpc[p] = "search"
  <2>1. Reads(p, "read", Next(curr[p])) /\ curr[p] # MaxNode
    BY <1>1, <1>2, <1>8 DEF Own, CallPlace, Stands
  <2>2. Reads(p, "read", Next(curr[p]))' /\ Answered(p, "read", Next(curr[p])) /\ snap' = snap
    BY <1>3, <1>4, <1>6, <2>1 DEF Reads
  <2>3. vpc'[p] = "done" => LeadsThen(out'[p], timestamp')
    BY <1>2, <2>1, <2>2, LinkAnswered
  <2>4. CallPlace(p)'
    BY <1>3, <1>8, <2>2 DEF CallPlace, HoldPCs, ChangePCs
  <2> QED BY <1>1, <1>8, <2>2, <2>3, <2>4, OwnInside
<1>9. CASE lpc[p] = "mark"
  <2>1. Reads(p, "read", Marked(curr[p]))
    BY <1>1, <1>2, <1>9 DEF Own, CallPlace
  <2>2. Reads(p, "read", Marked(curr[p]))' /\ snap' = snap
    BY <1>3, <1>4, <1>6, <2>1 DEF Reads
  <2>3. CallPlace(p)'
    BY <1>3, <1>9, <2>2 DEF CallPlace, HoldPCs, ChangePCs
  <2> QED BY <1>1, <1>9, <2>2, <2>3, OwnInside
<1>10. CASE lpc[p] = "unlink"
  <2>1. Swaps(p, Marked(curr[p]))
    BY <1>2, <1>10 DEF Own, CallPlace
  <2>2. Swaps(p, Marked(curr[p]))' /\ snap' = snap
    BY <1>1, <1>2, <1>3, <1>4, <2>1, SwapStamps DEF Swaps
  <2>3. CallPlace(p)'
    BY <1>3, <1>10, <2>2 DEF CallPlace, HoldPCs, ChangePCs
  <2> QED BY <1>1, <1>10, <2>2, <2>3, OwnInside
<1>11. CASE lpc[p] = "last"
  <2>1. Swaps(p, Next(pred[p]))
    BY <1>2, <1>11 DEF Own, CallPlace
  <2>2. Swaps(p, Next(pred[p]))' /\ snap' = snap /\ call' = call
    BY <1>1, <1>2, <1>3, <1>4, <2>1, SwapStamps DEF Swaps
  <2>3. CallPlace(p)'
    BY <1>3, <1>11, <2>2 DEF CallPlace, HoldPCs, ChangePCs
  <2> QED BY <1>1, <1>11, <2>2, <2>3, OwnInside
<1>12. CASE lpc[p] = "query"
  <2>1. Reads(p, "readAt", Next(curr[p])) /\ curr[p] # MaxNode /\ Born(Next(curr[p]), snap[p])
    BY <1>2, <1>12 DEF Own, CallPlace, Stands, Queries, Leads
  <2>2. Reads(p, "readAt", Next(curr[p]))' /\ Answered(p, "readAt", Next(curr[p])) /\ snap' = snap
    BY <1>3, <1>4, <1>7, <2>1 DEF Reads
  <2>3. vpc'[p] = "done" => LeadsThen(out'[p], snap[p])
    BY <1>2, <2>1, <2>2, LinkAnswered
  <2>4. CallPlace(p)'
    BY <1>3, <1>12, <2>2 DEF CallPlace, HoldPCs, ChangePCs
  <2> QED BY <1>1, <1>12, <2>2, <2>3, <2>4, OwnInside
<1>13. CASE lpc[p] = "add"
  <2>1. Reads(p, "readAt", Marked(HeadNode)) /\ Born(Marked(HeadNode), snap[p])
    <3>1. Born(Marked(HeadNode), InitTime) /\ InitTime <= snap[p]
      BY <1>2, <1>13 DEF Own, Queries, Around, VLInv, ListForm
    <3>2. InitTime \in Int /\ snap[p] \in Int /\ VcasTypes
      BY Surroundings
    <3> QED BY <1>2, <1>4, <1>13, <3>1, <3>2, BornLater DEF Own, CallPlace
  <2>2. /\ Reads(p, "readAt", Marked(HeadNode))' /\ Answered(p, "readAt", Marked(HeadNode))
        /\ snap' = snap
    BY <1>4, <1>7, <2>1
  <2>3. vpc'[p] = "done" => out'[p] # NoVal
    BY <1>4, <2>2, SomethingAnswered
  <2>4. CallPlace(p)'
    BY <1>3, <1>13, <2>2 DEF CallPlace, HoldPCs, ChangePCs
  <2> QED BY <1>1, <1>13, <2>2, <2>3, <2>4, OwnInside
<1> QED BY <1>5, <1>8, <1>9, <1>10, <1>11, <1>12, <1>13

LEMMA BeginSearchOwn ==
  ASSUME NEW p \in Procs, Around(p), BeginSearch(p)
  PROVE  Own(p)'
<1> DEFINE o == Next(curr[p])
<1>1. /\ lpc[p] = "search" /\ UNCHANGED listVars
      /\ Examine(p, [kind |-> "read", obj |-> o])
  BY DEF BeginSearch, BeginRead
<1>2. Own(p) /\ OutForm /\ VcasInv /\ VcasInv' /\ curr[p] \in Nodes
  BY Surroundings DEF Around, VLInv, ListForm, OutForm, ListVarTypes
<1>3. lpc' = lpc /\ curr' = curr
  BY <1>1 DEF listVars, localVars
<1>4. o \in Objects /\ curr[p] # MaxNode
  BY <1>1, <1>2, Fields DEF Own, Stands
<1>5. /\ vpc'[p] \in {"ts", "stamp", "done"} /\ call'[p] = [kind |-> "read", obj |-> o]
      /\ Answered(p, "read", o) /\ snap' = snap
  BY <1>1, <1>2, <1>4, ReadOn DEF OutForm
<1>6. vpc'[p] = "done" => LeadsThen(out'[p], timestamp')
  BY <1>2, <1>4, <1>5, LinkAnswered
<1>7. CallPlace(p)'
  BY <1>1, <1>3, <1>5 DEF CallPlace, HoldPCs, ChangePCs, Reads
<1> QED BY <1>1, <1>5, <1>6, <1>7, OwnInside

LEMMA InstallOwn ==
  ASSUME NEW p \in Procs, Around(p), InstallIt(p)
  PROVE  Own(p)'
<1>1. lpc[p] \in {"unlink", "last"} /\ Install(p) /\ UNCHANGED listVars
  BY DEF InstallIt
<1>2. /\ Own(p) /\ OutForm /\ VcasInv /\ curr[p] \in Nodes /\ pred[p] \in Nodes
  BY Surroundings DEF Around, VLInv, ListForm, OutForm, ListVarTypes
<1>3. lpc' = lpc /\ curr' = curr /\ pred' = pred
  BY <1>1 DEF listVars, localVars
<1>4. Next(pred[p]) \in Objects /\ Marked(curr[p]) \in Objects
  BY <1>2, Fields
<1>5. CASE lpc[p] = "unlink"
  <2>1. Swaps(p, Marked(curr[p]))
    BY <1>2, <1>5 DEF Own, CallPlace
  <2>2. Swaps(p, Marked(curr[p]))' /\ snap' = snap
    BY <1>1, <1>2, <1>3, <1>4, <2>1, SwapInstalls DEF Swaps
  <2>3. CallPlace(p)'
    BY <1>3, <1>5, <2>2 DEF CallPlace, HoldPCs, ChangePCs
  <2> QED BY <1>1, <1>5, <2>2, <2>3, OwnInside
<1>6. CASE lpc[p] = "last"
  <2>1. Swaps(p, Next(pred[p]))
    BY <1>2, <1>6 DEF Own, CallPlace
  <2>2. Swaps(p, Next(pred[p]))' /\ snap' = snap /\ call'[p].new = call[p].new
    BY <1>1, <1>2, <1>3, <1>4, <2>1, SwapInstalls DEF Swaps
  <2>3. CallPlace(p)'
    BY <1>3, <1>6, <2>2 DEF CallPlace, HoldPCs, ChangePCs
  <2> QED BY <1>1, <1>6, <2>2, <2>3, OwnInside
<1> QED BY <1>1, <1>5, <1>6

\* The snapshot, if there is one, is of a time in the past.
LEMMA SnapOwn ==
  ASSUME NEW p \in Procs, Around(p), snap'[p] \in {snap[p], NoTS, timestamp}
  PROVE  snap'[p] # NoTS => InitTime <= snap'[p] /\ snap'[p] <= timestamp'
<1>1. /\ Own(p) /\ timestamp \in Int /\ timestamp' \in Int /\ timestamp <= timestamp'
      /\ snap[p] \in Int /\ InitTime \in Int /\ InitTime <= timestamp
  BY Surroundings
<1> QED BY <1>1 DEF Own, Queries

LEMMA StartOwn ==
  ASSUME NEW p \in Procs, Around(p), StartTraversal(p)
  PROVE  Own(p)'
<1>1. lpc[p] = "start" /\ SnapshotStep(p) /\ UNCHANGED <<lpc, op, pred, curr>>
  BY DEF StartTraversal, listVars, callVars, localVars
<1>2. /\ Own(p) /\ vpc \in [Procs -> Places] /\ snap \in [Procs -> Nat \cup {NoTS}]
  BY Surroundings DEF VcasTypes
<1>3. /\ vpc'[p] \in {"idle", "again", "advance"}
      /\ snap'[p] \in {snap[p], NoTS, timestamp}
  BY <1>1, <1>2 DEF SnapshotStep, TakeSnapshot, ReadAgain, FetchAndAdd, At
<1>4. curr'[p] = HeadNode /\ pred'[p] \in alloc' /\ op'[p] \in Operation /\ HeadNode # MaxNode
  BY <1>1, <1>2, Surroundings, Basics DEF Own, Stands
<1>5. LeadsThen(HeadNode, timestamp')
  BY LeadsOn
<1>6. CallPlace(p)' /\ HoldsLocks(p)'
  BY <1>1, <1>3 DEF CallPlace, HoldsLocks, HoldPCs, ChangePCs
<1>7. Stands(p)'
  BY <1>1, <1>4, <1>5 DEF Stands, Leads, Born, LeadsThen, HoldPCs, ChangePCs
<1>8. Queries(p)'
  BY <1>1, <1>3, SnapOwn DEF Queries
<1> QED BY <1>6, <1>7, <1>8 DEF Own

LEMMA CallOwn ==
  ASSUME NEW p \in Procs, Around(p), VcasCall(p)
  PROVE  Own(p)'
<1>1. /\ lpc[p] = "idle" /\ todo[p] # <<>> /\ op' = [op EXCEPT ![p] = Head(todo[p])]
      /\ UNCHANGED <<pred, curr>> /\ UNCHANGED vcasVars
      /\ lpc' = [lpc EXCEPT ![p] = IF Head(todo[p]).type = "range" THEN "start" ELSE "search"]
  BY DEF VcasCall, Call, Goto, localVars
<1>2. Own(p) /\ ListVarTypes /\ alloc \subseteq alloc'
  BY Surroundings
<1>3. Head(todo[p]) \in Operation
  <2>1. todo[p] \in Seq(Operation)
    BY <1>2 DEF ListVarTypes
  <2> QED BY <1>1, <2>1
<1>4. /\ op'[p] \in Operation /\ lpc'[p] \in {"start", "search"} /\ vpc'[p] = "idle"
      /\ snap'[p] = snap[p] /\ curr'[p] = HeadNode /\ pred'[p] \in alloc' /\ HeadNode # MaxNode
  BY <1>1, <1>2, <1>3, Basics DEF Own, CallPlace, Stands, ListVarTypes, vcasVars
<1>5. LeadsThen(HeadNode, timestamp')
  BY LeadsOn
<1>6. CallPlace(p)' /\ HoldsLocks(p)'
  BY <1>4 DEF CallPlace, HoldsLocks, HoldPCs, ChangePCs
<1>7. Stands(p)'
  BY <1>4, <1>5 DEF Stands, Leads, Born, LeadsThen, HoldPCs, ChangePCs
<1>8. Queries(p)'
  BY <1>4, SnapOwn DEF Queries
<1> QED BY <1>6, <1>7, <1>8 DEF Own

\* The end of an operation.
LEMMA ReturnOwn ==
  ASSUME NEW p \in Procs, Around(p), NEW r, NEW seen, Return(p, r, seen),
         EndSnapshot(p) \/ (vpc[p] = "idle" /\ UNCHANGED vcasVars)
  PROVE  Own(p)'
<1>1. /\ pred' = [pred EXCEPT ![p] = HeadNode] /\ curr' = [curr EXCEPT ![p] = HeadNode]
      /\ lpc' = [lpc EXCEPT ![p] = "idle"]
  BY DEF Return, Restart, Goto
<1>2. ListVarTypes /\ HeadNode # MaxNode /\ VcasTypes
  BY Surroundings, Basics
<1>3. lpc'[p] = "idle" /\ curr'[p] = HeadNode /\ pred'[p] = HeadNode
  BY <1>1, <1>2 DEF ListVarTypes
<1>4. vpc'[p] = "idle" /\ snap'[p] \in {snap[p], NoTS, timestamp}
  BY <1>2 DEF EndSnapshot, At, vcasVars, VcasTypes
<1>5. LeadsThen(HeadNode, timestamp')
  BY LeadsOn
<1>6. CallPlace(p)' /\ HoldsLocks(p)'
  BY <1>3, <1>4 DEF CallPlace, HoldsLocks, HoldPCs, ChangePCs
<1>7. Stands(p)'
  BY <1>2, <1>3, <1>5 DEF Stands, Leads, Born, LeadsThen, HoldPCs, ChangePCs
<1>8. Queries(p)'
  BY <1>3, <1>4, SnapOwn DEF Queries
<1> QED BY <1>6, <1>7, <1>8 DEF Own

LEMMA EndOwn ==
  ASSUME NEW p \in Procs, Around(p), EndContains(p) \/ EndQuery(p)
  PROVE  Own(p)'
<1>1. PICK r, seen : Return(p, r, seen) /\ EndSnapshot(p)
  BY DEF EndContains, EndQuery, ReturnKeys
<1> QED BY <1>1, ReturnOwn

LEMMA SearchOwn ==
  ASSUME NEW p \in Procs, Around(p), SearchOn(p)
  PROVE  Own(p)'
<1> DEFINE n == out[p]
<1>1. /\ lpc[p] = "search" /\ vpc[p] = "done" /\ Visit(p, n) /\ UNCHANGED <<lock, key, alloc>>
      /\ \/ Before(p, n) /\ BeginRead(p, Next(n))
         \/ ~Before(p, n) /\ op[p].type = "contains" /\ BeginRead(p, Marked(n))
         \/ ~Before(p, n) /\ EndSnapshot(p)
  BY DEF SearchOn, lockVars, nodeVars
<1>2. /\ Own(p) /\ ListVarTypes /\ OutForm /\ VcasInv /\ VcasInv' /\ VcasTypes /\ VLInv
  BY Surroundings DEF Around, VLInv, ListForm, OutForm
<1>3. /\ Leads(n, timestamp) /\ n \in Nodes /\ op[p] \in Operation /\ curr[p] \in alloc
  BY <1>1, <1>2 DEF Own, Stands, Leads, ListVarTypes
<1>4. op[p].lo \in Int /\ op[p].lo < key[MaxNode] /\ key[n] \in Int
  BY <1>2, <1>3, KeysBelowMax DEF VLInv, ListVarTypes
<1>5. CASE op[p].type = "erase" /\ key[n] > op[p].lo /\ ReturnKeys(p, <<>>)
  <2>1. EndSnapshot(p)
    BY <1>1, <1>4, <1>5 DEF Before
  <2> QED BY <1>5, <2>1, ReturnOwn DEF ReturnKeys
<1>6. CASE ~(op[p].type = "erase" /\ key[n] > op[p].lo) /\ VisitMoves(p, n)
  <2>1. /\ curr'[p] = n /\ pred'[p] = curr[p] /\ op' = op /\ UNCHANGED <<key, lock, alloc>>
        /\ lpc'[p] = IF Before(p, n) THEN "search"
                     ELSE IF op[p].type = "contains" THEN "mark" ELSE "lockPred"
    BY <1>1, <1>2, <1>6 DEF VisitMoves, ListVarTypes
  <2>2. LeadsThen(n, timestamp') /\ pred'[p] \in alloc'
    BY <1>3, <2>1, LeadsOn
  <2>3. CASE Before(p, n) /\ BeginRead(p, Next(n))
    <3>1. lpc'[p] = "search" /\ n # MaxNode /\ Next(n) \in Objects
      BY <1>3, <1>4, <2>1, <2>3, Fields DEF Before
    <3>2. /\ vpc'[p] \in {"ts", "stamp", "done"} /\ call'[p] = [kind |-> "read", obj |-> Next(n)]
          /\ Answered(p, "read", Next(n)) /\ snap' = snap
      BY <1>2, <2>3, <3>1, ReadOn DEF BeginRead, OutForm
    <3>3. vpc'[p] = "done" => LeadsThen(out'[p], timestamp')
      BY <1>3, <3>1, <3>2, LinkAnswered
    <3>4. CallPlace(p)' /\ HoldsLocks(p)'
      BY <2>1, <3>1, <3>2 DEF CallPlace, HoldsLocks, HoldPCs, ChangePCs, Reads
    <3>5. Stands(p)'
      BY <1>3, <2>1, <2>2, <3>1, <3>3 DEF Stands, Leads, Born, LeadsThen, HoldPCs, ChangePCs
    <3>6. Queries(p)'
      BY <3>1, <3>2, SnapOwn DEF Queries
    <3> QED BY <3>4, <3>5, <3>6 DEF Own
  <2>4. CASE ~Before(p, n) /\ op[p].type = "contains" /\ BeginRead(p, Marked(n))
    <3>1. lpc'[p] = "mark" /\ Marked(n) \in Objects
      BY <1>3, <2>1, <2>4, Fields
    <3>2. /\ vpc'[p] \in {"ts", "stamp", "done"} /\ call'[p] = [kind |-> "read", obj |-> Marked(n)]
          /\ snap' = snap
      BY <1>2, <2>4, <3>1, ReadOn DEF BeginRead, OutForm
    <3>3. CallPlace(p)' /\ HoldsLocks(p)'
      BY <2>1, <3>1, <3>2 DEF CallPlace, HoldsLocks, HoldPCs, ChangePCs, Reads
    <3>4. Stands(p)'
      BY <1>3, <2>1, <2>2, <3>1 DEF Stands, Leads, Born, LeadsThen, HoldPCs, ChangePCs
    <3>5. Queries(p)'
      BY <3>1, <3>2, SnapOwn DEF Queries
    <3> QED BY <3>3, <3>4, <3>5 DEF Own
  <2>5. CASE ~Before(p, n) /\ EndSnapshot(p)
    <3>1. lpc'[p] \in {"mark", "lockPred"}
      BY <2>1, <2>5
    <3>2. vpc'[p] = "idle" /\ snap'[p] \in {snap[p], NoTS, timestamp}
      BY <1>2, <2>5 DEF EndSnapshot, At, VcasTypes
    <3>3. CallPlace(p)' /\ HoldsLocks(p)'
      BY <3>1, <3>2 DEF CallPlace, HoldsLocks, HoldPCs, ChangePCs
    <3>4. op[p].type = "erase" => key[n] = op[p].lo
      BY <1>4, <1>6, <2>5 DEF Before
    <3>5. Stands(p)'
      BY <1>3, <2>1, <2>2, <3>1, <3>4 DEF Stands, Leads, Born, LeadsThen, HoldPCs, ChangePCs
    <3>6. Queries(p)'
      BY <3>1, <3>2, SnapOwn DEF Queries
    <3> QED BY <3>3, <3>5, <3>6 DEF Own
  <2> QED BY <1>1, <2>3, <2>4, <2>5
<1> QED BY <1>1, <1>2, <1>5, <1>6, VisitCases

\* The steps of an update between its first lock and its last.
LEMMA UpdateOwn ==
  ASSUME NEW p \in Procs, Around(p), lpc[p] \in {"lockPred"} \cup HoldPCs, lpc'[p] \in HoldPCs,
         curr'[p] = curr[p], pred'[p] = pred[p], op'[p] = op[p],
         snap'[p] \in {snap[p], NoTS}, CallPlace(p)', HoldsLocks(p)',
         lpc'[p] = "unlink" => op[p].type = "erase",
         lpc'[p] = "new" => newnode'[p] \in alloc',
         lpc'[p] = "link" => LeadsThen(newnode'[p], timestamp'),
         lpc'[p] = "last" => LeadsThen(call'[p].new, timestamp')
  PROVE  Own(p)'
<1>1. Own(p) /\ alloc \subseteq alloc' /\ \A n \in alloc : key'[n] = key[n]
  BY Surroundings DEF Around, Fits, ListFrame
<1>2. /\ lpc[p] # "idle" /\ lpc'[p] \notin {"idle", "start", "search", "query", "add"}
      /\ lpc[p] \in {"lockPred"} \cup HoldPCs
  BY DEF HoldPCs, ChangePCs
<1>3. /\ op[p] \in Operation /\ Leads(curr[p], timestamp) /\ pred[p] \in alloc
      /\ op[p].type = "erase" => key[curr[p]] = op[p].lo
  BY <1>1, <1>2 DEF Own, Stands
<1>4. LeadsThen(curr[p], timestamp') /\ curr[p] \in alloc
  BY <1>3, LeadsOn DEF Leads
<1>5. Stands(p)'
  BY <1>1, <1>2, <1>3, <1>4 DEF Stands, Leads, Born, LeadsThen
<1>6. Queries(p)'
  BY <1>2, SnapOwn DEF Queries
<1> QED BY <1>5, <1>6 DEF Own

LEMMA ChangedOwn ==
  ASSUME NEW p \in Procs, Around(p), Changed(p)
  PROVE  Own(p)'
<1>1. /\ lpc[p] = "last" /\ lpc' = [lpc EXCEPT ![p] = "unlockCurr"] /\ EndSnapshot(p)
      /\ UNCHANGED <<lock, op, pred, curr>>
  BY DEF Changed, Decide, Goto, lockVars, callVars
<1>2. Own(p) /\ ListVarTypes /\ VcasTypes
  BY Surroundings
<1>3. lpc'[p] = "unlockCurr" /\ vpc'[p] = "idle" /\ snap'[p] = NoTS
  BY <1>1, <1>2 DEF EndSnapshot, At, ListVarTypes, VcasTypes
<1>4. CallPlace(p)' /\ HoldsLocks(p)'
  BY <1>1, <1>2, <1>3 DEF Own, CallPlace, HoldsLocks, HoldPCs, ChangePCs
<1> QED BY <1>1, <1>3, <1>4, UpdateOwn DEF HoldPCs, ChangePCs

LEMMA LockOwn ==
  ASSUME NEW p \in Procs, Around(p), VcasLock(p) \/ VcasValidate(p)
  PROVE  Own(p)'
<1>1. UNCHANGED vcasVars /\ vpc' = vpc /\ snap' = snap
  BY DEF VcasLock, VcasValidate, vcasVars
<1>2. /\ Own(p) /\ ListVarTypes /\ p # NoProc /\ pred[p] \in Nodes /\ curr[p] \in Nodes
  BY Surroundings, Basics DEF ListVarTypes
<1>3. CASE LockPred(p)
  <2>1. /\ lpc[p] = "lockPred" /\ lpc' = [lpc EXCEPT ![p] = "lockCurr"]
        /\ lock' = [lock EXCEPT ![pred[p]] = p] /\ UNCHANGED <<op, pred, curr>>
    BY <1>3 DEF LockPred, AcquireLock, Goto, callVars, localVars
  <2>2. lpc'[p] = "lockCurr" /\ lock'[pred[p]] = p /\ vpc[p] = "idle"
    BY <1>2, <2>1 DEF ListVarTypes, Own, CallPlace
  <2>3. CallPlace(p)' /\ HoldsLocks(p)'
    BY <1>1, <2>1, <2>2 DEF CallPlace, HoldsLocks, HoldPCs, ChangePCs
  <2> QED BY <1>1, <2>1, <2>2, <2>3, UpdateOwn DEF HoldPCs, ChangePCs
<1>4. CASE LockCurr(p)
  <2>1. /\ lpc[p] = "lockCurr" /\ lpc' = [lpc EXCEPT ![p] = "validate"] /\ lock[curr[p]] = NoProc
        /\ lock' = [lock EXCEPT ![curr[p]] = p] /\ UNCHANGED <<op, pred, curr>>
    BY <1>4 DEF LockCurr, AcquireLock, Goto, callVars, localVars
  <2>2. lock[pred[p]] = p /\ vpc[p] = "idle"
    BY <1>2, <2>1 DEF Own, CallPlace, HoldsLocks, HoldPCs
  <2>3. /\ lpc'[p] = "validate" /\ lock'[pred[p]] = p /\ lock'[curr[p]] = p /\ pred[p] # curr[p]
    BY <1>2, <2>1, <2>2 DEF ListVarTypes
  <2>4. CallPlace(p)' /\ HoldsLocks(p)'
    BY <1>1, <2>1, <2>2, <2>3 DEF CallPlace, HoldsLocks, HoldPCs, ChangePCs
  <2> QED BY <1>1, <2>1, <2>3, <2>4, UpdateOwn DEF HoldPCs, ChangePCs
<1>5. CASE UnlockCurr(p)
  <2>1. /\ lpc[p] = "unlockCurr" /\ lpc' = [lpc EXCEPT ![p] = "unlockPred"]
        /\ lock' = [lock EXCEPT ![curr[p]] = NoProc] /\ UNCHANGED <<op, pred, curr>>
    BY <1>5 DEF UnlockCurr, ReleaseLock, Goto, callVars, localVars
  <2>2. lock[pred[p]] = p /\ pred[p] # curr[p] /\ vpc[p] = "idle"
    BY <1>2, <2>1 DEF Own, CallPlace, HoldsLocks, HoldPCs, ChangePCs
  <2>3. lpc'[p] = "unlockPred" /\ lock'[pred[p]] = p
    BY <1>2, <2>1, <2>2 DEF ListVarTypes
  <2>4. CallPlace(p)' /\ HoldsLocks(p)'
    BY <1>1, <2>1, <2>2, <2>3 DEF CallPlace, HoldsLocks, HoldPCs, ChangePCs
  <2> QED BY <1>1, <2>1, <2>3, <2>4, UpdateOwn DEF HoldPCs, ChangePCs
<1>6. CASE UnlockPred(p)
  <2>1. lpc[p] = "unlockPred" /\ vpc[p] = "idle"
    BY <1>2, <1>6 DEF UnlockPred, Own, CallPlace, HoldPCs
  <2>2. CASE verdict[p] = "retry"
    <3>1. /\ pred' = [pred EXCEPT ![p] = HeadNode] /\ curr' = [curr EXCEPT ![p] = HeadNode]
          /\ lpc' = [lpc EXCEPT ![p] = "search"] /\ op' = op
      BY <1>6, <2>2 DEF UnlockPred, Restart, Goto, callVars
    <3>2. /\ lpc'[p] = "search" /\ pred'[p] = HeadNode /\ curr'[p] = HeadNode /\ vpc'[p] = "idle"
          /\ op'[p] \in Operation /\ HeadNode # MaxNode
      BY <1>1, <1>2, <2>1, <3>1, Basics DEF ListVarTypes, Own, Stands
    <3>3. LeadsThen(HeadNode, timestamp')
      BY LeadsOn
    <3>4. CallPlace(p)' /\ HoldsLocks(p)'
      BY <3>2 DEF CallPlace, HoldsLocks, HoldPCs, ChangePCs
    <3>5. Stands(p)'
      BY <3>2, <3>3 DEF Stands, Leads, Born, LeadsThen, HoldPCs, ChangePCs
    <3>6. Queries(p)'
      BY <1>1, <3>2, SnapOwn DEF Queries
    <3> QED BY <3>4, <3>5, <3>6 DEF Own
  <2>3. CASE verdict[p] # "retry"
    <3>1. PICK r, seen : Return(p, r, seen)
      BY <1>6, <2>3 DEF UnlockPred, ReturnKeys
    <3> QED BY <1>1, <2>1, <3>1, ReturnOwn
  <2> QED BY <2>2, <2>3
<1>7. CASE VcasValidate(p)
  <2>1. /\ lpc[p] = "validate" /\ UNCHANGED <<lock, op, pred, curr>>
        /\ \E l \in {"unlockCurr", "change"} : lpc' = [lpc EXCEPT ![p] = l]
    BY <1>7 DEF VcasValidate, Validate, Decide, Goto, lockVars, callVars
  <2>2. lpc'[p] \in {"unlockCurr", "change"} /\ vpc[p] = "idle"
    BY <1>2, <2>1 DEF ListVarTypes, Own, CallPlace, HoldPCs, ChangePCs
  <2>3. lock[pred[p]] = p /\ lock[curr[p]] = p /\ pred[p] # curr[p]
    BY <1>2, <2>1 DEF Own, HoldsLocks, HoldPCs, ChangePCs
  <2>4. CallPlace(p)' /\ HoldsLocks(p)'
    BY <1>1, <2>1, <2>2, <2>3 DEF CallPlace, HoldsLocks, HoldPCs, ChangePCs
  <2> QED BY <1>1, <2>1, <2>2, <2>4, UpdateOwn DEF HoldPCs, ChangePCs
<1> QED BY <1>3, <1>4, <1>5, <1>6, <1>7 DEF VcasLock, LockStep

LEMMA NewOwn ==
  ASSUME NEW p \in Procs, Around(p), NewNode(p) \/ NewLink(p)
  PROVE  Own(p)'
<1>1. Own(p) /\ ListVarTypes /\ VcasInv /\ timestamp \in Nat
  BY Surroundings DEF Around
<1>2. PICK o \in Objects, v \in Values, l \in {"new", "link"} :
        /\ Create(p, o, v) /\ lpc' = [lpc EXCEPT ![p] = l]
        /\ \/ l = "new" /\ lpc[p] = "change" /\ \E n \in Nodes : Allocate(p, n)
           \/ l = "link" /\ lpc[p] = "new" /\ o = Next(newnode[p]) /\ UNCHANGED newnode
  <2>1. CASE NewNode(p)
    <3>1. PICK n \in Nodes : Allocate(p, n) /\ Create(p, Marked(n), 0)
      BY <2>1 DEF NewNode
    <3> QED BY <2>1, <3>1, Fields, Basics DEF NewNode, Goto
  <2>2. CASE NewLink(p)
    <3>1. Next(newnode[p]) \in Objects /\ curr[p] \in Values
      BY <1>1, Fields, Basics DEF ListVarTypes
    <3> QED BY <2>2, <3>1 DEF NewLink, Goto, localVars
  <2> QED BY <2>1, <2>2
<1>3. /\ UNCHANGED <<lock, op, pred, curr>> /\ UNCHANGED <<timestamp, vpc, snap>>
  BY <1>2 DEF NewNode, NewLink, lockVars, callVars, localVars, Create
<1>4. lpc'[p] = l /\ lpc[p] \in {"change", "new"}
  BY <1>1, <1>2 DEF ListVarTypes
<1>5. lock[pred[p]] = p /\ lock[curr[p]] = p /\ pred[p] # curr[p] /\ vpc[p] = "idle"
  BY <1>1, <1>4 DEF Own, HoldsLocks, CallPlace, HoldPCs, ChangePCs
<1>6. CallPlace(p)' /\ HoldsLocks(p)'
  BY <1>3, <1>4, <1>5 DEF CallPlace, HoldsLocks, HoldPCs, ChangePCs
<1>7. l = "new" => newnode'[p] \in alloc'
  BY <1>1, <1>2 DEF Allocate, ListVarTypes
<1>8. l = "link" => LeadsThen(newnode'[p], timestamp')
  <2>1. SUFFICES ASSUME l = "link" PROVE LeadsThen(newnode'[p], timestamp')
    OBVIOUS
  <2>2. newnode[p] \in alloc' /\ newnode' = newnode /\ o = Next(newnode[p])
    BY <1>1, <1>2, <2>1, Surroundings DEF Own, Stands
  <2>3. versions'[o] = <<[val |-> v, ts |-> timestamp]>>
    BY <1>1, <1>2, CreateGrows
  <2>4. versions'[o] # <<>> /\ versions'[o][1].ts = timestamp /\ timestamp # TBD
    BY <1>1, <2>3 DEF TBD
  <2> QED BY <1>1, <1>3, <2>2, <2>4 DEF LeadsThen
<1> QED BY <1>3, <1>4, <1>6, <1>7, <1>8, UpdateOwn DEF HoldPCs, ChangePCs

LEMMA SwapOwn ==
  ASSUME NEW p \in Procs, Around(p), Link(p) \/ Mark(p) \/ Unlink(p)
  PROVE  Own(p)'
<1>1. /\ Own(p) /\ ListVarTypes /\ VcasInv /\ VLInv /\ VcasTypes
      /\ pred[p] \in Nodes /\ curr[p] \in Nodes /\ newnode[p] \in Nodes
  BY Surroundings DEF Around, ListVarTypes
<1>2. /\ UNCHANGED <<lock, op, pred, curr>> /\ lpc[p] \in {"link", "change", "unlink"}
  BY DEF Link, Mark, Unlink, lockVars, callVars, localVars
<1>3. lock[pred[p]] = p /\ lock[curr[p]] = p /\ pred[p] # curr[p]
  BY <1>1, <1>2 DEF Own, HoldsLocks, HoldPCs, ChangePCs
<1>4. Next(pred[p]) \in {Next(pred[p]), Marked(pred[p])}
      /\ Marked(curr[p]) \in {Next(curr[p]), Marked(curr[p])}
  OBVIOUS
<1>5. CASE Mark(p)
  <2>1. lpc' = [lpc EXCEPT ![p] = "unlink"] /\ BeginCas(p, Marked(curr[p]), 0, 1)
    BY <1>5 DEF Mark, Goto
  <2>2. Swaps(p, Marked(curr[p]))' /\ snap' = snap
    <3>1. PICK n \in Nodes : n = curr[p]
      BY <1>1
    <3>2. Swaps(p, Marked(n))' /\ snap' = snap
      BY <1>1, <1>3, <2>1, <3>1, SwapBegins, Basics
    <3> QED BY <1>2, <3>1, <3>2 DEF Swaps
  <2>3. lpc'[p] = "unlink" /\ op[p].type = "erase"
    BY <1>1, <1>5, <2>1 DEF Mark, ListVarTypes
  <2>4. CallPlace(p)' /\ HoldsLocks(p)'
    BY <1>2, <1>3, <2>2, <2>3 DEF CallPlace, HoldsLocks, HoldPCs, ChangePCs
  <2> QED BY <1>2, <2>2, <2>3, <2>4, UpdateOwn DEF HoldPCs, ChangePCs
<1>6. ASSUME NEW new \in Values, BeginCas(p, Next(pred[p]), curr[p], new),
             lpc' = [lpc EXCEPT ![p] = "last"], Leads(new, timestamp)
      PROVE  Own(p)'
  <2>1. Swaps(p, Next(pred[p]))' /\ call'[p].new = new /\ snap' = snap
    <3>1. PICK n \in Nodes : n = pred[p]
      BY <1>1
    <3>2. Swaps(p, Next(n))' /\ call'[p].new = new /\ snap' = snap
      BY <1>1, <1>3, <1>6, <3>1, SwapBegins, Basics
    <3> QED BY <1>2, <3>1, <3>2 DEF Swaps
  <2>2. lpc'[p] = "last" /\ LeadsThen(call'[p].new, timestamp')
    BY <1>1, <1>6, <2>1, LeadsOn DEF ListVarTypes
  <2>3. CallPlace(p)' /\ HoldsLocks(p)'
    BY <1>2, <1>3, <2>1, <2>2 DEF CallPlace, HoldsLocks, HoldPCs, ChangePCs
  <2> QED BY <1>2, <2>1, <2>2, <2>3, UpdateOwn DEF HoldPCs, ChangePCs
<1>7. CASE Link(p)
  <2>1. Leads(newnode[p], timestamp)
    BY <1>1, <1>7 DEF Link, Own, Stands
  <2> QED BY <1>1, <1>6, <1>7, <2>1, Basics DEF Link, Goto
<1>8. CASE Unlink(p)
  <2> DEFINE new == Newest(Next(curr[p]))
             k == Len(versions[Next(curr[p])])
  <2>1. op[p].type = "erase" /\ op[p] \in Operation /\ key[curr[p]] = op[p].lo
    BY <1>1, <1>8 DEF Unlink, Own, Stands, HoldPCs, ChangePCs
  <2>2. curr[p] # MaxNode
    BY <1>1, <2>1, KeysBelowMax DEF VLInv
  <2>3. k \in 1 .. k /\ versions[Next(curr[p])][k] \in Version
    <3>1. Next(curr[p]) \in Objects /\ versions[Next(curr[p])] # <<>>
      BY <1>1, Fields DEF Own, Stands, Leads, Born
    <3> QED BY <1>1, <3>1, SomeVersion
  <2>4. new \in Values
    BY <2>3 DEF Newest, Version
  <2>5. PICK t : Leads(new, t) /\ t \in Int /\ t <= timestamp
    <3> DEFINE v == versions[Next(curr[p])][k]
               t == IF v.ts = TBD THEN timestamp ELSE v.ts
    <3>1. Leads(new, t)
      BY <1>1, <2>2, <2>3 DEF VLInv, ListLinks, Newest
    <3>2. v.ts <= timestamp
      <4>1. Next(curr[p]) \in Objects
        BY <1>1, Fields
      <4> QED BY <1>1, <2>3, <4>1 DEF VcasInv, Ordered
    <3>3. t \in Int /\ t <= timestamp
      BY <1>1, <2>3, <3>2 DEF Version, TBD, VcasTypes
    <3> QED BY <3>1, <3>3
  <2>6. Leads(new, timestamp)
    <3>1. timestamp \in Int
      BY Surroundings
    <3> QED BY <1>1, <2>5, <3>1, LeadsLater DEF VLInv
  <2> QED BY <1>6, <1>8, <2>4, <2>6 DEF Unlink, Goto
<1> QED BY <1>5, <1>7, <1>8

LEMMA QueryOwn ==
  ASSUME NEW p \in Procs, Around(p), BeginTraversal(p) \/ QueryOn(p) \/ TryAdd(p)
  PROVE  Own(p)'
<1>1. /\ Own(p) /\ ListVarTypes /\ OutForm /\ VcasInv /\ VcasInv' /\ VcasTypes /\ VLInv
      /\ HeadNode \in Nodes /\ HeadNode # MaxNode
  BY Surroundings, Basics DEF Around, VLInv, ListForm, OutForm
<1>2. /\ lpc[p] \in {"start", "query", "add"} /\ snap[p] # NoTS /\ UNCHANGED <<op, pred>>
  BY DEF BeginTraversal, QueryOn, TryAdd, BeginReadAt, callVars, localVars
<1>3. /\ op[p] \in Operation /\ pred[p] \in alloc' /\ InitTime <= snap[p]
      /\ Leads(HeadNode, snap[p]) /\ Born(Marked(HeadNode), snap[p])
  <2>1. op[p] \in Operation /\ pred[p] \in alloc' /\ InitTime <= snap[p]
    BY <1>1, <1>2, Surroundings DEF Own, Stands, Queries
  <2>2. InitTime \in Int /\ snap[p] \in Int /\ Next(HeadNode) \in Objects /\ Marked(HeadNode) \in Objects
    BY <1>1, Surroundings, Fields
  <2>3. Born(Next(HeadNode), snap[p]) /\ Born(Marked(HeadNode), snap[p])
    BY <1>1, <2>1, <2>2, BornLater DEF VLInv, ListForm
  <2> QED BY <1>1, <2>1, <2>3 DEF Leads, ListVarTypes
\* Either way the query reads on, from a node that was there at the time of its snapshot.
<1>4. ASSUME NEW n \in Nodes, Leads(n, snap[p]), Leads(n, timestamp), n # MaxNode, curr'[p] = n,
             \/ lpc'[p] = "query" /\ BeginReadAt(p, Next(n))
             \/ lpc'[p] = "add" /\ BeginReadAt(p, Marked(HeadNode))
      PROVE  Own(p)'
  <2>1. LeadsThen(n, timestamp') /\ LeadsThen(n, snap[p])
    BY <1>4, LeadsOn
  <2>2. CASE lpc'[p] = "query" /\ BeginReadAt(p, Next(n))
    <3>1. Next(n) \in Objects /\ Born(Next(n), snap[p])
      BY <1>4, Fields DEF Leads
    <3>2. /\ vpc'[p] \in {"ts", "stamp", "done"} /\ call'[p] = [kind |-> "readAt", obj |-> Next(n)]
          /\ Answered(p, "readAt", Next(n)) /\ snap' = snap
      BY <1>1, <2>2, <3>1, ReadOn DEF BeginReadAt, OutForm
    <3>3. vpc'[p] = "done" => LeadsThen(out'[p], snap[p])
      BY <1>4, <3>2, LinkAnswered
    <3>4. CallPlace(p)' /\ HoldsLocks(p)'
      BY <1>4, <2>2, <3>2 DEF CallPlace, HoldsLocks, HoldPCs, ChangePCs, Reads
    <3>5. Stands(p)'
      BY <1>2, <1>3, <1>4, <2>1, <2>2 DEF Stands, Leads, Born, LeadsThen, HoldPCs, ChangePCs
    <3>6. Queries(p)'
      BY <1>2, <1>4, <2>1, <2>2, <3>2, <3>3, SnapOwn DEF Queries, Leads, Born, LeadsThen
    <3> QED BY <3>4, <3>5, <3>6 DEF Own
  <2>3. CASE lpc'[p] = "add" /\ BeginReadAt(p, Marked(HeadNode))
    <3>1. Marked(HeadNode) \in Objects
      BY <1>1, Fields
    <3>2. /\ vpc'[p] \in {"ts", "stamp", "done"}
          /\ call'[p] = [kind |-> "readAt", obj |-> Marked(HeadNode)]
          /\ Answered(p, "readAt", Marked(HeadNode)) /\ snap' = snap
      BY <1>1, <1>3, <2>3, <3>1, ReadOn DEF BeginReadAt, OutForm
    <3>3. vpc'[p] = "done" => out'[p] # NoVal
      BY <3>1, <3>2, SomethingAnswered
    <3>4. CallPlace(p)' /\ HoldsLocks(p)'
      BY <2>3, <3>2 DEF CallPlace, HoldsLocks, HoldPCs, ChangePCs, Reads
    <3>5. Stands(p)'
      BY <1>2, <1>3, <1>4, <2>1, <2>3 DEF Stands, Leads, Born, LeadsThen, HoldPCs, ChangePCs
    <3>6. Queries(p)'
      BY <1>2, <1>4, <2>1, <2>3, <3>2, <3>3, SnapOwn DEF Queries, Leads, Born, LeadsThen
    <3> QED BY <3>4, <3>5, <3>6 DEF Own
  <2> QED BY <1>4, <2>2, <2>3
<1>5. CASE BeginTraversal(p)
  <2>1. /\ lpc[p] = "start" /\ lpc' = [lpc EXCEPT ![p] = "query"] /\ curr' = curr
        /\ BeginReadAt(p, Next(HeadNode))
    BY <1>5 DEF BeginTraversal, Goto, localVars
  <2>2. lpc'[p] = "query" /\ curr'[p] = HeadNode /\ Leads(HeadNode, timestamp)
    BY <1>1, <2>1 DEF ListVarTypes, Own, Stands
  <2> QED BY <1>1, <1>3, <1>4, <2>1, <2>2
<1>6. CASE QueryOn(p)
  <2> DEFINE n == out[p]
  <2>1. /\ lpc[p] = "query" /\ vpc[p] = "done" /\ key[n] <= op[p].hi
        /\ curr' = [curr EXCEPT ![p] = n]
        /\ \/ lpc' = lpc /\ BeginReadAt(p, Next(n))
           \/ lpc' = [lpc EXCEPT ![p] = "add"] /\ BeginReadAt(p, Marked(HeadNode))
    BY <1>6 DEF QueryOn, Goto
  <2>2. Leads(n, snap[p]) /\ n \in Nodes /\ snap[p] <= timestamp
    BY <1>1, <1>2, <2>1 DEF Own, Queries, Leads, ListVarTypes
  <2>3. Leads(n, timestamp)
    BY <1>1, <2>2, LeadsLater, Surroundings DEF VLInv
  <2>4. n # MaxNode
    <3>1. op[p].hi \in Int /\ op[p].hi < key[MaxNode] /\ key[n] \in Int
      BY <1>1, <1>3, <2>2, KeysBelowMax DEF VLInv, ListVarTypes
    <3> QED BY <2>1, <3>1
  <2>5. curr'[p] = n /\ (lpc' = lpc => lpc'[p] = "query")
        /\ (lpc' = [lpc EXCEPT ![p] = "add"] => lpc'[p] = "add")
    BY <1>1, <2>1 DEF ListVarTypes
  <2> QED BY <1>4, <2>1, <2>2, <2>3, <2>4, <2>5
<1>7. CASE TryAdd(p)
  <2>1. /\ lpc[p] = "add" /\ lpc' = [lpc EXCEPT ![p] = "query"] /\ curr' = curr
        /\ BeginReadAt(p, Next(curr[p]))
    BY <1>7 DEF TryAdd, Goto
  <2>2. /\ lpc'[p] = "query" /\ curr'[p] = curr[p] /\ curr[p] \in Nodes /\ curr[p] # MaxNode
        /\ Leads(curr[p], snap[p]) /\ Leads(curr[p], timestamp)
    BY <1>1, <2>1 DEF ListVarTypes, Own, Stands, Queries
  <2> QED BY <1>4, <2>1, <2>2
<1> QED BY <1>5, <1>6, <1>7

-----------------------------------------------------------------------------
(***************************************************************************)
(* The invariant holds throughout.                                         *)
(***************************************************************************)
LEMMA StartLinks ==
  ASSUME VcasListInit
  PROVE  /\ \A n \in Nodes : \A o \in {Next(n), Marked(n)} :
               IF n \in InitNodes
               THEN \E v \in Values, t \in 0 .. InitTime :
                      versions[o] = <<[val |-> v, ts |-> t]>>
               ELSE versions[o] = <<>>
         /\ \A n \in InitNodes : Leads(n, InitTime) /\ Born(Marked(n), InitTime)
<1>1. versions = InitVersions /\ alloc = InitNodes /\ InitTime \in Nat
  BY VcasAssumption DEF VcasListInit, VcasInit, ListInit
<1>2. ASSUME NEW n \in Nodes, NEW o \in {Next(n), Marked(n)}
      PROVE  IF n \in InitNodes
             THEN \E v \in Values, t \in 0 .. InitTime : versions[o] = <<[val |-> v, ts |-> t]>>
             ELSE versions[o] = <<>>
  <2>1. o \in Objects
    BY Fields
  <2>2. InitVersions[o] \in {<<>>} \cup {<<[val |-> v, ts |-> t]>> : v \in Values, t \in 0 .. InitTime}
    BY <2>1, VcasAssumption
  <2>3. InitVersions[o] = <<>> <=> n \notin InitNodes
    BY VcasStartAssumption
  <2> QED BY <1>1, <2>2, <2>3
<1>3. ASSUME NEW n \in InitNodes, NEW o \in {Next(n), Marked(n)} PROVE Born(o, InitTime)
  <2>1. n \in Nodes
    BY VcasStartAssumption
  <2>2. PICK v \in Values, t \in 0 .. InitTime : versions[o] = <<[val |-> v, ts |-> t]>>
    BY <1>2, <2>1
  <2>3. versions[o] # <<>> /\ versions[o][1].ts = t /\ t \in Int /\ t >= 0 /\ t <= InitTime
    BY <1>1, <2>2
  <2> QED BY <2>3 DEF Born, TBD
<1> QED BY <1>1, <1>2, <1>3 DEF Leads

LEMMA InitVL == VcasListInit => VcasInv /\ VLInv
<1> SUFFICES ASSUME VcasListInit PROVE VcasInv /\ VLInv
  OBVIOUS
<1>1. VcasInv
  BY InitInv DEF VcasListInit
<1>2. /\ key = InitKey /\ lock = [n \in Nodes |-> NoProc] /\ alloc = InitNodes
      /\ lpc = [p \in Procs |-> "idle"] /\ todo \in Workloads
      /\ op = [p \in Procs |-> [type |-> "none"]] /\ pred = [p \in Procs |-> HeadNode]
      /\ curr = [p \in Procs |-> HeadNode] /\ newnode = [p \in Procs |-> HeadNode]
      /\ timestamp = InitTime /\ vpc = [p \in Procs |-> "idle"]
      /\ snap = [p \in Procs |-> NoTS] /\ out = [p \in Procs |-> NoVal] /\ InitTime \in Nat
  BY Basics, VcasAssumption DEF VcasListInit, ListInit, VcasInit
<1>3. /\ InitNodes \subseteq Nodes /\ HeadNode \in InitNodes /\ MaxNode \in InitNodes
      /\ InitKey \in [Nodes -> Int] /\ Workloads \subseteq [Procs -> Seq(Operation)]
  BY VcasStartAssumption, VcasKeysAssumption, VcasListAssumption
<1>4. ListVarTypes
  BY <1>2, <1>3 DEF ListVarTypes, LPCs
<1>5. \A n \in Nodes \ alloc : versions[Next(n)] = <<>> /\ versions[Marked(n)] = <<>>
  BY <1>2, StartLinks
<1>6. Leads(HeadNode, InitTime) /\ Born(Marked(HeadNode), InitTime)
  BY <1>3, StartLinks
<1>7. out = [p \in Procs |-> out[p]] /\ InitTime <= timestamp
  BY <1>2
<1>8. ListForm
  BY <1>4, <1>5, <1>6, <1>7 DEF ListForm, Leads
<1>9. ListLinks
  <2> SUFFICES ASSUME NEW n \in Nodes \ {MaxNode}, NEW i \in 1 .. Len(versions[Next(n)])
               PROVE  LinkVersion(n, i)
    BY DEF ListLinks, LinkVersion
  <2>1. n \in InitNodes
    <3>1. CASE n \notin InitNodes
      <4>1. versions[Next(n)] = <<>>
        BY <3>1, StartLinks
      <4> QED BY <4>1
    <3> QED BY <3>1
  <2>2. PICK v \in Values, t \in 0 .. InitTime : versions[Next(n)] = <<[val |-> v, ts |-> t]>>
    BY <2>1, StartLinks
  <2>3. i = 1 /\ versions[Next(n)][i].val = v /\ versions[Next(n)][i].ts = t /\ t # TBD
    BY <1>2, <2>2 DEF TBD
  <2>4. v \in InitNodes /\ versions[Next(v)][1].ts <= t
    <3>1. versions = InitVersions
      BY DEF VcasListInit, VcasInit
    <3>2. InitVersions[Next(n)][1].val = v /\ InitVersions[Next(n)][1].ts = t
      BY <2>3, <3>1
    <3> QED BY <2>1, <3>1, <3>2, VcasStartAssumption
  <2>5. Leads(v, t)
    BY <2>4, StartLinks DEF Leads, Born
  <2>6. \A p \in Procs : vpc[p] # "stamp"
    BY <1>2
  <2> QED BY <2>3, <2>5, <2>6 DEF LinkVersion
<1>10. OwnerStamps
  <2> SUFFICES ASSUME NEW o \in Objects, versions[o] # <<>>
               PROVE  versions[o][Len(versions[o])].ts # TBD
    BY DEF OwnerStamps
  <2>1. PICK n \in Nodes : o \in {Next(n), Marked(n)}
    BY Fields
  <2>2. PICK v \in Values, t \in 0 .. InitTime : versions[o] = <<[val |-> v, ts |-> t]>>
    BY <2>1, StartLinks
  <2>3. Len(versions[o]) = 1 /\ versions[o][1].ts = t
    BY <2>2
  <2> QED BY <1>2, <2>3 DEF TBD
<1>11. ASSUME NEW p \in Procs PROVE Own(p)
  <2>1. lpc[p] = "idle" /\ vpc[p] = "idle" /\ curr[p] = HeadNode /\ pred[p] = HeadNode
        /\ snap[p] = NoTS
    BY <1>2
  <2>2. CallPlace(p) /\ HoldsLocks(p)
    BY <2>1 DEF CallPlace, HoldsLocks, HoldPCs, ChangePCs
  <2>3. Stands(p)
    BY <1>2, <1>6, <2>1 DEF Stands, Leads, HoldPCs, ChangePCs
  <2>4. Queries(p)
    BY <2>1 DEF Queries
  <2> QED BY <2>2, <2>3, <2>4 DEF Own
<1> QED BY <1>1, <1>8, <1>9, <1>10, <1>11 DEF VLInv

LEMMA OwnStep ==
  ASSUME NEW p \in Procs, Around(p), VcasCall(p) \/ ListStep(p)
  PROVE  Own(p)'
BY StampOwn, BeginSearchOwn, InstallOwn, StartOwn, CallOwn, EndOwn, SearchOwn, ChangedOwn,
   LockOwn, NewOwn, SwapOwn, QueryOwn DEF ListStep

LEMMA VLStep ==
  ASSUME VcasInv, VLInv, NEW p \in Procs, VcasCall(p) \/ ListStep(p)
  PROVE  VcasInv' /\ VLInv'
<1>1. Fits(p) /\ OutForm /\ ListForm /\ ListLinks /\ OwnerStamps /\ Own(p)
  BY StepFits DEF VLInv, ListForm, OutForm
<1>2. [VcasNext]_vcasVars /\ (VcasStep(p) \/ UNCHANGED vcasVars)
  BY <1>1 DEF Fits, VcasNext
<1>3. VcasInv'
  BY <1>2, StepInv
<1>4. Moves(p)
  BY <1>1, <1>2, ProviderMoves
<1>5. /\ Writes(p) /\ ListFrame(p) /\ ListVarTypes' /\ alloc \subseteq alloc' /\ alloc' \subseteq Nodes
  BY <1>1 DEF Fits, ListFrame, ListVarTypes
<1>6. ListForm'
  BY <1>1, <1>3, <1>4, <1>5, FormKept
<1>7. ListLinks'
  BY <1>1, <1>3, <1>4, <1>5, LinksKept
<1>8. OwnerStamps'
  BY <1>1, <1>2, <1>3, <1>4, <1>5, OwnersKept
<1>9. Own(p)'
  BY <1>1, <1>3, <1>4, <1>6, <1>7, OwnStep DEF Around
<1>10. LocksFirst(p)
  BY <1>1, <1>5, WritesLocked
<1>11. ASSUME NEW q \in Procs, q # p PROVE Own(q)'
  <2>1. Own(q)
    BY DEF VLInv
  <2> QED BY <1>1, <1>3, <1>4, <1>5, <1>10, <1>11, <2>1, OthersKeep
<1> QED BY <1>3, <1>6, <1>7, <1>8, <1>9, <1>11 DEF VLInv

LEMMA VLStutter ==
  ASSUME VLInv, UNCHANGED vcasListVars
  PROVE  VLInv'
<1>1. /\ UNCHANGED <<lock, key, alloc, todo, op, pred, curr, newnode, lpc>>
      /\ UNCHANGED <<timestamp, versions, vpc, call, ix, curTS, snap, out>>
  BY DEF vcasListVars, listVars, lockVars, nodeVars, callVars, localVars, vcasVars
<1>2. ListForm' /\ ListLinks' /\ OwnerStamps'
  BY <1>1 DEF VLInv, ListForm, ListVarTypes, ListLinks, OwnerStamps, Leads, Born
<1>3. ASSUME NEW p \in Procs PROVE Own(p)'
  <2>1. Own(p)
    BY DEF VLInv
  <2>2. CallPlace(p)' /\ HoldsLocks(p)'
    BY <1>1, <2>1 DEF Own, CallPlace, HoldsLocks, Reads, Swaps
  <2>3. Stands(p)' /\ Queries(p)'
    BY <1>1, <2>1 DEF Own, Stands, Queries, Leads, Born
  <2> QED BY <2>2, <2>3 DEF Own
<1> QED BY <1>2, <1>3 DEF VLInv

LEMMA NextVL == VcasInv /\ VLInv /\ [VcasListNext]_vcasListVars =>
                  VcasInv' /\ VLInv' /\ [VcasNext]_vcasVars
<1> SUFFICES ASSUME VcasInv, VLInv, [VcasListNext]_vcasListVars
             PROVE  VcasInv' /\ VLInv' /\ [VcasNext]_vcasVars
  OBVIOUS
<1>1. ASSUME NEW p \in Procs, VcasCall(p) \/ ListStep(p)
      PROVE  VcasInv' /\ VLInv' /\ [VcasNext]_vcasVars
  <2>1. [VcasNext]_vcasVars
    BY <1>1, StepFits DEF Fits, VcasNext
  <2> QED BY <1>1, <2>1, VLStep
<1>2. CASE UNCHANGED vcasListVars
  <2>1. [VcasNext]_vcasVars
    BY <1>2 DEF vcasListVars
  <2> QED BY <1>2, <2>1, VLStutter, StepInv
<1> QED BY <1>1, <1>2 DEF VcasListNext

LEMMA VLInvariant == VcasListSpec => [](VcasInv /\ VLInv)
<1> QED BY InitVL, NextVL, PTL DEF VcasListSpec

-----------------------------------------------------------------------------
(***************************************************************************)
(* The theorems.                                                           *)
(***************************************************************************)

\* The list calls the vCAS provider as the provider expects: one call at a time,
\* on its own fields, and each field written once by write_vcas.  What is proved
\* of the provider, that the past of a field is fixed, holds of the list.
THEOREM VcasListUsesProvider == VcasListSpec => VcasSpec
<1>1. VcasListInit => VcasInit
  BY DEF VcasListInit
<1>2. (VcasInv /\ VLInv) /\ [VcasListNext]_vcasListVars => [VcasNext]_vcasVars
  BY NextVL
<1> QED BY <1>1, <1>2, VLInvariant, PTL DEF VcasListSpec, VcasSpec

\* A version without a timestamp is the one that the owner of the node's lock is
\* stamping: linearize_update_at_cas (vcas_lazylist_impl.h) never meets another.
THEOREM StampedUnderLock == VcasListSpec => []LocksProtect
<1> QED BY VLInvariant, InvProtects, PTL

\* The assert in read_vcas: a range query reads the fields of a node only if the
\* node was there at the time of its snapshot, so it finds a version of that time.
THEOREM VersionsFound == VcasListSpec => []VersionFound
<1>1. VLInv => VersionFound
  <2> SUFFICES ASSUME VLInv, NEW p \in Procs, vpc[p] = "done", call[p].kind = "readAt"
               PROVE  out[p] # NoVal
    BY DEF VersionFound
  <2>1. Own(p) /\ lpc[p] \in LPCs
    BY DEF VLInv, ListForm, ListVarTypes
  <2>2. lpc[p] \in {"query", "add"}
    BY <2>1 DEF Own, CallPlace, Reads, Swaps, CasCalls, LPCs, HoldPCs, ChangePCs
  <2>3. lpc[p] = "query" => out[p] \in Nodes
    BY <2>1 DEF Own, Queries, Leads, VLInv, ListForm, ListVarTypes
  <2> QED BY <2>1, <2>2, <2>3, Basics DEF Own, Queries
<1> QED BY <1>1, VLInvariant, PTL
=============================================================================
