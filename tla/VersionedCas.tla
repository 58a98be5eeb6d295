---------------------------- MODULE VersionedCas -----------------------------
(***************************************************************************)
(* The vCAS range-query provider (rq/rq_vcas.h, with NVCAS_OPTIMIZATION).  *)
(* Every mutable field is an object with a list of versions.  A version is *)
(* put at the head of the list by a compare-and-swap, and gets a timestamp *)
(* afterwards, from whoever reads it first (initTS).  A query advances the *)
(* clock and reads each object as of the time before that.                 *)
(*                                                                         *)
(* One action per access to shared memory.  A process is in one call of    *)
(* the provider at a time: vpc[p] says where, call[p] what it was asked.   *)
(* The clock stays within an int, the type of a version's timestamp.       *)
(***************************************************************************)
EXTENDS Integers, Sequences, FiniteSets

CONSTANTS
  Objects,        \* the versioned fields
  Values,         \* what they can hold,
  NoVal,          \* and what a read returns that finds no version
  Procs,
  InitTime,       \* the clock at the start
  InitVersions    \* the versions at the start, oldest first: one or none

TBD == -1         \* the timestamp of a version that has none yet
NoTS == -2        \* a process without a snapshot

ASSUME VcasAssumption ==
  /\ InitTime \in Nat
  /\ InitVersions \in
       [Objects -> {<<>>} \cup {<<[val |-> v, ts |-> t]>> : v \in Values, t \in 0 .. InitTime}]
  /\ NoVal \notin Values

VARIABLES
  timestamp,   \* the clock
  versions,    \* the versions of each object, oldest first
  vpc, call,   \* where a process is in the provider, and in which call
  ix,          \* the version it looks at
  curTS,       \* the clock value it has loaded for it
  snap,        \* the timestamp of its snapshot
  out, ok      \* what its last read and its last cas_vcas returned

vcasVars == <<timestamp, versions, vpc, call, ix, curTS, snap, out, ok>>

NoCall == [kind |-> "none"]

VcasInit ==
  /\ timestamp = InitTime
  /\ versions = InitVersions
  /\ vpc = [p \in Procs |-> "idle"]
  /\ call = [p \in Procs |-> NoCall]
  /\ ix = [p \in Procs |-> 0]
  /\ curTS = [p \in Procs |-> 0]
  /\ snap = [p \in Procs |-> NoTS]
  /\ out = [p \in Procs |-> NoVal]
  /\ ok = [p \in Procs |-> FALSE]

Idle(p) == vpc[p] \in {"idle", "done"}

At(p, l) == vpc' = [vpc EXCEPT ![p] = l]

-----------------------------------------------------------------------------
\* The newest version from number i down whose timestamp is not after t.
VersionAt(vs, i, t) ==
  LET old == {j \in 1 .. i : vs[j].ts <= t}
  IN  CHOOSE j \in 0 .. i : (j = 0 /\ old = {}) \/ (j \in old /\ \A k \in old : k <= j)

AnswerAt(vs, i, t) == IF VersionAt(vs, i, t) = 0 THEN NoVal ELSE vs[VersionAt(vs, i, t)].val

\* A read returns v, or cas_vcas b.
Reply(p, v, b) ==
  /\ out' = [out EXCEPT ![p] = v]
  /\ ok' = [ok EXCEPT ![p] = b]
  /\ ix' = [ix EXCEPT ![p] = 0]
  /\ At(p, "done")

\* The call goes on with version i.
Look(p, i, l) ==
  /\ ix' = [ix EXCEPT ![p] = i]
  /\ At(p, l)
  /\ UNCHANGED <<out, ok>>

\* What call c of p goes on to do once version i has a timestamp; vs are the
\* versions of its object then.
Proceed(p, c, i, vs) ==
  CASE c.kind = "read" -> Reply(p, vs[i].val, FALSE)
    [] c.kind = "readAt" -> Reply(p, AnswerAt(vs, i, snap[p]), FALSE)
    [] c.kind = "cas" -> IF vs[i].val # c.old THEN Reply(p, NoVal, FALSE)
                         ELSE IF c.new = c.old THEN Reply(p, NoVal, TRUE)
                         ELSE Look(p, i, "install")
    [] c.kind = "stored" -> Reply(p, NoVal, TRUE)
    [] c.kind = "failed" -> Reply(p, NoVal, FALSE)

\* The call loads the head of its object's list, and looks whether it has a
\* timestamp.
Examine(p, c) ==
  LET vs == versions[c.obj] IN
  /\ vs # <<>>
  /\ call' = [call EXCEPT ![p] = c]
  /\ IF vs[Len(vs)].ts = TBD THEN Look(p, Len(vs), "ts") ELSE Proceed(p, c, Len(vs), vs)
  /\ UNCHANGED <<timestamp, versions, curTS, snap>>

\* read_vcas, read_vcas as of the snapshot, cas_vcas and linearize_update_at_cas.
BeginRead(p, o) == Idle(p) /\ Examine(p, [kind |-> "read", obj |-> o])

BeginReadAt(p, o) == Idle(p) /\ snap[p] # NoTS /\ Examine(p, [kind |-> "readAt", obj |-> o])

BeginCas(p, o, old, new) ==
  Idle(p) /\ Examine(p, [kind |-> "cas", obj |-> o, old |-> old, new |-> new])

\* initTS: a version without a timestamp is to get the time the clock shows now.
LoadClock(p) ==
  LET vs == versions[call[p].obj] IN
  /\ vpc[p] = "ts"
  /\ IF vs[ix[p]].ts # TBD
     THEN Proceed(p, call[p], ix[p], vs) /\ UNCHANGED curTS
     ELSE Look(p, ix[p], "stamp") /\ curTS' = [curTS EXCEPT ![p] = timestamp]
  /\ UNCHANGED <<timestamp, versions, call, snap>>

\* Mutant: a store in place of the compare-and-swap.
StampStore(p) ==
  LET vs == [versions[call[p].obj] EXCEPT ![ix[p]].ts = curTS[p]] IN
  /\ vpc[p] = "stamp"
  /\ versions' = [versions EXCEPT ![call[p].obj] = vs]
  /\ curTS' = [curTS EXCEPT ![p] = 0]
  /\ Proceed(p, call[p], ix[p], vs)
  /\ UNCHANGED <<timestamp, call, snap>>

\* initTS: the compare-and-swap; others may have been faster.
Stamp(p) ==
  LET vs == [versions[call[p].obj] EXCEPT ![ix[p]].ts = IF @ = TBD THEN curTS[p] ELSE @] IN
  /\ vpc[p] = "stamp"
  /\ versions' = [versions EXCEPT ![call[p].obj] = vs]
  /\ curTS' = [curTS EXCEPT ![p] = 0]
  /\ Proceed(p, call[p], ix[p], vs)
  /\ UNCHANGED <<timestamp, call, snap>>

\* Mutant: cas_vcas is done when the version is in place.
InstallOnly(p) ==
  LET o == call[p].obj
      n == Len(versions[o])
  IN
  /\ vpc[p] = "install"
  /\ IF n = ix[p]
     THEN /\ versions' = [versions EXCEPT ![o] = Append(@, [val |-> call[p].new, ts |-> TBD])]
          /\ Reply(p, NoVal, TRUE)
     ELSE Look(p, ix[p], "reload") /\ UNCHANGED versions
  /\ call' = [call EXCEPT ![p].kind = IF n = ix[p] THEN "stored" ELSE "failed"]
  /\ UNCHANGED <<timestamp, curTS, snap>>

\* The compare-and-swap of the head.  The new version needs a timestamp next;
\* after a failure the version that was in the way does.
Install(p) ==
  LET o == call[p].obj
      n == Len(versions[o])
  IN
  /\ vpc[p] = "install"
  /\ IF n = ix[p]
     THEN /\ versions' = [versions EXCEPT ![o] = Append(@, [val |-> call[p].new, ts |-> TBD])]
          /\ Look(p, n + 1, "ts")
     ELSE Look(p, ix[p], "reload") /\ UNCHANGED versions
  /\ call' = [call EXCEPT ![p].kind = IF n = ix[p] THEN "stored" ELSE "failed"]
  /\ UNCHANGED <<timestamp, curTS, snap>>

Reload(p) == vpc[p] = "reload" /\ Examine(p, call[p])

\* write_vcas: a new object is stamped before it is shared.
Create(p, o, v) ==
  /\ Idle(p)
  /\ versions[o] = <<>>
  /\ versions' = [versions EXCEPT ![o] = <<[val |-> v, ts |-> timestamp]>>]
  /\ UNCHANGED <<timestamp, vpc, call, ix, curTS, snap, out, ok>>

-----------------------------------------------------------------------------
(***************************************************************************)
(* traversal_start: the snapshot is of the time ts, which is over once the *)
(* clock has been moved on, by this process or by another one.             *)
(***************************************************************************)
TakeSnapshot(p) ==
  /\ Idle(p) /\ snap[p] = NoTS
  /\ snap' = [snap EXCEPT ![p] = timestamp]
  /\ At(p, "again")
  /\ UNCHANGED <<timestamp, versions, call, ix, curTS, out, ok>>

ReadAgain(p) ==
  /\ vpc[p] = "again"
  /\ At(p, IF timestamp = snap[p] THEN "advance" ELSE "idle")
  /\ UNCHANGED <<timestamp, versions, call, ix, curTS, snap, out, ok>>

FetchAndAdd(p) ==
  /\ vpc[p] = "advance"
  /\ timestamp' = timestamp + 1
  /\ At(p, "idle")
  /\ UNCHANGED <<versions, call, ix, curTS, snap, out, ok>>

\* The operation drops its snapshot, if it had one, and what it has read.
EndSnapshot(p) ==
  /\ Idle(p)
  /\ snap' = [snap EXCEPT ![p] = NoTS]
  /\ call' = [call EXCEPT ![p] = NoCall]
  /\ out' = [out EXCEPT ![p] = NoVal]
  /\ ok' = [ok EXCEPT ![p] = FALSE]
  /\ At(p, "idle")
  /\ UNCHANGED <<timestamp, versions, ix, curTS>>

-----------------------------------------------------------------------------
StampStep(p) == LoadClock(p) \/ Stamp(p)

SnapshotStep(p) == TakeSnapshot(p) \/ ReadAgain(p) \/ FetchAndAdd(p)

VcasStep(p) ==
  \/ StampStep(p) \/ Install(p) \/ Reload(p) \/ SnapshotStep(p) \/ EndSnapshot(p)
  \/ \E o \in Objects :
       \/ BeginRead(p, o) \/ BeginReadAt(p, o)
       \/ \E v \in Values : Create(p, o, v)
       \/ \E old, new \in Values : BeginCas(p, o, old, new)

VcasNext == \E p \in Procs : VcasStep(p)

\* The provider under any client.
VcasSpec == VcasInit /\ [][VcasNext]_vcasVars
-----------------------------------------------------------------------------
(***************************************************************************)
(* Properties.                                                             *)
(***************************************************************************)

\* The timestamps of an object's versions are in the order of the versions and
\* not ahead of the clock, and only the newest version may have none yet,
\* although initTS of a version may be under way in many processes at once,
\* long after later versions have been installed.
VersionsOrdered ==
  \A o \in Objects : \A i \in DOMAIN versions[o] :
     LET v == versions[o][i] IN
     /\ v.ts = TBD => i = Len(versions[o])
     /\ v.ts <= timestamp
     /\ \A j \in 1 .. i - 1 : v.ts # TBD => versions[o][j].ts <= v.ts

\* What object o was at time t, as far as its versions tell, and whether they
\* have the last word: time t is over, and nobody is about to stamp the newest
\* version with a time up to t.
Stamped(vs) == IF vs # <<>> /\ vs[Len(vs)].ts = TBD THEN Len(vs) - 1 ELSE Len(vs)
ValueAsOf(o, t) == AnswerAt(versions[o], Stamped(versions[o]), t)

Settled(o, t) ==
  /\ t < timestamp
  /\ Stamped(versions[o]) = Len(versions[o])
       \/ \A p \in Procs : vpc[p] = "stamp" /\ call[p].obj = o /\ ix[p] = Len(versions[o])
                             => t < curTS[p]

\* The past is fixed: no step changes what an object was at a time for which it
\* is settled, nor unsettles it.  A query settles what it reads, at the time of
\* its snapshot; so it, and all others of that time, will get the same answer.
PastIsFixed ==
  [][\A o \in Objects : \A t \in 0 .. timestamp :
       Settled(o, t) => Settled(o, t)' /\ ValueAsOf(o, t)' = ValueAsOf(o, t)]_vcasVars
=============================================================================
