--------------------------- MODULE SnapshotStore ----------------------------
(***************************************************************************)
(* What the bundled range-query provider promises the data structures      *)
(* built on it: a store of links that updates change atomically, several   *)
(* links at once, and that range queries read as of one instant.           *)
(***************************************************************************)
EXTENDS Integers, Sequences

CONSTANTS
  Links,     \* the links of the data structure
  Targets,   \* what a link can lead to
  NoTarget,  \* a link that does not exist yet
  Writers,   \* processes that run updates
  Readers,   \* processes that run range queries
  Updates,   \* the updates: sequences of (bundle, pointer)
  Initial    \* the store at the start

NoSnapshot == <<>>
NoUpdate == <<>>

VARIABLES
  store,      \* the current target of every link
  update,     \* the update of a writer
  committed,  \* whether it has taken effect
  snapshot,   \* the store as of the start of a reader's query
  result      \* the link a query read last, and what it was told

vars == <<store, update, committed, snapshot, result>>

NoResult == [link |-> <<>>, target |-> NoTarget]

Writes(w, k) == \E i \in 1 .. Len(w) : w[i].bundle = k
TargetIn(w, k) == LET i == CHOOSE i \in 1 .. Len(w) : w[i].bundle = k IN w[i].ptr

Init ==
  /\ store = Initial
  /\ update = [p \in Writers |-> NoUpdate]
  /\ committed = [p \in Writers |-> FALSE]
  /\ snapshot = [p \in Readers |-> NoSnapshot]
  /\ result = [p \in Readers |-> NoResult]

\* An update of links that no other writer is updating.
Begin(p, w) ==
  /\ update[p] = NoUpdate
  /\ \A q \in Writers, k \in Links : ~(Writes(update[q], k) /\ Writes(w, k))
  /\ update' = [update EXCEPT ![p] = w]
  /\ UNCHANGED <<store, committed, snapshot, result>>

\* One or more updates take effect, each of them whole.
Commit(S) ==
  /\ \A p \in S : update[p] # NoUpdate /\ ~committed[p]
  /\ store' = [k \in Links |->
                 IF \E p \in S : Writes(update[p], k)
                 THEN TargetIn(update[CHOOSE p \in S : Writes(update[p], k)], k)
                 ELSE store[k]]
  /\ committed' = [p \in Writers |-> committed[p] \/ p \in S]
  /\ UNCHANGED <<update, snapshot, result>>

\* An update that returns has taken effect.
End(p) ==
  /\ committed[p]
  /\ update' = [update EXCEPT ![p] = NoUpdate]
  /\ committed' = [committed EXCEPT ![p] = FALSE]
  /\ UNCHANGED <<store, snapshot, result>>

Take(p) ==
  /\ snapshot[p] = NoSnapshot
  /\ snapshot' = [snapshot EXCEPT ![p] = store]
  /\ UNCHANGED <<store, update, committed, result>>

\* A read within a query starts, and is answered from the snapshot.
Forget(p) ==
  /\ snapshot[p] # NoSnapshot
  /\ \E k \in Links : result' = [result EXCEPT ![p] = [link |-> k, target |-> NoTarget]]
  /\ UNCHANGED <<store, update, committed, snapshot>>

Answer(p) ==
  /\ snapshot[p] # NoSnapshot
  /\ result[p].link \in Links
  /\ snapshot[p][result[p].link] # NoTarget
  /\ result' = [result EXCEPT ![p].target = snapshot[p][result[p].link]]
  /\ UNCHANGED <<store, update, committed, snapshot>>

Release(p) ==
  /\ snapshot' = [snapshot EXCEPT ![p] = NoSnapshot]
  /\ result' = [result EXCEPT ![p] = NoResult]
  /\ UNCHANGED <<store, update, committed>>

Next ==
  \/ \E p \in Writers : \/ \E w \in Updates : Begin(p, w)
                        \/ End(p)
  \/ \E S \in (SUBSET Writers) \ {{}} : Commit(S)
  \/ \E p \in Readers : Take(p) \/ Forget(p) \/ Answer(p) \/ Release(p)

Spec == Init /\ [][Next]_vars
=============================================================================
