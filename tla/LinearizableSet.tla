-------------------------- MODULE LinearizableSet ---------------------------
(***************************************************************************)
(* An observer of the calls and returns of a concurrent ordered set.  It   *)
(* keeps every way the calls so far can be put in an order that respects   *)
(* real time and explains what they returned; the history is linearizable  *)
(* as long as one is left.                                                 *)
(*                                                                         *)
(* A result is the sequence of the keys an operation reports: those in the *)
(* range for a range query, and the one key, or none, for the others.      *)
(***************************************************************************)
EXTENDS Integers, Sequences, SequencesExt

CONSTANTS
  Clients,   \* the processes that call the set
  SetKeys    \* the keys it can hold

ASSUME ObserverAssumption == IsFiniteSet(Clients) /\ SetKeys \subseteq Int

OpTypes == {"insert", "erase", "contains", "range"}

\* All but range queries are about one key.
Operation ==
  {o \in [type : OpTypes, lo : SetKeys, hi : SetKeys] : o.type # "range" => o.lo = o.hi}

InRange(op) == {k \in SetKeys : op.lo <= k /\ k <= op.hi}

\* The keys of S in order: the i-th has i - 1 below it.
Ascending(S) ==
  [i \in 1 .. Cardinality(S) |-> CHOOSE k \in S : Cardinality({j \in S : j < k}) = i - 1]

\* What op reports of a set S, and what it makes of it.  An insert reports the
\* key if it was added, an erase if it was removed.
ResultOf(op, S) ==
  IF op.type = "insert" THEN Ascending(InRange(op) \ S) ELSE Ascending(InRange(op) \cap S)

After(op, S) ==
  CASE op.type = "insert" -> S \cup InRange(op)
    [] op.type = "erase" -> S \ InRange(op)
    [] OTHER -> S

-----------------------------------------------------------------------------
(***************************************************************************)
(* A configuration: a set the calls can have led to, the calls that have   *)
(* not taken effect, and the results of those that have but not returned.  *)
(***************************************************************************)
Start(S) == {[keys |-> S, open |-> {}, done |-> [p \in {} |-> <<>>]]}

Invoke(C, p) == {[c EXCEPT !.open = @ \cup {p}] : c \in C}

\* The configurations in which one more of the calls has taken effect.
TakesEffect(c, call) ==
  { [keys |-> After(call[p], c.keys),
     open |-> c.open \ {p},
     done |-> [q \in DOMAIN c.done \cup {p} |->
                 IF q = p THEN ResultOf(call[p], c.keys) ELSE c.done[q]]] : p \in c.open }

\* Any number of calls takes effect.
Closure(C, call) ==
  LET reach[n \in 0 .. Cardinality(Clients)] ==
        IF n = 0 THEN C
        ELSE LET D == reach[n - 1] IN D \cup UNION {TakesEffect(c, call) : c \in D}
  IN  reach[Cardinality(Clients)]

Forget(c, p) == [c EXCEPT !.done = [q \in DOMAIN c.done \ {p} |-> c.done[q]]]

\* p returns r: it has taken effect, and with that result.
Respond(C, call, p, r) ==
  {Forget(c, p) : c \in {d \in Closure(C, call) : p \in DOMAIN d.done /\ d.done[p] = r}}

\* p returns without having changed the set, and nobody looks at its result.
RespondUnseen(C, p) == {[c EXCEPT !.open = @ \ {p}] : c \in {d \in C : p \in d.open}}
=============================================================================
