---------------------------- MODULE LinkedBundle ----------------------------
(***************************************************************************)
(* The bundle of one link: a list of entries, newest first, that records   *)
(* what the link pointed to and from which timestamp on                    *)
(* (bundle/linked_bundle.h).                                               *)
(*                                                                         *)
(* A bundle is a record.  "entries" holds every entry the bundle was ever  *)
(* given, oldest first, so that a pointer to an entry is its index, 0 is   *)
(* nullptr and next_ leads from i to i - 1.  "low" is the oldest entry     *)
(* still linked: reclaimEntries unlinks and frees the entries below it.    *)
(* The entries below low stay in the record as a history that no operation *)
(* of the code can reach.                                                  *)
(***************************************************************************)
EXTENDS Integers, Sequences

CONSTANTS
  Ptrs,      \* what a link can point to
  Pending    \* BUNDLE_PENDING_TIMESTAMP (LLONG_MAX), greater than any label

ASSUME PendingAssumption == Pending \in Nat

Entry == [ts : Nat, ptr : Ptrs]

Bundle == [entries : Seq(Entry), low : Nat \ {0}]

EmptyBundle == [entries |-> <<>>, low |-> 1]

\* head_
Newest(bd) == Len(bd.entries)

\* entry i's next_
NextOf(bd, i) == IF i > bd.low THEN i - 1 ELSE 0

IsPending(bd, i) == bd.entries[i].ts = Pending

\* prepare(): a pending entry becomes the head.
Prepared(bd, p) ==
  [bd EXCEPT !.entries = Append(@, [ts |-> Pending, ptr |-> p])]

\* finalize(): the head entry is labelled.
Finalized(bd, t) ==
  [bd EXCEPT !.entries[Len(bd.entries)].ts = t]

\* Mutant: the entry that the timestamp still needs is freed too.
ReclaimedNeeded(bd, h, t) ==
  LET first == IF IsPending(bd, h) THEN NextOf(bd, h) ELSE h
      needed == {i \in bd.low .. first : bd.entries[i].ts <= t}
  IN  IF needed = {} THEN bd
      ELSE [bd EXCEPT !.low = 1 + CHOOSE i \in needed : \A j \in needed : j <= i]

\* reclaimEntries(t), which loaded head_ as h: entries older than the newest
\* finalized one whose label is at most t are unlinked and freed.  Nothing is
\* when there is no such entry, or none below it.
Reclaimed(bd, h, t) ==
  LET first == IF IsPending(bd, h) THEN NextOf(bd, h) ELSE h
      needed == {i \in bd.low .. first : bd.entries[i].ts <= t}
  IN  IF needed = {} THEN bd
      ELSE [bd EXCEPT !.low = CHOOSE i \in needed : \A j \in needed : j <= i]
=============================================================================
