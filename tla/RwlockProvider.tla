--------------------------- MODULE RwlockProvider ----------------------------
(***************************************************************************)
(* The EBR-based range-query provider with a readers-writer lock           *)
(* (rq/rq_rwlock.h, with the lock of common/rwlock.h that favours readers, *)
(* RWLOCK_FAVOR_READERS).  Every node has the times of its insertion and   *)
(* deletion.  An update makes its change while it holds the lock for       *)
(* reading, and a query moves the clock on while it holds it for writing;  *)
(* the times are filled in afterwards.  A query looks for the nodes that   *)
(* were alive at its time in the structure, and for those that have left   *)
(* it in the announcements of the other processes and in their bags of     *)
(* retired nodes, which module Debra keeps for it.                         *)
(*                                                                         *)
(* As used by data structures with logical deletion, whose updates insert  *)
(* or delete one node.  A node is marked at the linearization point of its *)
(* deletion, and is unlinked, with an announcement, afterwards.            *)
(***************************************************************************)
EXTENDS Integers, Sequences, FiniteSets

CONSTANTS
  NumProcs,     \* NUM_PROCESSES
  RqNodes,      \* the nodes of the data structure
  NoNode,       \* no node
  InitITime     \* the insertion times at the start

Procs == 1 .. NumProcs

NotSet == 0     \* TIMESTAMP_NOT_SET

ASSUME RwlockAssumption ==
  /\ NumProcs \in Nat \ {0}
  /\ NoNode \notin RqNodes
  /\ InitITime \in [RqNodes -> {NotSet, 1}]

VARIABLES
  timestamp,                \* the clock
  readers, writer,          \* the two fields of the lock
  itime, dtime,             \* the times of the nodes
  announcements,            \* a process' announced node, and
  numAnnouncements,         \* whether it is announced now
  bag,                      \* its retired nodes, oldest first
  rpc,                      \* where a process is in the provider
  ins, del, uts,            \* its update: a node inserted or deleted, and when
  lin, endTS,               \* its query: rq_lin_time and the time of its end,
  node, source, wasMarked,  \* the node it looks at, where it found it, its mark,
  other, limbo,             \* the process and the bags it is about to visit,
  got                       \* and the nodes it has found

clockVars == <<timestamp, readers, writer>>
timeVars == <<itime, dtime>>
announceVars == <<announcements, numAnnouncements, bag>>
updateVars == <<ins, del, uts>>
visitVars == <<node, source, wasMarked>>
queryVars == <<lin, endTS, visitVars, other, limbo, got>>
rqVars == <<clockVars, timeVars, announceVars, rpc, updateVars, queryVars>>

RqInit ==
  /\ timestamp = 1 /\ readers = 0 /\ writer = FALSE
  /\ itime = InitITime
  /\ dtime = [n \in RqNodes |-> NotSet]
  /\ announcements = [p \in Procs |-> NoNode]
  /\ numAnnouncements = [p \in Procs |-> 0]
  /\ bag = [p \in Procs |-> <<>>]
  /\ rpc = [p \in Procs |-> "idle"]
  /\ ins = [p \in Procs |-> NoNode] /\ del = [p \in Procs |-> NoNode]
  /\ uts = [p \in Procs |-> 0]
  /\ lin = [p \in Procs |-> 0] /\ endTS = [p \in Procs |-> 0]
  /\ node = [p \in Procs |-> NoNode]
  /\ source = [p \in Procs |-> "none"]
  /\ wasMarked = [p \in Procs |-> FALSE]
  /\ other = [p \in Procs |-> 0]
  /\ limbo = [p \in Procs |-> <<>>]
  /\ got = [p \in Procs |-> {}]

At(p, l) == rpc' = [rpc EXCEPT ![p] = l]

-----------------------------------------------------------------------------
(***************************************************************************)
(* linearize_update_at_write, with logicalDeletion.                        *)
(***************************************************************************)

\* readLock: the reader is counted first, and then waits for a writer to leave.
BeginUpdate(p, i, d) ==
  /\ rpc[p] = "idle"
  /\ readers' = readers + 1
  /\ ins' = [ins EXCEPT ![p] = i] /\ del' = [del EXCEPT ![p] = d]
  /\ At(p, "readLock")
  /\ UNCHANGED <<timestamp, writer, timeVars, announceVars, uts, queryVars>>

\* Mutant: a reader does not wait for the writer.
ReadLockedUnchecked(p) ==
  /\ rpc[p] = "readLock"
  /\ uts' = [uts EXCEPT ![p] = timestamp]
  /\ At(p, "write")
  /\ UNCHANGED <<clockVars, timeVars, announceVars, ins, del, queryVars>>

\* It has the lock, and loads the clock.
ReadLocked(p) ==
  /\ rpc[p] = "readLock" /\ ~writer
  /\ uts' = [uts EXCEPT ![p] = timestamp]
  /\ At(p, "write")
  /\ UNCHANGED <<clockVars, timeVars, announceVars, ins, del, queryVars>>

\* "*lin_addr = lin_newval", the change of the data structure.
LinWrite(p) ==
  /\ rpc[p] = "write"
  /\ At(p, "readUnlock")
  /\ UNCHANGED <<clockVars, timeVars, announceVars, updateVars, queryVars>>

\* Mutant: a deletion leaves the lock taken.
ReadUnlockNot(p) ==
  /\ rpc[p] = "readUnlock"
  /\ readers' = IF del[p] = NoNode THEN readers - 1 ELSE readers
  /\ At(p, "times")
  /\ UNCHANGED <<timestamp, writer, timeVars, announceVars, updateVars, queryVars>>

ReadUnlock(p) ==
  /\ rpc[p] = "readUnlock"
  /\ readers' = readers - 1
  /\ At(p, "times")
  /\ UNCHANGED <<timestamp, writer, timeVars, announceVars, updateVars, queryVars>>

\* set_insertion_timestamps and set_deletion_timestamps.
SetTimes(p) ==
  /\ rpc[p] = "times"
  /\ itime' = [n \in RqNodes |-> IF n = ins[p] THEN uts[p] ELSE itime[n]]
  /\ dtime' = [n \in RqNodes |-> IF n = del[p] THEN uts[p] ELSE dtime[n]]
  /\ ins' = [ins EXCEPT ![p] = NoNode]
  /\ uts' = [uts EXCEPT ![p] = 0]
  /\ At(p, IF del[p] = NoNode THEN "idle" ELSE "announce")
  /\ UNCHANGED <<clockVars, announceVars, del, queryVars>>

-----------------------------------------------------------------------------
(***************************************************************************)
(* A marked node is announced, unlinked by the data structure, put into    *)
(* the process' bag, and no longer announced.                              *)
(***************************************************************************)
Announce(p) ==
  /\ rpc[p] = "announce"
  /\ announcements' = [announcements EXCEPT ![p] = del[p]]
  /\ At(p, "count")
  /\ UNCHANGED <<clockVars, timeVars, numAnnouncements, bag, updateVars, queryVars>>

CountAnnouncement(p) ==
  /\ rpc[p] = "count"
  /\ numAnnouncements' = [numAnnouncements EXCEPT ![p] = 1]
  /\ At(p, "unlink")
  /\ UNCHANGED <<clockVars, timeVars, announcements, bag, updateVars, queryVars>>

Unlinked(p) ==
  /\ rpc[p] = "unlink"
  /\ At(p, "retire")
  /\ UNCHANGED <<clockVars, timeVars, announceVars, updateVars, queryVars>>

\* Mutant: the announcement is withdrawn before the node is retired.
RetireWithdrawn(p) ==
  \/ /\ rpc[p] = "retire"
     /\ numAnnouncements' = [numAnnouncements EXCEPT ![p] = 0]
     /\ At(p, "late")
     /\ UNCHANGED <<clockVars, timeVars, announcements, bag, updateVars, queryVars>>
  \/ /\ rpc[p] = "late"
     /\ bag' = [bag EXCEPT ![p] = Append(@, del[p])]
     /\ At(p, "withdraw")
     /\ UNCHANGED <<clockVars, timeVars, announcements, numAnnouncements, updateVars, queryVars>>

\* physical_deletion_succeeded.
Retire(p) ==
  /\ rpc[p] = "retire"
  /\ bag' = [bag EXCEPT ![p] = Append(@, del[p])]
  /\ At(p, "withdraw")
  /\ UNCHANGED <<clockVars, timeVars, announcements, numAnnouncements, updateVars, queryVars>>

Withdraw(p) ==
  /\ rpc[p] = "withdraw"
  /\ numAnnouncements' = [numAnnouncements EXCEPT ![p] = 0]
  /\ del' = [del EXCEPT ![p] = NoNode]
  /\ At(p, "idle")
  /\ UNCHANGED <<clockVars, timeVars, announcements, bag, ins, uts, queryVars>>

-----------------------------------------------------------------------------
(***************************************************************************)
(* traversal_start: a writer waits until the lock is free.                 *)
(***************************************************************************)
StartTraversal(p) ==
  /\ rpc[p] = "idle"
  /\ readers = 0 /\ ~writer
  /\ writer' = TRUE
  /\ At(p, "advance")
  /\ UNCHANGED <<timestamp, readers, timeVars, announceVars, updateVars, queryVars>>

\* "linearization point of range query (at the write to timestamp)".
AdvanceClock(p) ==
  /\ rpc[p] = "advance"
  /\ timestamp' = timestamp + 1
  /\ lin' = [lin EXCEPT ![p] = timestamp + 1]
  /\ At(p, "writeUnlock")
  /\ UNCHANGED <<readers, writer, timeVars, announceVars, updateVars,
                 endTS, visitVars, other, limbo, got>>

WriteUnlock(p) ==
  /\ rpc[p] = "writeUnlock"
  /\ writer' = FALSE
  /\ At(p, "traverse")
  /\ UNCHANGED <<timestamp, readers, timeVars, announceVars, updateVars, queryVars>>

(***************************************************************************)
(* traversal_try_add of a node: its insertion time, which may not be set   *)
(* yet; its mark; its deletion time, which may not be set yet either.      *)
(***************************************************************************)
Consider(p, n, s) ==
  /\ node' = [node EXCEPT ![p] = n]
  /\ source' = [source EXCEPT ![p] = s]
  /\ At(p, "itime")

\* The node is done with.
Leave(p, keep) ==
  /\ got' = [got EXCEPT ![p] = IF keep THEN @ \cup {node[p]} ELSE @]
  /\ node' = [node EXCEPT ![p] = NoNode]
  /\ source' = [source EXCEPT ![p] = "none"]
  /\ wasMarked' = [wasMarked EXCEPT ![p] = FALSE]
  /\ At(p, source[p])

AwaitITime(p) ==
  /\ rpc[p] = "itime" /\ itime[node[p]] # NotSet
  /\ IF itime[node[p]] >= lin[p] THEN Leave(p, FALSE)
     ELSE At(p, "mark") /\ UNCHANGED <<visitVars, got>>
  /\ UNCHANGED <<clockVars, timeVars, announceVars, updateVars, lin, endTS, other, limbo>>

\* Mutant: a deletion at the time of the query counts as one before it.
DeletedUpTo(d, t) == d # NotSet /\ d <= t

\* The deletion of time d came before the query of time t.  (The query moved the
\* clock to its time first, so that an update of that time came after it.)
DeletedBefore(d, t) == d # NotSet /\ d < t

\* m is the mark of the node.
ReadMark(p, m) ==
  /\ rpc[p] = "mark"
  /\ wasMarked' = [wasMarked EXCEPT ![p] = m]
  /\ At(p, "dtime")
  /\ UNCHANGED <<clockVars, timeVars, announceVars, updateVars, lin, endTS, node, source,
                 other, limbo, got>>

\* A node without a mark is alive, whatever its deletion time will be; for one
\* with a mark the query waits for it.  (An announced node has its time already:
\* the case in which the wait ends with the announcement does not arise.)
ReadDTime(p) ==
  LET d == dtime[node[p]] IN
  /\ rpc[p] = "dtime"
  /\ d # NotSet \/ ~wasMarked[p]
  /\ Leave(p, ~DeletedBefore(d, lin[p]))
  /\ UNCHANGED <<clockVars, timeVars, announceVars, updateVars, lin, endTS, other, limbo>>

-----------------------------------------------------------------------------
(***************************************************************************)
(* traversal_end.                                                          *)
(***************************************************************************)
Others(p) == Procs \ {p}

\* The next of the other processes, in the order of their numbers; 0 after the last.
NextOther(p, q) ==
  LET later == {r \in Others(p) : r > q}
  IN  CHOOSE r \in later \cup {0} : (r = 0 /\ later = {}) \/ (r # 0 /\ \A s \in later : r <= s)

EndTraversal(p) ==
  /\ rpc[p] = "traverse"
  /\ endTS' = [endTS EXCEPT ![p] = timestamp]
  /\ other' = [other EXCEPT ![p] = NextOther(p, 0)]
  /\ At(p, "announced")
  /\ UNCHANGED <<clockVars, timeVars, announceVars, updateVars, lin, visitVars, limbo, got>>

\* The number of announcements of a process, and after it its announcement.
ReadCount(p) ==
  /\ rpc[p] = "announced"
  /\ IF other[p] = 0
     THEN other' = [other EXCEPT ![p] = NextOther(p, 0)] /\ At(p, "bags")
     ELSE IF numAnnouncements[other[p]] = 0
     THEN other' = [other EXCEPT ![p] = NextOther(p, @)] /\ UNCHANGED rpc
     ELSE At(p, "entry") /\ UNCHANGED other
  /\ UNCHANGED <<clockVars, timeVars, announceVars, updateVars, lin, endTS, visitVars, limbo, got>>

ReadEntry(p) ==
  /\ rpc[p] = "entry"
  /\ Consider(p, announcements[other[p]], "announced")
  /\ other' = [other EXCEPT ![p] = NextOther(p, @)]
  /\ UNCHANGED <<clockVars, timeVars, announceVars, updateVars, lin, endTS, wasMarked, limbo, got>>

\* The iterators: what is in the bags of each process now, all of it before the
\* first of them is read.
OpenBags(p) ==
  /\ rpc[p] = "bags"
  /\ IF other[p] = 0
     THEN At(p, "limbo") /\ UNCHANGED <<other, limbo>>
     ELSE /\ limbo' = [limbo EXCEPT ![p] =
                         IF bag[other[p]] = <<>> THEN @ ELSE Append(@, bag[other[p]])]
          /\ other' = [other EXCEPT ![p] = NextOther(p, @)]
          /\ UNCHANGED rpc
  /\ UNCHANGED <<clockVars, timeVars, announceVars, updateVars, lin, endTS, visitVars, got>>

\* The bags without the first one, and without the newest node of the first.
NextBag(l) == Tail(l)
NextNode(l) ==
  LET b == SubSeq(Head(l), 1, Len(Head(l)) - 1)
  IN  IF b = <<>> THEN Tail(l) ELSE <<b>> \o Tail(l)

\* A bag is read from its newest node down.  A node deleted after the traversal is
\* passed over; at one deleted before the query the rest of the bag is, too.
VisitBag(p) ==
  LET b == Head(limbo[p])
      n == b[Len(b)]
      d == dtime[n]
  IN
  /\ rpc[p] = "limbo" /\ limbo[p] # <<>>
  /\ IF d # NotSet /\ d > endTS[p]
     THEN limbo' = [limbo EXCEPT ![p] = NextNode(@)] /\ UNCHANGED <<node, source, rpc>>
     ELSE IF DeletedBefore(d, lin[p])
     THEN limbo' = [limbo EXCEPT ![p] = NextBag(@)] /\ UNCHANGED <<node, source, rpc>>
     ELSE limbo' = [limbo EXCEPT ![p] = NextNode(@)] /\ Consider(p, n, "limbo")
  /\ UNCHANGED <<clockVars, timeVars, announceVars, updateVars, lin, endTS, wasMarked, other, got>>

\* The query has seen everything.
QueryDone(p) == rpc[p] = "limbo" /\ limbo[p] = <<>>

EndQuery(p) ==
  /\ QueryDone(p)
  /\ lin' = [lin EXCEPT ![p] = 0] /\ endTS' = [endTS EXCEPT ![p] = 0]
  /\ got' = [got EXCEPT ![p] = {}]
  /\ At(p, "idle")
  /\ UNCHANGED <<clockVars, timeVars, announceVars, updateVars, visitVars, other, limbo>>

-----------------------------------------------------------------------------
UpdateStep(p) ==
  \/ ReadLocked(p) \/ ReadUnlock(p) \/ SetTimes(p)
  \/ Announce(p) \/ CountAnnouncement(p) \/ Retire(p) \/ Withdraw(p)

QueryStep(p) ==
  \/ AdvanceClock(p) \/ WriteUnlock(p)
  \/ AwaitITime(p) \/ ReadDTime(p)
  \/ ReadCount(p) \/ ReadEntry(p) \/ OpenBags(p) \/ VisitBag(p)
=============================================================================
