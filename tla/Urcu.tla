-------------------------------- MODULE Urcu --------------------------------
(***************************************************************************)
(* The user-space RCU of the Citrus tree (citrus/urcu_impl.h), in the      *)
(* build without RCU_USE_TSC.  Each thread has a counter that is even while *)
(* the thread is inside a read-side section; synchronize() reads all the   *)
(* counters, then waits for each one that was even to become odd or to     *)
(* grow.                                                                   *)
(***************************************************************************)
EXTENDS Integers

CONSTANT RcuThreads   \* threads: the length of urcu_table

ASSUME RcuAssumption == RcuThreads \in Nat \ {0}

Threads == 1 .. RcuThreads

VARIABLES
  time,    \* the threads' counters
  times,   \* a synchronizing thread's copy of them
  sync,    \* where a thread is in synchronize()
  turn,    \* the counter it reads or waits for
  before   \* history: the sections open when it began that have not ended yet

rcuVars == <<time, times, sync, turn, before>>

Reading(q) == time[q] % 2 = 0

RcuTypeOK ==
  /\ time \in [Threads -> Nat]
  /\ times \in [Threads -> [Threads -> Nat]]
  /\ sync \in [Threads -> {"out", "read", "wait"}]
  /\ turn \in [Threads -> Threads]
  /\ before \in [Threads -> SUBSET Threads]

RcuInit ==
  /\ time = [q \in Threads |-> 1]
  /\ times = [p \in Threads |-> [q \in Threads |-> 0]]
  /\ sync = [p \in Threads |-> "out"]
  /\ turn = [p \in Threads |-> 1]
  /\ before = [p \in Threads |-> {}]

ReadLock(p) ==
  /\ sync[p] = "out" /\ ~Reading(p)
  /\ time' = [time EXCEPT ![p] = @ + 1]
  /\ UNCHANGED <<times, sync, turn, before>>

\* Sets the lowest bit.
ReadUnlock(p) ==
  /\ sync[p] = "out" /\ Reading(p)
  /\ time' = [time EXCEPT ![p] = @ + 1]
  /\ before' = [q \in Threads |-> before[q] \ {p}]
  /\ UNCHANGED <<times, sync, turn>>

\* Called outside a section of the thread's own.
SyncStart(p) ==
  /\ sync[p] = "out" /\ ~Reading(p)
  /\ sync' = [sync EXCEPT ![p] = "read"]
  /\ before' = [before EXCEPT ![p] = {q \in Threads : Reading(q)}]
  /\ UNCHANGED <<time, times, turn>>

\* The next counter, or the step named "then".
NextThread(p, then) ==
  IF turn[p] < RcuThreads
  THEN turn' = [turn EXCEPT ![p] = @ + 1] /\ UNCHANGED sync
  ELSE turn' = [turn EXCEPT ![p] = 1] /\ sync' = [sync EXCEPT ![p] = then]

SyncRead(p) ==
  /\ sync[p] = "read"
  /\ times' = [times EXCEPT ![p][turn[p]] = time[turn[p]]]
  /\ NextThread(p, "wait")
  /\ UNCHANGED <<time, before>>

\* Mutant: a counter that grew by one, into a section, counts as a section left.
SyncWaitAny(p) ==
  /\ sync[p] = "wait"
  /\ times[p][turn[p]] % 2 = 0 => time[turn[p]] >= times[p][turn[p]]
  /\ NextThread(p, "out")
  /\ UNCHANGED <<time, times, before>>

\* The spin ends once the section that was read has ended; a later section of
\* the same thread is not waited for.
SyncWait(p) ==
  LET t == time[turn[p]]
      old == times[p][turn[p]]
  IN
  /\ sync[p] = "wait"
  /\ old % 2 = 1 \/ t % 2 = 1 \/ t > old
  /\ NextThread(p, "out")
  /\ UNCHANGED <<time, times, before>>

SyncStep(p) == SyncRead(p) \/ SyncWait(p)

RcuNext == \E p \in Threads : ReadLock(p) \/ ReadUnlock(p) \/ SyncStart(p) \/ SyncStep(p)

RcuSpec == RcuInit /\ [][RcuNext]_rcuVars

\* When synchronize() returns, every read-side section that was open when it
\* began has ended, however sections began and ended between its reads.
GracePeriod == \A p \in Threads : sync[p] = "out" => before[p] = {}
=============================================================================
