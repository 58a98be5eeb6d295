------------------------------ MODULE LazyList -------------------------------
(***************************************************************************)
(* What the lazy lists of lazylist/lazylist_impl.h and                     *)
(* vcas_lazylist/vcas_lazylist_impl.h have in common: the nodes with their *)
(* locks, the searches, the order in which updates lock, validate, unlock  *)
(* and start again, and the calls.  How a link or a mark is read and       *)
(* written is up to the provider, and left to the modules that extend this *)
(* one.  A node is never reused, as the reclaimer guarantees while an      *)
(* operation may hold a pointer to it (module Debra).                      *)
(***************************************************************************)
EXTENDS LinearizableSet, FiniteSets

CONSTANTS
  Nodes,
  HeadNode,    \* the node "head" with key KEY_MIN
  MaxNode,     \* the node "max" with key KEY_MAX
  InitKey,     \* the keys of the nodes,
  InitNodes,   \* and those that are in the list at the start
  NoProc,      \* an unlocked node
  Workloads    \* what the processes are asked to do: [Clients -> Seq(Operation)]

VARIABLES
  key, lock,      \* fields of the nodes
  alloc,          \* the nodes in use
  lpc,            \* where each process is in its operation
  todo, op,       \* the calls it has to make, and the one it is in
  pred, curr,     \* its local pointers,
  newnode,        \* the node it has made
  verdict,        \* what is to follow when an update has unlocked
  found,          \* the keys its range query has collected
  configs         \* the observer

lockVars == <<lock>>
nodeVars == <<key, alloc>>
callVars == <<todo, op, configs>>
localVars == <<pred, curr, newnode, verdict, found>>
listVars == <<lockVars, nodeVars, callVars, localVars, lpc>>

ListInit ==
  /\ key = InitKey
  /\ lock = [n \in Nodes |-> NoProc]
  /\ alloc = InitNodes
  /\ lpc = [p \in Clients |-> "idle"]
  /\ todo \in Workloads
  /\ op = [p \in Clients |-> [type |-> "none"]]
  /\ pred = [p \in Clients |-> HeadNode]
  /\ curr = [p \in Clients |-> HeadNode]
  /\ newnode = [p \in Clients |-> HeadNode]
  /\ verdict = [p \in Clients |-> "none"]
  /\ found = [p \in Clients |-> {}]
  /\ configs = Start({InitKey[n] : n \in InitNodes \ {HeadNode, MaxNode}})

-----------------------------------------------------------------------------
Goto(p, l) == lpc' = [lpc EXCEPT ![p] = l]

Restart(p) ==
  /\ pred' = [pred EXCEPT ![p] = HeadNode]
  /\ curr' = [curr EXCEPT ![p] = HeadNode]

\* An operation starts, at the head of the list.
Call(p) ==
  /\ lpc[p] = "idle" /\ todo[p] # <<>>
  /\ op' = [op EXCEPT ![p] = Head(todo[p])]
  /\ todo' = [todo EXCEPT ![p] = Tail(@)]
  /\ configs' = Invoke(configs, p)
  /\ Goto(p, IF Head(todo[p]).type = "range" THEN "start" ELSE "search")
  /\ UNCHANGED <<lockVars, nodeVars, localVars>>

\* p's operation returns, with the keys r; "seen" if the result is looked at.
Return(p, r, seen) ==
  /\ configs' = IF seen THEN Respond(configs, op, p, r) ELSE RespondUnseen(configs, p)
  /\ op' = [op EXCEPT ![p] = [type |-> "none"]]
  /\ Restart(p)
  /\ verdict' = [verdict EXCEPT ![p] = "none"]
  /\ found' = [found EXCEPT ![p] = {}]
  /\ newnode' = [newnode EXCEPT ![p] = HeadNode]
  /\ Goto(p, "idle")
  /\ UNCHANGED todo

ReturnKeys(p, r) == Return(p, r, TRUE)

\* A search has read n from the link of curr.  It goes on as long as the keys are
\* too small.  An erase that does not find its key returns without a lock.
Before(p, n) == key[n] < op[p].lo

Visit(p, n) ==
  IF op[p].type = "erase" /\ key[n] > op[p].lo
  THEN ReturnKeys(p, <<>>)
  ELSE /\ pred' = [pred EXCEPT ![p] = curr[p]]
       /\ curr' = [curr EXCEPT ![p] = n]
       /\ IF Before(p, n) THEN UNCHANGED lpc
          ELSE Goto(p, IF op[p].type = "contains" THEN "mark" ELSE "lockPred")
       /\ UNCHANGED <<callVars, newnode, verdict, found>>

-----------------------------------------------------------------------------
(***************************************************************************)
(* Updates lock the predecessor and then the node.                         *)
(***************************************************************************)
AcquireLock(p, n) ==
  /\ lock[n] = NoProc
  /\ lock' = [lock EXCEPT ![n] = p]

ReleaseLock(n) == lock' = [lock EXCEPT ![n] = NoProc]

LockPred(p) ==
  /\ lpc[p] = "lockPred"
  /\ AcquireLock(p, pred[p])
  /\ Goto(p, "lockCurr")
  /\ UNCHANGED <<nodeVars, callVars, localVars>>

LockCurr(p) ==
  /\ lpc[p] = "lockCurr"
  /\ AcquireLock(p, curr[p])
  /\ Goto(p, "validate")
  /\ UNCHANGED <<nodeVars, callVars, localVars>>

\* The update is over, or was found to be in vain: it unlocks, and v follows.
Decide(p, v) ==
  /\ verdict' = [verdict EXCEPT ![p] = v]
  /\ Goto(p, "unlockCurr")

\* How an update starts when validateLinks has returned "valid": an insert that
\* finds the key has nothing to do, the others go on to their first change.
Validate(p, valid) ==
  /\ lpc[p] = "validate"
  /\ IF ~valid THEN Decide(p, "retry")
     ELSE IF op[p].type = "insert" /\ key[curr[p]] = op[p].lo THEN Decide(p, "no")
     ELSE Goto(p, "change") /\ UNCHANGED verdict
  /\ UNCHANGED <<lockVars, nodeVars, callVars, pred, curr, newnode, found>>

\* new_node, for the key of the insert.
Allocate(p, n) ==
  /\ n \notin alloc /\ \A m \in Nodes \ alloc : n <= m
  /\ alloc' = alloc \cup {n}
  /\ key' = [key EXCEPT ![n] = op[p].lo]
  /\ newnode' = [newnode EXCEPT ![p] = n]

UnlockCurr(p) ==
  /\ lpc[p] = "unlockCurr"
  /\ ReleaseLock(curr[p])
  /\ Goto(p, "unlockPred")
  /\ UNCHANGED <<nodeVars, callVars, localVars>>

\* The operation starts again or returns.
UnlockPred(p) ==
  /\ lpc[p] = "unlockPred"
  /\ ReleaseLock(pred[p])
  /\ IF verdict[p] = "retry"
     THEN /\ Restart(p) /\ Goto(p, "search")
          /\ verdict' = [verdict EXCEPT ![p] = "none"]
          /\ UNCHANGED <<callVars, newnode, found>>
     ELSE ReturnKeys(p, IF verdict[p] = "yes" THEN <<op[p].lo>> ELSE <<>>)
  /\ UNCHANGED nodeVars

LockStep(p) == LockPred(p) \/ LockCurr(p) \/ UnlockCurr(p) \/ UnlockPred(p)

Finished == \A p \in Clients : lpc[p] = "idle" /\ todo[p] = <<>>

-----------------------------------------------------------------------------
\* Every operation takes effect at one instant between its call and its return,
\* and all of them agree on one order: updates, contains and range queries.
Linearizable == configs # {}

\* Every operation returns: an update that fails to validate lets go of its locks
\* and finds its way in the end, and every wait ends.
OperationsReturn == \A p \in Clients : lpc[p] \in {"search", "start"} ~> lpc[p] = "idle"
=============================================================================
