------------------------------- MODULE Debra --------------------------------
(***************************************************************************)
(* DEBRA, the epoch-based reclaimer (recordmgr/reclaimer_debra.h) that     *)
(* decides when a node that was deleted may be freed.  A process announces *)
(* the epoch when it starts an operation (leaveQuiescentState) and that it *)
(* holds no pointer when it ends one (enterQuiescentState).  Its deleted   *)
(* records go into the current one of a ring of bags; each time it finds   *)
(* that the epoch has changed it turns the ring by one bag and frees an    *)
(* old bag.  The epoch advances when some process has seen every other     *)
(* one, a process at a time, quiescent or at this epoch.                   *)
(*                                                                         *)
(* The data structure appears as the set of linked records: an operation   *)
(* can come to hold a pointer to any record that is linked while it runs.  *)
(***************************************************************************)
EXTENDS Integers, FiniteSets

CONSTANTS
  NumProcesses,   \* NUM_PROCESSES
  Records,        \* the records the structure ever allocates, and
  InitLinked,     \* those it holds at the start
  EpochBags,      \* NUMBER_OF_EPOCH_BAGS, 9
  AlwaysEmpty,    \* NUMBER_OF_ALWAYS_EMPTY_EPOCH_BAGS, 3
  MinOps,         \* MIN_OPS_BEFORE_READ, 20, or 1 with RAPID_RECLAMATION
  MaxEpoch        \* bound: no operation starts once the epoch has reached it

Processes == 0 .. NumProcesses - 1

ASSUME DebraAssumption ==
  /\ NumProcesses \in Nat \ {0} /\ MinOps \in Nat \ {0} /\ MaxEpoch \in Nat
  /\ InitLinked \subseteq Records
  /\ AlwaysEmpty \in Nat \ {0} /\ EpochBags \in Nat /\ EpochBags >= AlwaysEmpty + 3

VARIABLES
  epoch,       \* the global epoch, an even number
  announced,   \* announcedEpoch: odd when the process is quiescent
  localAnn,    \* localvar_announcedEpoch
  dpc,         \* where a process is in leaveQuiescentState
  readOnly,    \* the operation's flag
  readEpoch,   \* the epoch it has read
  checked,     \* how many processes it has seen at this epoch
  opsSince,    \* opsSinceRead
  index,       \* the current one of its bags
  bag,         \* its bags of retired records
  linked,      \* the records in the data structure,
  unlinked,    \* those a process has taken out and not retired yet,
  early,       \* those it has retired and not taken out yet,
  freed,       \* and those handed back to the allocator
  holds,       \* records a process may hold a pointer to
  since        \* history: the epoch when a process last announced one

scanVars == <<announced, localAnn, readOnly, readEpoch, checked, opsSince, since>>
recordVars == <<index, bag, linked, unlinked, early, freed, holds>>
debraVars == <<epoch, dpc, scanVars, recordVars>>

Bags == 0 .. EpochBags - 1

\* i % NUMBER_OF_EPOCH_BAGS, for the sums the code makes.
Wrap(i) == IF i < EpochBags THEN i ELSE i - EpochBags

\* getSafeBlockbags: the current bag and the two before it.
SafeBags(ix) == {ix, Wrap(ix + EpochBags - 1), Wrap(ix + EpochBags - 2)}

Retired == UNION {bag[p][b] : p \in Processes, b \in Bags}
Removed == UNION {unlinked[p] : p \in Processes}
Unused == Records \ (linked \cup Retired \cup Removed \cup freed)

Quiescent(a) == a % 2 = 1
BitsEpoch(a) == IF Quiescent(a) THEN a - 1 ELSE a
WithQuiescent(a) == IF Quiescent(a) THEN a ELSE a + 1

DebraInit ==
  /\ epoch = 0
  /\ announced = [p \in Processes |-> WithQuiescent(0)]
  /\ localAnn = [p \in Processes |-> WithQuiescent(0)]
  /\ dpc = [p \in Processes |-> "idle"]
  /\ readOnly = [p \in Processes |-> FALSE]
  /\ readEpoch = [p \in Processes |-> 0]
  /\ checked = [p \in Processes |-> 0]
  /\ opsSince = [p \in Processes |-> 0]
  /\ index = [p \in Processes |-> 0]
  /\ bag = [p \in Processes |-> [b \in Bags |-> {}]]
  /\ linked = InitLinked
  /\ unlinked = [p \in Processes |-> {}]
  /\ early = [p \in Processes |-> {}]
  /\ freed = {}
  /\ holds = [p \in Processes |-> {}]
  /\ since = [p \in Processes |-> 0]

Goto(p, l) == dpc' = [dpc EXCEPT ![p] = l]

-----------------------------------------------------------------------------
(***************************************************************************)
(* leaveQuiescentState.                                                    *)
(***************************************************************************)
ReadEpoch(p) ==
  /\ dpc[p] = "idle" /\ epoch < MaxEpoch
  /\ \E ro \in BOOLEAN : readOnly' = [readOnly EXCEPT ![p] = ro]
  /\ readEpoch' = [readEpoch EXCEPT ![p] = epoch]
  /\ Goto(p, "announce")
  /\ UNCHANGED <<epoch, announced, localAnn, checked, opsSince, since, recordVars>>

\* Mutant: the scan goes on where it stood in the epoch before.
AnnounceKeepScan(p) ==
  /\ dpc[p] = "announce"
  /\ announced' = [announced EXCEPT ![p] = readEpoch[p]]
  /\ localAnn' = [localAnn EXCEPT ![p] = readEpoch[p]]
  /\ since' = [since EXCEPT ![p] = epoch]
  /\ Goto(p, IF readEpoch[p] # localAnn[p] THEN "rotate" ELSE "scan")
  /\ UNCHANGED <<epoch, readOnly, readEpoch, checked, opsSince, recordVars>>

\* The epoch read may be an old one by the time it is announced.
Announce(p) ==
  /\ dpc[p] = "announce"
  /\ announced' = [announced EXCEPT ![p] = readEpoch[p]]
  /\ localAnn' = [localAnn EXCEPT ![p] = readEpoch[p]]
  /\ since' = [since EXCEPT ![p] = epoch]
  /\ checked' = [checked EXCEPT ![p] = IF readEpoch[p] # localAnn[p] THEN 0 ELSE @]
  /\ Goto(p, IF readEpoch[p] # localAnn[p] THEN "rotate" ELSE "scan")
  /\ UNCHANGED <<epoch, readOnly, readEpoch, opsSince, recordVars>>

\* Mutant: the ring has one bag too few between use and reclamation.
FreeableEarly(ix) == Wrap(ix + EpochBags - 2)

\* The bag that rotateEpochBags frees as it makes bag ix the current one.
Freeable(ix) == Wrap(ix + AlwaysEmpty)

\* rotateEpochBags.  Whole blocks are freed, and what does not fill a block is
\* left behind in its bag.
Rotate(p) ==
  LET next == Wrap(index[p] + 1)
      f == Freeable(next)
  IN
  /\ dpc[p] = "rotate"
  /\ \E block \in SUBSET bag[p][f] :
       /\ freed' = freed \cup block
       /\ bag' = [bag EXCEPT ![p][f] = @ \ block]
  /\ index' = [index EXCEPT ![p] = next]
  /\ Goto(p, "scan")
  /\ UNCHANGED <<epoch, scanVars, linked, unlinked, early, holds>>

\* The operation itself begins: from now on it meets what is linked.
Enter(p) ==
  /\ holds' = [holds EXCEPT ![p] = linked]
  /\ Goto(p, "active")

\* One operation in MinOps goes on with the scan, unless it only reads.
Scan(p) ==
  /\ dpc[p] = "scan"
  /\ IF readOnly[p]
     THEN UNCHANGED opsSince /\ Enter(p)
     ELSE IF opsSince[p] + 1 = MinOps
     THEN /\ opsSince' = [opsSince EXCEPT ![p] = 0]
          /\ Goto(p, "check")
          /\ UNCHANGED holds
     ELSE opsSince' = [opsSince EXCEPT ![p] = @ + 1] /\ Enter(p)
  /\ UNCHANGED <<epoch, announced, localAnn, readOnly, readEpoch, checked, since,
                 index, bag, linked, unlinked, early, freed>>

\* Mutant: a process at an older epoch does not stop the scan.
SeenAny(p, a) == TRUE

\* Whether the announcement a of another process lets the scan go on.
Seen(p, a) == BitsEpoch(a) = readEpoch[p] \/ Quiescent(a)

CheckOther(p) ==
  LET seen == Seen(p, announced[checked[p]])
      last == checked[p] + 1 >= NumProcesses
  IN
  /\ dpc[p] = "check"
  /\ checked' = [checked EXCEPT ![p] = IF seen THEN @ + 1 ELSE @]
  /\ IF seen /\ last THEN Goto(p, "advance") /\ UNCHANGED holds ELSE Enter(p)
  /\ UNCHANGED <<epoch, announced, localAnn, readOnly, readEpoch, opsSince, since,
                 index, bag, linked, unlinked, early, freed>>

\* The compare-and-swap of the epoch; others may have advanced it.
Advance(p) ==
  /\ dpc[p] = "advance"
  /\ epoch' = IF epoch = readEpoch[p] THEN epoch + 2 ELSE epoch
  /\ Enter(p)
  /\ UNCHANGED <<scanVars, index, bag, linked, unlinked, early, freed>>

-----------------------------------------------------------------------------
(***************************************************************************)
(* The operation, and its end.                                             *)
(***************************************************************************)
InOperation(q) == dpc[q] = "active"

\* A new record is linked, and may be met by every operation that runs.
Link(p) ==
  /\ InOperation(p)
  /\ \E r \in Unused :
       /\ linked' = linked \cup {r}
       /\ holds' = [q \in Processes |-> IF InOperation(q) THEN holds[q] \cup {r} ELSE holds[q]]
  /\ UNCHANGED <<epoch, dpc, scanVars, index, bag, unlinked, early, freed>>

Unlink(p) ==
  /\ InOperation(p) /\ ~readOnly[p]
  /\ \E r \in linked :
       /\ linked' = linked \ {r}
       /\ \/ r \in early[p] /\ early' = [early EXCEPT ![p] = @ \ {r}] /\ UNCHANGED unlinked
          \/ r \notin Retired /\ unlinked' = [unlinked EXCEPT ![p] = @ \cup {r}]
               /\ UNCHANGED early
  /\ UNCHANGED <<epoch, dpc, scanVars, index, bag, freed, holds>>

\* retire.  A record is retired by the operation that takes it out, as a rule
\* afterwards; erase of the Citrus tree retires a moved successor before it waits
\* for the readers and unlinks it.
Retire(p) ==
  /\ InOperation(p) /\ ~readOnly[p]
  /\ \E r \in unlinked[p] \cup (linked \ Retired) :
       /\ bag' = [bag EXCEPT ![p][index[p]] = @ \cup {r}]
       /\ unlinked' = [unlinked EXCEPT ![p] = @ \ {r}]
       /\ early' = [early EXCEPT ![p] = IF r \in linked THEN @ \cup {r} ELSE @]
  /\ UNCHANGED <<epoch, dpc, scanVars, index, linked, freed, holds>>

\* The operation drops its pointers and enters the quiescent state.  On some
\* paths it does not (an insert of the vCAS list that succeeds, for one), and
\* its announcement stays until it starts again.
EndOperation(p) ==
  /\ InOperation(p) /\ unlinked[p] = {} /\ early[p] = {}
  /\ \/ announced' = [announced EXCEPT ![p] = WithQuiescent(localAnn[p])]
     \/ UNCHANGED announced
  /\ holds' = [holds EXCEPT ![p] = {}]
  /\ Goto(p, "idle")
  /\ UNCHANGED <<epoch, localAnn, readOnly, readEpoch, checked, opsSince, since,
                 index, bag, linked, unlinked, early, freed>>

-----------------------------------------------------------------------------
LeaveQuiescentState(p) ==
  ReadEpoch(p) \/ Announce(p) \/ Rotate(p) \/ Scan(p) \/ CheckOther(p) \/ Advance(p)

DebraStep(p) ==
  LeaveQuiescentState(p) \/ Link(p) \/ Unlink(p) \/ Retire(p) \/ EndOperation(p)

DebraNext == \E p \in Processes : DebraStep(p)

DebraSpec == DebraInit /\ [][DebraNext]_debraVars

-----------------------------------------------------------------------------
\* Types; among them that the scan stays within the table of announcements,
\* although nothing resets "checked" when the last process has been seen.
DebraTypeOK ==
  /\ epoch \in Nat /\ epoch % 2 = 0
  /\ announced \in [Processes -> Nat]
  /\ localAnn \in [Processes -> Nat]
  /\ dpc \in [Processes -> {"idle", "announce", "rotate", "scan", "check", "advance", "active"}]
  /\ readOnly \in [Processes -> BOOLEAN]
  /\ readEpoch \in [Processes -> Nat]
  /\ checked \in [Processes -> 0 .. NumProcesses]
  /\ \A p \in Processes : dpc[p] = "check" => checked[p] \in Processes
  /\ opsSince \in [Processes -> 0 .. MinOps - 1]
  /\ index \in [Processes -> Bags]
  /\ bag \in [Processes -> [Bags -> SUBSET Records]]
  /\ linked \subseteq Records /\ freed \subseteq Records
  /\ unlinked \in [Processes -> SUBSET Records] /\ early \in [Processes -> SUBSET Records]
  /\ holds \in [Processes -> SUBSET Records]
  /\ since \in [Processes -> Nat]

\* No record is freed while an operation that could have met it still runs.
HeldNotFreed == \A p \in Processes : holds[p] \cap freed = {}

\* A record that was deleted while an operation ran is, if it has been retired,
\* in one of the three bags that getSafeBlockbags names for its retirer, however
\* often the retirer turned its ring: what the limbo scan of a range query
\* relies on.
SafeBagsSuffice ==
  \A p, q \in Processes : \A b \in Bags :
     holds[p] \cap bag[q][b] # {} => b \in SafeBags(index[q])

\* The epoch does not move on twice while an operation runs: the scans that can
\* still advance it are those that saw the process before it announced itself.
EpochHeldBack ==
  \A p \in Processes : InOperation(p) => epoch <= since[p] + 2
=============================================================================
