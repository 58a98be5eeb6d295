----------------------------- MODULE DebraProof -----------------------------
(***************************************************************************)
(* Theorems about Debra, for any number of processes and records, any ring *)
(* with at least three bags more than are always empty, and with no        *)
(* need of the bound on the epoch: no record is freed while it is held,    *)
(* and the three bags that are scanned are enough.                         *)
(***************************************************************************)
EXTENDS Debra, TLAPS

\* Announcements are epochs that were read: even, and none from the future.
EpochInv ==
  \A p \in Processes :
    /\ readEpoch[p] % 2 = 0 /\ readEpoch[p] <= epoch
    /\ localAnn[p] = 1 \/ (localAnn[p] % 2 = 0 /\ localAnn[p] <= epoch)
    /\ dpc[p] = "announce" /\ localAnn[p] % 2 = 0 => localAnn[p] <= readEpoch[p]
    /\ dpc[p] \notin {"idle", "announce"} =>
         localAnn[p] = readEpoch[p] /\ announced[p] = localAnn[p]

\* A process that is not quiescent holds the epoch back.
HeldBackInv ==
  \A p \in Processes : announced[p] % 2 = 0 =>
     announced[p] <= since[p] /\ since[p] <= epoch /\ epoch <= since[p] + 2

\* Of the processes a scan of the current epoch has seen, each is quiescent or
\* has announced itself since the epoch began.
ScanInv ==
  \A q \in Processes : localAnn[q] = epoch =>
     \A i \in Processes : i < checked[q] => announced[i] % 2 = 1 \/ since[i] = epoch

\* A scan is complete when the epoch is about to be advanced, or has been since.
CheckedInv ==
  \A q \in Processes :
    /\ dpc[q] = "advance" => checked[q] = NumProcesses
    /\ checked[q] = NumProcesses =>
         \/ dpc[q] = "advance"
         \/ dpc[q] \in {"idle", "active"} /\ localAnn[q] # epoch
         \/ dpc[q] = "announce" /\ localAnn[q] # readEpoch[q]

OwnerInv(q) ==
  /\ early[q] # {} => InOperation(q)
  /\ holds[q] # {} => InOperation(q)
  /\ unlinked[q] \cap linked = {}

BagInv(q, b) ==
  /\ bag[q][b] # {} => localAnn[q] % 2 = 0
  /\ \A r \in linked \cap bag[q][b] : r \in early[q] /\ b = index[q]

\* Only what its retirer is about to unlink is both linked and in a bag.
RecordInv ==
  /\ linked \cap freed = {}
  /\ \A q \in Processes : OwnerInv(q) /\ \A b \in Bags : BagInv(q, b)

\* How many turns of the ring bag b of q is behind the current one, counting the
\* turn that q is about to make.
Turns(q, b) ==
  (IF b <= index[q] THEN index[q] - b ELSE index[q] + EpochBags - b)
    + (IF dpc[q] = "rotate" THEN 1 ELSE 0)

LateTurns(p, q, b) ==
  /\ Turns(q, b) >= 1 => localAnn[q] >= since[p] + 2 * (Turns(q, b) - 1)
  /\ dpc[q] \in {"announce", "rotate"} => readEpoch[q] >= since[p]

\* After a record was retired into a bag, the first turn of the ring is for an
\* epoch read when the record was unlinked or later, thus after any process that
\* holds it announced itself; and each further turn is for a later epoch.
AgeInv ==
  \A p, q \in Processes : \A b \in Bags :
     holds[p] \cap bag[q][b] # {} => LateTurns(p, q, b)

DebraInv ==
  /\ DebraTypeOK /\ EpochInv /\ HeldBackInv /\ ScanInv /\ CheckedInv
  /\ RecordInv /\ AgeInv /\ HeldNotFreed

\* What the operations themselves leave alone.
ScanVarsKept == UNCHANGED <<epoch, dpc, scanVars>>

-----------------------------------------------------------------------------
LEMMA ProcessFacts ==
  /\ Processes \subseteq Nat /\ NumProcesses \in Nat
  /\ \A p \in Processes : p < NumProcesses
  /\ \A i \in Nat : i < NumProcesses => i \in Processes
BY DebraAssumption DEF Processes

LEMMA BagFacts ==
  /\ Bags \subseteq Nat /\ 0 \in Bags
  /\ \A b \in Bags : Wrap(b + 1) \in Bags /\ Freeable(b) \in Bags
BY DebraAssumption DEF Bags, Wrap, Freeable

LEMMA EvenFacts ==
  /\ \A n \in Nat : n % 2 = 0 => (n + 2) % 2 = 0
  /\ \A m, n \in Nat : m % 2 = 0 /\ n % 2 = 0 /\ m < n => m + 2 <= n
OBVIOUS

LEMMA ParityFacts ==
  \A a \in Nat : WithQuiescent(a) \in Nat /\ WithQuiescent(a) % 2 = 1
BY DEF WithQuiescent, Quiescent

LEMMA TypeStep == DebraTypeOK /\ CheckedInv /\ [DebraNext]_debraVars => DebraTypeOK'
<1> SUFFICES ASSUME DebraTypeOK, CheckedInv, [DebraNext]_debraVars PROVE DebraTypeOK'
  OBVIOUS
<1> USE DEF DebraTypeOK
<1>1. ASSUME NEW p \in Processes, ReadEpoch(p) PROVE DebraTypeOK'
  BY <1>1 DEF ReadEpoch, recordVars, Goto
<1>2. ASSUME NEW p \in Processes, Announce(p) PROVE DebraTypeOK'
  BY <1>2, ProcessFacts DEF Announce, recordVars, Goto
<1>3. ASSUME NEW p \in Processes, Rotate(p) PROVE DebraTypeOK'
  <2> DEFINE f == Freeable(Wrap(index[p] + 1))
  <2>1. Wrap(index[p] + 1) \in Bags /\ f \in Bags
    BY BagFacts
  <2>2. PICK block \in SUBSET bag[p][f] :
          freed' = freed \cup block /\ bag' = [bag EXCEPT ![p][f] = @ \ block]
    BY <1>3 DEF Rotate
  <2>3. bag' \in [Processes -> [Bags -> SUBSET Records]] /\ freed' \subseteq Records
    BY <2>1, <2>2
  <2> QED BY <1>3, <2>1, <2>3 DEF Rotate, scanVars, Goto
<1>4. ASSUME NEW p \in Processes, Scan(p) PROVE DebraTypeOK'
  <2>1. checked[p] \in Processes
    BY <1>4, ProcessFacts DEF Scan, CheckedInv
  <2>2. opsSince[p] \in 0 .. MinOps - 1
    OBVIOUS
  <2>3. 0 \in 0 .. MinOps - 1 /\ (opsSince[p] + 1 # MinOps => opsSince[p] + 1 \in 0 .. MinOps - 1)
    <3> HIDE DEF DebraTypeOK
    <3>1. MinOps \in Nat /\ MinOps # 0
      BY DebraAssumption
    <3> QED BY <2>2, <3>1
  <2>4. opsSince' \in [Processes -> 0 .. MinOps - 1]
    BY <1>4, <2>3 DEF Scan
  <2>5. /\ dpc' = [dpc EXCEPT ![p] = "active"] \/ dpc' = [dpc EXCEPT ![p] = "check"]
        /\ holds' = [holds EXCEPT ![p] = linked] \/ holds' = holds
    BY <1>4 DEF Scan, Enter, Goto
  <2>6. \A q \in Processes : dpc'[q] = "check" => checked[q] \in Processes
    BY <2>1, <2>5
  <2> QED BY <1>4, <2>4, <2>5, <2>6 DEF Scan
<1>5. ASSUME NEW p \in Processes, CheckOther(p) PROVE DebraTypeOK'
  <2>1. checked[p] \in Nat /\ checked[p] < NumProcesses
    BY <1>5, ProcessFacts DEF CheckOther
  <2>2. checked[p] + 1 \in 0 .. NumProcesses
    BY <2>1, ProcessFacts
  <2>3. checked' \in [Processes -> 0 .. NumProcesses] /\ \A q \in Processes \ {p} : checked'[q] = checked[q]
    BY <1>5, <2>2 DEF CheckOther
  <2>4. /\ dpc' = [dpc EXCEPT ![p] = "active"] \/ dpc' = [dpc EXCEPT ![p] = "advance"]
        /\ holds' = [holds EXCEPT ![p] = linked] \/ holds' = holds
    BY <1>5 DEF CheckOther, Enter, Goto
  <2>5. \A q \in Processes : dpc'[q] = "check" => checked'[q] \in Processes
    BY <2>3, <2>4
  <2>6. UNCHANGED <<epoch, announced, localAnn, readOnly, readEpoch, opsSince, since,
                    index, bag, linked, unlinked, early, freed>>
    BY <1>5 DEF CheckOther
  <2> QED BY <2>3, <2>4, <2>5, <2>6
<1>6. ASSUME NEW p \in Processes, Advance(p) PROVE DebraTypeOK'
  <2>1. epoch' \in Nat /\ epoch' % 2 = 0
    <3>1. epoch + 2 \in Nat /\ (epoch + 2) % 2 = 0
      BY EvenFacts
    <3>2. epoch' = epoch \/ epoch' = epoch + 2
      BY <1>6 DEF Advance
    <3> QED BY <3>1, <3>2
  <2>2. dpc' = [dpc EXCEPT ![p] = "active"] /\ holds' = [holds EXCEPT ![p] = linked]
    BY <1>6 DEF Advance, Enter, Goto
  <2> QED BY <1>6, <2>1, <2>2 DEF Advance, scanVars
<1>7. ASSUME NEW p \in Processes, Link(p) PROVE DebraTypeOK'
  <2>1. PICK r \in Records : linked' = linked \cup {r}
          /\ holds' = [q \in Processes |-> IF InOperation(q) THEN holds[q] \cup {r} ELSE holds[q]]
    BY <1>7 DEF Link, Unused
  <2> QED BY <1>7, <2>1 DEF Link, scanVars
<1>8. ASSUME NEW p \in Processes, Unlink(p) PROVE DebraTypeOK'
  BY <1>8 DEF Unlink, scanVars
<1>9. ASSUME NEW p \in Processes, Retire(p) PROVE DebraTypeOK'
  <2>1. PICK r \in Records :
          /\ bag' = [bag EXCEPT ![p][index[p]] = @ \cup {r}]
          /\ unlinked' = [unlinked EXCEPT ![p] = @ \ {r}]
          /\ early' = [early EXCEPT ![p] = IF r \in linked THEN @ \cup {r} ELSE @]
    BY <1>9 DEF Retire
  <2> QED BY <1>9, <2>1 DEF Retire, scanVars
<1>10. ASSUME NEW p \in Processes, EndOperation(p) PROVE DebraTypeOK'
  <2>1. WithQuiescent(localAnn[p]) \in Nat
    BY ParityFacts
  <2>2. announced' \in [Processes -> Nat]
    BY <1>10, <2>1 DEF EndOperation
  <2> QED BY <1>10, <2>2 DEF EndOperation, Goto
<1>11. CASE UNCHANGED debraVars
  BY <1>11 DEF debraVars, scanVars, recordVars
<1> QED BY <1>1, <1>2, <1>3, <1>4, <1>5, <1>6, <1>7, <1>8, <1>9, <1>10, <1>11
     DEF DebraNext, DebraStep, LeaveQuiescentState

-----------------------------------------------------------------------------
\* The actions, sorted by what they do to the announcements and the scans.
LEMMA StepCases ==
  ASSUME [DebraNext]_debraVars
  PROVE  \/ \E p \in Processes : ReadEpoch(p) \/ Announce(p) \/ Rotate(p) \/ Scan(p)
                                   \/ CheckOther(p) \/ Advance(p) \/ EndOperation(p)
         \/ ScanVarsKept
BY DEF DebraNext, DebraStep, LeaveQuiescentState, ScanVarsKept, Link, Unlink, Retire, debraVars

\* Where a process stands after a step, when the step is not Announce.
LEMMA MoveFacts ==
  ASSUME DebraTypeOK, NEW p \in Processes,
         Rotate(p) \/ Scan(p) \/ CheckOther(p) \/ Advance(p)
  PROVE  /\ dpc[p] \in {"rotate", "scan", "check", "advance"}
         /\ \E l \in {"scan", "check", "advance", "active"} : dpc' = [dpc EXCEPT ![p] = l]
         /\ UNCHANGED <<announced, localAnn, readEpoch, since>>
BY DEF DebraTypeOK, Rotate, Scan, CheckOther, Advance, Enter, Goto, scanVars

LEMMA EpochFacts ==
  ASSUME DebraTypeOK, [DebraNext]_debraVars
  PROVE  epoch' = epoch \/ epoch' = epoch + 2
BY DEF DebraTypeOK, DebraNext, DebraStep, LeaveQuiescentState, ReadEpoch, Announce, Rotate, Scan,
       CheckOther, Advance, EndOperation, Link, Unlink, Retire, debraVars

LEMMA EpochStep == DebraInv /\ [DebraNext]_debraVars => EpochInv'
<1> SUFFICES ASSUME DebraInv, [DebraNext]_debraVars PROVE EpochInv'
  OBVIOUS
<1>0. DebraTypeOK /\ EpochInv
  BY DEF DebraInv
<1>00. epoch <= epoch' /\ epoch \in Nat /\ epoch' \in Nat
  <2>1. epoch \in Nat
    BY <1>0 DEF DebraTypeOK
  <2>2. epoch' = epoch \/ epoch' = epoch + 2
    BY <1>0, EpochFacts
  <2> QED BY <2>1, <2>2
<1>1. ASSUME NEW p \in Processes, ReadEpoch(p) PROVE EpochInv'
  <2> SUFFICES ASSUME NEW q \in Processes PROVE EpochInv!(q)'
    BY DEF EpochInv
  <2>1. /\ readEpoch'[q] = IF q = p THEN epoch ELSE readEpoch[q]
        /\ dpc'[q] = IF q = p THEN "announce" ELSE dpc[q]
        /\ epoch' = epoch /\ announced' = announced /\ localAnn' = localAnn
    BY <1>0, <1>1 DEF ReadEpoch, Goto, DebraTypeOK
  <2>2. EpochInv!(q) /\ epoch % 2 = 0
    BY <1>0 DEF EpochInv, DebraTypeOK
  <2> QED BY <1>00, <2>1, <2>2
<1>2. ASSUME NEW p \in Processes, Announce(p) PROVE EpochInv'
  <2>1. /\ localAnn' = [localAnn EXCEPT ![p] = readEpoch[p]]
        /\ announced' = [announced EXCEPT ![p] = readEpoch[p]]
        /\ dpc' = [dpc EXCEPT ![p] = IF readEpoch[p] # localAnn[p] THEN "rotate" ELSE "scan"]
        /\ UNCHANGED <<epoch, readEpoch>>
    BY <1>2 DEF Announce, Goto
  <2> QED BY <1>0, <2>1 DEF DebraTypeOK, EpochInv
<1>3. ASSUME NEW p \in Processes, Rotate(p) \/ Scan(p) \/ CheckOther(p) \/ Advance(p)
      PROVE EpochInv'
  <2>1. PICK l \in {"scan", "check", "advance", "active"} : dpc' = [dpc EXCEPT ![p] = l]
    BY <1>0, <1>3, MoveFacts
  <2>2. UNCHANGED <<announced, localAnn, readEpoch>> /\ dpc[p] \notin {"idle", "announce"}
    BY <1>0, <1>3, MoveFacts
  <2> SUFFICES ASSUME NEW q \in Processes PROVE EpochInv!(q)'
    BY DEF EpochInv
  <2>3. EpochInv!(q) /\ readEpoch[q] \in Nat /\ localAnn[q] \in Nat
    BY <1>0 DEF EpochInv, DebraTypeOK
  <2>4. dpc'[q] = dpc[q] \/ (dpc[q] \notin {"idle", "announce"} /\ dpc'[q] # "announce")
    BY <1>0, <2>1, <2>2 DEF DebraTypeOK
  <2> QED BY <1>00, <2>2, <2>3, <2>4
<1>4. ASSUME NEW p \in Processes, EndOperation(p) PROVE EpochInv'
  <2>1. /\ \A q \in Processes \ {p} : announced'[q] = announced[q] /\ dpc'[q] = dpc[q]
        /\ dpc'[p] = "idle" /\ UNCHANGED <<epoch, localAnn, readEpoch>>
    BY <1>0, <1>4 DEF EndOperation, Goto, DebraTypeOK
  <2> QED BY <1>0, <2>1 DEF EpochInv
<1>5. CASE ScanVarsKept
  BY <1>0, <1>5 DEF ScanVarsKept, scanVars, EpochInv
<1> QED BY <1>1, <1>2, <1>3, <1>4, <1>5, StepCases

-----------------------------------------------------------------------------
LEMMA EndFacts ==
  ASSUME DebraTypeOK, NEW p \in Processes, EndOperation(p)
  PROVE  /\ \A q \in Processes : announced'[q] = announced[q] \/ announced'[q] % 2 = 1
         /\ dpc[p] = "active" /\ dpc' = [dpc EXCEPT ![p] = "idle"]
         /\ UNCHANGED <<epoch, localAnn, readEpoch, checked, since>>
<1>1. WithQuiescent(localAnn[p]) % 2 = 1
  BY ParityFacts DEF DebraTypeOK
<1>2. announced' = [announced EXCEPT ![p] = WithQuiescent(localAnn[p])] \/ announced' = announced
  BY DEF EndOperation
<1>3. \A q \in Processes : announced'[q] = announced[q] \/ announced'[q] % 2 = 1
  BY <1>1, <1>2 DEF DebraTypeOK
<1> QED BY <1>3 DEF EndOperation, InOperation, Goto

LEMMA AnnounceFacts ==
  ASSUME DebraTypeOK, NEW p \in Processes, Announce(p)
  PROVE  /\ dpc[p] = "announce"
         /\ \A q \in Processes :
              /\ announced'[q] = IF q = p THEN readEpoch[p] ELSE announced[q]
              /\ localAnn'[q] = IF q = p THEN readEpoch[p] ELSE localAnn[q]
              /\ since'[q] = IF q = p THEN epoch ELSE since[q]
              /\ checked'[q] = IF q = p /\ readEpoch[p] # localAnn[p] THEN 0 ELSE checked[q]
              /\ dpc'[q] = IF q # p THEN dpc[q]
                           ELSE IF readEpoch[p] # localAnn[p] THEN "rotate" ELSE "scan"
         /\ epoch' = epoch /\ readEpoch' = readEpoch
BY DEF DebraTypeOK, Announce, Goto

\* When a process advances the epoch, it has seen all the others in it.
LEMMA AdvanceFacts ==
  ASSUME DebraInv, NEW p \in Processes, Advance(p)
  PROVE  /\ UNCHANGED scanVars /\ dpc' = [dpc EXCEPT ![p] = "active"]
         /\ localAnn[p] = readEpoch[p] /\ dpc[p] = "advance"
         /\ epoch' = epoch \/ epoch' = epoch + 2
         /\ epoch' # readEpoch[p]
         /\ epoch' # epoch => \A i \in Processes : announced[i] % 2 = 1 \/ since[i] = epoch
<1>0. epoch \in Nat
  BY DEF DebraInv, DebraTypeOK
<1>1. UNCHANGED scanVars /\ dpc' = [dpc EXCEPT ![p] = "active"] /\ dpc[p] = "advance"
  BY DEF Advance, Enter, Goto
<1>2. localAnn[p] = readEpoch[p] /\ checked[p] = NumProcesses
  BY <1>1 DEF DebraInv, EpochInv, CheckedInv
<1>3. epoch' = IF epoch = readEpoch[p] THEN epoch + 2 ELSE epoch
  BY DEF Advance
<1>4. epoch' # epoch => \A i \in Processes : announced[i] % 2 = 1 \/ since[i] = epoch
  BY <1>2, <1>3, ProcessFacts DEF DebraInv, ScanInv
<1> QED BY <1>0, <1>1, <1>2, <1>3, <1>4

LEMMA HeldBackStep == DebraInv /\ [DebraNext]_debraVars => HeldBackInv'
<1> SUFFICES ASSUME DebraInv, [DebraNext]_debraVars, NEW q \in Processes PROVE HeldBackInv!(q)'
  BY DEF HeldBackInv
<1>0. DebraTypeOK /\ HeldBackInv!(q) /\ epoch \in Nat /\ since[q] \in Nat
  BY DEF DebraInv, HeldBackInv, DebraTypeOK
<1>1. ASSUME NEW p \in Processes, ReadEpoch(p) PROVE HeldBackInv!(q)'
  BY <1>0, <1>1 DEF ReadEpoch
<1>2. ASSUME NEW p \in Processes, Announce(p) PROVE HeldBackInv!(q)'
  <2>1. readEpoch[p] <= epoch
    BY DEF DebraInv, EpochInv
  <2> QED BY <1>0, <1>2, <2>1, AnnounceFacts
<1>3. ASSUME NEW p \in Processes, Rotate(p) \/ Scan(p) \/ CheckOther(p) PROVE HeldBackInv!(q)'
  BY <1>0, <1>3 DEF Rotate, Scan, CheckOther, scanVars
<1>4. ASSUME NEW p \in Processes, Advance(p) PROVE HeldBackInv!(q)'
  BY <1>0, <1>4, AdvanceFacts DEF scanVars
<1>5. ASSUME NEW p \in Processes, EndOperation(p) PROVE HeldBackInv!(q)'
  <2>1. announced'[q] = announced[q] \/ announced'[q] % 2 = 1
    BY <1>0, <1>5, EndFacts
  <2> QED BY <1>0, <1>5, <2>1, EndFacts
<1>6. CASE ScanVarsKept
  BY <1>0, <1>6 DEF ScanVarsKept, scanVars
<1> QED BY <1>1, <1>2, <1>3, <1>4, <1>5, <1>6, StepCases

LEMMA ScanStep == DebraInv /\ [DebraNext]_debraVars => ScanInv'
<1> SUFFICES ASSUME DebraInv, [DebraNext]_debraVars, NEW q \in Processes, localAnn'[q] = epoch',
                    NEW i \in Processes, i < checked'[q]
             PROVE  announced'[i] % 2 = 1 \/ since'[i] = epoch'
  BY DEF ScanInv
<1>0. DebraTypeOK /\ epoch \in Nat /\ epoch % 2 = 0
  BY DEF DebraInv, DebraTypeOK
<1>00. localAnn[q] = epoch /\ i < checked[q] => announced[i] % 2 = 1 \/ since[i] = epoch
  BY DEF DebraInv, ScanInv
<1>1. ASSUME NEW p \in Processes, ReadEpoch(p) PROVE announced'[i] % 2 = 1 \/ since'[i] = epoch'
  BY <1>00, <1>1 DEF ReadEpoch
<1>2. ASSUME NEW p \in Processes, Announce(p) PROVE announced'[i] % 2 = 1 \/ since'[i] = epoch'
  <2>1. ~(i < 0)
    BY ProcessFacts
  <2> QED BY <1>0, <1>00, <1>2, <2>1, AnnounceFacts
<1>3. ASSUME NEW p \in Processes, Rotate(p) \/ Scan(p)
      PROVE announced'[i] % 2 = 1 \/ since'[i] = epoch'
  BY <1>00, <1>3 DEF Rotate, Scan, scanVars
<1>4. ASSUME NEW p \in Processes, CheckOther(p)
      PROVE announced'[i] % 2 = 1 \/ since'[i] = epoch'
  <2>1. /\ checked' = [checked EXCEPT ![p] = IF Seen(p, announced[checked[p]])
                                             THEN checked[p] + 1 ELSE checked[p]]
        /\ UNCHANGED <<epoch, announced, localAnn, since>> /\ dpc[p] = "check"
    BY <1>4 DEF CheckOther
  <2>2. CASE i < checked[q]
    BY <1>00, <2>1, <2>2
  <2>3. CASE ~(i < checked[q])
    <3>1. q = p /\ Seen(p, announced[checked[p]]) /\ i < checked[p] + 1
      BY <1>0, <2>1, <2>3 DEF DebraTypeOK
    <3>2. checked[p] \in Nat /\ i \in Nat
      BY <1>0, ProcessFacts DEF DebraTypeOK
    <3>3. i = checked[p]
      BY <2>3, <3>1, <3>2
    <3>4. readEpoch[p] = epoch
      BY <2>1, <3>1 DEF DebraInv, EpochInv
    <3>5. announced[i] \in Nat /\ since[i] \in Nat
      BY <1>0 DEF DebraTypeOK
    <3>6. announced[i] % 2 = 1 \/ announced[i] = epoch
      BY <3>1, <3>3, <3>4 DEF Seen, BitsEpoch, Quiescent
    <3>7. announced[i] % 2 = 0 => announced[i] <= since[i] /\ since[i] <= epoch
      BY DEF DebraInv, HeldBackInv
    <3>8. announced[i] = epoch => since[i] = epoch
      BY <1>0, <3>5, <3>7
    <3> QED BY <2>1, <3>6, <3>8
  <2> QED BY <2>2, <2>3
<1>5. ASSUME NEW p \in Processes, Advance(p) PROVE announced'[i] % 2 = 1 \/ since'[i] = epoch'
  <2>1. localAnn' = localAnn /\ announced' = announced /\ since' = since /\ checked' = checked
    BY <1>5, AdvanceFacts DEF scanVars
  <2>2. localAnn[q] = 1 \/ localAnn[q] <= epoch
    BY DEF DebraInv, EpochInv
  <2>3. epoch' = epoch \/ epoch' = epoch + 2
    BY <1>5, AdvanceFacts
  <2>4. epoch' = epoch
    BY <1>0, <2>1, <2>2, <2>3
  <2> QED BY <1>00, <2>1, <2>4
<1>6. ASSUME NEW p \in Processes, EndOperation(p)
      PROVE announced'[i] % 2 = 1 \/ since'[i] = epoch'
  <2>1. announced'[i] = announced[i] \/ announced'[i] % 2 = 1
    BY <1>0, <1>6, EndFacts
  <2>2. UNCHANGED <<epoch, localAnn, checked, since>>
    BY <1>0, <1>6, EndFacts
  <2> QED BY <1>00, <2>1, <2>2
<1>7. CASE ScanVarsKept
  BY <1>00, <1>7 DEF ScanVarsKept, scanVars
<1> QED BY <1>1, <1>2, <1>3, <1>4, <1>5, <1>6, <1>7, StepCases

LEMMA CheckedStep == DebraInv /\ [DebraNext]_debraVars => CheckedInv'
<1> SUFFICES ASSUME DebraInv, [DebraNext]_debraVars, NEW q \in Processes PROVE CheckedInv!(q)'
  BY DEF CheckedInv
<1>0. DebraTypeOK /\ CheckedInv!(q) /\ epoch \in Nat /\ NumProcesses \in Nat /\ NumProcesses # 0
  BY DebraAssumption DEF DebraInv, CheckedInv, DebraTypeOK
<1>1. ASSUME NEW p \in Processes, ReadEpoch(p) PROVE CheckedInv!(q)'
  <2>1. /\ dpc[p] = "idle" /\ dpc' = [dpc EXCEPT ![p] = "announce"]
        /\ readEpoch' = [readEpoch EXCEPT ![p] = epoch]
        /\ UNCHANGED <<epoch, localAnn, checked>>
    BY <1>1 DEF ReadEpoch, Goto
  <2> QED BY <1>0, <2>1 DEF DebraTypeOK
<1>2. ASSUME NEW p \in Processes, Announce(p) PROVE CheckedInv!(q)'
  <2>1. CASE q = p
    BY <1>0, <1>2, <2>1, AnnounceFacts
  <2>2. CASE q # p
    BY <1>0, <1>2, <2>2, AnnounceFacts
  <2> QED BY <2>1, <2>2
<1>3. ASSUME NEW p \in Processes, Rotate(p) \/ Scan(p) PROVE CheckedInv!(q)'
  <2>1. PICK l \in {"scan", "check", "active"} : dpc' = [dpc EXCEPT ![p] = l]
    BY <1>3 DEF Rotate, Scan, Enter, Goto
  <2>2. UNCHANGED <<epoch, localAnn, readEpoch, checked>> /\ dpc[p] \in {"rotate", "scan"}
    BY <1>3 DEF Rotate, Scan, scanVars
  <2> QED BY <1>0, <2>1, <2>2 DEF DebraTypeOK
<1>4. ASSUME NEW p \in Processes, CheckOther(p) PROVE CheckedInv!(q)'
  <2> DEFINE seen == Seen(p, announced[checked[p]])
  <2>1. /\ checked' = [checked EXCEPT ![p] = IF seen THEN checked[p] + 1 ELSE checked[p]]
        /\ dpc' = [dpc EXCEPT ![p] = IF seen /\ checked[p] + 1 >= NumProcesses
                                     THEN "advance" ELSE "active"]
        /\ UNCHANGED <<epoch, localAnn, readEpoch>> /\ dpc[p] = "check"
    BY <1>4 DEF CheckOther, Enter, Goto
  <2>2. checked[p] \in Nat /\ checked[p] < NumProcesses
    BY <1>0, <2>1, ProcessFacts DEF DebraTypeOK
  <2>3. CASE q = p
    <3> HIDE DEF seen
    <3>1. checked'[p] = (IF seen THEN checked[p] + 1 ELSE checked[p])
          /\ dpc'[p] = (IF seen /\ checked[p] + 1 >= NumProcesses THEN "advance" ELSE "active")
      BY <1>0, <2>1 DEF DebraTypeOK
    <3>2. dpc'[p] = "advance" <=> checked'[p] = NumProcesses
      BY <1>0, <2>2, <3>1
    <3> QED BY <2>3, <3>2
  <2>4. CASE q # p
    <3>1. checked'[q] = checked[q] /\ dpc'[q] = dpc[q]
      BY <1>0, <2>1, <2>4 DEF DebraTypeOK
    <3> QED BY <1>0, <2>1, <3>1
  <2> QED BY <2>3, <2>4
<1>5. ASSUME NEW p \in Processes, Advance(p) PROVE CheckedInv!(q)'
  <2>1. /\ UNCHANGED <<localAnn, readEpoch, checked>> /\ dpc' = [dpc EXCEPT ![p] = "active"]
        /\ localAnn[p] # epoch' /\ (epoch' = epoch \/ epoch' = epoch + 2)
    BY <1>5, AdvanceFacts DEF scanVars
  <2>2. localAnn[q] \in Nat /\ (localAnn[q] = 1 \/ localAnn[q] <= epoch) /\ epoch % 2 = 0
    BY <1>0 DEF DebraInv, EpochInv, DebraTypeOK
  <2>3. localAnn[q] # epoch => localAnn[q] # epoch'
    <3>1. (epoch + 2) % 2 = 0
      BY <1>0, <2>2, EvenFacts
    <3> QED BY <1>0, <2>1, <2>2, <3>1
  <2>4. CASE q = p
    BY <1>0, <2>1, <2>4 DEF DebraTypeOK
  <2>5. CASE q # p
    <3>1. dpc'[q] = dpc[q]
      BY <1>0, <2>1, <2>5 DEF DebraTypeOK
    <3> QED BY <1>0, <2>1, <2>3, <3>1
  <2> QED BY <2>4, <2>5
<1>6. ASSUME NEW p \in Processes, EndOperation(p) PROVE CheckedInv!(q)'
  <2>1. /\ dpc[p] = "active" /\ dpc' = [dpc EXCEPT ![p] = "idle"]
        /\ UNCHANGED <<epoch, localAnn, readEpoch, checked>>
    BY <1>0, <1>6, EndFacts
  <2> QED BY <1>0, <2>1 DEF DebraTypeOK
<1>7. CASE ScanVarsKept
  BY <1>0, <1>7 DEF ScanVarsKept, scanVars
<1> QED BY <1>1, <1>2, <1>3, <1>4, <1>5, <1>6, <1>7, StepCases

-----------------------------------------------------------------------------
\* The bags and the records after each kind of step.
RecordsKept == UNCHANGED <<index, bag, linked, unlinked, early, freed>>

\* The steps at the end of which an operation begins, or goes on to them.
LEMMA EnterFacts ==
  ASSUME DebraTypeOK, NEW p \in Processes, Scan(p) \/ CheckOther(p) \/ Advance(p)
  PROVE  /\ RecordsKept /\ UNCHANGED <<localAnn, readEpoch, since>>
         /\ dpc[p] \in {"scan", "check", "advance"}
         /\ \/ holds' = [holds EXCEPT ![p] = linked] /\ dpc' = [dpc EXCEPT ![p] = "active"]
            \/ holds' = holds /\ \E l \in {"check", "advance"} : dpc' = [dpc EXCEPT ![p] = l]
BY DEF Scan, CheckOther, Advance, Enter, Goto, RecordsKept, scanVars

LEMMA RotateFacts ==
  ASSUME DebraTypeOK, NEW p \in Processes, Rotate(p)
  PROVE  \E block \in SUBSET bag[p][Freeable(Wrap(index[p] + 1))] :
           /\ freed' = freed \cup block
           /\ \A q \in Processes : \A b \in Bags :
                bag'[q][b] = IF q = p /\ b = Freeable(Wrap(index[p] + 1))
                             THEN bag[q][b] \ block ELSE bag[q][b]
           /\ index' = [index EXCEPT ![p] = Wrap(index[p] + 1)]
           /\ dpc[p] = "rotate" /\ dpc' = [dpc EXCEPT ![p] = "scan"]
           /\ UNCHANGED <<epoch, localAnn, readEpoch, since, linked, unlinked, early, holds>>
<1>1. PICK block \in SUBSET bag[p][Freeable(Wrap(index[p] + 1))] :
        /\ freed' = freed \cup block
        /\ bag' = [bag EXCEPT ![p][Freeable(Wrap(index[p] + 1))] = @ \ block]
  BY DEF Rotate
<1>2. \A q \in Processes : \A b \in Bags :
        bag'[q][b] = IF q = p /\ b = Freeable(Wrap(index[p] + 1))
                     THEN bag[q][b] \ block ELSE bag[q][b]
  BY <1>1, BagFacts DEF DebraTypeOK
<1> QED BY <1>1, <1>2 DEF Rotate, scanVars, Goto

LEMMA RetireFacts ==
  ASSUME DebraTypeOK, NEW p \in Processes, Retire(p)
  PROVE  \E r \in unlinked[p] \cup (linked \ Retired) :
           /\ \A q \in Processes : \A b \in Bags :
                bag'[q][b] = IF q = p /\ b = index[p] THEN bag[q][b] \cup {r} ELSE bag[q][b]
           /\ \A q \in Processes :
                /\ unlinked'[q] = IF q = p THEN unlinked[q] \ {r} ELSE unlinked[q]
                /\ early'[q] = IF q = p /\ r \in linked THEN early[q] \cup {r} ELSE early[q]
           /\ dpc[p] = "active"
           /\ UNCHANGED <<epoch, dpc, scanVars, index, linked, freed, holds>>
<1>1. PICK r \in unlinked[p] \cup (linked \ Retired) :
        /\ bag' = [bag EXCEPT ![p][index[p]] = @ \cup {r}]
        /\ unlinked' = [unlinked EXCEPT ![p] = @ \ {r}]
        /\ early' = [early EXCEPT ![p] = IF r \in linked THEN @ \cup {r} ELSE @]
  BY DEF Retire
<1>2. \A q \in Processes : \A b \in Bags :
        bag'[q][b] = IF q = p /\ b = index[p] THEN bag[q][b] \cup {r} ELSE bag[q][b]
  BY <1>1 DEF DebraTypeOK
<1>3. \A q \in Processes :
        /\ unlinked'[q] = IF q = p THEN unlinked[q] \ {r} ELSE unlinked[q]
        /\ early'[q] = IF q = p /\ r \in linked THEN early[q] \cup {r} ELSE early[q]
  BY <1>1 DEF DebraTypeOK
<1> QED BY <1>1, <1>2, <1>3 DEF Retire, InOperation

LEMMA UnlinkFacts ==
  ASSUME DebraTypeOK, NEW p \in Processes, Unlink(p)
  PROVE  \E r \in linked :
           /\ linked' = linked \ {r}
           /\ \/ r \in early[p] /\ early' = [early EXCEPT ![p] = @ \ {r}] /\ unlinked' = unlinked
              \/ /\ r \notin Retired /\ unlinked' = [unlinked EXCEPT ![p] = @ \cup {r}]
                 /\ early' = early
           /\ UNCHANGED <<epoch, dpc, scanVars, index, bag, freed, holds>>
BY DEF Unlink

LEMMA LinkFacts ==
  ASSUME DebraTypeOK, NEW p \in Processes, Link(p)
  PROVE  \E r \in Unused :
           /\ linked' = linked \cup {r}
           /\ \A q \in Processes :
                holds'[q] = IF InOperation(q) THEN holds[q] \cup {r} ELSE holds[q]
           /\ UNCHANGED <<epoch, dpc, scanVars, index, bag, unlinked, early, freed>>
BY DEF Link

LEMMA RecordStep == DebraInv /\ [DebraNext]_debraVars => RecordInv'
<1> SUFFICES ASSUME DebraInv, [DebraNext]_debraVars PROVE RecordInv'
  OBVIOUS
<1>0. DebraTypeOK /\ RecordInv /\ linked \cap freed = {}
      /\ \A q \in Processes : OwnerInv(q) /\ \A b \in Bags : BagInv(q, b)
  BY DEF DebraInv, RecordInv
<1>1. ASSUME NEW p \in Processes, ReadEpoch(p) PROVE RecordInv'
  <2>1. /\ dpc[p] = "idle" /\ dpc' = [dpc EXCEPT ![p] = "announce"]
        /\ UNCHANGED <<localAnn, recordVars>>
    BY <1>1 DEF ReadEpoch, Goto
  <2>2. \A q \in Processes : OwnerInv(q)'
    BY <1>0, <2>1 DEF OwnerInv, InOperation, recordVars, DebraTypeOK
  <2> QED BY <1>0, <2>1, <2>2 DEF RecordInv, BagInv, recordVars
<1>2. ASSUME NEW p \in Processes, Announce(p) PROVE RecordInv'
  <2>1. UNCHANGED recordVars
    BY <1>2 DEF Announce
  <2>2. \A q \in Processes : InOperation(q) => InOperation(q)'
    BY <1>0, <1>2, AnnounceFacts DEF InOperation
  <2>3. \A q \in Processes : OwnerInv(q)'
    BY <1>0, <2>1, <2>2 DEF OwnerInv, recordVars
  <2>4. \A q \in Processes : localAnn[q] % 2 = 0 => localAnn'[q] % 2 = 0
    BY <1>0, <1>2, AnnounceFacts DEF DebraInv, EpochInv
  <2>5. \A q \in Processes : \A b \in Bags : BagInv(q, b)'
    BY <1>0, <2>1, <2>4 DEF BagInv, recordVars
  <2> QED BY <1>0, <2>1, <2>3, <2>5 DEF RecordInv, recordVars
<1>3. ASSUME NEW p \in Processes, Rotate(p) PROVE RecordInv'
  <2> DEFINE f == Freeable(Wrap(index[p] + 1))
  <2>0. f \in Bags
    BY <1>0, BagFacts DEF DebraTypeOK
  <2>1. PICK block \in SUBSET bag[p][f] :
           /\ freed' = freed \cup block
           /\ \A q \in Processes : \A b \in Bags :
                bag'[q][b] = IF q = p /\ b = f THEN bag[q][b] \ block ELSE bag[q][b]
           /\ index' = [index EXCEPT ![p] = Wrap(index[p] + 1)]
           /\ dpc[p] = "rotate" /\ dpc' = [dpc EXCEPT ![p] = "scan"]
           /\ UNCHANGED <<epoch, localAnn, readEpoch, since, linked, unlinked, early, holds>>
    BY <1>0, <1>3, RotateFacts
  <2> HIDE DEF f
  <2>2. early[p] = {} /\ holds[p] = {}
    BY <1>0, <2>1 DEF OwnerInv, InOperation
  <2>3. \A b \in Bags : linked \cap bag[p][b] = {}
    BY <1>0, <2>2 DEF BagInv
  <2>4. linked' \cap freed' = {}
    BY <1>0, <2>0, <2>1, <2>3
  <2>5. \A q \in Processes : OwnerInv(q)'
    BY <1>0, <2>1, <2>2 DEF OwnerInv, InOperation, DebraTypeOK
  <2>6. ASSUME NEW q \in Processes, NEW b \in Bags PROVE BagInv(q, b)'
    <3>1. bag'[q][b] \subseteq bag[q][b] /\ BagInv(q, b)
      BY <1>0, <2>1
    <3>2. CASE q = p
      BY <2>1, <2>3, <3>1, <3>2 DEF BagInv
    <3>3. CASE q # p
      <4>1. index'[q] = index[q]
        BY <1>0, <2>1, <3>3 DEF DebraTypeOK
      <4> QED BY <2>1, <3>1, <4>1 DEF BagInv
    <3> QED BY <3>2, <3>3
  <2> QED BY <2>4, <2>5, <2>6 DEF RecordInv
<1>4. ASSUME NEW p \in Processes, Scan(p) \/ CheckOther(p) \/ Advance(p) PROVE RecordInv'
  <2>1. /\ RecordsKept /\ UNCHANGED <<localAnn, readEpoch, since>>
        /\ dpc[p] \in {"scan", "check", "advance"}
        /\ \/ holds' = [holds EXCEPT ![p] = linked] /\ dpc' = [dpc EXCEPT ![p] = "active"]
           \/ holds' = holds /\ \E l \in {"check", "advance"} : dpc' = [dpc EXCEPT ![p] = l]
    BY <1>0, <1>4, EnterFacts
  <2>2. ASSUME NEW q \in Processes PROVE OwnerInv(q)'
    <3>1. CASE q = p
      <4>1. early[p] = {} /\ holds[p] = {}
        BY <1>0, <2>1 DEF OwnerInv, InOperation
      <4> QED BY <1>0, <2>1, <3>1, <4>1 DEF OwnerInv, InOperation, RecordsKept, DebraTypeOK
    <3>2. CASE q # p
      <4>1. dpc'[q] = dpc[q] /\ holds'[q] = holds[q]
        BY <1>0, <2>1, <3>2 DEF DebraTypeOK
      <4> QED BY <1>0, <2>1, <4>1 DEF OwnerInv, InOperation, RecordsKept
    <3> QED BY <3>1, <3>2
  <2> QED BY <1>0, <2>1, <2>2 DEF RecordInv, BagInv, RecordsKept
<1>5. ASSUME NEW p \in Processes, Link(p) PROVE RecordInv'
  <2>1. PICK r \in Unused :
           /\ linked' = linked \cup {r}
           /\ \A q \in Processes :
                holds'[q] = IF InOperation(q) THEN holds[q] \cup {r} ELSE holds[q]
           /\ UNCHANGED <<epoch, dpc, scanVars, index, bag, unlinked, early, freed>>
    BY <1>0, <1>5, LinkFacts
  <2>2. r \notin freed /\ \A q \in Processes : r \notin unlinked[q] /\ \A b \in Bags : r \notin bag[q][b]
    BY DEF Unused, Retired, Removed
  <2>3. \A q \in Processes : OwnerInv(q)'
    BY <1>0, <2>1, <2>2 DEF OwnerInv, InOperation
  <2> QED BY <1>0, <2>1, <2>2, <2>3 DEF RecordInv, BagInv, scanVars
<1>6. ASSUME NEW p \in Processes, Unlink(p) PROVE RecordInv'
  <2>1. PICK r \in linked :
           /\ linked' = linked \ {r}
           /\ \/ r \in early[p] /\ early' = [early EXCEPT ![p] = @ \ {r}] /\ unlinked' = unlinked
              \/ /\ r \notin Retired /\ unlinked' = [unlinked EXCEPT ![p] = @ \cup {r}]
                 /\ early' = early
           /\ UNCHANGED <<epoch, dpc, scanVars, index, bag, freed, holds>>
    BY <1>0, <1>6, UnlinkFacts
  <2>2. \A q \in Processes : early'[q] \subseteq early[q] /\ early[q] \subseteq early'[q] \cup {r}
                             /\ unlinked'[q] \subseteq unlinked[q] \cup {r}
    <3>1. \A q \in Processes : early'[q] = early[q] \/ early'[q] = early[q] \ {r}
      BY <1>0, <2>1 DEF DebraTypeOK
    <3>2. \A q \in Processes : unlinked'[q] = unlinked[q] \/ unlinked'[q] = unlinked[q] \cup {r}
      BY <1>0, <2>1 DEF DebraTypeOK
    <3> QED BY <3>1, <3>2
  <2>3. \A q \in Processes : OwnerInv(q)'
    BY <1>0, <2>1, <2>2 DEF OwnerInv, InOperation
  <2>4. \A q \in Processes : \A b \in Bags : BagInv(q, b)'
    BY <1>0, <2>1, <2>2 DEF BagInv, scanVars
  <2> QED BY <1>0, <2>1, <2>3, <2>4 DEF RecordInv
<1>7. ASSUME NEW p \in Processes, Retire(p) PROVE RecordInv'
  <2>1. PICK r \in unlinked[p] \cup (linked \ Retired) :
           /\ \A q \in Processes : \A b \in Bags :
                bag'[q][b] = IF q = p /\ b = index[p] THEN bag[q][b] \cup {r} ELSE bag[q][b]
           /\ \A q \in Processes :
                /\ unlinked'[q] = IF q = p THEN unlinked[q] \ {r} ELSE unlinked[q]
                /\ early'[q] = IF q = p /\ r \in linked THEN early[q] \cup {r} ELSE early[q]
           /\ dpc[p] = "active"
           /\ UNCHANGED <<epoch, dpc, scanVars, index, linked, freed, holds>>
    BY <1>0, <1>7, RetireFacts
  <2>2. localAnn[p] % 2 = 0
    BY <2>1 DEF DebraInv, EpochInv
  <2>3. \A q \in Processes : OwnerInv(q)'
    BY <1>0, <2>1 DEF OwnerInv, InOperation
  <2>4. ASSUME NEW q \in Processes, NEW b \in Bags PROVE BagInv(q, b)'
    <3>0. BagInv(q, b) /\ UNCHANGED <<localAnn, index, linked>> /\ early[q] \subseteq early'[q]
      BY <1>0, <2>1 DEF scanVars
    <3>1. CASE q = p /\ b = index[p]
      <4>1. bag'[q][b] = bag[q][b] \cup {r} /\ (r \in linked => r \in early'[q])
        BY <2>1, <3>1
      <4> QED BY <2>2, <3>0, <3>1, <4>1 DEF BagInv
    <3>2. CASE ~(q = p /\ b = index[p])
      BY <2>1, <3>0, <3>2 DEF BagInv
    <3> QED BY <3>1, <3>2
  <2> QED BY <1>0, <2>1, <2>3, <2>4 DEF RecordInv
<1>8. ASSUME NEW p \in Processes, EndOperation(p) PROVE RecordInv'
  <2>1. /\ dpc' = [dpc EXCEPT ![p] = "idle"] /\ holds' = [holds EXCEPT ![p] = {}]
        /\ early[p] = {} /\ RecordsKept /\ localAnn' = localAnn
    BY <1>8 DEF EndOperation, Goto, RecordsKept
  <2>2. \A q \in Processes : OwnerInv(q)'
    BY <1>0, <2>1 DEF OwnerInv, InOperation, RecordsKept, DebraTypeOK
  <2> QED BY <1>0, <2>1, <2>2 DEF RecordInv, BagInv, RecordsKept
<1>9. CASE UNCHANGED debraVars
  BY <1>0, <1>9 DEF debraVars, scanVars, recordVars, RecordInv, OwnerInv, BagInv, InOperation
<1> QED BY <1>1, <1>2, <1>3, <1>4, <1>5, <1>6, <1>7, <1>8, <1>9
        DEF DebraNext, DebraStep, LeaveQuiescentState

-----------------------------------------------------------------------------
LEMMA TurnsFacts ==
  ASSUME DebraTypeOK, NEW q \in Processes, NEW b \in Bags
  PROVE  /\ Turns(q, b) \in Nat
         /\ dpc[q] = "rotate" /\ b = Freeable(Wrap(index[q] + 1)) => Turns(q, b) >= 3
         /\ dpc[q] # "rotate" /\ b = index[q] => Turns(q, b) = 0
         /\ Turns(q, b) <= 2 => b \in SafeBags(index[q])
<1>1. index[q] \in Nat /\ index[q] < EpochBags /\ b \in Nat /\ b < EpochBags
      /\ EpochBags \in Nat /\ AlwaysEmpty \in Nat /\ AlwaysEmpty >= 1 /\ EpochBags >= AlwaysEmpty + 3
  BY DebraAssumption DEF DebraTypeOK, Bags
<1> DEFINE age == IF b <= index[q] THEN index[q] - b ELSE index[q] + EpochBags - b
<1>2. age \in Nat
  BY <1>1
<1>3. Turns(q, b) = age + (IF dpc[q] = "rotate" THEN 1 ELSE 0)
  BY DEF Turns
<1>4. b = Freeable(Wrap(index[q] + 1)) => age >= 2
  BY <1>1 DEF Freeable, Wrap
<1>5. b = index[q] => age = 0
  BY <1>1
<1>6. age <= 2 => b \in SafeBags(index[q])
  BY <1>1 DEF SafeBags, Wrap
<1> HIDE DEF age
<1> QED BY <1>2, <1>3, <1>4, <1>5, <1>6

\* The ring turns at most twice while a record in it is held.
LEMMA TurnsBound ==
  ASSUME DebraInv, NEW p \in Processes, NEW q \in Processes, NEW b \in Bags,
         holds[p] \cap bag[q][b] # {}
  PROVE  Turns(q, b) <= 2
<1>1. LateTurns(p, q, b)
  BY DEF DebraInv, AgeInv
<1>2. InOperation(p) /\ localAnn[q] % 2 = 0
  BY DEF DebraInv, RecordInv, OwnerInv, BagInv
<1>3. localAnn[q] <= epoch
  BY <1>2 DEF DebraInv, EpochInv
<1>4. announced[p] % 2 = 0
  BY <1>2 DEF DebraInv, EpochInv, InOperation
<1>5. epoch <= since[p] + 2
  BY <1>4 DEF DebraInv, HeldBackInv
<1>6. localAnn[q] \in Nat /\ epoch \in Nat /\ since[p] \in Nat /\ Turns(q, b) \in Nat
  BY TurnsFacts DEF DebraInv, DebraTypeOK
<1>7. Turns(q, b) >= 1 => localAnn[q] >= since[p] + 2 * (Turns(q, b) - 1)
  BY <1>1 DEF LateTurns
<1> HIDE DEF Turns
<1> QED BY <1>3, <1>5, <1>6, <1>7

LEMMA HeldStep == DebraInv /\ [DebraNext]_debraVars => HeldNotFreed'
<1> SUFFICES ASSUME DebraInv, [DebraNext]_debraVars, NEW x \in Processes
             PROVE  holds'[x] \cap freed' = {}
  BY DEF HeldNotFreed
<1>0. DebraTypeOK /\ linked \cap freed = {} /\ holds[x] \cap freed = {}
  BY DEF DebraInv, RecordInv, HeldNotFreed
<1>1. ASSUME NEW p \in Processes, Rotate(p) PROVE holds'[x] \cap freed' = {}
  <2> DEFINE f == Freeable(Wrap(index[p] + 1))
  <2>1. f \in Bags
    BY <1>0, BagFacts DEF DebraTypeOK
  <2>2. PICK block \in SUBSET bag[p][f] : freed' = freed \cup block
    BY <1>0, <1>1, RotateFacts
  <2>3. dpc[p] = "rotate" /\ holds' = holds
    BY <1>0, <1>1, RotateFacts
  <2>4. Turns(p, f) >= 3 /\ Turns(p, f) \in Nat
    BY <1>0, <2>1, <2>3, TurnsFacts
  <2>5. holds[x] \cap bag[p][f] = {}
    BY <2>1, <2>4, TurnsBound
  <2> QED BY <1>0, <2>2, <2>3, <2>5
<1>2. ASSUME NEW p \in Processes, Scan(p) \/ CheckOther(p) \/ Advance(p)
      PROVE holds'[x] \cap freed' = {}
  <2>1. freed' = freed /\ (holds' = [holds EXCEPT ![p] = linked] \/ holds' = holds)
    BY <1>0, <1>2, EnterFacts DEF RecordsKept
  <2> QED BY <1>0, <2>1 DEF DebraTypeOK
<1>3. ASSUME NEW p \in Processes, Link(p) PROVE holds'[x] \cap freed' = {}
  <2>1. PICK r \in Unused :
           /\ freed' = freed
           /\ holds'[x] = IF InOperation(x) THEN holds[x] \cup {r} ELSE holds[x]
    BY <1>0, <1>3, LinkFacts
  <2> QED BY <1>0, <2>1 DEF Unused
<1>4. ASSUME NEW p \in Processes,
             ReadEpoch(p) \/ Announce(p) \/ Unlink(p) \/ Retire(p) \/ EndOperation(p)
      PROVE holds'[x] \cap freed' = {}
  <2>1. freed' = freed /\ (holds' = [holds EXCEPT ![p] = {}] \/ holds' = holds)
    BY <1>4 DEF ReadEpoch, Announce, Unlink, Retire, EndOperation, recordVars
  <2> QED BY <1>0, <2>1 DEF DebraTypeOK
<1>5. CASE UNCHANGED debraVars
  BY <1>0, <1>5 DEF debraVars, recordVars
<1> QED BY <1>1, <1>2, <1>3, <1>4, <1>5 DEF DebraNext, DebraStep, LeaveQuiescentState

\* A step that turns no ring and gives process x no record of bag b of q.
LEMMA LateTurnsKept ==
  ASSUME DebraInv, NEW x \in Processes, NEW q \in Processes, NEW b \in Bags,
         holds'[x] \cap bag'[q][b] # {}, holds'[x] \cap bag'[q][b] \subseteq holds[x] \cap bag[q][b],
         index' = index, localAnn'[q] = localAnn[q], readEpoch'[q] = readEpoch[q],
         since'[x] = since[x], dpc'[q] = "rotate" <=> dpc[q] = "rotate",
         dpc'[q] = "announce" => dpc[q] = "announce"
  PROVE  LateTurns(x, q, b)'
<1>1. LateTurns(x, q, b)
  BY DEF DebraInv, AgeInv
<1>2. Turns(q, b)' = Turns(q, b)
  BY DEF Turns
<1> QED BY <1>1, <1>2 DEF LateTurns

LEMMA AgeStep == DebraInv /\ [DebraNext]_debraVars => AgeInv'
<1> SUFFICES ASSUME DebraInv, [DebraNext]_debraVars,
                    NEW x \in Processes, NEW q \in Processes, NEW b \in Bags,
                    holds'[x] \cap bag'[q][b] # {}
             PROVE  LateTurns(x, q, b)'
  BY DEF AgeInv
<1>0. DebraTypeOK /\ RecordInv /\ OwnerInv(q) /\ OwnerInv(x) /\ BagInv(q, b)
  BY DEF DebraInv, RecordInv
<1>1. ASSUME NEW p \in Processes, ReadEpoch(p) PROVE LateTurns(x, q, b)'
  <2>1. /\ UNCHANGED <<epoch, localAnn, since, index, bag, holds>> /\ dpc[p] = "idle"
        /\ readEpoch' = [readEpoch EXCEPT ![p] = epoch] /\ dpc' = [dpc EXCEPT ![p] = "announce"]
    BY <1>1 DEF ReadEpoch, Goto, recordVars
  <2>2. LateTurns(x, q, b)
    BY <2>1 DEF DebraInv, AgeInv
  <2>3. since[x] <= epoch
    <3>1. InOperation(x)
      BY <1>0, <2>1 DEF OwnerInv
    <3>2. announced[x] % 2 = 0
      BY <3>1 DEF DebraInv, EpochInv, InOperation
    <3> QED BY <3>2 DEF DebraInv, HeldBackInv
  <2>4. Turns(q, b)' = Turns(q, b)
    BY <1>0, <2>1 DEF Turns, DebraTypeOK
  <2>5. epoch \in Nat /\ since[x] \in Nat
    BY <1>0 DEF DebraTypeOK
  <2>6. dpc'[q] \in {"announce", "rotate"} => readEpoch'[q] >= since'[x]
    BY <1>0, <2>1, <2>2, <2>3, <2>5 DEF LateTurns, DebraTypeOK
  <2> QED BY <2>1, <2>2, <2>4, <2>6 DEF LateTurns
<1>2. ASSUME NEW p \in Processes, Announce(p) PROVE LateTurns(x, q, b)'
  <2>1. UNCHANGED <<index, bag, holds, epoch, readEpoch>>
    BY <1>2 DEF Announce, recordVars
  <2>2. InOperation(x) /\ x # p
    BY <1>0, <1>2, <2>1, AnnounceFacts DEF OwnerInv, InOperation
  <2>3. since'[x] = since[x]
    BY <1>0, <1>2, <2>2, AnnounceFacts
  <2>4. CASE q # p
    <3>1. localAnn'[q] = localAnn[q] /\ dpc'[q] = dpc[q]
      BY <1>0, <1>2, <2>4, AnnounceFacts
    <3> QED BY <2>1, <2>3, <3>1, LateTurnsKept
  <2>5. CASE q = p
    <3>0. dpc[p] = "announce" /\ localAnn'[p] = readEpoch[p]
          /\ dpc'[p] = (IF readEpoch[p] # localAnn[p] THEN "rotate" ELSE "scan")
      BY <1>0, <1>2, AnnounceFacts
    <3>1. LateTurns(x, q, b)
      BY <2>1 DEF DebraInv, AgeInv
    <3>2. localAnn[p] % 2 = 0 /\ localAnn[p] <= readEpoch[p] /\ readEpoch[p] % 2 = 0
      BY <1>0, <2>1, <2>5, <3>0 DEF BagInv, DebraInv, EpochInv
    <3>3. localAnn[p] \in Nat /\ readEpoch[p] \in Nat /\ since[x] \in Nat /\ Turns(q, b) \in Nat
      BY <1>0, TurnsFacts DEF DebraTypeOK
    <3>4. readEpoch[p] >= since[x]
      BY <2>5, <3>0, <3>1 DEF LateTurns
    <3>5. Turns(q, b)' = Turns(q, b) + (IF readEpoch[p] # localAnn[p] THEN 1 ELSE 0)
      <4> DEFINE age == IF b <= index[q] THEN index[q] - b ELSE index[q] + EpochBags - b
      <4>1. age \in Int
        <5>1. index[q] \in Int /\ b \in Int /\ EpochBags \in Int
          <6>1. EpochBags \in Int
            BY DebraAssumption
          <6>2. index[q] \in Bags
            BY <1>0 DEF DebraTypeOK
          <6> QED BY <6>1, <6>2 DEF Bags
        <5> QED BY <5>1
      <4>2. Turns(q, b) = age + (IF dpc[q] = "rotate" THEN 1 ELSE 0)
            /\ Turns(q, b)' = age + (IF dpc'[q] = "rotate" THEN 1 ELSE 0)
        BY <2>1 DEF Turns
      <4> HIDE DEF age
      <4> QED BY <2>5, <3>0, <4>1, <4>2
    <3>6. readEpoch[p] # localAnn[p] => readEpoch[p] >= localAnn[p] + 2
      BY <3>2, <3>3, EvenFacts
    <3>7. Turns(q, b) >= 1 => localAnn[p] >= since[x] + 2 * (Turns(q, b) - 1)
      BY <2>5, <3>1 DEF LateTurns
    <3>8. Turns(q, b)' >= 1 => readEpoch[p] >= since[x] + 2 * (Turns(q, b)' - 1)
      <4> HIDE DEF Turns
      <4>1. CASE readEpoch[p] = localAnn[p]
        <5>1. Turns(q, b)' = Turns(q, b)
          BY <3>3, <3>5, <4>1
        <5> QED BY <3>7, <4>1, <5>1
      <4>2. CASE readEpoch[p] # localAnn[p]
        <5>1. Turns(q, b)' = Turns(q, b) + 1
          BY <3>5, <4>2
        <5>2. Turns(q, b) >= 1 => readEpoch[p] >= since[x] + 2 * Turns(q, b)
          BY <3>3, <3>6, <3>7, <4>2
        <5>3. Turns(q, b) = 0 => readEpoch[p] >= since[x] + 2 * Turns(q, b)
          BY <3>3, <3>4
        <5>4. readEpoch[p] >= since[x] + 2 * Turns(q, b)
          BY <3>3, <5>2, <5>3
        <5> QED BY <3>3, <5>1, <5>4
      <4> QED BY <4>1, <4>2
    <3> QED BY <2>1, <2>3, <2>5, <3>0, <3>4, <3>8 DEF LateTurns
  <2> QED BY <2>4, <2>5
<1>3. ASSUME NEW p \in Processes, Rotate(p) PROVE LateTurns(x, q, b)'
  <2>1. /\ index' = [index EXCEPT ![p] = Wrap(index[p] + 1)]
        /\ dpc[p] = "rotate" /\ dpc' = [dpc EXCEPT ![p] = "scan"]
        /\ UNCHANGED <<localAnn, readEpoch, since, holds>>
        /\ bag'[q][b] \subseteq bag[q][b]
    BY <1>0, <1>3, RotateFacts
  <2>2. LateTurns(x, q, b) /\ Turns(q, b) <= 2
    BY <2>1, TurnsBound DEF DebraInv, AgeInv
  <2>3. CASE q = p
    <3>1. index[p] \in Nat /\ b \in Nat /\ index[p] < EpochBags /\ b < EpochBags
          /\ EpochBags \in Nat /\ EpochBags >= 4
      <4>1. EpochBags \in Nat /\ EpochBags >= 4
        BY DebraAssumption
      <4>2. index[p] \in 0 .. EpochBags - 1 /\ b \in 0 .. EpochBags - 1
        BY <1>0 DEF DebraTypeOK, Bags
      <4> QED BY <4>1, <4>2
    <3>2. index'[p] = Wrap(index[p] + 1) /\ dpc'[p] = "scan"
      BY <1>0, <2>1 DEF DebraTypeOK
    <3>3. Turns(q, b)' = Turns(q, b)
      BY <2>1, <2>2, <2>3, <3>1, <3>2 DEF Turns, Wrap
    <3> QED BY <2>1, <2>2, <2>3, <3>2, <3>3 DEF LateTurns
  <2>4. CASE q # p
    <3>1. index'[q] = index[q] /\ dpc'[q] = dpc[q]
      BY <1>0, <2>1, <2>4 DEF DebraTypeOK
    <3>2. Turns(q, b)' = Turns(q, b)
      BY <3>1 DEF Turns
    <3> QED BY <2>1, <2>2, <3>1, <3>2 DEF LateTurns
  <2> QED BY <2>3, <2>4
<1>4. ASSUME NEW p \in Processes, Scan(p) \/ CheckOther(p) \/ Advance(p) PROVE LateTurns(x, q, b)'
  <2>1. /\ RecordsKept /\ UNCHANGED <<localAnn, readEpoch, since>>
        /\ dpc[p] \in {"scan", "check", "advance"}
        /\ \/ holds' = [holds EXCEPT ![p] = linked] /\ dpc' = [dpc EXCEPT ![p] = "active"]
           \/ holds' = holds /\ \E l \in {"check", "advance"} : dpc' = [dpc EXCEPT ![p] = l]
    BY <1>0, <1>4, EnterFacts
  <2>2. \/ (dpc'[q] = "rotate" <=> dpc[q] = "rotate") /\ dpc'[q] # "announce"
        \/ dpc'[q] = dpc[q]
    BY <1>0, <2>1 DEF DebraTypeOK
  <2>3. CASE holds'[x] = holds[x]
    BY <2>1, <2>2, <2>3, LateTurnsKept DEF RecordsKept
  <2>4. CASE holds'[x] # holds[x]
    <3>1. x = p /\ holds'[x] = linked
      BY <1>0, <2>1, <2>4 DEF DebraTypeOK
    <3>2. early[q] # {} /\ b = index[q]
      BY <1>0, <2>1, <3>1 DEF BagInv, RecordsKept
    <3>3. dpc[q] = "active" /\ dpc'[q] = "active"
      BY <1>0, <2>1, <3>2 DEF OwnerInv, InOperation, DebraTypeOK
    <3>4. Turns(q, b) = 0
      BY <1>0, <3>2, <3>3, TurnsFacts
    <3>5. Turns(q, b)' = Turns(q, b)
      BY <2>1, <3>3 DEF Turns, RecordsKept
    <3> QED BY <3>3, <3>4, <3>5 DEF LateTurns
  <2> QED BY <2>3, <2>4
<1>5. ASSUME NEW p \in Processes, Link(p) PROVE LateTurns(x, q, b)'
  <2>1. PICK r \in Unused :
           /\ holds'[x] = IF InOperation(x) THEN holds[x] \cup {r} ELSE holds[x]
           /\ UNCHANGED <<dpc, scanVars, index, bag>>
    BY <1>0, <1>5, LinkFacts
  <2>2. r \notin bag[q][b]
    BY DEF Unused, Retired
  <2>3. holds'[x] \cap bag'[q][b] \subseteq holds[x] \cap bag[q][b]
    BY <2>1, <2>2
  <2> QED BY <2>1, <2>3, LateTurnsKept DEF scanVars
<1>6. ASSUME NEW p \in Processes, Unlink(p) PROVE LateTurns(x, q, b)'
  <2>1. UNCHANGED <<dpc, scanVars, index, bag, holds>>
    BY <1>6 DEF Unlink
  <2> QED BY <2>1, LateTurnsKept DEF scanVars
<1>7. ASSUME NEW p \in Processes, Retire(p) PROVE LateTurns(x, q, b)'
  <2>1. PICK r \in unlinked[p] \cup (linked \ Retired) :
           /\ bag'[q][b] = IF q = p /\ b = index[p] THEN bag[q][b] \cup {r} ELSE bag[q][b]
           /\ dpc[p] = "active"
           /\ UNCHANGED <<dpc, scanVars, index, holds>>
    BY <1>0, <1>7, RetireFacts
  <2>2. CASE q = p /\ b = index[p]
    <3>1. Turns(q, b) = 0
      BY <1>0, <2>1, <2>2, TurnsFacts
    <3>2. Turns(q, b)' = Turns(q, b)
      BY <2>1 DEF Turns
    <3> QED BY <2>1, <2>2, <3>1, <3>2 DEF LateTurns
  <2>3. CASE ~(q = p /\ b = index[p])
    BY <2>1, <2>3, LateTurnsKept DEF scanVars
  <2> QED BY <2>2, <2>3
<1>8. ASSUME NEW p \in Processes, EndOperation(p) PROVE LateTurns(x, q, b)'
  <2>1. /\ holds' = [holds EXCEPT ![p] = {}] /\ RecordsKept
        /\ dpc[p] = "active" /\ dpc' = [dpc EXCEPT ![p] = "idle"]
        /\ UNCHANGED <<localAnn, readEpoch, since>>
    BY <1>8 DEF EndOperation, InOperation, Goto, RecordsKept
  <2>2. holds'[x] \subseteq holds[x]
    BY <1>0, <2>1 DEF DebraTypeOK
  <2>3. dpc'[q] = dpc[q] \/ (dpc[q] = "active" /\ dpc'[q] = "idle")
    BY <1>0, <2>1 DEF DebraTypeOK
  <2>4. holds'[x] \cap bag'[q][b] \subseteq holds[x] \cap bag[q][b]
    BY <2>1, <2>2 DEF RecordsKept
  <2> QED BY <2>1, <2>3, <2>4, LateTurnsKept DEF RecordsKept
<1>9. CASE UNCHANGED debraVars
  BY <1>9, LateTurnsKept DEF debraVars, scanVars, recordVars
<1> QED BY <1>1, <1>2, <1>3, <1>4, <1>5, <1>6, <1>7, <1>8, <1>9
        DEF DebraNext, DebraStep, LeaveQuiescentState

-----------------------------------------------------------------------------
LEMMA DebraInitially == DebraInit => DebraInv
<1> SUFFICES ASSUME DebraInit PROVE DebraInv
  OBVIOUS
<1>1. WithQuiescent(0) = 1
  BY DEF WithQuiescent, Quiescent
<1>2. DebraTypeOK
  BY <1>1, BagFacts, DebraAssumption DEF DebraInit, DebraTypeOK
<1>3. EpochInv /\ HeldBackInv
  BY <1>1 DEF DebraInit, EpochInv, HeldBackInv
<1>4. ScanInv /\ CheckedInv
  BY <1>1, ProcessFacts, DebraAssumption DEF DebraInit, ScanInv, CheckedInv
<1>5. RecordInv /\ AgeInv /\ HeldNotFreed
  BY DEF DebraInit, RecordInv, OwnerInv, BagInv, AgeInv, HeldNotFreed
<1> QED BY <1>2, <1>3, <1>4, <1>5 DEF DebraInv

LEMMA DebraInvariant == DebraSpec => []DebraInv
<1>1. DebraInv /\ [DebraNext]_debraVars => DebraInv'
  BY TypeStep, EpochStep, HeldBackStep, ScanStep, CheckedStep, RecordStep, AgeStep, HeldStep
     DEF DebraInv
<1> QED BY <1>1, DebraInitially, PTL DEF DebraSpec

(***************************************************************************)
(* The variables keep their types, and the incremental scan never reads    *)
(* past the table of announcements, although "checked" is reset only when  *)
(* the process meets another epoch.                                        *)
(***************************************************************************)
THEOREM DebraTypes == DebraSpec => []DebraTypeOK
<1>1. DebraInv => DebraTypeOK
  BY DEF DebraInv
<1> QED BY <1>1, DebraInvariant, PTL

(***************************************************************************)
(* DEBRA frees no record that an operation under way could have met,       *)
(* however late the operation's announcement was and in whatever order the *)
(* scans of the other processes ran.                                       *)
(***************************************************************************)
THEOREM HeldRecordsLive == DebraSpec => []HeldNotFreed
<1>1. DebraInv => HeldNotFreed
  BY DEF DebraInv
<1> QED BY <1>1, DebraInvariant, PTL

(***************************************************************************)
(* While an operation runs the epoch moves on at most once from where it   *)
(* was when the operation announced itself.                                *)
(***************************************************************************)
THEOREM EpochIsHeldBack == DebraSpec => []EpochHeldBack
<1>1. ASSUME DebraInv, NEW p \in Processes, InOperation(p) PROVE epoch <= since[p] + 2
  <2>1. announced[p] % 2 = 0
    BY <1>1 DEF DebraInv, EpochInv, InOperation
  <2> QED BY <1>1, <2>1 DEF DebraInv, HeldBackInv
<1>2. DebraInv => EpochHeldBack
  BY <1>1 DEF EpochHeldBack
<1> QED BY <1>2, DebraInvariant, PTL

(***************************************************************************)
(* The limbo scan of a range query finds what it must: a record that was   *)
(* deleted while the query ran, if it has been retired, is in one of the   *)
(* three bags that getSafeBlockbags returns for its retirer.               *)
(***************************************************************************)
THEOREM ScannedBagsSuffice == DebraSpec => []SafeBagsSuffice
<1>1. ASSUME DebraInv, NEW p \in Processes, NEW q \in Processes, NEW b \in Bags,
             holds[p] \cap bag[q][b] # {}
      PROVE  b \in SafeBags(index[q])
  <2>1. Turns(q, b) <= 2
    BY <1>1, TurnsBound
  <2> QED BY <1>1, <2>1, TurnsFacts DEF DebraInv
<1>2. DebraInv => SafeBagsSuffice
  BY <1>1 DEF SafeBagsSuffice
<1> QED BY <1>2, DebraInvariant, PTL
=============================================================================
