-------------------------- MODULE ZohoPush_proofs --------------------------
(***************************************************************************)
(* The pushes of an order.  Whatever fails and however they overlap, the   *)
(* running total never exceeds what Zoho has.  When they are serial and    *)
(* nothing fails, they implement the ledger, the running total is what     *)
(* Zoho has, and Zoho has no more than was finished.                       *)
(***************************************************************************)
EXTENDS ZohoPush, TLAPS

\* A job never works from a total Zoho does not have, and once it has
\* assembled its difference Zoho has its target.
Backed(j) ==
  /\ At(j, "build") => job[j].seen <= bundled
  /\ At(j, "record") => job[j].target <= bundled

IInv ==
  /\ TypeOK
  /\ pushed <= bundled
  /\ \A j \in Jobs : Backed(j)

LEMMA TargetsNat == Targets \subseteq Nat
  BY ZohoPushAssumption DEF Targets

\* What a job that has reached a step holds.
LEMMA JobType ==
  ASSUME TypeOK, NEW j \in Jobs
  PROVE  /\ At(j, "update") => job[j] \in Update
         /\ \A step \in {"check", "load"} :
              At(j, step) => job[j].target \in Targets
         /\ \A step \in {"build", "record"} :
              At(j, step) => /\ job[j].target \in Targets
                             /\ job[j].seen \in Nat
                             /\ job[j] = [step |-> step, target |-> job[j].target,
                                          seen |-> job[j].seen]
  BY DEF TypeOK, At, Update, PushJob

LEMMA InitInv == Init => IInv
  <1> SUFFICES ASSUME Init PROVE IInv
    OBVIOUS
  <1>1. TypeOK
    BY DEF Init, TypeOK, Statuses
  <1>2. \A j \in Jobs : job[j] = NONE
    BY DEF Init
  <1>3. pushed <= bundled
    BY DEF Init
  <1> QED
    BY <1>1, <1>2, <1>3 DEF IInv, Backed, At

\* Changing one job to a well formed one, while Zoho's total does not drop.
LEMMA BecomeInv ==
  ASSUME IInv, NEW j \in Jobs, NEW next, Become(j, next),
         next \in Update \cup PushJob \cup {NONE},
         status' \in Statuses, location' \in BOOLEAN, pushed' \in Nat,
         bundled' \in Nat, failed' \in BOOLEAN,
         bundled <= bundled', pushed' <= bundled',
         (next # NONE /\ next.step = "build") => next.seen <= bundled',
         (next # NONE /\ next.step = "record") => next.target <= bundled'
  PROVE  IInv'
  <1> USE TargetsNat
  <1>1. TypeOK'
    BY DEF IInv, TypeOK, Become
  <1>2. ASSUME NEW i \in Jobs
        PROVE  Backed(i)'
    <2>1. CASE i = j
      <3>1. job'[i] = next
        BY <2>1 DEF IInv, TypeOK, Become
      <3> QED
        BY <3>1 DEF Backed, At
    <2>2. CASE i # j
      <3>1. job'[i] = job[i]
        BY <2>2 DEF IInv, TypeOK, Become
      <3>2. /\ At(i, "build") => job[i].seen \in Nat /\ job[i].seen <= bundled
            /\ At(i, "record") => job[i].target \in Nat /\ job[i].target <= bundled
        BY JobType DEF IInv, Backed
      <3>3. bundled \in Nat
        BY DEF IInv, TypeOK
      <3> QED
        BY <3>1, <3>2, <3>3 DEF Backed, At
    <2> QED
      BY <2>1, <2>2
  <1> QED
    BY <1>1, <1>2 DEF IInv

-----------------------------------------------------------------------------
(* Every step keeps the invariant *)

LEMMA RequestInv ==
  ASSUME IInv, NEW j \in Jobs,
         \/ \E quantity \in Finishes : SaveFinishing(j, quantity)
         \/ \E to \in Requested, locates \in BOOLEAN : BeginUpdate(j, to, locates)
         \/ CommitUpdate(j)
  PROVE  IInv'
  <1> USE DEF IInv, TypeOK
  <1>1. ASSUME NEW quantity \in Finishes, SaveFinishing(j, quantity) PROVE IInv'
    <2>1. [step |-> "check", target |-> quantity] \in PushJob
      BY DEF PushJob, Targets
    <2> QED
      BY <1>1, <2>1, BecomeInv DEF SaveFinishing
  <1>2. ASSUME NEW to \in Requested, NEW locates \in BOOLEAN,
               BeginUpdate(j, to, locates)
        PROVE  IInv'
    <2> DEFINE next == [step |-> "update", was |-> status, to |-> to,
                        locates |-> locates \/ location]
    <2>1. next \in Update
      BY DEF Update
    <2> QED
      BY <1>2, <2>1, BecomeInv DEF BeginUpdate
  <1>3. CASE CommitUpdate(j)
    <2> DEFINE push == [step |-> "load", target |-> Quantity]
    <2>1. push \in PushJob
      BY DEF PushJob, Targets
    <2>2. job[j] \in Update
      BY <1>3, JobType DEF CommitUpdate
    <2>3. status' \in Statuses /\ location' \in BOOLEAN
      BY <1>3, <2>2 DEF CommitUpdate, Update, After, Requested
    <2>4. Become(j, push) \/ Become(j, NONE)
      BY <1>3 DEF CommitUpdate
    <2>5. UNCHANGED <<pushed, bundled, failed>>
      BY <1>3 DEF CommitUpdate
    <2>6. CASE Become(j, NONE)
      BY <2>3, <2>5, <2>6, BecomeInv
    <2>7. CASE Become(j, push)
      BY <2>1, <2>3, <2>5, <2>7, BecomeInv
    <2> QED
      BY <2>4, <2>6, <2>7
  <1> QED
    BY <1>1, <1>2, <1>3

LEMMA PushInv ==
  ASSUME IInv, NEW j \in Jobs,
         Check(j) \/ Load(j) \/ Build(j) \/ Record(j) \/ Fail(j)
  PROVE  IInv'
  <1> USE DEF IInv, TypeOK
  <1>0. ASSUME Become(j, NONE), UNCHANGED <<status, location, pushed, bundled>>,
               failed' \in BOOLEAN
        PROVE  IInv'
    BY <1>0, BecomeInv
  <1>1. CASE Check(j)
    <2> DEFINE next == [step |-> "load", target |-> job[j].target]
    <2>1. next \in PushJob
      BY <1>1, JobType DEF Check, PushJob
    <2>2. Become(j, next) \/ Become(j, NONE)
      BY <1>1 DEF Check
    <2>3. CASE Become(j, next)
      BY <1>1, <2>1, <2>3, BecomeInv DEF Check
    <2> QED
      BY <1>0, <1>1, <2>2, <2>3 DEF Check
  <1>2. CASE Load(j)
    <2> DEFINE next == [step |-> "build", target |-> job[j].target,
                        seen |-> pushed]
    <2>1. next \in PushJob
      BY <1>2, JobType DEF Load, PushJob
    <2>2. Become(j, next) \/ Become(j, NONE)
      BY <1>2 DEF Load
    <2>3. CASE Become(j, next)
      BY <1>2, <2>1, <2>3, BecomeInv DEF Load
    <2> QED
      BY <1>0, <1>2, <2>2, <2>3 DEF Load
  <1>3. CASE Build(j)
    <2> DEFINE next == [job[j] EXCEPT !.step = "record"]
    <2>1. /\ job[j].target \in Nat /\ job[j].target \in Targets
          /\ job[j].seen \in Nat /\ job[j].seen <= bundled
          /\ next = [step |-> "record", target |-> job[j].target,
                     seen |-> job[j].seen]
      BY <1>3, JobType, TargetsNat DEF Build, Backed
    <2>2. next \in PushJob
      BY <2>1 DEF PushJob
    <2>3. CASE job[j].target > job[j].seen
      <3>1. /\ bundled' = bundled + (job[j].target - job[j].seen)
            /\ Become(j, next)
            /\ UNCHANGED <<status, location, pushed, failed>>
        BY <1>3, <2>3 DEF Build
      <3>2. bundled' \in Nat /\ bundled <= bundled' /\ job[j].target <= bundled'
        BY <2>1, <2>3, <3>1
      <3>3. next.step = "record" /\ next.target = job[j].target
        BY <2>1
      <3> HIDE DEF next
      <3> QED
        BY <2>2, <3>1, <3>2, <3>3, BecomeInv
    <2>4. CASE ~(job[j].target > job[j].seen)
      BY <1>0, <1>3, <2>4 DEF Build
    <2> QED
      BY <2>3, <2>4
  <1>4. CASE Record(j)
    <2>1. /\ job[j].target \in Nat /\ job[j].seen \in Nat
          /\ job[j].target <= bundled
      BY <1>4, JobType, TargetsNat DEF Record, Backed
    <2>2. pushed' = job[j].target
      BY <1>4, <2>1 DEF Record
    <2> QED
      BY <1>4, <2>1, <2>2, BecomeInv DEF Record
  <1>5. CASE Fail(j)
    BY <1>0, <1>5 DEF Fail
  <1> QED
    BY <1>1, <1>2, <1>3, <1>4, <1>5

LEMMA NextInv == IInv /\ [Next]_vars => IInv'
  <1> SUFFICES ASSUME IInv, [Next]_vars PROVE IInv'
    OBVIOUS
  <1>1. CASE Crash
    <2>1. TypeOK'
      BY <1>1 DEF Crash, IInv, TypeOK
    <2>2. \A j \in Jobs : job'[j] = NONE
      BY <1>1 DEF Crash
    <2> QED
      BY <1>1, <2>1, <2>2 DEF Crash, IInv, Backed, At
  <1>2. CASE UNCHANGED vars
    BY <1>2 DEF vars, IInv, TypeOK, Backed, At
  <1> QED
    BY <1>1, <1>2, RequestInv, PushInv DEF Next, Reliable, Push

\* Every variable keeps its type, whatever fails.
THEOREM TypeCorrect == Spec => []TypeOK
  <1>1. IInv => TypeOK
    BY DEF IInv
  <1> QED
    BY <1>1, InitInv, NextInv, PTL DEF Spec

\* However many pushes race, fail half way or are lost in a restart,
\* quantityPushedToZoho never exceeds what Zoho was given for the order.
THEOREM NeverAheadOfZoho == Spec => []NeverClaimsMore
  <1>1. IInv => NeverClaimsMore
    BY DEF IInv, NeverClaimsMore
  <1> QED
    BY <1>1, InitInv, NextInv, PTL DEF Spec

-----------------------------------------------------------------------------
(* Serial pushes *)

\* Zoho holds nothing or a target.  Between the assembly and its record the
\* ledger is one push ahead of the record, at the job's target; otherwise the
\* two agree and no copy is out of date.
SerialInv ==
  /\ TypeOK
  /\ bundled \in Targets \cup {0}
  /\ (\A j \in Jobs : ~At(j, "record")) => pushed = bundled
  /\ \A j \in Jobs : At(j, "build") => job[j].seen = pushed
  /\ \A j \in Jobs : At(j, "record") => job[j].target = bundled

\* A serial step keeps SerialInv and is a step of the ledger, or none.
LEMMA SerialStep ==
  ASSUME \A i, j \in Jobs : i = j, IInv, SerialInv, [Reliable]_vars
  PROVE  SerialInv' /\ [Ledger!LedgerNext]_<<bundled, pushed>>
  <1>0. TypeOK'
    <2>1. [Next]_vars
      BY DEF Next
    <2> QED
      BY <2>1, NextInv DEF IInv
  <1>1. ASSUME NEW j \in Jobs, NEW next, Become(j, next)
        PROVE  Jobs = {j} /\ job'[j] = next
    BY <1>1 DEF SerialInv, TypeOK, Become
  <1>2. CASE UNCHANGED vars
    BY <1>0, <1>2 DEF vars, SerialInv, At
  <1>3. ASSUME NEW j \in Jobs,
               \/ \E quantity \in Finishes : SaveFinishing(j, quantity)
               \/ \E to \in Requested, locates \in BOOLEAN :
                     BeginUpdate(j, to, locates)
               \/ CommitUpdate(j) \/ Check(j) \/ Load(j)
        PROVE  SerialInv' /\ UNCHANGED <<bundled, pushed>>
    <2>1. PICK next \in Update \cup PushJob \cup {NONE} :
            /\ Become(j, next)
            /\ next # NONE => /\ next.step # "record"
                              /\ next.step = "build" => next.seen = pushed
      <3>1. CASE \E quantity \in Finishes : SaveFinishing(j, quantity)
        <4>1. PICK quantity \in Finishes : SaveFinishing(j, quantity)
          BY <3>1
        <4>2. [step |-> "check", target |-> quantity] \in PushJob
          BY DEF PushJob, Targets
        <4> QED
          BY <4>1, <4>2 DEF SaveFinishing
      <3>2. CASE \E to \in Requested, locates \in BOOLEAN :
                   BeginUpdate(j, to, locates)
        <4>1. PICK to \in Requested, locates \in BOOLEAN :
                BeginUpdate(j, to, locates)
          BY <3>2
        <4>2. [step |-> "update", was |-> status, to |-> to,
               locates |-> locates \/ location] \in Update
          BY DEF Update, SerialInv, TypeOK
        <4> QED
          BY <4>1, <4>2 DEF BeginUpdate
      <3>3. CASE CommitUpdate(j)
        <4>1. [step |-> "load", target |-> Quantity] \in PushJob
          BY DEF PushJob, Targets
        <4> QED
          BY <3>3, <4>1 DEF CommitUpdate
      <3>4. CASE Check(j)
        <4>1. [step |-> "load", target |-> job[j].target] \in PushJob
          BY <3>4, JobType DEF Check, PushJob, SerialInv
        <4> QED
          BY <3>4, <4>1 DEF Check
      <3>5. CASE Load(j)
        <4>1. [step |-> "build", target |-> job[j].target, seen |-> pushed]
                \in PushJob
          BY <3>5, JobType DEF Load, PushJob, SerialInv, TypeOK
        <4> QED
          BY <3>5, <4>1 DEF Load
      <3> QED
        BY <1>3, <3>1, <3>2, <3>3, <3>4, <3>5
    <2>2. UNCHANGED <<bundled, pushed>> /\ ~At(j, "record")
      BY <1>3, ZohoPushAssumption
         DEF SaveFinishing, BeginUpdate, CommitUpdate, Check, Load, Free, At
    <2>3. ~At(j, "record")' /\ (At(j, "build")' => job'[j].seen = pushed)
      BY <1>1, <2>1 DEF At
    <2>4. Jobs = {j}
      OBVIOUS
    <2> QED
      BY <1>0, <2>2, <2>3, <2>4 DEF SerialInv
  <1>4. ASSUME NEW j \in Jobs, Build(j)
        PROVE  SerialInv' /\ [Ledger!LedgerNext]_<<bundled, pushed>>
    <2>1. /\ job[j].target \in Targets /\ job[j].target \in Nat
          /\ job[j].seen = pushed /\ pushed = bundled /\ bundled \in Nat
          /\ job[j] = [step |-> "build", target |-> job[j].target,
                       seen |-> job[j].seen]
      BY <1>4, JobType, TargetsNat DEF Build, SerialInv, TypeOK, At
    <2>2. Jobs = {j}
      OBVIOUS
    <2>3. CASE job[j].target > job[j].seen
      <3>1. /\ bundled' = job[j].target /\ pushed' = pushed
            /\ Become(j, [job[j] EXCEPT !.step = "record"])
        BY <1>4, <2>1, <2>3 DEF Build
      <3>2. At(j, "record")' /\ job'[j].target = job[j].target
            /\ ~At(j, "build")'
        <4> DEFINE next == [job[j] EXCEPT !.step = "record"]
        <4>1. next = [step |-> "record", target |-> job[j].target,
                      seen |-> job[j].seen]
          BY <2>1
        <4>2. next \in PushJob
          BY <2>1, <4>1 DEF PushJob, SerialInv, TypeOK
        <4>3. next # NONE
          BY <4>2, ZohoPushAssumption
        <4>4. job'[j] = next
          BY <1>1, <3>1
        <4> QED
          BY <4>1, <4>3, <4>4 DEF At
      <3>3. Ledger!Push
        BY <2>1, <2>3, <3>1 DEF Ledger!Push
      <3> QED
        BY <1>0, <2>1, <2>2, <3>1, <3>2, <3>3 DEF SerialInv, Ledger!LedgerNext
    <2>4. CASE ~(job[j].target > job[j].seen)
      <3>1. Become(j, NONE) /\ UNCHANGED <<bundled, pushed>>
        BY <1>4, <2>4 DEF Build
      <3> QED
        BY <1>0, <1>1, <2>1, <2>2, <3>1 DEF SerialInv, At
    <2> QED
      BY <2>3, <2>4
  <1>5. ASSUME NEW j \in Jobs, Record(j)
        PROVE  SerialInv' /\ Ledger!Record
    <2>1. /\ job[j].target \in Nat /\ job[j].seen \in Nat
          /\ job[j].target = bundled
      BY <1>5, JobType, TargetsNat DEF Record, SerialInv
    <2>2. pushed' = bundled /\ bundled' = bundled /\ Become(j, NONE)
      BY <1>5, <2>1 DEF Record
    <2>3. Jobs = {j}
      OBVIOUS
    <2> QED
      BY <1>0, <1>1, <2>2, <2>3 DEF SerialInv, At, Ledger!Record
  <1> QED
    BY <1>2, <1>3, <1>4, <1>5 DEF Reliable, Push, Ledger!LedgerNext, vars

\* While pushes are serial and nothing fails, every push brings Zoho from the
\* recorded total exactly to a finished quantity, and is recorded before the
\* next: the program implements the ledger.
THEOREM SerialImplementsLedger ==
  ASSUME \A i, j \in Jobs : i = j
  PROVE  ReliableSpec => LedgerSpec
  <1>1. Init => SerialInv /\ IInv /\ Ledger!LedgerInit
    BY InitInv DEF Init, IInv, SerialInv, At, Ledger!LedgerInit
  <1>2. SerialInv /\ IInv /\ [Reliable]_vars
          => SerialInv' /\ IInv' /\ [Ledger!LedgerNext]_<<bundled, pushed>>
    BY SerialStep, NextInv DEF Next
  <1> QED
    BY <1>1, <1>2, PTL DEF ReliableSpec, LedgerSpec, Ledger!LedgerSpec

LEMMA SerialInvariance ==
  ASSUME \A i, j \in Jobs : i = j
  PROVE  ReliableSpec => []SerialInv
  <1>1. Init => SerialInv /\ IInv
    BY InitInv DEF Init, IInv, SerialInv, At
  <1>2. SerialInv /\ IInv /\ [Reliable]_vars => SerialInv' /\ IInv'
    BY SerialStep, NextInv DEF Next
  <1> QED
    BY <1>1, <1>2, PTL DEF ReliableSpec

\* Whenever no push of the order is under way, quantityPushedToZoho is what
\* Zoho has been given, however often and with whatever quantities the order
\* was finished, updated and completed, one request after the other.
THEOREM SerialTotalIsZohos ==
  ASSUME \A i, j \in Jobs : i = j
  PROVE  ReliableSpec => []RunningTotal
  <1>1. SerialInv => RunningTotal
    BY DEF SerialInv, RunningTotal, Free, At
  <1> QED
    BY <1>1, SerialInvariance, PTL

\* Serial pushes give Zoho the difference to a finished quantity, never more:
\* what two overlapping pushes break (the run PushTwice).
THEOREM SerialPushesTheDifference ==
  ASSUME \A i, j \in Jobs : i = j
  PROVE  ReliableSpec => []OnlyTheDifference
  <1>1. SerialInv => OnlyTheDifference
    <2> SUFFICES ASSUME SerialInv PROVE OnlyTheDifference
      OBVIOUS
    <2>1. bundled \in Targets \cup {0} /\ bundled <= bundled
      BY TargetsNat DEF SerialInv
    <2> QED
      BY <2>1 DEF OnlyTheDifference
  <1> QED
    BY <1>1, SerialInvariance, PTL
=============================================================================
