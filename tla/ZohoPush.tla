------------------------------ MODULE ZohoPush ------------------------------
(***************************************************************************)
(* How the output of one production order reaches Zoho Books: saving the   *)
(* FINISHING task and completing the order each start a job that pushes    *)
(* what has not been pushed yet (pushFinishingDelta,                       *)
(* applyInventoryAdjustments).                                             *)
(*                                                                         *)
(* A job awaits the database or Zoho between any two of its steps, so jobs *)
(* interleave; it lives in memory only.  With one element in Jobs they are *)
(* serial.                                                                 *)
(***************************************************************************)
EXTENDS Naturals

CONSTANTS
  Jobs,         \* jobs in flight at once
  Quantity,     \* ProductOrder.quantity
  Finishes,     \* the quantities FINISHING is saved with (bounds the model)
  MaxBundled,   \* no more is requested beyond this total (bounds the model)
  NONE          \* no job

Statuses  == {"PENDING", "PARTIALLY_COMPLETE", "COMPLETE"}
Completed == {"PARTIALLY_COMPLETE", "COMPLETE"}
Requested == Statuses \cup {"UNCHANGED"}   \* an update may leave the status out
Targets   == Finishes \cup {Quantity}

VARIABLES
  status,     \* ProductOrder.status
  location,   \* whether ProductOrder.zohoLocationId is set
  pushed,     \* ProductOrder.quantityPushedToZoho
  bundled,    \* units assembled at Zoho for this order
  job,        \* what each job in flight is about to do
  failed      \* whether a job of this order was ever logged as failed, or lost

vars == <<status, location, pushed, bundled, job, failed>>

\* A request to update the order, which may become a push, and the pushes.
Update == [step : {"update"}, was : Statuses, to : Requested, locates : BOOLEAN]
PushJob == [step : {"check", "load"}, target : Targets]
             \cup [step : {"build", "record"}, target : Targets, seen : Nat]

ASSUME ZohoPushAssumption ==
  /\ Quantity \in Nat /\ Finishes \subseteq Nat /\ MaxBundled \in Nat
  /\ NONE \notin Update \cup PushJob

TypeOK ==
  /\ status \in Statuses
  /\ location \in BOOLEAN
  /\ pushed \in Nat /\ bundled \in Nat
  /\ job \in [Jobs -> Update \cup PushJob \cup {NONE}]
  /\ failed \in BOOLEAN

Init ==
  /\ status = "PENDING" /\ location = FALSE
  /\ pushed = 0 /\ bundled = 0
  /\ job = [j \in Jobs |-> NONE]
  /\ failed = FALSE

Free(j) == job[j] = NONE
At(j, step) == job[j] # NONE /\ job[j].step = step
Become(j, next) == job' = [job EXCEPT ![j] = next]

-----------------------------------------------------------------------------
(* Requests *)

\* FINISHING is saved: a positive quantity starts a push that the response
\* does not wait for.
SaveFinishing(j, quantity) ==
  /\ Free(j)
  /\ quantity > 0
  /\ Become(j, [step |-> "check", target |-> quantity])
  /\ UNCHANGED <<status, location, pushed, bundled, failed>>

\* The order is updated: status and location are read, and the location is
\* looked up at Zoho, before anything is written.  Completing needs a location.
BeginUpdate(j, to, locates) ==
  /\ Free(j)
  /\ to \in Completed => (locates \/ location)
  /\ Become(j, [step |-> "update", was |-> status, to |-> to,
                locates |-> locates \/ location])
  /\ UNCHANGED <<status, location, pushed, bundled, failed>>

\* The status of the order once an update is written.
After(update) == IF update.to = "UNCHANGED" THEN status ELSE update.to

\* Mutant of CommitUpdate: the order is pushed only when it is fully complete,
\* and only if it was pending before.
CommitUpdateFromPending(j) ==
  /\ At(j, "update")
  /\ status' = After(job[j])
  /\ location' = (location \/ job[j].locates)
  /\ Become(j, IF job[j].was = "PENDING" /\ After(job[j]) = "COMPLETE"
               THEN [step |-> "load", target |-> Quantity]
               ELSE NONE)
  /\ UNCHANGED <<pushed, bundled, failed>>

\* The update commits; if the status it leaves differs from the one read
\* before, and says complete or partially complete, the whole order is to be
\* pushed.
CommitUpdate(j) ==
  /\ At(j, "update")
  /\ status' = After(job[j])
  /\ location' = (location \/ job[j].locates)
  /\ Become(j, IF job[j].was # After(job[j]) /\ After(job[j]) \in Completed
               THEN [step |-> "load", target |-> Quantity]
               ELSE NONE)
  /\ UNCHANGED <<pushed, bundled, failed>>

-----------------------------------------------------------------------------
(* The push *)

\* pushFinishingDelta: nothing to do without a location or a difference.
Check(j) ==
  /\ At(j, "check")
  /\ Become(j, IF location /\ job[j].target > pushed
               THEN [step |-> "load", target |-> job[j].target]
               ELSE NONE)
  /\ UNCHANGED <<status, location, pushed, bundled, failed>>

\* Mutant of Load: the running total is left out of what is read.
LoadWithoutTotal(j) ==
  /\ At(j, "load")
  /\ Become(j, IF location
               THEN [step |-> "build", target |-> job[j].target, seen |-> NONE]
               ELSE NONE)
  /\ UNCHANGED <<status, location, pushed, bundled, failed>>

\* applyInventoryAdjustments reads the order once, and works on that copy.
Load(j) ==
  /\ At(j, "load")
  /\ Become(j, IF location
               THEN [step |-> "build", target |-> job[j].target, seen |-> pushed]
               ELSE NONE)
  /\ UNCHANGED <<status, location, pushed, bundled, failed>>

\* Mutant of Build: the whole target is assembled, not the difference.
BuildWhole(j) ==
  /\ At(j, "build")
  /\ IF job[j].target > job[j].seen
     THEN /\ bundled' = bundled + job[j].target
          /\ Become(j, [job[j] EXCEPT !.step = "record"])
     ELSE Become(j, NONE) /\ UNCHANGED bundled
  /\ UNCHANGED <<status, location, pushed, failed>>

\* The items are resolved at Zoho and the difference is assembled.
Build(j) ==
  /\ At(j, "build")
  /\ IF job[j].target > job[j].seen
     THEN /\ bundled' = bundled + (job[j].target - job[j].seen)
          /\ Become(j, [job[j] EXCEPT !.step = "record"])
     ELSE Become(j, NONE) /\ UNCHANGED bundled
  /\ UNCHANGED <<status, location, pushed, failed>>

\* Mutant of Record: the running total is incremented by what was finished.
RecordSum(j) ==
  /\ At(j, "record")
  /\ pushed' = pushed + job[j].target
  /\ Become(j, NONE)
  /\ UNCHANGED <<status, location, bundled, failed>>

\* quantityPushedToZoho = alreadyPushed + deltaToPush, both of the copy read.
Record(j) ==
  /\ At(j, "record")
  /\ pushed' = job[j].seen + (job[j].target - job[j].seen)
  /\ Become(j, NONE)
  /\ UNCHANGED <<status, location, bundled, failed>>

Push(j) == CommitUpdate(j) \/ Check(j) \/ Load(j) \/ Build(j) \/ Record(j)

\* Zoho or the database refuses a step, or an answer is lost: the error is
\* logged and nothing tries again.
Fail(j) ==
  /\ ~Free(j)
  /\ Become(j, NONE)
  /\ failed' = TRUE
  /\ UNCHANGED <<status, location, pushed, bundled>>

\* The server restarts.
Crash ==
  /\ \E j \in Jobs : ~Free(j)
  /\ job' = [j \in Jobs |-> NONE]
  /\ failed' = TRUE
  /\ UNCHANGED <<status, location, pushed, bundled>>

-----------------------------------------------------------------------------

WithinBound == bundled <= MaxBundled

Reliable ==
  \E j \in Jobs :
    \/ \E quantity \in Finishes : WithinBound /\ SaveFinishing(j, quantity)
    \/ \E to \in Requested, locates \in BOOLEAN :
          (to # "PENDING" => WithinBound) /\ BeginUpdate(j, to, locates)
    \/ Push(j)

Next == Reliable \/ (\E j \in Jobs : Fail(j)) \/ Crash

\* Every job in flight goes on or fails: a promise whose database or Zoho call
\* has been answered is resumed by the event loop.
Fairness == \A j \in Jobs : WF_vars(Push(j))

\* Everything can fail.
Spec == Init /\ [][Next]_vars /\ Fairness

\* Nothing fails.
ReliableSpec == Init /\ [][Reliable]_vars /\ Fairness

-----------------------------------------------------------------------------
(* Properties *)

\* Whatever fails and however pushes overlap, the program never believes that
\* Zoho has units it was never given (quantityPushedToZoho).
NeverClaimsMore == pushed <= bundled

\* "Only pushes the difference between current quantityFinished and what was
\* previously pushed": Zoho never holds more than was finished.
OnlyTheDifference == \E target \in Targets \cup {0} : bundled <= target

\* "Running total of items pushed to Zoho Books": between pushes, the order's
\* total is Zoho's.
RunningTotal == (\A j \in Jobs : Free(j)) => pushed = bundled

\* Serial pushes implement the ledger.
Ledger == INSTANCE PushLedger WITH total <- bundled, recorded <- pushed,
                                   Targets <- Targets
LedgerSpec == Ledger!LedgerSpec

\* An order marked complete reaches Zoho in full, whichever of several racing
\* updates pushes it, unless a job was logged as failed or lost in a restart.
CompletionReachesZoho ==
  (status = "COMPLETE") ~> (bundled >= Quantity \/ failed)
=============================================================================
