----------------------------- MODULE PushLedger -----------------------------
(***************************************************************************)
(* What "only push the difference" promises for one production order: the  *)
(* total at Zoho only ever jumps up to a quantity that was finished, a new *)
(* push starts from the recorded total, and what was pushed is recorded    *)
(* before the next push.                                                   *)
(***************************************************************************)
EXTENDS Naturals

CONSTANT Targets   \* the quantities that may be finished, a set of naturals

VARIABLES total,     \* units assembled at Zoho
          recorded   \* units this program believes are there

LedgerInit == total = 0 /\ recorded = 0

Push == /\ recorded = total
        /\ \E target \in Targets : target > total /\ total' = target
        /\ UNCHANGED recorded

Record == /\ recorded' = total
          /\ UNCHANGED total

LedgerNext == Push \/ Record

LedgerSpec == LedgerInit /\ [][LedgerNext]_<<total, recorded>>
=============================================================================
