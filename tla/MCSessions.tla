----------------------------- MODULE MCSessions -----------------------------
(***************************************************************************)
(* An instance of Sessions for TLC: every pair of kinds that is in each    *)
(* other's way is made by two of the calls.                                *)
(***************************************************************************)
EXTENDS Sessions

CONSTANTS b1, c1, c2, c3

MCKinds == [c \in Calls |->
              CASE c = c1 -> {"data", "login"}
                [] c = c2 -> {"data", "rotate", "wrongPassword", "home"}
                [] c = c3 -> {"data", "rotate", "login", "logout"}]
=============================================================================
