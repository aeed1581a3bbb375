-------------------------- MODULE MCZohoCatalogue --------------------------
(***************************************************************************)
(* An instance of ZohoCatalogue for TLC.  Zoho begins with one item that   *)
(* has no sku; the name of one item contains that of another.              *)
(***************************************************************************)
EXTENDS ZohoCatalogue, TLC

CONSTANTS i1, i2, i3, w1, w2, s1, v1, n1, n2, r1, r2, r3

MCContains == {<<n1, n1>>, <<n2, n2>>, <<v1, v1>>, <<n2, n1>>}

MCItem == [sku |-> NULL, name |-> n1, stock |-> 0]

\* Before the first sync, and after it.
MCInitial ==
  {[zoho |-> [i \in Ids |-> IF i = i1 THEN MCItem ELSE NULL],
    local |-> [w \in Rows |->
                IF w \in synced THEN AsRow(i1, MCItem) ELSE NULL]] :
     synced \in {{}} \cup {{w} : w \in Rows}}

MCNewItems == {[sku |-> s1, name |-> n2, stock |-> 1]}

\* A row is renamed, and counted anew.
MCChanges == {[sku |-> s1, name |-> NULL, stock |-> NULL],
              [sku |-> NULL, name |-> NULL, stock |-> 1]}

MCKinds == [r \in Requests |->
              CASE r = r1 -> {"create", "ensure", "search", "sync"}
                [] r = r2 -> {"update", "material", "ensure"}
                [] r = r3 -> {"delete", "bulkDelete", "material", "gap", "sync",
                              "refresh"}]

Symmetry == Permutations({i2, i3}) \cup Permutations(Rows)
=============================================================================
