-------------------------- MODULE MCTaskOperations --------------------------
(***************************************************************************)
(* Instances of TaskOperations for TLC: a cutting feeding one or two later *)
(* stages, a few tasks, and the changes the task dialogs send.             *)
(***************************************************************************)
EXTENDS TaskOperations, TLC

CONSTANTS t1, t2, t3, s1, s2

MCPackStages  == {"CUTTING", "PACKAGING"}
MCPaperStages == {"PAPER_SELECTION", "CUTTING"}

Nothing == [link |-> NULL, status |-> NULL, qty |-> NULL, items |-> NULL,
            cuts |-> NULL]
Sets(status)   == [Nothing EXCEPT !.status = status]
Records(n)     == [Nothing EXCEPT !.qty = n]
Links(o)       == [Nothing EXCEPT !.link = o]

\* One request at a time: every status, quantities, a planned cut, a task
\* finished with a quantity.
MCSerialChanges ==
  {Sets(st) : st \in Status \ {"PARTIALLY_COMPLETE", "NA"}}
    \cup {Records(2), [Nothing EXCEPT !.cuts = 1],
          [Sets("COMPLETE") EXCEPT !.qty = 1]}

\* What matters when two requests race.
MCRaceChanges == {Sets("PENDING"), Sets("COMPLETE"), Records(1)}

\* Paper selections and cuttings, linked to the task t1 or to none.
MCLinkChanges == {Sets("COMPLETE"), Links(t1), Records(1)}

Symmetric == Permutations(OpIds)
SlotSymmetric == Permutations(Slots)
OthersSymmetric == Permutations({t2, t3})     \* MCLinkChanges names t1
BothSymmetric == Symmetric \cup SlotSymmetric
=============================================================================
