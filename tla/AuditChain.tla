----------------------------- MODULE AuditChain -----------------------------
(***************************************************************************)
(* The audit log: every entry stores the hash of the entry before it, and  *)
(* verifyChain walks the entries in the order of their createdAt.          *)
(*                                                                         *)
(* An entry is known by its place in the order of commits; its hash is     *)
(* unique to it, so a stored prevHash is modelled by the entry it hashes,  *)
(* and 0 is the hash 'genesis'.  A trigger of the database forbids to      *)
(* change or remove entries.                                               *)
(***************************************************************************)
EXTENDS Naturals, Sequences, SequencesExt

CONSTANTS
  Writers,    \* calls of log in flight at once
  Payloads,   \* the payloads logged: "whole" or "partial"
  Limit,      \* how many entries verifyChain takes
  MaxEntries, \* entries written (bounds the model)
  MaxClock,   \* the last millisecond (bounds the model)
  IDLE        \* no call

\* A payload is partial when a value in "changes" is undefined: the key is
\* hashed but not stored.
Entry == [prev : Nat, payload : Payloads, stamp : Nat]

ASSUME AuditChainAssumption ==
  /\ Payloads \subseteq {"whole", "partial"}
  /\ Limit \in Nat /\ MaxEntries \in Nat /\ MaxClock \in Nat
  /\ IDLE \notin Entry
  /\ IsFiniteSet(Writers)

VARIABLES
  log,     \* the table AuditLog, in the order of commits
  call,    \* the entry each call is writing; its stamp is 0 until it is inserted
  clock,   \* of the server, in milliseconds
  overlap  \* whether two calls were ever in flight together

vars == <<log, call, clock, overlap>>

TypeOK ==
  /\ log \in Seq(Entry)
  /\ call \in [Writers -> Entry \cup {IDLE}]
  /\ clock \in Nat \ {0}
  /\ overlap \in BOOLEAN

Init ==
  /\ log = <<>>
  /\ call = [w \in Writers |-> IDLE]
  /\ clock = 1
  /\ overlap = FALSE

Ids == 1 .. Len(log)

\* Mutant of Latest: the oldest entry is taken for the latest.
LatestIsOldest ==
  {i \in Ids : \A j \in Ids : log[i].stamp <= log[j].stamp}
    \cup {i \in {0} : log = <<>>}

\* Mutant of Latest: the first entry is given no hash instead of 'genesis'.
LatestWithoutGenesis ==
  {i \in Ids : \A j \in Ids : log[j].stamp <= log[i].stamp}
    \cup {i \in {IDLE} : log = <<>>}

\* What "the latest row" may be: entries of one millisecond are not ordered.
Latest == {i \in Ids : \A j \in Ids : log[j].stamp <= log[i].stamp}
            \cup {i \in {0} : log = <<>>}

-----------------------------------------------------------------------------

\* The transaction reads the hash of the latest entry and seals its own.
Begin(w, payload) ==
  /\ call[w] = IDLE
  /\ \E i \in Latest :
       call' = [call EXCEPT ![w] = [prev |-> i, payload |-> payload, stamp |-> 0]]
  /\ overlap' = (overlap \/ \E v \in Writers : call[v] # IDLE)
  /\ UNCHANGED <<log, clock>>

Inserting(w) == call[w] # IDLE /\ call[w].stamp = 0

\* Mutant of Insert: the entry is stamped with a time the caller supplies.
InsertBackdated(w) ==
  /\ Inserting(w)
  /\ \E t \in 1 .. clock :
       call' = [call EXCEPT ![w] = [@ EXCEPT !.stamp = t]]
  /\ UNCHANGED <<log, clock, overlap>>

\* It inserts the entry; createdAt is filled in when the insert is sent.
Insert(w) ==
  /\ Inserting(w)
  /\ call' = [call EXCEPT ![w] = [@ EXCEPT !.stamp = clock]]
  /\ UNCHANGED <<log, clock, overlap>>

\* It commits, and others see the entry.
Commit(w) ==
  /\ call[w] # IDLE /\ ~Inserting(w)
  /\ Len(log) < MaxEntries                           \* bound
  /\ log' = Append(log, call[w])
  /\ call' = [call EXCEPT ![w] = IDLE]
  /\ UNCHANGED <<clock, overlap>>

\* The write fails: "losing an audit gap is preferable to breaking the caller".
Lose(w) ==
  /\ call[w] # IDLE
  /\ call' = [call EXCEPT ![w] = IDLE]
  /\ UNCHANGED <<log, clock, overlap>>

Tick ==
  /\ clock < MaxClock
  /\ clock' = clock + 1
  /\ UNCHANGED <<log, call, overlap>>

Next ==
  \/ \E w \in Writers : \/ \E payload \in Payloads : Begin(w, payload)
                        \/ Insert(w) \/ Commit(w) \/ Lose(w)
  \/ Tick

Spec == Init /\ [][Next]_vars

-----------------------------------------------------------------------------
(* verifyChain *)

\* The orders in which the database may list the entries.
Listings ==
  {s \in [Ids -> Ids] :
     \A k, m \in Ids : k < m => /\ s[k] # s[m]
                                /\ log[s[k]].stamp <= log[s[m]].stamp}

\* Mutant of Accepts: every hash is recomputed from the prevHash its own row
\* stores, and no row is compared with the one before.
AcceptsOwnHash(s) ==
  \A k \in 1 .. Len(s) : k <= Limit => log[s[k]].payload = "whole"

\* The walk over a listing s finds no break: every prevHash is the hash of the
\* entry before, and every hash can be computed from what is stored.
Accepts(s) ==
  \A k \in 1 .. Len(s) : k <= Limit =>
    /\ log[s[k]].prev = IF k = 1 THEN 0 ELSE s[k - 1]
    /\ log[s[k]].payload = "whole"

-----------------------------------------------------------------------------
(* Properties *)

\* However calls overlap, the entries form a tree that grows from 'genesis':
\* an entry seals one that was committed before it and is not younger.  (Two
\* entries may be committed in another order than they were stamped.)
Rooted ==
  \A i \in Ids :
    /\ log[i].prev < i
    /\ log[i].prev # 0 => log[log[i].prev].stamp <= log[i].stamp

\* No two entries fall into the same millisecond.
Separate == \A i, j \in Ids : log[i].stamp = log[j].stamp => i = j

\* The log forks no wider than calls overlap: in separate milliseconds, no entry
\* is sealed by more entries than there are calls in flight.
ForksBounded ==
  Separate => \A i \in Ids \cup {0} :
    Cardinality({j \in Ids : log[j].prev = i}) <= Cardinality(Writers)

\* Calls that never overlapped have built a chain.
Serial == ~overlap /\ Separate
SerialLogIsLinear == Serial => \A i \in Ids : log[i].prev = i - 1

Whole == \A i \in Ids : log[i].payload = "whole"

\* What serial calls have written, verifyChain accepts.
SerialChainVerifies == (Serial /\ Whole) => \A s \in Listings : Accepts(s)

\* A removed entry is noticed, unless it is the last or beyond those taken:
\* verifyChain accepts no listing of a serial log that lacks an earlier one.
RemovalIsNoticed ==
  Serial => \A s \in Listings : \A k \in 1 .. Len(s) - 1 :
              k <= Limit => ~Accepts(RemoveAt(s, k))
=============================================================================
