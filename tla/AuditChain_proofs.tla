------------------------- MODULE AuditChain_proofs -------------------------
(***************************************************************************)
(* The audit log, for any number of writers, entries and milliseconds.     *)
(* Overlapping writers leave a tree rooted at 'genesis', that forks into   *)
(* no more branches than there are writers when milliseconds are not       *)
(* shared.  Writers that never overlapped either leave a chain, which      *)
(* verifies, and does not without one of its entries.                      *)
(***************************************************************************)
EXTENDS AuditChain, InductionLemmas, SequenceTheorems

\* Nothing is younger than the clock, a call holds the hash of an entry that
\* exists, and once inserted its own is not younger than that.
Grounded ==
  /\ \A i \in Ids : log[i].stamp <= clock
  /\ \A w \in Writers : call[w] # IDLE =>
       /\ call[w].prev <= Len(log)
       /\ call[w].stamp <= clock
       /\ (call[w].stamp # 0 /\ call[w].prev # 0)
            => log[call[w].prev].stamp <= call[w].stamp

IInv == TypeOK /\ Grounded /\ Rooted

LEMMA Stored ==
  ASSUME TypeOK
  PROVE  /\ Len(log) \in Nat
         /\ \A i \in Ids : /\ log[i] \in Entry
                           /\ log[i].prev \in Nat /\ log[i].stamp \in Nat
  <1>1. Len(log) \in Nat /\ \A i \in 1 .. Len(log) : log[i] \in Entry
    BY DEF TypeOK
  <1> QED
    BY <1>1 DEF Ids, Entry

LEMMA LatestExists == TypeOK => Latest \subseteq 0 .. Len(log)
  BY DEF TypeOK, Latest, Ids

\* What Commit does to the log, entry by entry.
LEMMA CommitLog ==
  ASSUME TypeOK, NEW w \in Writers, Commit(w)
  PROVE  /\ call[w] \in Entry
         /\ Len(log') = Len(log) + 1
         /\ log' \in Seq(Entry)
         /\ \A i \in Ids : log'[i] = log[i]
         /\ log'[Len(log) + 1] = call[w]
  <1>1. call[w] \in Entry
    BY DEF TypeOK, Commit
  <1>2. log' = Append(log, call[w]) /\ log \in Seq(Entry)
    BY DEF Commit, TypeOK
  <1> QED
    BY <1>1, <1>2 DEF Ids

-----------------------------------------------------------------------------

LEMMA InitInv == Init => IInv
  <1> SUFFICES ASSUME Init PROVE IInv
    OBVIOUS
  <1>1. /\ log = <<>> /\ Len(log) = 0 /\ Ids = {}
        /\ call = [w \in Writers |-> IDLE]
        /\ clock = 1 /\ overlap = FALSE
    BY DEF Init, Ids
  <1>2. log \in Seq(Entry)
    BY <1>1
  <1>3. call \in [Writers -> Entry \cup {IDLE}]
    BY <1>1
  <1>4. TypeOK
    <2>1. clock \in Nat \ {0}
      BY <1>1
    <2>2. overlap \in BOOLEAN
      BY <1>1
    <2> QED
      BY <1>2, <1>3, <2>1, <2>2 DEF TypeOK
  <1>5. Grounded /\ Rooted
    BY <1>1 DEF Grounded, Rooted
  <1> QED
    BY <1>4, <1>5 DEF IInv

LEMMA BeginInv ==
  ASSUME IInv, NEW w \in Writers, NEW payload \in Payloads, Begin(w, payload)
  PROVE  IInv'
  <1>1. PICK i \in Latest :
          call' = [call EXCEPT ![w] =
                     [prev |-> i, payload |-> payload, stamp |-> 0]]
    BY DEF Begin
  <1>2. i \in 0 .. Len(log) /\ Len(log) \in Nat
    BY LatestExists, Stored DEF IInv
  <1>3. log' = log /\ clock' = clock
    BY DEF Begin
  <1>4. [prev |-> i, payload |-> payload, stamp |-> 0] \in Entry
    BY <1>2 DEF Entry
  <1>5. TypeOK'
    <2>1. overlap' \in BOOLEAN
      BY DEF Begin
    <2> QED
      BY <1>1, <1>3, <1>4, <2>1 DEF IInv, TypeOK
  <1>6. Grounded'
    BY <1>1, <1>2, <1>3 DEF IInv, TypeOK, Grounded, Ids
  <1>7. Rooted'
    BY <1>3 DEF IInv, Rooted, Ids
  <1> QED
    BY <1>5, <1>6, <1>7 DEF IInv

LEMMA InsertInv ==
  ASSUME IInv, NEW w \in Writers, Insert(w)
  PROVE  IInv'
  <1>1. call' = [call EXCEPT ![w] = [call[w] EXCEPT !.stamp = clock]]
    BY DEF Insert
  <1>2. log' = log /\ clock' = clock /\ call[w] # IDLE
    BY DEF Insert, Inserting
  <1>3. call[w] \in Entry /\ call[w].prev <= Len(log)
    BY <1>2 DEF IInv, TypeOK, Grounded
  <1>4. [call[w] EXCEPT !.stamp = clock] \in Entry
    BY <1>3 DEF IInv, TypeOK, Entry
  <1>5. TypeOK'
    <2>1. overlap' \in BOOLEAN
      BY DEF Insert, IInv, TypeOK
    <2> QED
      BY <1>1, <1>2, <1>4, <2>1 DEF IInv, TypeOK
  <1>6. Grounded'
    <2> SUFFICES ASSUME NEW v \in Writers, call'[v] # IDLE
                 PROVE  /\ call'[v].prev <= Len(log)
                        /\ call'[v].stamp <= clock
                        /\ (call'[v].stamp # 0 /\ call'[v].prev # 0)
                             => log[call'[v].prev].stamp <= call'[v].stamp
      BY <1>2 DEF IInv, Grounded, Ids
    <2>1. CASE v # w
      BY <1>1, <2>1 DEF IInv, TypeOK, Grounded
    <2>2. CASE v = w
      <3>1. call'[v].prev = call[w].prev /\ call'[v].stamp = clock
        BY <1>1, <1>3, <2>2 DEF IInv, TypeOK, Entry
      <3>2. call[w].prev # 0 => call[w].prev \in Ids
        BY <1>3, Stored DEF IInv, Entry, Ids
      <3> QED
        BY <1>3, <3>1, <3>2 DEF IInv, TypeOK, Grounded
    <2> QED
      BY <2>1, <2>2
  <1>7. Rooted'
    BY <1>2 DEF IInv, Rooted, Ids
  <1> QED
    BY <1>5, <1>6, <1>7 DEF IInv

LEMMA CommitInv ==
  ASSUME IInv, NEW w \in Writers, Commit(w)
  PROVE  IInv'
  <1> DEFINE n == Len(log) + 1
  <1>1. /\ call[w] \in Entry
        /\ Len(log') = n
        /\ log' \in Seq(Entry)
        /\ \A i \in Ids : log'[i] = log[i]
        /\ log'[n] = call[w]
    BY CommitLog DEF IInv
  <1>2. clock' = clock /\ call' = [call EXCEPT ![w] = IDLE]
    BY DEF Commit
  <1>3. /\ Len(log) \in Nat /\ clock \in Nat
        /\ \A i \in Ids : log[i] \in Entry
    BY Stored DEF IInv, TypeOK
  <1>4. Ids' = Ids \cup {n} /\ \A i \in Ids : i \in 1 .. n - 1
    BY <1>1, <1>3 DEF Ids
  <1>5. /\ call[w].prev \in Nat /\ call[w].prev <= Len(log)
        /\ call[w].stamp \in Nat /\ call[w].stamp <= clock
        /\ call[w].prev # 0 => /\ call[w].prev \in Ids
                               /\ log[call[w].prev].stamp <= call[w].stamp
    BY <1>1, <1>3 DEF Commit, Inserting, IInv, Grounded, Entry, Ids
  <1>6. TypeOK'
    <2>1. overlap' \in BOOLEAN
      BY DEF Commit, IInv, TypeOK
    <2> QED
      BY <1>1, <1>2, <2>1 DEF IInv, TypeOK
  <1>7. Grounded'
    <2>1. ASSUME NEW i \in Ids' PROVE log'[i].stamp <= clock'
      BY <1>1, <1>2, <1>3, <1>4, <1>5 DEF IInv, Grounded
    <2>2. ASSUME NEW v \in Writers, call'[v] # IDLE
          PROVE  /\ call'[v].prev <= Len(log')
                 /\ call'[v].stamp <= clock'
                 /\ (call'[v].stamp # 0 /\ call'[v].prev # 0)
                      => log'[call'[v].prev].stamp <= call'[v].stamp
      <3>1. v # w /\ call'[v] = call[v] /\ call[v] \in Entry
        BY <1>2, <2>2 DEF IInv, TypeOK
      <3>2. /\ call[v].prev \in Nat /\ call[v].prev <= Len(log)
            /\ call[v].stamp <= clock
            /\ (call[v].stamp # 0 /\ call[v].prev # 0)
                 => log[call[v].prev].stamp <= call[v].stamp
        BY <2>2, <3>1 DEF IInv, Grounded, Entry
      <3>3. call[v].prev # 0 => call[v].prev \in Ids
        BY <1>3, <3>2 DEF Ids
      <3> QED
        BY <1>1, <1>2, <1>3, <3>1, <3>2, <3>3
    <2> QED
      BY <2>1, <2>2 DEF Grounded
  <1>8. Rooted'
    <2> SUFFICES ASSUME NEW i \in Ids'
                 PROVE  /\ log'[i].prev < i
                        /\ log'[i].prev # 0
                             => log'[log'[i].prev].stamp <= log'[i].stamp
      BY DEF Rooted
    <2>1. CASE i = n
      BY <1>1, <1>3, <1>5, <2>1
    <2>2. CASE i \in Ids
      <3>1. log'[i] = log[i] /\ log[i].prev \in Nat /\ log[i].prev < i
        BY <1>1, <1>3, <2>2 DEF IInv, Rooted, Entry
      <3>2. log[i].prev # 0 => log[i].prev \in Ids
        BY <1>3, <2>2, <3>1 DEF Ids
      <3> QED
        BY <1>1, <2>2, <3>1, <3>2 DEF IInv, Rooted
    <2> QED
      BY <1>4, <2>1, <2>2
  <1> QED
    BY <1>6, <1>7, <1>8 DEF IInv

\* The invariant is kept by every step.
LEMMA NextInv == IInv /\ [Next]_vars => IInv'
  <1> SUFFICES ASSUME IInv, [Next]_vars PROVE IInv'
    OBVIOUS
  <1>1. CASE \E w \in Writers, payload \in Payloads : Begin(w, payload)
    BY <1>1, BeginInv
  <1>2. CASE \E w \in Writers : Insert(w)
    BY <1>2, InsertInv
  <1>3. CASE \E w \in Writers : Commit(w)
    BY <1>3, CommitInv
  <1>4. CASE \E w \in Writers : Lose(w)
    BY <1>4 DEF Lose, IInv, TypeOK, Grounded, Rooted, Ids
  <1>5. CASE Tick
    <2>1. log' = log /\ call' = call /\ clock' = clock + 1
      BY <1>5 DEF Tick
    <2>2. /\ clock \in Nat
          /\ \A i \in Ids : log[i].stamp \in Nat
          /\ \A w \in Writers : call[w] # IDLE => call[w].stamp \in Nat
      BY Stored DEF IInv, TypeOK, Entry
    <2>3. TypeOK'
      <3>1. overlap' \in BOOLEAN
        BY <1>5 DEF Tick, IInv, TypeOK
      <3> QED
        BY <2>1, <2>2, <3>1 DEF IInv, TypeOK
    <2>4. Grounded'
      BY <2>1, <2>2 DEF IInv, Grounded, Ids
    <2>5. Rooted'
      BY <2>1 DEF IInv, Rooted, Ids
    <2> QED
      BY <2>3, <2>4, <2>5 DEF IInv
  <1>6. CASE UNCHANGED vars
    BY <1>6 DEF vars, IInv, TypeOK, Grounded, Rooted, Ids
  <1> QED
    BY <1>1, <1>2, <1>4, <1>5, <1>6, <1>3 DEF Next

\* The table and what the calls have read stay well formed.
THEOREM TypeCorrect == Spec => []TypeOK
  <1>1. IInv => TypeOK
    BY DEF IInv
  <1> QED
    BY InitInv, NextInv, <1>1, PTL DEF Spec

\* However calls of log overlap, an entry seals one committed before it that
\* is not younger: the log is a tree that grows from 'genesis'.
THEOREM GrowsFromGenesis == Spec => []Rooted
  <1>1. IInv => Rooted
    BY DEF IInv
  <1> QED
    BY InitInv, NextInv, <1>1, PTL DEF Spec

-----------------------------------------------------------------------------
(* Calls that never overlapped *)

\* As long as calls do not overlap, entries are committed in the order of their
\* stamps; in separate milliseconds they form a chain and a call in flight holds
\* its end.
InOrder ==
  /\ \A v, w \in Writers : call[v] # IDLE /\ call[w] # IDLE => v = w
  /\ \A i, j \in Ids : i < j => log[i].stamp <= log[j].stamp
  /\ \A w \in Writers : (call[w] # IDLE /\ call[w].stamp # 0) =>
       \A i \in Ids : log[i].stamp <= call[w].stamp

Chained ==
  /\ \A i \in Ids : log[i].prev = i - 1
  /\ \A w \in Writers : call[w] # IDLE => call[w].prev = Len(log)

SerialInv == IInv /\ (~overlap => InOrder /\ (Separate => Chained))

LEMMA LatestIsLast ==
  ASSUME IInv, InOrder, Separate
  PROVE  \A i \in Latest : i = Len(log)
  <1> SUFFICES ASSUME NEW i \in Latest PROVE i = Len(log)
    OBVIOUS
  <1>1. /\ Len(log) \in Nat
        /\ \A j \in Ids : log[j].stamp \in Nat
    BY Stored DEF IInv
  <1>2. CASE i = 0 /\ log = <<>>
    BY <1>2
  <1>3. CASE i \in Ids /\ \A j \in Ids : log[j].stamp <= log[i].stamp
    <2>1. Len(log) \in Ids /\ i \in Nat /\ i <= Len(log)
      BY <1>1, <1>3 DEF Ids
    <2>2. i < Len(log) => log[i].stamp = log[Len(log)].stamp
      BY <1>1, <1>3, <2>1 DEF InOrder
    <2>3. ~(i < Len(log))
      BY <1>1, <1>3, <2>1, <2>2 DEF Separate
    <2> QED
      BY <1>1, <2>1, <2>3
  <1> QED
    BY <1>2, <1>3 DEF Latest

LEMMA SerialInit == Init => SerialInv
  <1> SUFFICES ASSUME Init PROVE SerialInv
    OBVIOUS
  <1>1. IInv
    BY InitInv
  <1>2. Ids = {}
    BY DEF Init, Ids
  <1>3. \A w \in Writers : call[w] = IDLE
    BY DEF Init
  <1> QED
    BY <1>1, <1>2, <1>3 DEF SerialInv, InOrder, Chained

LEMMA BeginSerial ==
  ASSUME SerialInv, NEW w \in Writers, NEW payload \in Payloads,
         Begin(w, payload), ~overlap'
  PROVE  InOrder' /\ (Separate' => Chained')
  <1>1. PICK i \in Latest :
          call' = [call EXCEPT ![w] =
                     [prev |-> i, payload |-> payload, stamp |-> 0]]
    BY DEF Begin
  <1>2. log' = log /\ ~overlap /\ \A v \in Writers : call[v] = IDLE
    BY DEF Begin
  <1>3. \A v \in Writers : call'[v] # IDLE =>
          v = w /\ call'[v].prev = i /\ call'[v].stamp = 0
    BY <1>1, <1>2 DEF SerialInv, IInv, TypeOK
  <1>4. InOrder'
    BY <1>2, <1>3 DEF SerialInv, InOrder, Ids
  <1>5. Separate' => Chained'
    <2> SUFFICES ASSUME Separate PROVE Chained'
      BY <1>2 DEF Separate, Ids
    <2>1. i = Len(log)
      BY <1>2, LatestIsLast DEF SerialInv
    <2> QED
      BY <1>2, <1>3, <2>1 DEF SerialInv, Chained, Ids
  <1> QED
    BY <1>4, <1>5

LEMMA InsertSerial ==
  ASSUME SerialInv, NEW w \in Writers, Insert(w), ~overlap'
  PROVE  InOrder' /\ (Separate' => Chained')
  <1>1. call' = [call EXCEPT ![w] = [call[w] EXCEPT !.stamp = clock]]
    BY DEF Insert
  <1>2. log' = log /\ ~overlap /\ call[w] # IDLE /\ call[w] \in Entry
    BY DEF Insert, Inserting, SerialInv, IInv, TypeOK
  <1>3. call'[w].prev = call[w].prev /\ call'[w].stamp = clock
    BY <1>1, <1>2 DEF SerialInv, IInv, TypeOK, Entry
  <1>4. \A v \in Writers \ {w} : call'[v] = call[v] /\ call[v] = IDLE
    BY <1>1, <1>2 DEF SerialInv, IInv, TypeOK, InOrder
  <1>5. \A k \in Ids : log[k].stamp <= clock
    BY DEF SerialInv, IInv, Grounded
  <1>6. InOrder'
    BY <1>2, <1>3, <1>4, <1>5 DEF SerialInv, InOrder, Ids
  <1>7. Separate' => Chained'
    BY <1>2, <1>3, <1>4 DEF SerialInv, Chained, Separate, Ids
  <1> QED
    BY <1>6, <1>7

LEMMA CommitSerial ==
  ASSUME SerialInv, NEW w \in Writers, Commit(w), ~overlap'
  PROVE  InOrder' /\ (Separate' => Chained')
  <1>1. TypeOK /\ Len(log) \in Nat /\ \A i \in Ids : log[i].stamp \in Nat
    BY Stored DEF SerialInv, IInv
  <1> DEFINE n == Len(log) + 1
  <1>2. /\ Len(log') = n
        /\ \A i \in Ids : log'[i] = log[i]
        /\ log'[n] = call[w]
    BY <1>1, CommitLog
  <1>3. ~overlap /\ call[w] # IDLE /\ call[w].stamp # 0
    BY DEF Commit, Inserting
  <1>4. Ids' = Ids \cup {n} /\ \A i \in Ids : i < n /\ i \in Nat
    BY <1>1, <1>2 DEF Ids
  <1>5. \A i \in Ids : log[i].stamp <= call[w].stamp
    BY <1>3 DEF SerialInv, InOrder
  <1>6. \A v \in Writers : call'[v] = IDLE
    BY <1>1, <1>3 DEF Commit, TypeOK, SerialInv, InOrder
  <1>7. InOrder'
    BY <1>1, <1>2, <1>3, <1>4, <1>5, <1>6 DEF SerialInv, InOrder
  <1>8. Separate' => Chained'
    <2> SUFFICES ASSUME Separate' PROVE Chained'
      OBVIOUS
    <2>1. Separate
      BY <1>2, <1>4 DEF Separate
    <2>2. call[w].prev = Len(log) /\ \A i \in Ids : log[i].prev = i - 1
      BY <1>3, <2>1 DEF SerialInv, Chained
    <2> QED
      BY <1>1, <1>2, <1>4, <1>6, <2>2 DEF Chained
  <1> QED
    BY <1>7, <1>8

LEMMA SerialNext == SerialInv /\ [Next]_vars => SerialInv'
  <1> SUFFICES ASSUME SerialInv, [Next]_vars, ~overlap'
               PROVE  InOrder' /\ (Separate' => Chained')
    BY NextInv DEF SerialInv
  <1>1. CASE \E w \in Writers, payload \in Payloads : Begin(w, payload)
    BY <1>1, BeginSerial
  <1>2. CASE \E w \in Writers : Insert(w)
    BY <1>2, InsertSerial
  <1>3. CASE \E w \in Writers : Commit(w)
    BY <1>3, CommitSerial
  <1>4. CASE \E w \in Writers : Lose(w)
    <2>1. log' = log /\ ~overlap
      BY <1>4 DEF Lose
    <2>2. \A v \in Writers : call'[v] = IDLE \/ call'[v] = call[v]
      BY <1>4 DEF Lose, SerialInv, IInv, TypeOK
    <2> QED
      BY <2>1, <2>2 DEF SerialInv, InOrder, Chained, Separate, Ids
  <1>5. CASE Tick
    BY <1>5 DEF Tick, SerialInv, InOrder, Chained, Separate, Ids
  <1>6. CASE UNCHANGED vars
    BY <1>6 DEF vars, SerialInv, InOrder, Chained, Separate, Ids
  <1> QED
    BY <1>1, <1>2, <1>3, <1>4, <1>5, <1>6 DEF Next

\* As long as calls of log have not overlapped and no two entries share a
\* millisecond, every entry seals the one committed before it.
THEOREM SerialLogIsChain == Spec => []SerialLogIsLinear
  <1>1. SerialInv => SerialLogIsLinear
    BY DEF SerialInv, SerialLogIsLinear, Serial, Chained
  <1> QED
    BY SerialInit, SerialNext, <1>1, PTL DEF Spec

-----------------------------------------------------------------------------
(* What verifyChain makes of a serial log *)

\* While stamps differ, entries of a serial log have been stamped in the order
\* of their commits.
StampsRise == \A i, j \in Ids : i < j => log[i].stamp < log[j].stamp

LEMMA SerialStampsRise ==
  ASSUME SerialInv, Serial
  PROVE  StampsRise
  <1>1. \A i \in Ids : i \in Nat /\ log[i].stamp \in Nat
    BY Stored DEF SerialInv, IInv, Ids
  <1>2. \A i, j \in Ids : i < j => log[i].stamp <= log[j].stamp
    BY DEF SerialInv, InOrder, Serial
  <1>3. \A i, j \in Ids : i < j => log[i].stamp # log[j].stamp
    BY <1>1 DEF Serial, Separate
  <1> QED
    BY <1>1, <1>2, <1>3 DEF StampsRise

\* The database can list such a log in one order only.
LEMMA OneListing ==
  ASSUME TypeOK, StampsRise, NEW s \in Listings
  PROVE  /\ \A k \in Ids : s[k] = k
         /\ s \in [Ids -> Ids] /\ Len(s) = Len(log)
  <1> DEFINE n == Len(log)
  <1>1. /\ n \in Nat /\ Ids = 1 .. n
        /\ \A i \in Ids : log[i].stamp \in Nat
    BY Stored DEF Ids
  <1>2. /\ s \in [Ids -> Ids]
        /\ \A k, m \in Ids : k < m => /\ s[k] # s[m]
                                      /\ log[s[k]].stamp <= log[s[m]].stamp
    BY DEF Listings
  <1> HIDE DEF n
  <1>3. \A k, m \in Ids : k < m => s[k] < s[m]
    <2> SUFFICES ASSUME NEW k \in Ids, NEW m \in Ids, k < m PROVE s[k] < s[m]
      OBVIOUS
    <2>1. s[k] \in Ids /\ s[m] \in Ids /\ s[k] # s[m]
      BY <1>2
    <2>2. ~ (s[m] < s[k])
      <3>1. /\ log[s[k]].stamp \in Nat /\ log[s[m]].stamp \in Nat
            /\ log[s[k]].stamp <= log[s[m]].stamp
        BY <1>1, <1>2, <2>1
      <3>2. s[m] < s[k] => log[s[m]].stamp < log[s[k]].stamp
        BY <2>1 DEF StampsRise
      <3> QED
        BY <3>1, <3>2
    <2> QED
      BY <1>1, <2>1, <2>2
  <1>4. \A k \in Ids : s[k] >= k
    <2> DEFINE low == {k \in Ids : s[k] < k}
    <2> SUFFICES ASSUME low # {} PROVE FALSE
      BY <1>1, <1>2
    <2>1. low \in SUBSET Nat
      BY <1>1
    <2>2. PICK k \in low : \A m \in low : k <= m
      BY <2>1, LeastElement
    <2>3. k \in Ids /\ s[k] \in Ids /\ s[k] < k
      BY <1>2
    <2>4. k - 1 \in Ids /\ k - 1 < k
      BY <1>1, <2>3
    <2>5. k - 1 \notin low
      BY <1>1, <2>2, <2>4
    <2>6. s[k - 1] < s[k] /\ s[k - 1] \in Ids
      BY <1>2, <1>3, <2>3, <2>4
    <2> QED
      BY <1>1, <2>3, <2>4, <2>5, <2>6
  <1>5. \A k \in Ids : s[k] <= k
    <2> DEFINE high == {k \in Ids : s[k] > k}
               gaps == {n - k : k \in high}
    <2> SUFFICES ASSUME high # {} PROVE FALSE
      BY <1>1, <1>2
    <2>1. gaps \in SUBSET Nat /\ gaps # {}
      BY <1>1
    <2>2. PICK g \in gaps : \A h \in gaps : g <= h
      BY <2>1, LeastElement
    <2>3. PICK k \in high : g = n - k
      OBVIOUS
    <2>4. k \in Ids /\ s[k] \in Ids /\ s[k] > k
      BY <1>2
    <2>5. k + 1 \in Ids /\ k < k + 1
      BY <1>1, <2>4
    <2>6. k + 1 \notin high
      <3>1. ~ (n - k <= n - (k + 1))
        BY <1>1, <2>4
      <3> QED
        BY <2>2, <2>3, <3>1
    <2>7. s[k] < s[k + 1] /\ s[k + 1] \in Ids
      BY <1>2, <1>3, <2>4, <2>5
    <2> QED
      BY <1>1, <2>4, <2>5, <2>6, <2>7
  <1>6. \A k \in Ids : s[k] = k
    BY <1>1, <1>2, <1>4, <1>5
  <1>7. Len(s) = Len(log)
    BY <1>1, <1>2 DEF n
  <1> QED
    BY <1>2, <1>6, <1>7

\* Serial calls leave a log that verifyChain accepts, in whatever order the
\* database may list it.
THEOREM SerialLogVerifies == Spec => []SerialChainVerifies
  <1>1. SerialInv => SerialChainVerifies
    <2> SUFFICES ASSUME SerialInv, Serial, Whole, NEW s \in Listings,
                        NEW k \in 1 .. Len(s), k <= Limit
                 PROVE  /\ log[s[k]].prev = IF k = 1 THEN 0 ELSE s[k - 1]
                        /\ log[s[k]].payload = "whole"
      BY DEF SerialChainVerifies, Accepts
    <2>1. TypeOK /\ Len(log) \in Nat /\ \A i \in Ids : log[i].prev = i - 1
      BY Stored DEF SerialInv, IInv, Serial, Chained
    <2>2. /\ \A i \in Ids : s[i] = i
          /\ Len(s) = Len(log)
      BY <2>1, OneListing, SerialStampsRise
    <2>3. k \in Ids /\ k \in Nat /\ (k # 1 => k - 1 \in Ids)
      BY <2>1, <2>2 DEF Ids
    <2> QED
      BY <2>1, <2>2, <2>3 DEF Whole
  <1> QED
    BY SerialInit, SerialNext, <1>1, PTL DEF Spec

\* A row that is removed from a serial log, other than the last, shows in the
\* walk of verifyChain as long as the walk reaches its place.
THEOREM RemovalShows == Spec => []RemovalIsNoticed
  <1>1. SerialInv => RemovalIsNoticed
    <2> SUFFICES ASSUME SerialInv, Serial, NEW s \in Listings,
                        NEW k \in 1 .. Len(s) - 1, k <= Limit,
                        Accepts(RemoveAt(s, k))
                 PROVE  FALSE
      BY DEF RemovalIsNoticed
    <2>1. TypeOK /\ Len(log) \in Nat /\ \A i \in Ids : log[i].prev = i - 1
      BY Stored DEF SerialInv, IInv, Serial, Chained
    <2>2. /\ \A i \in Ids : s[i] = i
          /\ s \in [Ids -> Ids] /\ Len(s) = Len(log)
      BY <2>1, OneListing, SerialStampsRise
    <2>3. s \in Seq(Ids) /\ Ids = 1 .. Len(s)
      BY <2>1, <2>2 DEF Ids
    <2> DEFINE t == RemoveAt(s, k)
    <2>4. /\ Len(t) = Len(s) - 1
          /\ t[k] = s[k + 1]
          /\ k > 1 => t[k - 1] = s[k - 1]
      <3> DEFINE a == SubSeq(s, 1, k - 1)
                 b == SubSeq(s, k + 1, Len(s))
      <3>1. /\ Len(s) \in Nat /\ k \in 1 .. Len(s) - 1
            /\ s \in Seq(Ids)
        BY <2>1, <2>2, <2>3
      <3>2. /\ a \in Seq(Ids) /\ Len(a) = k - 1
            /\ \A i \in 1 .. k - 1 : a[i] = s[i]
        BY <3>1
      <3>3. /\ b \in Seq(Ids) /\ Len(b) = Len(s) - k /\ b[1] = s[k + 1]
        BY <3>1
      <3> HIDE DEF a, b
      <3>4. /\ Len(a \o b) = Len(a) + Len(b)
            /\ \A i \in 1 .. Len(a) : (a \o b)[i] = a[i]
            /\ (a \o b)[Len(a) + 1] = b[1]
        <4>1. /\ Len(a \o b) = Len(a) + Len(b)
              /\ \A i \in 1 .. Len(a) + Len(b) :
                   (a \o b)[i] = IF i <= Len(a) THEN a[i] ELSE b[i - Len(a)]
          BY <3>2, <3>3, ConcatProperties
        <4>2. /\ Len(a) \in Nat /\ Len(a) + 1 \in 1 .. Len(a) + Len(b)
              /\ \A i \in 1 .. Len(a) : i \in 1 .. Len(a) + Len(b) /\ i <= Len(a)
              /\ ~ (Len(a) + 1 <= Len(a)) /\ (Len(a) + 1) - Len(a) = 1
          BY <3>1, <3>2, <3>3
        <4> QED
          BY <4>1, <4>2
      <3>5. t = a \o b
        BY DEF RemoveAt, a, b
      <3>6. Len(a \o b) = Len(s) - 1 /\ (a \o b)[k] = s[k + 1]
        <4>1. Len(a) + 1 = k /\ Len(a) + Len(b) = Len(s) - 1
          BY <3>1, <3>2, <3>3
        <4> QED
          BY <3>3, <3>4, <4>1
      <3>7. k > 1 => (a \o b)[k - 1] = s[k - 1]
        <4>1. k > 1 => k - 1 \in 1 .. k - 1
          BY <3>1
        <4> QED
          BY <3>2, <3>4, <4>1
      <3> HIDE DEF t
      <3> QED
        BY <3>5, <3>6, <3>7
    <2>5. /\ k \in 1 .. Len(t) /\ k \in Nat /\ k + 1 \in Ids
          /\ k > 1 => k - 1 \in Ids
      BY <2>1, <2>2, <2>3, <2>4
    <2>6. t[k] = k + 1 /\ log[k + 1].prev = k
      BY <2>1, <2>2, <2>4, <2>5
    <2>7. log[t[k]].prev = IF k = 1 THEN 0 ELSE t[k - 1]
      BY <2>5 DEF Accepts
    <2>8. k > 1 => t[k - 1] = k - 1
      BY <2>2, <2>4, <2>5
    <2> HIDE DEF t
    <2> QED
      BY <2>5, <2>6, <2>7, <2>8
  <1> QED
    BY SerialInit, SerialNext, <1>1, PTL DEF Spec

-----------------------------------------------------------------------------
(* Calls that overlap *)

\* The entries that seal entry i, and the calls that are about to.
Children(i) == {j \in Ids : log[j].prev = i}
Holders(i)  == {w \in Writers : call[w] # IDLE /\ call[w].prev = i}

\* In separate milliseconds an entry that is sealed is no longer the latest, so
\* all that ever seal it were in flight when the first of them committed.
Bounded ==
  Separate => \A i \in Ids \cup {0} :
    Cardinality(Children(i)) + Cardinality(Holders(i)) <= Cardinality(Writers)

LEMMA Finite ==
  ASSUME TypeOK, NEW i
  PROVE  /\ IsFiniteSet(Children(i)) /\ IsFiniteSet(Holders(i))
         /\ Cardinality(Children(i)) \in Nat /\ Cardinality(Holders(i)) \in Nat
         /\ Cardinality(Writers) \in Nat
         /\ Cardinality(Holders(i)) <= Cardinality(Writers)
  <1>1. IsFiniteSet(Writers) /\ IsFiniteSet(Ids)
    BY Stored, AuditChainAssumption, FS_Interval DEF Ids
  <1>2. Children(i) \subseteq Ids /\ Holders(i) \subseteq Writers
    BY DEF Children, Holders
  <1> QED
    BY <1>1, <1>2, FS_Subset, FS_CardinalityType

\* An entry that may be read as the latest is not sealed yet.
LEMMA LatestIsUnsealed ==
  ASSUME IInv, Separate, NEW i \in Latest
  PROVE  Children(i) = {}
  <1> SUFFICES ASSUME NEW j \in Ids, log[j].prev = i PROVE FALSE
    BY DEF Children
  <1>1. /\ Len(log) \in Nat /\ Ids = 1 .. Len(log)
        /\ \A k \in Ids : log[k].prev \in Nat /\ log[k].stamp \in Nat
    BY Stored DEF IInv, Ids
  <1>2. i < j /\ (i # 0 => log[i].stamp <= log[j].stamp)
    BY DEF IInv, Rooted
  <1>3. CASE i \in Ids /\ \A k \in Ids : log[k].stamp <= log[i].stamp
    <2>1. i # 0 /\ i # j
      BY <1>1, <1>2, <1>3
    <2>2. log[i].stamp = log[j].stamp
      BY <1>1, <1>2, <1>3, <2>1
    <2> QED
      BY <1>3, <2>1, <2>2 DEF Separate
  <1>4. CASE i = 0 /\ log = <<>>
    BY <1>1, <1>4
  <1> QED
    BY <1>3, <1>4 DEF Latest

LEMMA BeginBounded ==
  ASSUME IInv, Bounded, NEW w \in Writers, NEW payload \in Payloads,
         Begin(w, payload), IInv'
  PROVE  Bounded'
  <1>1. PICK i \in Latest :
          call' = [call EXCEPT ![w] =
                     [prev |-> i, payload |-> payload, stamp |-> 0]]
    BY DEF Begin
  <1>2. log' = log /\ call[w] = IDLE /\ call \in [Writers -> Entry \cup {IDLE}]
    BY DEF Begin, IInv, TypeOK
  <1> SUFFICES ASSUME Separate, NEW x \in Ids \cup {0}
               PROVE  Cardinality(Children(x)) + Cardinality(Holders(x)')
                        <= Cardinality(Writers)
    BY <1>2 DEF Bounded, Separate, Children, Ids
  <1>3. CASE x = i
    <2>1. Cardinality(Children(x)) = 0
      BY <1>3, LatestIsUnsealed, FS_EmptySet
    <2>2. /\ Cardinality(Holders(x)') <= Cardinality(Writers)
          /\ Cardinality(Holders(x)') \in Nat
      <3>1. Holders(x)' \subseteq Writers /\ IsFiniteSet(Writers)
        BY AuditChainAssumption DEF Holders
      <3> QED
        BY <3>1, FS_Subset, FS_CardinalityType
    <2> QED
      BY <2>1, <2>2
  <1>4. CASE x # i
    <2>1. Holders(x)' = Holders(x)
      <3>1. call'[w].prev = i /\ \A v \in Writers \ {w} : call'[v] = call[v]
        BY <1>1, <1>2
      <3> QED
        BY <1>2, <1>4, <3>1 DEF Holders
    <2> QED
      BY <2>1 DEF Bounded
  <1> QED
    BY <1>3, <1>4

LEMMA CommitBounded ==
  ASSUME IInv, Bounded, NEW w \in Writers, Commit(w)
  PROVE  Bounded'
  <1> DEFINE n == Len(log) + 1
             i == call[w].prev
  <1>1. /\ Len(log') = n
        /\ \A k \in Ids : log'[k] = log[k]
        /\ log'[n] = call[w]
        /\ call[w] \in Entry
    BY CommitLog DEF IInv
  <1>2. /\ call' = [call EXCEPT ![w] = IDLE] /\ call[w] # IDLE
        /\ call \in [Writers -> Entry \cup {IDLE}] /\ TypeOK
    BY DEF Commit, IInv, TypeOK
  <1>3. Len(log) \in Nat
    BY Stored DEF IInv
  <1>4. Ids' = Ids \cup {n} /\ n \notin Ids /\ 0 \notin Ids /\ n # 0
        /\ Ids = 1 .. Len(log)
    BY <1>1, <1>3 DEF Ids
  <1>5. \A k \in Ids' : Children(k)' = IF k = i THEN Children(k) \cup {n} ELSE Children(k)
    BY <1>1, <1>4 DEF Children
  <1>6. Children(0)' = IF 0 = i THEN Children(0) \cup {n} ELSE Children(0)
    BY <1>1, <1>4 DEF Children
  <1>7. \A k : Holders(k)' = IF k = i THEN Holders(k) \ {w} ELSE Holders(k)
    <2>1. call'[w] = IDLE /\ \A v \in Writers \ {w} : call'[v] = call[v]
      BY <1>2
    <2> QED
      BY <2>1 DEF Holders
  <1>8. i \in Nat /\ i <= Len(log)
    BY <1>1, <1>2 DEF IInv, Grounded, Entry
  <1> SUFFICES ASSUME Separate', NEW x \in Ids' \cup {0}
               PROVE  Cardinality(Children(x)') + Cardinality(Holders(x)')
                        <= Cardinality(Writers)
    BY DEF Bounded
  <1>9. Separate
    BY <1>1, <1>4 DEF Separate
  <1>10. CASE x = n
    <2>1. Children(x) = {} /\ Holders(x) = {}
      <3>1. \A k \in Ids : log[k].prev < k /\ log[k].prev \in Nat
        BY Stored DEF IInv, Rooted
      <3>2. \A v \in Writers : call[v] # IDLE =>
              call[v].prev \in Nat /\ call[v].prev <= Len(log)
        BY <1>2 DEF IInv, Grounded, Entry
      <3> QED
        BY <1>3, <1>4, <1>10, <3>1, <3>2 DEF Children, Holders
    <2>2. x # i
      BY <1>3, <1>8, <1>10
    <2>3. Children(x)' = {} /\ Holders(x)' = {}
      BY <1>4, <1>5, <1>7, <1>10, <2>1, <2>2
    <2>4. Cardinality(Writers) \in Nat
      BY <1>2, Finite
    <2> QED
      BY <2>3, <2>4, FS_EmptySet
  <1>11. CASE x \in Ids \cup {0}
    <2>1. /\ IsFiniteSet(Children(x)) /\ IsFiniteSet(Holders(x))
          /\ Cardinality(Children(x)) \in Nat /\ Cardinality(Holders(x)) \in Nat
          /\ Cardinality(Writers) \in Nat
      BY <1>2, Finite
    <2>2. Cardinality(Children(x)) + Cardinality(Holders(x))
            <= Cardinality(Writers)
      BY <1>9, <1>11 DEF Bounded
    <2>3. CASE x = i
      <3>1. /\ Children(x)' = Children(x) \cup {n} /\ n \notin Children(x)
            /\ Holders(x)' = Holders(x) \ {w} /\ w \in Holders(x)
        BY <1>2, <1>4, <1>5, <1>6, <1>7, <2>3 DEF Children, Holders
      <3>2. Cardinality(Children(x)') = Cardinality(Children(x)) + 1
        BY <2>1, <3>1, FS_AddElement
      <3>3. Cardinality(Holders(x)') = Cardinality(Holders(x)) - 1
        BY <2>1, <3>1, FS_RemoveElement
      <3> QED
        BY <2>1, <2>2, <3>2, <3>3
    <2>4. CASE x # i
      <3>1. Children(x)' = Children(x) /\ Holders(x)' = Holders(x)
        BY <1>4, <1>5, <1>6, <1>7, <1>11, <2>4
      <3> QED
        BY <2>2, <3>1
    <2> QED
      BY <2>3, <2>4
  <1> QED
    BY <1>4, <1>10, <1>11

\* Where the log stays as it is and no call takes a hash, none holds more.
LEMMA FewerHolders ==
  ASSUME IInv, Bounded, log' = log,
         \A v \in Writers : call'[v] # IDLE =>
            call[v] # IDLE /\ call'[v].prev = call[v].prev
  PROVE  Bounded'
  <1> SUFFICES ASSUME Separate, NEW x \in Ids \cup {0}
               PROVE  Cardinality(Children(x)) + Cardinality(Holders(x)')
                        <= Cardinality(Writers)
    BY DEF Bounded, Separate, Children, Ids
  <1>1. Holders(x)' \subseteq Holders(x)
    BY DEF Holders
  <1>2. /\ IsFiniteSet(Holders(x)) /\ Cardinality(Holders(x)) \in Nat
        /\ Cardinality(Children(x)) \in Nat /\ Cardinality(Writers) \in Nat
    BY Finite DEF IInv
  <1>3. /\ Cardinality(Holders(x)') <= Cardinality(Holders(x))
        /\ Cardinality(Holders(x)') \in Nat
    BY <1>1, <1>2, FS_Subset, FS_CardinalityType
  <1>4. Cardinality(Children(x)) + Cardinality(Holders(x))
          <= Cardinality(Writers)
    BY DEF Bounded
  <1> QED
    BY <1>2, <1>3, <1>4

LEMMA ForkNext ==
  (IInv /\ Bounded) /\ [Next]_vars => (IInv /\ Bounded)'
  <1> SUFFICES ASSUME IInv, Bounded, [Next]_vars, IInv' PROVE Bounded'
    BY NextInv
  <1>1. CASE \E w \in Writers, payload \in Payloads : Begin(w, payload)
    BY <1>1, BeginBounded
  <1>2. CASE \E w \in Writers : Commit(w)
    BY <1>2, CommitBounded
  <1>3. ASSUME NEW w \in Writers, Insert(w) PROVE Bounded'
    <2>1. /\ call' = [call EXCEPT ![w] = [call[w] EXCEPT !.stamp = clock]]
          /\ log' = log /\ call[w] # IDLE
      BY <1>3 DEF Insert, Inserting
    <2>2. call[w] \in Entry /\ call \in [Writers -> Entry \cup {IDLE}]
      BY <2>1 DEF IInv, TypeOK
    <2>3. [call[w] EXCEPT !.stamp = clock].prev = call[w].prev
      BY <2>2 DEF Entry
    <2> QED
      BY <2>1, <2>2, <2>3, FewerHolders
  <1>4. ASSUME NEW w \in Writers, Lose(w) PROVE Bounded'
    <2>1. call' = [call EXCEPT ![w] = IDLE] /\ log' = log
      BY <1>4 DEF Lose
    <2> QED
      BY <2>1, FewerHolders DEF IInv, TypeOK
  <1>5. CASE Tick \/ UNCHANGED vars
    BY <1>5, FewerHolders DEF Tick, vars
  <1> QED
    BY <1>1, <1>2, <1>3, <1>4, <1>5 DEF Next

LEMMA ForkInit == Init => IInv /\ Bounded
  <1> SUFFICES ASSUME Init PROVE Bounded
    BY InitInv
  <1>1. Ids = {} /\ \A w \in Writers : call[w] = IDLE
    BY DEF Init, Ids
  <1>2. Children(0) = {} /\ Holders(0) = {}
    BY <1>1 DEF Children, Holders
  <1>3. Cardinality(Writers) \in Nat
    BY InitInv, Finite DEF IInv
  <1> QED
    BY <1>1, <1>2, <1>3, FS_EmptySet DEF Bounded

\* However many calls of log overlap: unless entries share a millisecond, no
\* entry is sealed by more entries than there can be calls at once.
THEOREM ForksStayBounded == Spec => []ForksBounded
  <1>1. IInv /\ Bounded => ForksBounded
    <2> SUFFICES ASSUME IInv, Bounded, Separate, NEW i \in Ids \cup {0}
                 PROVE  Cardinality(Children(i)) <= Cardinality(Writers)
      BY DEF ForksBounded, Children
    <2>1. /\ Cardinality(Children(i)) \in Nat /\ Cardinality(Holders(i)) \in Nat
          /\ Cardinality(Writers) \in Nat
      BY Finite DEF IInv
    <2>2. Cardinality(Children(i)) + Cardinality(Holders(i))
            <= Cardinality(Writers)
      BY DEF Bounded
    <2> QED
      BY <2>1, <2>2
  <1> QED
    BY ForkInit, ForkNext, <1>1, PTL DEF Spec
=============================================================================
