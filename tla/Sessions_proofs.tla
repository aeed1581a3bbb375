-------------------------- MODULE Sessions_proofs --------------------------
(***************************************************************************)
(* Proofs about Sessions, for any number of browsers and calls and for     *)
(* tokens of any life: the types, the queue of the interceptor, and the    *)
(* session that only one browser uses.                                     *)
(***************************************************************************)
EXTENDS Sessions, TLAPS

-----------------------------------------------------------------------------
(* Types *)

CallType == [Browsers -> [Calls -> Maybe(Call)]]

LEMMA InitType == Init => TypeOK
<1> SUFFICES ASSUME Init PROVE TypeOK
  OBVIOUS
<1> USE DEF Init, Maybe
<1>1. now \in Time
  BY SessionsAssumption DEF Time
<1>2. call \in [Browsers -> [Calls -> Maybe(Call)]]
  OBVIOUS
<1>3. /\ cookie \in [Browsers -> Maybe(Time)] /\ token \in [Browsers -> Maybe(Time)]
      /\ refresh \in [Browsers -> Maybe(Refresh)]
  OBVIOUS
<1> QED
  BY <1>1, <1>2, <1>3 DEF TypeOK

\* Writing one call leaves the others as they are.
LEMMA UpdateCall ==
  ASSUME call \in CallType, NEW b \in Browsers, NEW c \in Calls,
         NEW value \in Call, Update(b, c, value)
  PROVE  /\ call' \in CallType
         /\ call'[b][c] = value
         /\ \A p \in Browsers, d \in Calls :
              (p # b \/ d # c) => call'[p][d] = call[p][d]
BY DEF Update, CallType, Maybe

\* A call that is in some state is a record.
LEMMA InCall ==
  ASSUME call \in CallType, NEW b \in Browsers, NEW c \in Calls, call[b][c] # NULL
  PROVE  call[b][c] \in Call
BY DEF CallType, Maybe

\* An answer is written into the record of its call.
LEMMA Stamped ==
  ASSUME NEW x \in Call, NEW state \in {"verified", "granted", "refused"},
         NEW given \in Maybe(Time)
  PROVE  [x EXCEPT !.state = state, !.given = given] \in Call
BY DEF Call

LEMMA Restated ==
  ASSUME NEW x \in Call, NEW state \in {"lost", "settled", "queued"}
  PROVE  [x EXCEPT !.state = state] \in Call
BY DEF Call

LEMMA SendType ==
  ASSUME TypeOK, NEW b \in Browsers, NEW c \in Calls, Send(b, c)
  PROVE  TypeOK'
<1>1. PICK kind \in Kinds[c] :
        Update(b, c, [kind |-> kind, state |-> "sent",
                      carries |-> Carried(kind, b, token[b]),
                      given |-> NULL, retried |-> FALSE])
  BY DEF Send
<1>2. kind \in ThroughApi \cup Direct
  BY SessionsAssumption
<1>3. Carried(kind, b, token[b]) \in Maybe(Time)
  BY DEF Carried, TypeOK
<1>4. [kind |-> kind, state |-> "sent", carries |-> Carried(kind, b, token[b]),
       given |-> NULL, retried |-> FALSE] \in Call
  BY <1>2, <1>3 DEF Call, Maybe
<1>5. call' \in CallType
  BY <1>1, <1>4, UpdateCall DEF TypeOK, CallType
<1> QED
  BY <1>5 DEF TypeOK, CallType, Send, Server, Page

\* What a store does to the types.
LEMMA StoreType ==
  ASSUME TypeOK, NEW b \in Browsers, NEW c \in Calls, call[b][c] # NULL,
         StoreToken(b, c)
  PROVE  /\ hash' \in Maybe(Time) /\ holder' \in Maybe(Browsers)
         /\ contested' \in BOOLEAN /\ call' \in CallType
<1>1. call[b][c] \in Call /\ now \in Maybe(Time)
  BY InCall DEF TypeOK, CallType, Maybe
<1>2. [call[b][c] EXCEPT !.state = "granted", !.given = now] \in Call
  BY <1>1, Stamped
<1>3. call' \in CallType
  BY <1>2, UpdateCall DEF StoreToken, TypeOK, CallType
<1>4. contested' \in BOOLEAN
  BY DEF StoreToken
<1> QED
  BY <1>3, <1>4 DEF StoreToken, TypeOK, Maybe

LEMMA AnswerType ==
  ASSUME TypeOK, NEW b \in Browsers, NEW c \in Calls, call[b][c] # NULL,
         NEW state \in {"verified", "granted", "refused"},
         NEW given \in Maybe(Time), Answer(b, c, state, given)
  PROVE  /\ hash' \in Maybe(Time) /\ holder' \in Maybe(Browsers)
         /\ contested' \in BOOLEAN /\ call' \in CallType
<1>1. call[b][c] \in Call
  BY InCall DEF TypeOK, CallType
<1>2. [call[b][c] EXCEPT !.state = state, !.given = given] \in Call
  BY <1>1, Stamped
<1>3. call' \in CallType
  BY <1>2, UpdateCall DEF Answer, TypeOK, CallType
<1> QED
  BY <1>3 DEF Answer, TypeOK, Server

LEMMA ServeType ==
  ASSUME TypeOK, NEW b \in Browsers, NEW c \in Calls, Serve(b, c)
  PROVE  TypeOK'
<1>1. call[b][c] # NULL
  BY DEF Serve, In
<1>2. NULL \in Maybe(Time) /\ now \in Maybe(Time)
  BY DEF TypeOK, Maybe
<1>3. \/ StoreToken(b, c)
      \/ \E state \in {"verified", "granted", "refused"}, given \in Maybe(Time) :
           Answer(b, c, state, given)
  BY <1>2 DEF Serve
<1>4. /\ hash' \in Maybe(Time) /\ holder' \in Maybe(Browsers)
      /\ contested' \in BOOLEAN /\ call' \in CallType
  BY <1>1, <1>3, StoreType, AnswerType
<1> QED
  BY <1>4 DEF Serve, Page, TypeOK, CallType

LEMMA RotateType ==
  ASSUME TypeOK, NEW b \in Browsers, NEW c \in Calls, Rotate(b, c)
  PROVE  TypeOK'
<1>1. /\ hash' \in Maybe(Time) /\ holder' \in Maybe(Browsers)
      /\ contested' \in BOOLEAN /\ call' \in CallType
  BY StoreType DEF Rotate, In
<1> QED
  BY <1>1 DEF Rotate, Page, TypeOK, CallType

LEMMA LoseType ==
  ASSUME TypeOK, NEW b \in Browsers, NEW c \in Calls, Lose(b, c)
  PROVE  TypeOK'
<1>1. call[b][c] \in Call
  BY InCall DEF Lose, In, TypeOK, CallType
<1>2. [call[b][c] EXCEPT !.state = "lost"] \in Call
  BY <1>1, Restated
<1>3. call' \in CallType
  BY <1>2, UpdateCall DEF Lose, TypeOK, CallType
<1>4. contested' \in BOOLEAN
  BY DEF Lose
<1> QED
  BY <1>3, <1>4 DEF Lose, Page, TypeOK, CallType

LEMMA RefreshType ==
  ASSUME TypeOK, NEW b \in Browsers, ServeRefresh(b) \/ LoseRefresh(b)
  PROVE  TypeOK'
<1>1. refresh[b] \in Refresh /\ now \in Time
  BY DEF ServeRefresh, LoseRefresh, TypeOK, Maybe
<1>2. /\ [refresh[b] EXCEPT !.state = "granted", !.given = now] \in Refresh
      /\ [refresh[b] EXCEPT !.state = "refused"] \in Refresh
  BY <1>1 DEF Refresh, Maybe
<1>3. refresh' \in [Browsers -> Maybe(Refresh)]
  BY <1>2 DEF ServeRefresh, LoseRefresh, TypeOK, Maybe
<1> QED
  BY <1>3 DEF ServeRefresh, LoseRefresh, TypeOK, Server

LEMMA SettleType ==
  ASSUME TypeOK, NEW b \in Browsers, NEW c \in Calls, call[b][c] # NULL,
         Settle(b, c)
  PROVE  call' \in CallType
<1>1. call[b][c] \in Call
  BY InCall DEF TypeOK, CallType
<1>2. [call[b][c] EXCEPT !.state = "settled"] \in Call
  BY <1>1, Restated
<1> QED
  BY <1>2, UpdateCall DEF Settle, TypeOK, CallType

LEMMA ReceiveType ==
  ASSUME TypeOK, NEW b \in Browsers, NEW c \in Calls, Receive(b, c)
  PROVE  TypeOK'
<1>1. call[b][c] # NULL /\ call[b][c] \in Call
  BY InCall DEF Receive, ReceiveGranted, ReceiveFailure, ReceiveRefused, In,
                TypeOK, CallType
<1>2. CASE ReceiveGranted(b, c)
  <2>1. call' \in CallType
    BY <1>1, <1>2, SettleType DEF ReceiveGranted
  <2>2. call[b][c].given \in Maybe(Time)
    BY <1>1 DEF Call
  <2>3. /\ cookie' \in [Browsers -> Maybe(Time)]
        /\ token' \in [Browsers -> Maybe(Time)]
        /\ holder' \in Maybe(Browsers)
    BY <1>2, <2>2 DEF ReceiveGranted, TypeOK, Maybe
  <2> QED
    BY <1>2, <2>1, <2>3 DEF ReceiveGranted, TypeOK, CallType
<1>3. CASE ReceiveFailure(b, c)
  <2>1. call' \in CallType
    BY <1>1, <1>3, SettleType DEF ReceiveFailure
  <2>2. token' \in [Browsers -> Maybe(Time)]
    BY <1>3 DEF ReceiveFailure, TypeOK, Maybe
  <2> QED
    BY <1>3, <2>1, <2>2 DEF ReceiveFailure, Server, TypeOK, CallType
<1>4. CASE ReceiveRefused(b, c)
  <2>1. /\ [call[b][c] EXCEPT !.state = "renewing", !.retried = TRUE] \in Call
        /\ [call[b][c] EXCEPT !.state = "queued"] \in Call
    BY <1>1 DEF Call
  <2>2. call' \in CallType
    BY <1>4, <2>1, UpdateCall DEF ReceiveRefused, TypeOK, CallType
  <2>3. [state |-> "sent", carries |-> cookie[b], given |-> NULL] \in Refresh
    BY DEF TypeOK, Refresh, Maybe
  <2>4. refresh' \in [Browsers -> Maybe(Refresh)]
    BY <1>4, <2>3 DEF ReceiveRefused, TypeOK, Maybe
  <2> QED
    BY <1>4, <2>2, <2>4 DEF ReceiveRefused, Server, TypeOK, CallType
<1> QED
  BY <1>2, <1>3, <1>4 DEF Receive

LEMMA ReceiveRefreshType ==
  ASSUME TypeOK, NEW b \in Browsers, ReceiveRefresh(b)
  PROVE  TypeOK'
<1>1. refresh[b] \in Refresh /\ refresh[b].given \in Maybe(Time)
  BY DEF ReceiveRefresh, ReceiveRefreshGranted, ReceiveRefreshRefused, TypeOK,
         Maybe, Refresh
<1>2. \A c \in Calls : In(b, c, {"queued", "renewing"}) =>
        /\ [call[b][c] EXCEPT !.state = "sent", !.carries = refresh[b].given] \in Call
        /\ [call[b][c] EXCEPT !.state = "settled"] \in Call
  <2> SUFFICES ASSUME NEW c \in Calls, In(b, c, {"queued", "renewing"})
               PROVE  /\ [call[b][c] EXCEPT !.state = "sent",
                                            !.carries = refresh[b].given] \in Call
                      /\ [call[b][c] EXCEPT !.state = "settled"] \in Call
    OBVIOUS
  <2>1. call[b][c] \in Call
    BY InCall DEF In, TypeOK, CallType
  <2> QED
    BY <1>1, <2>1 DEF Call
<1>3. /\ token' \in [Browsers -> Maybe(Time)]
      /\ refresh' \in [Browsers -> Maybe(Refresh)]
      /\ leaving' \in SUBSET Browsers
  BY <1>1 DEF ReceiveRefresh, ReceiveRefreshGranted, ReceiveRefreshRefused,
              TypeOK, Maybe
<1>4. call' \in [Browsers -> [Calls -> Maybe(Call)]]
  <2>1. CASE ReceiveRefreshGranted(b)
    BY <1>2, <2>1 DEF ReceiveRefreshGranted, Release, TypeOK, Maybe
  <2>2. CASE ReceiveRefreshRefused(b)
    BY <1>2, <2>2 DEF ReceiveRefreshRefused, Release, TypeOK, Maybe
  <2> QED
    BY <2>1, <2>2 DEF ReceiveRefresh
<1> QED
  BY <1>3, <1>4 DEF ReceiveRefresh, ReceiveRefreshGranted,
                    ReceiveRefreshRefused, Server, TypeOK

LEMMA UnloadType ==
  ASSUME TypeOK, NEW b \in Browsers, Unload(b)
  PROVE  TypeOK'
<1>1. \A c \in Calls : call[b][c] # NULL =>
        [call[b][c] EXCEPT !.state = "settled"] \in Call
  <2> SUFFICES ASSUME NEW c \in Calls, call[b][c] # NULL
               PROVE  [call[b][c] EXCEPT !.state = "settled"] \in Call
    OBVIOUS
  <2>1. call[b][c] \in Call
    BY InCall DEF TypeOK, CallType
  <2> QED
    BY <2>1 DEF Call
<1>2. call' \in [Browsers -> [Calls -> Maybe(Call)]]
  BY <1>1 DEF Unload, TypeOK, Maybe
<1>3. refresh' \in [Browsers -> Maybe(Refresh)] /\ contested' \in BOOLEAN
  BY DEF Unload, TypeOK, Maybe
<1> QED
  BY <1>2, <1>3 DEF Unload, TypeOK

\* Every step keeps every variable in its range.
LEMMA NextType == TypeOK /\ [Next]_vars => TypeOK'
<1> SUFFICES ASSUME TypeOK, [Next]_vars PROVE TypeOK'
  OBVIOUS
<1>1. CASE Tick
  BY <1>1, SessionsAssumption DEF Tick, Server, Page, TypeOK, Time
<1>2. ASSUME NEW b \in Browsers, NEW c \in Calls,
             \/ Send(b, c) \/ Serve(b, c) \/ Rotate(b, c)
             \/ Lose(b, c) \/ Receive(b, c)
      PROVE  TypeOK'
  BY <1>2, SendType, ServeType, RotateType, LoseType, ReceiveType
<1>3. ASSUME NEW b \in Browsers,
             \/ ServeRefresh(b) \/ LoseRefresh(b) \/ ReceiveRefresh(b)
             \/ Unload(b)
      PROVE  TypeOK'
  BY <1>3, RefreshType, ReceiveRefreshType, UnloadType
<1>4. ASSUME NEW b \in Browsers, SignOut(b)
      PROVE  TypeOK'
  BY <1>4 DEF SignOut, Server, TypeOK, Maybe
<1>5. CASE UNCHANGED vars
  BY <1>5 DEF vars, TypeOK
<1> QED
  BY <1>1, <1>2, <1>3, <1>4, <1>5 DEF Next

\* Every variable of the session stays in its range, whatever the number of
\* browsers and calls and however long a token lives.
THEOREM SessionsTypeOK == Spec => []TypeOK
BY InitType, NextType, PTL DEF Spec

-----------------------------------------------------------------------------
(* The queue of the interceptor *)

Waits(b, c) == In(b, c, {"queued", "renewing"})

\* Only calls that go through the interceptor wait for a refresh: a rotation,
\* which survives the loading of /login, is not among them.
WaitersUseApi ==
  \A b \in Browsers, c \in Calls : Waits(b, c) => call[b][c].kind \in ThroughApi

QueueInv == QueueIsServed /\ WaitersUseApi

\* A step that leaves the waiting calls of a page and its refresh alone.
LEMMA QueueSame ==
  ASSUME NEW b \in Browsers,
         refresh'[b] = NULL <=> refresh[b] = NULL,
         \A c \in Calls : /\ Waits(b, c)' <=> Waits(b, c)
                          /\ In(b, c, {"renewing"})' <=> In(b, c, {"renewing"}),
         refresh[b] = NULL => \A c \in Calls : ~In(b, c, {"queued", "renewing"}),
         refresh[b] # NULL => \E c \in Calls :
           /\ In(b, c, {"renewing"})
           /\ \A d \in Calls \ {c} : ~In(b, d, {"renewing"})
  PROVE  /\ refresh'[b] = NULL => \A c \in Calls : ~In(b, c, {"queued", "renewing"})'
         /\ refresh'[b] # NULL => \E c \in Calls :
              /\ In(b, c, {"renewing"})'
              /\ \A d \in Calls \ {c} : ~In(b, d, {"renewing"})'
BY Zenon DEF Waits

\* A call that does not wait, before or after, leaves the queue alone.
LEMMA QuietUpdate ==
  ASSUME TypeOK, QueueInv, NEW b \in Browsers, NEW c \in Calls,
         NEW value \in Call, Update(b, c, value), ~Waits(b, c),
         value.state \notin {"queued", "renewing"},
         \A p \in Browsers : refresh'[p] = NULL <=> refresh[p] = NULL
  PROVE  QueueInv'
<1>1. /\ call'[b][c] = value
      /\ \A p \in Browsers, d \in Calls :
           (p # b \/ d # c) => call'[p][d] = call[p][d]
  BY UpdateCall DEF TypeOK, CallType
<1>2. \A p \in Browsers, d \in Calls :
        /\ Waits(p, d)' <=> Waits(p, d)
        /\ In(p, d, {"renewing"})' <=> In(p, d, {"renewing"})
  BY <1>1 DEF Waits, In
<1>3. QueueIsServed'
  BY <1>2, QueueSame DEF QueueInv, QueueIsServed
<1>4. WaitersUseApi'
  BY <1>1, <1>2 DEF QueueInv, WaitersUseApi, Waits, In
<1> QED
  BY <1>3, <1>4 DEF QueueInv

LEMMA QuietStep ==
  ASSUME QueueInv, UNCHANGED call,
         \A p \in Browsers : refresh'[p] = NULL <=> refresh[p] = NULL
  PROVE  QueueInv'
<1>1. \A p \in Browsers, d \in Calls :
        /\ Waits(p, d)' <=> Waits(p, d)
        /\ In(p, d, {"renewing"})' <=> In(p, d, {"renewing"})
  BY DEF Waits, In
<1>2. QueueIsServed'
  BY <1>1, QueueSame DEF QueueInv, QueueIsServed
<1>3. WaitersUseApi'
  BY <1>1 DEF QueueInv, WaitersUseApi
<1> QED
  BY <1>2, <1>3 DEF QueueInv

\* A page that waits for nothing any more.
LEMMA LeftQueue ==
  ASSUME TypeOK, QueueInv, NEW b \in Browsers,
         refresh' = [refresh EXCEPT ![b] = NULL],
         \A c \in Calls : ~Waits(b, c)',
         \A p \in Browsers \ {b}, d \in Calls : call'[p][d] = call[p][d]
  PROVE  QueueInv'
<1>1. refresh'[b] = NULL /\ \A p \in Browsers \ {b} : refresh'[p] = refresh[p]
  BY DEF TypeOK
<1>2. \A p \in Browsers \ {b}, d \in Calls :
        /\ Waits(p, d)' <=> Waits(p, d)
        /\ In(p, d, {"renewing"})' <=> In(p, d, {"renewing"})
  BY DEF Waits, In
<1>3. QueueIsServed'
  <2> SUFFICES ASSUME NEW p \in Browsers
               PROVE  /\ refresh'[p] = NULL =>
                           \A c \in Calls : ~In(p, c, {"queued", "renewing"})'
                      /\ refresh'[p] # NULL => \E c \in Calls :
                           /\ In(p, c, {"renewing"})'
                           /\ \A d \in Calls \ {c} : ~In(p, d, {"renewing"})'
    BY Zenon DEF QueueIsServed
  <2>1. CASE p = b
    BY <1>1, <2>1, Zenon DEF Waits
  <2>2. CASE p # b
    BY <1>1, <1>2, <2>2, QueueSame DEF QueueInv, QueueIsServed
  <2> QED
    BY <2>1, <2>2
<1>4. WaitersUseApi'
  <2> SUFFICES ASSUME NEW p \in Browsers, NEW d \in Calls, Waits(p, d)'
               PROVE  call'[p][d].kind \in ThroughApi
    BY DEF WaitersUseApi
  <2>1. p # b
    OBVIOUS
  <2> QED
    BY <1>2, <2>1 DEF QueueInv, WaitersUseApi
<1> QED
  BY <1>3, <1>4 DEF QueueInv

\* A call the server answers, or that is lost, does not wait.
LEMMA ServedQueue ==
  ASSUME TypeOK, QueueInv, NEW b \in Browsers, NEW c \in Calls,
         Serve(b, c) \/ Rotate(b, c) \/ Lose(b, c)
  PROVE  QueueInv'
<1>1. /\ call[b][c] # NULL /\ ~Waits(b, c)
      /\ UNCHANGED refresh
  BY DEF Serve, Rotate, Lose, In, Waits, Page
<1>2. call[b][c] \in Call /\ now \in Maybe(Time) /\ NULL \in Maybe(Time)
  BY <1>1, InCall DEF TypeOK, CallType, Maybe
<1>3. \E state \in {"verified", "granted", "refused"}, given \in Maybe(Time) :
        \/ Update(b, c, [call[b][c] EXCEPT !.state = state, !.given = given])
        \/ Update(b, c, [call[b][c] EXCEPT !.state = "lost"])
  BY <1>2 DEF Serve, Rotate, Lose, Answer, StoreToken
<1>4. \E value \in Call :
        value.state \in {"verified", "granted", "refused", "lost"}
        /\ Update(b, c, value)
  <2>1. PICK state \in {"verified", "granted", "refused"}, given \in Maybe(Time) :
          \/ Update(b, c, [call[b][c] EXCEPT !.state = state, !.given = given])
          \/ Update(b, c, [call[b][c] EXCEPT !.state = "lost"])
    BY <1>3
  <2>2. /\ [call[b][c] EXCEPT !.state = state, !.given = given] \in Call
        /\ [call[b][c] EXCEPT !.state = "lost"] \in Call
    BY <1>2, Stamped DEF Call
  <2>3. /\ [call[b][c] EXCEPT !.state = state, !.given = given].state = state
        /\ [call[b][c] EXCEPT !.state = "lost"].state = "lost"
    BY <1>2 DEF Call
  <2> QED
    BY <2>1, <2>2, <2>3
<1> QED
  BY <1>1, <1>4, QuietUpdate

LEMMA SentQueue ==
  ASSUME TypeOK, QueueInv, NEW b \in Browsers, NEW c \in Calls, Send(b, c)
  PROVE  QueueInv'
<1>1. PICK kind \in Kinds[c] :
        Update(b, c, [kind |-> kind, state |-> "sent",
                      carries |-> Carried(kind, b, token[b]),
                      given |-> NULL, retried |-> FALSE])
  BY DEF Send
<1>2. kind \in ThroughApi \cup Direct /\ Carried(kind, b, token[b]) \in Maybe(Time)
  BY SessionsAssumption DEF Carried, TypeOK
<1>3. [kind |-> kind, state |-> "sent", carries |-> Carried(kind, b, token[b]),
       given |-> NULL, retried |-> FALSE] \in Call
  BY <1>2 DEF Call, Maybe
<1>4. ~Waits(b, c) /\ UNCHANGED refresh
  BY DEF Send, Waits, In, Page
<1> QED
  BY <1>1, <1>3, <1>4, QuietUpdate

\* A call that ends was not waiting.
LEMMA SettledQueue ==
  ASSUME TypeOK, QueueInv, NEW b \in Browsers, NEW c \in Calls,
         ReceiveGranted(b, c) \/ ReceiveFailure(b, c)
  PROVE  QueueInv'
<1>1. /\ call[b][c] # NULL /\ ~Waits(b, c)
      /\ Settle(b, c) /\ UNCHANGED refresh
  BY DEF ReceiveGranted, ReceiveFailure, In, Waits
<1>2. call[b][c] \in Call
  BY <1>1, InCall DEF TypeOK, CallType
<1>3. /\ [call[b][c] EXCEPT !.state = "settled"] \in Call
      /\ [call[b][c] EXCEPT !.state = "settled"].state = "settled"
  BY <1>2 DEF Call
<1> QED
  BY <1>1, <1>3, QuietUpdate DEF Settle

\* The first call that is refused starts the refresh the others wait for.
LEMMA RefusedQueue ==
  ASSUME TypeOK, QueueInv, NEW b \in Browsers, NEW c \in Calls,
         ReceiveRefused(b, c)
  PROVE  QueueInv'
<1>1. call[b][c] # NULL /\ call[b][c] \in Call
  BY InCall DEF ReceiveRefused, In, TypeOK, CallType
<1>2. /\ call[b][c].kind \in ThroughApi
      /\ ~Waits(b, c)
  BY DEF ReceiveRefused, Waits, In
<1> DEFINE first == [call[b][c] EXCEPT !.state = "renewing", !.retried = TRUE]
           later == [call[b][c] EXCEPT !.state = "queued"]
<1>3. /\ first \in Call /\ first.state = "renewing" /\ first.kind = call[b][c].kind
      /\ later \in Call /\ later.state = "queued" /\ later.kind = call[b][c].kind
  BY <1>1 DEF Call
<1>4. first # NULL /\ later # NULL
  BY <1>3, SessionsAssumption
<1> HIDE DEF first, later
<1>5. CASE StartsRefresh(b)
  <2>1. /\ Update(b, c, first)
        /\ refresh' = [refresh EXCEPT ![b] =
                        [state |-> "sent", carries |-> cookie[b], given |-> NULL]]
    BY <1>5 DEF ReceiveRefused, first
  <2>2. /\ call'[b][c] = first
        /\ \A p \in Browsers, d \in Calls :
             (p # b \/ d # c) => call'[p][d] = call[p][d]
    BY <1>3, <2>1, UpdateCall DEF TypeOK, CallType
  <2>3. \A d \in Calls : ~Waits(b, d)
    BY <1>5 DEF StartsRefresh, QueueInv, QueueIsServed, Waits
  <2>4. refresh'[b] # NULL /\ \A p \in Browsers \ {b} : refresh'[p] = refresh[p]
    <3>1. [state |-> "sent", carries |-> cookie[b], given |-> NULL] \in Refresh
      BY DEF TypeOK, Refresh, Maybe
    <3> QED
      BY <2>1, <3>1, SessionsAssumption DEF TypeOK
  <2>5. In(b, c, {"renewing"})' /\ \A d \in Calls \ {c} : ~In(b, d, {"renewing"})'
    BY <1>3, <1>4, <2>2, <2>3 DEF In, Waits
  <2>6. \A p \in Browsers \ {b}, d \in Calls :
          /\ Waits(p, d)' <=> Waits(p, d)
          /\ In(p, d, {"renewing"})' <=> In(p, d, {"renewing"})
    BY <2>2 DEF Waits, In
  <2>7. QueueIsServed'
    BY <2>4, <2>5, <2>6, QueueSame DEF QueueInv, QueueIsServed
  <2>8. WaitersUseApi'
    BY <1>2, <1>3, <2>2 DEF QueueInv, WaitersUseApi, Waits, In
  <2> QED
    BY <2>7, <2>8 DEF QueueInv
<1>6. CASE ~StartsRefresh(b)
  <2>1. Update(b, c, later) /\ UNCHANGED refresh
    BY <1>6 DEF ReceiveRefused, later
  <2>2. /\ call'[b][c] = later
        /\ \A p \in Browsers, d \in Calls :
             (p # b \/ d # c) => call'[p][d] = call[p][d]
    BY <1>3, <2>1, UpdateCall DEF TypeOK, CallType
  <2>3. \A p \in Browsers, d \in Calls :
          /\ p # b => (Waits(p, d)' <=> Waits(p, d))
          /\ In(p, d, {"renewing"})' <=> In(p, d, {"renewing"})
    BY <1>2, <1>3, <2>2 DEF Waits, In
  <2>4. QueueIsServed'
    BY <1>6, <2>1, <2>3, Zenon DEF StartsRefresh, QueueInv, QueueIsServed, Waits
  <2>5. WaitersUseApi'
    BY <1>2, <1>3, <2>2 DEF QueueInv, WaitersUseApi, Waits, In
  <2> QED
    BY <2>4, <2>5 DEF QueueInv
<1> QED
  BY <1>5, <1>6

\* What the end of a refresh does to each call of the page.
LEMMA Released ==
  ASSUME TypeOK, NEW b \in Browsers, NEW c \in Calls, ReceiveRefresh(b)
  PROVE  /\ ~In(b, c, {"queued", "renewing"}) => call'[b][c] = call[b][c]
         /\ In(b, c, {"queued", "renewing"}) =>
              \/ call'[b][c] = [call[b][c] EXCEPT !.state = "sent",
                                                  !.carries = refresh[b].given]
              \/ call'[b][c] = [call[b][c] EXCEPT !.state = "settled"]
<1>1. CASE ReceiveRefreshGranted(b)
  <2>1. call' = [call EXCEPT ![b] = [d \in Calls |->
                   IF In(b, d, {"queued", "renewing"})
                   THEN [call[b][d] EXCEPT !.state = "sent",
                                           !.carries = refresh[b].given]
                   ELSE call[b][d]]]
    BY <1>1 DEF ReceiveRefreshGranted, Release
  <2> QED
    BY <2>1 DEF TypeOK
<1>2. CASE ReceiveRefreshRefused(b)
  <2>1. call' = [call EXCEPT ![b] = [d \in Calls |->
                   IF In(b, d, {"queued", "renewing"})
                   THEN [call[b][d] EXCEPT !.state = "settled"]
                   ELSE call[b][d]]]
    BY <1>2 DEF ReceiveRefreshRefused, Release
  <2> QED
    BY <2>1 DEF TypeOK
<1> QED
  BY <1>1, <1>2 DEF ReceiveRefresh

\* The end of a refresh ends the waiting of every call of the page.
LEMMA RefreshedQueue ==
  ASSUME TypeOK, QueueInv, NEW b \in Browsers, ReceiveRefresh(b)
  PROVE  QueueInv'
<1>1. refresh' = [refresh EXCEPT ![b] = NULL]
  BY DEF ReceiveRefresh, ReceiveRefreshGranted, ReceiveRefreshRefused
<1>2. \A c \in Calls : ~Waits(b, c)'
  <2> SUFFICES ASSUME NEW c \in Calls PROVE ~Waits(b, c)'
    OBVIOUS
  <2>1. CASE ~Waits(b, c)
    BY <2>1, Released DEF Waits, In
  <2>2. CASE Waits(b, c)
    <3>1. call[b][c] \in Call
      BY <2>2, InCall DEF Waits, In, TypeOK, CallType
    <3>2. /\ [call[b][c] EXCEPT !.state = "sent",
                                !.carries = refresh[b].given].state = "sent"
          /\ [call[b][c] EXCEPT !.state = "settled"].state = "settled"
      BY <3>1 DEF Call
    <3>3. \/ call'[b][c] = [call[b][c] EXCEPT !.state = "sent",
                                              !.carries = refresh[b].given]
          \/ call'[b][c] = [call[b][c] EXCEPT !.state = "settled"]
      BY <2>2, Released DEF Waits
    <3> QED
      BY <3>2, <3>3 DEF Waits, In
  <2> QED
    BY <2>1, <2>2
<1>3. \A p \in Browsers \ {b}, d \in Calls : call'[p][d] = call[p][d]
  BY DEF ReceiveRefresh, ReceiveRefreshGranted, ReceiveRefreshRefused, Release,
         TypeOK
<1> QED
  BY <1>1, <1>2, <1>3, LeftQueue

\* /login is loaded: no call that the interceptor saw goes on.
LEMMA UnloadedQueue ==
  ASSUME TypeOK, QueueInv, NEW b \in Browsers, Unload(b)
  PROVE  QueueInv'
<1>1. \A c \in Calls : ~Waits(b, c)'
  <2> SUFFICES ASSUME NEW c \in Calls PROVE ~Waits(b, c)'
    OBVIOUS
  <2>1. CASE call[b][c] = NULL
    BY <2>1 DEF Unload, Waits, In, TypeOK
  <2>2. CASE call[b][c] # NULL /\ call[b][c].kind = "rotate"
    <3>1. call'[b][c] = call[b][c] /\ ~Waits(b, c)
      BY <2>2 DEF Unload, TypeOK, QueueInv, WaitersUseApi, ThroughApi
    <3> QED
      BY <3>1 DEF Waits, In
  <2>3. CASE call[b][c] # NULL /\ call[b][c].kind # "rotate"
    <3>1. call[b][c] \in Call
      BY <2>3, InCall DEF TypeOK, CallType
    <3>2. [call[b][c] EXCEPT !.state = "settled"].state = "settled"
      BY <3>1 DEF Call
    <3>3. call'[b][c] = [call[b][c] EXCEPT !.state = "settled"]
      BY <2>3 DEF Unload, TypeOK
    <3> QED
      BY <3>2, <3>3 DEF Waits, In
  <2> QED
    BY <2>1, <2>2, <2>3
<1>2. \A p \in Browsers \ {b}, d \in Calls : call'[p][d] = call[p][d]
  BY DEF Unload, TypeOK
<1>3. refresh' = [refresh EXCEPT ![b] = NULL]
  BY DEF Unload
<1> QED
  BY <1>1, <1>2, <1>3, LeftQueue

LEMMA NextQueue == TypeOK /\ QueueInv /\ [Next]_vars => QueueInv'
<1> SUFFICES ASSUME TypeOK, QueueInv, [Next]_vars PROVE QueueInv'
  OBVIOUS
<1>1. ASSUME NEW b \in Browsers, NEW c \in Calls,
             \/ Send(b, c) \/ Serve(b, c) \/ Rotate(b, c)
             \/ Lose(b, c) \/ Receive(b, c)
      PROVE  QueueInv'
  BY <1>1, SentQueue, ServedQueue, SettledQueue, RefusedQueue DEF Receive
<1>2. ASSUME NEW b \in Browsers, ServeRefresh(b) \/ LoseRefresh(b)
      PROVE  QueueInv'
  <2>1. refresh[b] \in Refresh /\ refresh'[b] \in Refresh
    <3>1. refresh[b] \in Refresh /\ now \in Maybe(Time)
      BY <1>2 DEF ServeRefresh, LoseRefresh, TypeOK, Maybe
    <3>2. /\ [refresh[b] EXCEPT !.state = "granted", !.given = now] \in Refresh
          /\ [refresh[b] EXCEPT !.state = "refused"] \in Refresh
      BY <3>1 DEF Refresh, Maybe
    <3> QED
      BY <1>2, <3>1, <3>2 DEF ServeRefresh, LoseRefresh, TypeOK
  <2>2. \A p \in Browsers \ {b} : refresh'[p] = refresh[p]
    BY <1>2 DEF ServeRefresh, LoseRefresh, TypeOK
  <2>3. UNCHANGED call
    BY <1>2 DEF ServeRefresh, LoseRefresh
  <2> QED
    BY <2>1, <2>2, <2>3, SessionsAssumption, QuietStep
<1>3. ASSUME NEW b \in Browsers, ReceiveRefresh(b) \/ Unload(b)
      PROVE  QueueInv'
  BY <1>3, RefreshedQueue, UnloadedQueue
<1>4. CASE Tick \/ (\E b \in Browsers : SignOut(b)) \/ UNCHANGED vars
  BY <1>4, QuietStep DEF Tick, SignOut, Page, vars
<1> QED
  BY <1>1, <1>2, <1>3, <1>4 DEF Next

LEMMA InitQueue == Init => QueueInv
BY DEF Init, QueueInv, QueueIsServed, WaitersUseApi, Waits, In

\* A call waits in the interceptor's queue only while a refresh is under way,
\* and exactly one call has started that refresh.
THEOREM QueueIsAlwaysServed == Spec => []QueueIsServed
<1>1. TypeOK /\ QueueInv /\ [Next]_vars => TypeOK' /\ QueueInv'
  BY NextType, NextQueue
<1>2. QueueInv => QueueIsServed
  BY DEF QueueInv
<1> QED
  BY <1>1, <1>2, InitType, InitQueue, PTL DEF Spec

-----------------------------------------------------------------------------
(* The session that only one browser uses *)

\* A new refresh token that is on its way to b.
Issued(b, c) == In(b, c, {"granted"}) /\ call[b][c].kind \in {"login", "rotate"}

\* Without a contest every token on its way is the one the server knows and on
\* its way to the holder, and when none is on its way the holder has it.
Kept ==
  (~contested /\ holder # NULL) =>
    /\ \A b \in Browsers, c \in Calls :
         Issued(b, c) => b = holder /\ call[b][c].given = hash
    /\ (\A c \in Calls : ~Issued(holder, c)) => cookie[holder] = hash

\* Only a rotation is checked and stored apart.
VerifiedRotates ==
  \A b \in Browsers, c \in Calls :
    In(b, c, {"verified"}) => call[b][c].kind = "rotate"

LoneInv == Kept /\ VerifiedRotates

LEMMA KeptSame ==
  ASSUME Kept, holder \in Maybe(Browsers),
         UNCHANGED <<hash, holder, cookie>>, contested => contested',
         \A b \in Browsers, c \in Calls :
           \/ contested'
           \/ /\ Issued(b, c)' <=> Issued(b, c)
              /\ Issued(b, c) => call'[b][c].given = call[b][c].given
  PROVE  Kept'
<1> SUFFICES ASSUME ~contested', holder # NULL
             PROVE  /\ \A b \in Browsers, c \in Calls :
                         Issued(b, c)' => b = holder /\ call'[b][c].given = hash
                    /\ (\A c \in Calls : ~Issued(holder, c)') => cookie[holder] = hash
  BY DEF Kept, Issued, In
<1>1. ~contested /\ holder \in Browsers
  BY DEF Maybe
<1>2. /\ \A b \in Browsers, c \in Calls :
           Issued(b, c) => b = holder /\ call[b][c].given = hash
      /\ (\A c \in Calls : ~Issued(holder, c)) => cookie[holder] = hash
  BY <1>1 DEF Kept
<1>3. \A b \in Browsers, c \in Calls :
        /\ Issued(b, c)' <=> Issued(b, c)
        /\ Issued(b, c) => call'[b][c].given = call[b][c].given
  OBVIOUS
<1> QED
  BY <1>1, <1>2, <1>3

\* A call that brings no new token, before or after, leaves the session alone.
LEMMA KeptUpdate ==
  ASSUME TypeOK, LoneInv, NEW b \in Browsers, NEW c \in Calls, NEW value \in Call,
         Update(b, c, value), UNCHANGED <<hash, holder, cookie>>,
         contested => contested', ~Issued(b, c) \/ contested',
         value.state = "granted" => value.kind \notin {"login", "rotate"},
         value.state = "verified" => value.kind = "rotate"
  PROVE  LoneInv'
<1>1. /\ call'[b][c] = value
      /\ \A p \in Browsers, d \in Calls :
           (p # b \/ d # c) => call'[p][d] = call[p][d]
  BY UpdateCall DEF TypeOK, CallType
<1>2. ~Issued(b, c)'
  BY <1>1 DEF Issued, In
<1>3. \A p \in Browsers, d \in Calls :
        \/ contested'
        \/ /\ Issued(p, d)' <=> Issued(p, d)
           /\ Issued(p, d) => call'[p][d].given = call[p][d].given
  BY <1>1, <1>2 DEF Issued, In
<1>4. Kept'
  BY <1>3, KeptSame DEF TypeOK, LoneInv
<1>5. VerifiedRotates'
  BY <1>1 DEF LoneInv, VerifiedRotates, In
<1> QED
  BY <1>4, <1>5 DEF LoneInv

\* The token that is stored is the one that is on its way.
LEMMA StoreKept ==
  ASSUME TypeOK, LoneInv, NEW b \in Browsers, NEW c \in Calls,
         call[b][c] # NULL, call[b][c].kind \in {"login", "rotate"},
         StoreToken(b, c)
  PROVE  LoneInv'
<1> DEFINE value == [call[b][c] EXCEPT !.state = "granted", !.given = now]
<1>1. call[b][c] \in Call /\ now \in Maybe(Time)
  BY InCall DEF TypeOK, CallType, Maybe
<1>2. /\ value \in Call /\ value.state = "granted" /\ value.given = now
      /\ value.kind = call[b][c].kind /\ value # NULL
  <2>1. value \in Call
    BY <1>1, Stamped
  <2>2. value.state = "granted" /\ value.given = now /\ value.kind = call[b][c].kind
    BY <1>1 DEF Call
  <2> QED
    BY <2>1, <2>2, SessionsAssumption
<1> HIDE DEF value
<1>3. Update(b, c, value) /\ hash' = now /\ holder' = b
  BY DEF StoreToken, value
<1>4. /\ call'[b][c] = value
      /\ \A p \in Browsers, d \in Calls :
           (p # b \/ d # c) => call'[p][d] = call[p][d]
  BY <1>2, <1>3, UpdateCall DEF TypeOK, CallType
<1>5. Issued(b, c)'
  BY <1>2, <1>4 DEF Issued, In
<1>6. VerifiedRotates'
  BY <1>2, <1>4 DEF LoneInv, VerifiedRotates, In
<1>7. ASSUME ~contested', NEW p \in Browsers, NEW d \in Calls, Issued(p, d)'
      PROVE  p = b /\ d = c
  <2> SUFFICES ASSUME p # b \/ d # c PROVE FALSE
    OBVIOUS
  <2>1. Issuing(p, d)
    BY <1>4, <1>7 DEF Issued, Issuing, In
  <2>2. <<p, d>> # <<b, c>>
    OBVIOUS
  <2> QED
    BY <1>7, <2>1, <2>2 DEF StoreToken
<1>8. Kept'
  BY <1>2, <1>3, <1>4, <1>5, <1>7 DEF Kept
<1> QED
  BY <1>6, <1>8 DEF LoneInv

LEMMA ServeKept ==
  ASSUME TypeOK, LoneInv, NEW b \in Browsers, NEW c \in Calls,
         Serve(b, c) \/ Rotate(b, c)
  PROVE  LoneInv'
<1>1. /\ call[b][c] # NULL /\ call[b][c] \in Call /\ ~Issued(b, c)
      /\ UNCHANGED cookie
  BY InCall DEF Serve, Rotate, Issued, In, TypeOK, CallType, Page
<1>2. CASE StoreToken(b, c) /\ call[b][c].kind \in {"login", "rotate"}
  BY <1>1, <1>2, StoreKept
<1>3. CASE \E state \in {"verified", "granted", "refused"}, given \in Maybe(Time) :
             /\ Answer(b, c, state, given)
             /\ state = "granted" => call[b][c].kind \notin {"login", "rotate"}
             /\ state = "verified" => call[b][c].kind = "rotate"
  <2>1. PICK state \in {"verified", "granted", "refused"}, given \in Maybe(Time) :
          /\ Answer(b, c, state, given)
          /\ state = "granted" => call[b][c].kind \notin {"login", "rotate"}
          /\ state = "verified" => call[b][c].kind = "rotate"
    BY <1>3
  <2> DEFINE value == [call[b][c] EXCEPT !.state = state, !.given = given]
  <2>2. value \in Call
    BY <1>1, Stamped
  <2>3. value.state = state /\ value.kind = call[b][c].kind
    BY <1>1 DEF Call
  <2>4. Update(b, c, value) /\ UNCHANGED Server
    BY <2>1 DEF Answer
  <2> HIDE DEF value
  <2>5. UNCHANGED <<hash, holder, contested>>
    BY <2>4 DEF Server
  <2> QED
    BY <1>1, <2>1, <2>2, <2>3, <2>4, <2>5, KeptUpdate
<1>4. now \in Maybe(Time) /\ NULL \in Maybe(Time)
  BY DEF TypeOK, Maybe
<1>5. CASE Serve(b, c)
  BY <1>2, <1>3, <1>4, <1>5 DEF Serve
<1>6. CASE Rotate(b, c)
  BY <1>2, <1>6 DEF Rotate, LoneInv, VerifiedRotates
<1> QED
  BY <1>5, <1>6

LEMMA SendKept ==
  ASSUME TypeOK, LoneInv, NEW b \in Browsers, NEW c \in Calls, Send(b, c)
  PROVE  LoneInv'
<1>1. PICK kind \in Kinds[c] :
        Update(b, c, [kind |-> kind, state |-> "sent",
                      carries |-> Carried(kind, b, token[b]),
                      given |-> NULL, retried |-> FALSE])
  BY DEF Send
<1>2. kind \in ThroughApi \cup Direct /\ Carried(kind, b, token[b]) \in Maybe(Time)
  BY SessionsAssumption DEF Carried, TypeOK
<1>3. [kind |-> kind, state |-> "sent", carries |-> Carried(kind, b, token[b]),
       given |-> NULL, retried |-> FALSE] \in Call
  BY <1>2 DEF Call, Maybe
<1>4. /\ ~Issued(b, c) /\ UNCHANGED <<hash, holder, cookie>>
      /\ contested' = contested
  BY DEF Send, Issued, In, Page, Server
<1> QED
  BY <1>1, <1>3, <1>4, KeptUpdate

\* A token that is lost on its way is a contest.
LEMMA LoseKept ==
  ASSUME TypeOK, LoneInv, NEW b \in Browsers, NEW c \in Calls, Lose(b, c)
  PROVE  LoneInv'
<1>1. call[b][c] \in Call
  BY InCall DEF Lose, In, TypeOK, CallType
<1>2. /\ [call[b][c] EXCEPT !.state = "lost"] \in Call
      /\ [call[b][c] EXCEPT !.state = "lost"].state = "lost"
  BY <1>1 DEF Call
<1>3. /\ contested => contested'
      /\ ~Issued(b, c) \/ contested'
      /\ UNCHANGED <<hash, holder, cookie>>
  BY DEF Lose, Issued, Issuing, In, Page
<1> QED
  BY <1>2, <1>3, KeptUpdate DEF Lose

\* A call that fails, or waits for a refresh, brings no token.
LEMMA FailKept ==
  ASSUME TypeOK, LoneInv, NEW b \in Browsers, NEW c \in Calls,
         ReceiveFailure(b, c) \/ ReceiveRefused(b, c)
  PROVE  LoneInv'
<1>1. call[b][c] \in Call /\ ~Issued(b, c)
  BY InCall DEF ReceiveFailure, ReceiveRefused, Issued, In, TypeOK, CallType
<1> DEFINE ended == [call[b][c] EXCEPT !.state = "settled"]
           first == [call[b][c] EXCEPT !.state = "renewing", !.retried = TRUE]
           later == [call[b][c] EXCEPT !.state = "queued"]
<1>2. /\ ended \in Call /\ first \in Call /\ later \in Call
      /\ \A x \in {ended, first, later} : x.state \notin {"granted", "verified"}
  BY <1>1 DEF Call
<1>3. \E value \in {ended, first, later} : Update(b, c, value)
  BY DEF ReceiveFailure, ReceiveRefused, Settle
<1>4. UNCHANGED <<hash, holder, cookie, contested>>
  BY DEF ReceiveFailure, ReceiveRefused, Server
<1> HIDE DEF ended, first, later
<1> QED
  BY <1>1, <1>2, <1>3, <1>4, KeptUpdate

\* The token that arrives is the one the server knows, or nobody holds one.
LEMMA GrantKept ==
  ASSUME TypeOK, LoneInv, NEW b \in Browsers, NEW c \in Calls,
         ReceiveGranted(b, c)
  PROVE  LoneInv'
<1> DEFINE value == [call[b][c] EXCEPT !.state = "settled"]
<1>1. call[b][c] \in Call
  BY InCall DEF ReceiveGranted, In, TypeOK, CallType
<1>2. value \in Call /\ value.state = "settled"
  BY <1>1 DEF Call
<1>3. Update(b, c, value) /\ UNCHANGED <<hash, contested>>
  BY DEF ReceiveGranted, Settle
<1> HIDE DEF value
<1>4. /\ call'[b][c] = value
      /\ \A p \in Browsers, d \in Calls :
           (p # b \/ d # c) => call'[p][d] = call[p][d]
  BY <1>2, <1>3, UpdateCall DEF TypeOK, CallType
<1>5. VerifiedRotates'
  BY <1>2, <1>4 DEF LoneInv, VerifiedRotates, In
<1>6. Kept'
  <2> DEFINE On(x) == /\ x # NULL /\ x.state \in {"granted"}
                      /\ x.kind \in {"login", "rotate"}
  <2> SUFFICES ASSUME ~contested, holder' # NULL
               PROVE  /\ \A p \in Browsers, d \in Calls :
                           On(call'[p][d]) => p = holder' /\ call'[p][d].given = hash
                      /\ (\A d \in Calls : ~On(call'[holder'][d]))
                           => cookie'[holder'] = hash
    BY <1>3 DEF Kept, Issued, In
  <2>1. \/ /\ call[b][c].kind \in {"login", "rotate"}
           /\ cookie' = [cookie EXCEPT ![b] = call[b][c].given]
           /\ UNCHANGED holder
        \/ /\ call[b][c].kind = "logout"
           /\ cookie' = [cookie EXCEPT ![b] = NULL]
           /\ holder' = IF holder = b THEN NULL ELSE holder
        \/ /\ call[b][c].kind \notin {"login", "rotate"}
           /\ UNCHANGED <<cookie, holder>>
    BY DEF ReceiveGranted
  <2>2. holder' = holder /\ holder \in Browsers
    BY <2>1 DEF TypeOK, Maybe
  <2>3. /\ \A p \in Browsers, d \in Calls :
             On(call[p][d]) => p = holder /\ call[p][d].given = hash
        /\ (\A d \in Calls : ~On(call[holder][d])) => cookie[holder] = hash
    BY <2>2 DEF LoneInv, Kept, Issued, In
  <2>4. /\ ~On(call'[b][c])
        /\ \A p \in Browsers, d \in Calls :
             (p # b \/ d # c) => call'[p][d] = call[p][d]
    BY <1>2, <1>4
  <2>5. CASE On(call[b][c])
    <3>1. b = holder /\ cookie'[b] = hash
      BY <2>1, <2>3, <2>5 DEF TypeOK
    <3> QED
      BY <2>2, <2>3, <2>4, <3>1
  <2>6. CASE ~On(call[b][c])
    <3>1. cookie'[holder] = cookie[holder]
      <4>1. call[b][c].kind \notin {"login", "rotate"}
        BY <2>6 DEF ReceiveGranted, In
      <4> QED
        BY <2>1, <2>2, <4>1 DEF TypeOK
    <3>2. \A p \in Browsers, d \in Calls :
            /\ On(call'[p][d]) <=> On(call[p][d])
            /\ On(call[p][d]) => call'[p][d] = call[p][d]
      BY <2>6, <2>4
    <3> HIDE DEF On
    <3> QED
      BY <2>2, <2>3, <3>1, <3>2
  <2> QED
    BY <2>5, <2>6
<1> QED
  BY <1>5, <1>6 DEF LoneInv

\* A step that changes no token on its way, and leaves no rotation half done
\* that was not half done before.
LEMMA KeptStep ==
  ASSUME TypeOK, LoneInv, UNCHANGED <<hash, holder, cookie>>,
         contested => contested',
         \A b \in Browsers, c \in Calls :
           \/ call'[b][c] = call[b][c]
           \/ /\ ~Issued(b, c) \/ contested'
              /\ call'[b][c].state \notin {"granted", "verified"}
  PROVE  LoneInv'
<1>1. \A b \in Browsers, c \in Calls :
        \/ contested'
        \/ /\ Issued(b, c)' <=> Issued(b, c)
           /\ Issued(b, c) => call'[b][c].given = call[b][c].given
  BY DEF Issued, In
<1>2. Kept'
  BY <1>1, KeptSame DEF TypeOK, LoneInv
<1>3. VerifiedRotates'
  BY DEF LoneInv, VerifiedRotates, In
<1> QED
  BY <1>2, <1>3 DEF LoneInv

\* The calls that waited for a refresh bring no token.
LEMMA RefreshedKept ==
  ASSUME TypeOK, LoneInv, NEW b \in Browsers, ReceiveRefresh(b)
  PROVE  LoneInv'
<1>1. \A p \in Browsers, c \in Calls :
        \/ call'[p][c] = call[p][c]
        \/ /\ ~Issued(p, c) \/ contested'
           /\ call'[p][c].state \notin {"granted", "verified"}
  <2> SUFFICES ASSUME NEW p \in Browsers, NEW c \in Calls,
                      call'[p][c] # call[p][c]
               PROVE  ~Issued(p, c) /\ call'[p][c].state \notin {"granted", "verified"}
    OBVIOUS
  <2>1. p = b
    BY DEF ReceiveRefresh, ReceiveRefreshGranted, ReceiveRefreshRefused, Release,
           TypeOK
  <2>2. In(b, c, {"queued", "renewing"})
    BY <2>1, Released
  <2>3. ~Issued(b, c) /\ call[b][c] \in Call
    BY <2>2, InCall DEF Issued, In, TypeOK, CallType
  <2>4. /\ [call[b][c] EXCEPT !.state = "sent",
                              !.carries = refresh[b].given].state = "sent"
        /\ [call[b][c] EXCEPT !.state = "settled"].state = "settled"
    BY <2>3 DEF Call
  <2> QED
    BY <2>1, <2>2, <2>3, <2>4, Released
<1>2. UNCHANGED <<hash, holder, cookie>> /\ contested' = contested
  BY DEF ReceiveRefresh, ReceiveRefreshGranted, ReceiveRefreshRefused, Server
<1> QED
  BY <1>1, <1>2, KeptStep

\* A token that is dropped with its page is a contest.
LEMMA UnloadedKept ==
  ASSUME TypeOK, LoneInv, NEW b \in Browsers, Unload(b)
  PROVE  LoneInv'
<1>1. \A p \in Browsers, c \in Calls :
        \/ call'[p][c] = call[p][c]
        \/ /\ ~Issued(p, c) \/ contested'
           /\ call'[p][c].state \notin {"granted", "verified"}
  <2> SUFFICES ASSUME NEW p \in Browsers, NEW c \in Calls,
                      call'[p][c] # call[p][c]
               PROVE  /\ ~Issued(p, c) \/ contested'
                      /\ call'[p][c].state \notin {"granted", "verified"}
    OBVIOUS
  <2>1. p = b
    BY DEF Unload, TypeOK
  <2>2. call[b][c] # NULL /\ call[b][c].kind # "rotate"
    BY <2>1 DEF Unload, TypeOK
  <2>3. call[b][c] \in Call
    BY <2>2, InCall DEF TypeOK, CallType
  <2>4. [call[b][c] EXCEPT !.state = "settled"].state = "settled"
    BY <2>3 DEF Call
  <2>5. call'[b][c] = [call[b][c] EXCEPT !.state = "settled"]
    BY <2>2 DEF Unload, TypeOK
  <2>6. ~Issued(b, c) \/ contested'
    BY <2>2 DEF Unload, Issued, Issuing, In
  <2> QED
    BY <2>1, <2>4, <2>5, <2>6
<1>2. UNCHANGED <<hash, holder, cookie>> /\ (contested => contested')
  BY DEF Unload
<1> QED
  BY <1>1, <1>2, KeptStep

LEMMA NextKept == TypeOK /\ LoneInv /\ [Next]_vars => LoneInv'
<1> SUFFICES ASSUME TypeOK, LoneInv, [Next]_vars PROVE LoneInv'
  OBVIOUS
<1>1. ASSUME NEW b \in Browsers, NEW c \in Calls,
             \/ Send(b, c) \/ Serve(b, c) \/ Rotate(b, c)
             \/ Lose(b, c) \/ Receive(b, c)
      PROVE  LoneInv'
  BY <1>1, SendKept, ServeKept, LoseKept, FailKept, GrantKept DEF Receive
<1>2. ASSUME NEW b \in Browsers, ReceiveRefresh(b) \/ Unload(b)
      PROVE  LoneInv'
  BY <1>2, RefreshedKept, UnloadedKept
<1>3. ASSUME NEW b \in Browsers,
             ServeRefresh(b) \/ LoseRefresh(b) \/ SignOut(b)
      PROVE  LoneInv'
  BY <1>3, KeptStep DEF ServeRefresh, LoseRefresh, SignOut, Server
<1>4. CASE Tick \/ UNCHANGED vars
  BY <1>4, KeptStep DEF Tick, vars, Server, Page
<1> QED
  BY <1>1, <1>2, <1>3, <1>4 DEF Next

LEMMA InitKept == Init => LoneInv
BY DEF Init, LoneInv, Kept, VerifiedRotates, In

\* When no logins and rotations overlapped and none was lost, the browser that
\* logged in last can refresh for as long as its token lives.
THEOREM LoneSessionIsKept == Spec => []LoneSessionKept
<1>1. TypeOK /\ LoneInv /\ [Next]_vars => TypeOK' /\ LoneInv'
  BY NextType, NextKept
<1>2. TypeOK /\ LoneInv => LoneSessionKept
  BY DEF LoneInv, Kept, LoneSessionKept, Issued, Issuing, In, TypeOK
<1> QED
  BY <1>1, <1>2, InitType, InitKept, PTL DEF Spec
=============================================================================
