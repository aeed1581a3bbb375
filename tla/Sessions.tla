------------------------------ MODULE Sessions ------------------------------
(***************************************************************************)
(* The session of one user, from the row that keeps the hash of the one    *)
(* refresh token (auth.service.ts) to the browsers that renew their access *)
(* token when a call is refused (frontend lib/api.ts).                     *)
(*                                                                         *)
(* A token is the second it was signed in: tokens of one second are equal. *)
(* Each browser has one cookie and one page, whose script runs one         *)
(* callback at a time; its calls, their answers and the calls of other     *)
(* browsers overlap as they like, and calls and answers may be lost.       *)
(***************************************************************************)
EXTENDS Integers, FiniteSets

CONSTANTS
  Browsers,
  Calls,        \* calls of one browser (bounds the model)
  Kinds,        \* the kinds each call may be of (bounds the model)
  AccessLife,   \* seconds an access token is good for
  RefreshLife,  \* seconds a refresh token is good for
  MaxTime,      \* the last second (bounds the model)
  NULL

\* The calls the page makes through lib/api.ts.
ThroughApi == {"data", "login", "wrongPassword", "logout"}

\* The start page refreshes with axios itself; the client that rotates is not
\* part of the repository.
Direct == {"home", "rotate"}

Time == 0 .. MaxTime

VARIABLES
  now,
  hash,      \* User.refreshToken
  cookie,    \* of each browser: refreshToken
  token,     \* of each page: the access token in the store
  refresh,   \* of each page: the call to /auth/refresh while isRefreshing
  call,      \* the calls of each browser
  leaving,   \* pages that are on their way to /login
  holder,    \* the browser whose login or rotation was stored last (history)
  contested  \* logins or rotations overlapped, or got lost (history)

vars == <<now, hash, cookie, token, refresh, call, leaving, holder, contested>>

Maybe(S) == S \cup {NULL}

\* carries: the access token sent along, or for a refresh or a rotation the
\* cookie; given: the second the tokens in the answer were signed in.
Call ==
  [kind : ThroughApi \cup Direct,
   state : {"sent", "verified", "granted", "refused", "lost", "queued",
            "renewing", "settled"},
   carries : Maybe(Time), given : Maybe(Time), retried : BOOLEAN]

Refresh == [state : {"sent", "granted", "refused"},
            carries : Maybe(Time), given : Maybe(Time)]

ASSUME SessionsAssumption ==
  /\ Kinds \in [Calls -> SUBSET (ThroughApi \cup Direct)]
  /\ AccessLife \in Nat \ {0} /\ RefreshLife \in Nat \ {0} /\ MaxTime \in Nat
  /\ NULL \notin Int \cup Browsers \cup Call \cup Refresh

TypeOK ==
  /\ now \in Time
  /\ hash \in Maybe(Time)
  /\ cookie \in [Browsers -> Maybe(Time)]
  /\ token \in [Browsers -> Maybe(Time)]
  /\ refresh \in [Browsers -> Maybe(Refresh)]
  /\ call \in [Browsers -> [Calls -> Maybe(Call)]]
  /\ leaving \in SUBSET Browsers
  /\ holder \in Maybe(Browsers)
  /\ contested \in BOOLEAN

-----------------------------------------------------------------------------
(* The server *)

Init ==
  /\ now = 0
  /\ hash = NULL
  /\ cookie = [b \in Browsers |-> NULL]
  /\ token = [b \in Browsers |-> NULL]
  /\ refresh = [b \in Browsers |-> NULL]
  /\ call = [b \in Browsers |-> [c \in Calls |-> NULL]]
  /\ leaving = {}
  /\ holder = NULL
  /\ contested = FALSE

Server == <<hash, holder, contested>>
Page == <<cookie, token, refresh, leaving>>

Tick == now < MaxTime /\ now' = now + 1 /\ UNCHANGED <<Server, Page, call>>

Fresh(signed, life) == signed # NULL /\ now < signed + life

\* The checks of refreshAccessToken and rotateToken.
Recognised(signed) == Fresh(signed, RefreshLife) /\ hash = signed

In(b, c, states) == call[b][c] # NULL /\ call[b][c].state \in states

Update(b, c, value) == call' = [call EXCEPT ![b][c] = value]

\* A call that ends with a new refresh token, on its way.
Issuing(b, c) == /\ In(b, c, {"sent", "verified", "granted"})
                 /\ call[b][c].kind \in {"login", "rotate"}

\* Mutant of StoreToken: the row gets the second the token expires in.
StoreExpiry(b, c) ==
  /\ hash' = now + RefreshLife
  /\ UNCHANGED <<holder, contested>>
  /\ Update(b, c, [call[b][c] EXCEPT !.state = "granted", !.given = now])

\* The user's row gets the hash of a token signed now, for the call c of b.
StoreToken(b, c) ==
  /\ hash' = now
  /\ holder' = b
  /\ contested' = (\/ contested
                   \/ holder \notin {NULL, b}
                   \/ \E p \in Browsers, d \in Calls :
                        <<p, d>> # <<b, c>> /\ Issuing(p, d))
  /\ Update(b, c, [call[b][c] EXCEPT !.state = "granted", !.given = now])

Answer(b, c, state, given) ==
  /\ Update(b, c, [call[b][c] EXCEPT !.state = state, !.given = given])
  /\ UNCHANGED Server

\* What the server does with a call.  A rotation is checked now and stored by
\* a statement of its own.  Login is the only one to store a token at once.
\* /auth/logout asks the user's row for a sub it does not have: it changes
\* nothing but the cookie.
Serve(b, c) ==
  LET this == call[b][c]
  IN  /\ In(b, c, {"sent"})
      /\ \/ /\ this.kind \in {"data", "logout"}
            /\ Answer(b, c, IF Fresh(this.carries, AccessLife)
                            THEN "granted" ELSE "refused", NULL)
         \/ this.kind = "login" /\ StoreToken(b, c)
         \/ this.kind = "wrongPassword" /\ Answer(b, c, "refused", NULL)
         \/ /\ this.kind = "home"
            /\ IF Recognised(this.carries) THEN Answer(b, c, "granted", now)
               ELSE Answer(b, c, "refused", NULL)
         \/ /\ this.kind = "rotate"
            /\ Answer(b, c, IF Recognised(this.carries)
                            THEN "verified" ELSE "refused", NULL)
      /\ UNCHANGED <<now, Page>>

\* Mutant of Rotate: the new token is handed out before it is stored.
RotateWithoutStore(b, c) ==
  /\ In(b, c, {"verified"})
  /\ Answer(b, c, "granted", now)
  /\ UNCHANGED <<now, Page>>

\* The update of rotateToken, whatever happened since the check.
Rotate(b, c) ==
  /\ In(b, c, {"verified"})
  /\ StoreToken(b, c)
  /\ UNCHANGED <<now, Page>>

\* The call or its answer is lost, or the server fails.
Lose(b, c) ==
  /\ In(b, c, {"sent", "granted", "refused"})
  /\ Update(b, c, [call[b][c] EXCEPT !.state = "lost"])
  /\ contested' = (contested \/ Issuing(b, c))
  /\ UNCHANGED <<now, hash, holder, Page>>

ServeRefresh(b) ==
  /\ refresh[b] # NULL /\ refresh[b].state = "sent"
  /\ refresh' = [refresh EXCEPT ![b] =
                   IF Recognised(@.carries)
                   THEN [@ EXCEPT !.state = "granted", !.given = now]
                   ELSE [@ EXCEPT !.state = "refused"]]
  /\ UNCHANGED <<now, Server, cookie, token, leaving, call>>

\* For the page a lost refresh is as good as a refused one.
LoseRefresh(b) ==
  /\ refresh[b] # NULL /\ refresh[b].state \in {"sent", "granted"}
  /\ refresh' = [refresh EXCEPT ![b].state = "refused"]
  /\ UNCHANGED <<now, Server, cookie, token, leaving, call>>

-----------------------------------------------------------------------------
(* The page *)

\* What a call of that kind takes with it when it is sent.
Carried(kind, b, access) == IF kind \in Direct THEN cookie[b] ELSE access

Send(b, c) ==
  /\ call[b][c] = NULL
  /\ \E kind \in Kinds[c] :
       Update(b, c, [kind |-> kind, state |-> "sent",
                     carries |-> Carried(kind, b, token[b]),
                     given |-> NULL, retried |-> FALSE])
  /\ UNCHANGED <<now, Server, Page>>

Settle(b, c) == Update(b, c, [call[b][c] EXCEPT !.state = "settled"])

\* The browser keeps the cookie, the page the access token.  The cookie that
\* logout clears is another one when the session's has a domain.
ReceiveGranted(b, c) ==
  LET this == call[b][c]
  IN  /\ In(b, c, {"granted"})
      /\ Settle(b, c)
      /\ \/ /\ this.kind \in {"login", "rotate"}
            /\ cookie' = [cookie EXCEPT ![b] = this.given]
            /\ UNCHANGED holder
         \/ /\ this.kind = "logout"
            /\ cookie' = [cookie EXCEPT ![b] = NULL]
            /\ holder' = IF holder = b THEN NULL ELSE holder
         \/ /\ this.kind \notin {"login", "rotate"}
            /\ UNCHANGED <<cookie, holder>>
      /\ token' = [token EXCEPT ![b] =
                     IF this.kind \in {"login", "home"} THEN this.given ELSE @]
      /\ UNCHANGED <<now, hash, contested, refresh, leaving>>

\* A call that fails for good; the start page signs out.
ReceiveFailure(b, c) ==
  /\ \/ In(b, c, {"lost"})
     \/ In(b, c, {"refused"}) /\ (call[b][c].retried \/ call[b][c].kind \in Direct)
  /\ Settle(b, c)
  /\ token' = [token EXCEPT ![b] = IF call[b][c].kind = "home" THEN NULL ELSE @]
  /\ UNCHANGED <<now, Server, cookie, refresh, leaving>>

\* Mutant of StartsRefresh: every refused call starts a refresh of its own.
StartsRefreshAlways(b) == TRUE

\* isRefreshing
StartsRefresh(b) == refresh[b] = NULL

\* The interceptor, for a call that is refused for the first time: it waits
\* for the refresh that is under way, or starts one.
ReceiveRefused(b, c) ==
  /\ In(b, c, {"refused"})
  /\ ~call[b][c].retried /\ call[b][c].kind \in ThroughApi
  /\ IF StartsRefresh(b)
     THEN /\ Update(b, c, [call[b][c] EXCEPT !.state = "renewing", !.retried = TRUE])
          /\ refresh' = [refresh EXCEPT ![b] =
                           [state |-> "sent", carries |-> cookie[b], given |-> NULL]]
     ELSE Update(b, c, [call[b][c] EXCEPT !.state = "queued"]) /\ UNCHANGED refresh
  /\ UNCHANGED <<now, Server, cookie, token, leaving>>

\* The calls that wait for a refresh go on as f says.
Release(b, f(_)) ==
  call' = [call EXCEPT ![b] = [c \in Calls |->
             IF In(b, c, {"queued", "renewing"}) THEN f(call[b][c]) ELSE @[c]]]

\* processQueue, and the retry of the call that started the refresh.
ReceiveRefreshGranted(b) ==
  /\ refresh[b] # NULL /\ refresh[b].state = "granted"
  /\ token' = [token EXCEPT ![b] = refresh[b].given]
  /\ Release(b, LAMBDA x : [x EXCEPT !.state = "sent", !.carries = refresh[b].given])
  /\ refresh' = [refresh EXCEPT ![b] = NULL]
  /\ UNCHANGED <<now, Server, cookie, leaving>>

\* Mutant of ReceiveRefreshRefused: only the call that started it is rejected.
RefusedWithoutQueue(b) ==
  /\ refresh[b] # NULL /\ refresh[b].state = "refused"
  /\ Release(b, LAMBDA x : IF x.state = "queued" THEN x
                           ELSE [x EXCEPT !.state = "settled"])
  /\ token' = [token EXCEPT ![b] = NULL]
  /\ leaving' = leaving \cup {b}
  /\ refresh' = [refresh EXCEPT ![b] = NULL]
  /\ UNCHANGED <<now, Server, cookie>>

ReceiveRefreshRefused(b) ==
  /\ refresh[b] # NULL /\ refresh[b].state = "refused"
  /\ Release(b, LAMBDA x : [x EXCEPT !.state = "settled"])
  /\ token' = [token EXCEPT ![b] = NULL]
  /\ leaving' = leaving \cup {b}
  /\ refresh' = [refresh EXCEPT ![b] = NULL]
  /\ UNCHANGED <<now, Server, cookie>>

\* /login is loaded: the calls of the page are dropped, its script starts anew.
Unload(b) ==
  LET dropped == {c \in Calls : /\ call[b][c] # NULL
                                /\ call[b][c].kind # "rotate"}
  IN  /\ b \in leaving
      /\ leaving' = leaving \ {b}
      /\ call' = [call EXCEPT ![b] = [c \in Calls |->
                    IF c \in dropped THEN [@[c] EXCEPT !.state = "settled"]
                    ELSE @[c]]]
      /\ refresh' = [refresh EXCEPT ![b] = NULL]
      /\ contested' = (contested \/ \E c \in dropped : Issuing(b, c))
      /\ UNCHANGED <<now, hash, holder, cookie, token>>

\* The button: the store forgets the token, nobody else is told.
SignOut(b) ==
  /\ token[b] # NULL
  /\ token' = [token EXCEPT ![b] = NULL]
  /\ UNCHANGED <<now, Server, cookie, refresh, leaving, call>>

-----------------------------------------------------------------------------

Receive(b, c) ==
  ReceiveGranted(b, c) \/ ReceiveFailure(b, c) \/ ReceiveRefused(b, c)

ReceiveRefresh(b) == ReceiveRefreshGranted(b) \/ ReceiveRefreshRefused(b)

Next ==
  \/ Tick
  \/ \E b \in Browsers :
       \/ \E c \in Calls : \/ Send(b, c) \/ Serve(b, c) \/ Rotate(b, c)
                           \/ Lose(b, c) \/ Receive(b, c)
       \/ ServeRefresh(b) \/ LoseRefresh(b) \/ ReceiveRefresh(b)
       \/ Unload(b) \/ SignOut(b)

\* Calls are answered or fail, and callbacks run.
Fairness ==
  \A b \in Browsers :
    /\ \A c \in Calls : WF_vars(Serve(b, c) \/ Rotate(b, c) \/ Receive(b, c))
    /\ WF_vars(ServeRefresh(b) \/ ReceiveRefresh(b))

Spec == Init /\ [][Next]_vars /\ Fairness

-----------------------------------------------------------------------------
(* Properties *)

\* The queue of the interceptor is only ever waited in while there is a
\* refresh that empties it, and a refresh is under way exactly while one call,
\* which it belongs to, has started it: no call waits for a refresh that is
\* over, and no page refreshes twice at once.
QueueIsServed ==
  \A b \in Browsers :
    /\ refresh[b] = NULL => \A c \in Calls : ~In(b, c, {"queued", "renewing"})
    /\ refresh[b] # NULL => \E c \in Calls :
         /\ In(b, c, {"renewing"})
         /\ \A d \in Calls \ {c} : ~In(b, d, {"renewing"})

\* A session that only one browser uses is not lost: when no logins and
\* rotations overlapped and none was lost on the way, the cookie of the
\* browser that logged in last is the token the server knows.
LoneSessionKept ==
  (~contested /\ holder # NULL /\ \A c \in Calls : ~Issuing(holder, c))
    => cookie[holder] = hash

\* Every call of a page comes to an end, also those that are refused while the
\* page is refreshing, refused again after the refresh, or left behind.
Settles ==
  \A b \in Browsers, c \in Calls :
    call[b][c] # NULL ~> (call[b][c] # NULL /\ call[b][c].state = "settled")
=============================================================================
