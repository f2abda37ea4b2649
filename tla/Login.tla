-------------------------------- MODULE Login --------------------------------
(***************************************************************************)
(* The sessions of the console: the ways in, by password or by a round     *)
(* trip to an identity provider, the session cookie of a browser and the   *)
(* sessions the server keeps in memory.  Tokens are numbers; the state and *)
(* the nonce of a round trip are drawn together and are one token.  The    *)
(* answer of a round trip is loaded in three steps, the check of its       *)
(* cookies, the exchange of its code and the response, and loads overlap.  *)
(***************************************************************************)
EXTENDS Integers, FiniteSets

CONSTANTS
    Browsers,
    Modes,       \* the modes to consider: "password", "oidc"
    SessionTTL,
    TripTTL,     \* how long the cookies of a round trip live
    Slots,       \* the loads of a callback that may be under way at once
    MaxTime, MaxTokens   \* bounds: the clock, the tokens drawn

VARIABLES
    mode,        \* auth.mode, which the configuration fixes
    time,
    tokens,      \* how many tokens were drawn
    sessions,    \* sessionStore: token -> expiry
    cookie,      \* browser -> its session cookie, 0 for none
    trip,        \* browser -> the cookies of its round trip, [token, expiry]
    away,        \* round trip, by state -> the browser that began it
    loads,       \* slot -> the load of a callback under way
    shown,       \* browser -> the last answer
    closed,      \* history: round trips whose browser has the answer to a load
    opened       \* history: session -> the browser, the round trip and whether
                 \* the browser had an answer already when it loaded this one

login == <<mode, time, tokens, sessions, cookie, trip, away, loads, shown, closed,
           opened>>

NoTrip == [token |-> 0, expiry |-> 0]

\* The session of a load whose code is being exchanged; 0 when refused.
Exchanging == -1

Init ==
    /\ mode \in Modes /\ time = 0 /\ tokens = 0 /\ sessions = <<>> /\ away = <<>>
    /\ cookie = [b \in Browsers |-> 0] /\ trip = [b \in Browsers |-> NoTrip]
    /\ loads = <<>> /\ shown = [b \in Browsers |-> "login"]
    /\ closed = {} /\ opened = <<>>

----------------------------------------------------------------------------
(* The sessions *)

Without(f, gone) == [n \in DOMAIN f \ gone |-> f[n]]
With(f, n, v) == [m \in DOMAIN f \cup {n} |-> IF m = n THEN v ELSE f[m]]
Prune(ss) == Without(ss, {n \in DOMAIN ss : time > ss[n]})

Valid(n) == n \in DOMAIN sessions /\ time <= sessions[n]
Revoke(n) == Without(sessions, {n})

\* create, for a browser that comes back from a round trip (0: by password).
Create(b, state, late) ==
    /\ tokens < MaxTokens /\ tokens' = tokens + 1
    /\ sessions' = With(Prune(sessions), tokens', time + SessionTTL)
    /\ opened' = With(opened, tokens', [browser |-> b, trip |-> state, late |-> late])

----------------------------------------------------------------------------
(* The handlers *)

\* authed: a page, or the way back to the login page; an expired token is
\* dropped.
Authed(b) ==
    /\ shown' = [shown EXCEPT ![b] = IF Valid(cookie[b]) THEN "in" ELSE "login"]
    /\ sessions' = IF Valid(cookie[b]) THEN sessions ELSE Revoke(cookie[b])
    /\ UNCHANGED <<mode, time, tokens, cookie, trip, away, loads, closed, opened>>

\* LoginPage offers the way in of the mode.
LoginPage(b) == IF shown[b] = "login" THEN {mode} ELSE {}

HandleLoginSubmit(b) ==
    /\ "password" \in LoginPage(b)
    /\ \/ /\ Create(b, 0, FALSE)
          /\ cookie' = [cookie EXCEPT ![b] = tokens'] /\ shown' = [shown EXCEPT ![b] = "in"]
          /\ UNCHANGED <<mode, time, trip, away, loads, closed>>
       \/ UNCHANGED login          \* checkPassword refuses

HandleLogout(b) ==
    /\ cookie[b] /= 0 /\ sessions' = Revoke(cookie[b])
    /\ cookie' = [cookie EXCEPT ![b] = 0] /\ shown' = [shown EXCEPT ![b] = "login"]
    /\ UNCHANGED <<mode, time, tokens, trip, away, loads, closed, opened>>

\* start: a second round trip replaces the cookies of the first.
HandleOIDCStart(b) ==
    /\ "oidc" \in LoginPage(b) /\ tokens < MaxTokens /\ tokens' = tokens + 1
    /\ trip' = [trip EXCEPT ![b] = [token |-> tokens', expiry |-> time + TripTTL]]
    /\ away' = With(away, tokens', b)
    /\ UNCHANGED <<mode, time, sessions, cookie, loads, shown, closed, opened>>

\* callback, at the server: the state of the address is compared with the
\* cookie the browser sent.  A callback address may be loaded again, in
\* another tab or in another browser.
HandleOIDCCallback(b) ==
    \E state \in DOMAIN away, l \in Slots \ DOMAIN loads :
      /\ IF trip[b].token = state /\ time <= trip[b].expiry
         THEN /\ loads' = With(loads, l, [browser |-> b, trip |-> state,
                              session |-> Exchanging, late |-> state \in closed])
              /\ UNCHANGED shown
         ELSE shown' = [shown EXCEPT ![b] = "login"] /\ UNCHANGED loads
      /\ UNCHANGED <<mode, time, tokens, sessions, cookie, trip, away, closed, opened>>

\* The provider exchanged the code, for a session; or it refused, was not
\* reached, or gave a token that does not verify.  A provider may exchange
\* the code of an address loaded twice, twice.
Exchange(l) ==
    LET load == loads[l] IN
    /\ load.session = Exchanging
    /\ \/ /\ Create(load.browser, load.trip, load.late)
          /\ loads' = With(loads, l, [load EXCEPT !.session = tokens'])
       \/ /\ loads' = With(loads, l, [load EXCEPT !.session = 0])
          /\ UNCHANGED <<tokens, sessions, opened>>
    /\ UNCHANGED <<mode, time, cookie, trip, away, shown, closed>>

\* Mutant: the cookies of the round trip are left in the browser.
ClearedNever(b) == UNCHANGED trip

\* What the response does with the cookies of a round trip: the ones the
\* browser holds by then, which may be those of a later one.
Cleared(b) == trip' = [trip EXCEPT ![b] = NoTrip]

\* The response reaches the browser, refused or not.
Respond(l) ==
    LET load == loads[l]
        b == load.browser IN
    /\ load.session /= Exchanging /\ loads' = Without(loads, {l})
    /\ Cleared(b) /\ closed' = closed \cup {load.trip}
    /\ IF load.session /= 0
       THEN /\ cookie' = [cookie EXCEPT ![b] = load.session]
            /\ shown' = [shown EXCEPT ![b] = "in"]
       ELSE shown' = [shown EXCEPT ![b] = "login"] /\ UNCHANGED cookie
    /\ UNCHANGED <<mode, time, tokens, sessions, away, opened>>

\* The browser leaves before the response: the exchange is cancelled, or its
\* session is nobody's.
Leave(l) ==
    /\ loads' = Without(loads, {l})
    /\ UNCHANGED <<mode, time, tokens, sessions, cookie, trip, away, shown, closed, opened>>

Tick ==
    /\ time < MaxTime /\ time' = time + 1
    /\ UNCHANGED <<mode, tokens, sessions, cookie, trip, away, loads, shown, closed, opened>>

Next ==
    \/ Tick
    \/ \E b \in Browsers :
         \/ Authed(b) \/ HandleLoginSubmit(b) \/ HandleLogout(b)
         \/ HandleOIDCStart(b) \/ HandleOIDCCallback(b)
    \/ \E l \in DOMAIN loads : Exchange(l) \/ Respond(l) \/ Leave(l)

Spec == Init /\ [][Next]_login

----------------------------------------------------------------------------
(* Properties *)

\* A round trip closes with its first answer: no session is opened by a load
\* of its callback that begins after its browser had the answer to an accepted
\* one, though loads overlap, responses are lost and the round trips of several
\* tabs replace and clear one another's cookies.  The session of a round trip is
\* in the browser that began it, whoever loads its callback, and two browsers
\* never share a session.
TripsClose ==
    /\ \A n \in DOMAIN opened : ~opened[n].late
    /\ \A b \in Browsers : LET n == cookie[b] IN
         n /= 0 /\ opened[n].trip /= 0 => away[opened[n].trip] = b
    /\ \A b, c \in Browsers : cookie[b] = cookie[c] /\ cookie[b] /= 0 => b = c
=============================================================================
