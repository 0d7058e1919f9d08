------------------------------ MODULE TabSessions ------------------------------
(***************************************************************************)
(* One browser whose tabs share the cookies of a session: every tab may    *)
(* find the access token expired and exchange the refresh token, which is  *)
(* good once (web/lib/api.ts, identity/router.py, http_security.py).  The  *)
(* tabs take turns with a Web Lock, and a mark in the local storage keeps  *)
(* a token whose exchange was never answered from being sent again.        *)
(* Answers set and delete cookies when they arrive, before the page that   *)
(* asked goes on; calls are lost and tabs are closed at any time.          *)
(* A request refused for its CSRF token changes nothing, and is not here.  *)
(***************************************************************************)
EXTENDS Naturals

CONSTANTS
    Tabs,
    Families,    \* sessions: every login begins a family of refresh tokens
    MaxRotation, \* bound: exchanges of one family
    Nothing      \* "no value"

ASSUME TabAssumption == MaxRotation \in Nat /\ Nothing \notin Families

VARIABLES
    families, \* auth_sessions: the state, and the number of the newest refresh token
    jar,      \* the cookies of the browser
    marked,   \* REFRESH_UNCERTAIN_KEY is in the local storage
    turn,     \* the tab that holds "moseori-auth-refresh"
    page,     \* what the code of every tab waits for
    call,     \* the call of every tab, with the cookies it was sent with
    raced     \* history variable: a login and an exchange were under way at once

tabVars == <<families, jar, marked, turn, page, call, raced>>

NoFamily == [state |-> "absent", rotation |-> 0]
NoToken == [family |-> Nothing, rotation |-> 0]
NoCookies == [access |-> Nothing, aged |-> FALSE, refresh |-> NoToken]
NoCall == [kind |-> "none", at |-> "none", cookies |-> NoCookies,
           code |-> "none", deletes |-> FALSE, sets |-> NoToken]

\* Logged in.
TabInit ==
    \E f \in Families :
        /\ families = [g \in Families |->
             IF g = f THEN [NoFamily EXCEPT !.state = "live"] ELSE NoFamily]
        /\ jar = [access |-> f, aged |-> TRUE, refresh |-> [family |-> f, rotation |-> 0]]
        /\ marked = FALSE
        /\ turn = Nothing
        /\ page = [t \in Tabs |-> "ready"]
        /\ call = [t \in Tabs |-> NoCall]
        /\ raced = FALSE

-----------------------------------------------------------------------------
(* The server *)

Answered(t, code, deletes, sets) ==
    call' = [call EXCEPT ![t].at = "answered", ![t].code = code,
                         ![t].deletes = deletes, ![t].sets = sets]

\* Faulty: whoever is not logged in loses every cookie.
DeletesAll(kind, code) == code \in {"invalid_token", "invalid_session", "refresh_reused"}

\* error_response
Deletes(kind, code) ==
    \/ code \in {"invalid_session", "refresh_reused"}
    \/ code = "invalid_token" /\ kind = "refresh"

Refused(t, code) == Answered(t, code, Deletes(call[t].kind, code), NoToken)

IsLive(f) == f # Nothing /\ families[f].state = "live"

\* get_authenticated_user: the browser drops an access token that expires.
ServeRequest(t) ==
    LET f == call[t].cookies.access
    IN  /\ call[t].kind = "request"
        /\ IF f = Nothing THEN Refused(t, "invalid_token")
           ELSE IF IsLive(f) THEN Answered(t, "ok", FALSE, NoToken)
           ELSE Refused(t, "invalid_session")
        /\ UNCHANGED families

\* refresh_session: an earlier token than the newest ends the family.
ServeRefresh(t) ==
    LET token == call[t].cookies.refresh
        f == token.family
    IN  /\ call[t].kind = "refresh"
        /\ \/ /\ f = Nothing
              /\ Refused(t, "invalid_token")
              /\ UNCHANGED families
           \/ /\ f # Nothing /\ ~IsLive(f)
              /\ Refused(t, "invalid_session")
              /\ UNCHANGED families
           \/ /\ IsLive(f) /\ token.rotation = families[f].rotation
              /\ token.rotation < MaxRotation
              /\ families' = [families EXCEPT ![f].rotation = @ + 1]
              /\ Answered(t, "ok", FALSE, [token EXCEPT !.rotation = @ + 1])
           \/ /\ IsLive(f) /\ token.rotation # families[f].rotation
              /\ families' = [families EXCEPT ![f].state = "reused"]
              /\ Refused(t, "refresh_reused")

\* login_user
ServeLogin(t) ==
    /\ call[t].kind = "login"
    /\ \E f \in Families :
         /\ families[f].state = "absent"
         /\ families' = [families EXCEPT ![f].state = "live"]
         /\ Answered(t, "ok", FALSE, [NoToken EXCEPT !.family = f])

\* logout_session: the family of the refresh token, else of the access token.
ServeLogout(t) ==
    LET f == IF call[t].cookies.refresh.family # Nothing
             THEN call[t].cookies.refresh.family ELSE call[t].cookies.access
    IN  /\ call[t].kind = "logout"
        /\ families' = IF IsLive(f) THEN [families EXCEPT ![f].state = "ended"] ELSE families
        /\ Answered(t, "ok", TRUE, NoToken)

\* Refused before anything is done (a rate limit), or failed and rolled back.
ServeNothing(t) ==
    /\ \E code \in {"rate_limited", "server_error"} : Refused(t, code)
    /\ UNCHANGED families

Serve(t) ==
    /\ call[t].at = "sent"
    /\ ServeRequest(t) \/ ServeRefresh(t) \/ ServeLogin(t) \/ ServeLogout(t) \/ ServeNothing(t)
    /\ UNCHANGED <<jar, marked, turn, page>>

-----------------------------------------------------------------------------
(* The browser *)

Send(t, kind) ==
    call' = [call EXCEPT ![t] = [NoCall EXCEPT !.kind = kind, !.at = "sent", !.cookies = jar]]

\* What is left of a call when its answer, or the news of its loss, has come.
Told(t, code) ==
    IF page[t] = "closed" THEN NoCall
    ELSE [NoCall EXCEPT !.kind = call[t].kind, !.at = "arrived", !.code = code]

\* Set-Cookie is obeyed when the answer comes.
Arrive(t) ==
    /\ call[t].at = "answered"
    /\ jar' = IF call[t].deletes THEN NoCookies
              ELSE IF call[t].sets # NoToken
              THEN [access |-> call[t].sets.family, aged |-> FALSE, refresh |-> call[t].sets]
              ELSE jar
    /\ call' = [call EXCEPT ![t] = Told(t, call[t].code)]
    /\ UNCHANGED <<families, marked, turn, page>>

\* The request or its answer is lost.
Lose(t) ==
    /\ call[t].at \in {"sent", "answered"}
    /\ call' = [call EXCEPT ![t] = Told(t, "lost")]
    /\ UNCHANGED <<families, jar, marked, turn, page>>

\* An access token is good for longer than any call takes.
AccessAges ==
    /\ jar.access # Nothing /\ ~jar.aged
    /\ \A t \in Tabs : call[t] = NoCall /\ page[t] \in {"ready", "closed"}
    /\ jar' = [jar EXCEPT !.aged = TRUE]
    /\ UNCHANGED <<families, marked, turn, page, call>>

AccessExpires ==
    /\ jar.aged
    /\ jar' = [jar EXCEPT !.access = Nothing, !.aged = FALSE]
    /\ UNCHANGED <<families, marked, turn, page, call>>

\* The lock of a closed tab is free; its call goes on without it.
Close(t) ==
    /\ page[t] # "closed"
    /\ page' = [page EXCEPT ![t] = "closed"]
    /\ turn' = IF turn = t THEN Nothing ELSE turn
    /\ call' = IF call[t].at = "arrived" THEN [call EXCEPT ![t] = NoCall] ELSE call
    /\ UNCHANGED <<families, jar, marked>>

Open(t) ==
    /\ page[t] = "closed" /\ call[t] = NoCall
    /\ page' = [page EXCEPT ![t] = "ready"]
    /\ UNCHANGED <<families, jar, marked, turn, call>>

-----------------------------------------------------------------------------
(* The code of a tab *)

Wait(t, for) == page' = [page EXCEPT ![t] = for]

Start(t, kind) ==
    /\ page[t] = "ready"
    /\ Wait(t, kind)
    /\ Send(t, kind)
    /\ UNCHANGED <<families, jar, marked, turn>>

\* request, login and logout
Ask(t) == \E kind \in {"request", "login", "logout"} : Start(t, kind)

Arrived(t, at) == page[t] = at /\ call[t].at = "arrived"
Taken(t) == call' = [call EXCEPT ![t] = NoCall]

\* An expired access token, and nothing else, asks for a refresh.
RequestAnswered(t) ==
    /\ Arrived(t, "request")
    /\ Wait(t, IF call[t].code = "invalid_token" THEN "turn" ELSE "ready")
    /\ Taken(t)
    /\ UNCHANGED <<families, jar, marked, turn>>

\* Another tab may have refreshed while this one waited: it asks once more.
TakeTurn(t) ==
    /\ page[t] = "turn" /\ turn = Nothing
    /\ turn' = t
    /\ Wait(t, "check")
    /\ Send(t, "request")
    /\ UNCHANGED <<families, jar, marked>>

LeaveTurn(t) == turn' = Nothing /\ Wait(t, "ready")

\* Faulty: the mark is written when the answer has not come.
MarkedLate(t) == marked

\* The mark is written before the token is sent.
Marked(t) == TRUE

MayRefresh(t) == call[t].code = "invalid_token" /\ ~marked

CheckAnswered(t) ==
    /\ Arrived(t, "check")
    /\ IF MayRefresh(t)
       THEN marked' = Marked(t) /\ Wait(t, "marked") /\ UNCHANGED turn
       ELSE LeaveTurn(t) /\ UNCHANGED marked
    /\ Taken(t)
    /\ UNCHANGED <<families, jar>>

\* The cookies are those of this moment, not those that were checked.
SendRefresh(t) ==
    /\ page[t] = "marked"
    /\ Wait(t, "refresh")
    /\ Send(t, "refresh")
    /\ UNCHANGED <<families, jar, marked, turn>>

\* Faulty: every answer takes the mark away.
SettledByAny(code) == TRUE

\* A success, or an error of the client.
SettledBy(code) == code \notin {"lost", "server_error"}

RefreshAnswered(t) ==
    /\ Arrived(t, "refresh")
    /\ marked' = (marked /\ ~SettledBy(call[t].code))
    /\ LeaveTurn(t)
    /\ Taken(t)
    /\ UNCHANGED <<families, jar>>

\* login: a new session needs no mark, whoever wrote it.
LoginAnswered(t) ==
    /\ Arrived(t, "login")
    /\ marked' = (marked /\ call[t].code # "ok")
    /\ Wait(t, "ready")
    /\ Taken(t)
    /\ UNCHANGED <<families, jar, turn>>

LogoutAnswered(t) ==
    /\ Arrived(t, "logout")
    /\ Wait(t, "ready")
    /\ Taken(t)
    /\ UNCHANGED <<families, jar, marked, turn>>

Racing ==
    /\ \E t \in Tabs : page[t] = "login"
    /\ \E t \in Tabs : page[t] = "marked" \/ call[t].kind = "refresh"

TabStep ==
    \/ AccessAges \/ AccessExpires
    \/ \E t \in Tabs :
         \/ Serve(t) \/ Arrive(t) \/ Lose(t) \/ Close(t) \/ Open(t)
         \/ Ask(t) \/ RequestAnswered(t) \/ TakeTurn(t) \/ CheckAnswered(t)
         \/ SendRefresh(t) \/ RefreshAnswered(t) \/ LoginAnswered(t) \/ LogoutAnswered(t)

TabNext == TabStep /\ raced' = (raced \/ Racing')

TabSpec == TabInit /\ [][TabNext]_tabVars

-----------------------------------------------------------------------------
(* Properties *)

\* What the comment in refreshSession promises: no family of tokens is revoked
\* because a closed tab or a lost response had its token replayed.
FamiliesAreNotRevoked == \A f \in Families : families[f].state # "reused"

\* Tabs that find the access token expired at once, are closed in the middle of the
\* exchange, or never hear of its result send no refresh token twice, unless a login was
\* under way during an exchange and took its mark away.
TokensAreSpentOnce == ~FamiliesAreNotRevoked => raced

\* The answer to the call of t arrives, and may take away or replace the token of the jar,
\* which is of family f.
TakesToken(t, f) ==
    /\ call[t].at = "answered" /\ call'[t].at # "answered"
    /\ \/ call[t].kind \in {"login", "logout"}
       \/ call[t].kind = "refresh" /\ call[t].cookies.refresh.family # f
       \/ call[t].kind = "request" /\ call[t].cookies.access \notin {Nothing, f}
       \/ /\ call[t].kind = "refresh" /\ jar'.refresh.family = f
          /\ jar'.refresh.rotation > jar.refresh.rotation

\* While a session works, the browser's refresh token of it is dropped or replaced only
\* by the answer to a login or a logout, by its own exchange, which puts a newer token
\* in its place, or by the answer to a call that was sent with another session's cookies
\* or without any (a late invalid_session, or a late exchange). A late refusal of an
\* expired access token never takes it (identity/ARCHITECTURE.md), no refusal of the
\* session's own token arrives while it works, and no late answer brings an older token.
CookiesAreKept ==
    [][IsLive(jar.refresh.family) /\ jar'.refresh # jar.refresh =>
         \E t \in Tabs : TakesToken(t, jar.refresh.family)]_tabVars
===============================================================================
