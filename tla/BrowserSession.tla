---------------------------- MODULE BrowserSession ----------------------------
(***************************************************************************)
(* A browser (frontend/src) that talks to the authentication service: the  *)
(* cookie, the auth store and its token bridge, the router and its guards, *)
(* and the private API client, which refreshes the session when a call is  *)
(* answered 401 and then sends the call again.                             *)
(*                                                                         *)
(* The answer of a request is applied in one step: the Set-Cookie of the   *)
(* controller, the assignments of the store, and the router.push and the   *)
(* loading flag of the view that waits for it.  What a page shows besides  *)
(* is left out, and so is what a private call does once it is authorized.  *)
(***************************************************************************)
EXTENDS Sessions

CONSTANTS
    Opened, \* the pages whose address is opened
    Boot,   \* the slots of the refreshes at page loads
    Form,   \* the slots of the forms of the auth views and of the logout
    Call,   \* the private calls, each the slot of the refreshes it starts
    MaxEvents   \* bound on forms submitted, calls made, failed requests, lost
                \* answers, reloads and deletions of an account, together

\* The page of the password reset is guarded like the login, and left out.
Page == {"login", "register", "confirm", "dashboard"}

ASSUME BrowserAssumption ==
    /\ Slot = Boot \cup Form \cup Call /\ IsFiniteSet(Slot)
    /\ MaxEvents \in Nat
    /\ Opened \subseteq Page
    /\ Boot \cap Form = {} /\ Boot \cap Call = {} /\ Form \cap Call = {}

VARIABLES
    cookie,         \* the refresh token cookie
    accessToken,    \* of the store, and of the token bridge
    user,           \* of the store
    pendingEmail,   \* of the store: whose registration waits for its code
    page,
    target,         \* where the page load leads, until the boot is over
    busy,           \* the requests that keep a button of this page disabled
    call,           \* the private calls
    lost,           \* an answer that set or cleared the cookie was lost
    faults          \* how many faults there were

browserVars ==
    <<cookie, accessToken, user, pendingEmail, page, target, busy, call, lost>>
vars == <<serverVars, browserVars, faults>>

NoCall == [phase |-> "idle", token |-> NoToken]
Settled == [phase |-> "settled", token |-> NoToken]

Init ==
    /\ ServerInit
    /\ \/ rows = <<>> /\ cookie = NoToken
       \/ \E u \in Accounts :
              /\ rows = GenerateTokens(<<>>, u, "login")
              /\ cookie = SignedNow(u)
    /\ accessToken = NoToken
    /\ user = NoUser
    /\ pendingEmail = NoUser
    /\ page = "blank"
    /\ target = "blank"
    /\ busy = {}
    /\ call = [c \in Call |-> NoCall]
    /\ lost = FALSE
    /\ faults = 0

------------------------------------------------------------------------------
(* The router.                                                             *)

\* Mutant of Guard: the confirmation page needs no pending e-mail.
GuardAuthOnly(to, auth, pending) ==
    CASE to = "dashboard" /\ ~auth -> "login"
      [] to # "dashboard" /\ auth  -> "dashboard"
      [] OTHER                     -> to

\* beforeEach: where a navigation ends.
Guard(to, auth, pending) ==
    CASE to = "dashboard" /\ ~auth                 -> "login"
      [] to # "dashboard" /\ auth                  -> "dashboard"
      [] to = "confirm" /\ ~auth /\ pending = NoUser -> "register"
      [] OTHER                                     -> to

\* Another page is mounted, with its buttons enabled.
Visit(to) ==
    /\ page' = Guard(to, accessToken' # NoToken, pendingEmail')
    /\ busy' = IF page' = page THEN busy ELSE {}

Stay == UNCHANGED <<page, busy>>

\* The page is loaded, for the first time or again: the store is new, and
\* the guard of the first navigation starts a refresh.
Load(s, to) ==
    /\ page = "blank"
    /\ req[s].at = "none"
    /\ target' = to
    /\ req' = [req EXCEPT ![s] = Started("refresh", NoUser, cookie)]
    /\ UNCHANGED <<status, linked, rows, now, cookie, accessToken, user,
                   pendingEmail, page, busy, call, lost>>

\* Reload: what is in flight goes on at the server and is not heard here.
Unload ==
    /\ page # "blank"
    /\ page' = "blank"
    /\ target' = "blank"
    /\ busy' = {}
    /\ accessToken' = NoToken
    /\ user' = NoUser
    /\ call' = [c \in Call |-> IF call[c].phase \in {"sent", "refreshing"}
                               THEN Settled ELSE call[c]]
    /\ req' = [s \in Slot |-> IF InFlight(s) THEN [req[s] EXCEPT !.dropped = TRUE]
                              ELSE req[s]]
    /\ UNCHANGED <<status, linked, rows, now, cookie, pendingEmail, lost>>

\* A link, or the buttons of the browser.
Navigate(to) ==
    /\ page # "blank"
    /\ UNCHANGED <<accessToken, pendingEmail>>
    /\ Visit(to)
    /\ page' # page
    /\ UNCHANGED <<serverVars, cookie, user, target, call, lost>>

Events ==
    faults + Cardinality({s \in Form : req[s].at # "none"}
                         \cup {c \in Call : call[c].phase # "idle"})

------------------------------------------------------------------------------
(* The forms.                                                              *)

\* A form of this page is submitted.  Its button is disabled while a request
\* of it is in flight; a Google popup that is open already still delivers.
Submit(s, op, u) ==
    /\ Events < MaxEvents
    /\ req[s].at = "none"
    /\ s = CHOOSE f \in Form : req[f].at = "none"
    /\ op = "google" \/ \A b \in busy : req[b].op # op
    /\ req' = [req EXCEPT ![s] = Started(op, u, cookie)]
    /\ busy' = busy \cup {s}
    /\ UNCHANGED <<status, linked, rows, now, cookie, accessToken, user,
                   pendingEmail, page, target, call, lost>>

HandleLogin(s, u) == page = "login" /\ Submit(s, "login", u)
HandleGoogleLogin(s, u) == page = "login" /\ Submit(s, "google", u)
HandleRegister(s, u) == page = "register" /\ Submit(s, "register", u)
HandleConfirm(s) == page = "confirm" /\ Submit(s, "confirm", pendingEmail)
HandleLogout(s) == page = "dashboard" /\ Submit(s, "logout", NoUser)

------------------------------------------------------------------------------
(* Answers.                                                                *)

ClearCookie == cookie' = NoToken
SetCookie(s) == cookie' = req[s].token

\* The store takes the session in the answer.
StoreSession(s) ==
    /\ accessToken' = req[s].token
    /\ user' = req[s].token.user

\* Mutant of GoogleSession: the controller sets no cookie.
GoogleSessionNoCookie(s) == UNCHANGED cookie /\ StoreSession(s)

GoogleSession(s) == SetCookie(s) /\ StoreSession(s)

SignOut == accessToken' = NoToken /\ user' = NoUser

Ok(s) == req[s].answer = "ok"

LoginAnswered(s) ==
    IF Ok(s)
    THEN /\ SetCookie(s)
         /\ StoreSession(s)
         /\ UNCHANGED pendingEmail
         /\ Visit("dashboard")
    ELSE /\ UNCHANGED <<cookie, accessToken, user, pendingEmail, page>>
         /\ busy' = busy \ {s}

\* The callback of the Google popup, heard wherever the user is by now.
GoogleLoginAnswered(s) ==
    IF Ok(s)
    THEN /\ GoogleSession(s)
         /\ UNCHANGED pendingEmail
         /\ Visit("dashboard")
    ELSE /\ UNCHANGED <<cookie, accessToken, user, pendingEmail, page>>
         /\ busy' = busy \ {s}

RegisterAnswered(s) ==
    /\ UNCHANGED <<cookie, accessToken, user>>
    /\ IF Ok(s)
       THEN pendingEmail' = req[s].user /\ Visit("confirm")
       ELSE UNCHANGED <<pendingEmail, page>> /\ busy' = busy \ {s}

ConfirmAnswered(s) ==
    IF Ok(s)
    THEN /\ SetCookie(s)
         /\ StoreSession(s)
         /\ pendingEmail' = NoUser
         /\ Visit("dashboard")
    ELSE /\ UNCHANGED <<cookie, accessToken, user, pendingEmail, page>>
         /\ busy' = busy \ {s}

\* An error of the logout is ignored; only an answer clears the cookie.
LogoutAnswered(s) ==
    /\ IF Ok(s) THEN ClearCookie ELSE UNCHANGED cookie
    /\ SignOut
    /\ pendingEmail' = NoUser
    /\ Visit("login")

\* Mutant of RefreshAnswered: the controller sets no cookie.
RefreshAnsweredNoCookie(s) ==
    /\ UNCHANGED cookie
    /\ IF Ok(s) THEN StoreSession(s) ELSE SignOut

\* refresh: whatever fails signs the user out of the store.
RefreshAnswered(s) ==
    IF Ok(s) THEN SetCookie(s) /\ StoreSession(s) ELSE UNCHANGED cookie /\ SignOut

FormAnswered(s) ==
    /\ s \in Form
    /\ CASE req[s].op = "login"    -> LoginAnswered(s)
         [] req[s].op = "google"   -> GoogleLoginAnswered(s)
         [] req[s].op = "register" -> RegisterAnswered(s)
         [] req[s].op = "confirm"  -> ConfirmAnswered(s)
         [] req[s].op = "logout"   -> LogoutAnswered(s)
    /\ UNCHANGED <<target, call>>

\* The boot is over and the first navigation ends.
BootAnswered(s) ==
    /\ s \in Boot
    /\ RefreshAnswered(s)
    /\ UNCHANGED <<pendingEmail, call>>
    /\ target' = "blank"
    /\ page' = Guard(target, accessToken' # NoToken, pendingEmail)
    /\ UNCHANGED busy

\* Mutant of Retried: the call is sent again whatever the refresh brought.
RetriedAlways(s) == [phase |-> "sent", token |-> accessToken']

\* The response interceptor goes on: with the token the bridge holds now, or
\* not at all.
Retried(s) ==
    IF Ok(s) THEN [phase |-> "sent", token |-> accessToken']
    ELSE Settled

CallRefreshed(s) ==
    /\ s \in Call
    /\ RefreshAnswered(s)
    /\ call' = [call EXCEPT ![s] = Retried(s)]
    /\ UNCHANGED <<pendingEmail, target>>
    /\ Stay

\* The slot of a call or a boot is used again, that of a form is not.
Freed(s) == IF s \in Form THEN [Idle EXCEPT !.at = "done"] ELSE Idle

Answered(s) ==
    /\ req[s].at = "answered"
    /\ ~req[s].dropped
    /\ FormAnswered(s) \/ BootAnswered(s) \/ CallRefreshed(s)
    /\ req' = [req EXCEPT ![s] = Freed(s)]
    /\ UNCHANGED <<status, linked, rows, now, lost>>

SetsCookie(s) == Ok(s) /\ req[s].op # "register"

\* Nobody waits for the answer any more.
Ignored(s) ==
    /\ req[s].at = "answered"
    /\ req[s].dropped
    /\ lost' = (lost \/ SetsCookie(s))
    /\ req' = [req EXCEPT ![s] = Freed(s)]
    /\ UNCHANGED <<status, linked, rows, now, cookie, accessToken, user,
                   pendingEmail, page, target, busy, call>>

\* The connection breaks after the COMMIT: the browser sees an error.
LoseAnswer(s) ==
    /\ req[s].at = "answered"
    /\ Ok(s)
    /\ lost' = (lost \/ SetsCookie(s))
    /\ req' = [req EXCEPT ![s].answer = "refused"]
    /\ UNCHANGED <<status, linked, rows, now, cookie, accessToken, user,
                   pendingEmail, page, target, busy, call>>

------------------------------------------------------------------------------
(* The private API client.                                                 *)

\* A tab of the dashboard calls the API with the token of the bridge.
CallSent(c) ==
    /\ page = "dashboard"
    /\ call[c].phase = "idle"
    /\ req[c].at = "none"
    /\ Events < MaxEvents
    /\ call' = [call EXCEPT ![c] = [phase |-> "sent", token |-> accessToken]]
    /\ UNCHANGED <<serverVars, cookie, accessToken, user, pendingEmail, page,
                   target, busy, lost>>

\* Every 401 starts a refresh of its own.
CallAnswered(c) ==
    /\ call[c].phase = "sent"
    /\ IF Authorized(call[c].token)
       THEN /\ call' = [call EXCEPT ![c] = Settled]
            /\ UNCHANGED req
       ELSE /\ call' = [call EXCEPT ![c].phase = "refreshing"]
            /\ req' = [req EXCEPT ![c] = Started("refresh", NoUser, cookie)]
    /\ UNCHANGED <<status, linked, rows, now, cookie, accessToken, user,
                   pendingEmail, page, target, busy, lost>>

------------------------------------------------------------------------------
Server ==
    \/ \E s \in Slot : Handle(s)
    \/ Purge
    \/ Tick

Browser ==
    \/ \E s \in Boot, to \in Opened : Load(s, to)
    \/ \E to \in Page : Navigate(to)
    \/ \E s \in Form, u \in User :
           HandleLogin(s, u) \/ HandleGoogleLogin(s, u) \/ HandleRegister(s, u)
    \/ \E s \in Form : HandleConfirm(s) \/ HandleLogout(s)
    \/ \E s \in Slot : Answered(s) \/ Ignored(s)
    \/ \E c \in Call : CallSent(c) \/ CallAnswered(c)

Fault ==
    /\ Events < MaxEvents
    /\ faults' = faults + 1
    /\ \/ \E s \in Slot : Fail(s) /\ UNCHANGED browserVars
       \/ \E u \in User : DeleteAccount(u) /\ UNCHANGED browserVars
       \/ \E s \in Slot : LoseAnswer(s)
       \/ Unload

Next ==
    \/ Server /\ UNCHANGED <<browserVars, faults>>
    \/ Browser /\ UNCHANGED faults
    \/ Fault

\* What a call waits for happens: the server takes the next step of its
\* refresh or answers the call, and the browser takes the answer.
Progress(c) ==
    \/ Handle(c) /\ UNCHANGED browserVars
    \/ Answered(c)
    \/ CallAnswered(c)

Fairness == \A c \in Call : WF_vars(Progress(c) /\ UNCHANGED faults)

Spec == Init /\ [][Next]_vars /\ Fairness

------------------------------------------------------------------------------
(* Properties.                                                             *)

\* The browser's variables have the shape of the store's and client's fields.
TypeOK ==
    /\ ServerTypeOK
    /\ {cookie, accessToken} \subseteq Token \cup {NoToken}
    /\ {user, pendingEmail} \subseteq User \cup {NoUser}
    /\ {page, target} \subseteq Page \cup {"blank"}
    /\ busy \subseteq Form
    /\ call \in [Call -> [phase : {"idle", "sent", "refreshing", "settled"},
                          token : Token \cup {NoToken}]]
    /\ lost \in BOOLEAN
    /\ faults \in 0 .. MaxEvents

\* The access token of the store and the refresh token cookie are of one
\* account (controllers and stores/auth.ts), however logins of two accounts,
\* refreshes, logouts and reloads overlap and in whatever order their answers
\* arrive.
CookieOfSession ==
    accessToken # NoToken /\ cookie # NoToken => accessToken.user = cookie.user

\* A browser that has lost no answer keeps a cookie that works: it has a live
\* row, until it expires or its account is purged, or the request that
\* revoked it is still to be answered; or two tokens of its user were signed
\* in one second and are one string.  A refresh that loses a race signs the
\* store out (stores/auth.ts), but not the browser: its next page load
\* refreshes with the winner's cookie.
CookieLive ==
    cookie # NoToken =>
        \/ lost
        \/ ~VerifyRefreshToken(cookie)
        \/ status[cookie.user] = "purged"
        \/ FindValidByHash(cookie) # {}
        \/ \E i, j \in DOMAIN rows :
               i # j /\ rows[i].token = cookie /\ rows[j].token = cookie
        \/ \E s \in Slot : /\ req[s].at = "answered"
                           /\ Ok(s)
                           /\ req[s].cookie = cookie

\* The confirmation page always has the e-mail its code was sent to
\* (router/index.ts, ConfirmView.vue), also when answers of logins and of the
\* logout arrive after the user has moved on.
ConfirmHasEmail == page = "confirm" => pendingEmail # NoUser

\* Every private call is settled: the chain of 401, refresh and retry of the
\* response interceptor (api/client.ts) ends, also when two calls refresh
\* with one cookie and the loser empties the bridge the winner retries from.
CallsSettle ==
    \A c \in Call : call[c].phase \in {"sent", "refreshing"}
                        ~> call[c].phase = "settled"
==============================================================================
