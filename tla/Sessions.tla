------------------------------- MODULE Sessions -------------------------------
(***************************************************************************)
(* The authentication service (modules/authentification) on the server:    *)
(* the rows of refresh_tokens and the requests that read and write them.   *)
(*                                                                         *)
(* Every request runs in one READ COMMITTED transaction.  What it writes   *)
(* is seen by others only once it commits, and no write of this service    *)
(* depends on a row it has to wait for, so a transaction is its reads, one *)
(* step each, and one step for its writes with the COMMIT.                 *)
(*                                                                         *)
(* A token is its user and the second it was signed in (sub and iat of the *)
(* JWT): two tokens of one user and second are the same string, and have   *)
(* rows with the same token_hash.  A user stands for an e-mail address and *)
(* the Google identity with that address.  Passwords and codes are right   *)
(* or wrong.                                                               *)
(***************************************************************************)
EXTENDS Naturals, Sequences, FiniteSets

CONSTANTS
    User,
    NoUser,
    NoToken,
    Accounts,       \* the users with an account at the start
    Slot,           \* the requests that can be in flight together
    AccessTime,     \* lifetime of an access token
    RefreshTime,    \* lifetime of a refresh token and of its row
    MaxTime         \* bound on the clock

ASSUME SessionAssumption ==
    /\ NoUser \notin User
    /\ Accounts \subseteq User
    /\ AccessTime \in Nat \ {0}
    /\ RefreshTime \in Nat
    /\ AccessTime < RefreshTime
    /\ MaxTime \in Nat

VARIABLES
    status,     \* the users rows
    linked,     \* the users with a row of user_external_logins
    rows,       \* the rows of refresh_tokens, in the order of their insertion
    now,
    req         \* the requests

serverVars == <<status, linked, rows, now, req>>

Status == {"none", "unverified", "active", "deleted", "purged"}
Token == [user : User, iat : 0 .. MaxTime]

\* by is not in the table: what inserted the row.
Row == [token : Token, state : {"live", "revoked", "purged"},
        by : {"login", "rotation", "overlap"}]

Op == {"register", "confirm", "login", "google", "refresh", "logout"}
Request == [op : Op \cup {"none"}, user : User \cup {NoUser},
            cookie : Token \cup {NoToken}, row : Nat,
            at : {"none", "find", "load", "commit", "answered", "done"},
            answer : {"none", "ok", "refused"}, token : Token \cup {NoToken},
            dropped : BOOLEAN]

Idle == [op |-> "none", user |-> NoUser, cookie |-> NoToken, row |-> 0,
         at |-> "none", answer |-> "none", token |-> NoToken,
         dropped |-> FALSE]

\* rows is left to the browser, which may have a session.
ServerInit ==
    /\ status = [u \in User |-> IF u \in Accounts THEN "active" ELSE "none"]
    /\ linked = {}
    /\ now = 0
    /\ req = [s \in Slot |-> Idle]

InFlight(s) == req[s].at \in {"find", "load", "commit", "answered"}

\* The statement a request starts with.
FirstStatement ==
    [register |-> "load", confirm |-> "load", login |-> "load",
     google |-> "find", refresh |-> "find", logout |-> "commit"]

\* A request reaches the server with the refresh token cookie c.
Started(op, u, c) ==
    [Idle EXCEPT !.op = op, !.user = u, !.cookie = c, !.at = FirstStatement[op]]

------------------------------------------------------------------------------
(* Tokens and their rows.                                                  *)

\* Mutant of SignedNow: iat is rounded up.
SignedNext(u) == [user |-> u, iat |-> now + 1]

SignedNow(u) == [user |-> u, iat |-> now]

VerifyAccessToken(t) == now < t.iat + AccessTime

\* authMiddleware: a request without a token, or with one that has expired,
\* is answered 401.
Authorized(t) == t # NoToken /\ VerifyAccessToken(t)

VerifyRefreshToken(t) == now < t.iat + RefreshTime

Live(i) == rows[i].state = "live" /\ now < rows[i].token.iat + RefreshTime

\* Mutant of FindValidByHash: revoked_at is not looked at.
FindByHash(t) == {i \in DOMAIN rows : rows[i].token = t /\ rows[i].state # "purged"}

FindValidByHash(t) == {i \in DOMAIN rows : rows[i].token = t /\ Live(i)}

\* Mutant of RevokeById: the old row stays.
RevokeNothing(i) == rows

RevokeById(i) == [rows EXCEPT ![i].state = "revoked"]

RevokeByHash(t) ==
    [i \in DOMAIN rows |->
        IF rows[i].token = t /\ rows[i].state = "live"
        THEN [rows[i] EXCEPT !.state = "revoked"] ELSE rows[i]]

CreateRow(table, t, by) ==
    Append(table, [token |-> t, state |-> "live", by |-> by])

\* The table with the row of a new token of u.
GenerateTokens(table, u, by) == CreateRow(table, SignedNow(u), by)

CanLogin(u) == status[u] = "active"

------------------------------------------------------------------------------
(* Steps of a request.                                                     *)

At(s, op, statement) == req[s].op = op /\ req[s].at = statement

Goto(s, statement) == req' = [req EXCEPT ![s].at = statement]

Refuse(s) ==
    /\ req' = [req EXCEPT ![s].at = "answered", ![s].answer = "refused"]
    /\ UNCHANGED <<status, linked, rows, now>>

Grant(s) ==
    req' = [req EXCEPT ![s].at = "answered", ![s].answer = "ok",
                       ![s].token = SignedNow(req[s].user)]

\* The controller answers 401 to a request without the cookie.
HasCookie(s) == req[s].cookie # NoToken

\* The signature of the token, then its row.
RefreshFind(s) ==
    /\ At(s, "refresh", "find")
    /\ LET c     == req[s].cookie
           found == IF HasCookie(s) /\ VerifyRefreshToken(c)
                    THEN FindValidByHash(c) ELSE {}
       IN  \/ \E i \in found :
                  /\ req' = [req EXCEPT ![s].row = i, ![s].user = c.user,
                                        ![s].at = "load"]
                  /\ UNCHANGED <<status, linked, rows, now>>
           \/ found = {} /\ Refuse(s)

\* The user of the token is loaded and must be able to log in.
RefreshLoad(s) ==
    /\ At(s, "refresh", "load")
    /\ IF CanLogin(req[s].user)
       THEN Goto(s, "commit") /\ UNCHANGED <<status, linked, rows, now>>
       ELSE Refuse(s)

\* The row is revoked, whatever has happened to it since it was found, and
\* the row of a new token is inserted.  A purged user fails its foreign key.
RefreshCommit(s) ==
    /\ At(s, "refresh", "commit")
    /\ IF status[req[s].user] = "purged"
       THEN Refuse(s)
       ELSE /\ rows' = GenerateTokens(RevokeById(req[s].row), req[s].user,
                           IF rows[req[s].row].state = "live"
                           THEN "rotation" ELSE "overlap")
            /\ Grant(s)
            /\ UNCHANGED <<status, linked, now>>

\* UserLoginEmailUseCase: the account, then the password.
LoginLoad(s) ==
    /\ At(s, "login", "load")
    /\ \/ /\ CanLogin(req[s].user)
          /\ Goto(s, "commit")
          /\ UNCHANGED <<status, linked, rows, now>>
       \/ Refuse(s)

LoginCommit(s) ==
    /\ At(s, "login", "commit")
    /\ IF status[req[s].user] = "purged"
       THEN Refuse(s)
       ELSE /\ rows' = GenerateTokens(rows, req[s].user, "login")
            /\ Grant(s)
            /\ UNCHANGED <<status, linked, now>>

\* RequestRegistrationVerificationUseCase: getUserByEmail does not see a
\* deleted account, whose address the unique index refuses all the same.
RegisterLoad(s) ==
    /\ At(s, "register", "load")
    /\ IF status[req[s].user] \in {"unverified", "active"}
       THEN Refuse(s)
       ELSE Goto(s, "commit") /\ UNCHANGED <<status, linked, rows, now>>

RegisterCommit(s) ==
    /\ At(s, "register", "commit")
    /\ IF status[req[s].user] # "none"
       THEN Refuse(s)
       ELSE /\ status' = [status EXCEPT ![req[s].user] = "unverified"]
            /\ req' = [req EXCEPT ![s].at = "answered", ![s].answer = "ok"]
            /\ UNCHANGED <<linked, rows, now>>

\* ConfirmRegistrationUseCase: the account, then the code.
ConfirmLoad(s) ==
    /\ At(s, "confirm", "load")
    /\ \/ /\ status[req[s].user] = "unverified"
          /\ Goto(s, "commit")
          /\ UNCHANGED <<status, linked, rows, now>>
       \/ Refuse(s)

\* markUserAsVerified writes the flag only.
ConfirmCommit(s) ==
    /\ At(s, "confirm", "commit")
    /\ IF status[req[s].user] = "purged"
       THEN Refuse(s)
       ELSE /\ status' = [status EXCEPT ![req[s].user] =
                              IF @ = "unverified" THEN "active" ELSE @]
            /\ rows' = GenerateTokens(rows, req[s].user, "login")
            /\ Grant(s)
            /\ UNCHANGED <<linked, now>>

\* findByProviderAndExternalId; row 1 stands for a link that was found.
GoogleFind(s) ==
    /\ At(s, "google", "find")
    /\ req' = [req EXCEPT ![s].row = IF req[s].user \in linked THEN 1 ELSE 0,
                          ![s].at = "load"]
    /\ UNCHANGED <<status, linked, rows, now>>

\* Without a link the account is looked up by e-mail; row 2 stands for one
\* that was found, and row 0 for an account that has to be created.
GoogleLoad(s) ==
    /\ At(s, "google", "load")
    /\ req' = [req EXCEPT
                 ![s].row = IF @ = 1 THEN 1
                            ELSE IF status[req[s].user] \in {"unverified", "active"}
                            THEN 2 ELSE 0,
                 ![s].at = "commit"]
    /\ UNCHANGED <<status, linked, rows, now>>

\* Mutant of GoogleAccepts: canLogin is not called.
GoogleAcceptsAnybody(s) ==
    \/ req[s].row = 1 /\ status[req[s].user] # "purged"
    \/ req[s].row = 2 /\ req[s].user \notin linked /\ status[req[s].user] # "purged"
    \/ req[s].row = 0 /\ status[req[s].user] = "none"

\* What the writes of a Google login and canLogin admit: the link that was
\* found, a new link, or a new account and its link.  The unique index on
\* (provider, external_id) refuses a second link, and the one on the e-mail a
\* second account.
GoogleAccepts(s) ==
    \/ req[s].row = 1 /\ CanLogin(req[s].user)
    \/ req[s].row = 2 /\ req[s].user \notin linked /\ CanLogin(req[s].user)
    \/ req[s].row = 0 /\ status[req[s].user] = "none"

\* RepositoryUserExternalLogin.create.
Link(u) == linked \cup {u}

\* A new account is created verified; any refusal rolls the link back.
GoogleCommit(s) ==
    /\ At(s, "google", "commit")
    /\ IF ~GoogleAccepts(s)
       THEN Refuse(s)
       ELSE /\ status' = [status EXCEPT ![req[s].user] =
                              IF req[s].row = 0 THEN "active" ELSE @]
            /\ linked' = Link(req[s].user)
            /\ rows' = GenerateTokens(rows, req[s].user, "login")
            /\ Grant(s)
            /\ UNCHANGED now

Logout(s) ==
    /\ At(s, "logout", "commit")
    /\ IF ~HasCookie(s)
       THEN Refuse(s)
       ELSE /\ rows' = RevokeByHash(req[s].cookie)
            /\ req' = [req EXCEPT ![s].at = "answered", ![s].answer = "ok"]
            /\ UNCHANGED <<status, linked, now>>

\* The rate limiter, a lost request or an error of the database.
Fail(s) == req[s].at \in {"find", "load", "commit"} /\ Refuse(s)

Handle(s) ==
    \/ RefreshFind(s) \/ RefreshLoad(s) \/ RefreshCommit(s)
    \/ LoginLoad(s) \/ LoginCommit(s)
    \/ RegisterLoad(s) \/ RegisterCommit(s)
    \/ ConfirmLoad(s) \/ ConfirmCommit(s)
    \/ GoogleFind(s) \/ GoogleLoad(s) \/ GoogleCommit(s)
    \/ Logout(s)

\* ConfirmAccountDeletionUseCase commits.
DeleteAccount(u) ==
    /\ status[u] = "active"
    /\ status' = [status EXCEPT ![u] = "deleted"]
    /\ UNCHANGED <<linked, rows, now, req>>

\* purgeDeletedUsers: the row goes, and with it its tokens and its link.
Purge ==
    /\ \E u \in User : status[u] = "deleted"
    /\ status' = [u \in User |-> IF status[u] = "deleted" THEN "purged" ELSE status[u]]
    /\ linked' = {u \in linked : status[u] # "deleted"}
    /\ rows' = [i \in DOMAIN rows |->
                   IF status[rows[i].token.user] = "deleted"
                   THEN [rows[i] EXCEPT !.state = "purged"] ELSE rows[i]]
    /\ UNCHANGED <<now, req>>

Tick ==
    /\ now < MaxTime
    /\ now' = now + 1
    /\ UNCHANGED <<status, linked, rows, req>>

------------------------------------------------------------------------------
(* Properties.                                                             *)

\* Tables and requests have the shape of their columns and fields.
ServerTypeOK ==
    /\ status \in [User -> Status]
    /\ linked \subseteq User
    /\ rows \in Seq(Row)
    /\ now \in 0 .. MaxTime
    /\ req \in [Slot -> Request]

LiveRows == {i \in DOMAIN rows : rows[i].state = "live"}
StartedRows == {i \in DOMAIN rows : rows[i].by # "rotation"}

\* A refresh replaces a session and never adds one (AuthentificationService.
\* refresh): there are no more live rows than logins, save for one more for
\* each refresh that found its row before another refresh or a logout of the
\* same token committed.
RotationConserves == Cardinality(LiveRows) <= Cardinality(StartedRows)

\* A Google identity is linked to verified accounts only, whatever
\* registrations, confirmations, deletions and purges run meanwhile: linking
\* an unverified account is rolled back with the login it belongs to.
LinkedIsVerified == \A u \in linked : status[u] \in {"active", "deleted"}
==============================================================================
