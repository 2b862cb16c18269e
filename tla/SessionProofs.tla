---------------------------- MODULE SessionProofs ----------------------------
(***************************************************************************)
(* What BrowserSession keeps for every set of users, requests and calls    *)
(* and for all lifetimes of tokens: the confirmation page has its e-mail,  *)
(* token and cookie are of one account, a Google identity is linked to a   *)
(* verified one, a refresh does not add a session, and a browser that has  *)
(* lost no answer keeps a cookie that works.                               *)
(*                                                                         *)
(* None of it follows from one step alone.  IInv says what a request has   *)
(* found by the statement it has come to, and that the page which confirms *)
(* a registration has the e-mail that the request is made with.  CInv says *)
(* who has which token: one that is answered works until the answer is     *)
(* taken, because nobody else has it yet.                                  *)
(***************************************************************************)
EXTENDS BrowserSession, FiniteSetTheorems, TLAPS

------------------------------------------------------------------------------
(* The rows of refresh_tokens.                                             *)

\* Rewritten rows are rows, at the same places.
LEMMA RewrittenRows ==
    ASSUME NEW table \in Seq(Row), NEW new, new = [i \in DOMAIN table |-> new[i]],
           \A i \in DOMAIN table : new[i] \in Row
    PROVE  new \in Seq(Row) /\ Len(new) = Len(table) /\ DOMAIN new = DOMAIN table
<1>1. DOMAIN table = 1 .. Len(table) /\ Len(table) \in Nat
  OBVIOUS
<1>2. new \in [1 .. Len(table) -> Row]
  BY <1>1
<1> QED
  BY <1>1, <1>2

\* A new row comes last.
LEMMA CreatedRow ==
    ASSUME NEW table \in Seq(Row), NEW t \in Token, NEW by \in {"login", "rotation", "overlap"}
    PROVE  /\ CreateRow(table, t, by) \in Seq(Row)
           /\ DOMAIN table = 1 .. Len(table) /\ Len(table) \in Nat
           /\ DOMAIN CreateRow(table, t, by) = 1 .. Len(table) + 1
           /\ \A i \in DOMAIN table : CreateRow(table, t, by)[i] = table[i]
           /\ CreateRow(table, t, by)[Len(table) + 1] =
                  [token |-> t, state |-> "live", by |-> by]
  BY DEF CreateRow, Row

\* A revocation changes the state of one row.
LEMMA RevokedRow ==
    ASSUME rows \in Seq(Row), NEW i \in DOMAIN rows
    PROVE  /\ RevokeById(i) \in Seq(Row) /\ DOMAIN RevokeById(i) = DOMAIN rows
           /\ Len(RevokeById(i)) = Len(rows)
           /\ RevokeById(i)[i] = [rows[i] EXCEPT !.state = "revoked"]
           /\ \A j \in DOMAIN rows \ {i} : RevokeById(i)[j] = rows[j]
<1>1. rows[i] \in Row
  OBVIOUS
<1>2. [rows[i] EXCEPT !.state = "revoked"] \in Row
  BY <1>1 DEF Row
<1> DEFINE new == RevokeById(i)
<1>3. new = [j \in DOMAIN rows |-> new[j]]
  BY DEF RevokeById
<1>4. /\ new[i] = [rows[i] EXCEPT !.state = "revoked"]
      /\ \A j \in DOMAIN rows \ {i} : new[j] = rows[j]
  BY DEF RevokeById
<1>5. \A j \in DOMAIN rows : new[j] \in Row
  BY <1>2, <1>4
<1> HIDE DEF new
<1>6. new \in Seq(Row) /\ Len(new) = Len(rows) /\ DOMAIN new = DOMAIN rows
  BY <1>3, <1>5, RewrittenRows
<1> QED
  BY <1>4, <1>6 DEF new

\* A logout and a purge rewrite the state of rows and nothing else.
LEMMA RowsEndTogether ==
    ASSUME rows \in Seq(Row), NEW ended \in SUBSET (DOMAIN rows),
           NEW state \in {"revoked", "purged"},
           NEW new, new = [i \in DOMAIN rows |-> IF i \in ended
                              THEN [rows[i] EXCEPT !.state = state] ELSE rows[i]]
    PROVE  /\ new \in Seq(Row) /\ DOMAIN new = DOMAIN rows
           /\ \A i \in DOMAIN rows :
                  new[i].by = rows[i].by /\ (new[i].state = "live" => rows[i].state = "live")
<1>1. \A i \in DOMAIN rows : rows[i] \in Row
  OBVIOUS
<1>2. \A i \in DOMAIN rows : [rows[i] EXCEPT !.state = state] \in Row
  BY <1>1 DEF Row
<1>3. \A i \in DOMAIN rows : new[i] \in Row
  BY <1>1, <1>2
<1>4. new \in Seq(Row) /\ DOMAIN new = DOMAIN rows
  BY <1>3, RewrittenRows
<1>5. \A i \in DOMAIN rows :
          new[i].by = rows[i].by /\ (new[i].state = "live" => rows[i].state = "live")
  BY <1>1 DEF Row
<1> QED
  BY <1>4, <1>5

------------------------------------------------------------------------------
(* The inductive invariant.                                                *)

\* What a request has found by the statement it has come to.
Sound(r, table) ==
    /\ r.op # "logout" /\ r.at \in {"load", "commit"} => r.user \in User
    /\ r.op = "google" /\ r.at = "find" => r.user \in User
    /\ r.at = "find" => r.op \in {"google", "refresh"}
    /\ r.op = "refresh" /\ r.at \in {"load", "commit"} => r.row \in DOMAIN table
    /\ r.op = "register" /\ r.at = "answered" => r.user \in User
    /\ r.op \notin {"register", "logout"} /\ r.at = "answered" /\ r.answer = "ok" =>
           r.token \in Token

\* Forms log in and out, boots and calls refresh.
Fits(s, r) ==
    r.at \notin {"none", "done"} =>
        r.op \in IF s \in Form THEN Op \ {"refresh"} ELSE {"refresh"}

RequestsSound == \A s \in Slot : Sound(req[s], rows) /\ Fits(s, req[s])

IInv == RequestsSound /\ ConfirmHasEmail

------------------------------------------------------------------------------
(* The steps of the server.                                                *)

\* A step that replaces one request and keeps or adds rows.
LEMMA OneRequest ==
    ASSUME req \in [Slot -> Request], RequestsSound, NEW s \in Slot, NEW r \in Request,
           req' = [req EXCEPT ![s] = r], DOMAIN rows \subseteq DOMAIN rows',
           Sound(r, rows'), Fits(s, r)
    PROVE  req' \in [Slot -> Request] /\ RequestsSound'
<1>1. req' \in [Slot -> Request] /\ req'[s] = r
      /\ \A q \in Slot \ {s} : req'[q] = req[q]
  OBVIOUS
<1>2. \A q \in Slot : Sound(req'[q], rows') /\ Fits(q, req'[q])
  BY <1>1 DEF RequestsSound, Sound
<1> QED
  BY <1>1, <1>2 DEF RequestsSound, Fits

\* A refusal ends the request.
LEMMA RefuseKeeps ==
    ASSUME ServerTypeOK, RequestsSound, NEW s \in Slot, Refuse(s),
           req[s].at \in {"find", "load", "commit"}
    PROVE  ServerTypeOK' /\ RequestsSound'
<1> DEFINE r == [req[s] EXCEPT !.at = "answered", !.answer = "refused"]
<1>1. req' = [req EXCEPT ![s] = r] /\ UNCHANGED <<status, linked, rows, now>>
  BY DEF Refuse
<1>2. req[s] \in Request /\ req \in [Slot -> Request]
  BY DEF ServerTypeOK
<1>3. r \in Request
  BY <1>2 DEF Request
<1>4. r.op = req[s].op /\ r.at = "answered" /\ r.answer = "refused" /\ r.user = req[s].user
  BY <1>2 DEF Request
<1>5. Sound(r, rows') /\ Fits(s, r)
  BY <1>1, <1>2, <1>4 DEF RequestsSound, Sound, Fits
<1> QED
  BY <1>1, <1>2, <1>3, <1>5, OneRequest DEF ServerTypeOK

\* A request goes on to its writes, having found what they need.
LEMMA GotoKeeps ==
    ASSUME ServerTypeOK, RequestsSound, NEW s \in Slot, NEW n \in Nat,
           req[s].at \in {"find", "load"},
           NEW at \in {"load", "commit"},
           NEW u \in User,
           req' = [req EXCEPT ![s] = [@ EXCEPT !.user = u, !.row = n, !.at = at]],
           req[s].op = "refresh" => n \in DOMAIN rows,
           UNCHANGED <<status, linked, rows, now>>
    PROVE  ServerTypeOK' /\ RequestsSound'
<1> DEFINE r == [req[s] EXCEPT !.user = u, !.row = n, !.at = at]
<1>1. req[s] \in Request /\ req \in [Slot -> Request]
  BY DEF ServerTypeOK
<1>2. r \in Request /\ req' = [req EXCEPT ![s] = r]
  BY <1>1 DEF Request
<1>3. r.op = req[s].op /\ r.at = at /\ r.user = u /\ r.row = n
  BY <1>1 DEF Request
<1>4. Sound(r, rows') /\ Fits(s, r)
  BY <1>3 DEF RequestsSound, Sound, Fits
<1> QED
  BY <1>1, <1>2, <1>4, OneRequest DEF ServerTypeOK

\* A request commits: its answer is the token whose row it has inserted.
LEMMA GrantKeeps ==
    ASSUME ServerTypeOK, RequestsSound, NEW s \in Slot,
           req[s].at = "commit", req[s].user \in User, Grant(s),
           NEW table \in Seq(Row), DOMAIN table = DOMAIN rows,
           NEW by \in {"login", "rotation", "overlap"},
           rows' = GenerateTokens(table, req[s].user, by),
           status' \in [User -> Status], linked' \subseteq User, UNCHANGED now
    PROVE  ServerTypeOK' /\ RequestsSound'
<1> DEFINE t == SignedNow(req[s].user)
           r == [req[s] EXCEPT !.at = "answered", !.answer = "ok", !.token = t]
<1>1. req[s] \in Request /\ req \in [Slot -> Request] /\ now \in 0 .. MaxTime
  BY DEF ServerTypeOK
<1>2. t \in Token
  BY <1>1 DEF SignedNow, Token
<1> HIDE DEF t
<1>3. rows' \in Seq(Row) /\ DOMAIN rows \subseteq DOMAIN rows'
  <2>1. rows' = CreateRow(table, t, by) /\ table \in Seq(Row)
        /\ by \in {"login", "rotation", "overlap"}
    BY DEF GenerateTokens, t
  <2>2. /\ rows' \in Seq(Row) /\ Len(table) \in Nat
        /\ DOMAIN rows = 1 .. Len(table) /\ DOMAIN rows' = 1 .. Len(table) + 1
    BY ONLY <1>2, <2>1, DOMAIN table = DOMAIN rows, CreatedRow
  <2> QED
    BY <2>2
<1>4. r \in Request
  BY <1>1, <1>2 DEF Request
<1>5. req' = [req EXCEPT ![s] = r]
  BY DEF Grant, t
<1>6. r.op = req[s].op /\ r.at = "answered" /\ r.token = t /\ r.user = req[s].user
  BY <1>1 DEF Request
<1>7. Sound(r, rows') /\ Fits(s, r)
  BY <1>2, <1>6 DEF RequestsSound, Sound, Fits
<1> HIDE DEF r
<1> QED
  BY <1>1, <1>3, <1>4, <1>5, <1>7, OneRequest DEF ServerTypeOK

\* A request without a token in its answer commits.
LEMMA DoneKeeps ==
    ASSUME ServerTypeOK, RequestsSound, NEW s \in Slot,
           req[s].op \in {"register", "logout"}, req[s].at = "commit",
           req' = [req EXCEPT ![s].at = "answered", ![s].answer = "ok"],
           rows' \in Seq(Row), DOMAIN rows' = DOMAIN rows,
           status' \in [User -> Status], UNCHANGED <<linked, now>>
    PROVE  ServerTypeOK' /\ RequestsSound'
<1> DEFINE r == [req[s] EXCEPT !.at = "answered", !.answer = "ok"]
<1>1. req[s] \in Request /\ req \in [Slot -> Request]
  BY DEF ServerTypeOK
<1>2. r \in Request /\ req' = [req EXCEPT ![s] = r]
  BY <1>1 DEF Request
<1>3. r.op = req[s].op /\ r.at = "answered" /\ r.user = req[s].user
  BY <1>1 DEF Request
<1>4. Sound(r, rows') /\ Fits(s, r)
  BY <1>3 DEF RequestsSound, Sound, Fits
<1> QED
  BY <1>1, <1>2, <1>4, OneRequest DEF ServerTypeOK

\* Every step of the server keeps the tables and the requests sound.
LEMMA HandleKeeps ==
    ASSUME ServerTypeOK, RequestsSound, NEW s \in Slot, Handle(s)
    PROVE  ServerTypeOK' /\ RequestsSound'
<1>1. /\ req[s] \in Request /\ req \in [Slot -> Request] /\ rows \in Seq(Row)
      /\ status \in [User -> Status] /\ linked \subseteq User
  BY DEF ServerTypeOK
<1>2. Sound(req[s], rows)
  BY DEF RequestsSound
<1>3. CASE Refuse(s) /\ req[s].at \in {"find", "load", "commit"}
  BY <1>3, RefuseKeeps
<1>4. CASE RefreshFind(s) /\ ~Refuse(s)
  <2>1. PICK i \in DOMAIN rows : req' = [req EXCEPT ![s].row = i, ![s].user = req[s].cookie.user,
                                                  ![s].at = "load"]
    BY <1>4 DEF RefreshFind, FindValidByHash
  <2>2. req[s].cookie \in Token /\ req[s].op = "refresh" /\ req[s].at = "find"
    BY <1>1, <1>4 DEF RefreshFind, HasCookie, At, Request
  <2>3. req' = [req EXCEPT ![s] = [@ EXCEPT !.user = req[s].cookie.user, !.row = i,
                                            !.at = "load"]]
    BY <1>1, <2>1 DEF Request
  <2>4. req[s].cookie.user \in User /\ i \in Nat
    BY <1>1, <2>2 DEF Token
  <2>5. UNCHANGED <<status, linked, rows, now>>
    BY <1>4 DEF RefreshFind
  <2> QED
    BY <2>2, <2>3, <2>4, <2>5, GotoKeeps
<1>5. CASE \/ (RefreshLoad(s) \/ LoginLoad(s) \/ RegisterLoad(s) \/ ConfirmLoad(s)) /\ ~Refuse(s)
           \/ GoogleFind(s) \/ GoogleLoad(s)
  <2>1. /\ req[s].at \in {"find", "load"} /\ req[s].user \in User
        /\ req[s].op = "refresh" => req[s].row \in DOMAIN rows
        /\ UNCHANGED <<status, linked, rows, now>>
    BY <1>2, <1>5
    DEF RefreshLoad, LoginLoad, RegisterLoad, ConfirmLoad, GoogleFind, GoogleLoad, At, Goto, Sound
  <2>2. PICK n \in Nat, at \in {"load", "commit"} :
            /\ req' = [req EXCEPT ![s] = [@ EXCEPT !.user = req[s].user, !.row = n, !.at = at]]
            /\ req[s].op = "refresh" => n = req[s].row
    <3>1. req[s].row \in Nat
      BY <1>1 DEF Request
    <3>2. CASE RefreshLoad(s) \/ LoginLoad(s) \/ RegisterLoad(s) \/ ConfirmLoad(s)
      <4>1. req' = [req EXCEPT ![s].at = "commit"]
        BY <1>5, <3>2
        DEF RefreshLoad, LoginLoad, RegisterLoad, ConfirmLoad, Goto, At, GoogleFind, GoogleLoad
      <4>2. req' = [req EXCEPT ![s] = [@ EXCEPT !.user = req[s].user, !.row = req[s].row,
                                                !.at = "commit"]]
        BY <1>1, <4>1 DEF Request
      <4> QED
        BY <3>1, <4>2
    <3>3. CASE GoogleFind(s)
      <4> DEFINE n == IF req[s].user \in linked THEN 1 ELSE 0
      <4>1. req' = [req EXCEPT ![s] = [@ EXCEPT !.user = req[s].user, !.row = n, !.at = "load"]]
        BY <1>1, <3>3 DEF Request, GoogleFind
      <4> QED
        BY <3>3, <4>1 DEF GoogleFind, At
    <3>4. CASE GoogleLoad(s)
      <4> DEFINE n == IF req[s].row = 1 THEN 1
                      ELSE IF status[req[s].user] \in {"unverified", "active"} THEN 2 ELSE 0
      <4>1. req' = [req EXCEPT ![s] = [@ EXCEPT !.user = req[s].user, !.row = n, !.at = "commit"]]
        BY <1>1, <3>4 DEF Request, GoogleLoad
      <4> QED
        BY <3>4, <4>1 DEF GoogleLoad, At
    <3> QED
      BY <1>5, <3>2, <3>3, <3>4
  <2> QED
    BY <2>1, <2>2, GotoKeeps
<1>6. CASE RefreshCommit(s) /\ ~Refuse(s)
  <2>1. /\ req[s].at = "commit" /\ req[s].user \in User /\ req[s].row \in DOMAIN rows
        /\ Grant(s) /\ UNCHANGED <<status, linked, now>>
    BY <1>2, <1>6 DEF RefreshCommit, At, Sound
  <2>2. PICK by \in {"login", "rotation", "overlap"} :
            rows' = GenerateTokens(RevokeById(req[s].row), req[s].user, by)
    BY <1>6 DEF RefreshCommit
  <2> QED
    BY <1>1, <2>1, <2>2, RevokedRow, GrantKeeps
<1>7. CASE (LoginCommit(s) \/ ConfirmCommit(s) \/ GoogleCommit(s)) /\ ~Refuse(s)
  <2>1. /\ req[s].at = "commit" /\ req[s].user \in User /\ Grant(s) /\ UNCHANGED now
        /\ rows' = GenerateTokens(rows, req[s].user, "login")
    BY <1>2, <1>7 DEF LoginCommit, ConfirmCommit, GoogleCommit, At, Sound
  <2>2. status' \in [User -> Status] /\ linked' \subseteq User
    BY <1>1, <1>7, <2>1 DEF LoginCommit, ConfirmCommit, GoogleCommit, Status, Link
  <2> QED
    BY <1>1, <2>1, <2>2, GrantKeeps
<1>8. CASE RegisterCommit(s) /\ ~Refuse(s)
  BY <1>1, <1>8, DoneKeeps DEF RegisterCommit, At, Status
<1>9. CASE Logout(s) /\ ~Refuse(s)
  <2> DEFINE ended == {i \in DOMAIN rows : rows[i].token = req[s].cookie
                                           /\ rows[i].state = "live"}
  <2>1. rows' = [i \in DOMAIN rows |-> IF i \in ended
                     THEN [rows[i] EXCEPT !.state = "revoked"] ELSE rows[i]]
    BY <1>9 DEF Logout, RevokeByHash
  <2>2. rows' \in Seq(Row) /\ DOMAIN rows' = DOMAIN rows
    BY <1>1, <2>1, RowsEndTogether
  <2> QED
    BY <1>1, <1>9, <2>2, DoneKeeps DEF Logout, At
<1>10. req[s].at \in {"find", "load", "commit"}
  BY DEF Handle, RefreshFind, RefreshLoad, RefreshCommit, LoginLoad, LoginCommit, RegisterLoad,
         RegisterCommit, ConfirmLoad, ConfirmCommit, GoogleFind, GoogleLoad, GoogleCommit,
         Logout, At
<1> QED
  BY <1>3, <1>4, <1>5, <1>6, <1>7, <1>8, <1>9, <1>10 DEF Handle

\* The purge ends rows and leaves the requests alone.
LEMMA PurgeKeeps ==
    ASSUME ServerTypeOK, RequestsSound, Purge
    PROVE  ServerTypeOK' /\ RequestsSound'
<1> DEFINE ended == {i \in DOMAIN rows : status[rows[i].token.user] = "deleted"}
<1>1. rows' = [i \in DOMAIN rows |-> IF i \in ended
                   THEN [rows[i] EXCEPT !.state = "purged"] ELSE rows[i]]
  BY DEF Purge
<1>2. rows' \in Seq(Row) /\ DOMAIN rows' = DOMAIN rows
  BY <1>1, RowsEndTogether DEF ServerTypeOK
<1>3. status' \in [User -> Status] /\ linked' \subseteq User
  BY DEF Purge, ServerTypeOK, Status
<1> QED
  BY <1>2, <1>3 DEF Purge, ServerTypeOK, RequestsSound, Sound

\* The clock changes neither rows nor requests.
LEMMA TickKeeps ==
    ASSUME ServerTypeOK, RequestsSound, Tick
    PROVE  ServerTypeOK' /\ RequestsSound'
<1>1. now' \in 0 .. MaxTime
  BY SessionAssumption DEF Tick, ServerTypeOK
<1> QED
  BY <1>1 DEF Tick, ServerTypeOK, RequestsSound

\* A deletion of an account changes its status only.
LEMMA DeleteAccountKeeps ==
    ASSUME ServerTypeOK, RequestsSound, NEW u \in User, DeleteAccount(u)
    PROVE  ServerTypeOK' /\ RequestsSound'
  BY DEF DeleteAccount, ServerTypeOK, RequestsSound, Status

------------------------------------------------------------------------------
(* The requests of the browser.                                            *)

\* A free slot holds a request, and so does one that is used up.
LEMMA IdleTypes == Idle \in Request /\ [Idle EXCEPT !.at = "done"] \in Request
  BY DEF Idle, Request

\* A request that is sent has found nothing yet.
LEMMA StartedKeeps ==
    ASSUME ServerTypeOK, RequestsSound, NEW s \in Slot, NEW op \in Op,
           NEW u \in User \cup {NoUser}, NEW c \in Token \cup {NoToken},
           op \notin {"refresh", "logout"} => u \in User,
           s \in Form <=> op # "refresh",
           req' = [req EXCEPT ![s] = Started(op, u, c)],
           UNCHANGED <<status, linked, rows, now>>
    PROVE  ServerTypeOK' /\ RequestsSound'
<1> DEFINE r == Started(op, u, c)
<1>1. FirstStatement[op] \in {"find", "load", "commit"}
      /\ (FirstStatement[op] = "find" => op \in {"google", "refresh"})
      /\ (op = "refresh" => FirstStatement[op] = "find")
  BY DEF FirstStatement, Op
<1>2. r \in Request /\ r.op = op /\ r.user = u /\ r.at = FirstStatement[op]
  BY <1>1 DEF Started, Idle, Request
<1>3. Sound(r, rows') /\ Fits(s, r)
  BY <1>1, <1>2 DEF Sound, Fits
<1> HIDE DEF r
<1>4. req' = [req EXCEPT ![s] = r]
  BY DEF r
<1> QED
  BY <1>2, <1>3, <1>4, OneRequest DEF ServerTypeOK

\* A slot that is freed has nothing to be sound about.
LEMMA FreedKeeps ==
    ASSUME ServerTypeOK, RequestsSound, NEW s \in Slot,
           req' = [req EXCEPT ![s] = Freed(s)],
           UNCHANGED <<status, linked, rows, now>>
    PROVE  ServerTypeOK' /\ RequestsSound'
<1>1. Freed(s) \in Request /\ Freed(s).at \in {"none", "done"}
  BY IdleTypes DEF Freed, Idle
<1>2. Sound(Freed(s), rows') /\ Fits(s, Freed(s))
  BY <1>1 DEF Sound, Fits
<1> QED
  BY <1>1, <1>2, OneRequest DEF ServerTypeOK

\* A lost answer is a refused one.
LEMMA LoseAnswerKeeps ==
    ASSUME ServerTypeOK, RequestsSound, NEW s \in Slot, LoseAnswer(s)
    PROVE  ServerTypeOK' /\ RequestsSound'
<1> DEFINE r == [req[s] EXCEPT !.answer = "refused"]
<1>1. req[s] \in Request /\ req \in [Slot -> Request]
  BY DEF ServerTypeOK
<1>2. r \in Request /\ req' = [req EXCEPT ![s] = r]
      /\ UNCHANGED <<status, linked, rows, now>>
  BY <1>1 DEF Request, LoseAnswer
<1>3. r.op = req[s].op /\ r.user = req[s].user /\ r.at = "answered" /\ r.answer = "refused"
  BY <1>1 DEF Request, LoseAnswer
<1>4. Sound(r, rows') /\ Fits(s, r)
  BY <1>3 DEF RequestsSound, Sound, Fits, LoseAnswer
<1> QED
  BY <1>1, <1>2, <1>4, OneRequest DEF ServerTypeOK

\* A reload only marks what is in flight.
LEMMA UnloadKeeps ==
    ASSUME ServerTypeOK, RequestsSound, Unload
    PROVE  ServerTypeOK' /\ RequestsSound'
<1>1. \A s \in Slot : req[s] \in Request
  BY DEF ServerTypeOK
<1>2. /\ \A s \in Slot : req'[s] \in {req[s], [req[s] EXCEPT !.dropped = TRUE]}
      /\ req' = [s \in Slot |-> req'[s]]
  BY DEF Unload
<1>3. \A s \in Slot : [req[s] EXCEPT !.dropped = TRUE] \in Request
  BY <1>1 DEF Request
<1>4. req' \in [Slot -> Request]
  BY <1>1, <1>2, <1>3
<1>5. \A s \in Slot : /\ req'[s].op = req[s].op /\ req'[s].at = req[s].at
                      /\ req'[s].user = req[s].user /\ req'[s].row = req[s].row
                      /\ req'[s].answer = req[s].answer /\ req'[s].token = req[s].token
  BY <1>1, <1>2 DEF Request
<1>6. UNCHANGED <<status, linked, rows, now>>
  BY DEF Unload
<1> QED
  BY <1>4, <1>5, <1>6 DEF ServerTypeOK, RequestsSound, Sound, Fits

------------------------------------------------------------------------------
(* The variables of the browser.                                           *)

BrowserTypeOK ==
    /\ {cookie, accessToken} \subseteq Token \cup {NoToken}
    /\ {user, pendingEmail} \subseteq User \cup {NoUser}
    /\ {page, target} \subseteq Page \cup {"blank"}
    /\ busy \subseteq Form
    /\ call \in [Call -> [phase : {"idle", "sent", "refreshing", "settled"},
                          token : Token \cup {NoToken}]]
    /\ lost \in BOOLEAN

\* The guard lets nobody onto the confirmation page without an e-mail.
LEMMA VisitKeeps ==
    ASSUME BrowserTypeOK, NEW to \in Page, Visit(to)
    PROVE  page' \in Page /\ busy' \subseteq Form
           /\ (page' = "confirm" => pendingEmail' # NoUser)
  BY DEF Visit, Guard, BrowserTypeOK, Page

\* What an answer of a form leaves in the store.
LEMMA FormAnsweredKeeps ==
    ASSUME TypeOK, IInv, NEW s \in Form, req[s].at = "answered", FormAnswered(s),
           UNCHANGED lost
    PROVE  BrowserTypeOK' /\ ConfirmHasEmail'
<1>1. /\ s \in Slot /\ req[s] \in Request /\ BrowserTypeOK
      /\ req[s].op \in Op \ {"refresh"}
      /\ req[s].op = "register" => req[s].user \in User
      /\ req[s].op \notin {"register", "logout"} /\ Ok(s) => req[s].token \in Token
  BY BrowserAssumption
  DEF TypeOK, ServerTypeOK, BrowserTypeOK, IInv, RequestsSound, Sound, Fits, Ok
<1>2. UNCHANGED <<target, call, lost>>
  BY DEF FormAnswered
<1>3. req[s].token \in Token => req[s].token.user \in User
  BY DEF Token
<1>4. NoUser \notin User
  BY SessionAssumption
<1>5. \/ LoginAnswered(s) /\ req[s].op = "login"
      \/ GoogleLoginAnswered(s) /\ req[s].op = "google"
      \/ RegisterAnswered(s) /\ req[s].op = "register"
      \/ ConfirmAnswered(s) /\ req[s].op = "confirm"
      \/ LogoutAnswered(s)
  BY <1>1 DEF FormAnswered, Op
<1>6. CASE ~Ok(s) /\ ~LogoutAnswered(s)
  BY <1>1, <1>2, <1>5, <1>6
  DEF LoginAnswered, GoogleLoginAnswered, RegisterAnswered, ConfirmAnswered, BrowserTypeOK,
      IInv, ConfirmHasEmail
<1>7. CASE Ok(s) \/ LogoutAnswered(s)
  <2>1. PICK to \in Page : Visit(to)
    BY <1>5, <1>7
    DEF LoginAnswered, GoogleLoginAnswered, RegisterAnswered, ConfirmAnswered, LogoutAnswered,
        Page
  <2>2. /\ cookie' \in Token \cup {NoToken} /\ accessToken' \in Token \cup {NoToken}
        /\ user' \in User \cup {NoUser} /\ pendingEmail' \in User \cup {NoUser}
    BY <1>1, <1>3, <1>5, <1>7
    DEF LoginAnswered, GoogleLoginAnswered, RegisterAnswered, ConfirmAnswered, LogoutAnswered,
        GoogleSession, SetCookie, StoreSession, ClearCookie, SignOut, BrowserTypeOK
  <2>3. page' \in Page /\ busy' \subseteq Form /\ (page' = "confirm" => pendingEmail' # NoUser)
    BY <1>1, <2>1, VisitKeeps
  <2> QED
    BY <1>1, <1>2, <2>2, <2>3 DEF BrowserTypeOK, ConfirmHasEmail
<1> QED
  BY <1>5, <1>6, <1>7

\* What an answer of a refresh leaves in the store.
LEMMA RefreshAnsweredKeeps ==
    ASSUME TypeOK, IInv, NEW s \in Boot \cup Call, req[s].at = "answered", RefreshAnswered(s)
    PROVE  /\ cookie' \in Token \cup {NoToken} /\ accessToken' \in Token \cup {NoToken}
           /\ user' \in User \cup {NoUser}
<1>1. /\ s \in Slot /\ req[s].op = "refresh" /\ BrowserTypeOK
      /\ Ok(s) => req[s].token \in Token
  BY BrowserAssumption
  DEF TypeOK, ServerTypeOK, BrowserTypeOK, IInv, RequestsSound, Sound, Fits, Ok
<1>2. req[s].token \in Token => req[s].token.user \in User
  BY DEF Token
<1> QED
  BY <1>1, <1>2 DEF RefreshAnswered, SetCookie, StoreSession, SignOut, BrowserTypeOK

\* Every answer that is taken.
LEMMA AnsweredKeeps ==
    ASSUME TypeOK, IInv, NEW s \in Slot, Answered(s)
    PROVE  ServerTypeOK' /\ BrowserTypeOK' /\ IInv'
<1>1. ServerTypeOK' /\ RequestsSound'
  BY FreedKeeps DEF TypeOK, IInv, Answered
<1>2. BrowserTypeOK /\ UNCHANGED lost /\ req[s].at = "answered"
  BY DEF TypeOK, BrowserTypeOK, Answered
<1>3. CASE FormAnswered(s)
  <2>1. s \in Form
    BY <1>3 DEF FormAnswered
  <2> QED
    BY <1>1, <1>2, <1>3, <2>1, FormAnsweredKeeps DEF IInv
<1>4. CASE BootAnswered(s)
  <2>1. /\ cookie' \in Token \cup {NoToken} /\ accessToken' \in Token \cup {NoToken}
        /\ user' \in User \cup {NoUser}
    BY <1>2, <1>4, RefreshAnsweredKeeps DEF BootAnswered
  <2>2. /\ target' = "blank" /\ UNCHANGED <<pendingEmail, call, busy>>
        /\ page' = Guard(target, accessToken' # NoToken, pendingEmail)
    BY <1>4 DEF BootAnswered
  <2>3. page' \in Page \cup {"blank"} /\ (page' = "confirm" => pendingEmail # NoUser)
    BY <1>2, <2>2 DEF Guard, BrowserTypeOK, Page
  <2> QED
    BY <1>1, <1>2, <2>1, <2>2, <2>3 DEF BrowserTypeOK, IInv, ConfirmHasEmail
<1>5. CASE CallRefreshed(s)
  <2>1. /\ cookie' \in Token \cup {NoToken} /\ accessToken' \in Token \cup {NoToken}
        /\ user' \in User \cup {NoUser}
    BY <1>2, <1>5, RefreshAnsweredKeeps DEF CallRefreshed
  <2>2. /\ UNCHANGED <<pendingEmail, target, page, busy>> /\ s \in Call
        /\ call' = [call EXCEPT ![s] = Retried(s)]
    BY <1>5 DEF CallRefreshed, Stay
  <2>3. Retried(s) \in [phase : {"idle", "sent", "refreshing", "settled"},
                        token : Token \cup {NoToken}]
    BY <2>1 DEF Retried, Settled
  <2> QED
    BY <1>1, <1>2, <2>1, <2>2, <2>3 DEF BrowserTypeOK, IInv, ConfirmHasEmail
<1> QED
  BY <1>3, <1>4, <1>5 DEF Answered

\* A form that is submitted.
LEMMA SubmitKeeps ==
    ASSUME TypeOK, IInv, NEW s \in Form, NEW op \in Op \ {"refresh"},
           NEW u \in User \cup {NoUser}, op # "logout" => u \in User, Submit(s, op, u)
    PROVE  ServerTypeOK' /\ BrowserTypeOK' /\ IInv'
<1>1. ServerTypeOK' /\ RequestsSound'
  <2>1. cookie \in Token \cup {NoToken} /\ s \in Slot /\ ServerTypeOK /\ RequestsSound
    BY BrowserAssumption DEF TypeOK, IInv
  <2>2. req' = [req EXCEPT ![s] = Started(op, u, cookie)]
        /\ UNCHANGED <<status, linked, rows, now>>
    BY DEF Submit
  <2>3. (op \notin {"refresh", "logout"} => u \in User) /\ (s \in Form <=> op # "refresh")
    OBVIOUS
  <2> QED
    BY ONLY <2>1, <2>2, <2>3, StartedKeeps, op \in Op, u \in User \cup {NoUser}
<1>2. BrowserTypeOK' /\ ConfirmHasEmail'
  BY DEF Submit, TypeOK, BrowserTypeOK, IInv, ConfirmHasEmail
<1> QED
  BY <1>1, <1>2 DEF IInv

\* A refresh that is sent by a boot or a call.
LEMMA RefreshSentKeeps ==
    ASSUME TypeOK, IInv, NEW s \in Boot \cup Call,
           req' = [req EXCEPT ![s] = Started("refresh", NoUser, cookie)],
           UNCHANGED <<status, linked, rows, now>>
    PROVE  ServerTypeOK' /\ RequestsSound'
<1>1. cookie \in Token \cup {NoToken} /\ s \in Slot /\ s \notin Form
      /\ ServerTypeOK /\ RequestsSound
  BY BrowserAssumption DEF TypeOK, IInv
<1>2. "refresh" \in Op /\ NoUser \in User \cup {NoUser}
      /\ ("refresh" \notin {"refresh", "logout"} => NoUser \in User)
      /\ (s \in Form <=> "refresh" # "refresh")
  BY <1>1 DEF Op
<1> QED
  BY <1>1, <1>2, StartedKeeps

\* Every other step of the browser.
LEMMA BrowserKeeps ==
    ASSUME TypeOK, IInv, Browser
    PROVE  ServerTypeOK' /\ BrowserTypeOK' /\ IInv'
<1>1. BrowserTypeOK /\ ServerTypeOK /\ RequestsSound /\ ConfirmHasEmail
  BY DEF TypeOK, BrowserTypeOK, IInv
<1>2. ASSUME NEW s \in Boot, NEW to \in Opened, Load(s, to)
      PROVE  ServerTypeOK' /\ BrowserTypeOK' /\ IInv'
  <2>1. ServerTypeOK' /\ RequestsSound'
    BY <1>2, RefreshSentKeeps DEF Load
  <2>2. BrowserTypeOK' /\ ConfirmHasEmail'
    BY <1>1, <1>2, BrowserAssumption DEF Load, BrowserTypeOK, ConfirmHasEmail
  <2> QED
    BY <2>1, <2>2 DEF IInv
<1>3. ASSUME NEW to \in Page, Navigate(to)
      PROVE  ServerTypeOK' /\ BrowserTypeOK' /\ IInv'
  <2>1. page' \in Page /\ busy' \subseteq Form /\ (page' = "confirm" => pendingEmail' # NoUser)
    BY <1>1, <1>3, VisitKeeps DEF Navigate
  <2>2. UNCHANGED <<serverVars, cookie, accessToken, user, pendingEmail, target, call, lost>>
    BY <1>3 DEF Navigate
  <2> QED
    BY <1>1, <2>1, <2>2
    DEF BrowserTypeOK, ServerTypeOK, IInv, RequestsSound, ConfirmHasEmail, serverVars
<1>4. ASSUME NEW s \in Form, NEW u \in User,
             HandleLogin(s, u) \/ HandleGoogleLogin(s, u) \/ HandleRegister(s, u)
      PROVE  ServerTypeOK' /\ BrowserTypeOK' /\ IInv'
  <2>1. {"login", "google", "register"} \subseteq Op \ {"refresh"}
    BY DEF Op
  <2> QED
    BY <1>4, <2>1, SubmitKeeps DEF HandleLogin, HandleGoogleLogin, HandleRegister
<1>5. ASSUME NEW s \in Form, HandleConfirm(s)
      PROVE  ServerTypeOK' /\ BrowserTypeOK' /\ IInv'
  <2>1. Submit(s, "confirm", pendingEmail) /\ pendingEmail \in User
        /\ "confirm" \in Op \ {"refresh"}
    BY <1>1, <1>5 DEF HandleConfirm, ConfirmHasEmail, BrowserTypeOK, Op
  <2> QED
    BY <2>1, SubmitKeeps
<1>6. ASSUME NEW s \in Form, HandleLogout(s)
      PROVE  ServerTypeOK' /\ BrowserTypeOK' /\ IInv'
  <2>1. Submit(s, "logout", NoUser) /\ "logout" \in Op \ {"refresh"}
    BY <1>6 DEF HandleLogout, Op
  <2> QED
    BY <2>1, SubmitKeeps
<1>7. ASSUME NEW s \in Slot, Ignored(s)
      PROVE  ServerTypeOK' /\ BrowserTypeOK' /\ IInv'
  <2>1. ServerTypeOK' /\ RequestsSound'
    BY <1>1, <1>7, FreedKeeps DEF Ignored
  <2>2. BrowserTypeOK' /\ ConfirmHasEmail'
    BY <1>1, <1>7 DEF Ignored, BrowserTypeOK, ConfirmHasEmail, SetsCookie
  <2> QED
    BY <2>1, <2>2 DEF IInv
<1>8. ASSUME NEW c \in Call, CallSent(c)
      PROVE  ServerTypeOK' /\ BrowserTypeOK' /\ IInv'
  BY <1>1, <1>8
  DEF CallSent, BrowserTypeOK, ServerTypeOK, IInv, RequestsSound, ConfirmHasEmail, serverVars
<1>9. ASSUME NEW c \in Call, CallAnswered(c)
      PROVE  ServerTypeOK' /\ BrowserTypeOK' /\ IInv'
  <2>1. ServerTypeOK' /\ RequestsSound'
    <3>1. CASE UNCHANGED req
      BY <1>1, <1>9, <3>1 DEF CallAnswered, ServerTypeOK, RequestsSound
    <3>2. CASE req' = [req EXCEPT ![c] = Started("refresh", NoUser, cookie)]
      BY <1>9, <3>2, RefreshSentKeeps DEF CallAnswered
    <3> QED
      BY <1>9, <3>1, <3>2 DEF CallAnswered
  <2>2. BrowserTypeOK' /\ ConfirmHasEmail'
    <3>1. call' \in [Call -> [phase : {"idle", "sent", "refreshing", "settled"},
                              token : Token \cup {NoToken}]]
      BY <1>1, <1>9 DEF CallAnswered, BrowserTypeOK, Settled
    <3> QED
      BY <1>1, <1>9, <3>1 DEF CallAnswered, BrowserTypeOK, ConfirmHasEmail
  <2> QED
    BY <2>1, <2>2 DEF IInv
<1> QED
  BY <1>2, <1>3, <1>4, <1>5, <1>6, <1>7, <1>8, <1>9, AnsweredKeeps DEF Browser

\* A request that fails, an answer that is lost, a reload, an account deleted.
LEMMA FaultKeeps ==
    ASSUME TypeOK, IInv, Fault
    PROVE  ServerTypeOK' /\ BrowserTypeOK' /\ IInv'
<1>1. BrowserTypeOK /\ ServerTypeOK /\ RequestsSound /\ ConfirmHasEmail
  BY DEF TypeOK, BrowserTypeOK, IInv
<1>2. CASE (\E s \in Slot : Fail(s)) /\ UNCHANGED browserVars
  BY <1>1, <1>2, RefuseKeeps
  DEF Fail, browserVars, BrowserTypeOK, IInv, ConfirmHasEmail
<1>3. CASE (\E u \in User : DeleteAccount(u)) /\ UNCHANGED browserVars
  BY <1>1, <1>3, DeleteAccountKeeps DEF browserVars, BrowserTypeOK, IInv, ConfirmHasEmail
<1>4. ASSUME NEW s \in Slot, LoseAnswer(s)
      PROVE  ServerTypeOK' /\ BrowserTypeOK' /\ IInv'
  <2>1. BrowserTypeOK' /\ ConfirmHasEmail'
    BY <1>1, <1>4 DEF LoseAnswer, BrowserTypeOK, ConfirmHasEmail, SetsCookie
  <2> QED
    BY <1>1, <1>4, <2>1, LoseAnswerKeeps DEF IInv
<1>5. CASE Unload
  <2>1. call' \in [Call -> [phase : {"idle", "sent", "refreshing", "settled"},
                            token : Token \cup {NoToken}]]
    BY <1>1, <1>5 DEF Unload, BrowserTypeOK, Settled
  <2>2. BrowserTypeOK' /\ ConfirmHasEmail'
    BY <1>1, <1>5, <2>1 DEF Unload, BrowserTypeOK, ConfirmHasEmail
  <2> QED
    BY <1>1, <1>5, <2>2, UnloadKeeps DEF IInv
<1> QED
  BY <1>2, <1>3, <1>4, <1>5 DEF Fault

\* There are no more faults than events.
LEMMA FaultsCounted ==
    ASSUME TypeOK, Fault
    PROVE  faults' \in 0 .. MaxEvents
<1> DEFINE begun == {s \in Form : req[s].at # "none"} \cup {c \in Call : call[c].phase # "idle"}
<1>1. IsFiniteSet(begun)
  BY BrowserAssumption, FS_Subset, begun \in SUBSET Slot
<1>2. Cardinality(begun) \in Nat
  BY <1>1, FS_CardinalityType
<1>3. faults + Cardinality(begun) < MaxEvents /\ faults' = faults + 1
  BY DEF Fault, Events
<1> HIDE DEF begun
<1> QED
  BY <1>2, <1>3, BrowserAssumption DEF TypeOK

\* Every step of the server, of the browser and every fault keeps the invariant.
LEMMA IInvInductive ==
    ASSUME TypeOK, IInv, [Next]_vars
    PROVE  TypeOK' /\ IInv'
<1>1. BrowserTypeOK /\ ServerTypeOK /\ RequestsSound /\ ConfirmHasEmail
  BY DEF TypeOK, BrowserTypeOK, IInv
<1>2. CASE Server /\ UNCHANGED <<browserVars, faults>>
  <2>1. ServerTypeOK' /\ RequestsSound'
    BY <1>1, <1>2, HandleKeeps, PurgeKeeps, TickKeeps DEF Server
  <2> QED
    BY <1>2, <2>1 DEF browserVars, TypeOK, IInv, ConfirmHasEmail
<1>3. CASE Browser /\ UNCHANGED faults
  BY <1>3, BrowserKeeps DEF TypeOK, BrowserTypeOK
<1>4. CASE Fault
  BY <1>4, FaultKeeps, FaultsCounted DEF TypeOK, BrowserTypeOK
<1>5. CASE UNCHANGED vars
  BY <1>5 DEF vars, serverVars, browserVars, TypeOK, ServerTypeOK, IInv, RequestsSound,
              ConfirmHasEmail
<1> QED
  BY <1>2, <1>3, <1>4, <1>5 DEF Next

\* A browser with or without a session starts soundly.
LEMMA InitSound == Init => TypeOK /\ IInv
<1> SUFFICES ASSUME Init PROVE TypeOK /\ IInv
  OBVIOUS
<1>1. now = 0 /\ now \in 0 .. MaxTime /\ MaxEvents \in Nat /\ Accounts \subseteq User
  BY SessionAssumption, BrowserAssumption DEF Init, ServerInit
<1>2. rows \in Seq(Row) /\ cookie \in Token \cup {NoToken}
  <2>1. CASE rows = <<>> /\ cookie = NoToken
    BY <2>1
  <2>2. ASSUME NEW u \in Accounts, rows = GenerateTokens(<<>>, u, "login"),
               cookie = SignedNow(u)
        PROVE  rows \in Seq(Row) /\ cookie \in Token
    <3>1. SignedNow(u) \in Token
      BY <1>1 DEF SignedNow, Token
    <3>2. rows = CreateRow(<<>>, SignedNow(u), "login") /\ <<>> \in Seq(Row)
      BY <2>2 DEF GenerateTokens
    <3> QED
      BY <2>2, <3>1, <3>2, CreatedRow
  <2> QED
    BY <2>1, <2>2 DEF Init
<1>3. req \in [Slot -> Request] /\ status \in [User -> Status] /\ linked = {}
      /\ \A s \in Slot : req[s] = Idle
  BY IdleTypes DEF Init, ServerInit, Status
<1>4. RequestsSound
  BY <1>3 DEF RequestsSound, Sound, Fits, Idle
<1>5. ServerTypeOK
  BY <1>1, <1>2, <1>3 DEF ServerTypeOK
<1>6. call \in [Call -> [phase : {"idle", "sent", "refreshing", "settled"},
                        token : Token \cup {NoToken}]]
  BY DEF Init, NoCall
<1>7. {page, target} \subseteq Page \cup {"blank"} /\ busy \subseteq Form /\ page # "confirm"
  BY DEF Init
<1>8. lost \in BOOLEAN
  BY Zenon DEF Init
<1>9. faults \in 0 .. MaxEvents
  BY <1>1 DEF Init
<1>10. accessToken = NoToken /\ user = NoUser /\ pendingEmail = NoUser
  BY DEF Init
<1> QED
  BY <1>2, <1>4, <1>5, <1>6, <1>7, <1>8, <1>9, <1>10 DEF TypeOK, IInv, ConfirmHasEmail

\* The types are those of the columns and of the fields of the store; a request
\* that commits has found its user and its row.
THEOREM InductiveInvariant == Spec => [](TypeOK /\ IInv)
<1>1. TypeOK /\ IInv /\ [Next]_vars => (TypeOK /\ IInv)'
  BY IInvInductive
<1> QED
  BY <1>1, InitSound, PTL DEF Spec

\* Every reachable state of the server and of the browser is well-typed.
THEOREM TypeCorrect == Spec => []TypeOK
  BY InductiveInvariant, PTL

\* The confirmation page always has the e-mail its code was sent to, whichever
\* answers arrive after the user has moved on.
THEOREM ConfirmHasEmailAlways == Spec => []ConfirmHasEmail
<1>1. IInv => ConfirmHasEmail
  BY DEF IInv
<1> QED
  BY <1>1, InductiveInvariant, PTL

------------------------------------------------------------------------------
(* One account in the browser.                                             *)

\* The cookie and the token of the store come together, or one of them goes.
LEMMA PairedInductive ==
    ASSUME TypeOK, IInv, CookieOfSession, [Next]_vars
    PROVE  CookieOfSession'
<1>1. \/ UNCHANGED <<cookie, accessToken>>
      \/ accessToken' = NoToken
      \/ accessToken' = cookie'
  <2>1. CASE Server /\ UNCHANGED <<browserVars, faults>>
    BY <2>1 DEF browserVars
  <2>2. CASE Browser
    <3>1. ASSUME NEW s \in Slot, Answered(s)
          PROVE  \/ UNCHANGED <<cookie, accessToken>>
                 \/ accessToken' = NoToken
                 \/ accessToken' = cookie'
      <4>1. CASE FormAnswered(s)
        <5>1. req[s].op \in Op \ {"refresh"}
          BY <3>1, <4>1 DEF IInv, RequestsSound, Fits, Answered, FormAnswered
        <5> QED
          BY <4>1, <5>1
          DEF FormAnswered, Op, LoginAnswered, GoogleLoginAnswered, RegisterAnswered,
              ConfirmAnswered, LogoutAnswered, GoogleSession, SetCookie, StoreSession, SignOut
      <4> QED
        BY <3>1, <4>1
        DEF Answered, BootAnswered, CallRefreshed, RefreshAnswered, SetCookie, StoreSession,
            SignOut
    <3> QED
      BY <2>2, <3>1
      DEF Browser, Load, Navigate, HandleLogin, HandleGoogleLogin, HandleRegister,
          HandleConfirm, HandleLogout, Submit, Ignored, CallSent, CallAnswered
  <2>3. CASE Fault
    BY <2>3 DEF Fault, browserVars, LoseAnswer, Unload
  <2> QED
    BY <2>1, <2>2, <2>3 DEF Next, vars, browserVars
<1> QED
  BY <1>1 DEF CookieOfSession

\* The token of the store and the cookie are of one account, in whatever order
\* the answers of logins, refreshes and logouts arrive.
THEOREM CookieOfSessionAlways == Spec => []CookieOfSession
<1>1. Init => CookieOfSession
  BY DEF Init, CookieOfSession
<1>2. TypeOK /\ IInv /\ CookieOfSession /\ [Next]_vars => CookieOfSession'
  BY PairedInductive
<1> QED
  BY <1>1, <1>2, InductiveInvariant, PTL DEF Spec

------------------------------------------------------------------------------
(* The links of Google identities.                                         *)

\* A request that is refused or still reads changes no table.
Reads(s) ==
    Refuse(s) \/ (RefreshFind(s) \/ RefreshLoad(s) \/ LoginLoad(s) \/ RegisterLoad(s)
                  \/ ConfirmLoad(s) \/ GoogleFind(s) \/ GoogleLoad(s))

\* Such a step leaves accounts, links and rows alone.
LEMMA ReadsNothingChanged ==
    ASSUME NEW s \in Slot, Reads(s)
    PROVE  UNCHANGED <<status, linked, rows>>
  BY DEF Reads, Refuse, RefreshFind, RefreshLoad, LoginLoad, RegisterLoad, ConfirmLoad,
         GoogleFind, GoogleLoad

\* No step leaves a link to an account that is not verified.
LEMMA LinkedInductive ==
    ASSUME TypeOK, IInv, LinkedIsVerified, [Next]_vars
    PROVE  LinkedIsVerified'
<1>1. ASSUME NEW s \in Slot, Handle(s) PROVE LinkedIsVerified'
  <2>1. CASE Reads(s)
    BY <2>1, ReadsNothingChanged DEF LinkedIsVerified
  <2>2. CASE ~Reads(s) /\ (RefreshCommit(s) \/ LoginCommit(s) \/ Logout(s))
    BY <2>2 DEF Reads, RefreshCommit, LoginCommit, Logout, LinkedIsVerified
  <2>3. CASE ~Reads(s) /\ (RegisterCommit(s) \/ ConfirmCommit(s))
    <3>1. status \in [User -> Status] /\ linked \subseteq User /\ req[s].user \in User
      BY <2>3 DEF TypeOK, ServerTypeOK, IInv, RequestsSound, Sound, RegisterCommit,
                  ConfirmCommit, At
    <3> QED
      BY <2>3, <3>1 DEF Reads, RegisterCommit, ConfirmCommit, LinkedIsVerified
  <2>4. CASE ~Reads(s) /\ GoogleCommit(s)
    <3>1. status \in [User -> Status] /\ linked \subseteq User /\ req[s].user \in User
      BY <2>4 DEF TypeOK, ServerTypeOK, IInv, RequestsSound, Sound, GoogleCommit, At
    <3>2. /\ GoogleAccepts(s) /\ linked' = linked \cup {req[s].user}
          /\ status' = [status EXCEPT ![req[s].user] = IF req[s].row = 0 THEN "active" ELSE @]
      BY <2>4 DEF Reads, GoogleCommit, Link
    <3>3. status'[req[s].user] = "active"
      BY <3>1, <3>2 DEF GoogleAccepts, CanLogin
    <3> QED
      BY <3>1, <3>2, <3>3 DEF LinkedIsVerified
  <2> QED
    BY <1>1, <2>1, <2>2, <2>3, <2>4 DEF Handle, Reads
<1>2. CASE Purge
  BY <1>2 DEF Purge, LinkedIsVerified, TypeOK, ServerTypeOK
<1>3. ASSUME NEW u \in User, DeleteAccount(u) PROVE LinkedIsVerified'
  BY <1>3 DEF DeleteAccount, LinkedIsVerified, TypeOK, ServerTypeOK
<1>4. CASE UNCHANGED <<status, linked>>
  BY <1>4 DEF LinkedIsVerified
<1>5. Browser => UNCHANGED <<status, linked>>
  BY DEF Browser, Load, Navigate, HandleLogin, HandleGoogleLogin, HandleRegister, HandleConfirm,
         HandleLogout, Submit, Answered, Ignored, CallSent, CallAnswered, serverVars
<1>6. Fault => UNCHANGED <<status, linked>> \/ \E u \in User : DeleteAccount(u)
  BY DEF Fault, Fail, Refuse, LoseAnswer, Unload
<1>7. Tick => UNCHANGED <<status, linked>>
  BY DEF Tick
<1> QED
  BY <1>1, <1>2, <1>3, <1>4, <1>5, <1>6, <1>7 DEF Next, Server, vars, serverVars

\* A Google identity is linked to verified accounts only: linking another one
\* is rolled back with the login it belongs to.
THEOREM LinkedIsVerifiedAlways == Spec => []LinkedIsVerified
<1>1. Init => LinkedIsVerified
  BY DEF Init, ServerInit, LinkedIsVerified
<1>2. TypeOK /\ IInv /\ LinkedIsVerified /\ [Next]_vars => LinkedIsVerified'
  BY LinkedInductive
<1> QED
  BY <1>1, <1>2, InductiveInvariant, PTL DEF Spec

------------------------------------------------------------------------------
(* The count of the sessions.                                              *)

\* Only finitely many rows are counted.
LEMMA RowsFinite ==
    ASSUME rows \in Seq(Row)
    PROVE  /\ IsFiniteSet(LiveRows) /\ Cardinality(LiveRows) \in Nat
           /\ IsFiniteSet(StartedRows) /\ Cardinality(StartedRows) \in Nat
<1>1. IsFiniteSet(1 .. Len(rows)) /\ DOMAIN rows = 1 .. Len(rows) /\ Len(rows) \in Nat
  BY FS_Interval
<1>2. LiveRows \in SUBSET DOMAIN rows /\ StartedRows \in SUBSET DOMAIN rows
  BY DEF LiveRows, StartedRows
<1>3. IsFiniteSet(LiveRows) /\ IsFiniteSet(StartedRows)
  BY <1>1, <1>2, FS_Subset
<1> QED
  BY <1>3, FS_CardinalityType

\* Rows that end leave no more sessions than before, of as many logins.
LEMMA EndedRowsConserve ==
    ASSUME rows \in Seq(Row), RotationConserves, DOMAIN rows' = DOMAIN rows,
           \A i \in DOMAIN rows :
               rows'[i].by = rows[i].by /\ (rows'[i].state = "live" => rows[i].state = "live")
    PROVE  RotationConserves'
<1>1. LiveRows' \in SUBSET LiveRows /\ StartedRows' = StartedRows
  BY DEF LiveRows, StartedRows
<1>2. Cardinality(LiveRows') <= Cardinality(LiveRows) /\ Cardinality(LiveRows') \in Nat
  BY <1>1, RowsFinite, FS_Subset, FS_CardinalityType
<1> QED
  BY <1>1, <1>2, RowsFinite DEF RotationConserves

\* A login, or a refresh whose row was revoked meanwhile, adds a session and is
\* counted as the start of one.
LEMMA StartedRowConserves ==
    ASSUME rows \in Seq(Row), RotationConserves, NEW n, n \notin DOMAIN rows,
           LiveRows' = LiveRows \cup {n}, StartedRows' = StartedRows \cup {n}
    PROVE  RotationConserves'
<1>1. n \notin LiveRows /\ n \notin StartedRows
  BY DEF LiveRows, StartedRows
<1>2. /\ Cardinality(LiveRows') = Cardinality(LiveRows) + 1
      /\ Cardinality(StartedRows') = Cardinality(StartedRows) + 1
  BY <1>1, RowsFinite, FS_AddElement
<1> QED
  BY <1>2, RowsFinite DEF RotationConserves

\* A rotation puts one session in the place of another.
LEMMA RotatedRowConserves ==
    ASSUME rows \in Seq(Row), RotationConserves, NEW n, NEW i \in LiveRows,
           LiveRows' = (LiveRows \ {i}) \cup {n}, StartedRows' = StartedRows
    PROVE  RotationConserves'
<1>1. /\ IsFiniteSet(LiveRows \ {i})
      /\ Cardinality(LiveRows \ {i}) = Cardinality(LiveRows) - 1
  BY RowsFinite, FS_RemoveElement
<1>2. Cardinality(LiveRows') \in Nat /\ Cardinality(LiveRows') <= Cardinality(LiveRows)
  <2>1. Cardinality(LiveRows') \in {Cardinality(LiveRows \ {i}), Cardinality(LiveRows \ {i}) + 1}
    BY <1>1, FS_AddElement
  <2>2. Cardinality(LiveRows) \in Nat /\ Cardinality(LiveRows \ {i}) \in Nat
    BY <1>1, RowsFinite, FS_CardinalityType
  <2> QED
    BY <1>1, <2>1, <2>2
<1> QED
  BY <1>2, RowsFinite DEF RotationConserves

\* The rows of a request that commits a new token.
LEMMA NewRowConserves ==
    ASSUME rows \in Seq(Row), RotationConserves, NEW t \in Token,
           NEW by \in {"login", "rotation", "overlap"},
           NEW table \in Seq(Row), DOMAIN table = DOMAIN rows,
           rows' = CreateRow(table, t, by),
           \/ by # "rotation" /\ \A i \in DOMAIN rows :
                  table[i].by = rows[i].by /\ (table[i].state = "live" <=> rows[i].state = "live")
           \/ by = "rotation" /\ \E i \in LiveRows :
                  /\ table[i].by = rows[i].by /\ table[i].state = "revoked"
                  /\ \A j \in DOMAIN rows \ {i} : table[j] = rows[j]
    PROVE  RotationConserves'
<1> DEFINE n == Len(table) + 1
<1>1. /\ Len(table) \in Nat /\ DOMAIN rows = 1 .. Len(table)
      /\ DOMAIN rows' = 1 .. Len(table) + 1
      /\ \A i \in DOMAIN rows : rows'[i] = table[i]
      /\ rows'[Len(table) + 1] = [token |-> t, state |-> "live", by |-> by]
  <2>1. /\ DOMAIN table = 1 .. Len(table) /\ Len(table) \in Nat
        /\ DOMAIN rows' = 1 .. Len(table) + 1
        /\ \A i \in DOMAIN table : rows'[i] = table[i]
        /\ rows'[Len(table) + 1] = [token |-> t, state |-> "live", by |-> by]
    <3>1. /\ DOMAIN table = 1 .. Len(table) /\ Len(table) \in Nat
          /\ DOMAIN CreateRow(table, t, by) = 1 .. Len(table) + 1
          /\ \A i \in DOMAIN table : CreateRow(table, t, by)[i] = table[i]
          /\ CreateRow(table, t, by)[Len(table) + 1] = [token |-> t, state |-> "live", by |-> by]
      BY Zenon, CreatedRow
    <3> QED
      BY <3>1
  <2> QED
    BY <2>1
<1>2. n \notin DOMAIN rows /\ DOMAIN rows' = DOMAIN rows \cup {n}
  BY <1>1
<1>3. rows'[n].state = "live" /\ rows'[n].by = by
  BY <1>1
<1>4. \A i \in DOMAIN rows : rows'[i] = table[i]
  BY <1>1
<1> HIDE DEF n
<1>5. CASE by # "rotation"
  <2>1. LiveRows' = LiveRows \cup {n}
    BY <1>2, <1>3, <1>4, <1>5 DEF LiveRows
  <2>2. StartedRows' = StartedRows \cup {n}
    BY <1>2, <1>3, <1>4, <1>5 DEF StartedRows
  <2> QED
    BY <1>2, <2>1, <2>2, StartedRowConserves
<1>6. CASE by = "rotation"
  <2>1. PICK i \in LiveRows : /\ table[i].by = rows[i].by /\ table[i].state = "revoked"
                              /\ \A j \in DOMAIN rows \ {i} : table[j] = rows[j]
    BY <1>6
  <2>2. LiveRows' = (LiveRows \ {i}) \cup {n}
    BY <1>2, <1>3, <1>4, <2>1 DEF LiveRows
  <2>3. StartedRows' = StartedRows
    BY <1>2, <1>3, <1>4, <1>6, <2>1 DEF StartedRows, LiveRows
  <2> QED
    BY <2>2, <2>3, RotatedRowConserves
<1> QED
  BY <1>5, <1>6

\* A refresh that still finds its row live rotates it; the other one overlaps.
LEMMA RefreshConserves ==
    ASSUME TypeOK, IInv, RotationConserves, NEW s \in Slot, RefreshCommit(s), ~Refuse(s)
    PROVE  RotationConserves'
<1> DEFINE i == req[s].row
           t == SignedNow(req[s].user)
           by == IF rows[i].state = "live" THEN "rotation" ELSE "overlap"
<1>1. rows \in Seq(Row) /\ i \in DOMAIN rows /\ t \in Token
  BY DEF TypeOK, ServerTypeOK, IInv, RequestsSound, Sound, RefreshCommit, At, SignedNow, Token
<1>2. rows' = CreateRow(RevokeById(i), t, by)
  BY DEF RefreshCommit, GenerateTokens
<1>3. /\ RevokeById(i) \in Seq(Row) /\ DOMAIN RevokeById(i) = DOMAIN rows
      /\ RevokeById(i)[i] = [rows[i] EXCEPT !.state = "revoked"]
      /\ \A j \in DOMAIN rows \ {i} : RevokeById(i)[j] = rows[j]
  BY <1>1, RevokedRow
<1>4. rows[i] \in Row
  BY <1>1
<1>5. RevokeById(i)[i].by = rows[i].by /\ RevokeById(i)[i].state = "revoked"
  BY <1>3, <1>4 DEF Row
<1>6. by \in {"login", "rotation", "overlap"} /\ (by = "rotation" <=> rows[i].state = "live")
  OBVIOUS
<1>7. rows[i].state = "live" => i \in LiveRows
  BY <1>1 DEF LiveRows
<1> DEFINE table == RevokeById(i)
<1> HIDE DEF i, t, by, table
<1>8. \/ by # "rotation" /\ \A j \in DOMAIN rows :
             table[j].by = rows[j].by /\ (table[j].state = "live" <=> rows[j].state = "live")
      \/ by = "rotation" /\ \E j \in LiveRows :
             /\ table[j].by = rows[j].by /\ table[j].state = "revoked"
             /\ \A k \in DOMAIN rows \ {j} : table[k] = rows[k]
  BY <1>3, <1>5, <1>6, <1>7 DEF table
<1>9. table \in Seq(Row) /\ DOMAIN table = DOMAIN rows /\ rows' = CreateRow(table, t, by)
  BY <1>2, <1>3 DEF table
<1> QED
  BY <1>1, <1>6, <1>8, <1>9, NewRowConserves

\* No step makes more sessions than were started.
LEMMA RotationInductive ==
    ASSUME TypeOK, IInv, RotationConserves, [Next]_vars
    PROVE  RotationConserves'
<1>1. rows \in Seq(Row)
  BY DEF TypeOK, ServerTypeOK
<1>2. CASE UNCHANGED rows
  BY <1>2 DEF RotationConserves, LiveRows, StartedRows
<1>3. ASSUME NEW s \in Slot, Handle(s) PROVE RotationConserves'
  <2>1. CASE Reads(s)
    BY <1>2, <2>1, ReadsNothingChanged
  <2>2. CASE ~Reads(s) /\ (LoginCommit(s) \/ ConfirmCommit(s) \/ GoogleCommit(s))
    <3>1. rows' = CreateRow(rows, SignedNow(req[s].user), "login")
      BY <2>2 DEF Reads, LoginCommit, ConfirmCommit, GoogleCommit, GenerateTokens
    <3>2. SignedNow(req[s].user) \in Token
      BY <2>2 DEF TypeOK, ServerTypeOK, IInv, RequestsSound, Sound, LoginCommit, ConfirmCommit,
                  GoogleCommit, At, SignedNow, Token
    <3>3. /\ "login" \in {"login", "rotation", "overlap"} /\ "login" # "rotation"
          /\ \A i \in DOMAIN rows :
                 rows[i].by = rows[i].by /\ (rows[i].state = "live" <=> rows[i].state = "live")
      OBVIOUS
    <3> QED
      BY <1>1, <3>1, <3>2, <3>3, NewRowConserves
  <2>3. CASE ~Reads(s) /\ RefreshCommit(s)
    BY <2>3, RefreshConserves DEF Reads
  <2>4. CASE ~Reads(s) /\ RegisterCommit(s)
    BY <1>2, <2>4 DEF Reads, RegisterCommit
  <2>5. CASE ~Reads(s) /\ Logout(s)
    <3> DEFINE ended == {i \in DOMAIN rows : rows[i].token = req[s].cookie
                                             /\ rows[i].state = "live"}
    <3>1. rows' = [i \in DOMAIN rows |-> IF i \in ended
                       THEN [rows[i] EXCEPT !.state = "revoked"] ELSE rows[i]]
      BY <2>5 DEF Reads, Logout, RevokeByHash
    <3> QED
      BY <1>1, <3>1, RowsEndTogether, EndedRowsConserve
  <2> QED
    BY <1>3, <2>1, <2>2, <2>3, <2>4, <2>5 DEF Handle, Reads
<1>4. CASE Purge
  <2> DEFINE ended == {i \in DOMAIN rows : status[rows[i].token.user] = "deleted"}
  <2>1. rows' = [i \in DOMAIN rows |-> IF i \in ended
                     THEN [rows[i] EXCEPT !.state = "purged"] ELSE rows[i]]
    BY <1>4 DEF Purge
  <2> QED
    BY <1>1, <2>1, RowsEndTogether, EndedRowsConserve
<1>5. Browser \/ Fault \/ Tick => UNCHANGED rows
  BY DEF Browser, Load, Navigate, HandleLogin, HandleGoogleLogin, HandleRegister, HandleConfirm,
         HandleLogout, Submit, Answered, Ignored, CallSent, CallAnswered, serverVars, Fault,
         Fail, Refuse, LoseAnswer, Unload, DeleteAccount, Tick
<1> QED
  BY <1>2, <1>3, <1>4, <1>5 DEF Next, Server, vars, serverVars

\* A refresh replaces a session: there are never more live rows than logins and
\* refreshes that overlapped another one or a logout.
THEOREM RotationConservesAlways == Spec => []RotationConserves
<1>1. Init => RotationConserves
  <2> SUFFICES ASSUME Init PROVE RotationConserves
    OBVIOUS
  <2>1. TypeOK /\ rows \in Seq(Row)
    BY InitSound DEF TypeOK, ServerTypeOK
  <2>2. LiveRows \in SUBSET StartedRows
    <3>1. CASE rows = <<>>
      BY <3>1 DEF LiveRows
    <3>2. ASSUME NEW u \in Accounts, rows = GenerateTokens(<<>>, u, "login")
          PROVE  \A i \in DOMAIN rows : rows[i].by = "login"
      BY <3>2 DEF GenerateTokens, CreateRow
    <3> QED
      BY <3>1, <3>2 DEF Init, LiveRows, StartedRows
  <2> QED
    BY <2>1, <2>2, RowsFinite, FS_Subset DEF RotationConserves
<1>2. TypeOK /\ IInv /\ RotationConserves /\ [Next]_vars => RotationConserves'
  BY RotationInductive
<1> QED
  BY <1>1, <1>2, InductiveInvariant, PTL DEF Spec

------------------------------------------------------------------------------
(* The cookie that works.                                                  *)

\* A cookie with the token t.
Holds(c, t) == c # NoToken /\ c = t

\* Every token that was ever signed has a row, whatever its state.
Rowed(t, table) == \E i \in DOMAIN table : table[i].token = t

\* Two tokens of one user and second are one string.
Twice(t, table) ==
    \E i, j \in DOMAIN table : i # j /\ table[i].token = t /\ table[j].token = t

\* The token has a live row, has expired, is of a purged account, or has two
\* rows.
Works(t, table, accounts, time) ==
    \/ ~(time < t.iat + RefreshTime)
    \/ accounts[t.user] = "purged"
    \/ Twice(t, table)
    \/ \E i \in DOMAIN table : table[i].token = t /\ table[i].state = "live"

\* A request whose answer brings a cookie, and one that has ended the session
\* of the cookie it was made with.
Gives(r) == r.at = "answered" /\ r.answer = "ok" /\ r.op \notin {"register", "logout"}
Ends(r) == r.at = "answered" /\ r.answer = "ok" /\ r.op \in {"refresh", "logout"}

\* No token is made up.
TokensRowed ==
    /\ cookie # NoToken => Rowed(cookie, rows)
    /\ \A s \in Slot : /\ req[s].cookie # NoToken => Rowed(req[s].cookie, rows)
                       /\ Gives(req[s]) => Rowed(req[s].token, rows)

\* A refresh has found the row of its own cookie.
FoundOwn(r, table) ==
    r.op = "refresh" /\ r.at \in {"load", "commit"} => Holds(r.cookie, table[r.row].token)

RefreshesOwn == \A s \in Slot : FoundOwn(req[s], rows)

\* The token of an answer works until the answer is taken, since nobody else
\* has it: no cookie, no request and no other answer.
AnswersWork == \A s \in Slot : Gives(req[s]) => Works(req[s].token, rows, status, now)

AnswersApart ==
    \A s \in Slot : Gives(req[s]) =>
        \/ Twice(req[s].token, rows)
        \/ /\ ~Holds(cookie, req[s].token)
           /\ \A q \in Slot : /\ ~Holds(req[q].cookie, req[s].token)
                              /\ q # s /\ Gives(req[q]) => req[q].token # req[s].token

\* A call that is on its way has no refresh yet.
CallsApart == \A c \in Call : call[c].phase = "sent" => req[c].at = "none"

\* The cookie works, or what has ended its session is still to be answered.
CookieKept ==
    cookie # NoToken =>
        \/ lost
        \/ Works(cookie, rows, status, now)
        \/ \E s \in Slot : Ends(req[s]) /\ req[s].cookie = cookie

CInv ==
    /\ TokensRowed
    /\ RefreshesOwn
    /\ AnswersWork
    /\ AnswersApart
    /\ CallsApart
    /\ CookieKept

\* The rows keep their tokens and their places.
RowsKept ==
    /\ DOMAIN rows \subseteq DOMAIN rows'
    /\ \A i \in DOMAIN rows : rows'[i].token = rows[i].token

\* What has a row, or two, goes on having them.
LEMMA KeptRows ==
    ASSUME RowsKept, NEW t
    PROVE  /\ Rowed(t, rows) => Rowed(t, rows')
           /\ Twice(t, rows) => Twice(t, rows')
  BY DEF RowsKept, Rowed, Twice

\* A token whose live rows stay live goes on working.
LEMMA StillWorks ==
    ASSUME rows \in Seq(Row), RowsKept, UNCHANGED now, NEW t, Rowed(t, rows),
           \A u \in User : status[u] = "purged" => status'[u] = "purged",
           Works(t, rows, status, now),
           \/ Twice(t, rows)
           \/ \A i \in DOMAIN rows : rows[i].token = t /\ rows[i].state = "live"
                                         => rows'[i].state = "live"
    PROVE  Works(t, rows', status', now')
<1>1. t.user \in User
  <2>1. PICK i \in DOMAIN rows : rows[i].token = t
    BY DEF Rowed
  <2>2. rows[i] \in Row
    OBVIOUS
  <2> QED
    BY <2>1, <2>2 DEF Row, Token
<1> QED
  BY <1>1, KeptRows DEF Works, RowsKept

\* A step of the server for the request s: only a refresh or a logout that
\* commits ends live rows, those of its own cookie, and a token that is
\* answered has a row that is new.
LEMMA RequestMoves ==
    ASSUME req \in [Slot -> Request], rows \in Seq(Row), RequestsSound, CInv,
           NEW s \in Slot, req[s].at \in {"find", "load", "commit"},
           NEW r, req' = [req EXCEPT ![s] = r],
           r.op = req[s].op, r.cookie = req[s].cookie,
           UNCHANGED <<now, cookie, call, lost>>, RowsKept,
           \A u \in User : status[u] = "purged" => status'[u] = "purged",
           \A i \in DOMAIN rows : rows[i].state = "live" =>
               rows'[i].state = "live" \/ (Ends(r) /\ Holds(r.cookie, rows[i].token)),
           Gives(r) => \E n \in DOMAIN rows' \ DOMAIN rows :
                           rows'[n].token = r.token /\ rows'[n].state = "live",
           FoundOwn(r, rows')
    PROVE  CInv'
<1>1. /\ req'[s] = r /\ ~Gives(req[s]) /\ ~Ends(req[s])
      /\ \A q \in Slot \ {s} : req'[q] = req[q]
      /\ \A q \in Slot : req'[q].cookie = req[q].cookie
  BY DEF Gives, Ends
<1>2. Gives(r) => Rowed(r.token, rows') /\ Works(r.token, rows', status', now')
                  /\ (Rowed(r.token, rows) => Twice(r.token, rows'))
  BY DEF Rowed, Works, Twice, RowsKept
<1>3. TokensRowed'
  <2>1. cookie # NoToken => Rowed(cookie, rows')
    BY KeptRows DEF CInv, TokensRowed
  <2>2. ASSUME NEW q \in Slot
        PROVE  /\ req'[q].cookie # NoToken => Rowed(req'[q].cookie, rows')
               /\ Gives(req'[q]) => Rowed(req'[q].token, rows')
    BY <1>1, <1>2, KeptRows DEF CInv, TokensRowed
  <2> QED
    BY <2>1, <2>2 DEF TokensRowed
<1>4. RefreshesOwn'
  <2>1. \A q \in Slot \ {s} : req[q].op = "refresh" /\ req[q].at \in {"load", "commit"} =>
            Holds(req[q].cookie, rows'[req[q].row].token)
    BY DEF CInv, RefreshesOwn, FoundOwn, RowsKept, RequestsSound, Sound
  <2> QED
    BY <1>1, <2>1 DEF RefreshesOwn, FoundOwn
<1>5. AnswersWork'
  <2> SUFFICES ASSUME NEW q \in Slot, Gives(req'[q])
               PROVE  Works(req'[q].token, rows', status', now')
    BY DEF AnswersWork
  <2>1. CASE q = s
    BY <1>1, <1>2, <2>1
  <2>2. CASE q # s
    <3>1. /\ req'[q] = req[q] /\ Gives(req[q]) /\ Rowed(req[q].token, rows)
          /\ Works(req[q].token, rows, status, now)
      BY <1>1, <2>2 DEF CInv, TokensRowed, AnswersWork
    <3>2. Twice(req[q].token, rows) \/ ~Holds(r.cookie, req[q].token)
      BY <3>1 DEF CInv, AnswersApart
    <3> QED
      BY <3>1, <3>2, StillWorks
  <2> QED
    BY <2>1, <2>2
<1>6. AnswersApart'
  <2> SUFFICES ASSUME NEW q \in Slot, Gives(req'[q]), ~Twice(req'[q].token, rows')
               PROVE  /\ ~Holds(cookie, req'[q].token)
                      /\ \A p \in Slot :
                             /\ ~Holds(req'[p].cookie, req'[q].token)
                             /\ p # q /\ Gives(req'[p]) => req'[p].token # req'[q].token
    BY DEF AnswersApart
  <2>1. CASE q = s
    <3>1. ~Rowed(r.token, rows) /\ req'[q] = r
      BY <1>1, <1>2, <2>1
    <3> QED
      BY <1>1, <2>1, <3>1 DEF CInv, TokensRowed, Holds
  <2>2. CASE q # s
    <3>1. req'[q] = req[q] /\ Gives(req[q]) /\ Rowed(req[q].token, rows)
      BY <1>1, <2>2 DEF CInv, TokensRowed
    <3>2. ~Twice(req[q].token, rows)
      BY <3>1, KeptRows
    <3>3. Gives(r) => r.token # req[q].token
      BY <1>2, <3>1
    <3> QED
      BY <1>1, <3>1, <3>2, <3>3 DEF CInv, AnswersApart
  <2> QED
    BY <2>1, <2>2
<1>7. CallsApart'
  BY <1>1, BrowserAssumption DEF CInv, CallsApart
<1>8. CookieKept'
  <2> SUFFICES ASSUME cookie # NoToken, ~lost
               PROVE  \/ Works(cookie, rows', status', now')
                      \/ \E q \in Slot : Ends(req'[q]) /\ req'[q].cookie = cookie
    BY DEF CookieKept
  <2>1. CASE Ends(r) /\ r.cookie = cookie
    BY <1>1, <2>1
  <2>2. CASE ~(Ends(r) /\ r.cookie = cookie) /\ Works(cookie, rows, status, now)
    <3>1. Rowed(cookie, rows)
      BY DEF CInv, TokensRowed
    <3>2. \A i \in DOMAIN rows : rows[i].token = cookie /\ rows[i].state = "live"
                                     => rows'[i].state = "live"
      BY <2>2 DEF Holds
    <3> QED
      BY <2>2, <3>1, <3>2, StillWorks
  <2>3. CASE \E q \in Slot : Ends(req[q]) /\ req[q].cookie = cookie
    BY <1>1, <2>3
  <2> QED
    BY <2>1, <2>2, <2>3 DEF CInv, CookieKept
<1> QED
  BY <1>3, <1>4, <1>5, <1>6, <1>7, <1>8 DEF CInv

\* The purge, the clock and a deletion keep what works working, or end it by
\* its time or its account.
LEMMA TablesMove ==
    ASSUME RequestsSound, CInv, RowsKept, UNCHANGED <<req, cookie, call, lost>>,
           \A t : Rowed(t, rows) /\ Works(t, rows, status, now) => Works(t, rows', status', now')
    PROVE  CInv'
<1>1. TokensRowed'
  BY KeptRows DEF CInv, TokensRowed
<1>2. AnswersWork' /\ CookieKept'
  BY DEF CInv, TokensRowed, AnswersWork, CookieKept
<1>3. AnswersApart'
  BY KeptRows DEF CInv, AnswersApart
<1>4. RefreshesOwn' /\ CallsApart'
  BY DEF CInv, RefreshesOwn, FoundOwn, RequestsSound, Sound, RowsKept, CallsApart
<1> QED
  BY <1>1, <1>2, <1>3, <1>4 DEF CInv

\* A request that is sent takes the cookie with it, and no token.
LEMMA RequestStarts ==
    ASSUME req \in [Slot -> Request], CInv, NEW s \in Slot, req[s].at = "none",
           NEW r, req' = [req EXCEPT ![s] = r], r.cookie = cookie,
           r.at # "answered", r.op = "refresh" => r.at = "find",
           UNCHANGED <<status, rows, now, cookie, lost>>,
           \A c \in Call : call'[c].phase = "sent" => call[c].phase = "sent" /\ c # s
    PROVE  CInv'
<1>1. /\ req'[s] = r /\ ~Gives(r) /\ ~Ends(r) /\ ~Gives(req[s]) /\ ~Ends(req[s])
      /\ \A q \in Slot \ {s} : req'[q] = req[q]
      /\ \A q \in Slot : req'[q].cookie \in {req[q].cookie, cookie}
  BY DEF Gives, Ends
<1>2. TokensRowed'
  BY <1>1 DEF CInv, TokensRowed
<1>3. RefreshesOwn'
  BY <1>1 DEF CInv, RefreshesOwn, FoundOwn
<1>4. AnswersWork'
  BY <1>1 DEF CInv, AnswersWork
<1>5. AnswersApart'
  BY <1>1 DEF CInv, AnswersApart
<1>6. CallsApart'
  BY <1>1, BrowserAssumption DEF CInv, CallsApart
<1>7. CookieKept'
  BY <1>1 DEF CInv, CookieKept
<1> QED
  BY <1>2, <1>3, <1>4, <1>5, <1>6, <1>7 DEF CInv

\* An answer is taken, ignored or lost: the cookie is cleared or replaced by
\* the token it brings; or else it says of the cookie nothing that is not lost.
LEMMA RequestEnds ==
    ASSUME req \in [Slot -> Request], CInv, NEW s \in Slot, req[s].at = "answered",
           NEW r, req' = [req EXCEPT ![s] = r], r.cookie \in {NoToken, req[s].cookie},
           ~Gives(r), ~Ends(r), r.at \notin {"load", "commit"},
           UNCHANGED <<status, rows, now>>, lost => lost',
           \/ cookie' = NoToken
           \/ Gives(req[s]) /\ cookie' = req[s].token
           \/ cookie' = cookie /\ (Ends(req[s]) => lost'),
           \A c \in Call : call'[c].phase = "sent" =>
               call[c].phase = "sent" \/ (c = s /\ r.at = "none")
    PROVE  CInv'
<1>1. /\ req'[s] = r
      /\ \A q \in Slot \ {s} : req'[q] = req[q]
      /\ \A q \in Slot : req'[q].cookie \in {req[q].cookie, NoToken}
      /\ \A q \in Slot : Gives(req'[q]) => q # s /\ Gives(req[q]) /\ req'[q] = req[q]
  OBVIOUS
<1>2. TokensRowed'
  BY <1>1 DEF CInv, TokensRowed
<1>3. RefreshesOwn'
  BY <1>1 DEF CInv, RefreshesOwn, FoundOwn
<1>4. AnswersWork'
  BY <1>1 DEF CInv, AnswersWork
<1>5. AnswersApart'
  <2> SUFFICES ASSUME NEW q \in Slot, q # s, Gives(req[q]), ~Twice(req[q].token, rows)
               PROVE  /\ ~Holds(cookie', req[q].token)
                      /\ \A p \in Slot :
                             /\ ~Holds(req'[p].cookie, req[q].token)
                             /\ p # q /\ Gives(req'[p]) => req'[p].token # req[q].token
    BY <1>1 DEF AnswersApart
  <2>1. /\ ~Holds(cookie, req[q].token)
        /\ \A p \in Slot : /\ ~Holds(req[p].cookie, req[q].token)
                           /\ p # q /\ Gives(req[p]) => req[p].token # req[q].token
    BY DEF CInv, AnswersApart
  <2> QED
    BY <1>1, <2>1 DEF Holds
<1>6. CallsApart'
  BY <1>1, BrowserAssumption DEF CInv, CallsApart
<1>7. CookieKept'
  <2>1. CASE cookie' = NoToken
    BY <2>1 DEF CookieKept
  <2>2. CASE Gives(req[s]) /\ cookie' = req[s].token
    BY <2>2 DEF CInv, AnswersWork, CookieKept
  <2>3. CASE cookie' = cookie /\ (Ends(req[s]) => lost')
    BY <1>1, <2>3 DEF CInv, CookieKept
  <2> QED
    BY <2>1, <2>2, <2>3
<1> QED
  BY <1>2, <1>3, <1>4, <1>5, <1>6, <1>7 DEF CInv

\* Neither a token nor a request is touched, save for a call that is sent
\* without a refresh of its own.
LEMMA NothingMoves ==
    ASSUME CInv, UNCHANGED <<status, rows, now, cookie, lost>>,
           \A q \in Slot : /\ req'[q].op = req[q].op /\ req'[q].at = req[q].at
                           /\ req'[q].answer = req[q].answer /\ req'[q].row = req[q].row
                           /\ req'[q].cookie = req[q].cookie /\ req'[q].token = req[q].token,
           \A c \in Call : call'[c].phase = "sent" =>
               call[c].phase = "sent" \/ req[c].at = "none"
    PROVE  CInv'
<1>1. \A q \in Slot : /\ Gives(req'[q]) <=> Gives(req[q])
                      /\ Ends(req'[q]) <=> Ends(req[q])
                      /\ FoundOwn(req[q], rows) => FoundOwn(req'[q], rows)
  BY DEF Gives, Ends, FoundOwn
<1>2. TokensRowed' /\ RefreshesOwn' /\ AnswersWork'
  BY <1>1 DEF CInv, TokensRowed, RefreshesOwn, AnswersWork
<1>3. AnswersApart' /\ CookieKept'
  BY <1>1 DEF CInv, AnswersApart, CookieKept
<1>4. CallsApart'
  BY BrowserAssumption DEF CInv, CallsApart
<1> QED
  BY <1>2, <1>3, <1>4 DEF CInv

\* A refresh goes on with a row of its cookie, or is refused.
LEMMA RowFound ==
    ASSUME NEW s \in Slot, RefreshFind(s), ~Refuse(s)
    PROVE  /\ UNCHANGED <<status, rows, now>> /\ HasCookie(s)
           /\ \E i \in DOMAIN rows :
                  /\ rows[i].token = req[s].cookie
                  /\ req' = [req EXCEPT ![s].row = i, ![s].user = req[s].cookie.user,
                                        ![s].at = "load"]
<1> DEFINE found == IF HasCookie(s) /\ VerifyRefreshToken(req[s].cookie)
                    THEN FindValidByHash(req[s].cookie) ELSE {}
           To(i) == req' = [req EXCEPT ![s].row = i, ![s].user = req[s].cookie.user,
                                       ![s].at = "load"]
<1>1. \E i \in found : To(i) /\ UNCHANGED <<status, linked, rows, now>>
  BY Zenon DEF RefreshFind
<1> HIDE DEF To
<1>2. CASE HasCookie(s) /\ VerifyRefreshToken(req[s].cookie)
  <2>1. PICK i \in FindValidByHash(req[s].cookie) :
            To(i) /\ UNCHANGED <<status, linked, rows, now>>
    BY <1>1, <1>2, Zenon
  <2>2. i \in DOMAIN rows /\ rows[i].token = req[s].cookie
    BY DEF FindValidByHash
  <2> QED
    BY <1>2, <2>1, <2>2, Zenon DEF To
<1>3. CASE ~(HasCookie(s) /\ VerifyRefreshToken(req[s].cookie))
  BY <1>1, <1>3, Zenon
<1> QED
  BY <1>2, <1>3, Zenon

\* A request that reads or is refused.
LEMMA ReadMoves ==
    ASSUME TypeOK, IInv, CInv, NEW s \in Slot, req[s].at \in {"find", "load", "commit"},
           Reads(s), UNCHANGED <<cookie, call, lost>>
    PROVE  CInv'
<1>1. req[s] \in Request /\ req \in [Slot -> Request] /\ rows \in Seq(Row) /\ RequestsSound
  BY DEF TypeOK, ServerTypeOK, IInv
<1>2. UNCHANGED <<status, rows, now>>
  <2>1. Refuse(s) => UNCHANGED <<status, rows, now>>
    BY DEF Refuse
  <2>2. GoogleFind(s) \/ GoogleLoad(s) => UNCHANGED <<status, rows, now>>
    BY DEF GoogleFind, GoogleLoad
  <2>3. LoginLoad(s) \/ RegisterLoad(s) \/ ConfirmLoad(s) => UNCHANGED <<status, rows, now>>
    BY <2>1 DEF LoginLoad, RegisterLoad, ConfirmLoad
  <2>4. RefreshLoad(s) => UNCHANGED <<status, rows, now>>
    BY <2>1 DEF RefreshLoad
  <2>5. RefreshFind(s) => UNCHANGED <<status, rows, now>>
    BY <2>1, RowFound, Zenon
  <2> QED
    BY <2>1, <2>2, <2>3, <2>4, <2>5 DEF Reads
<1> DEFINE Same(r) == /\ r.op = req[s].op /\ r.cookie = req[s].cookie
                      /\ ~Gives(r) /\ FoundOwn(r, rows)
<1>3. \E r : req' = [req EXCEPT ![s] = r] /\ Same(r)
  <2>1. CASE Refuse(s)
    <3> DEFINE r == [req[s] EXCEPT !.at = "answered", !.answer = "refused"]
    <3>1. req' = [req EXCEPT ![s] = r]
      BY <2>1 DEF Refuse
    <3>2. r.op = req[s].op /\ r.cookie = req[s].cookie /\ r.at = "answered"
          /\ r.answer = "refused"
      BY <1>1 DEF Request
    <3>3. Same(r)
      BY <3>2 DEF Gives, FoundOwn
    <3> HIDE DEF r, Same
    <3> QED
      BY <3>1, <3>3
  <2>2. CASE RefreshFind(s) /\ ~Refuse(s)
    <3>1. PICK i \in DOMAIN rows :
              /\ rows[i].token = req[s].cookie
              /\ req' = [req EXCEPT ![s].row = i, ![s].user = req[s].cookie.user,
                                    ![s].at = "load"]
      BY <2>2, RowFound, Zenon
    <3>2. req[s].cookie # NoToken
      BY <2>2, RowFound, Zenon DEF HasCookie
    <3> DEFINE r == [req[s] EXCEPT !.row = i, !.user = req[s].cookie.user, !.at = "load"]
    <3>3. req' = [req EXCEPT ![s] = r]
      BY <3>1
    <3>4. /\ r.op = req[s].op /\ r.cookie = req[s].cookie /\ r.at = "load" /\ r.row = i
          /\ rows[i].token = r.cookie /\ r.cookie # NoToken
      BY <1>1, <3>1, <3>2 DEF Request
    <3>5. Same(r)
      BY <3>4 DEF Gives, FoundOwn, Holds
    <3> HIDE DEF r, Same
    <3> QED
      BY <3>3, <3>5
  <2>3. CASE RefreshLoad(s) /\ ~Refuse(s)
    <3> DEFINE r == [req[s] EXCEPT !.at = "commit"]
    <3>1. req' = [req EXCEPT ![s] = r] /\ req[s].at = "load"
      BY <2>3 DEF RefreshLoad, Goto, At
    <3>2. /\ r.op = req[s].op /\ r.cookie = req[s].cookie /\ r.at = "commit"
          /\ r.row = req[s].row
      BY <1>1 DEF Request
    <3>3. Same(r)
      BY <3>1, <3>2 DEF Gives, FoundOwn, CInv, RefreshesOwn
    <3> HIDE DEF r, Same
    <3> QED
      BY <3>1, <3>3
  <2>4. CASE (LoginLoad(s) \/ RegisterLoad(s) \/ ConfirmLoad(s)) /\ ~Refuse(s)
    <3> DEFINE r == [req[s] EXCEPT !.at = "commit"]
    <3>1. req' = [req EXCEPT ![s] = r] /\ req[s].op # "refresh"
      BY <2>4 DEF LoginLoad, RegisterLoad, ConfirmLoad, Goto, At
    <3>2. r.op = req[s].op /\ r.cookie = req[s].cookie /\ r.at = "commit"
      BY <1>1 DEF Request
    <3>3. Same(r)
      BY <3>1, <3>2 DEF Gives, FoundOwn
    <3> HIDE DEF r, Same
    <3> QED
      BY <3>1, <3>3
  <2>5. CASE GoogleFind(s)
    <3> DEFINE r == [req[s] EXCEPT !.row = IF req[s].user \in linked THEN 1 ELSE 0,
                                   !.at = "load"]
    <3>1. req' = [req EXCEPT ![s] = r] /\ req[s].op # "refresh"
      BY <2>5 DEF GoogleFind, At
    <3>2. r.op = req[s].op /\ r.cookie = req[s].cookie /\ r.at = "load"
      BY <1>1 DEF Request
    <3>3. Same(r)
      BY <3>1, <3>2 DEF Gives, FoundOwn
    <3> HIDE DEF r, Same
    <3> QED
      BY <3>1, <3>3
  <2>6. CASE GoogleLoad(s)
    <3> DEFINE r == [req[s] EXCEPT
                       !.row = IF @ = 1 THEN 1
                               ELSE IF status[req[s].user] \in {"unverified", "active"}
                               THEN 2 ELSE 0,
                       !.at = "commit"]
    <3>1. req' = [req EXCEPT ![s] = r] /\ req[s].op # "refresh"
      BY <2>6 DEF GoogleLoad, At
    <3>2. r.op = req[s].op /\ r.cookie = req[s].cookie /\ r.at = "commit"
      BY <1>1 DEF Request
    <3>3. Same(r)
      BY <3>1, <3>2 DEF Gives, FoundOwn
    <3> HIDE DEF r, Same
    <3> QED
      BY <3>1, <3>3
  <2> QED
    BY <2>1, <2>2, <2>3, <2>4, <2>5, <2>6 DEF Reads
<1>4. PICK r : req' = [req EXCEPT ![s] = r] /\ Same(r)
  BY <1>3
<1>5. /\ RowsKept /\ FoundOwn(r, rows')
      /\ \A i \in DOMAIN rows : rows[i].state = "live" => rows'[i].state = "live"
      /\ \A u \in User : status[u] = "purged" => status'[u] = "purged"
  BY <1>2, <1>4 DEF RowsKept
<1> QED
  BY <1>1, <1>2, <1>4, <1>5, RequestMoves

\* A request that commits a new token and ends no row, or the row of the
\* cookie it refreshes.
LEMMA GrantMoves ==
    ASSUME TypeOK, IInv, CInv, NEW s \in Slot, req[s].at = "commit", req[s].user \in User,
           Grant(s), NEW by \in {"login", "rotation", "overlap"},
           NEW table \in Seq(Row), DOMAIN table = DOMAIN rows,
           rows' = GenerateTokens(table, req[s].user, by),
           \A i \in DOMAIN rows : table[i].token = rows[i].token,
           \A i \in DOMAIN rows : rows[i].state = "live" =>
               \/ table[i].state = "live"
               \/ req[s].op = "refresh" /\ Holds(req[s].cookie, rows[i].token),
           \A u \in User : status[u] = "purged" => status'[u] = "purged",
           UNCHANGED <<now, cookie, call, lost>>
    PROVE  CInv'
<1> DEFINE t == SignedNow(req[s].user)
           r == [req[s] EXCEPT !.at = "answered", !.answer = "ok", !.token = t]
           n == Len(table) + 1
<1>1. /\ req[s] \in Request /\ req \in [Slot -> Request] /\ rows \in Seq(Row)
      /\ RequestsSound /\ now \in 0 .. MaxTime
  BY DEF TypeOK, ServerTypeOK, IInv
<1>2. t \in Token
  BY <1>1 DEF SignedNow, Token
<1>3. req' = [req EXCEPT ![s] = r]
  BY DEF Grant
<1>4. /\ r.op = req[s].op /\ r.cookie = req[s].cookie /\ r.at = "answered"
      /\ r.answer = "ok" /\ r.token = t
  BY <1>1 DEF Request
<1>5. rows' = CreateRow(table, t, by)
  BY DEF GenerateTokens
<1> HIDE DEF t, r
<1>6. /\ DOMAIN rows = 1 .. Len(table) /\ Len(table) \in Nat
      /\ DOMAIN rows' = 1 .. Len(table) + 1
      /\ \A i \in DOMAIN rows : rows'[i] = table[i]
      /\ rows'[Len(table) + 1] = [token |-> t, state |-> "live", by |-> by]
  <2>1. /\ DOMAIN table = 1 .. Len(table) /\ Len(table) \in Nat
        /\ DOMAIN CreateRow(table, t, by) = 1 .. Len(table) + 1
        /\ \A i \in DOMAIN table : CreateRow(table, t, by)[i] = table[i]
        /\ CreateRow(table, t, by)[Len(table) + 1] = [token |-> t, state |-> "live", by |-> by]
    BY Zenon, <1>2, CreatedRow
  <2> QED
    BY <1>5, <2>1
<1>7. /\ RowsKept /\ n \in DOMAIN rows' \ DOMAIN rows
      /\ rows'[n].token = t /\ rows'[n].state = "live"
  BY <1>6 DEF RowsKept
<1>8. \A i \in DOMAIN rows : rows[i].state = "live" =>
          rows'[i].state = "live" \/ (Ends(r) /\ Holds(r.cookie, rows[i].token))
  BY <1>4, <1>6 DEF Ends
<1>9. Gives(r) => \E m \in DOMAIN rows' \ DOMAIN rows :
                      rows'[m].token = r.token /\ rows'[m].state = "live"
  BY <1>4, <1>7
<1>10. FoundOwn(r, rows')
  BY <1>4 DEF FoundOwn
<1> QED
  BY <1>1, <1>3, <1>4, <1>7, <1>8, <1>9, <1>10, RequestMoves

\* A request that commits without a token: a registration, which has no
\* session, or a logout, which ends the rows of its cookie.
LEMMA DoneMoves ==
    ASSUME TypeOK, IInv, CInv, NEW s \in Slot, req[s].op \in {"register", "logout"},
           req[s].at = "commit",
           req' = [req EXCEPT ![s].at = "answered", ![s].answer = "ok"],
           RowsKept,
           \A i \in DOMAIN rows : rows[i].state = "live" =>
               \/ rows'[i].state = "live"
               \/ req[s].op = "logout" /\ Holds(req[s].cookie, rows[i].token),
           \A u \in User : status[u] = "purged" => status'[u] = "purged",
           UNCHANGED <<now, cookie, call, lost>>
    PROVE  CInv'
<1> DEFINE r == [req[s] EXCEPT !.at = "answered", !.answer = "ok"]
<1>1. /\ req[s] \in Request /\ req \in [Slot -> Request] /\ rows \in Seq(Row)
      /\ RequestsSound
  BY DEF TypeOK, ServerTypeOK, IInv
<1>2. req' = [req EXCEPT ![s] = r]
  BY <1>1 DEF Request
<1>3. /\ r.op = req[s].op /\ r.cookie = req[s].cookie /\ r.at = "answered"
      /\ r.answer = "ok"
  BY <1>1 DEF Request
<1> HIDE DEF r
<1>4. ~Gives(r) /\ FoundOwn(r, rows') /\ (r.op = "logout" => Ends(r))
  BY <1>3 DEF Gives, FoundOwn, Ends
<1> QED
  BY <1>1, <1>2, <1>3, <1>4, RequestMoves

\* Rows that end keep their tokens.
LEMMA EndedRows ==
    ASSUME rows \in Seq(Row), NEW ended \in SUBSET (DOMAIN rows),
           NEW state \in {"revoked", "purged"},
           rows' = [i \in DOMAIN rows |-> IF i \in ended
                       THEN [rows[i] EXCEPT !.state = state] ELSE rows[i]]
    PROVE  RowsKept /\ \A i \in DOMAIN rows \ ended : rows'[i] = rows[i]
<1>1. \A i \in DOMAIN rows : rows[i] \in Row
  OBVIOUS
<1>2. \A i \in DOMAIN rows : [rows[i] EXCEPT !.state = state].token = rows[i].token
  BY <1>1 DEF Row
<1> QED
  BY <1>2 DEF RowsKept

\* Every step of the server for a request.
LEMMA HandleMoves ==
    ASSUME TypeOK, IInv, CInv, NEW s \in Slot, Handle(s), UNCHANGED <<cookie, call, lost>>
    PROVE  CInv'
<1>1. /\ req[s] \in Request /\ req \in [Slot -> Request] /\ rows \in Seq(Row)
      /\ status \in [User -> Status] /\ now \in 0 .. MaxTime
      /\ RequestsSound /\ Sound(req[s], rows)
  BY DEF TypeOK, ServerTypeOK, IInv, RequestsSound
<1>2. req[s].at \in {"find", "load", "commit"}
  BY ZenonT(40)
  DEF Handle, RefreshFind, RefreshLoad, RefreshCommit, LoginLoad, LoginCommit, RegisterLoad,
      RegisterCommit, ConfirmLoad, ConfirmCommit, GoogleFind, GoogleLoad, GoogleCommit, Logout,
      At
<1>3. CASE Reads(s)
  BY <1>2, <1>3, ReadMoves
<1>4. CASE ~Reads(s) /\ RefreshCommit(s)
  <2> DEFINE i == req[s].row
             by == IF rows[i].state = "live" THEN "rotation" ELSE "overlap"
  <2>1. /\ req[s].op = "refresh" /\ req[s].at = "commit" /\ Grant(s)
        /\ UNCHANGED <<status, linked, now>>
        /\ rows' = GenerateTokens(RevokeById(i), req[s].user, by)
    BY <1>4 DEF Reads, RefreshCommit, At
  <2>2. i \in DOMAIN rows /\ req[s].user \in User /\ Holds(req[s].cookie, rows[i].token)
    BY <1>1, <2>1 DEF Sound, CInv, RefreshesOwn, FoundOwn
  <2>3. /\ RevokeById(i) \in Seq(Row) /\ DOMAIN RevokeById(i) = DOMAIN rows
        /\ RevokeById(i)[i] = [rows[i] EXCEPT !.state = "revoked"]
        /\ \A j \in DOMAIN rows \ {i} : RevokeById(i)[j] = rows[j]
    BY <1>1, <2>2, RevokedRow
  <2>4. [rows[i] EXCEPT !.state = "revoked"].token = rows[i].token
    BY <1>1, <2>2 DEF Row
  <2>5. by \in {"login", "rotation", "overlap"}
    OBVIOUS
  <2> DEFINE table == RevokeById(i)
  <2> HIDE DEF table, by
  <2>6. /\ table \in Seq(Row) /\ DOMAIN table = DOMAIN rows
        /\ rows' = GenerateTokens(table, req[s].user, by)
        /\ \A j \in DOMAIN rows : table[j].token = rows[j].token
        /\ \A j \in DOMAIN rows : rows[j].state = "live" =>
               \/ table[j].state = "live"
               \/ req[s].op = "refresh" /\ Holds(req[s].cookie, rows[j].token)
    BY <2>1, <2>2, <2>3, <2>4 DEF table
  <2> QED
    BY <2>1, <2>2, <2>5, <2>6, GrantMoves
<1>5. CASE ~Reads(s) /\ (LoginCommit(s) \/ ConfirmCommit(s) \/ GoogleCommit(s))
  <2>1. /\ req[s].op \in {"login", "confirm", "google"} /\ req[s].at = "commit" /\ Grant(s)
        /\ rows' = GenerateTokens(rows, req[s].user, "login") /\ UNCHANGED now
    BY <1>5 DEF Reads, LoginCommit, ConfirmCommit, GoogleCommit, At
  <2>2. req[s].user \in User
    BY <1>1, <2>1 DEF Sound
  <2>3. \A u \in User : status[u] = "purged" => status'[u] = "purged"
    BY <1>1, <1>5 DEF Reads, LoginCommit, ConfirmCommit, GoogleCommit, GoogleAccepts
  <2> QED
    BY <1>1, <2>1, <2>2, <2>3, GrantMoves
<1>6. CASE ~Reads(s) /\ RegisterCommit(s)
  <2>1. /\ req[s].op = "register" /\ req[s].at = "commit" /\ UNCHANGED <<linked, rows, now>>
        /\ req' = [req EXCEPT ![s].at = "answered", ![s].answer = "ok"]
        /\ status[req[s].user] = "none"
        /\ status' = [status EXCEPT ![req[s].user] = "unverified"]
    BY <1>6 DEF Reads, RegisterCommit, At
  <2>2. RowsKept /\ \A u \in User : status[u] = "purged" => status'[u] = "purged"
    BY <1>1, <2>1 DEF RowsKept
  <2> QED
    BY <2>1, <2>2, DoneMoves
<1>7. CASE ~Reads(s) /\ Logout(s)
  <2> DEFINE ended == {i \in DOMAIN rows : rows[i].token = req[s].cookie
                                           /\ rows[i].state = "live"}
  <2>1. /\ req[s].op = "logout" /\ req[s].at = "commit" /\ req[s].cookie # NoToken
        /\ req' = [req EXCEPT ![s].at = "answered", ![s].answer = "ok"]
        /\ UNCHANGED <<status, linked, now>>
    BY <1>7 DEF Reads, Logout, At, HasCookie
  <2>2. rows' = [i \in DOMAIN rows |-> IF i \in ended
                     THEN [rows[i] EXCEPT !.state = "revoked"] ELSE rows[i]]
    BY <1>7 DEF Reads, Logout, RevokeByHash
  <2>3. RowsKept /\ \A i \in DOMAIN rows \ ended : rows'[i] = rows[i]
    BY <1>1, <2>2, EndedRows
  <2> QED
    BY <2>1, <2>3, DoneMoves DEF Holds
<1> QED
  BY <1>3, <1>4, <1>5, <1>6, <1>7 DEF Handle, Reads

\* The purge ends the rows of the accounts it deletes, the clock those that
\* expire, and a deletion of an account none.
LEMMA TableSteps ==
    ASSUME TypeOK, IInv, CInv, UNCHANGED <<cookie, call, lost>>,
           Purge \/ Tick \/ \E u \in User : DeleteAccount(u)
    PROVE  CInv'
<1>1. /\ rows \in Seq(Row) /\ status \in [User -> Status] /\ RequestsSound
      /\ now \in Nat
  BY DEF TypeOK, ServerTypeOK, IInv
<1>2. \A t : Rowed(t, rows) => t.user \in User /\ t.iat \in Nat
  <2> SUFFICES ASSUME NEW i \in DOMAIN rows
               PROVE  rows[i].token.user \in User /\ rows[i].token.iat \in Nat
    BY DEF Rowed
  <2>1. rows[i] \in Row
    BY <1>1
  <2> QED
    BY <2>1 DEF Row, Token
<1>3. CASE Purge
  <2> DEFINE ended == {i \in DOMAIN rows : status[rows[i].token.user] = "deleted"}
  <2>1. rows' = [i \in DOMAIN rows |-> IF i \in ended
                     THEN [rows[i] EXCEPT !.state = "purged"] ELSE rows[i]]
    BY <1>3 DEF Purge
  <2>2. RowsKept /\ \A i \in DOMAIN rows \ ended : rows'[i] = rows[i]
    BY <1>1, <2>1, EndedRows
  <2>3. /\ UNCHANGED <<now, req>>
        /\ \A u \in User : status'[u] = IF status[u] = "deleted" THEN "purged" ELSE status[u]
    BY <1>3 DEF Purge
  <2>4. ASSUME NEW t, Rowed(t, rows), Works(t, rows, status, now)
        PROVE  Works(t, rows', status', now')
    <3>1. CASE status[t.user] = "deleted"
      BY <1>2, <2>3, <2>4, <3>1 DEF Works
    <3>2. CASE status[t.user] # "deleted"
      BY <1>2, <2>2, <2>3, <2>4, <3>2, KeptRows DEF Works, RowsKept
    <3> QED
      BY <3>1, <3>2
  <2> QED
    BY <1>1, <2>2, <2>3, <2>4, TablesMove
<1>4. CASE Tick
  <2>1. UNCHANGED <<status, rows, req>> /\ now' = now + 1 /\ RowsKept
    BY <1>4 DEF Tick, RowsKept
  <2>2. ASSUME NEW t, Rowed(t, rows), Works(t, rows, status, now)
        PROVE  Works(t, rows', status', now')
    BY <1>1, <1>2, <2>1, <2>2, SessionAssumption DEF Works
  <2> QED
    BY <1>1, <2>1, <2>2, TablesMove
<1>5. ASSUME NEW u \in User, DeleteAccount(u) PROVE CInv'
  <2>1. /\ UNCHANGED <<rows, now, req>> /\ status[u] = "active"
        /\ status' = [status EXCEPT ![u] = "deleted"]
    BY <1>5 DEF DeleteAccount
  <2>2. RowsKept
    BY <2>1 DEF RowsKept
  <2>3. ASSUME NEW t, Rowed(t, rows), Works(t, rows, status, now)
        PROVE  Works(t, rows', status', now')
    BY <1>1, <1>2, <2>1, <2>3 DEF Works
  <2> QED
    BY <1>1, <2>1, <2>2, <2>3, TablesMove
<1> QED
  BY <1>3, <1>4, <1>5

\* A request that is sent has the cookie of the browser and no answer yet.
LEMMA StartedMoves ==
    ASSUME req \in [Slot -> Request], CInv, NEW s \in Slot, req[s].at = "none",
           NEW op \in Op, NEW u, req' = [req EXCEPT ![s] = Started(op, u, cookie)],
           UNCHANGED <<status, rows, now, cookie, lost>>,
           \A c \in Call : call'[c].phase = "sent" => call[c].phase = "sent" /\ c # s
    PROVE  CInv'
<1> DEFINE r == Started(op, u, cookie)
<1>1. r.cookie = cookie /\ r.at # "answered" /\ (r.op = "refresh" => r.at = "find")
  BY DEF Started, Idle, FirstStatement, Op
<1>2. req' = [req EXCEPT ![s] = r]
  OBVIOUS
<1> HIDE DEF r
<1> QED
  BY <1>1, <1>2, RequestStarts

\* A free slot holds neither a cookie nor an answer.
LEMMA FreedFields ==
    ASSUME NEW s
    PROVE  /\ Freed(s).cookie = NoToken /\ ~Gives(Freed(s)) /\ ~Ends(Freed(s))
           /\ Freed(s).at \in {"none", "done"} /\ (s \notin Form => Freed(s).at = "none")
  BY DEF Freed, Idle, Gives, Ends

\* Every answer that is taken: one that sets a cookie brings one that works.
LEMMA AnswerMoves ==
    ASSUME TypeOK, IInv, CInv, NEW s \in Slot, Answered(s)
    PROVE  CInv'
<1>1. /\ req \in [Slot -> Request] /\ call \in [Call -> [phase : {"idle", "sent", "refreshing",
             "settled"}, token : Token \cup {NoToken}]]
      /\ req[s].at = "answered" /\ req' = [req EXCEPT ![s] = Freed(s)]
      /\ UNCHANGED <<status, rows, now, lost>>
  BY DEF TypeOK, ServerTypeOK, Answered
<1>2. req[s].op \in IF s \in Form THEN Op \ {"refresh"} ELSE {"refresh"}
  BY <1>1 DEF IInv, RequestsSound, Fits
<1> DEFINE Brings == \/ cookie' = NoToken
                     \/ Gives(req[s]) /\ cookie' = req[s].token
                     \/ cookie' = cookie /\ ~Ends(req[s])
<1>3. CASE FormAnswered(s)
  <2>1. s \in Form /\ s \notin Call /\ UNCHANGED call
    BY <1>3, BrowserAssumption DEF FormAnswered
  <2>2. \/ LoginAnswered(s) /\ req[s].op = "login"
        \/ GoogleLoginAnswered(s) /\ req[s].op = "google"
        \/ RegisterAnswered(s) /\ req[s].op = "register"
        \/ ConfirmAnswered(s) /\ req[s].op = "confirm"
        \/ LogoutAnswered(s) /\ req[s].op = "logout"
    BY <1>2, <1>3, <2>1 DEF FormAnswered, Op
  <2>3. Brings
    BY <1>1, <2>2
    DEF LoginAnswered, GoogleLoginAnswered, RegisterAnswered, ConfirmAnswered, LogoutAnswered,
        GoogleSession, SetCookie, ClearCookie, Gives, Ends, Ok
  <2> QED
    BY <1>1, <2>1, <2>3, FreedFields, RequestEnds
<1>4. CASE BootAnswered(s) \/ CallRefreshed(s)
  <2>1. s \notin Form /\ RefreshAnswered(s)
    BY <1>4, BrowserAssumption DEF BootAnswered, CallRefreshed
  <2>2. Brings
    BY <1>1, <1>2, <2>1 DEF RefreshAnswered, SetCookie, Gives, Ends, Ok
  <2>3. \A c \in Call : call'[c].phase = "sent" => call[c].phase = "sent" \/ c = s
    BY <1>1, <1>4 DEF BootAnswered, CallRefreshed
  <2> QED
    BY <1>1, <2>1, <2>2, <2>3, FreedFields, RequestEnds
<1> QED
  BY <1>3, <1>4 DEF Answered

\* An answer that nobody hears, or that is lost on its way.
LEMMA UnheardMoves ==
    ASSUME TypeOK, IInv, CInv, NEW s \in Slot, Ignored(s) \/ LoseAnswer(s)
    PROVE  CInv'
<1>1. /\ req \in [Slot -> Request] /\ req[s] \in Request /\ req[s].at = "answered"
      /\ UNCHANGED <<status, rows, now, cookie, call>>
      /\ lost' = (lost \/ SetsCookie(s))
  BY DEF TypeOK, ServerTypeOK, Ignored, LoseAnswer
<1>2. lost => lost'
  BY <1>1
<1>3. Ends(req[s]) => lost'
  BY <1>1 DEF SetsCookie, Ends, Ok
<1>4. CASE Ignored(s)
  BY <1>1, <1>2, <1>3, <1>4, FreedFields, RequestEnds DEF Ignored
<1>5. CASE LoseAnswer(s)
  <2> DEFINE r == [req[s] EXCEPT !.answer = "refused"]
  <2>1. req' = [req EXCEPT ![s] = r]
    BY <1>5 DEF LoseAnswer
  <2>2. r.cookie = req[s].cookie /\ r.at = "answered" /\ r.answer = "refused"
    BY <1>1 DEF Request
  <2>3. ~Gives(r) /\ ~Ends(r)
    BY <2>2 DEF Gives, Ends
  <2> HIDE DEF r
  <2> QED
    BY <1>1, <1>2, <1>3, <2>1, <2>2, <2>3, RequestEnds
<1> QED
  BY <1>4, <1>5

\* A form, a page load or a call that is answered 401 sends a request.
LEMMA StartMoves ==
    ASSUME TypeOK, IInv, CInv,
           \/ \E s \in Boot, to \in Opened : Load(s, to)
           \/ \E u : \E s \in Form, op \in Op : Submit(s, op, u)
           \/ \E c \in Call : CallAnswered(c)
    PROVE  CInv'
<1>1. /\ req \in [Slot -> Request] /\ call \in [Call -> [phase : {"idle", "sent", "refreshing",
             "settled"}, token : Token \cup {NoToken}]]
  BY DEF TypeOK, ServerTypeOK
<1>2. ASSUME NEW s \in Boot, NEW to \in Opened, Load(s, to) PROVE CInv'
  <2>1. /\ req[s].at = "none" /\ req' = [req EXCEPT ![s] = Started("refresh", NoUser, cookie)]
        /\ UNCHANGED <<status, rows, now, cookie, call, lost>>
    BY <1>2 DEF Load
  <2>2. s \in Slot /\ s \notin Call
    BY BrowserAssumption
  <2>3. "refresh" \in Op
    BY DEF Op
  <2> QED
    BY <1>1, <2>1, <2>2, <2>3, StartedMoves
<1>3. ASSUME NEW s \in Form, NEW op \in Op, NEW u, Submit(s, op, u) PROVE CInv'
  <2>1. /\ req[s].at = "none" /\ req' = [req EXCEPT ![s] = Started(op, u, cookie)]
        /\ UNCHANGED <<status, rows, now, cookie, call, lost>>
    BY <1>3 DEF Submit
  <2>2. s \in Slot /\ s \notin Call
    BY BrowserAssumption
  <2> QED
    BY <1>1, <2>1, <2>2, StartedMoves
<1>4. ASSUME NEW c \in Call, CallAnswered(c) PROVE CInv'
  <2>1. /\ call[c].phase = "sent" /\ req[c].at = "none" /\ c \in Slot
        /\ UNCHANGED <<status, rows, now, cookie, lost>>
    BY <1>4, BrowserAssumption DEF CallAnswered, CInv, CallsApart
  <2>2. CASE Authorized(call[c].token)
    <3>1. UNCHANGED req /\ call' = [call EXCEPT ![c] = Settled]
      BY <1>4, <2>2 DEF CallAnswered
    <3>2. \A d \in Call : call'[d].phase = "sent" => call[d].phase = "sent"
      BY <1>1, <2>1, <3>1 DEF Settled
    <3> QED
      BY <2>1, <3>1, <3>2, NothingMoves
  <2>3. CASE ~Authorized(call[c].token)
    <3>1. /\ call' = [call EXCEPT ![c].phase = "refreshing"]
          /\ req' = [req EXCEPT ![c] = Started("refresh", NoUser, cookie)]
      BY <1>4, <2>3 DEF CallAnswered
    <3>2. \A d \in Call : call'[d].phase = "sent" => call[d].phase = "sent" /\ d # c
      BY <1>1, <3>1
    <3>3. "refresh" \in Op
      BY DEF Op
    <3> QED
      BY <1>1, <2>1, <3>1, <3>2, <3>3, StartedMoves
  <2> QED
    BY <2>2, <2>3
<1> QED
  BY <1>2, <1>3, <1>4

\* A navigation, a call that is sent and a reload leave the tokens alone.
LEMMA QuietMoves ==
    ASSUME TypeOK, CInv,
           \/ \E to \in Page : Navigate(to)
           \/ \E c \in Call : CallSent(c)
           \/ Unload
           \/ UNCHANGED vars
    PROVE  CInv'
<1>1. /\ \A s \in Slot : req[s] \in Request
      /\ call \in [Call -> [phase : {"idle", "sent", "refreshing", "settled"},
                            token : Token \cup {NoToken}]]
  BY DEF TypeOK, ServerTypeOK
<1>2. CASE UNCHANGED vars \/ \E to \in Page : Navigate(to)
  <2>1. UNCHANGED <<status, rows, now, req, cookie, call, lost>>
    BY <1>2 DEF Navigate, vars, serverVars, browserVars
  <2> QED
    BY <2>1, NothingMoves
<1>3. ASSUME NEW c \in Call, CallSent(c) PROVE CInv'
  <2>1. /\ UNCHANGED <<status, rows, now, req, cookie, lost>> /\ req[c].at = "none"
        /\ call' = [call EXCEPT ![c] = [phase |-> "sent", token |-> accessToken]]
    BY <1>3 DEF CallSent, serverVars
  <2>2. \A d \in Call : call'[d].phase = "sent" => call[d].phase = "sent" \/ req[d].at = "none"
    BY <1>1, <2>1
  <2> QED
    BY <2>1, <2>2, NothingMoves
<1>4. CASE Unload
  <2>1. /\ UNCHANGED <<status, rows, now, cookie, lost>>
        /\ \A q \in Slot : req'[q] \in {req[q], [req[q] EXCEPT !.dropped = TRUE]}
        /\ \A c \in Call : call'[c] \in {call[c], Settled}
    BY <1>4 DEF Unload
  <2>2. \A q \in Slot : /\ req'[q].op = req[q].op /\ req'[q].at = req[q].at
                        /\ req'[q].answer = req[q].answer /\ req'[q].row = req[q].row
                        /\ req'[q].cookie = req[q].cookie /\ req'[q].token = req[q].token
    BY <1>1, <2>1 DEF Request
  <2>3. \A c \in Call : call'[c].phase = "sent" => call[c].phase = "sent"
    BY <2>1 DEF Settled
  <2> QED
    BY <2>1, <2>2, <2>3, NothingMoves
<1> QED
  BY <1>2, <1>3, <1>4

\* No step leaves the browser with a cookie that has stopped working, unless
\* an answer was lost.
LEMMA CookieInductive ==
    ASSUME TypeOK, IInv, CInv, [Next]_vars
    PROVE  CInv'
<1>1. CASE Server /\ UNCHANGED <<browserVars, faults>>
  BY <1>1, HandleMoves, TableSteps DEF Server, browserVars
<1>2. CASE Browser
  <2>1. CASE \E s \in Slot : Answered(s) \/ Ignored(s)
    BY <2>1, AnswerMoves, UnheardMoves
  <2>2. CASE \/ \E s \in Form, u \in User :
                    HandleLogin(s, u) \/ HandleGoogleLogin(s, u) \/ HandleRegister(s, u)
             \/ \E s \in Form : HandleConfirm(s) \/ HandleLogout(s)
    <3>1. {"login", "google", "register", "confirm", "logout"} \subseteq Op
      BY DEF Op
    <3>2. \E u : \E s \in Form, op \in Op : Submit(s, op, u)
      BY <2>2, <3>1, ZenonT(20)
      DEF HandleLogin, HandleGoogleLogin, HandleRegister, HandleConfirm, HandleLogout
    <3> QED
      BY <3>2, StartMoves
  <2> QED
    BY <1>2, <2>1, <2>2, StartMoves, QuietMoves DEF Browser
<1>3. CASE Fault
  <2>1. ASSUME NEW s \in Slot, Fail(s), UNCHANGED browserVars PROVE CInv'
    BY <2>1, ReadMoves DEF Fail, Reads, browserVars
  <2> QED
    BY <1>3, <2>1, TableSteps, UnheardMoves, QuietMoves DEF Fault, browserVars
<1> QED
  BY <1>1, <1>2, <1>3, QuietMoves DEF Next

\* The browser begins with no cookie, or with one whose row is there.
LEMMA InitCookie == Init => CInv
<1> SUFFICES ASSUME Init PROVE CInv
  OBVIOUS
<1>1. \A s \in Slot : /\ ~Gives(req[s]) /\ ~Ends(req[s])
                      /\ req[s].cookie = NoToken /\ req[s].at = "none"
  BY DEF Init, ServerInit, Idle, Gives, Ends
<1>2. AnswersWork /\ AnswersApart /\ CallsApart /\ RefreshesOwn
  BY <1>1, BrowserAssumption DEF Init, NoCall, AnswersWork, AnswersApart, CallsApart,
                                 RefreshesOwn, FoundOwn
<1>3. cookie # NoToken => Rowed(cookie, rows) /\ Works(cookie, rows, status, now)
  BY DEF Init, GenerateTokens, CreateRow, Rowed, Works
<1> QED
  BY <1>1, <1>2, <1>3 DEF CInv, TokensRowed, CookieKept

\* A browser that has lost no answer keeps a cookie that works until it
\* expires, its account is purged or the answer that ends it arrives; also the
\* loser of two refreshes goes on with the cookie of the winner.
THEOREM CookieLiveAlways == Spec => []CookieLive
<1>1. TypeOK /\ IInv /\ CInv /\ [Next]_vars => CInv'
  BY CookieInductive
<1>2. CInv => CookieLive
  <2> SUFFICES ASSUME CInv, cookie # NoToken, ~lost, VerifyRefreshToken(cookie)
               PROVE  CookieLive
    BY DEF CookieLive
  <2>1. CASE \E s \in Slot : Ends(req[s]) /\ req[s].cookie = cookie
    BY <2>1 DEF Ends, Ok, CookieLive
  <2>2. ASSUME NEW i \in DOMAIN rows, rows[i].token = cookie, rows[i].state = "live"
        PROVE  i \in FindValidByHash(cookie)
    BY <2>2 DEF FindValidByHash, Live, VerifyRefreshToken
  <2>3. CASE Works(cookie, rows, status, now)
    BY <2>2, <2>3 DEF Works, Twice, VerifyRefreshToken, CookieLive
  <2> QED
    BY <2>1, <2>3 DEF CInv, CookieKept
<1> QED
  BY <1>1, <1>2, InitCookie, TypeCorrect, InductiveInvariant, PTL DEF Spec
=============================================================================
