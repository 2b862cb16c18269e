---------------------------- MODULE AccountTransactions ----------------------------
(***************************************************************************)
(* The accounts (modules/user) and their one-time codes (modules/token).   *)
(* Each use case runs in one transaction of PostgreSQL at its default      *)
(* isolation level, READ COMMITTED (TransactionManager.runInTransaction):  *)
(* it sees what is committed when each statement starts, its writes lock   *)
(* their rows until it ends, and a write of a locked row waits.            *)
(*                                                                         *)
(* Transactions are numbered in the order of their BEGIN.  A transaction   *)
(* inserts at most one code, whose created_at is the time of the BEGIN: a  *)
(* code is named by the number of the transaction that inserts it.         *)
(* Hashes of passwords and codes are identified with what they hash, a     *)
(* wrong code is a code of another request, and the name of a user is left *)
(* out, so an update of the name rewrites the other columns as they were   *)
(* read.  Accounts are created by e-mail only (not through Google).        *)
(***************************************************************************)
EXTENDS Naturals, Sequences, FiniteSets

CONSTANTS
    User,       \* ids of users rows
    Email,
    Password,
    NoRow,      \* no users row
    NoUser,
    NoEmail,    \* NULL
    NoPassword,
    Existing,   \* the accounts there are at the start
    MaxTx,      \* bound on the number of transactions
    Ops         \* the use cases that are requested

Row == [email : Email, pending : Email \cup {NoEmail}, password : Password,
        verified : BOOLEAN, deleted : BOOLEAN]

Op == {"register", "confirm_registration", "change_password", "update_name",
       "request_email_change", "confirm_email_change",
       "request_password_reset", "confirm_password_reset",
       "request_deletion", "confirm_deletion"}

\* The accounts at the start are verified ones: those that no code of this
\* behaviour has to account for.
ASSUME AccountAssumption ==
    /\ Existing \in [User -> Row \cup {NoRow}]
    /\ \A u \in User : Existing[u] # NoRow =>
           /\ Existing[u].verified
           /\ ~Existing[u].deleted
           /\ Existing[u].pending = NoEmail
           /\ \A v \in User \ {u} :
                  Existing[v] # NoRow => Existing[v].email # Existing[u].email
    /\ NoRow \notin Row /\ NoUser \notin User
    /\ NoEmail \notin Email /\ NoPassword \notin Password
    /\ MaxTx \in Nat
    /\ Ops \subseteq Op

Tx == 1 .. MaxTx
NoCode == 0     \* no code is submitted

VARIABLES
    users,      \* the committed users rows
    issued,     \* the committed codes
    used,       \* those of them with is_used
    expired,    \* the codes whose expires_at has passed
    mailed,     \* the codes that were sent
    tx          \* the transactions

vars == <<users, issued, used, expired, mailed, tx>>

------------------------------------------------------------------------------
(* The use cases as sequences of statements.                               *)

Statements == {"load", "create", "update", "verify", "delete",
               "match", "invalidate", "insert", "mail", "lookup", "mark"}

CreateOtp == <<"match", "invalidate", "insert", "mail">>
VerifyOtp == <<"lookup", "mark">>

RequestRegistration == <<"load", "create">> \o CreateOtp
ConfirmRegistration == <<"load">> \o VerifyOtp \o <<"verify">>
ChangePassword == <<"load", "update">>
UpdateName == <<"load", "update">>

\* Mutant of RequestEmailChange: the pending address is stored after the code
\* is made.
RequestEmailChangeCodeFirst == <<"load">> \o CreateOtp \o <<"update">>

RequestEmailChange == <<"load", "update">> \o CreateOtp
ConfirmEmailChange == <<"load">> \o VerifyOtp \o <<"update">>
RequestPasswordReset == <<"load">> \o CreateOtp
ConfirmPasswordReset == <<"load">> \o VerifyOtp \o <<"update">>
RequestAccountDeletion == <<"load">> \o CreateOtp
ConfirmAccountDeletion == <<"load">> \o VerifyOtp \o <<"delete">>

Program ==
    [register               |-> RequestRegistration,
     confirm_registration   |-> ConfirmRegistration,
     change_password        |-> ChangePassword,
     update_name            |-> UpdateName,
     request_email_change   |-> RequestEmailChange,
     confirm_email_change   |-> ConfirmEmailChange,
     request_password_reset |-> RequestPasswordReset,
     confirm_password_reset |-> ConfirmPasswordReset,
     request_deletion       |-> RequestAccountDeletion,
     confirm_deletion       |-> ConfirmAccountDeletion]

\* The use cases that find their user by e-mail; the others take the id in
\* the access token.
ByEmail == {"register", "confirm_registration",
            "request_password_reset", "confirm_password_reset"}

\* The request whose code a confirmation takes: both have one TokenPurpose.
RequestOf == [confirm_registration   |-> "register",
              confirm_email_change   |-> "request_email_change",
              confirm_password_reset |-> "request_password_reset",
              confirm_deletion       |-> "request_deletion"]

Confirming == DOMAIN RequestOf

Idle == [op |-> "none", status |-> "none", rest |-> <<>>, user |-> NoUser,
         email |-> NoEmail, password |-> NoPassword, old |-> NoPassword,
         code |-> NoCode, row |-> NoRow, version |-> NoRow,
         match |-> {}, marks |-> {}, inserted |-> FALSE, expired |-> {}]

Init ==
    /\ users = Existing
    /\ issued = {}
    /\ used = {}
    /\ expired = {}
    /\ mailed = {}
    /\ tx = [t \in Tx |-> Idle]

------------------------------------------------------------------------------
(* Requests and the BEGIN of their transactions.                           *)

\* The users that hold an access token.
LoggedIn == {u \in User : users[u] # NoRow /\ users[u].verified}

\* What the controllers pass to the use cases.
Requests ==
    [op : {"register"}, user : {NoUser}, email : Email,
     password : Password, old : {NoPassword}, code : {NoCode}]
    \cup
    [op : {"confirm_registration"}, user : {NoUser}, email : Email,
     password : {NoPassword}, old : {NoPassword}, code : mailed]
    \cup
    {r \in [op : {"change_password"}, user : LoggedIn, email : {NoEmail},
            password : Password, old : Password, code : {NoCode}] :
        r.password # r.old}
    \cup
    [op : {"update_name", "request_deletion"}, user : LoggedIn,
     email : {NoEmail}, password : {NoPassword}, old : {NoPassword},
     code : {NoCode}]
    \cup
    [op : {"request_email_change"}, user : LoggedIn, email : Email,
     password : {NoPassword}, old : {NoPassword}, code : {NoCode}]
    \cup
    [op : {"confirm_email_change", "confirm_deletion"}, user : LoggedIn,
     email : {NoEmail}, password : {NoPassword}, old : {NoPassword},
     code : mailed]
    \cup
    [op : {"request_password_reset"}, user : {NoUser}, email : Email,
     password : {NoPassword}, old : {NoPassword}, code : {NoCode}]
    \cup
    [op : {"confirm_password_reset"}, user : {NoUser}, email : Email,
     password : Password, old : {NoPassword}, code : mailed]

\* runInTransaction: BEGIN.  now() stays the time of the BEGIN.
Begin(t) ==
    /\ tx[t].status = "none"
    /\ \A x \in Tx : x < t => tx[x].status # "none"
    /\ \E r \in Requests :
           /\ r.op \in Ops
           /\ tx' = [tx EXCEPT ![t] =
                  [Idle EXCEPT !.op = r.op, !.status = "running",
                               !.rest = Program[r.op], !.user = r.user,
                               !.email = r.email, !.password = r.password,
                               !.old = r.old, !.code = r.code,
                               !.expired = expired]]
    /\ UNCHANGED <<users, issued, used, expired, mailed>>
------------------------------------------------------------------------------
(* Locks.                                                                  *)

Running(t) == tx[t].status = "running"
Others(t) == {x \in Tx \ {t} : Running(x)}

\* The next statement of t is st; "commit" follows the last one.
At(t, st) ==
    /\ Running(t)
    /\ st = IF tx[t].rest = <<>> THEN "commit" ELSE Head(tx[t].rest)

Owner(c) == tx[c].user

\* The codes made by op requests of u that its row still has.
CodesOf(u, op) == {c \in issued : tx[c].op = op /\ Owner(c) = u}

\* The row t stores: the entity as it was loaded, changed by the use case;
\* the UPDATE sets neither is_verified nor is_deleted.
NewRow(t) ==
    LET u    == tx[t].user
        row  == tx[t].row
        done == CASE tx[t].op \in {"change_password", "confirm_password_reset"} ->
                         [row EXCEPT !.password = tx[t].password]
                  [] tx[t].op = "request_email_change" ->
                         [row EXCEPT !.pending = tx[t].email]
                  [] tx[t].op = "confirm_email_change" ->
                         [row EXCEPT !.email = row.pending, !.pending = NoEmail]
                  [] OTHER -> row
    IN  [done EXCEPT !.verified = users[u].verified, !.deleted = users[u].deleted]

\* Holders of the row lock of u.
RowHolders(t, u) == {x \in Others(t) : tx[x].user = u /\ tx[x].version # NoRow}

\* t writes the row of u with another value of the unique column email.
ChangesKey(u, version) == users[u] # NoRow /\ version.email # users[u].email

\* A code inserted for u refers to its row: a KEY SHARE lock.
KeySharers(t, u) == {x \in Others(t) : tx[x].user = u /\ tx[x].inserted}
KeyChangers(t, u) == {x \in RowHolders(t, u) : ChangesKey(u, tx[x].version)}

\* The writers of rows of others that have e, or had it, as their e-mail.
EmailHolders(t, u, e) ==
    {x \in Others(t) :
        /\ tx[x].version # NoRow /\ tx[x].user # u
        /\ \/ tx[x].version.email = e
           \/ users[tx[x].user] # NoRow /\ users[tx[x].user].email = e}

EmailTaken(u, e) == \E v \in User \ {u} : users[v] # NoRow /\ users[v].email = e

CodeHolders(t, C) == {x \in Others(t) : tx[x].marks \cap C # {}}

\* The transactions whose end the next statement of t waits for.
Blockers(t) ==
    LET u == tx[t].user
    IN  CASE At(t, "create") -> EmailHolders(t, u, tx[t].email)
          [] At(t, "update") /\ users[u] # NoRow ->
                 RowHolders(t, u)
                 \cup IF ChangesKey(u, NewRow(t))
                      THEN KeySharers(t, u) \cup EmailHolders(t, u, NewRow(t).email)
                      ELSE {}
          [] At(t, "verify") \/ At(t, "delete") -> RowHolders(t, u)
          [] At(t, "invalidate") -> CodeHolders(t, tx[t].match)
          [] At(t, "insert") -> KeyChangers(t, u)
          [] At(t, "mark") -> CodeHolders(t, {tx[t].code})
          [] OTHER -> {}

Ready(t, st) == At(t, st) /\ Blockers(t) = {}

\* The statement is done; r holds what it leaves in the transaction.
Advance(t, r) == tx' = [tx EXCEPT ![t] = [r EXCEPT !.rest = Tail(@)]]

dbVars == <<users, issued, used>>

\* Mutant of Rollback: the catch block forgets the ROLLBACK.  The connection
\* goes back to the pool with its locks.
RollbackForgotten(t) ==
    /\ tx' = [tx EXCEPT ![t].rest = <<"none">>]
    /\ UNCHANGED <<dbVars, expired, mailed>>

\* catch: ROLLBACK, which drops the writes and the locks.
Rollback(t) ==
    /\ tx' = [tx EXCEPT ![t] = [Idle EXCEPT !.status = "aborted"]]
    /\ UNCHANGED <<dbVars, expired, mailed>>

------------------------------------------------------------------------------
(* The statements.                                                         *)

\* Mutant of Admits: confirm_email_change does not look for a pending address.
AdmitsNothingPending(t, row) ==
    CASE tx[t].op = "confirm_registration" -> ~row.verified
      [] tx[t].op = "change_password" -> row.verified /\ row.password = tx[t].old
      [] tx[t].op \in {"update_name", "request_email_change"} -> row.verified
      [] OTHER -> TRUE

\* What the use cases require of the row they load, besides that there is one.
Admits(t, row) ==
    CASE tx[t].op = "confirm_registration" -> ~row.verified
      [] tx[t].op = "change_password" -> row.verified /\ row.password = tx[t].old
      [] tx[t].op \in {"update_name", "request_email_change"} -> row.verified
      [] tx[t].op = "confirm_email_change" -> row.pending # NoEmail
      [] OTHER -> TRUE

\* getUserById and getUserByEmail.
Found(t) ==
    {u \in User :
        /\ users[u] # NoRow /\ ~users[u].deleted
        /\ IF tx[t].op \in ByEmail THEN users[u].email = tx[t].email
                                   ELSE u = tx[t].user}

Load(t) ==
    /\ Ready(t, "load")
    /\ \/ /\ tx[t].op = "register" /\ Found(t) = {}
          /\ Advance(t, tx[t])
          /\ UNCHANGED <<dbVars, expired, mailed>>
       \/ /\ tx[t].op # "register"
          /\ \E u \in Found(t) :
                 /\ Admits(t, users[u])
                 /\ Advance(t, [tx[t] EXCEPT !.user = u, !.row = users[u]])
          /\ UNCHANGED <<dbVars, expired, mailed>>
       \/ /\ IF tx[t].op = "register"
             THEN Found(t) # {}
             ELSE \A u \in Found(t) : ~Admits(t, users[u])
          /\ Rollback(t)

FreshUsers == {u \in User : users[u] = NoRow /\ \A x \in Tx : tx[x].user # u}

NewAccount(t) == [email |-> tx[t].email, pending |-> NoEmail,
                  password |-> tx[t].password,
                  verified |-> FALSE, deleted |-> FALSE]

\* Mutant of Create: the INSERT runs on the pool, outside of the transaction.
CreateOutside(t) ==
    /\ Ready(t, "create")
    /\ \/ /\ ~EmailTaken(NoUser, tx[t].email)
          /\ \E u \in FreshUsers :
                 /\ users' = [users EXCEPT ![u] = NewAccount(t)]
                 /\ Advance(t, [tx[t] EXCEPT !.user = u])
          /\ UNCHANGED <<issued, used, expired, mailed>>
       \/ EmailTaken(NoUser, tx[t].email) /\ Rollback(t)

\* createUser.  A soft-deleted account keeps its e-mail until it is purged.
Create(t) ==
    /\ Ready(t, "create")
    /\ \/ /\ ~EmailTaken(NoUser, tx[t].email)
          /\ \E u \in FreshUsers :
                 Advance(t, [tx[t] EXCEPT !.user = u, !.version = NewAccount(t)])
          /\ UNCHANGED <<dbVars, expired, mailed>>
       \/ EmailTaken(NoUser, tx[t].email) /\ Rollback(t)
\* Mutant of Update: the flags are written as they were loaded.
UpdateWholeRow(t) ==
    /\ Ready(t, "update")
    /\ LET u   == tx[t].user
           row == [NewRow(t) EXCEPT !.verified = tx[t].row.verified,
                                    !.deleted = tx[t].row.deleted]
       IN  IF users[u] # NoRow /\ ChangesKey(u, row) /\ EmailTaken(u, row.email)
           THEN Rollback(t)
           ELSE /\ Advance(t, [tx[t] EXCEPT
                        !.version = IF users[u] = NoRow THEN NoRow ELSE row])
                /\ UNCHANGED <<dbVars, expired, mailed>>

\* updateUser.  No row is changed when the account was purged meanwhile.
Update(t) ==
    /\ Ready(t, "update")
    /\ LET u     == tx[t].user
           taken == users[u] # NoRow /\ ChangesKey(u, NewRow(t))
                    /\ EmailTaken(u, NewRow(t).email)
       IN  \/ taken /\ Rollback(t)
           \/ /\ ~taken
              /\ Advance(t, [tx[t] EXCEPT
                     !.version = IF users[u] = NoRow THEN NoRow ELSE NewRow(t)])
              /\ UNCHANGED <<dbVars, expired, mailed>>

\* markUserAsVerified: WHERE id AND is_deleted = false.
Verify(t) ==
    /\ Ready(t, "verify")
    /\ LET row == users[tx[t].user]
       IN  Advance(t, [tx[t] EXCEPT
               !.version = IF row # NoRow /\ ~row.deleted
                           THEN [row EXCEPT !.verified = TRUE] ELSE NoRow])
    /\ UNCHANGED <<dbVars, expired, mailed>>

\* deleteUser.
Delete(t) ==
    /\ Ready(t, "delete")
    /\ LET row == users[tx[t].user]
       IN  Advance(t, [tx[t] EXCEPT
               !.version = IF row # NoRow
                           THEN [row EXCEPT !.deleted = TRUE] ELSE NoRow])
    /\ UNCHANGED <<dbVars, expired, mailed>>

\* invalidatePreviousTokens: the UPDATE finds its rows, then waits for those
\* that others have locked and leaves out the ones no longer unused.
Match(t) ==
    /\ Ready(t, "match")
    /\ Advance(t, [tx[t] EXCEPT
           !.match = CodesOf(tx[t].user, tx[t].op) \ used])
    /\ UNCHANGED <<dbVars, expired, mailed>>

Invalidate(t) ==
    /\ Ready(t, "invalidate")
    /\ Advance(t, [tx[t] EXCEPT !.match = {},
                                !.marks = tx[t].match \cap (issued \ used)])
    /\ UNCHANGED <<dbVars, expired, mailed>>

\* createToken.  Its foreign key needs the users row.
Insert(t) ==
    /\ Ready(t, "insert")
    /\ \/ /\ users[tx[t].user] # NoRow \/ tx[t].version # NoRow
          /\ Advance(t, [tx[t] EXCEPT !.inserted = TRUE])
          /\ UNCHANGED <<dbVars, expired, mailed>>
       \/ /\ users[tx[t].user] = NoRow /\ tx[t].version = NoRow
          /\ Rollback(t)

\* sendEmail: before the COMMIT.
Mail(t) ==
    /\ Ready(t, "mail")
    /\ mailed' = mailed \cup {t}
    /\ Advance(t, tx[t])
    /\ UNCHANGED <<dbVars, expired>>

\* getActiveToken, for the codes C: the newest by created_at of the unused ones
\* that had not expired at the BEGIN; then assertValid and the comparison.
Accepted(t, C) ==
    LET active == (C \ used) \ tx[t].expired
    IN  /\ tx[t].code \in active \ expired
        /\ \A c \in active : c <= tx[t].code

\* Mutant of Lookup: the purpose is left out of the WHERE.
LookupAnyPurpose(t) ==
    /\ Ready(t, "lookup")
    /\ LET C == UNION {CodesOf(tx[t].user, op) : op \in Op}
       IN  \/ /\ Accepted(t, C)
              /\ Advance(t, tx[t])
              /\ UNCHANGED <<dbVars, expired, mailed>>
           \/ ~Accepted(t, C) /\ Rollback(t)

Lookup(t) ==
    /\ Ready(t, "lookup")
    /\ LET C == CodesOf(tx[t].user, RequestOf[tx[t].op])
       IN  \/ /\ Accepted(t, C)
              /\ Advance(t, tx[t])
              /\ UNCHANGED <<dbVars, expired, mailed>>
           \/ ~Accepted(t, C) /\ Rollback(t)

\* markTokenAsUsed: WHERE id, whether it is used by now or not.
Mark(t) ==
    /\ Ready(t, "mark")
    /\ Advance(t, [tx[t] EXCEPT !.marks = {tx[t].code} \cap issued])
    /\ UNCHANGED <<dbVars, expired, mailed>>

\* COMMIT.  What the properties speak of is kept.
Commit(t) ==
    /\ At(t, "commit")
    /\ users' = IF tx[t].version = NoRow THEN users
                ELSE [users EXCEPT ![tx[t].user] = tx[t].version]
    /\ issued' = IF tx[t].inserted THEN issued \cup {t} ELSE issued
    /\ used' = used \cup tx[t].marks
    /\ tx' = [tx EXCEPT ![t] =
                 [Idle EXCEPT !.op = tx[t].op, !.status = "committed",
                              !.user = tx[t].user, !.code = tx[t].code]]
    /\ UNCHANGED <<expired, mailed>>

------------------------------------------------------------------------------
(* What happens besides the statements.                                    *)

\* A statement, the hash or the mail fails; or the process dies.
Fails(t) == Running(t) /\ Rollback(t)

\* PostgreSQL aborts one of the transactions that wait for each other.
DeadlockVictim(t) ==
    /\ \E D \in SUBSET Tx :
           /\ t \in D
           /\ \A x \in D : Blockers(x) \cap D # {}
           /\ \A E \in (SUBSET D) \ {D, {}} : \E x \in E : Blockers(x) \cap E = {}
    /\ Rollback(t)

\* purgeDeletedUsers: one DELETE, which waits for the locks on its rows and
\* takes the codes along (ON DELETE CASCADE).
Purge ==
    LET U == {u \in User : users[u] # NoRow /\ users[u].deleted}
        C == {c \in issued : Owner(c) \in U}
    IN  /\ U # {}
        /\ \A x \in Tx : Running(x) /\ tx[x].user \in U =>
               tx[x].version = NoRow /\ ~tx[x].inserted /\ tx[x].marks = {}
        /\ users' = [u \in User |-> IF u \in U THEN NoRow ELSE users[u]]
        /\ issued' = issued \ C
        /\ used' = used \ C
        /\ UNCHANGED <<expired, mailed, tx>>

\* Fifteen minutes pass.
Expire(c) ==
    /\ c \in issued \ expired
    /\ expired' = expired \cup {c}
    /\ UNCHANGED <<dbVars, mailed, tx>>

------------------------------------------------------------------------------
Statement(t) ==
    \/ Load(t)
    \/ Create(t)
    \/ Update(t)
    \/ Verify(t)
    \/ Delete(t)
    \/ Match(t)
    \/ Invalidate(t)
    \/ Insert(t)
    \/ Mail(t)
    \/ Lookup(t)
    \/ Mark(t)
    \/ Commit(t)

Next ==
    \/ \E t \in Tx : Begin(t)
    \/ \E t \in Tx : Statement(t)
    \/ \E t \in Tx : Fails(t)
    \/ \E t \in Tx : DeadlockVictim(t)
    \/ Purge
    \/ \E c \in Tx : Expire(c)

Spec == Init /\ [][Next]_vars

\* Of the requests that are being served one goes on, or PostgreSQL, which looks
\* for deadlocks after deadlock_timeout, aborts one: no more is assumed.
FairSpec ==
    Spec /\ WF_vars(\E t \in Tx : Statement(t) \/ DeadlockVictim(t))

------------------------------------------------------------------------------
(* Properties.                                                             *)

\* The rows stay well-formed, an e-mail never becomes NULL, and a code that
\* is used is one that exists: no transaction writes what it failed to check.
TypeOK ==
    /\ users \in [User -> Row \cup {NoRow}]
    /\ issued \subseteq Tx
    /\ used \subseteq issued
    /\ expired \subseteq Tx
    /\ mailed \subseteq Tx
    /\ tx \in [Tx -> [op : Op \cup {"none"},
                      status : {"none", "running", "committed", "aborted"},
                      rest : Seq(Statements),
                      user : User \cup {NoUser},
                      email : Email \cup {NoEmail},
                      password : Password \cup {NoPassword},
                      old : Password \cup {NoPassword},
                      code : Tx \cup {NoCode},
                      row : Row \cup {NoRow},
                      version : Row \cup {NoRow},
                      match : SUBSET Tx,
                      marks : SUBSET Tx,
                      inserted : BOOLEAN,
                      expired : SUBSET Tx]]

\* Two requests of an e-mail change never leave two codes that work: each
\* stores the pending address first, so they take turns on the users row, and
\* the code of the one is invalidated by the other.
OneChangeCode ==
    \A u \in User :
        Cardinality(CodesOf(u, "request_email_change") \ used) <= 1

\* An account that is not verified has got its registration code: neither a
\* failure between the two INSERTs nor a crash leaves one that nobody can
\* verify and whose e-mail nobody can register.
UnverifiedHasCode ==
    \A u \in User : users[u] # NoRow /\ ~users[u].verified =>
        CodesOf(u, "register") # {}

\* An account is verified, or deleted, only by a code of that account that was
\* made for this purpose and is used up.
FlagsConfirmed ==
    \A u \in User : users[u] # NoRow =>
        /\ users[u].verified /\ Existing[u] = NoRow =>
               CodesOf(u, "register") \cap used # {}
        /\ users[u].deleted =>
               CodesOf(u, "request_deletion") \cap used # {}

\* No step takes back a verification or a deletion: not an update that was
\* computed from the row as it was before.
FlagsOnlySet ==
    [][\A u \in User : users[u] # NoRow /\ users'[u] # NoRow =>
           /\ users[u].verified => users'[u].verified
           /\ users[u].deleted => users'[u].deleted]_vars

\* Every transaction that begins ends, and releases its locks: those that wait
\* for each other do not wait for ever.
Settles == []<>(\A t \in Tx : ~Running(t))

\* "Tokens expire and are single-use" (TECHNICAL.md, 4.2): no two confirmations
\* take the same code.
CodeUsedOnce ==
    \A s, t \in Tx :
        /\ s # t /\ tx[s].op \in Confirming /\ tx[t].op \in Confirming
        /\ tx[s].status = "committed" /\ tx[t].status = "committed"
        => tx[s].code # tx[t].code

\* "Updates display name" (TECHNICAL.md, 4.1): an update of the name changes
\* no other column.
NameUpdateOnlyName ==
    [][\A t \in Tx :
           tx[t].op = "update_name" /\ Running(t) /\ tx'[t].status = "committed"
           => users' = users]_vars
==============================================================================
