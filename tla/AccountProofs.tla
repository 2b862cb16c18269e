---------------------------- MODULE AccountProofs ----------------------------
(***************************************************************************)
(* What AccountTransactions promises for any users, e-mails, passwords,    *)
(* accounts at the start and number of transactions.  The invariant IInv   *)
(* says of each running transaction what it has found by the statement at  *)
(* which it stands, and that this still holds whatever the others commit:  *)
(* a transaction that has written a row keeps the others from writing it   *)
(* (RowsLocked), and a code it has found is there unless its account is    *)
(* purged.                                                                 *)
(***************************************************************************)
EXTENDS AccountTransactions, FiniteSetTheorems, SequenceTheorems, TLAPS

------------------------------------------------------------------------------
(* The programs, spelt out.                                                *)

\* Two sequences end to end, of the lengths that occur.
LEMMA OneAndFour ==
    ASSUME NEW S, NEW a \in S, NEW b \in S, NEW c \in S, NEW d \in S, NEW e \in S
    PROVE  <<a>> \o <<b, c, d, e>> = <<a, b, c, d, e>>
<1> DEFINE s == <<a>>
           t == <<b, c, d, e>>
           u == <<a, b, c, d, e>>
<1>1. s \in Seq(S) /\ t \in Seq(S) /\ u \in Seq(S)
  OBVIOUS
<1>2. /\ Len(s) = 1 /\ s[1] = a
      /\ Len(t) = 4 /\ t[1] = b /\ t[2] = c /\ t[3] = d /\ t[4] = e
      /\ Len(u) = 5 /\ u[1] = a /\ u[2] = b /\ u[3] = c /\ u[4] = d /\ u[5] = e
  OBVIOUS
<1> HIDE DEF s, t, u
<1>3. /\ s \o t \in Seq(S) /\ Len(s \o t) = Len(s) + Len(t)
      /\ \A i \in 1 .. Len(s) + Len(t) :
             (s \o t)[i] = IF i <= Len(s) THEN s[i] ELSE t[i - Len(s)]
  BY <1>1, ConcatProperties
<1>4. Len(s \o t) = 5 /\ \A i \in 1 .. 5 : (s \o t)[i] = IF i <= 1 THEN s[i] ELSE t[i - 1]
  BY <1>2, <1>3
<1>5. \A i \in 1 .. Len(u) : (s \o t)[i] = u[i]
  BY <1>2, <1>4
<1>6. s \o t \in Seq(S) /\ u \in Seq(S) /\ Len(s \o t) = Len(u)
  BY <1>1, <1>2, <1>3, <1>4
<1>7. s \o t = u
  BY <1>5, <1>6, SeqEqual
<1> QED
  BY <1>7 DEF s, t, u

\* The same for two and four.
LEMMA TwoAndFour ==
    ASSUME NEW S, NEW a \in S, NEW b \in S, NEW c \in S, NEW d \in S,
           NEW e \in S, NEW f \in S
    PROVE  <<a, b>> \o <<c, d, e, f>> = <<a, b, c, d, e, f>>
<1> DEFINE s == <<a, b>>
           t == <<c, d, e, f>>
           u == <<a, b, c, d, e, f>>
<1>1. s \in Seq(S) /\ t \in Seq(S) /\ u \in Seq(S)
  OBVIOUS
<1>2. /\ Len(s) = 2 /\ s[1] = a /\ s[2] = b
      /\ Len(t) = 4 /\ t[1] = c /\ t[2] = d /\ t[3] = e /\ t[4] = f
      /\ Len(u) = 6 /\ u[1] = a /\ u[2] = b /\ u[3] = c /\ u[4] = d /\ u[5] = e /\ u[6] = f
  OBVIOUS
<1> HIDE DEF s, t, u
<1>3. /\ s \o t \in Seq(S) /\ Len(s \o t) = Len(s) + Len(t)
      /\ \A i \in 1 .. Len(s) + Len(t) :
             (s \o t)[i] = IF i <= Len(s) THEN s[i] ELSE t[i - Len(s)]
  BY <1>1, ConcatProperties
<1>4. Len(s \o t) = 6 /\ \A i \in 1 .. 6 : (s \o t)[i] = IF i <= 2 THEN s[i] ELSE t[i - 2]
  BY <1>2, <1>3
<1>5. \A i \in 1 .. Len(u) : (s \o t)[i] = u[i]
  BY <1>2, <1>4
<1>6. s \o t \in Seq(S) /\ u \in Seq(S) /\ Len(s \o t) = Len(u)
  BY <1>1, <1>2, <1>3, <1>4
<1>7. s \o t = u
  BY <1>5, <1>6, SeqEqual
<1> QED
  BY <1>7 DEF s, t, u

\* The same for three sequences.
LEMMA OneTwoOne ==
    ASSUME NEW S, NEW a \in S, NEW b \in S, NEW c \in S, NEW d \in S
    PROVE  <<a>> \o <<b, c>> \o <<d>> = <<a, b, c, d>>
<1> DEFINE s == <<a>>
           t == <<b, c>>
           v == <<d>>
           u == <<a, b, c, d>>
<1>1. s \in Seq(S) /\ t \in Seq(S) /\ u \in Seq(S) /\ v \in Seq(S)
  OBVIOUS
<1>2. /\ Len(s) = 1 /\ s[1] = a
      /\ Len(t) = 2 /\ t[1] = b /\ t[2] = c
      /\ Len(v) = 1 /\ v[1] = d
      /\ Len(u) = 4 /\ u[1] = a /\ u[2] = b /\ u[3] = c /\ u[4] = d
  OBVIOUS
<1> HIDE DEF s, t, u, v
<1>3. /\ s \o t \in Seq(S) /\ Len(s \o t) = Len(s) + Len(t)
      /\ \A i \in 1 .. Len(s) + Len(t) :
             (s \o t)[i] = IF i <= Len(s) THEN s[i] ELSE t[i - Len(s)]
  BY <1>1, ConcatProperties
<1> DEFINE w == s \o t
<1>4. w \in Seq(S) /\ Len(w) = 3 /\ w[1] = a /\ w[2] = b /\ w[3] = c
  BY <1>2, <1>3
<1> HIDE DEF w
<1>5. /\ w \o v \in Seq(S) /\ Len(w \o v) = Len(w) + Len(v)
      /\ \A i \in 1 .. Len(w) + Len(v) :
             (w \o v)[i] = IF i <= Len(w) THEN w[i] ELSE v[i - Len(w)]
  BY <1>1, <1>4, ConcatProperties
<1>6. \A i \in 1 .. Len(u) : (w \o v)[i] = u[i]
  BY <1>2, <1>4, <1>5
<1>7. w \o v \in Seq(S) /\ u \in Seq(S) /\ Len(w \o v) = Len(u)
  BY <1>1, <1>2, <1>4, <1>5
<1>8. w \o v = u
  BY <1>6, <1>7, SeqEqual
<1> QED
  BY <1>8 DEF s, t, u, v, w

\* The first of a sequence of statements, and the rest.
LEMMA Words ==
    /\ {"load", "create", "update", "verify", "delete", "match", "invalidate",
        "insert", "mail", "lookup", "mark"} \subseteq Statements
    /\ Statements \subseteq {"load", "create", "update", "verify", "delete", "match",
                             "invalidate", "insert", "mail", "lookup", "mark"}
  BY DEF Statements

\* Sequences of one to six statements, one statement later.
LEMMA Cut1 ==
    \A a \in Statements :
        /\ <<a>> # <<>>
        /\ Head(<<a>>) = a
        /\ Tail(<<a>>) = <<>>
  OBVIOUS

\* The same for a longer one.
LEMMA Cut2 ==
    \A a, b \in Statements :
        /\ <<a, b>> # <<>>
        /\ Head(<<a, b>>) = a
        /\ Tail(<<a, b>>) = <<b>>
  OBVIOUS

\* The same for a longer one.
LEMMA Cut3 ==
    \A a, b, c \in Statements :
        /\ <<a, b, c>> # <<>>
        /\ Head(<<a, b, c>>) = a
        /\ Tail(<<a, b, c>>) = <<b, c>>
  OBVIOUS

\* The same for a longer one.
LEMMA Cut4 ==
    \A a, b, c, d \in Statements :
        /\ <<a, b, c, d>> # <<>>
        /\ Head(<<a, b, c, d>>) = a
        /\ Tail(<<a, b, c, d>>) = <<b, c, d>>
  OBVIOUS

\* The same for a longer one.
LEMMA Cut5 ==
    \A a, b, c, d, e \in Statements :
        /\ <<a, b, c, d, e>> # <<>>
        /\ Head(<<a, b, c, d, e>>) = a
        /\ Tail(<<a, b, c, d, e>>) = <<b, c, d, e>>
  OBVIOUS

\* The same for a longer one.
LEMMA Cut6 ==
    \A a, b, c, d, e, f \in Statements :
        /\ <<a, b, c, d, e, f>> # <<>>
        /\ Head(<<a, b, c, d, e, f>>) = a
        /\ Tail(<<a, b, c, d, e, f>>) = <<b, c, d, e, f>>
  OBVIOUS

Creating == {"register", "request_email_change", "request_password_reset",
             "request_deletion"}
Updating == {"change_password", "update_name"}
Confirmations == {"confirm_registration", "confirm_email_change", "confirm_password_reset",
                  "confirm_deletion"}

\* What ends a confirmation.
Finish(op) == CASE op = "confirm_registration" -> "verify"
                [] op = "confirm_deletion"     -> "delete"
                [] OTHER                       -> "update"

\* What the use cases consist of.
LEMMA Programs ==
    /\ Program["register"] = <<"load", "create", "match", "invalidate", "insert", "mail">>
    /\ Program["request_email_change"] =
           <<"load", "update", "match", "invalidate", "insert", "mail">>
    /\ \A op \in {"request_password_reset", "request_deletion"} :
           Program[op] = <<"load", "match", "invalidate", "insert", "mail">>
    /\ \A op \in Confirmations : Program[op] = <<"load", "lookup", "mark", Finish(op)>>
    /\ \A op \in Updating : Program[op] = <<"load", "update">>
<1>1. {"load", "create", "update", "match", "invalidate", "insert", "mail",
       "lookup", "mark", "verify", "delete"} \subseteq Statements
  BY DEF Statements
<1>2. RequestRegistration = <<"load", "create", "match", "invalidate", "insert", "mail">>
  BY <1>1, TwoAndFour DEF RequestRegistration, CreateOtp
<1>3. RequestEmailChange = <<"load", "update", "match", "invalidate", "insert", "mail">>
  BY <1>1, TwoAndFour DEF RequestEmailChange, CreateOtp
<1>4. /\ RequestPasswordReset = <<"load", "match", "invalidate", "insert", "mail">>
      /\ RequestAccountDeletion = <<"load", "match", "invalidate", "insert", "mail">>
  BY <1>1, OneAndFour DEF RequestPasswordReset, RequestAccountDeletion, CreateOtp
<1>5. /\ ConfirmRegistration = <<"load", "lookup", "mark", "verify">>
      /\ ConfirmEmailChange = <<"load", "lookup", "mark", "update">>
      /\ ConfirmPasswordReset = <<"load", "lookup", "mark", "update">>
      /\ ConfirmAccountDeletion = <<"load", "lookup", "mark", "delete">>
  BY <1>1, OneTwoOne
  DEF ConfirmRegistration, ConfirmEmailChange, ConfirmPasswordReset, ConfirmAccountDeletion,
      VerifyOtp
<1>7. /\ Program["register"] = RequestRegistration
      /\ Program["request_email_change"] = RequestEmailChange
      /\ Program["request_password_reset"] = RequestPasswordReset
      /\ Program["request_deletion"] = RequestAccountDeletion
      /\ Program["confirm_registration"] = ConfirmRegistration
      /\ Program["confirm_email_change"] = ConfirmEmailChange
      /\ Program["confirm_password_reset"] = ConfirmPasswordReset
      /\ Program["confirm_deletion"] = ConfirmAccountDeletion
      /\ Program["change_password"] = ChangePassword
      /\ Program["update_name"] = UpdateName
  BY DEF Program
<1>8. /\ Finish("confirm_registration") = "verify"
      /\ Finish("confirm_email_change") = "update"
      /\ Finish("confirm_password_reset") = "update"
      /\ Finish("confirm_deletion") = "delete"
  BY DEF Finish
<1>9. \A op \in Confirmations : Program[op] = <<"load", "lookup", "mark", Finish(op)>>
  BY <1>5, <1>7, <1>8 DEF Confirmations
<1>10. \A op \in Updating : Program[op] = <<"load", "update">>
  BY <1>7 DEF Updating, ChangePassword, UpdateName
<1>11. \A op \in {"request_password_reset", "request_deletion"} :
           Program[op] = <<"load", "match", "invalidate", "insert", "mail">>
  BY <1>4, <1>7
<1> QED
  BY <1>2, <1>3, <1>7, <1>9, <1>10, <1>11

------------------------------------------------------------------------------
(* Where a transaction stands.                                             *)

\* What is left of a program when its next statement is st.
From(op, st) ==
    CASE st = "load"       -> Program[op]
      [] st = "create"     -> <<"create", "match", "invalidate", "insert", "mail">>
      [] st = "match"      -> <<"match", "invalidate", "insert", "mail">>
      [] st = "invalidate" -> <<"invalidate", "insert", "mail">>
      [] st = "insert"     -> <<"insert", "mail">>
      [] st = "mail"       -> <<"mail">>
      [] st = "lookup"     -> <<"lookup", "mark", Finish(op)>>
      [] st = "mark"       -> <<"mark", Finish(op)>>
      [] st = "commit"     -> <<>>
      [] st = "update" /\ op = "request_email_change" ->
             <<"update", "match", "invalidate", "insert", "mail">>
      [] OTHER             -> <<st>>

\* The statements of op, and its COMMIT.
Stages(op) ==
    CASE op = "register" ->
             {"load", "create", "match", "invalidate", "insert", "mail", "commit"}
      [] op = "request_email_change" ->
             {"load", "update", "match", "invalidate", "insert", "mail", "commit"}
      [] op \in {"request_password_reset", "request_deletion"} ->
             {"load", "match", "invalidate", "insert", "mail", "commit"}
      [] op \in Updating -> {"load", "update", "commit"}
      [] OTHER -> {"load", "lookup", "mark", Finish(op), "commit"}

\* The stage after st.
After(op, st) ==
    CASE st = "load" -> (CASE op = "register" -> "create"
                           [] op \in Updating \cup {"request_email_change"} -> "update"
                           [] op \in {"request_password_reset", "request_deletion"} ->
                                  "match"
                           [] OTHER -> "lookup")
      [] st = "create"     -> "match"
      [] st = "match"      -> "invalidate"
      [] st = "invalidate" -> "insert"
      [] st = "insert"     -> "mail"
      [] st = "lookup"     -> "mark"
      [] st = "mark"       -> Finish(op)
      [] st = "update" /\ op = "request_email_change" -> "match"
      [] OTHER             -> "commit"

\* Each use case makes a code, takes one, or only updates its account.
LEMMA OpKinds ==
    /\ Confirming = Confirmations
    /\ Op = Creating \cup Updating \cup Confirmations
<1>1. Confirming = Confirmations
  BY SMT DEF Confirming, RequestOf, Confirmations
<1>2. Op = Creating \cup Updating \cup Confirmations
  BY DEF Op, Creating, Updating, Confirmations
<1> QED
  BY <1>1, <1>2

\* A statement leads to a stage of the same use case, and never back to the load.
LEMMA Advancing ==
    ASSUME NEW op \in Op, NEW st \in Stages(op), st # "commit"
    PROVE  /\ After(op, st) \in Stages(op) \ {"load"}
           /\ From(op, st) # <<>> /\ Head(From(op, st)) = st
           /\ Tail(From(op, st)) = From(op, After(op, st))
<1> DEFINE Cut(x, y) == /\ After(op, x) = y
                        /\ From(op, x) # <<>> /\ Head(From(op, x)) = x
                        /\ Tail(From(op, x)) = From(op, y)
<1>1. CASE op = "register"
  <2>1. Stages(op) = {"load", "create", "match", "invalidate", "insert", "mail", "commit"}
    BY <1>1 DEF Stages, Updating
  <2>2. /\ From(op, "load") = <<"load", "create", "match", "invalidate", "insert", "mail">>
        /\ From(op, "create") = <<"create", "match", "invalidate", "insert", "mail">>
        /\ From(op, "match") = <<"match", "invalidate", "insert", "mail">>
        /\ From(op, "invalidate") = <<"invalidate", "insert", "mail">>
        /\ From(op, "insert") = <<"insert", "mail">>
        /\ From(op, "mail") = <<"mail">>
        /\ From(op, "commit") = <<>>
    BY <1>1, Programs DEF From
  <2>3. /\ After(op, "load") = "create"
        /\ After(op, "create") = "match"
        /\ After(op, "match") = "invalidate"
        /\ After(op, "invalidate") = "insert"
        /\ After(op, "insert") = "mail"
        /\ After(op, "mail") = "commit"
    BY <1>1 DEF After, Updating
  <2>4. Cut("load", "create")
    <3>1. /\ <<"load", "create", "match", "invalidate", "insert", "mail">> # <<>>
          /\ Head(<<"load", "create", "match", "invalidate", "insert", "mail">>) = "load"
          /\ Tail(<<"load", "create", "match", "invalidate", "insert", "mail">>) =
                 <<"create", "match", "invalidate", "insert", "mail">>
      BY Words, Cut6
    <3> QED
      BY <2>2, <2>3, <3>1
  <2>5. Cut("create", "match")
    <3>1. /\ <<"create", "match", "invalidate", "insert", "mail">> # <<>>
          /\ Head(<<"create", "match", "invalidate", "insert", "mail">>) = "create"
          /\ Tail(<<"create", "match", "invalidate", "insert", "mail">>) =
                 <<"match", "invalidate", "insert", "mail">>
      BY Words, Cut5
    <3> QED
      BY <2>2, <2>3, <3>1
  <2>6. Cut("match", "invalidate")
    <3>1. /\ <<"match", "invalidate", "insert", "mail">> # <<>>
          /\ Head(<<"match", "invalidate", "insert", "mail">>) = "match"
          /\ Tail(<<"match", "invalidate", "insert", "mail">>) =
                 <<"invalidate", "insert", "mail">>
      BY Words, Cut4
    <3> QED
      BY <2>2, <2>3, <3>1
  <2>7. Cut("invalidate", "insert")
    <3>1. /\ <<"invalidate", "insert", "mail">> # <<>>
          /\ Head(<<"invalidate", "insert", "mail">>) = "invalidate"
          /\ Tail(<<"invalidate", "insert", "mail">>) = <<"insert", "mail">>
      BY Words, Cut3
    <3> QED
      BY <2>2, <2>3, <3>1
  <2>8. Cut("insert", "mail")
    <3>1. <<"insert", "mail">> # <<>> /\ Head(<<"insert", "mail">>) = "insert"
          /\ Tail(<<"insert", "mail">>) = <<"mail">>
      BY Words, Cut2
    <3> QED
      BY <2>2, <2>3, <3>1
  <2>9. Cut("mail", "commit")
    <3>1. <<"mail">> # <<>> /\ Head(<<"mail">>) = "mail"
          /\ Tail(<<"mail">>) = <<>>
      BY Words, Cut1
    <3> QED
      BY <2>2, <2>3, <3>1
  <2> HIDE DEF Cut
  <2>10. \E y \in Stages(op) \ {"load"} : Cut(st, y)
    BY <2>1, <2>4, <2>5, <2>6, <2>7, <2>8, <2>9
  <2> QED
    BY <2>10 DEF Cut
<1>2. CASE op = "request_email_change"
  <2>1. Stages(op) = {"load", "update", "match", "invalidate", "insert", "mail", "commit"}
    BY <1>2 DEF Stages, Updating
  <2>2. /\ From(op, "load") = <<"load", "update", "match", "invalidate", "insert", "mail">>
        /\ From(op, "update") = <<"update", "match", "invalidate", "insert", "mail">>
        /\ From(op, "match") = <<"match", "invalidate", "insert", "mail">>
        /\ From(op, "invalidate") = <<"invalidate", "insert", "mail">>
        /\ From(op, "insert") = <<"insert", "mail">>
        /\ From(op, "mail") = <<"mail">>
        /\ From(op, "commit") = <<>>
    BY <1>2, Programs DEF From
  <2>3. /\ After(op, "load") = "update"
        /\ After(op, "update") = "match"
        /\ After(op, "match") = "invalidate"
        /\ After(op, "invalidate") = "insert"
        /\ After(op, "insert") = "mail"
        /\ After(op, "mail") = "commit"
    BY <1>2 DEF After, Updating
  <2>4. Cut("load", "update")
    <3>1. /\ <<"load", "update", "match", "invalidate", "insert", "mail">> # <<>>
          /\ Head(<<"load", "update", "match", "invalidate", "insert", "mail">>) = "load"
          /\ Tail(<<"load", "update", "match", "invalidate", "insert", "mail">>) =
                 <<"update", "match", "invalidate", "insert", "mail">>
      BY Words, Cut6
    <3> QED
      BY <2>2, <2>3, <3>1
  <2>5. Cut("update", "match")
    <3>1. /\ <<"update", "match", "invalidate", "insert", "mail">> # <<>>
          /\ Head(<<"update", "match", "invalidate", "insert", "mail">>) = "update"
          /\ Tail(<<"update", "match", "invalidate", "insert", "mail">>) =
                 <<"match", "invalidate", "insert", "mail">>
      BY Words, Cut5
    <3> QED
      BY <2>2, <2>3, <3>1
  <2>6. Cut("match", "invalidate")
    <3>1. /\ <<"match", "invalidate", "insert", "mail">> # <<>>
          /\ Head(<<"match", "invalidate", "insert", "mail">>) = "match"
          /\ Tail(<<"match", "invalidate", "insert", "mail">>) =
                 <<"invalidate", "insert", "mail">>
      BY Words, Cut4
    <3> QED
      BY <2>2, <2>3, <3>1
  <2>7. Cut("invalidate", "insert")
    <3>1. /\ <<"invalidate", "insert", "mail">> # <<>>
          /\ Head(<<"invalidate", "insert", "mail">>) = "invalidate"
          /\ Tail(<<"invalidate", "insert", "mail">>) = <<"insert", "mail">>
      BY Words, Cut3
    <3> QED
      BY <2>2, <2>3, <3>1
  <2>8. Cut("insert", "mail")
    <3>1. <<"insert", "mail">> # <<>> /\ Head(<<"insert", "mail">>) = "insert"
          /\ Tail(<<"insert", "mail">>) = <<"mail">>
      BY Words, Cut2
    <3> QED
      BY <2>2, <2>3, <3>1
  <2>9. Cut("mail", "commit")
    <3>1. <<"mail">> # <<>> /\ Head(<<"mail">>) = "mail"
          /\ Tail(<<"mail">>) = <<>>
      BY Words, Cut1
    <3> QED
      BY <2>2, <2>3, <3>1
  <2> HIDE DEF Cut
  <2>10. \E y \in Stages(op) \ {"load"} : Cut(st, y)
    BY <2>1, <2>4, <2>5, <2>6, <2>7, <2>8, <2>9
  <2> QED
    BY <2>10 DEF Cut
<1>3. CASE op \in {"request_password_reset", "request_deletion"}
  <2>1. Stages(op) = {"load", "match", "invalidate", "insert", "mail", "commit"}
    BY <1>3 DEF Stages, Updating
  <2>2. /\ From(op, "load") = <<"load", "match", "invalidate", "insert", "mail">>
        /\ From(op, "match") = <<"match", "invalidate", "insert", "mail">>
        /\ From(op, "invalidate") = <<"invalidate", "insert", "mail">>
        /\ From(op, "insert") = <<"insert", "mail">>
        /\ From(op, "mail") = <<"mail">>
        /\ From(op, "commit") = <<>>
    BY <1>3, Programs DEF From
  <2>3. /\ After(op, "load") = "match"
        /\ After(op, "match") = "invalidate"
        /\ After(op, "invalidate") = "insert"
        /\ After(op, "insert") = "mail"
        /\ After(op, "mail") = "commit"
    BY <1>3 DEF After, Updating
  <2>4. Cut("load", "match")
    <3>1. /\ <<"load", "match", "invalidate", "insert", "mail">> # <<>>
          /\ Head(<<"load", "match", "invalidate", "insert", "mail">>) = "load"
          /\ Tail(<<"load", "match", "invalidate", "insert", "mail">>) =
                 <<"match", "invalidate", "insert", "mail">>
      BY Words, Cut5
    <3> QED
      BY <2>2, <2>3, <3>1
  <2>5. Cut("match", "invalidate")
    <3>1. /\ <<"match", "invalidate", "insert", "mail">> # <<>>
          /\ Head(<<"match", "invalidate", "insert", "mail">>) = "match"
          /\ Tail(<<"match", "invalidate", "insert", "mail">>) =
                 <<"invalidate", "insert", "mail">>
      BY Words, Cut4
    <3> QED
      BY <2>2, <2>3, <3>1
  <2>6. Cut("invalidate", "insert")
    <3>1. /\ <<"invalidate", "insert", "mail">> # <<>>
          /\ Head(<<"invalidate", "insert", "mail">>) = "invalidate"
          /\ Tail(<<"invalidate", "insert", "mail">>) = <<"insert", "mail">>
      BY Words, Cut3
    <3> QED
      BY <2>2, <2>3, <3>1
  <2>7. Cut("insert", "mail")
    <3>1. <<"insert", "mail">> # <<>> /\ Head(<<"insert", "mail">>) = "insert"
          /\ Tail(<<"insert", "mail">>) = <<"mail">>
      BY Words, Cut2
    <3> QED
      BY <2>2, <2>3, <3>1
  <2>8. Cut("mail", "commit")
    <3>1. <<"mail">> # <<>> /\ Head(<<"mail">>) = "mail"
          /\ Tail(<<"mail">>) = <<>>
      BY Words, Cut1
    <3> QED
      BY <2>2, <2>3, <3>1
  <2> HIDE DEF Cut
  <2>9. \E y \in Stages(op) \ {"load"} : Cut(st, y)
    BY <2>1, <2>4, <2>5, <2>6, <2>7, <2>8
  <2> QED
    BY <2>9 DEF Cut
<1>4. CASE op \in Updating
  <2>1. op \notin {"register", "request_email_change", "request_password_reset",
                   "request_deletion"}
    BY <1>4 DEF Updating
  <2>2. Stages(op) = {"load", "update", "commit"}
    BY <1>4, <2>1 DEF Stages
  <2>3. /\ From(op, "load") = <<"load", "update">>
        /\ From(op, "update") = <<"update">>
        /\ From(op, "commit") = <<>>
    BY <1>4, <2>1, Programs DEF From
  <2>4. /\ After(op, "load") = "update"
        /\ After(op, "update") = "commit"
    BY <1>4, <2>1 DEF After
  <2>5. Cut("load", "update")
    <3>1. <<"load", "update">> # <<>> /\ Head(<<"load", "update">>) = "load"
          /\ Tail(<<"load", "update">>) = <<"update">>
      BY Words, Cut2
    <3> QED
      BY <2>3, <2>4, <3>1
  <2>6. Cut("update", "commit")
    <3>1. <<"update">> # <<>> /\ Head(<<"update">>) = "update"
          /\ Tail(<<"update">>) = <<>>
      BY Words, Cut1
    <3> QED
      BY <2>3, <2>4, <3>1
  <2> HIDE DEF Cut
  <2>7. \E y \in Stages(op) \ {"load"} : Cut(st, y)
    BY <2>2, <2>5, <2>6
  <2> QED
    BY <2>7 DEF Cut
<1>5. CASE op \in Confirmations
  <2>1. op \notin {"register", "request_email_change", "request_password_reset",
                   "request_deletion"} \cup Updating
    BY <1>5 DEF Confirmations, Updating
  <2>2. Finish(op) \in {"verify", "update", "delete"}
    BY DEF Finish
  <2>3. Stages(op) = {"load", "lookup", "mark", Finish(op), "commit"}
    BY <1>5, <2>1, <2>2 DEF Stages
  <2>4. /\ From(op, "load") = <<"load", "lookup", "mark", Finish(op)>>
        /\ From(op, "lookup") = <<"lookup", "mark", Finish(op)>>
        /\ From(op, "mark") = <<"mark", Finish(op)>>
        /\ From(op, Finish(op)) = <<Finish(op)>>
        /\ From(op, "commit") = <<>>
    BY <1>5, <2>1, <2>2, Programs DEF From
  <2>5. /\ After(op, "load") = "lookup"
        /\ After(op, "lookup") = "mark"
        /\ After(op, "mark") = Finish(op)
        /\ After(op, Finish(op)) = "commit"
    BY <1>5, <2>1, <2>2 DEF After
  <2>6. Cut("load", "lookup")
    <3>1. /\ <<"load", "lookup", "mark", Finish(op)>> # <<>>
          /\ Head(<<"load", "lookup", "mark", Finish(op)>>) = "load"
          /\ Tail(<<"load", "lookup", "mark", Finish(op)>>) =
                 <<"lookup", "mark", Finish(op)>>
      BY Words, Cut4, <2>2
    <3> QED
      BY <2>4, <2>5, <3>1
  <2>7. Cut("lookup", "mark")
    <3>1. /\ <<"lookup", "mark", Finish(op)>> # <<>>
          /\ Head(<<"lookup", "mark", Finish(op)>>) = "lookup"
          /\ Tail(<<"lookup", "mark", Finish(op)>>) = <<"mark", Finish(op)>>
      BY Words, Cut3, <2>2
    <3> QED
      BY <2>4, <2>5, <3>1
  <2>8. Cut("mark", Finish(op))
    <3>1. /\ <<"mark", Finish(op)>> # <<>>
          /\ Head(<<"mark", Finish(op)>>) = "mark"
          /\ Tail(<<"mark", Finish(op)>>) = <<Finish(op)>>
      BY Words, Cut2, <2>2
    <3> QED
      BY <2>4, <2>5, <3>1
  <2>9. Cut(Finish(op), "commit")
    <3>1. <<Finish(op)>> # <<>> /\ Head(<<Finish(op)>>) = Finish(op)
          /\ Tail(<<Finish(op)>>) = <<>>
      BY Words, Cut1, <2>2
    <3> QED
      BY <2>4, <2>5, <3>1
  <2> HIDE DEF Cut
  <2>10. \E y \in Stages(op) \ {"load"} : Cut(st, y)
    BY <2>3, <2>6, <2>7, <2>8, <2>9, <2>2
  <2> QED
    BY <2>10 DEF Cut
<1>6. op \in Creating \cup Updating \cup Confirmations
  BY OpKinds
<1>7. \/ op = "register" \/ op = "request_email_change"
      \/ op \in {"request_password_reset", "request_deletion"}
      \/ op \in Updating \/ op \in Confirmations
  BY <1>6 DEF Creating
<1> QED
  BY <1>1, <1>2, <1>3, <1>4, <1>5, <1>7

\* Which use case a statement belongs to.
LEMMA StagesOf ==
    ASSUME NEW op \in Op, NEW st \in Stages(op)
    PROVE  /\ st = "create" => op = "register"
           /\ st = "verify" => op = "confirm_registration"
           /\ st = "delete" => op = "confirm_deletion"
           /\ st = "update" => op \in Updating \cup {"request_email_change",
                                   "confirm_email_change", "confirm_password_reset"}
           /\ st \in {"match", "invalidate", "insert", "mail"} => op \in Creating
           /\ st \in {"lookup", "mark"} => op \in Confirmations
<1>1. CASE op \in Creating
  BY <1>1 DEF Stages, Creating, Updating
<1>2. CASE op \in Updating
  <2>1. op \notin {"register", "request_email_change", "request_password_reset",
                   "request_deletion"}
    BY <1>2 DEF Updating
  <2> QED
    BY <1>2, <2>1 DEF Stages
<1>3. CASE op \in Confirmations
  <2>1. op \notin {"register", "request_email_change", "request_password_reset",
                   "request_deletion"} \cup Updating
    BY <1>3 DEF Confirmations, Updating
  <2>2. Stages(op) = {"load", "lookup", "mark", Finish(op), "commit"}
    BY <2>1 DEF Stages
  <2>3. /\ Finish(op) = "verify" => op = "confirm_registration"
        /\ Finish(op) = "delete" => op = "confirm_deletion"
        /\ Finish(op) = "update" =>
               op \in {"confirm_email_change", "confirm_password_reset"}
        /\ Finish(op) \in {"verify", "update", "delete"}
    BY <1>3 DEF Finish, Confirmations
  <2> QED
    BY <1>3, <2>2, <2>3
<1> QED
  BY <1>1, <1>2, <1>3, OpKinds

\* The first of what is left is the stage.
LEMMA FirstIsStage ==
    ASSUME NEW op \in Op, NEW st \in Stages(op)
    PROVE  st = IF From(op, st) = <<>> THEN "commit" ELSE Head(From(op, st))
<1>1. CASE st = "commit"
  <2>1. From(op, "commit") = <<>>
    BY DEF From
  <2> QED
    BY <1>1, <2>1
<1>2. CASE st # "commit"
  BY <1>2, Advancing
<1> QED
  BY <1>1, <1>2

------------------------------------------------------------------------------
(* The inductive invariant.                                                *)

Stage(t) == IF tx[t].rest = <<>> THEN "commit" ELSE Head(tx[t].rest)

\* The entries of tx.
Entry == [op : Op \cup {"none"},
          status : {"none", "running", "committed", "aborted"},
          rest : Seq(Statements),
          user : User \cup {NoUser},
          email : Email \cup {NoEmail},
          password : Password \cup {NoPassword},
          old : Password \cup {NoPassword},
          code : Tx \cup {NoCode},
          row : Row \cup {NoRow},
          version : Row \cup {NoRow},
          match : SUBSET Tx,
          marks : SUBSET Tx,
          inserted : BOOLEAN,
          expired : SUBSET Tx]

\* A transaction stands in the program of its use case, which has its input.
Placed(t) ==
    /\ tx[t].op \in Op
    /\ Stage(t) \in Stages(tx[t].op)
    /\ tx[t].rest = From(tx[t].op, Stage(t))
    /\ tx[t].op \in {"register", "request_email_change"} => tx[t].email \in Email
    /\ tx[t].op \in {"register", "change_password", "confirm_password_reset"} =>
           tx[t].password \in Password

\* What it has and what it has not by the statement it stands at.
Loaded(t) ==
    /\ Stage(t) \in {"load", "create"} =>
           tx[t].version = NoRow /\ tx[t].marks = {} /\ tx[t].match = {}
    /\ Stage(t) \in {"load", "create", "update", "match", "invalidate", "insert",
                     "lookup", "mark"} => ~tx[t].inserted
    /\ tx[t].op # "register" /\ Stage(t) # "load" =>
           /\ tx[t].user \in User /\ tx[t].row \in Row
           /\ tx[t].op = "confirm_email_change" => tx[t].row.pending \in Email
    /\ tx[t].op \in Confirmations /\ Stage(t) # "commit" => tx[t].version = NoRow

\* A registration has an unverified account of its own, and then its code.
Registers(t) ==
    /\ tx[t].op = "register" /\ Stage(t) \notin {"load", "create"} =>
           /\ tx[t].user \in User
           /\ tx[t].version \in Row /\ ~tx[t].version.verified /\ ~tx[t].version.deleted
           /\ users[tx[t].user] = NoRow
           /\ \A x \in Tx \ {t} : tx[x].user # tx[t].user
    /\ tx[t].op = "register" /\ Stage(t) \in {"mail", "commit"} => tx[t].inserted

\* A confirmation has found the code of a request of its user, and uses it up,
\* unless the account is purged meanwhile.
Confirms(t) ==
    tx[t].op \in Confirmations /\ Stage(t) \notin {"load", "lookup"} =>
        /\ tx[t].code \in Tx
        /\ tx[tx[t].code].status = "committed"
        /\ tx[tx[t].code].user = tx[t].user
        /\ tx[tx[t].code].op = RequestOf[tx[t].op]
        /\ tx[t].code \in issued \/ users[tx[t].user] = NoRow
        /\ Stage(t) # "mark" => tx[t].code \in tx[t].marks \/ users[tx[t].user] = NoRow

\* Only codes of its own user are marked.
Marks(t) ==
    /\ \A c \in tx[t].marks : c \in issued /\ tx[c].user = tx[t].user
    /\ \A c \in tx[t].match : tx[c].status = "committed" /\ tx[c].user = tx[t].user

\* A row is written over a row, and its flags only with their code.
Keeps(t) ==
    tx[t].op # "register" /\ tx[t].version # NoRow =>
        /\ tx[t].user \in User
        /\ users[tx[t].user] # NoRow
        /\ users[tx[t].user].verified => tx[t].version.verified
        /\ tx[t].version.verified =>
               users[tx[t].user].verified \/ tx[t].op = "confirm_registration"
        /\ users[tx[t].user].deleted => tx[t].version.deleted
        /\ tx[t].version.deleted =>
               users[tx[t].user].deleted \/ tx[t].op = "confirm_deletion"

\* A request of an e-mail change holds the row of its user from its update on,
\* and finds every earlier code that works.
Changes(t) ==
    tx[t].op = "request_email_change" =>
        /\ Stage(t) \notin {"load", "update"} /\ tx[t].version = NoRow =>
               users[tx[t].user] = NoRow /\ ~tx[t].inserted
        /\ Stage(t) = "invalidate" =>
               CodesOf(tx[t].user, "request_email_change") \ used \subseteq tx[t].match
        /\ Stage(t) \in {"insert", "mail", "commit"} =>
               CodesOf(tx[t].user, "request_email_change") \ used \subseteq tx[t].marks

Sound(t) == Running(t) => /\ Placed(t) /\ Loaded(t) /\ Registers(t) /\ Confirms(t)
                          /\ Marks(t) /\ Keeps(t) /\ Changes(t)

\* Two transactions never have written the row of one user.
RowsLocked ==
    \A x, y \in Tx :
        /\ x # y /\ Running(x) /\ Running(y)
        /\ tx[x].version # NoRow /\ tx[y].version # NoRow
        => tx[x].user # tx[y].user

CodesCommitted == \A c \in issued : tx[c].status = "committed"

OneCode ==
    \A u \in User : \A c, d \in CodesOf(u, "request_email_change") \ used : c = d

IInv == /\ \A t \in Tx : Sound(t)
        /\ RowsLocked /\ CodesCommitted /\ OneCode
        /\ UnverifiedHasCode /\ FlagsConfirmed

------------------------------------------------------------------------------
(* A step that changes one entry.                                          *)

\* The entry that a statement leaves.
Advanced(r) == [r EXCEPT !.rest = Tail(@)]

\* The entry after a statement stands at the next stage.
LEMMA AdvanceOne ==
    ASSUME TypeOK, NEW t \in Tx, Placed(t), NEW st, At(t, st), st # "commit",
           NEW r \in Entry, r.op = tx[t].op, r.status = "running", r.rest = tx[t].rest,
           r.email = tx[t].email, r.password = tx[t].password,
           Advance(t, r)
    PROVE  /\ tx' = [tx EXCEPT ![t] = Advanced(r)] /\ tx'[t] = Advanced(r)
           /\ Advanced(r) \in Entry
           /\ \A x \in Tx \ {t} : tx'[x] = tx[x]
           /\ Stage(t)' = After(tx[t].op, st) /\ Placed(t)' /\ Running(t)'
<1>1. tx \in [Tx -> Entry]
  BY DEF TypeOK, Entry
<1>2. tx' = [tx EXCEPT ![t] = Advanced(r)]
  BY DEF Advance, Advanced
<1>3. /\ tx[t].op \in Op /\ st = Stage(t) /\ st \in Stages(tx[t].op)
      /\ tx[t].rest = From(tx[t].op, st)
  BY DEF Placed, At, Stage
<1>4. /\ After(tx[t].op, st) \in Stages(tx[t].op)
      /\ From(tx[t].op, st) # <<>>
      /\ Tail(From(tx[t].op, st)) = From(tx[t].op, After(tx[t].op, st))
  BY <1>3, Advancing
<1>5. tx[t].rest \in Seq(Statements) /\ tx[t].rest # <<>>
  BY <1>1, <1>3, <1>4 DEF Entry
<1>6. Tail(tx[t].rest) \in Seq(Statements)
  BY <1>5
<1>7. Advanced(r) \in Entry /\ Advanced(r).rest = From(tx[t].op, After(tx[t].op, st))
  BY <1>3, <1>4, <1>6 DEF Advanced, Entry
<1>8. tx'[t] = Advanced(r) /\ \A x \in Tx \ {t} : tx'[x] = tx[x]
  BY <1>1, <1>2
<1>9. Stage(t)' = After(tx[t].op, st)
  BY <1>3, <1>4, <1>7, <1>8, FirstIsStage DEF Stage
<1>10. /\ tx'[t].op = tx[t].op /\ tx'[t].status = "running"
       /\ tx'[t].email = tx[t].email /\ tx'[t].password = tx[t].password
  BY <1>8 DEF Advanced, Entry
<1> QED
  BY <1>2, <1>3, <1>4, <1>7, <1>8, <1>9, <1>10 DEF Placed, Running

\* The other transactions, the rows and the codes do not mind.
LEMMA OneEntry ==
    ASSUME TypeOK, IInv, NEW t \in Tx, tx[t].status # "committed",
           NEW r \in Entry, r.status # "committed", tx' = [tx EXCEPT ![t] = r],
           UNCHANGED dbVars,
           \/ r.user \in {tx[t].user, NoUser}
           \/ r.user \in User /\ users[r.user] # NoRow
           \/ \A x \in Tx : tx[x].user # r.user,
           \/ r.version = NoRow
           \/ r.version = tx[t].version /\ r.user = tx[t].user /\ Running(t)
           \/ \A x \in Tx \ {t} :
                  Running(x) /\ tx[x].version # NoRow => tx[x].user # r.user,
           Sound(t)'
    PROVE  tx' \in [Tx -> Entry] /\ IInv'
<1>1. tx \in [Tx -> Entry] /\ issued \subseteq Tx /\ used \subseteq issued
      /\ users \in [User -> Row \cup {NoRow}]
  BY DEF TypeOK, Entry
<1>2. tx' \in [Tx -> Entry] /\ tx'[t] = r /\ \A x \in Tx \ {t} : tx'[x] = tx[x]
  BY <1>1
<1>3. \A c \in issued : c # t /\ c \in Tx /\ tx'[c] = tx[c]
  BY <1>1, <1>2 DEF IInv, CodesCommitted
<1>4. \A u, op : CodesOf(u, op)' = CodesOf(u, op)
  BY <1>3 DEF CodesOf, Owner, dbVars
<1>5. ASSUME NEW x \in Tx \ {t} PROVE Sound(x)'
  <2> SUFFICES ASSUME Running(x) PROVE Sound(x)'
    BY <1>2 DEF Sound, Running
  <2>1. Sound(x) /\ Running(x)' /\ Stage(x)' = Stage(x) /\ tx'[x] = tx[x]
    BY <1>2 DEF IInv, Running, Stage
  <2>2. Placed(x)' /\ Loaded(x)' /\ Keeps(x)'
    BY <2>1 DEF Sound, Placed, Loaded, Keeps, dbVars
  <2>3. Registers(x)'
    <3> SUFFICES ASSUME tx[x].op = "register", Stage(x) \notin {"load", "create"}
                 PROVE  \A y \in Tx \ {x} : tx'[y].user # tx[x].user
      BY <2>1 DEF Sound, Registers, dbVars
    <3>1. tx[x].user \in User /\ users[tx[x].user] = NoRow
          /\ \A y \in Tx \ {x} : tx[y].user # tx[x].user
      BY <2>1 DEF Sound, Registers
    <3>2. r.user # tx[x].user
      BY <3>1, AccountAssumption
    <3> QED
      BY <1>2, <3>1, <3>2
  <2>4. Confirms(x)'
    <3> SUFFICES ASSUME tx[x].op \in Confirmations, Stage(x) \notin {"load", "lookup"}
                 PROVE  Confirms(x)'
      BY <2>1 DEF Confirms
    <3>1. tx[x].code \in Tx /\ tx[tx[x].code].status = "committed"
      BY <2>1 DEF Sound, Confirms
    <3>2. tx'[tx[x].code] = tx[tx[x].code]
      BY <1>2, <3>1
    <3> QED
      BY <2>1, <3>2 DEF Sound, Confirms, dbVars
  <2>5. Marks(x)'
    <3>1. \A c \in tx[x].marks : c \in issued /\ tx[c].user = tx[x].user
      BY <2>1 DEF Sound, Marks
    <3>2. \A c \in tx[x].match : tx[c].status = "committed" /\ tx[c].user = tx[x].user
      BY <2>1 DEF Sound, Marks
    <3>3. tx[x].match \subseteq Tx
      BY <1>1 DEF Entry
    <3>4. \A c \in tx[x].match : tx'[c] = tx[c]
      BY <1>2, <3>2, <3>3
    <3> QED
      BY <1>3, <2>1, <3>1, <3>2, <3>4 DEF Marks, dbVars
  <2>6. Changes(x)'
    BY <1>4, <2>1 DEF Sound, Changes, dbVars
  <2> QED
    BY <2>2, <2>3, <2>4, <2>5, <2>6 DEF Sound
<1>6. RowsLocked'
  <2> SUFFICES ASSUME NEW x \in Tx, NEW y \in Tx, x # y, Running(x)', Running(y)',
                      tx'[x].version # NoRow, tx'[y].version # NoRow
               PROVE  tx'[x].user # tx'[y].user
    BY DEF RowsLocked
  <2>1. CASE x # t /\ y # t
    BY <1>2, <2>1 DEF IInv, RowsLocked, Running
  <2>2. CASE x = t
    BY <1>2, <2>2 DEF IInv, RowsLocked, Running
  <2>3. CASE y = t
    BY <1>2, <2>3 DEF IInv, RowsLocked, Running
  <2> QED
    BY <2>1, <2>2, <2>3
<1>7. CodesCommitted'
  BY <1>3 DEF IInv, CodesCommitted, dbVars
<1>8. OneCode' /\ UnverifiedHasCode' /\ FlagsConfirmed'
  BY <1>4 DEF IInv, OneCode, UnverifiedHasCode, FlagsConfirmed, dbVars
<1> QED
  BY <1>2, <1>5, <1>6, <1>7, <1>8 DEF IInv

\* What a step leaves alone keeps its type.
LEMMA EntriesTyped ==
    ASSUME TypeOK, tx' \in [Tx -> Entry], UNCHANGED dbVars,
           expired' \subseteq Tx, mailed' \subseteq Tx
    PROVE  TypeOK'
  BY DEF TypeOK, Entry, dbVars

\* The fields of an entry that no request has.
LEMMA IdleEntry ==
    /\ Idle \in [op : {"none"}, status : {"none"}, rest : {<<>>}, user : {NoUser},
                 email : {NoEmail}, password : {NoPassword}, old : {NoPassword},
                 code : {NoCode}, row : {NoRow}, version : {NoRow},
                 match : {{}}, marks : {{}}, inserted : {FALSE}, expired : {{}}]
    /\ <<>> \in Seq(Statements)
  BY DEF Idle

\* What a request brings.
LEMMA RequestFields ==
    ASSUME TypeOK, NEW r \in Requests
    PROVE  /\ r.op \in Op
           /\ r.user = NoUser \/ (r.user \in User /\ users[r.user] # NoRow)
           /\ r.email \in Email \cup {NoEmail}
           /\ r.password \in Password \cup {NoPassword}
           /\ r.old \in Password \cup {NoPassword}
           /\ r.code \in Tx \cup {NoCode}
           /\ r.op \in {"register", "request_email_change"} => r.email \in Email
           /\ r.op \in {"register", "change_password", "confirm_password_reset"} =>
                  r.password \in Password
<1>1. mailed \subseteq Tx /\ LoggedIn \subseteq User
      /\ \A u \in LoggedIn : users[u] # NoRow
  BY DEF TypeOK, LoggedIn
<1> HIDE DEF LoggedIn
<1>2. CASE r \in [op : {"register"}, user : {NoUser}, email : Email,
                  password : Password, old : {NoPassword}, code : {NoCode}]
  BY <1>2 DEF Op
<1>3. CASE r \in [op : {"confirm_registration"}, user : {NoUser}, email : Email,
                  password : {NoPassword}, old : {NoPassword}, code : mailed]
  BY <1>1, <1>3 DEF Op
<1>4. CASE r \in [op : {"change_password"}, user : LoggedIn, email : {NoEmail},
                  password : Password, old : Password, code : {NoCode}]
  BY <1>1, <1>4 DEF Op
<1>5. CASE r \in [op : {"update_name", "request_deletion"}, user : LoggedIn,
                  email : {NoEmail}, password : {NoPassword}, old : {NoPassword},
                  code : {NoCode}]
  BY <1>1, <1>5 DEF Op
<1>6. CASE r \in [op : {"request_email_change"}, user : LoggedIn, email : Email,
                  password : {NoPassword}, old : {NoPassword}, code : {NoCode}]
  BY <1>1, <1>6 DEF Op
<1>7. CASE r \in [op : {"confirm_email_change", "confirm_deletion"}, user : LoggedIn,
                  email : {NoEmail}, password : {NoPassword}, old : {NoPassword},
                  code : mailed]
  BY <1>1, <1>7 DEF Op
<1>8. CASE r \in [op : {"request_password_reset"}, user : {NoUser}, email : Email,
                  password : {NoPassword}, old : {NoPassword}, code : {NoCode}]
  BY <1>8 DEF Op
<1>9. CASE r \in [op : {"confirm_password_reset"}, user : {NoUser}, email : Email,
                  password : Password, old : {NoPassword}, code : mailed]
  BY <1>1, <1>9 DEF Op
<1> QED
  BY <1>2, <1>3, <1>4, <1>5, <1>6, <1>7, <1>8, <1>9 DEF Requests

\* A use case begins with its first statement, and has nothing yet.
LEMMA ProgramsStart ==
    ASSUME NEW op \in Op
    PROVE  "load" \in Stages(op) /\ Program[op] = From(op, "load")
           /\ Program[op] \in Seq(Statements)
<1>1. Program[op] = From(op, "load")
  BY DEF From
<1>2. "load" \in Stages(op)
  BY DEF Stages
<1>3. {"load", "create", "update", "verify", "delete", "match", "invalidate", "insert",
       "mail", "lookup", "mark"} \subseteq Statements
  BY Words
<1>4. \A b, c, d, e, f \in Statements :
          /\ <<b, c>> \in Seq(Statements)
          /\ <<b, c, d, e>> \in Seq(Statements)
          /\ <<b, c, d, e, f>> \in Seq(Statements)
  OBVIOUS
<1>5. \A a, b, c, d, e, f \in Statements : <<a, b, c, d, e, f>> \in Seq(Statements)
  OBVIOUS
<1>6. CASE op = "register"
  <2>1. Program[op] = <<"load", "create", "match", "invalidate", "insert", "mail">>
    BY <1>6, Programs
  <2>2. <<"load", "create", "match", "invalidate", "insert", "mail">> \in Seq(Statements)
    BY <1>3, <1>5
  <2> QED
    BY <1>1, <1>2, <2>1, <2>2
<1>7. CASE op = "request_email_change"
  <2>1. Program[op] = <<"load", "update", "match", "invalidate", "insert", "mail">>
    BY <1>7, Programs
  <2>2. <<"load", "update", "match", "invalidate", "insert", "mail">> \in Seq(Statements)
    BY <1>3, <1>5
  <2> QED
    BY <1>1, <1>2, <2>1, <2>2
<1>8. CASE op \in {"request_password_reset", "request_deletion"}
  <2>1. Program[op] = <<"load", "match", "invalidate", "insert", "mail">>
    BY <1>8, Programs
  <2>2. <<"load", "match", "invalidate", "insert", "mail">> \in Seq(Statements)
    BY <1>3, <1>4
  <2> QED
    BY <1>1, <1>2, <2>1, <2>2
<1>9. CASE op \in Updating
  <2>1. Program[op] = <<"load", "update">>
    BY <1>9, Programs
  <2>2. <<"load", "update">> \in Seq(Statements)
    BY <1>3, <1>4
  <2> QED
    BY <1>1, <1>2, <2>1, <2>2
<1>10. CASE op \in Confirmations
  <2>1. Program[op] = <<"load", "lookup", "mark", Finish(op)>>
    BY <1>10, Programs
  <2>2. Finish(op) \in Statements
    BY <1>3 DEF Finish
  <2>3. <<"load", "lookup", "mark", Finish(op)>> \in Seq(Statements)
    BY <1>3, <1>4, <2>2
  <2> QED
    BY <1>1, <1>2, <2>1, <2>3
<1> QED
  BY <1>6, <1>7, <1>8, <1>9, <1>10, OpKinds DEF Creating

\* A transaction begins with its request and nothing else.
LEMMA BeginKeeps ==
    ASSUME TypeOK, IInv, NEW t \in Tx, Begin(t)
    PROVE  TypeOK' /\ IInv'
<1>1. PICK q \in Requests :
          tx' = [tx EXCEPT ![t] =
                  [Idle EXCEPT !.op = q.op, !.status = "running",
                               !.rest = Program[q.op], !.user = q.user,
                               !.email = q.email, !.password = q.password,
                               !.old = q.old, !.code = q.code,
                               !.expired = expired]]
  BY DEF Begin
<1> DEFINE r == [Idle EXCEPT !.op = q.op, !.status = "running",
                             !.rest = Program[q.op], !.user = q.user,
                             !.email = q.email, !.password = q.password,
                             !.old = q.old, !.code = q.code,
                             !.expired = expired]
<1>2. /\ q.op \in Op
      /\ q.user = NoUser \/ (q.user \in User /\ users[q.user] # NoRow)
      /\ q.email \in Email \cup {NoEmail} /\ q.password \in Password \cup {NoPassword}
      /\ q.old \in Password \cup {NoPassword} /\ q.code \in Tx \cup {NoCode}
      /\ q.op \in {"register", "request_email_change"} => q.email \in Email
      /\ q.op \in {"register", "change_password", "confirm_password_reset"} =>
             q.password \in Password
  BY RequestFields
<1>3. /\ "load" \in Stages(q.op) /\ Program[q.op] = From(q.op, "load")
      /\ Program[q.op] \in Seq(Statements)
  BY <1>2, ProgramsStart
<1>4. /\ r.op = q.op /\ r.status = "running" /\ r.rest = From(q.op, "load")
      /\ r.user = q.user /\ r.email = q.email /\ r.password = q.password
      /\ r.code = q.code /\ r.version = NoRow /\ r.match = {} /\ r.marks = {}
      /\ r.inserted = FALSE
  BY <1>3, IdleEntry
<1>5. r \in Entry
  BY <1>2, <1>3, IdleEntry DEF Entry, TypeOK
<1> HIDE DEF r
<1>6. tx' = [tx EXCEPT ![t] = r]
  BY <1>1 DEF r
<1>7. tx'[t] = r /\ tx[t].status = "none"
  BY <1>6 DEF TypeOK, Begin
<1>8. Stage(t)' = "load"
  BY <1>2, <1>3, <1>4, <1>7, FirstIsStage DEF Stage
<1>9. Placed(t)'
  BY <1>2, <1>3, <1>4, <1>7, <1>8 DEF Placed
<1>10. Loaded(t)' /\ Registers(t)' /\ Confirms(t)' /\ Marks(t)' /\ Keeps(t)' /\ Changes(t)'
  BY <1>4, <1>7, <1>8 DEF Loaded, Registers, Confirms, Marks, Keeps, Changes
<1>11. Sound(t)'
  BY <1>9, <1>10 DEF Sound
<1>12. tx' \in [Tx -> Entry] /\ IInv'
  BY <1>2, <1>4, <1>5, <1>6, <1>7, <1>11, OneEntry DEF Begin, dbVars
<1> QED
  BY <1>12, EntriesTyped DEF Begin, TypeOK, dbVars

\* A rollback drops what the transaction has.
LEMMA RollbackKeeps ==
    ASSUME TypeOK, IInv, NEW t \in Tx, Running(t), Rollback(t)
    PROVE  TypeOK' /\ IInv'
<1> DEFINE r == [Idle EXCEPT !.status = "aborted"]
<1>1. /\ r.status = "aborted" /\ r.user = NoUser /\ r.version = NoRow
      /\ r \in Entry
  BY IdleEntry DEF Entry
<1> HIDE DEF r
<1>2. tx' = [tx EXCEPT ![t] = r]
  BY DEF Rollback, r
<1>3. tx'[t] = r
  BY <1>2 DEF TypeOK
<1>4. Sound(t)'
  BY <1>1, <1>3 DEF Sound, Running
<1>5. tx' \in [Tx -> Entry] /\ IInv'
  BY <1>1, <1>2, <1>4, OneEntry DEF Rollback, Running
<1> QED
  BY <1>5, EntriesTyped DEF Rollback, TypeOK, dbVars

------------------------------------------------------------------------------
(* The statements.                                                         *)

\* A statement that leaves the entry r, which suits the next stage.
LEMMA StatementKeeps ==
    ASSUME TypeOK, IInv, NEW t \in Tx, NEW st, At(t, st), st # "commit",
           NEW r \in Entry, r.op = tx[t].op, r.status = "running", r.rest = tx[t].rest,
           r.email = tx[t].email, r.password = tx[t].password,
           Advance(t, r), UNCHANGED dbVars, UNCHANGED expired, mailed' \subseteq Tx,
           \/ r.user \in {tx[t].user, NoUser}
           \/ r.user \in User /\ users[r.user] # NoRow
           \/ \A x \in Tx : tx[x].user # r.user,
           \/ r.version = NoRow
           \/ r.version = tx[t].version /\ r.user = tx[t].user
           \/ \A x \in Tx \ {t} :
                  Running(x) /\ tx[x].version # NoRow => tx[x].user # r.user,
           Loaded(t)' /\ Registers(t)' /\ Confirms(t)',
           Marks(t)' /\ Keeps(t)' /\ Changes(t)'
    PROVE  TypeOK' /\ IInv'
<1>1. Running(t) /\ Placed(t)
  BY DEF IInv, Sound, At
<1>2. /\ tx' = [tx EXCEPT ![t] = Advanced(r)] /\ Advanced(r) \in Entry /\ Placed(t)'
  BY <1>1, AdvanceOne
<1>3. /\ Advanced(r).status = "running" /\ Advanced(r).user = r.user
      /\ Advanced(r).version = r.version
  BY DEF Advanced, Entry
<1>4. Sound(t)'
  BY <1>2 DEF Sound
<1>5. tx' \in [Tx -> Entry] /\ IInv'
  BY <1>1, <1>2, <1>3, <1>4, OneEntry DEF Running
<1> QED
  BY <1>5, EntriesTyped DEF TypeOK

\* What is known of a running transaction, and of the one a statement leaves.
LEMMA RunningEntry ==
    ASSUME TypeOK, IInv, NEW t \in Tx, Running(t)
    PROVE  /\ tx[t] \in Entry /\ tx[t].op \in Op /\ tx[t].status = "running"
           /\ Stage(t) \in Stages(tx[t].op)
           /\ Placed(t) /\ Loaded(t) /\ Registers(t) /\ Confirms(t) /\ Marks(t)
           /\ Keeps(t) /\ Changes(t)
           /\ t \notin issued
  BY DEF TypeOK, Entry, IInv, Sound, Placed, Running, CodesCommitted

\* What the entry after a statement holds.
LEMMA AdvanceFields ==
    ASSUME TypeOK, IInv, NEW t \in Tx, NEW st, At(t, st), st # "commit",
           NEW r \in Entry, r.op = tx[t].op, r.status = "running", r.rest = tx[t].rest,
           r.email = tx[t].email, r.password = tx[t].password,
           Advance(t, r), UNCHANGED dbVars
    PROVE  /\ st = Stage(t) /\ Stage(t)' = After(tx[t].op, st)
           /\ \A x \in Tx \ {t} : tx'[x] = tx[x]
           /\ tx'[t].op = tx[t].op /\ tx'[t].user = r.user /\ tx'[t].code = r.code
           /\ tx'[t].row = r.row /\ tx'[t].version = r.version /\ tx'[t].match = r.match
           /\ tx'[t].marks = r.marks /\ tx'[t].inserted = r.inserted
           /\ \A u, op : CodesOf(u, op)' = CodesOf(u, op)
<1>1. Running(t) /\ st = Stage(t)
  BY DEF At, Stage
<1>2. /\ tx'[t] = Advanced(r) /\ \A x \in Tx \ {t} : tx'[x] = tx[x]
      /\ Stage(t)' = After(tx[t].op, st)
  BY <1>1, AdvanceOne, RunningEntry
<1>3. \A c \in issued : c # t /\ c \in Tx
  BY <1>1, RunningEntry DEF TypeOK
<1>4. \A u, op : CodesOf(u, op)' = CodesOf(u, op)
  BY <1>2, <1>3 DEF CodesOf, Owner, dbVars
<1> QED
  BY <1>1, <1>2, <1>4 DEF Advanced, Entry

\* The use case goes on only with a row that it admits.
LEMMA LoadKeeps ==
    ASSUME TypeOK, IInv, NEW t \in Tx, Load(t)
    PROVE  TypeOK' /\ IInv'
<1>1. At(t, "load") /\ Running(t) /\ Stage(t) = "load"
  BY DEF Load, Ready, At, Stage
<1>2. /\ tx[t] \in Entry /\ tx[t].op \in Op /\ tx[t].status = "running"
      /\ tx[t].version = NoRow /\ tx[t].marks = {} /\ tx[t].match = {} /\ ~tx[t].inserted
  BY <1>1, RunningEntry DEF Loaded
<1>3. CASE /\ tx[t].op = "register" /\ Advance(t, tx[t])
           /\ UNCHANGED <<dbVars, expired, mailed>>
  <2>1. /\ Stage(t)' = After("register", "load") /\ tx'[t].op = "register"
        /\ tx'[t].version = NoRow /\ tx'[t].marks = {} /\ tx'[t].match = {}
        /\ ~tx'[t].inserted
    BY <1>1, <1>2, <1>3, AdvanceFields
  <2>2. Stage(t)' = "create"
    BY <2>1 DEF After, Updating
  <2>3. Loaded(t)' /\ Registers(t)' /\ Confirms(t)' /\ Marks(t)' /\ Keeps(t)' /\ Changes(t)'
    BY <2>1, <2>2 DEF Loaded, Registers, Confirms, Marks, Keeps, Changes, Confirmations
  <2> QED
    BY <1>1, <1>2, <1>3, <2>3, StatementKeeps DEF TypeOK
<1>4. ASSUME tx[t].op # "register", NEW u \in Found(t), Admits(t, users[u]),
             Advance(t, [tx[t] EXCEPT !.user = u, !.row = users[u]]),
             UNCHANGED <<dbVars, expired, mailed>>
      PROVE  TypeOK' /\ IInv'
  <2>1. u \in User /\ users[u] # NoRow /\ users[u] \in Row
    BY <1>4 DEF Found, TypeOK
  <2>2. tx[t].op = "confirm_email_change" => users[u].pending \in Email
    BY <1>4, <2>1 DEF Admits, Row
  <2> DEFINE r == [tx[t] EXCEPT !.user = u, !.row = users[u]]
  <2>3. /\ r \in Entry /\ r.op = tx[t].op /\ r.status = "running" /\ r.rest = tx[t].rest
        /\ r.email = tx[t].email /\ r.password = tx[t].password
        /\ r.user = u /\ r.row = users[u] /\ r.version = NoRow
        /\ r.marks = {} /\ r.match = {} /\ ~r.inserted
    BY <1>2, <2>1 DEF Entry
  <2> HIDE DEF r
  <2>4. Advance(t, r)
    BY <1>4 DEF r
  <2>5. /\ Stage(t)' = After(tx[t].op, "load") /\ tx'[t].op = tx[t].op
        /\ tx'[t].user = u /\ tx'[t].row = users[u] /\ tx'[t].version = NoRow
        /\ tx'[t].marks = {} /\ tx'[t].match = {} /\ ~tx'[t].inserted
    BY <1>1, <1>4, <2>3, <2>4, AdvanceFields
  <2>6. /\ After(tx[t].op, "load") \in {"update", "match", "lookup"}
        /\ tx[t].op = "request_email_change" => After(tx[t].op, "load") = "update"
        /\ tx[t].op \in Confirmations => After(tx[t].op, "load") = "lookup"
    BY <1>4 DEF After, Updating, Confirmations
  <2>7. Loaded(t)' /\ Registers(t)' /\ Confirms(t)' /\ Marks(t)' /\ Keeps(t)' /\ Changes(t)'
    BY <1>4, <2>1, <2>2, <2>5, <2>6
    DEF Loaded, Registers, Confirms, Marks, Keeps, Changes
  <2> QED
    BY <1>1, <1>4, <2>1, <2>3, <2>4, <2>7, StatementKeeps DEF TypeOK
<1>5. CASE Rollback(t)
  BY <1>1, <1>5, RollbackKeeps
<1> QED
  BY <1>3, <1>4, <1>5 DEF Load

\* The id of a new account is new to every other transaction.
LEMMA CreateKeeps ==
    ASSUME TypeOK, IInv, NEW t \in Tx, Create(t)
    PROVE  TypeOK' /\ IInv'
<1>1. At(t, "create") /\ Running(t) /\ Stage(t) = "create"
  BY DEF Create, Ready, At, Stage
<1>2. /\ tx[t] \in Entry /\ tx[t].op = "register" /\ tx[t].status = "running"
      /\ tx[t].marks = {} /\ tx[t].match = {} /\ ~tx[t].inserted
      /\ tx[t].email \in Email /\ tx[t].password \in Password
  BY <1>1, RunningEntry, StagesOf DEF Loaded, Placed
<1>3. ASSUME NEW u \in FreshUsers,
             Advance(t, [tx[t] EXCEPT !.user = u, !.version = NewAccount(t)]),
             UNCHANGED <<dbVars, expired, mailed>>
      PROVE  TypeOK' /\ IInv'
  <2>1. u \in User /\ users[u] = NoRow /\ \A x \in Tx : tx[x].user # u
    BY <1>3 DEF FreshUsers
  <2>2. NewAccount(t) \in Row /\ ~NewAccount(t).verified /\ ~NewAccount(t).deleted
    BY <1>2 DEF NewAccount, Row
  <2> DEFINE r == [tx[t] EXCEPT !.user = u, !.version = NewAccount(t)]
  <2>3. /\ r \in Entry /\ r.op = tx[t].op /\ r.status = "running" /\ r.rest = tx[t].rest
        /\ r.email = tx[t].email /\ r.password = tx[t].password
        /\ r.user = u /\ r.version = NewAccount(t)
        /\ r.marks = {} /\ r.match = {} /\ ~r.inserted
    BY <1>2, <2>1, <2>2 DEF Entry
  <2> HIDE DEF r
  <2>4. Advance(t, r)
    BY <1>3 DEF r
  <2>5. /\ Stage(t)' = After("register", "create") /\ tx'[t].op = "register"
        /\ tx'[t].user = u /\ tx'[t].version = NewAccount(t)
        /\ tx'[t].marks = {} /\ tx'[t].match = {} /\ ~tx'[t].inserted
        /\ \A x \in Tx \ {t} : tx'[x] = tx[x]
    BY <1>1, <1>2, <1>3, <2>3, <2>4, AdvanceFields
  <2>6. Stage(t)' = "match"
    BY <2>5 DEF After
  <2>7. Loaded(t)' /\ Registers(t)' /\ Confirms(t)' /\ Marks(t)' /\ Keeps(t)' /\ Changes(t)'
    BY <1>3, <2>1, <2>2, <2>5, <2>6
    DEF Loaded, Registers, Confirms, Marks, Keeps, Changes, Confirmations, dbVars
  <2> QED
    BY <1>1, <1>3, <2>1, <2>3, <2>4, <2>7, StatementKeeps DEF TypeOK
<1>4. CASE Rollback(t)
  BY <1>1, <1>4, RollbackKeeps
<1> QED
  BY <1>3, <1>4 DEF Create

\* The row that an update writes, if its account is still there.
LEMMA NewRowKeepsFlags ==
    ASSUME TypeOK, IInv, NEW t \in Tx, At(t, "update"), users[tx[t].user] # NoRow
    PROVE  /\ NewRow(t) \in Row
           /\ NewRow(t).verified = users[tx[t].user].verified
           /\ NewRow(t).deleted = users[tx[t].user].deleted
<1>1. Running(t) /\ Stage(t) = "update"
  BY DEF At, Stage
<1>2. /\ tx[t].op \in Updating \cup {"request_email_change", "confirm_email_change",
                                     "confirm_password_reset"}
      /\ tx[t].user \in User /\ tx[t].row \in Row
      /\ tx[t].op = "confirm_email_change" => tx[t].row.pending \in Email
      /\ tx[t].op = "request_email_change" => tx[t].email \in Email
      /\ tx[t].op \in {"change_password", "confirm_password_reset"} =>
             tx[t].password \in Password
  BY <1>1, RunningEntry, StagesOf DEF Loaded, Placed, Updating
<1>3. users[tx[t].user] \in Row
  BY <1>2 DEF TypeOK
<1> DEFINE row == tx[t].row
           done == CASE tx[t].op \in {"change_password", "confirm_password_reset"} ->
                         [row EXCEPT !.password = tx[t].password]
                  [] tx[t].op = "request_email_change" ->
                         [row EXCEPT !.pending = tx[t].email]
                  [] tx[t].op = "confirm_email_change" ->
                         [row EXCEPT !.email = row.pending, !.pending = NoEmail]
                  [] OTHER -> row
<1>4. done \in Row
  BY <1>2 DEF Row
<1>5. NewRow(t) = [done EXCEPT !.verified = users[tx[t].user].verified,
                               !.deleted = users[tx[t].user].deleted]
  BY DEF NewRow
<1> HIDE DEF done
<1> QED
  BY <1>3, <1>4, <1>5 DEF Row

\* A write of a row: by one that has waited for the others that wrote it.
LEMMA WriteKeeps ==
    ASSUME TypeOK, IInv, NEW t \in Tx, NEW st \in {"update", "verify", "delete"}, At(t, st),
           NEW version \in Row \cup {NoRow},
           version # NoRow =>
               /\ users[tx[t].user] # NoRow
               /\ RowHolders(t, tx[t].user) = {}
               /\ users[tx[t].user].verified => version.verified
               /\ version.verified => users[tx[t].user].verified \/ st = "verify"
               /\ users[tx[t].user].deleted => version.deleted
               /\ version.deleted => users[tx[t].user].deleted \/ st = "delete",
           st = "update" /\ version = NoRow => users[tx[t].user] = NoRow,
           Advance(t, [tx[t] EXCEPT !.version = version]),
           UNCHANGED <<dbVars, expired, mailed>>
    PROVE  TypeOK' /\ IInv'
<1>1. Running(t) /\ Stage(t) = st
  BY DEF At, Stage
<1>2. /\ tx[t] \in Entry /\ tx[t].op \in Op /\ tx[t].status = "running"
      /\ Loaded(t) /\ Confirms(t) /\ Marks(t) /\ t \notin issued
  BY <1>1, RunningEntry
<1>3. /\ st = "verify" => tx[t].op = "confirm_registration"
      /\ st = "delete" => tx[t].op = "confirm_deletion"
      /\ st = "update" => tx[t].op \in Updating \cup {"request_email_change",
                                 "confirm_email_change", "confirm_password_reset"}
  BY <1>1, RunningEntry, StagesOf
<1>4. tx[t].op # "register" /\ tx[t].user \in User /\ tx[t].row \in Row
      /\ (tx[t].op = "confirm_email_change" => tx[t].row.pending \in Email)
      /\ (st = "update" => ~tx[t].inserted)
  BY <1>1, <1>2, <1>3 DEF Loaded, Updating
<1> DEFINE r == [tx[t] EXCEPT !.version = version]
<1>5. /\ r \in Entry /\ r.op = tx[t].op /\ r.status = "running" /\ r.rest = tx[t].rest
      /\ r.email = tx[t].email /\ r.password = tx[t].password
      /\ r.user = tx[t].user /\ r.row = tx[t].row /\ r.version = version
      /\ r.marks = tx[t].marks /\ r.match = tx[t].match /\ r.inserted = tx[t].inserted
      /\ r.code = tx[t].code
  BY <1>2 DEF Entry
<1> HIDE DEF r
<1>6. Advance(t, r)
  BY DEF r
<1>7. /\ Stage(t)' = After(tx[t].op, st) /\ tx'[t].op = tx[t].op
      /\ tx'[t].user = tx[t].user /\ tx'[t].row = tx[t].row /\ tx'[t].version = version
      /\ tx'[t].marks = tx[t].marks /\ tx'[t].match = tx[t].match
      /\ tx'[t].inserted = tx[t].inserted /\ tx'[t].code = tx[t].code
      /\ \A x \in Tx \ {t} : tx'[x] = tx[x]
  BY <1>1, <1>5, <1>6, AdvanceFields
<1>8. Stage(t)' = IF tx[t].op = "request_email_change" THEN "match" ELSE "commit"
  BY <1>3, <1>7 DEF After
<1>9. Loaded(t)' /\ Registers(t)'
  BY <1>4, <1>7, <1>8, <1>2, <1>1, <1>3 DEF Loaded, Registers, Confirmations
<1>10. Confirms(t)'
  <2> SUFFICES ASSUME tx[t].op \in Confirmations PROVE Confirms(t)'
    BY <1>7 DEF Confirms
  <2>1. /\ tx[t].code \in Tx
        /\ tx[tx[t].code].status = "committed"
        /\ tx[tx[t].code].user = tx[t].user
        /\ tx[tx[t].code].op = RequestOf[tx[t].op]
        /\ tx[t].code \in issued \/ users[tx[t].user] = NoRow
        /\ tx[t].code \in tx[t].marks \/ users[tx[t].user] = NoRow
    BY <1>1, <1>2 DEF Confirms
  <2>2. tx'[tx[t].code] = tx[tx[t].code]
    BY <1>2, <1>7, <2>1
  <2> QED
    BY <1>7, <2>1, <2>2 DEF Confirms, dbVars
<1>11. Marks(t)'
  <2>1. \A c \in tx[t].marks : c \in issued /\ tx[c].user = tx[t].user /\ c \in Tx /\ c # t
    BY <1>2 DEF Marks, Entry
  <2>2. \A c \in tx[t].match :
            tx[c].status = "committed" /\ tx[c].user = tx[t].user /\ c \in Tx /\ c # t
    BY <1>2 DEF Marks, Entry
  <2> QED
    BY <1>7, <2>1, <2>2 DEF Marks, dbVars
<1>12. Keeps(t)' /\ Changes(t)'
  BY <1>3, <1>4, <1>7, <1>8 DEF Keeps, Changes, dbVars
<1>13. version # NoRow =>
          \A x \in Tx \ {t} : Running(x) /\ tx[x].version # NoRow => tx[x].user # tx[t].user
  BY DEF RowHolders, Others
<1> QED
  BY <1>1, <1>5, <1>6, <1>9, <1>10, <1>11, <1>12, <1>13, StatementKeeps DEF TypeOK


\* What the next statement waits for.
LEMMA WaitsFor ==
    ASSUME NEW t \in Tx
    PROVE  /\ At(t, "update") /\ users[tx[t].user] # NoRow =>
                  RowHolders(t, tx[t].user) \subseteq Blockers(t)
           /\ At(t, "verify") \/ At(t, "delete") =>
                  Blockers(t) = RowHolders(t, tx[t].user)
  BY DEF Blockers, At

\* The UPDATE leaves the flags of the committed row as they are.
LEMMA UpdateKeeps ==
    ASSUME TypeOK, IInv, NEW t \in Tx, Update(t)
    PROVE  TypeOK' /\ IInv'
<1>1. At(t, "update") /\ Blockers(t) = {} /\ Running(t)
  BY DEF Update, Ready, At
<1>2. CASE Rollback(t)
  BY <1>1, <1>2, RollbackKeeps
<1>3. CASE /\ Advance(t, [tx[t] EXCEPT !.version = IF users[tx[t].user] = NoRow
                                                   THEN NoRow ELSE NewRow(t)])
           /\ UNCHANGED <<dbVars, expired, mailed>>
  <2>1. CASE users[tx[t].user] = NoRow
    <3>1. Advance(t, [tx[t] EXCEPT !.version = NoRow])
      BY <1>3, <2>1
    <3> QED
      BY <1>1, <1>3, <2>1, <3>1, WriteKeeps
  <2>2. CASE users[tx[t].user] # NoRow
    <3>1. Advance(t, [tx[t] EXCEPT !.version = NewRow(t)])
      BY <1>3, <2>2
    <3>2. RowHolders(t, tx[t].user) = {}
      BY <1>1, <2>2, WaitsFor
    <3>3. /\ NewRow(t) \in Row /\ NewRow(t) # NoRow
          /\ NewRow(t).verified = users[tx[t].user].verified
          /\ NewRow(t).deleted = users[tx[t].user].deleted
      BY <1>1, <2>2, NewRowKeepsFlags, AccountAssumption
    <3> HIDE DEF NewRow
    <3> QED
      BY <1>1, <1>3, <2>2, <3>1, <3>2, <3>3, WriteKeeps
  <2> QED
    BY <2>1, <2>2
<1> QED
  BY <1>2, <1>3 DEF Update

\* Only a confirmation of a registration sets is_verified.
LEMMA VerifyKeeps ==
    ASSUME TypeOK, IInv, NEW t \in Tx, Verify(t)
    PROVE  TypeOK' /\ IInv'
<1>1. At(t, "verify") /\ RowHolders(t, tx[t].user) = {} /\ Running(t) /\ Stage(t) = "verify"
  BY WaitsFor DEF Verify, Ready, At, Stage
<1>2. tx[t].user \in User
  BY <1>1, RunningEntry, StagesOf DEF Loaded
<1> DEFINE row == users[tx[t].user]
           version == IF row # NoRow /\ ~row.deleted
                      THEN [row EXCEPT !.verified = TRUE] ELSE NoRow
<1>3. row # NoRow => row \in Row
  BY <1>2 DEF TypeOK
<1>4. /\ version \in Row \cup {NoRow}
      /\ version # NoRow => /\ row # NoRow /\ version.verified = TRUE
                            /\ version.deleted = row.deleted
  BY <1>3 DEF Row
<1>5. Advance(t, [tx[t] EXCEPT !.version = version])
      /\ UNCHANGED <<dbVars, expired, mailed>>
  BY DEF Verify
<1> HIDE DEF version
<1> QED
  BY <1>1, <1>4, <1>5, WriteKeeps

\* Only a confirmation of a deletion sets is_deleted.
LEMMA DeleteKeeps ==
    ASSUME TypeOK, IInv, NEW t \in Tx, Delete(t)
    PROVE  TypeOK' /\ IInv'
<1>1. At(t, "delete") /\ RowHolders(t, tx[t].user) = {} /\ Running(t) /\ Stage(t) = "delete"
  BY WaitsFor DEF Delete, Ready, At, Stage
<1>2. tx[t].user \in User
  BY <1>1, RunningEntry, StagesOf DEF Loaded
<1> DEFINE row == users[tx[t].user]
           version == IF row # NoRow THEN [row EXCEPT !.deleted = TRUE] ELSE NoRow
<1>3. row # NoRow => row \in Row
  BY <1>2 DEF TypeOK
<1>4. /\ version \in Row \cup {NoRow}
      /\ version # NoRow => /\ row # NoRow /\ version.deleted = TRUE
                            /\ version.verified = row.verified
  BY <1>3 DEF Row
<1>5. Advance(t, [tx[t] EXCEPT !.version = version])
      /\ UNCHANGED <<dbVars, expired, mailed>>
  BY DEF Delete
<1> HIDE DEF version
<1> QED
  BY <1>1, <1>4, <1>5, WriteKeeps

\* The statements about codes leave the rest of the entry alone.
LEMMA CodeStatement ==
    ASSUME TypeOK, IInv, NEW t \in Tx,
           NEW st \in {"match", "invalidate", "insert", "mail", "lookup", "mark"},
           At(t, st),
           NEW r \in Entry, r.op = tx[t].op, r.status = "running", r.rest = tx[t].rest,
           r.user = tx[t].user, r.email = tx[t].email, r.password = tx[t].password,
           r.code = tx[t].code, r.row = tx[t].row, r.version = tx[t].version,
           r.inserted = (tx[t].inserted \/ st = "insert"),
           \A c \in r.marks : c \in issued /\ tx[c].user = tx[t].user,
           \A c \in r.match : tx[c].status = "committed" /\ tx[c].user = tx[t].user,
           Advance(t, r), UNCHANGED dbVars
    PROVE  Loaded(t)' /\ Registers(t)' /\ Marks(t)' /\ Keeps(t)'
<1>1. Running(t) /\ Stage(t) = st
  BY DEF At, Stage
<1>2. /\ tx[t] \in Entry /\ tx[t].op \in Op /\ tx[t].status = "running"
      /\ Loaded(t) /\ Registers(t) /\ Keeps(t) /\ t \notin issued
  BY <1>1, RunningEntry
<1>3. /\ Stage(t)' = After(tx[t].op, st) /\ tx'[t].op = tx[t].op
      /\ tx'[t].user = tx[t].user /\ tx'[t].row = tx[t].row
      /\ tx'[t].version = tx[t].version
      /\ tx'[t].marks = r.marks /\ tx'[t].match = r.match
      /\ tx'[t].inserted = r.inserted /\ tx'[t].code = tx[t].code
      /\ \A x \in Tx \ {t} : tx'[x] = tx[x]
  BY <1>1, AdvanceFields
<1>4. IF st \in {"match", "invalidate", "insert", "mail"}
      THEN tx[t].op \in Creating ELSE tx[t].op \in Confirmations
  BY <1>1, <1>2, RunningEntry, StagesOf
<1>5. /\ st = "match" => Stage(t)' = "invalidate"
      /\ st = "invalidate" => Stage(t)' = "insert"
      /\ st = "insert" => Stage(t)' = "mail"
      /\ st = "mail" => Stage(t)' = "commit"
      /\ st = "lookup" => Stage(t)' = "mark"
      /\ st = "mark" => Stage(t)' \in {"verify", "update", "delete"}
  BY <1>3 DEF After, Finish
<1>6. Loaded(t)'
  BY <1>1, <1>2, <1>3, <1>4, <1>5 DEF Loaded, Creating, Confirmations
<1>7. Registers(t)'
  BY <1>1, <1>2, <1>3, <1>4, <1>5 DEF Registers, Confirmations, dbVars
<1>8. Marks(t)'
  <2>1. \A c \in r.marks : c \in Tx /\ c # t
    BY <1>2 DEF Entry
  <2>2. \A c \in r.match : c \in Tx /\ c # t
    BY <1>2 DEF Entry
  <2> QED
    BY <1>3, <2>1, <2>2 DEF Marks, dbVars
<1>9. Keeps(t)'
  BY <1>2, <1>3 DEF Keeps, dbVars
<1> QED
  BY <1>6, <1>7, <1>8, <1>9

\* A code that a query finds is of a committed transaction.
LEMMA CodesFound ==
    ASSUME TypeOK, IInv, NEW u, NEW op, NEW c \in CodesOf(u, op)
    PROVE  c \in issued /\ c \in Tx /\ tx[c].status = "committed"
           /\ tx[c].user = u /\ tx[c].op = op
  BY DEF CodesOf, Owner, TypeOK, IInv, CodesCommitted

\* A request of an e-mail change finds every code that still works.
LEMMA MatchKeeps ==
    ASSUME TypeOK, IInv, NEW t \in Tx, Match(t)
    PROVE  TypeOK' /\ IInv'
<1>1. At(t, "match") /\ Running(t) /\ Stage(t) = "match"
  BY DEF Match, Ready, At, Stage
<1>2. /\ tx[t] \in Entry /\ tx[t].op \in Creating /\ tx[t].status = "running"
      /\ ~tx[t].inserted /\ Marks(t) /\ Changes(t)
  BY <1>1, RunningEntry, StagesOf DEF Loaded
<1> DEFINE found == CodesOf(tx[t].user, tx[t].op) \ used
           r == [tx[t] EXCEPT !.match = found]
<1>3. \A c \in found : c \in Tx /\ tx[c].status = "committed" /\ tx[c].user = tx[t].user
  BY CodesFound
<1>4. found \in SUBSET Tx
  BY <1>3
<1> HIDE DEF found
<1>5. /\ r \in Entry /\ r.op = tx[t].op /\ r.status = "running" /\ r.rest = tx[t].rest
      /\ r.user = tx[t].user /\ r.email = tx[t].email /\ r.password = tx[t].password
      /\ r.code = tx[t].code /\ r.row = tx[t].row /\ r.version = tx[t].version
      /\ r.inserted = FALSE /\ r.marks = tx[t].marks /\ r.match = found
  BY <1>2, <1>4 DEF Entry
<1> HIDE DEF r
<1>6. Advance(t, r) /\ UNCHANGED <<dbVars, expired, mailed>>
  BY DEF Match, r, found
<1>7. Loaded(t)' /\ Registers(t)' /\ Marks(t)' /\ Keeps(t)'
  BY <1>1, <1>2, <1>3, <1>5, <1>6, CodeStatement DEF Marks
<1>8. /\ Stage(t)' = After(tx[t].op, "match") /\ tx'[t].op = tx[t].op
      /\ tx'[t].user = tx[t].user /\ tx'[t].version = tx[t].version
      /\ tx'[t].match = found /\ tx'[t].inserted = FALSE
      /\ \A u, op : CodesOf(u, op)' = CodesOf(u, op)
  BY <1>1, <1>5, <1>6, AdvanceFields
<1>9. Stage(t)' = "invalidate"
  BY <1>8 DEF After
<1>10. Confirms(t)' /\ Changes(t)'
  BY <1>1, <1>2, <1>6, <1>8, <1>9
  DEF Confirms, Changes, Creating, Confirmations, found, dbVars
<1> QED
  BY <1>1, <1>5, <1>6, <1>7, <1>10, StatementKeeps DEF TypeOK

\* Those it found and that are still unused are the ones it marks.
LEMMA InvalidateKeeps ==
    ASSUME TypeOK, IInv, NEW t \in Tx, Invalidate(t)
    PROVE  TypeOK' /\ IInv'
<1>1. At(t, "invalidate") /\ Running(t) /\ Stage(t) = "invalidate"
  BY DEF Invalidate, Ready, At, Stage
<1>2. /\ tx[t] \in Entry /\ tx[t].op \in Creating /\ tx[t].status = "running"
      /\ ~tx[t].inserted /\ Marks(t) /\ Changes(t)
  BY <1>1, RunningEntry, StagesOf DEF Loaded
<1> DEFINE found == tx[t].match \cap (issued \ used)
           r == [tx[t] EXCEPT !.match = {}, !.marks = found]
<1>3. \A c \in found : c \in issued /\ tx[c].user = tx[t].user
  BY <1>2 DEF Marks
<1>4. found \in SUBSET Tx
  BY <1>3 DEF TypeOK
<1>5. tx[t].op = "request_email_change" =>
          CodesOf(tx[t].user, "request_email_change") \ used \subseteq found
  BY <1>1, <1>2, CodesFound DEF Changes
<1> HIDE DEF found
<1>6. /\ r \in Entry /\ r.op = tx[t].op /\ r.status = "running" /\ r.rest = tx[t].rest
      /\ r.user = tx[t].user /\ r.email = tx[t].email /\ r.password = tx[t].password
      /\ r.code = tx[t].code /\ r.row = tx[t].row /\ r.version = tx[t].version
      /\ r.inserted = FALSE /\ r.marks = found /\ r.match = {}
  BY <1>2, <1>4 DEF Entry
<1> HIDE DEF r
<1>7. Advance(t, r) /\ UNCHANGED <<dbVars, expired, mailed>>
  BY DEF Invalidate, r, found
<1>8. Loaded(t)' /\ Registers(t)' /\ Marks(t)' /\ Keeps(t)'
  BY <1>1, <1>2, <1>3, <1>6, <1>7, CodeStatement
<1>9. /\ Stage(t)' = After(tx[t].op, "invalidate") /\ tx'[t].op = tx[t].op
      /\ tx'[t].user = tx[t].user /\ tx'[t].version = tx[t].version
      /\ tx'[t].marks = found /\ tx'[t].inserted = FALSE
      /\ \A u, op : CodesOf(u, op)' = CodesOf(u, op)
  BY <1>1, <1>6, <1>7, AdvanceFields
<1>10. Stage(t)' = "insert"
  BY <1>9 DEF After
<1>11. Confirms(t)' /\ Changes(t)'
  BY <1>1, <1>2, <1>5, <1>7, <1>9, <1>10
  DEF Confirms, Changes, Creating, Confirmations, dbVars
<1> QED
  BY <1>1, <1>6, <1>7, <1>8, <1>11, StatementKeeps DEF TypeOK

\* A code is inserted for a row that is there, or written by this transaction.
LEMMA InsertKeeps ==
    ASSUME TypeOK, IInv, NEW t \in Tx, Insert(t)
    PROVE  TypeOK' /\ IInv'
<1>1. At(t, "insert") /\ Running(t) /\ Stage(t) = "insert"
  BY DEF Insert, Ready, At, Stage
<1>2. CASE Rollback(t)
  BY <1>1, <1>2, RollbackKeeps
<1>3. CASE /\ users[tx[t].user] # NoRow \/ tx[t].version # NoRow
           /\ Advance(t, [tx[t] EXCEPT !.inserted = TRUE])
           /\ UNCHANGED <<dbVars, expired, mailed>>
  <2>1. /\ tx[t] \in Entry /\ tx[t].op \in Creating /\ tx[t].status = "running"
        /\ Marks(t) /\ Changes(t)
    BY <1>1, RunningEntry, StagesOf
  <2> DEFINE r == [tx[t] EXCEPT !.inserted = TRUE]
  <2>2. /\ r \in Entry /\ r.op = tx[t].op /\ r.status = "running" /\ r.rest = tx[t].rest
        /\ r.user = tx[t].user /\ r.email = tx[t].email /\ r.password = tx[t].password
        /\ r.code = tx[t].code /\ r.row = tx[t].row /\ r.version = tx[t].version
        /\ r.inserted = TRUE /\ r.marks = tx[t].marks /\ r.match = tx[t].match
    BY <2>1 DEF Entry
  <2>3. Advance(t, r)
    BY <1>3
  <2> HIDE DEF r
  <2>4. Loaded(t)' /\ Registers(t)' /\ Marks(t)' /\ Keeps(t)'
    BY <1>1, <1>3, <2>1, <2>2, <2>3, CodeStatement DEF Marks
  <2>5. /\ Stage(t)' = After(tx[t].op, "insert") /\ tx'[t].op = tx[t].op
        /\ tx'[t].user = tx[t].user /\ tx'[t].version = tx[t].version
        /\ tx'[t].marks = tx[t].marks
        /\ \A u, op : CodesOf(u, op)' = CodesOf(u, op)
    BY <1>1, <1>3, <2>2, <2>3, AdvanceFields
  <2>6. Stage(t)' = "mail"
    BY <2>5 DEF After
  <2>7. Confirms(t)' /\ Changes(t)'
    BY <1>1, <1>3, <2>1, <2>5, <2>6
    DEF Confirms, Changes, Creating, Confirmations, dbVars
  <2> QED
    BY <1>1, <1>3, <2>2, <2>3, <2>4, <2>7, StatementKeeps DEF TypeOK
<1> QED
  BY <1>2, <1>3 DEF Insert

\* The mail changes nothing in the database.
LEMMA MailKeeps ==
    ASSUME TypeOK, IInv, NEW t \in Tx, Mail(t)
    PROVE  TypeOK' /\ IInv'
<1>1. At(t, "mail") /\ Running(t) /\ Stage(t) = "mail"
  BY DEF Mail, Ready, At, Stage
<1>2. /\ tx[t] \in Entry /\ tx[t].op \in Creating /\ tx[t].status = "running"
      /\ Marks(t) /\ Changes(t)
  BY <1>1, RunningEntry, StagesOf
<1>3. Advance(t, tx[t]) /\ UNCHANGED dbVars /\ UNCHANGED expired /\ mailed' \subseteq Tx
  BY DEF Mail, TypeOK
<1>4. tx[t].inserted \in BOOLEAN
  BY <1>2 DEF Entry
<1>5. Loaded(t)' /\ Registers(t)' /\ Marks(t)' /\ Keeps(t)'
  BY <1>1, <1>2, <1>3, <1>4, CodeStatement DEF Marks
<1>6. /\ Stage(t)' = After(tx[t].op, "mail") /\ tx'[t].op = tx[t].op
      /\ tx'[t].user = tx[t].user /\ tx'[t].version = tx[t].version
      /\ tx'[t].marks = tx[t].marks /\ tx'[t].inserted = tx[t].inserted
      /\ \A u, op : CodesOf(u, op)' = CodesOf(u, op)
  BY <1>1, <1>2, <1>3, AdvanceFields
<1>7. Stage(t)' = "commit"
  BY <1>6 DEF After
<1>8. Confirms(t)' /\ Changes(t)'
  BY <1>1, <1>2, <1>3, <1>6, <1>7 DEF Confirms, Changes, Creating, Confirmations, dbVars
<1> QED
  BY <1>1, <1>2, <1>3, <1>5, <1>8, StatementKeeps

\* The code that is accepted is one of a request of this user.
LEMMA LookupKeeps ==
    ASSUME TypeOK, IInv, NEW t \in Tx, Lookup(t)
    PROVE  TypeOK' /\ IInv'
<1>1. At(t, "lookup") /\ Running(t) /\ Stage(t) = "lookup"
  BY DEF Lookup, Ready, At, Stage
<1>2. CASE Rollback(t)
  BY <1>1, <1>2, RollbackKeeps
<1>3. CASE /\ Accepted(t, CodesOf(tx[t].user, RequestOf[tx[t].op]))
           /\ Advance(t, tx[t]) /\ UNCHANGED <<dbVars, expired, mailed>>
  <2>1. /\ tx[t] \in Entry /\ tx[t].op \in Confirmations /\ tx[t].status = "running"
        /\ Marks(t) /\ ~tx[t].inserted /\ t \notin issued
    BY <1>1, RunningEntry, StagesOf DEF Loaded
  <2>2. tx[t].code \in CodesOf(tx[t].user, RequestOf[tx[t].op])
    BY <1>3 DEF Accepted
  <2>3. /\ tx[t].code \in issued /\ tx[t].code \in Tx /\ tx[tx[t].code].status = "committed"
        /\ tx[tx[t].code].user = tx[t].user /\ tx[tx[t].code].op = RequestOf[tx[t].op]
        /\ tx[t].code # t
    BY <2>1, <2>2, CodesFound
  <2>4. tx[t].inserted = FALSE
    BY <2>1 DEF Entry
  <2>5. Loaded(t)' /\ Registers(t)' /\ Marks(t)' /\ Keeps(t)'
    BY <1>1, <1>3, <2>1, <2>4, CodeStatement DEF Marks
  <2>6. /\ Stage(t)' = After(tx[t].op, "lookup") /\ tx'[t].op = tx[t].op
        /\ tx'[t].user = tx[t].user /\ tx'[t].code = tx[t].code
        /\ \A x \in Tx \ {t} : tx'[x] = tx[x]
    BY <1>1, <1>3, <2>1, AdvanceFields
  <2>7. Stage(t)' = "mark"
    BY <2>6 DEF After
  <2>8. Changes(t)'
    BY <2>1, <2>6 DEF Changes, Confirmations
  <2>9. Confirms(t)'
    BY <1>3, <2>3, <2>6, <2>7 DEF Confirms, dbVars
  <2> QED
    BY <1>1, <1>3, <2>1, <2>5, <2>8, <2>9, StatementKeeps DEF TypeOK
<1> QED
  BY <1>2, <1>3 DEF Lookup

\* It is marked, unless the purge has taken it along with the account.
LEMMA MarkKeeps ==
    ASSUME TypeOK, IInv, NEW t \in Tx, Mark(t)
    PROVE  TypeOK' /\ IInv'
<1>1. At(t, "mark") /\ Running(t) /\ Stage(t) = "mark"
  BY DEF Mark, Ready, At, Stage
<1>2. /\ tx[t] \in Entry /\ tx[t].op \in Confirmations /\ tx[t].status = "running"
      /\ Marks(t) /\ Confirms(t) /\ ~tx[t].inserted /\ t \notin issued
  BY <1>1, RunningEntry, StagesOf DEF Loaded
<1>3. /\ tx[t].code \in Tx /\ tx[tx[t].code].status = "committed"
      /\ tx[tx[t].code].user = tx[t].user /\ tx[tx[t].code].op = RequestOf[tx[t].op]
      /\ tx[t].code \in issued \/ users[tx[t].user] = NoRow
      /\ tx[t].code # t
  BY <1>1, <1>2, RunningEntry DEF Confirms, Running
<1> DEFINE found == {tx[t].code} \cap issued
           r == [tx[t] EXCEPT !.marks = found]
<1>4. /\ \A c \in found : c \in issued /\ tx[c].user = tx[t].user
      /\ found \in SUBSET Tx
      /\ tx[t].code \in found \/ users[tx[t].user] = NoRow
  BY <1>3
<1> HIDE DEF found
<1>5. /\ r \in Entry /\ r.op = tx[t].op /\ r.status = "running" /\ r.rest = tx[t].rest
      /\ r.user = tx[t].user /\ r.email = tx[t].email /\ r.password = tx[t].password
      /\ r.code = tx[t].code /\ r.row = tx[t].row /\ r.version = tx[t].version
      /\ r.inserted = FALSE /\ r.marks = found /\ r.match = tx[t].match
  BY <1>2, <1>4 DEF Entry
<1> HIDE DEF r
<1>6. Advance(t, r) /\ UNCHANGED <<dbVars, expired, mailed>>
  BY DEF Mark, r, found
<1>7. Loaded(t)' /\ Registers(t)' /\ Marks(t)' /\ Keeps(t)'
  BY <1>1, <1>2, <1>4, <1>5, <1>6, CodeStatement DEF Marks
<1>8. /\ tx'[t].op = tx[t].op
      /\ tx'[t].user = tx[t].user /\ tx'[t].code = tx[t].code /\ tx'[t].marks = found
      /\ \A x \in Tx \ {t} : tx'[x] = tx[x]
  BY <1>1, <1>5, <1>6, AdvanceFields
<1>9. Changes(t)'
  BY <1>2, <1>8 DEF Changes, Confirmations
<1>10. Confirms(t)'
  BY <1>3, <1>4, <1>6, <1>8 DEF Confirms, dbVars
<1> QED
  BY <1>1, <1>5, <1>6, <1>7, <1>9, <1>10, StatementKeeps DEF TypeOK

------------------------------------------------------------------------------
(* The COMMIT.                                                             *)

\* What it changes.
LEMMA CommitEffect ==
    ASSUME TypeOK, IInv, NEW t \in Tx, Commit(t)
    PROVE  /\ Running(t) /\ Stage(t) = "commit"
           /\ tx[t].version # NoRow => tx[t].user \in User
           /\ tx' \in [Tx -> Entry] /\ \A x \in Tx \ {t} : tx'[x] = tx[x]
           /\ tx'[t].status = "committed" /\ tx'[t].op = tx[t].op
           /\ tx'[t].user = tx[t].user
           /\ users' \in [User -> Row \cup {NoRow}]
           /\ \A u \in User : users'[u] = IF tx[t].version # NoRow /\ u = tx[t].user
                                          THEN tx[t].version ELSE users[u]
           /\ issued \subseteq issued' /\ issued' \subseteq issued \cup {t}
           /\ used' = used \cup tx[t].marks /\ tx[t].marks \subseteq issued
<1>1. Running(t) /\ Stage(t) = "commit"
  BY DEF Commit, At, Stage
<1>2. /\ tx[t] \in Entry /\ tx[t].op \in Op /\ Registers(t) /\ Keeps(t) /\ Marks(t)
  BY <1>1, RunningEntry
<1>3. tx[t].version # NoRow => tx[t].user \in User
  BY <1>1, <1>2 DEF Registers, Keeps
<1> DEFINE r == [Idle EXCEPT !.op = tx[t].op, !.status = "committed",
                             !.user = tx[t].user, !.code = tx[t].code]
<1>4. r \in Entry /\ r.status = "committed" /\ r.op = tx[t].op /\ r.user = tx[t].user
  BY <1>2, IdleEntry DEF Entry
<1>5. tx' = [tx EXCEPT ![t] = r]
  BY DEF Commit
<1> HIDE DEF r
<1>6. /\ tx' \in [Tx -> Entry] /\ tx'[t] = r /\ \A x \in Tx \ {t} : tx'[x] = tx[x]
  BY <1>4, <1>5 DEF TypeOK, Entry
<1>7. tx[t].version \in Row \cup {NoRow}
  BY <1>2 DEF Entry
<1>8. /\ users' \in [User -> Row \cup {NoRow}]
      /\ \A u \in User : users'[u] = IF tx[t].version # NoRow /\ u = tx[t].user
                                     THEN tx[t].version ELSE users[u]
  BY <1>3, <1>7 DEF Commit, TypeOK
<1>9. /\ issued \subseteq issued' /\ issued' \subseteq issued \cup {t}
      /\ used' = used \cup tx[t].marks /\ tx[t].marks \subseteq issued
  BY <1>2 DEF Commit, Marks
<1> QED
  BY <1>1, <1>3, <1>4, <1>6, <1>8, <1>9

\* The codes there are then.
LEMMA CommitCodes ==
    ASSUME TypeOK, IInv, NEW t \in Tx, Commit(t), NEW u, NEW op
    PROVE  /\ CodesOf(u, op) \subseteq CodesOf(u, op)'
           /\ \A c \in CodesOf(u, op)' :
                  \/ c \in CodesOf(u, op)
                  \/ c = t /\ tx[t].inserted /\ tx[t].op = op /\ tx[t].user = u
           /\ tx[t].inserted /\ tx[t].op = op /\ tx[t].user = u => t \in CodesOf(u, op)'
<1>1. /\ Running(t) /\ \A x \in Tx \ {t} : tx'[x] = tx[x]
      /\ tx'[t].op = tx[t].op /\ tx'[t].user = tx[t].user
  BY CommitEffect
<1>2. t \notin issued /\ issued \subseteq Tx
  BY <1>1, RunningEntry DEF TypeOK
<1>3. issued' = IF tx[t].inserted THEN issued \cup {t} ELSE issued
  BY DEF Commit
<1>4. \A c \in issued : tx'[c] = tx[c]
  BY <1>1, <1>2
<1> QED
  BY <1>1, <1>2, <1>3, <1>4 DEF CodesOf, Owner

\* The rows and the entries stay well-formed.
LEMMA CommitTyped ==
    ASSUME TypeOK, IInv, NEW t \in Tx, Commit(t)
    PROVE  TypeOK'
<1>1. /\ tx' \in [Tx -> Entry] /\ users' \in [User -> Row \cup {NoRow}]
      /\ issued \subseteq issued' /\ issued' \subseteq issued \cup {t}
      /\ used' = used \cup tx[t].marks /\ tx[t].marks \subseteq issued
  BY CommitEffect
<1>2. issued' \subseteq Tx /\ used' \subseteq issued'
  BY <1>1 DEF TypeOK
<1>3. UNCHANGED <<expired, mailed>>
  BY DEF Commit
<1> QED
  BY <1>1, <1>2, <1>3 DEF TypeOK, Entry

\* The others do not mind: they wait for the rows that it writes.
LEMMA CommitOthers ==
    ASSUME TypeOK, IInv, NEW t \in Tx, Commit(t), NEW x \in Tx \ {t}
    PROVE  Sound(x)'
<1>1. /\ Running(t) /\ Stage(t) = "commit"
      /\ \A y \in Tx \ {t} : tx'[y] = tx[y]
      /\ tx'[t].status = "committed" /\ tx'[t].user = tx[t].user
      /\ \A u \in User : users'[u] = IF tx[t].version # NoRow /\ u = tx[t].user
                                     THEN tx[t].version ELSE users[u]
      /\ issued \subseteq issued' /\ issued' \subseteq issued \cup {t}
      /\ used \subseteq used'
  BY CommitEffect
<1>2. /\ tx[t].op \in Op /\ tx[t].status = "running" /\ t \notin issued
      /\ Registers(t) /\ Keeps(t) /\ Changes(t)
  BY <1>1, RunningEntry
<1> SUFFICES ASSUME Running(x) PROVE Sound(x)'
  BY <1>1 DEF Sound, Running
<1>3. Sound(x) /\ Running(x)' /\ Stage(x)' = Stage(x) /\ tx'[x] = tx[x]
  BY <1>1 DEF IInv, Running, Stage
<1>4. Placed(x)' /\ Loaded(x)'
  BY <1>3 DEF Sound, Placed, Loaded
<1>5. tx[x].user \in User /\ users[tx[x].user] = NoRow => users'[tx[x].user] = NoRow
  BY <1>1, <1>2 DEF Registers, Keeps
<1>6. Registers(x)'
  <2> SUFFICES ASSUME tx[x].op = "register", Stage(x) \notin {"load", "create"}
               PROVE  \A y \in Tx \ {x} : tx'[y].user # tx[x].user
    BY <1>3, <1>5 DEF Sound, Registers
  <2>1. \A y \in Tx \ {x} : tx[y].user # tx[x].user
    BY <1>3 DEF Sound, Registers
  <2> QED
    BY <1>1, <2>1
<1>7. Confirms(x)'
  <2> SUFFICES ASSUME tx[x].op \in Confirmations, Stage(x) \notin {"load", "lookup"}
               PROVE  Confirms(x)'
    BY <1>3 DEF Confirms
  <2>1. tx[x].user \in User
    BY <1>3 DEF Sound, Loaded, Confirmations
  <2>2. /\ tx[x].code \in Tx
        /\ tx[tx[x].code].status = "committed"
        /\ tx[tx[x].code].user = tx[x].user
        /\ tx[tx[x].code].op = RequestOf[tx[x].op]
        /\ tx[x].code \in issued \/ users[tx[x].user] = NoRow
        /\ Stage(x) # "mark" => tx[x].code \in tx[x].marks \/ users[tx[x].user] = NoRow
    BY <1>3 DEF Sound, Confirms
  <2>3. tx'[tx[x].code] = tx[tx[x].code]
    BY <1>1, <1>2, <2>2
  <2>4. /\ tx[x].code \in issued' \/ users'[tx[x].user] = NoRow
        /\ Stage(x) # "mark" => tx[x].code \in tx[x].marks \/ users'[tx[x].user] = NoRow
    BY <1>1, <1>5, <2>1, <2>2
  <2> QED
    BY <1>3, <2>2, <2>3, <2>4 DEF Confirms
<1>8. Marks(x)'
  <2>1. \A c \in tx[x].marks : c \in issued' /\ tx'[c] = tx[c] /\ tx[c].user = tx[x].user
    BY <1>1, <1>2, <1>3 DEF Sound, Marks, TypeOK
  <2>2. \A c \in tx[x].match : tx[c].status = "committed" /\ tx[c].user = tx[x].user
    BY <1>3 DEF Sound, Marks
  <2>3. tx[x].match \subseteq Tx
    BY DEF TypeOK
  <2>4. \A c \in tx[x].match : tx'[c] = tx[c]
    BY <1>1, <1>2, <2>2, <2>3
  <2> QED
    BY <1>3, <2>1, <2>2, <2>4 DEF Marks
<1>9. Keeps(x)'
  <2> SUFFICES ASSUME tx[x].op # "register", tx[x].version # NoRow
               PROVE  users'[tx[x].user] = users[tx[x].user]
    BY <1>3 DEF Sound, Keeps
  <2>1. tx[x].user \in User
    BY <1>3 DEF Sound, Keeps
  <2>2. tx[t].version # NoRow => tx[t].user # tx[x].user
    BY <1>1 DEF IInv, RowsLocked
  <2> QED
    BY <1>1, <2>1, <2>2
<1>10. Changes(x)'
  <2> SUFFICES ASSUME tx[x].op = "request_email_change" PROVE Changes(x)'
    BY <1>3 DEF Changes
  <2>1. CASE Stage(x) \in {"load", "update"}
    BY <1>3, <2>1 DEF Changes
  <2>2. CASE Stage(x) = "match"
    <3>1. tx[x].user \in User
      BY <1>3, <2>2 DEF Sound, Loaded
    <3> QED
      BY <1>3, <1>5, <2>2, <3>1 DEF Sound, Changes
  <2>3. CASE Stage(x) \in {"invalidate", "insert", "mail", "commit"}
    <3>1. tx[x].user \in User
      BY <1>3, <2>3 DEF Sound, Loaded
    <3>2. tx[x].version = NoRow => users[tx[x].user] = NoRow /\ ~tx[x].inserted
      BY <1>3, <2>3 DEF Sound, Changes
    <3>3. ~(tx[t].inserted /\ tx[t].op = "request_email_change" /\ tx[t].user = tx[x].user)
      <4> SUFFICES ASSUME tx[t].inserted, tx[t].op = "request_email_change",
                          tx[t].user = tx[x].user
                   PROVE  FALSE
        OBVIOUS
      <4>1. tx[t].version # NoRow
        BY <1>1, <1>2 DEF Changes
      <4>2. users[tx[x].user] # NoRow
        BY <1>2, <4>1 DEF Keeps
      <4>3. tx[x].version # NoRow
        BY <3>2, <4>2
      <4> QED
        BY <1>1, <4>1, <4>3 DEF IInv, RowsLocked
    <3>4. PICK u \in User : u = tx[x].user
      BY <3>1
    <3>5. (CodesOf(u, "request_email_change") \ used)'
              \subseteq CodesOf(u, "request_email_change") \ used
      BY <1>1, <3>3, <3>4, CommitCodes
    <3>6. tx'[x].user = u
      BY <1>3, <3>4
    <3> QED
      BY <1>3, <1>5, <2>3, <3>1, <3>2, <3>4, <3>5, <3>6 DEF Sound, Changes
  <2>4. Stage(x) \in Stages("request_email_change")
    BY <1>3 DEF Sound, Placed
  <2>5. Stage(x) \in {"load", "update", "match", "invalidate", "insert", "mail", "commit"}
    BY <2>4 DEF Stages
  <2> QED
    BY <2>1, <2>2, <2>3, <2>5
<1> QED
  BY <1>3, <1>4, <1>6, <1>7, <1>8, <1>9, <1>10 DEF Sound

\* Codes and flags stay in step: the transaction has what it needs by its end.
LEMMA CommitKeepsCodes ==
    ASSUME TypeOK, IInv, NEW t \in Tx, Commit(t)
    PROVE  OneCode' /\ UnverifiedHasCode' /\ FlagsConfirmed'
<1>1. /\ Running(t) /\ Stage(t) = "commit"
      /\ \A u \in User : users'[u] = IF tx[t].version # NoRow /\ u = tx[t].user
                                     THEN tx[t].version ELSE users[u]
      /\ used' = used \cup tx[t].marks
  BY CommitEffect
<1>2. /\ tx[t].op \in Op /\ Registers(t) /\ Confirms(t)
      /\ Keeps(t) /\ Changes(t) /\ Marks(t)
  BY <1>1, RunningEntry
<1>3. OneCode'
  <2> SUFFICES ASSUME NEW u \in User,
                      NEW c \in CodesOf(u, "request_email_change")' \ used',
                      NEW d \in CodesOf(u, "request_email_change")' \ used'
               PROVE  c = d
    BY DEF OneCode
  <2>1. CASE tx[t].inserted /\ tx[t].op = "request_email_change" /\ tx[t].user = u
    <3>1. CodesOf(u, "request_email_change") \ used \subseteq tx[t].marks
      BY <1>1, <1>2, <2>1 DEF Changes
    <3> QED
      BY <1>1, <3>1, CommitCodes
  <2>2. CASE ~(tx[t].inserted /\ tx[t].op = "request_email_change" /\ tx[t].user = u)
    <3>1. c \in CodesOf(u, "request_email_change") \ used
          /\ d \in CodesOf(u, "request_email_change") \ used
      BY <1>1, <2>2, CommitCodes
    <3> QED
      BY <3>1 DEF IInv, OneCode
  <2> QED
    BY <2>1, <2>2
<1>4. UnverifiedHasCode'
  <2> SUFFICES ASSUME NEW u \in User, users'[u] # NoRow, ~users'[u].verified
               PROVE  CodesOf(u, "register")' # {}
    BY DEF UnverifiedHasCode
  <2>1. CASE tx[t].version # NoRow /\ u = tx[t].user /\ tx[t].op = "register"
    <3>1. tx[t].inserted
      BY <1>1, <1>2, <2>1 DEF Registers
    <3> QED
      BY <2>1, <3>1, CommitCodes
  <2>2. CASE ~(tx[t].version # NoRow /\ u = tx[t].user /\ tx[t].op = "register")
    <3>1. users[u] # NoRow /\ ~users[u].verified
      BY <1>1, <1>2, <2>2 DEF Keeps
    <3>2. CodesOf(u, "register") # {}
      BY <3>1 DEF IInv, UnverifiedHasCode
    <3> QED
      BY <3>2, CommitCodes
  <2> QED
    BY <2>1, <2>2
<1>5. FlagsConfirmed'
  <2> SUFFICES ASSUME NEW u \in User, users'[u] # NoRow
               PROVE  /\ users'[u].verified /\ Existing[u] = NoRow =>
                             CodesOf(u, "register")' \cap used' # {}
                      /\ users'[u].deleted =>
                             CodesOf(u, "request_deletion")' \cap used' # {}
    BY DEF FlagsConfirmed
  <2>1. CASE ~(tx[t].version # NoRow /\ u = tx[t].user)
    <3>1. users'[u] = users[u]
      BY <1>1, <2>1
    <3>2. /\ users[u].verified /\ Existing[u] = NoRow =>
                 CodesOf(u, "register") \cap used # {}
          /\ users[u].deleted => CodesOf(u, "request_deletion") \cap used # {}
      BY <3>1 DEF IInv, FlagsConfirmed
    <3> QED
      BY <1>1, <3>1, <3>2, CommitCodes
  <2>2. CASE tx[t].version # NoRow /\ u = tx[t].user /\ tx[t].op = "register"
    <3>1. ~users'[u].verified /\ ~users'[u].deleted
      BY <1>1, <1>2, <2>2 DEF Registers
    <3> QED
      BY <3>1
  <2>3. CASE tx[t].version # NoRow /\ u = tx[t].user /\ tx[t].op # "register"
    <3>1. /\ users'[u] = tx[t].version /\ users[u] # NoRow
          /\ users'[u].verified => users[u].verified \/ tx[t].op = "confirm_registration"
          /\ users'[u].deleted => users[u].deleted \/ tx[t].op = "confirm_deletion"
      BY <1>1, <1>2, <2>3 DEF Keeps
    <3>2. /\ users[u].verified /\ Existing[u] = NoRow =>
                 CodesOf(u, "register") \cap used # {}
          /\ users[u].deleted => CodesOf(u, "request_deletion") \cap used # {}
      BY <3>1 DEF IInv, FlagsConfirmed
    <3>3. ASSUME tx[t].op \in Confirmations
          PROVE  tx[t].code \in CodesOf(u, RequestOf[tx[t].op]) \cap used'
      <4>1. /\ tx[t].code \in issued /\ tx[tx[t].code].user = u
            /\ tx[tx[t].code].op = RequestOf[tx[t].op]
            /\ tx[t].code \in tx[t].marks
        BY <1>1, <1>2, <2>3, <3>1, <3>3 DEF Confirms
      <4> QED
        BY <1>1, <4>1 DEF CodesOf, Owner
    <3>4. /\ RequestOf["confirm_registration"] = "register"
          /\ RequestOf["confirm_deletion"] = "request_deletion"
      BY DEF RequestOf
    <3>5. /\ tx[t].op = "confirm_registration" => CodesOf(u, "register") \cap used' # {}
          /\ tx[t].op = "confirm_deletion" => CodesOf(u, "request_deletion") \cap used' # {}
      BY <3>3, <3>4 DEF Confirmations
    <3> QED
      BY <1>1, <3>1, <3>2, <3>5, CommitCodes
  <2> QED
    BY <2>1, <2>2, <2>3
<1> QED
  BY <1>3, <1>4, <1>5

\* The COMMIT keeps the invariant.
LEMMA CommitKeeps ==
    ASSUME TypeOK, IInv, NEW t \in Tx, Commit(t)
    PROVE  TypeOK' /\ IInv'
<1>1. /\ Running(t) /\ tx'[t].status = "committed" /\ \A x \in Tx \ {t} : tx'[x] = tx[x]
      /\ issued' \subseteq issued \cup {t}
  BY CommitEffect
<1>2. \A x \in Tx : Sound(x)'
  <2>1. Sound(t)'
    BY <1>1 DEF Sound, Running
  <2> QED
    BY <2>1, CommitOthers
<1>3. RowsLocked'
  BY <1>1 DEF IInv, RowsLocked, Running
<1>4. CodesCommitted'
  BY <1>1 DEF IInv, CodesCommitted, TypeOK
<1> QED
  BY <1>2, <1>3, <1>4, CommitTyped, CommitKeepsCodes DEF IInv

------------------------------------------------------------------------------
(* What happens besides the statements.                                    *)

\* The purge takes rows that nobody has written, and their codes.
LEMMA PurgeKeeps ==
    ASSUME TypeOK, IInv, Purge
    PROVE  TypeOK' /\ IInv'
<1> DEFINE U == {u \in User : users[u] # NoRow /\ users[u].deleted}
           C == {c \in issued : Owner(c) \in U}
<1>1. /\ U \subseteq User
      /\ \A x \in Tx : Running(x) /\ tx[x].user \in U =>
             tx[x].version = NoRow /\ ~tx[x].inserted /\ tx[x].marks = {}
      /\ users' = [u \in User |-> IF u \in U THEN NoRow ELSE users[u]]
      /\ issued' = issued \ C /\ used' = used \ C
      /\ UNCHANGED <<expired, mailed, tx>>
  BY DEF Purge
<1>2. \A c : c \in C <=> c \in issued /\ tx[c].user \in U
  BY DEF Owner
<1> HIDE DEF U, C
<1>3. TypeOK'
  BY <1>1 DEF TypeOK
<1>4. /\ \A u \in U : users'[u] = NoRow
      /\ \A u \in User \ U : users'[u] = users[u]
      /\ \A u \in User : users[u] = NoRow => users'[u] = NoRow
  BY <1>1
<1>5. \A u, op : /\ CodesOf(u, op)' \subseteq CodesOf(u, op)
                 /\ u \notin U => CodesOf(u, op)' = CodesOf(u, op)
                 /\ (CodesOf(u, op) \ used)' \subseteq CodesOf(u, op) \ used
                 /\ u \notin U => CodesOf(u, op) \cap used = (CodesOf(u, op) \cap used)'
  BY <1>1, <1>2 DEF CodesOf, Owner
<1>6. ASSUME NEW x \in Tx PROVE Sound(x)'
  <2> SUFFICES ASSUME Running(x) PROVE Sound(x)'
    BY <1>1 DEF Sound, Running
  <2>1. Sound(x) /\ Running(x)' /\ Stage(x)' = Stage(x) /\ tx' = tx
    BY <1>1 DEF IInv, Running, Stage
  <2>2. Placed(x)' /\ Loaded(x)'
    BY <2>1 DEF Sound, Placed, Loaded
  <2>3. Registers(x)'
    BY <1>4, <2>1 DEF Sound, Registers
  <2>4. Confirms(x)'
    <3> SUFFICES ASSUME tx[x].op \in Confirmations, Stage(x) \notin {"load", "lookup"}
                 PROVE  Confirms(x)'
      BY <2>1 DEF Confirms
    <3>1. tx[x].user \in User
      BY <2>1 DEF Sound, Loaded, Confirmations
    <3>2. /\ tx[tx[x].code].user = tx[x].user
          /\ tx[x].code \in issued \/ users[tx[x].user] = NoRow
          /\ Stage(x) # "mark" => tx[x].code \in tx[x].marks \/ users[tx[x].user] = NoRow
      BY <2>1 DEF Sound, Confirms
    <3>3. tx[x].code \in issued' \/ users'[tx[x].user] = NoRow
      BY <1>1, <1>2, <1>4, <3>1, <3>2
    <3>4. Stage(x) # "mark" => tx[x].code \in tx[x].marks \/ users'[tx[x].user] = NoRow
      BY <1>4, <3>1, <3>2
    <3> QED
      BY <2>1, <3>3, <3>4 DEF Sound, Confirms
  <2>5. Marks(x)'
    <3>1. \A c \in tx[x].marks : c \in issued /\ tx[c].user = tx[x].user
      BY <2>1 DEF Sound, Marks
    <3>2. \A c \in tx[x].marks : c \in issued'
      BY <1>1, <1>2, <3>1
    <3> QED
      BY <2>1, <3>1, <3>2 DEF Sound, Marks
  <2>6. Keeps(x)'
    <3> SUFFICES ASSUME tx[x].op # "register", tx[x].version # NoRow
                 PROVE  users'[tx[x].user] = users[tx[x].user]
      BY <2>1 DEF Sound, Keeps
    <3>1. tx[x].user \in User \ U
      BY <1>1, <2>1 DEF Sound, Keeps
    <3> QED
      BY <1>4, <3>1
  <2>7. Changes(x)'
    <3> SUFFICES ASSUME tx[x].op = "request_email_change" PROVE Changes(x)'
      BY <2>1 DEF Changes
    <3>1. Stage(x) # "load" => tx[x].user \in User
      BY <2>1 DEF Sound, Loaded
    <3>2. Stage(x) \notin {"load", "update"} /\ tx[x].version = NoRow =>
              users'[tx[x].user] = NoRow /\ ~tx[x].inserted
      BY <1>4, <2>1, <3>1 DEF Sound, Changes
    <3> QED
      BY <1>5, <2>1, <3>2 DEF Sound, Changes
  <2> QED
    BY <2>1, <2>2, <2>3, <2>4, <2>5, <2>6, <2>7 DEF Sound
<1>7. RowsLocked' /\ CodesCommitted'
  BY <1>1 DEF IInv, RowsLocked, CodesCommitted, Running
<1>8. OneCode'
  BY <1>5 DEF IInv, OneCode
<1>9. UnverifiedHasCode' /\ FlagsConfirmed'
  <2> SUFFICES ASSUME NEW u \in User, users'[u] # NoRow
               PROVE  /\ ~users'[u].verified => CodesOf(u, "register")' # {}
                      /\ users'[u].verified /\ Existing[u] = NoRow =>
                             (CodesOf(u, "register") \cap used)' # {}
                      /\ users'[u].deleted =>
                             (CodesOf(u, "request_deletion") \cap used)' # {}
    BY DEF UnverifiedHasCode, FlagsConfirmed
  <2>1. u \notin U /\ users'[u] = users[u]
    BY <1>4
  <2>2. /\ ~users[u].verified => CodesOf(u, "register") # {}
        /\ users[u].verified /\ Existing[u] = NoRow => CodesOf(u, "register") \cap used # {}
        /\ users[u].deleted => CodesOf(u, "request_deletion") \cap used # {}
    BY <2>1 DEF IInv, UnverifiedHasCode, FlagsConfirmed
  <2> QED
    BY <1>5, <2>1, <2>2
<1> QED
  BY <1>3, <1>6, <1>7, <1>8, <1>9 DEF IInv

\* What is mailed and what has expired do not matter to the invariant.
LEMMA SameState ==
    ASSUME IInv, UNCHANGED <<users, issued, used, tx>>
    PROVE  IInv'
<1>1. \A u, op : CodesOf(u, op)' = CodesOf(u, op)
  BY DEF CodesOf, Owner
<1>2. ASSUME NEW t \in Tx PROVE Sound(t)'
  <2>1. Sound(t) /\ Stage(t)' = Stage(t) /\ Running(t)' = Running(t)
    BY DEF IInv, Stage, Running
  <2>2. (Placed(t) => Placed(t)') /\ (Loaded(t) => Loaded(t)')
    BY <2>1 DEF Placed, Loaded
  <2>3. (Registers(t) => Registers(t)') /\ (Confirms(t) => Confirms(t)')
    BY <2>1 DEF Registers, Confirms
  <2>4. (Marks(t) => Marks(t)') /\ (Keeps(t) => Keeps(t)')
    BY DEF Marks, Keeps
  <2>5. Changes(t) => Changes(t)'
    BY <1>1, <2>1 DEF Changes
  <2> QED
    BY <2>1, <2>2, <2>3, <2>4, <2>5 DEF Sound
<1>3. RowsLocked' /\ CodesCommitted'
  BY DEF IInv, RowsLocked, CodesCommitted, Running
<1>4. OneCode' /\ UnverifiedHasCode' /\ FlagsConfirmed'
  BY <1>1 DEF IInv, OneCode, UnverifiedHasCode, FlagsConfirmed
<1> QED
  BY <1>2, <1>3, <1>4 DEF IInv

\* That time passes does not matter.
LEMMA ExpireKeeps ==
    ASSUME TypeOK, IInv, NEW c \in Tx, Expire(c)
    PROVE  TypeOK' /\ IInv'
<1>1. IInv'
  BY SameState DEF Expire, dbVars
<1> QED
  BY <1>1 DEF Expire, TypeOK, dbVars

\* Only a running transaction waits.
LEMMA VictimRuns ==
    ASSUME NEW t \in Tx, DeadlockVictim(t)
    PROVE  Running(t) /\ Rollback(t)
<1>1. Blockers(t) # {} => Running(t)
  BY DEF Blockers, At
<1>2. PICK D \in SUBSET Tx : t \in D /\ \A x \in D : Blockers(x) \cap D # {}
  BY DEF DeadlockVictim
<1>3. Blockers(t) # {}
  BY <1>2
<1> QED
  BY <1>1, <1>3 DEF DeadlockVictim

------------------------------------------------------------------------------
(* The theorems.                                                           *)

\* Nothing runs at the start.
LEMMA InitSound ==
    ASSUME Init
    PROVE  TypeOK /\ IInv
<1>1. tx = [t \in Tx |-> Idle] /\ users = Existing /\ issued = {} /\ used = {}
      /\ expired = {} /\ mailed = {}
  BY DEF Init
<1>2. Idle \in Entry /\ Idle.status = "none"
  BY IdleEntry DEF Entry
<1>3. TypeOK
  BY <1>1, <1>2, AccountAssumption DEF TypeOK, Entry
<1>4. \A t \in Tx : ~Running(t)
  BY <1>1, <1>2 DEF Running
<1>5. (\A t \in Tx : Sound(t)) /\ RowsLocked
  BY <1>4 DEF Sound, RowsLocked
<1>6. \A u, op : CodesOf(u, op) = {}
  BY <1>1 DEF CodesOf
<1>7. CodesCommitted /\ OneCode
  BY <1>1, <1>6 DEF CodesCommitted, OneCode
<1>8. UnverifiedHasCode /\ FlagsConfirmed
  BY <1>1, AccountAssumption DEF UnverifiedHasCode, FlagsConfirmed
<1> QED
  BY <1>3, <1>5, <1>7, <1>8 DEF IInv

\* Every step keeps the invariant.
LEMMA NextKeeps ==
    ASSUME TypeOK, IInv, [Next]_vars
    PROVE  TypeOK' /\ IInv'
<1>1. ASSUME NEW t \in Tx, Begin(t) PROVE TypeOK' /\ IInv'
  BY <1>1, BeginKeeps
<1>2. ASSUME NEW t \in Tx, Statement(t) PROVE TypeOK' /\ IInv'
  <2>1. CASE Load(t)
    BY <2>1, LoadKeeps
  <2>2. CASE Create(t)
    BY <2>2, CreateKeeps
  <2>3. CASE Update(t)
    BY <2>3, UpdateKeeps
  <2>4. CASE Verify(t)
    BY <2>4, VerifyKeeps
  <2>5. CASE Delete(t)
    BY <2>5, DeleteKeeps
  <2>6. CASE Match(t)
    BY <2>6, MatchKeeps
  <2>7. CASE Invalidate(t)
    BY <2>7, InvalidateKeeps
  <2>8. CASE Insert(t)
    BY <2>8, InsertKeeps
  <2>9. CASE Mail(t)
    BY <2>9, MailKeeps
  <2>10. CASE Lookup(t)
    BY <2>10, LookupKeeps
  <2>11. CASE Mark(t)
    BY <2>11, MarkKeeps
  <2>12. CASE Commit(t)
    BY <2>12, CommitKeeps
  <2> QED
    BY <1>2, <2>1, <2>2, <2>3, <2>4, <2>5, <2>6, <2>7, <2>8, <2>9, <2>10, <2>11, <2>12
    DEF Statement
<1>3. ASSUME NEW t \in Tx, Fails(t) PROVE TypeOK' /\ IInv'
  BY <1>3, RollbackKeeps DEF Fails
<1>4. ASSUME NEW t \in Tx, DeadlockVictim(t) PROVE TypeOK' /\ IInv'
  BY <1>4, RollbackKeeps, VictimRuns
<1>5. CASE Purge
  BY <1>5, PurgeKeeps
<1>6. ASSUME NEW c \in Tx, Expire(c) PROVE TypeOK' /\ IInv'
  BY <1>6, ExpireKeeps
<1>7. CASE UNCHANGED vars
  <2>1. IInv'
    BY <1>7, SameState DEF vars
  <2> QED
    BY <1>7, <2>1 DEF vars, TypeOK
<1> QED
  BY <1>1, <1>2, <1>3, <1>4, <1>5, <1>6, <1>7 DEF Next

\* Every transaction is sound at every step, whatever the others do: what it
\* found by the statement it reached still holds, or its account is gone.
THEOREM InductiveInvariant == Spec => [](TypeOK /\ IInv)
<1>1. Init => TypeOK /\ IInv
  BY InitSound
<1>2. TypeOK /\ IInv /\ [Next]_vars => (TypeOK /\ IInv)'
  BY NextKeeps
<1> QED
  BY <1>1, <1>2, PTL DEF Spec

\* The rows stay well-formed: no transaction writes what it failed to check.
THEOREM TypeCorrect == Spec => []TypeOK
  BY InductiveInvariant, PTL

\* Two requests of an e-mail change never leave two codes that work.
THEOREM OneChangeCodeAlways == Spec => []OneChangeCode
<1>1. ASSUME IInv PROVE OneChangeCode
  <2> SUFFICES ASSUME NEW u \in User
               PROVE  Cardinality(CodesOf(u, "request_email_change") \ used) <= 1
    BY DEF OneChangeCode
  <2> DEFINE C == CodesOf(u, "request_email_change") \ used
  <2>1. \A c, d \in C : c = d
    BY <1>1 DEF IInv, OneCode
  <2> HIDE DEF C
  <2>2. C = {} => Cardinality(C) = 0
    BY FS_EmptySet
  <2>3. C # {} => Cardinality(C) = 1
    <3> SUFFICES ASSUME C # {} PROVE Cardinality(C) = 1
      OBVIOUS
    <3>1. PICK c \in C : C = {c}
      BY <2>1
    <3> QED
      BY <3>1, FS_Singleton
  <2>4. Cardinality(C) <= 1
    BY <2>2, <2>3
  <2> QED
    BY <2>4 DEF C
<1> QED
  BY <1>1, InductiveInvariant, PTL

\* An account that is not verified has got its registration code.
THEOREM UnverifiedHasCodeAlways == Spec => []UnverifiedHasCode
<1>1. IInv => UnverifiedHasCode
  BY DEF IInv
<1> QED
  BY <1>1, InductiveInvariant, PTL

\* An account is verified, or deleted, only by a used code of that account that
\* was made for this purpose.
THEOREM FlagsConfirmedAlways == Spec => []FlagsConfirmed
<1>1. IInv => FlagsConfirmed
  BY DEF IInv
<1> QED
  BY <1>1, InductiveInvariant, PTL

\* Only the COMMIT and the purge change the rows.
LEMMA RowsChange ==
    ASSUME [Next]_vars
    PROVE  (\E t \in Tx : Commit(t)) \/ Purge \/ UNCHANGED users
<1>1. ASSUME NEW t \in Tx, Statement(t) PROVE Commit(t) \/ UNCHANGED users
  BY <1>1
  DEF Statement, Load, Create, Update, Verify, Delete, Match, Invalidate, Insert, Mail,
      Lookup, Mark, Rollback, dbVars
<1> QED
  BY <1>1 DEF Next, Begin, Fails, DeadlockVictim, Rollback, Expire, dbVars, vars

\* No step takes back a verification or a deletion.
THEOREM FlagsOnlySetAlways == Spec => FlagsOnlySet
<1>1. ASSUME TypeOK, IInv, [Next]_vars
      PROVE  [\A u \in User : users[u] # NoRow /\ users'[u] # NoRow =>
                 /\ users[u].verified => users'[u].verified
                 /\ users[u].deleted => users'[u].deleted]_vars
  <2> SUFFICES ASSUME NEW u \in User, users[u] # NoRow, users'[u] # NoRow
               PROVE  /\ users[u].verified => users'[u].verified
                      /\ users[u].deleted => users'[u].deleted
    OBVIOUS
  <2>1. ASSUME NEW t \in Tx, Commit(t)
        PROVE  /\ users[u].verified => users'[u].verified
               /\ users[u].deleted => users'[u].deleted
    <3>1. /\ Running(t) /\ Stage(t) = "commit"
          /\ users'[u] = IF tx[t].version # NoRow /\ u = tx[t].user
                         THEN tx[t].version ELSE users[u]
      BY <1>1, <2>1, CommitEffect
    <3>2. Registers(t) /\ Keeps(t)
      BY <1>1, <3>1, RunningEntry
    <3> QED
      BY <3>1, <3>2 DEF Registers, Keeps
  <2>2. CASE Purge
    <3>1. users'[u] = users[u]
      BY <2>2 DEF Purge
    <3> QED
      BY <3>1
  <2>3. CASE UNCHANGED users
    BY <2>3
  <2> QED
    BY <1>1, <2>1, <2>2, <2>3, RowsChange
<1> QED
  BY <1>1, InductiveInvariant, PTL DEF Spec, FlagsOnlySet
=============================================================================
