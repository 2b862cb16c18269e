--------------------------- MODULE MCAccountTransactions ---------------------------
(***************************************************************************)
(* Instances of AccountTransactions for TLC: one account, and an id and an *)
(* e-mail for another one.                                                 *)
(***************************************************************************)
EXTENDS AccountTransactions, TLC

CONSTANTS u1, u2, e1, e2, p1, p2

OneAccount ==
    u1 :> [email |-> e1, pending |-> NoEmail, password |-> p1,
           verified |-> TRUE, deleted |-> FALSE]
    @@ u2 :> NoRow

NoAccount == u1 :> NoRow
==============================================================================
