--------------------------- MODULE MCCursorSubscriptions ---------------------------
(***************************************************************************)
(* Instances of CursorSubscriptions for TLC: one or two subscriptions, of  *)
(* one feed or of one each.                                                *)
(***************************************************************************)
EXTENDS CursorSubscriptions, TLC

CONSTANTS s1, s2, c1, f1, f2

\* The possible checkpoints.
SeenValues == CursorSeen(Event)

\* One subscription.
OneConnection == s1 :> c1
OneFeed == s1 :> f1

\* Two subscriptions of one feed on one connection.
SharedConnection == s1 :> c1 @@ s2 :> c1
SharedFeed == s1 :> f1 @@ s2 :> f1

\* Two subscriptions of two repositories on one connection.
OwnFeed == s1 :> f1 @@ s2 :> f2

\* The two subscriptions are interchangeable.
Symmetry == Permutations(Sub)

PageOfTwo == [f \in Feed |-> 2]
PageOfThree == [f \in Feed |-> 3]
==============================================================================
