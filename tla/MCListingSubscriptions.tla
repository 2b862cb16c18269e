------------------------- MODULE MCListingSubscriptions -------------------------
(***************************************************************************)
(* An instance of ListingSubscriptions for TLC: one subscription, of each  *)
(* kind in turn.                                                           *)
(***************************************************************************)
EXTENDS ListingSubscriptions, TLC

CONSTANTS s1, c1

OneConnection == s1 :> c1
SeenValues == ListingSeen(Event, MaxTime, MaxCount)
==============================================================================
