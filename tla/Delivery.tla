-------------------------------- MODULE Delivery --------------------------------
(***************************************************************************)
(* What the subscriber is promised by the poll worker, without checkpoints *)
(* and polls: items are queued for a subscription and each queued item is  *)
(* sent once or given up.  An item may be queued again only when the       *)
(* memory of an earlier queueing was lost: it is never sent more often     *)
(* than one time plus the times that memory was lost.                      *)
(***************************************************************************)
EXTENDS Naturals

CONSTANTS Sub, Event

VARIABLES
    queue,  \* what is about to be sent for a subscription
    sent,   \* how often an item was sent
    losses  \* how often the memory of a subscription was lost

vars == <<queue, sent, losses>>

Init ==
    /\ queue = [s \in Sub |-> {}]
    /\ sent = [s \in Sub |-> [e \in Event |-> 0]]
    /\ losses = [s \in Sub |-> 0]

\* Items that are not remembered as sent are queued.
Queue(s, items) ==
    /\ queue[s] = {}
    /\ \A e \in items : sent[s][e] <= losses[s]
    /\ queue' = [queue EXCEPT ![s] = items]
    /\ UNCHANGED <<sent, losses>>

\* An item leaves the queue, sent or given up.
Leave(s, e) ==
    /\ e \in queue[s]
    /\ queue' = [queue EXCEPT ![s] = @ \ {e}]
    /\ sent' \in {sent, [sent EXCEPT ![s][e] = @ + 1]}
    /\ UNCHANGED losses

\* What is queued for some of the subscriptions is given up.
GiveUp(subs) ==
    /\ queue' = [s \in Sub |-> IF s \in subs THEN {} ELSE queue[s]]
    /\ UNCHANGED <<sent, losses>>

Lose(s) ==
    /\ losses' = [losses EXCEPT ![s] = @ + 1]
    /\ UNCHANGED <<queue, sent>>

Next ==
    \/ \E s \in Sub, items \in SUBSET Event : Queue(s, items)
    \/ \E s \in Sub, e \in Event : Leave(s, e)
    \/ \E subs \in SUBSET Sub : GiveUp(subs)
    \/ \E s \in Sub : Lose(s)

Spec == Init /\ [][Next]_vars
==============================================================================
