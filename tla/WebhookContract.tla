-------------------------- MODULE WebhookContract --------------------------
(***************************************************************************)
(* What a webhook promises to a platform, without saying how: a platform   *)
(* offers a message, maybe several times, until it is told that the        *)
(* message was taken.  A message that waits for its answer is only closed  *)
(* after a turn of its session has answered it.  No offer makes more than  *)
(* one turn.  A deferred message is closed first and answered later.       *)
(***************************************************************************)
CONSTANTS Event,    \* the messages, and other events, of the platforms
          Offer,    \* the requests by which the platforms offer them
          Deferred, \* the events that are closed first and answered later
          Answered  \* the events that are closed with their answer

VARIABLES
    offers, \* the pairs of an event and a request it was offered by
    turns,  \* those that led to a turn of the event's session
    closed  \* the events whose platform was told that they are taken

contract == <<offers, turns, closed>>

ContractInit ==
    /\ offers = {}
    /\ turns = {}
    /\ closed = {}

\* An event that is not closed is offered, a deferred one only once.
OfferEvent(e, r) ==
    /\ e \notin closed
    /\ \A o \in offers : o[2] # r
    /\ e \in Deferred => \A o \in offers : o[1] # e
    /\ offers' = offers \cup {<<e, r>>}
    /\ UNCHANGED <<turns, closed>>

\* A chat answers the event, once for each offer.
TakeTurn(o) ==
    /\ o \in offers \ turns
    /\ o[1] \in Deferred \cup Answered
    /\ turns' = turns \cup {o}
    /\ UNCHANGED <<offers, closed>>

Close(e) ==
    /\ closed' = closed \cup {e}
    /\ \E o \in offers : o[1] = e
    /\ e \in Answered => \E o \in turns : o[1] = e
    /\ UNCHANGED <<offers, turns>>

ContractNext ==
    \/ \E o \in offers : TakeTurn(o)
    \/ \E e \in Event : Close(e) \/ \E r \in Offer : OfferEvent(e, r)

Contract == ContractInit /\ [][ContractNext]_contract
=============================================================================
