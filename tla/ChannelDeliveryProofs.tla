----------------------- MODULE ChannelDeliveryProofs -----------------------
(***************************************************************************)
(* The webhooks keep their contract with the platforms, for every set of   *)
(* events and number of requests.                                          *)
(***************************************************************************)
EXTENDS ChannelDelivery, TLAPS

Offers == EventsOf({r \in Offer : Used(r)})
Turns == EventsOf(Committed)

-----------------------------------------------------------------------------

LEMMA UsedIsTyped ==
    ASSUME TypeOK, NEW r \in Offer, Used(r)
    PROVE  requests[r] \in Request
BY DEF TypeOK, Used

LEMMA UnusedIsNoRequest == Unused \notin Request
<1>1. SUFFICES ASSUME Unused \in Request PROVE FALSE
  OBVIOUS
<1>2. Unused.http \in {"arrived", "waiting", "ok", "error", "gone"}
  BY <1>1 DEF Request
<1>3. QED
  BY <1>2 DEF Unused

LEMMA TalkHasSession ==
    ASSUME NEW e \in Talk
    PROVE  SessionOf(e) \in Session /\ e \in Event
BY DEF Session, SessionOf, Talk

StoreTyped ==
    /\ history \in [Session -> Seq(Offer)]
    /\ disk \in [Session -> Seq(Offer)]
    /\ unsaved \subseteq Offer
    /\ forgotten \subseteq Offer

LEMMA StoreKeepsType ==
    ASSUME TypeOK, UNCHANGED store
    PROVE  StoreTyped'
BY DEF TypeOK, store, StoreTyped

\* A step that sets request r to q, and gives closed and the store their type.
LEMMA TypedStep ==
    ASSUME TypeOK, NEW r \in Offer, NEW q \in Request,
           Becomes(r, q),
           q.chat # "none" => q.event \in Talk /\ (q.http = "gone" => q.chat \notin Unfinished) /\ q.http # "arrived",
           closed' \subseteq Event, StoreTyped'
    PROVE  TypeOK'
BY DEF TypeOK, StoreTyped, Becomes

\* A step that leaves the event of r, and whether it was answered, as they are.
LEMMA QuietStep ==
    ASSUME TypeOK, NEW r \in Offer, Used(r), NEW q \in Request,
           Becomes(r, q), q.event = requests[r].event,
           q.chat = "answered" <=> requests[r].chat = "answered"
    PROVE  Offers' = Offers /\ Turns' = Turns
<1>1. \A p \in Offer : Used(p)' <=> Used(p)
  BY UnusedIsNoRequest DEF TypeOK, Used, Becomes
<1>2. \A p \in Offer : requests'[p].event = requests[p].event
  BY DEF TypeOK, Becomes
<1>3. \A p \in Offer : requests'[p].chat = "answered" <=> requests[p].chat = "answered"
  BY DEF TypeOK, Becomes
<1>4. Committed' = Committed
  BY <1>1, <1>3 DEF Committed
<1>5. QED
  BY <1>1, <1>2, <1>4 DEF Offers, Turns, EventsOf, Committed

LEMMA PairsOfEvents ==
    ASSUME NEW R, NEW p \in R
    PROVE  /\ <<requests[p].event, p>> \in EventsOf(R)
           /\ <<requests[p].event, p>>[1] = requests[p].event
           /\ <<requests[p].event, p>>[2] = p
BY DEF EventsOf

\* An acknowledgement that may be lost.
LEMMA ClosingStep ==
    ASSUME TypeOK, NEW e \in Event, NEW status, Closing(e, status),
           status = "ok" => Of(e) # {} /\ (e \in Answered => Of(e) \cap Committed # {}),
           Offers' = Offers, Turns' = Turns
    PROVE  closed' \subseteq Event /\ (UNCHANGED Webhook!contract \/ Webhook!Close(e))
<1>1. CASE UNCHANGED closed
  BY <1>1 DEF Webhook!contract, Offers, Turns, TypeOK
<1>2. CASE status = "ok" /\ closed' = closed \cup {e}
  <2>1. \E o \in Offers : o[1] = e
    <3>1. PICK p \in Offer : Used(p) /\ requests[p].event = e
      BY <1>2 DEF Of
    <3>2. QED
      BY <3>1, PairsOfEvents DEF Offers
  <2>2. e \in Answered => \E o \in Turns : o[1] = e
    <3>1. SUFFICES ASSUME e \in Answered PROVE \E o \in Turns : o[1] = e
      OBVIOUS
    <3>2. PICK p \in Committed : requests[p].event = e
      BY <1>2, <3>1 DEF Of
    <3>3. QED
      BY <3>2, PairsOfEvents DEF Turns
  <2>3. QED
    BY <1>2, <2>1, <2>2 DEF Webhook!Close, Offers, Turns, TypeOK
<1>3. QED
  BY <1>1, <1>2 DEF Closing

\* What a step may do to the contract.
Kept == UNCHANGED Webhook!contract \/ Webhook!ContractNext

LEMMA QuietIsKept ==
    ASSUME Offers' = Offers, Turns' = Turns, UNCHANGED closed
    PROVE  Kept
BY DEF Kept, Webhook!contract, Offers, Turns

LEMMA PostEventKeeps ==
    ASSUME TypeOK, NEW e \in Event, NEW r \in Offer, NEW proof \in Proofs, PostEvent(e, r, proof)
    PROVE  TypeOK' /\ Kept
<1> DEFINE q == [event |-> e, verified |-> Verified(e.channel, proof), http |-> "arrived",
                 chat |-> "none", held |-> <<>>, met |-> {}, reply |-> Blank, post |-> "none"]
<1>1. Verified(e.channel, proof) \in BOOLEAN
  BY DEF Verified, VerifySlack, VerifyDiscord, VerifySecret
<1>2. q \in Request
  BY <1>1 DEF Request, Replies
<1>3. Becomes(r, q) /\ UNCHANGED <<closed, store>>
  BY DEF PostEvent
<1>4. TypeOK'
  <2>1. StoreTyped' /\ closed' \subseteq Event
    BY <1>3, StoreKeepsType DEF TypeOK
  <2>2. QED
    BY <1>2, <1>3, <2>1, TypedStep
<1>5. q.event = e /\ q.chat = "none"
  OBVIOUS
<1> HIDE DEF q
<1>6. requests'[r] = q /\ \A p \in Offer \ {r} : requests'[p] = requests[p]
  BY <1>3 DEF TypeOK, Becomes
<1>7. Used(r)' /\ ~Used(r) /\ \A p \in Offer \ {r} : Used(p)' <=> Used(p)
  BY <1>2, <1>6, UnusedIsNoRequest DEF Used, PostEvent
<1>8. Committed' = Committed /\ r \notin Committed
  BY <1>5, <1>6, <1>7 DEF Committed
<1>9. \A p \in Committed : p \in Offer \ {r} /\ requests'[p] = requests[p]
  BY <1>6, <1>8 DEF Committed
<1>10. Turns' = Turns
  BY <1>8, <1>9 DEF Turns, EventsOf
<1>11. Offers' = Offers \cup {<<e, r>>}
  <2>1. {p \in Offer : Used(p)}' = {p \in Offer : Used(p)} \cup {r}
    BY <1>7
  <2>2. \A p \in Offer : Used(p) => requests'[p].event = requests[p].event
    BY <1>6, <1>7
  <2>3. QED
    BY <1>5, <1>6, <2>1, <2>2 DEF Offers, EventsOf
<1>12. \A o \in Offers : o[2] # r
  BY <1>7 DEF Offers, EventsOf
<1>13. e \notin closed /\ (e \in Deferred => \A o \in Offers : o[1] # e)
  BY DEF PostEvent, Deferred, Offers, EventsOf, Of
<1>14. Webhook!OfferEvent(e, r)
  BY <1>3, <1>10, <1>11, <1>12, <1>13 DEF Webhook!OfferEvent, Offers, Turns
<1>15. QED
  BY <1>4, <1>14 DEF Kept, Webhook!ContractNext

\* A step that neither offers nor answers anything: request r becomes q.
LEMMA ChangeStep ==
    ASSUME TypeOK, NEW r \in Offer, Used(r), NEW q \in Request, Becomes(r, q),
           q.event = requests[r].event, q.chat = "answered" <=> requests[r].chat = "answered",
           q.chat # "none" => q.event \in Talk /\ (q.http = "gone" => q.chat \notin Unfinished) /\ q.http # "arrived",
           closed' \subseteq Event, UNCHANGED store
    PROVE  TypeOK' /\ Offers' = Offers /\ Turns' = Turns
<1>1. StoreTyped'
  BY StoreKeepsType
<1>2. QED
  BY <1>1, TypedStep, QuietStep

\* What the type says of a request in use.
LEMMA UsedFacts ==
    ASSUME TypeOK, NEW r \in Offer, Used(r)
    PROVE  /\ requests[r] \in Request /\ requests[r].event \in Event /\ closed \subseteq Event
           /\ requests[r].chat # "none" =>
                 /\ requests[r].event \in Talk
                 /\ requests[r].http = "gone" => requests[r].chat \notin Unfinished
                 /\ requests[r].http # "arrived"
<1>1. requests[r] \in Request
  BY UsedIsTyped
<1>2. QED
  BY <1>1 DEF TypeOK, Used, Request

LEMMA TurnAwayKeeps ==
    ASSUME TypeOK, NEW r \in Offer, TurnAway(r)
    PROVE  TypeOK' /\ Kept
<1> DEFINE q == [requests[r] EXCEPT !.http = "error"]
<1>1. Used(r) /\ Becomes(r, q) /\ UNCHANGED <<closed, store>>
  BY DEF TurnAway, At
<1>2. q \in Request /\ q.event = requests[r].event /\ q.chat = requests[r].chat /\ q.http = "error"
  BY <1>1, UsedFacts DEF Request
<1> HIDE DEF q
<1>3. TypeOK' /\ Offers' = Offers /\ Turns' = Turns
  BY <1>1, <1>2, UsedFacts, ChangeStep
<1>4. QED
  BY <1>1, <1>3, QuietIsKept

\* A handler that answers, with or without a chat in its session.
LEMMA HandleKeeps ==
    ASSUME TypeOK, NEW r \in Offer, Handle(r)
    PROVE  TypeOK' /\ Kept
<1> DEFINE e == requests[r].event
           Quit(http) == [requests[r] EXCEPT !.http = http]
           Chat(http) == [requests[r] EXCEPT !.http = http, !.chat = "asked"]
<1>1. At(r, "arrived") /\ Used(r) /\ UNCHANGED store /\ r \in Of(e)
  BY DEF Handle, At, Of
<1>2. requests[r] \in Request /\ e \in Event /\ closed \subseteq Event /\ requests[r].chat = "none"
  BY <1>1, UsedFacts DEF At
<1>3. \A http \in {"ok", "error"} :
         /\ Quit(http) \in Request /\ Quit(http).event = e /\ Quit(http).http = http
         /\ Quit(http).chat = requests[r].chat
  BY <1>2 DEF Request
<1>4. \A http \in {"ok", "waiting"} :
         /\ Chat(http) \in Request /\ Chat(http).event = e /\ Chat(http).http = http
         /\ Chat(http).chat = "asked"
  BY <1>2 DEF Request
<1>5. Answered \cap Deferred = {} /\ Answered \cup Deferred \subseteq Talk
  BY DEF Answered, Deferred
<1>6. \A status : Closing(e, status) => closed' \subseteq Event
  BY <1>2 DEF Closing
<1>7. CASE Becomes(r, Quit("error")) /\ UNCHANGED closed
  <2> HIDE DEF Quit
  <2>1. TypeOK' /\ Offers' = Offers /\ Turns' = Turns
    BY <1>1, <1>2, <1>3, <1>7, UsedFacts, ChangeStep
  <2>2. QED
    BY <1>7, <2>1, QuietIsKept
<1>8. CASE /\ KindOf[e].kind \in {"skip", "ping", "challenge"}
           /\ Becomes(r, Quit("ok")) /\ Closing(e, "ok")
  <2>1. e \notin Answered
    BY <1>8 DEF Answered, Talk
  <2> HIDE DEF Quit
  <2>2. TypeOK' /\ Offers' = Offers /\ Turns' = Turns
    BY <1>1, <1>2, <1>3, <1>6, <1>8, UsedFacts, ChangeStep
  <2>3. QED
    BY <1>1, <1>2, <1>8, <2>1, <2>2, ClosingStep DEF Kept, Webhook!ContractNext
<1>9. CASE e \in Deferred /\ Becomes(r, Chat("ok")) /\ Closing(e, "ok")
  <2> HIDE DEF Chat
  <2>1. TypeOK' /\ Offers' = Offers /\ Turns' = Turns
    BY <1>1, <1>2, <1>4, <1>5, <1>6, <1>9, UsedFacts, ChangeStep
  <2>2. QED
    BY <1>1, <1>2, <1>5, <1>9, <2>1, ClosingStep DEF Kept, Webhook!ContractNext
<1>10. CASE e \in Answered /\ Becomes(r, Chat("waiting")) /\ UNCHANGED closed
  <2> HIDE DEF Chat
  <2>1. TypeOK' /\ Offers' = Offers /\ Turns' = Turns
    BY <1>1, <1>2, <1>4, <1>5, <1>10, UsedFacts, ChangeStep
  <2>2. QED
    BY <1>10, <2>1, QuietIsKept
<1>11. QED
  BY <1>7, <1>8, <1>9, <1>10 DEF Handle

LEMMA PrepareChatKeeps ==
    ASSUME TypeOK, NEW r \in Offer, PrepareChat(r)
    PROVE  TypeOK' /\ Kept
<1> DEFINE h == history[SessionOf(requests[r].event)]
           q == [requests[r] EXCEPT !.chat = "asking", !.met = Committed, !.held = h]
<1>1. Used(r) /\ requests[r].chat = "asked" /\ Becomes(r, q) /\ UNCHANGED <<closed, store>>
  BY DEF PrepareChat, ChatAt
<1>2. requests[r].event \in Talk /\ requests[r].http # "gone" /\ requests[r].http # "arrived"
  BY <1>1, UsedFacts DEF Unfinished
<1>3. h \in Seq(Offer) /\ Committed \in SUBSET Offer
  BY <1>2, TalkHasSession DEF TypeOK, Committed
<1> HIDE DEF h
<1>4. /\ q \in Request /\ q.event = requests[r].event /\ q.chat = "asking"
      /\ q.http = requests[r].http
  BY <1>1, <1>3, UsedFacts DEF Request
<1> HIDE DEF q
<1>5. TypeOK' /\ Offers' = Offers /\ Turns' = Turns
  BY <1>1, <1>2, <1>4, UsedFacts, ChangeStep
<1>6. QED
  BY <1>1, <1>5, QuietIsKept

LEMMA CommitChatKeeps ==
    ASSUME TypeOK, NEW r \in Offer, CommitChat(r)
    PROVE  TypeOK' /\ Kept
<1> DEFINE e == requests[r].event
           Q(reply) == [requests[r] EXCEPT !.chat = "answered", !.reply = reply,
                                           !.post = FirstPost(Posts(requests[r].event))]
<1>1. PICK reply \in Replies : Becomes(r, Q(reply))
  BY DEF CommitChat
<1>2. /\ Used(r) /\ requests[r].chat = "asking" /\ UNCHANGED <<closed, forgotten>>
      /\ history' = [history EXCEPT ![SessionOf(e)] = Append(requests[r].held, r)]
      /\ disk' \in {disk, history'} /\ unsaved' \in {{}, unsaved \cup {r}}
  BY DEF CommitChat, ChatAt, Persist
<1>3. e \in Talk /\ requests[r].http # "gone" /\ requests[r].http # "arrived" /\ closed \subseteq Event
  BY <1>2, UsedFacts DEF Unfinished
<1>4. /\ Q(reply) \in Request /\ Q(reply).event = e /\ Q(reply).chat = "answered"
      /\ Q(reply).http = requests[r].http
  BY <1>2, UsedFacts DEF Request, FirstPost
<1>5. Append(requests[r].held, r) \in Seq(Offer)
  BY <1>2, UsedFacts DEF Request
<1>6. StoreTyped'
  <2>1. history' \in [Session -> Seq(Offer)]
    BY <1>2, <1>3, <1>5, TalkHasSession DEF TypeOK
  <2>2. QED
    BY <1>2, <2>1 DEF TypeOK, StoreTyped
<1> HIDE DEF Q
<1>7. TypeOK'
  BY <1>1, <1>2, <1>3, <1>4, <1>6, TypedStep
<1>8. requests'[r] = Q(reply) /\ \A p \in Offer \ {r} : requests'[p] = requests[p]
  BY <1>1 DEF TypeOK, Becomes
<1>9. Used(r)' /\ \A p \in Offer : Used(p)' <=> Used(p)
  BY <1>2, <1>4, <1>8, UnusedIsNoRequest DEF Used
<1>10. \A p \in Offer : requests'[p].event = requests[p].event
  BY <1>4, <1>8
<1>11. Committed' = Committed \cup {r} /\ r \notin Committed
  BY <1>2, <1>4, <1>8, <1>9 DEF Committed
<1>12. Offers' = Offers
  BY <1>9, <1>10 DEF Offers, EventsOf
<1>13. Turns' = Turns \cup {<<e, r>>}
  <2>1. \A p \in Committed' : requests'[p].event = requests[p].event
    BY <1>10 DEF Committed
  <2>2. QED
    BY <1>11, <2>1 DEF Turns, EventsOf
<1>14. e \in Deferred \cup Answered /\ <<e, r>> \in Offers \ Turns
  BY <1>2, <1>3, <1>11 DEF Answered, Offers, Turns, EventsOf
<1>15. Webhook!TakeTurn(<<e, r>>)
  BY <1>2, <1>12, <1>13, <1>14 DEF Webhook!TakeTurn, Offers, Turns
<1>16. QED
  BY <1>7, <1>14, <1>15 DEF Kept, Webhook!ContractNext, Offers

LEMMA ChatFailsKeeps ==
    ASSUME TypeOK, NEW r \in Offer, ChatFails(r)
    PROVE  TypeOK' /\ Kept
<1> DEFINE wanted == requests[r].event \in Deferred /\ Posts(requests[r].event)
           q == [requests[r] EXCEPT !.chat = "failed", !.reply = "text", !.post = FirstPost(wanted)]
<1>1. Used(r) /\ requests[r].chat = "asking" /\ Becomes(r, q) /\ UNCHANGED <<closed, store>>
  BY DEF ChatFails, ChatAt
<1>2. requests[r].event \in Talk /\ requests[r].http # "gone" /\ requests[r].http # "arrived"
  BY <1>1, UsedFacts DEF Unfinished
<1>3. FirstPost(wanted) \in {"sending", "none"}
  BY DEF FirstPost
<1> HIDE DEF wanted
<1>4. /\ q \in Request /\ q.event = requests[r].event /\ q.chat = "failed"
      /\ q.http = requests[r].http
  BY <1>1, <1>3, UsedFacts DEF Request, Replies
<1> HIDE DEF q
<1>5. TypeOK' /\ Offers' = Offers /\ Turns' = Turns
  BY <1>1, <1>2, <1>4, UsedFacts, ChangeStep DEF Unfinished
<1>6. QED
  BY <1>1, <1>5, QuietIsKept

LEMMA PostKeeps ==
    ASSUME TypeOK, NEW r \in Offer, ShowPost(r) \/ PostFails(r)
    PROVE  TypeOK' /\ Kept
<1> DEFINE Q(outcome) == [requests[r] EXCEPT !.post = outcome]
<1>1. PICK outcome \in {"shown", "unconfirmed", "undelivered"} : Becomes(r, Q(outcome))
  BY DEF ShowPost, PostFails
<1>2. Used(r) /\ UNCHANGED <<closed, store>>
  BY DEF ShowPost, PostFails, Sending
<1>3. /\ Q(outcome) \in Request /\ Q(outcome).event = requests[r].event
      /\ Q(outcome).chat = requests[r].chat /\ Q(outcome).http = requests[r].http
  BY <1>2, UsedFacts DEF Request
<1> HIDE DEF Q
<1>4. TypeOK' /\ Offers' = Offers /\ Turns' = Turns
  BY <1>1, <1>2, <1>3, UsedFacts, ChangeStep
<1>5. QED
  BY <1>2, <1>4, QuietIsKept

LEMMA RespondKeeps ==
    ASSUME TypeOK, NEW r \in Offer, Respond(r)
    PROVE  TypeOK' /\ Kept
<1> DEFINE e == requests[r].event
           http == IF requests[r].chat = "answered" THEN "ok" ELSE "error"
           q == [requests[r] EXCEPT !.http = http]
<1>1. /\ Used(r) /\ Becomes(r, q) /\ Closing(e, http) /\ UNCHANGED store
      /\ requests[r].chat \in {"answered", "failed"}
  BY DEF Respond, At
<1>2. /\ q \in Request /\ q.event = e /\ q.chat = requests[r].chat /\ q.http \in {"ok", "error"}
      /\ e \in Event
  BY <1>1, UsedFacts DEF Request
<1>3. http = "ok" => Of(e) # {} /\ Of(e) \cap Committed # {}
  BY <1>1 DEF Of, Committed
<1>4. closed' \subseteq Event
  BY <1>1, <1>2, UsedFacts DEF Closing
<1> HIDE DEF q, http
<1>5. TypeOK' /\ Offers' = Offers /\ Turns' = Turns
  BY <1>1, <1>2, <1>4, UsedFacts, ChangeStep
<1>6. QED
  BY <1>1, <1>2, <1>3, <1>5, ClosingStep DEF Kept, Webhook!ContractNext

LEMMA DropKeeps ==
    ASSUME TypeOK, NEW r \in Offer, Drop(r)
    PROVE  TypeOK' /\ Kept
<1> DEFINE chat == Dropped(requests[r])
           q == [requests[r] EXCEPT !.http = "gone", !.chat = chat]
<1>1. Used(r) /\ Becomes(r, q) /\ UNCHANGED <<closed, store>>
  BY DEF Drop, At
<1>2. /\ chat \in {"none", "answered", "failed", "lost"}
      /\ chat = "answered" <=> requests[r].chat = "answered"
      /\ chat # "none" => requests[r].event \in Talk
  BY <1>1, UsedFacts DEF Dropped, Unfinished, Request
<1> HIDE DEF chat
<1>3. q \in Request /\ q.event = requests[r].event /\ q.chat = chat /\ q.http = "gone"
  BY <1>1, <1>2, UsedFacts DEF Request
<1> HIDE DEF q
<1>4. TypeOK' /\ Offers' = Offers /\ Turns' = Turns
  BY <1>1, <1>2, <1>3, UsedFacts, ChangeStep DEF Unfinished
<1>5. QED
  BY <1>1, <1>4, QuietIsKept

LEMMA StopKeeps ==
    ASSUME TypeOK, Stop
    PROVE  TypeOK' /\ Kept
<1>1. PICK lost : requests' = Ended(lost)
  BY DEF Stop
<1>2. ASSUME NEW r \in Offer, Used(r)
      PROVE  /\ requests'[r] \in Request /\ requests'[r].event = requests[r].event
             /\ requests'[r].chat = "answered" <=> requests[r].chat = "answered"
             /\ requests'[r].chat # "none" =>
                   /\ requests[r].event \in Talk
                   /\ requests'[r].chat \notin Unfinished
                   /\ requests'[r].http # "arrived"
  <2> DEFINE http == IF requests[r].http \in {"arrived", "waiting"} THEN "gone" ELSE requests[r].http
             chat == Dropped(requests[r])
             post == IF r \in lost THEN "lost" ELSE requests[r].post
             q == [requests[r] EXCEPT !.http = http, !.chat = chat, !.post = post]
  <2>1. requests[r] \in Request
    BY <1>2, UsedFacts
  <2>2. http \in {"ok", "error", "gone"}
    BY <2>1 DEF Request
  <2>3. /\ chat \in {"none", "answered", "failed", "lost"}
        /\ chat = "answered" <=> requests[r].chat = "answered"
        /\ chat # "none" => requests[r].event \in Talk
    BY <1>2, <2>1, UsedFacts DEF Dropped, Unfinished, Request
  <2>4. post \in {"none", "sending", "shown", "unconfirmed", "undelivered", "lost"}
    BY <2>1 DEF Request
  <2>5. requests'[r] = q
    BY <1>1, <1>2 DEF Ended
  <2> HIDE DEF http, chat, post
  <2>6. q \in Request /\ q.event = requests[r].event /\ q.chat = chat /\ q.http = http
    BY <2>1, <2>2, <2>3, <2>4 DEF Request
  <2>7. QED
    BY <2>2, <2>3, <2>5, <2>6 DEF Unfinished
<1>3. ASSUME NEW r \in Offer, ~Used(r)
      PROVE  requests'[r] = Unused
  BY <1>1, <1>3 DEF Ended
<1>4. requests' \in [Offer -> Request \cup {Unused}]
  <2>1. DOMAIN requests' = Offer /\ requests' = [r \in Offer |-> requests'[r]]
    BY <1>1 DEF Ended
  <2>2. QED
    BY <1>2, <1>3, <2>1
<1>5. StoreTyped'
  <2>1. PICK readable : LoadSessions(readable)
    BY DEF Stop
  <2>2. NoTurns \in [Session -> Seq(Offer)] /\ Committed \subseteq Offer
    BY DEF NoTurns, Committed
  <2>3. QED
    BY <2>1, <2>2 DEF LoadSessions, TypeOK, StoreTyped
<1>6. TypeOK'
  <2>1. closed' \subseteq Event
    BY DEF Stop, TypeOK
  <2>2. QED
    BY <1>2, <1>3, <1>4, <1>5, <2>1 DEF TypeOK, StoreTyped, Used
<1>7. \A r \in Offer : Used(r)' <=> Used(r)
  BY <1>2, <1>3, UnusedIsNoRequest DEF Used
<1>8. Committed' = Committed
  BY <1>2, <1>7 DEF Committed
<1>9. Offers' = Offers /\ Turns' = Turns
  BY <1>2, <1>7, <1>8 DEF Offers, Turns, EventsOf, Committed
<1>10. closed' = closed
  BY DEF Stop
<1>11. QED
  BY <1>6, <1>9, <1>10, QuietIsKept

LEMMA SaveKeeps ==
    ASSUME TypeOK, SaveSessions
    PROVE  TypeOK' /\ Kept
<1>1. TypeOK'
  BY DEF SaveSessions, TypeOK
<1>2. Offers' = Offers /\ Turns' = Turns /\ closed' = closed
  BY DEF SaveSessions, Offers, Turns, EventsOf, Used, Committed
<1>3. QED
  BY <1>1, <1>2, QuietIsKept

-----------------------------------------------------------------------------

LEMMA NextKeeps == TypeOK /\ [Next]_vars => TypeOK' /\ Kept
<1>1. SUFFICES ASSUME TypeOK, [Next]_vars
               PROVE  TypeOK' /\ Kept
  OBVIOUS
<1>2. CASE UNCHANGED vars
  BY <1>1, <1>2 DEF vars, store, TypeOK, Kept, Webhook!contract, EventsOf, Used, Committed
<1>3. CASE \E r \in Offer : \E e \in Event, proof \in Proofs : PostEvent(e, r, proof)
  BY <1>1, <1>3, PostEventKeeps
<1>4. CASE \E r \in Offer : TurnAway(r) \/ Handle(r)
  BY <1>1, <1>4, TurnAwayKeeps, HandleKeeps
<1>5. CASE \E r \in Offer : PrepareChat(r) \/ CommitChat(r) \/ ChatFails(r)
  BY <1>1, <1>5, PrepareChatKeeps, CommitChatKeeps, ChatFailsKeeps
<1>6. CASE \E r \in Offer : ShowPost(r) \/ PostFails(r) \/ Respond(r) \/ Drop(r)
  BY <1>1, <1>6, PostKeeps, RespondKeeps, DropKeeps
<1>7. CASE Stop \/ SaveSessions
  BY <1>1, <1>7, StopKeeps, SaveKeeps
<1>8. QED
  BY <1>1, <1>2, <1>3, <1>4, <1>5, <1>6, <1>7 DEF Next

LEMMA InitKeeps == Init => TypeOK /\ Webhook!ContractInit
<1>1. SUFFICES ASSUME Init PROVE TypeOK /\ Webhook!ContractInit
  OBVIOUS
<1>2. TypeOK
  BY <1>1 DEF Init, NoTurns, TypeOK
<1>3. {r \in Offer : Used(r)} = {} /\ Committed = {}
  BY <1>1 DEF Init, Used, Committed
<1>4. QED
  BY <1>1, <1>2, <1>3 DEF Init, Webhook!ContractInit, EventsOf

(***************************************************************************)
(* Requests stay well typed: only messages are chatted about, by handlers  *)
(* that are still there (hooks_*_handler, spawn_discord_deferred_chat).    *)
(***************************************************************************)
THEOREM TypeCorrect == Spec => []TypeOK
<1>1. Init => TypeOK
  BY InitKeeps
<1>2. TypeOK /\ [Next]_vars => TypeOK'
  BY NextKeeps
<1>3. QED
  BY <1>1, <1>2, PTL DEF Spec

(***************************************************************************)
(* The webhooks keep their contract: an event whose platform waits for the *)
(* answer is acknowledged only after a turn of its session answered it,    *)
(* and no request makes two turns.                                         *)
(***************************************************************************)
THEOREM WebhooksKeepContract == Spec => KeepsContract
<1>1. Init => Webhook!ContractInit
  BY InitKeeps
<1>2. TypeOK /\ [Next]_vars => [Webhook!ContractNext]_(Webhook!contract)
  BY NextKeeps DEF Kept
<1>3. QED
  BY <1>1, <1>2, TypeCorrect, PTL DEF Spec, KeepsContract, Webhook!Contract

(***************************************************************************)
(* What the contract is worth to a platform: of an event that it need not  *)
(* repeat, and whose answer it waited for, the session has had a turn.     *)
(***************************************************************************)
ClosedWasAnswered == \A e \in closed \cap Answered : Of(e) \cap Committed # {}

THEOREM AcknowledgedIsAnswered == Spec => []ClosedWasAnswered
<1> DEFINE Inv == \A e \in closed \cap Answered : \E o \in Turns : o[1] = e
<1>1. Init => Inv
  BY DEF Init
<1>2. Inv /\ TypeOK /\ [Next]_vars => Inv'
  <2>1. SUFFICES ASSUME Inv, TypeOK, Kept PROVE Inv'
    BY NextKeeps
  <2>2. CASE UNCHANGED Webhook!contract
    BY <2>1, <2>2 DEF Webhook!contract, Turns
  <2>3. CASE \E o \in Offers : Webhook!TakeTurn(o)
    <3>1. Turns \subseteq Turns' /\ closed' = closed
      BY <2>3 DEF Webhook!TakeTurn, Turns
    <3>2. QED
      BY <2>1, <3>1
  <2>4. CASE \E e \in Event, r \in Offer : Webhook!OfferEvent(e, r)
    <3>1. Turns' = Turns /\ closed' = closed
      BY <2>4 DEF Webhook!OfferEvent, Turns
    <3>2. QED
      BY <2>1, <3>1
  <2>5. CASE \E e \in Event : Webhook!Close(e)
    <3>1. PICK e \in Event : Webhook!Close(e)
      BY <2>5
    <3>2. Turns' = Turns /\ closed' = closed \cup {e} /\ (e \in Answered => \E o \in Turns : o[1] = e)
      BY <3>1 DEF Webhook!Close, Turns
    <3>3. QED
      BY <2>1, <3>2
  <2>6. QED
    BY <2>1, <2>2, <2>3, <2>4, <2>5 DEF Kept, Webhook!ContractNext, Offers
<1>3. Inv => ClosedWasAnswered
  BY DEF ClosedWasAnswered, Turns, EventsOf, Of, Committed
<1>4. QED
  BY <1>1, <1>2, <1>3, TypeCorrect, PTL DEF Spec

-----------------------------------------------------------------------------

\* Another chat of p's conversation has overlapped it and written its own copy.
Overwritten(p) == \E q \in Committed \ {p} : Overlapped(q, p)

\* What a chat knows to be over when it begins is over.
MetAreOver == \A r \in Offer : Used(r) => requests[r].met \subseteq Committed

\* Its session has a reason not to remember turn p.
Gone(p) == Overwritten(p) \/ p \in forgotten

TurnsRemembered ==
    \A r \in Committed : r \in Range_(history[SessionOf(requests[r].event)]) \/ Gone(r)

\* The file has what was written before the last save, and nothing if nothing
\* is ever saved.
FileRemembers ==
    /\ \A r \in Committed :
          r \in Range_(disk[SessionOf(requests[r].event)]) \/ Gone(r) \/ r \in unsaved
    /\ ~PersistEnabled => disk = NoTurns

\* The copy a chat is asked on has the turns of its session that it met.
CopiesRemember ==
    \A r \in Offer : ChatAt(r, "asking") =>
        \A p \in requests[r].met :
            SessionOf(requests[p].event) = SessionOf(requests[r].event) =>
                p \in Range_(requests[r].held) \/ Gone(p)

(***************************************************************************)
(* SeenIsRemembered is not inductive: a commit replaces the history by the *)
(* copy it was asked on, and a restart by the file, so the copies and the  *)
(* file have to remember too, and of a turn that is in no copy it has to   *)
(* be known that it was not met, and that it cannot have met the one that  *)
(* now commits.                                                            *)
(***************************************************************************)
RememberInv == MetAreOver /\ TurnsRemembered /\ FileRemembers /\ CopiesRemember

\* What p has in common before and after a step of another, or of its own that
\* neither begins its chat nor ends it with a turn.
Same(p) ==
    /\ requests'[p].event = requests[p].event
    /\ requests'[p].met = requests[p].met
    /\ requests'[p].held = requests[p].held
    /\ requests'[p].chat = "answered" <=> requests[p].chat = "answered"
    /\ requests'[p].chat = "asking" => requests[p].chat = "asking"

\* A step that begins no chat and ends none with a turn.
CalmRequests ==
    /\ \A p \in Offer : Used(p) => Used(p)' /\ Same(p)
    /\ \A p \in Offer : Used(p)' /\ ~Used(p) => requests'[p].met = {} /\ requests'[p].chat = "none"

\* A step that neither copies a history nor writes one.
Calm ==
    /\ UNCHANGED store
    /\ CalmRequests

LEMMA CalmFacts ==
    ASSUME TypeOK, RememberInv, CalmRequests, forgotten \subseteq forgotten'
    PROVE  /\ Committed' = Committed
           /\ \A p \in Committed : p \in Offer /\ Used(p) /\ Same(p)
           /\ \A p \in Committed : Gone(p) => Gone(p)'
           /\ MetAreOver'
           /\ CopiesRemember'
<1>1. Committed' = Committed
  BY DEF CalmRequests, Same, Committed
<1>2. \A p \in Committed : p \in Offer /\ Used(p) /\ Same(p)
  BY DEF CalmRequests, Committed
<1>3. \A p, q \in Committed : Overlapped(q, p)' <=> Overlapped(q, p)
  BY <1>2 DEF Overlapped, Same
<1>4. \A p \in Committed : Overwritten(p) => Overwritten(p)'
  BY <1>1, <1>3 DEF Overwritten
<1>5. \A p \in Committed : Gone(p) => Gone(p)'
  BY <1>4 DEF Gone
<1>6. MetAreOver'
  BY <1>1 DEF RememberInv, MetAreOver, CalmRequests, Same
<1>7. ASSUME NEW r \in Offer, ChatAt(r, "asking")', NEW p \in requests'[r].met,
             SessionOf(requests'[p].event) = SessionOf(requests'[r].event)
      PROVE  p \in Range_(requests'[r].held) \/ Gone(p)'
  <2>1. Used(r) /\ ChatAt(r, "asking") /\ Same(r)
    BY <1>7 DEF ChatAt, CalmRequests, Same
  <2>2. p \in requests[r].met /\ p \in Committed
    BY <1>7, <2>1 DEF Same, RememberInv, MetAreOver
  <2>3. p \in Range_(requests[r].held) \/ Gone(p)
    BY <1>2, <1>7, <2>1, <2>2 DEF RememberInv, CopiesRemember, Same
  <2>4. QED
    BY <1>5, <2>1, <2>2, <2>3 DEF Same
<1>8. QED
  BY <1>1, <1>2, <1>5, <1>6, <1>7 DEF CopiesRemember

LEMMA CalmKeeps ==
    ASSUME TypeOK, RememberInv, Calm
    PROVE  RememberInv'
<1>1. /\ history' = history /\ disk' = disk /\ unsaved' = unsaved /\ forgotten' = forgotten
      /\ CalmRequests
  BY DEF Calm, store
<1>2. /\ Committed' = Committed
      /\ \A p \in Committed : Same(p)
      /\ \A p \in Committed : Gone(p) => Gone(p)'
      /\ MetAreOver' /\ CopiesRemember'
  BY <1>1, CalmFacts
<1>3. TurnsRemembered'
  BY <1>1, <1>2 DEF RememberInv, TurnsRemembered, Same
<1>4. FileRemembers'
  BY <1>1, <1>2 DEF RememberInv, FileRemembers, Same, NoTurns
<1>5. QED
  BY <1>2, <1>3, <1>4 DEF RememberInv

\* Request r goes on without beginning its chat or ending it with a turn.
LEMMA BecomesCalm ==
    ASSUME TypeOK, NEW r \in Offer, Used(r), NEW q, Becomes(r, q), UNCHANGED store,
           q.http # "unused", q.event = requests[r].event, q.met = requests[r].met,
           q.held = requests[r].held,
           q.chat = "answered" <=> requests[r].chat = "answered",
           q.chat = "asking" => requests[r].chat = "asking"
    PROVE  Calm
<1>1. requests'[r] = q /\ \A p \in Offer \ {r} : requests'[p] = requests[p]
  BY DEF TypeOK, Becomes
<1>2. q # Unused
  BY DEF Unused
<1>3. QED
  BY <1>1, <1>2 DEF Calm, CalmRequests, Same, Used

\* The steps of a request that change its http, chat, reply and post only.
LEMMA CalmSteps ==
    ASSUME TypeOK, NEW r \in Offer,
           TurnAway(r) \/ Handle(r) \/ ChatFails(r) \/ ShowPost(r) \/ PostFails(r) \/ Respond(r) \/ Drop(r)
    PROVE  Calm
<1> DEFINE q == requests[r]
<1>1. Used(r) /\ q \in Request /\ UNCHANGED store
  BY UsedIsTyped DEF TurnAway, Handle, ChatFails, ShowPost, PostFails, Respond, Drop, At, ChatAt, Sending
<1>2. CASE TurnAway(r) \/ Respond(r)
  <2>1. PICK http \in {"ok", "error"} : Becomes(r, [q EXCEPT !.http = http])
    BY <1>2 DEF TurnAway, Respond
  <2>2. QED
    BY <1>1, <2>1, BecomesCalm DEF Request
<1>3. CASE Handle(r)
  <2>1. q.chat = "none" \/ q.http = "arrived"
    BY <1>3 DEF Handle, At
  <2>2. q.chat = "none"
    BY <1>1, <2>1, UsedFacts
  <2>3. PICK http \in {"ok", "error", "waiting"}, chat \in {"none", "asked"} :
           Becomes(r, [q EXCEPT !.http = http, !.chat = chat])
    <3>1. [q EXCEPT !.http = "ok"] = [q EXCEPT !.http = "ok", !.chat = "none"]
      BY <1>1, <2>2 DEF Request
    <3>2. [q EXCEPT !.http = "error"] = [q EXCEPT !.http = "error", !.chat = "none"]
      BY <1>1, <2>2 DEF Request
    <3>3. QED
      BY <1>3, <3>1, <3>2 DEF Handle
  <2>4. QED
    BY <1>1, <2>2, <2>3, BecomesCalm DEF Request
<1>4. CASE ChatFails(r)
  <2>1. PICK post : Becomes(r, [q EXCEPT !.chat = "failed", !.reply = "text", !.post = post])
    BY <1>4 DEF ChatFails
  <2>2. q.chat = "asking"
    BY <1>4 DEF ChatFails, ChatAt
  <2>3. QED
    BY <1>1, <2>1, <2>2, BecomesCalm DEF Request
<1>5. CASE ShowPost(r) \/ PostFails(r)
  <2>1. PICK post : Becomes(r, [q EXCEPT !.post = post])
    BY <1>5 DEF ShowPost, PostFails
  <2>2. QED
    BY <1>1, <2>1, BecomesCalm DEF Request
<1>6. CASE Drop(r)
  <2>1. PICK chat : chat = Dropped(q) /\ Becomes(r, [q EXCEPT !.http = "gone", !.chat = chat])
    BY <1>6 DEF Drop
  <2>2. chat = "answered" <=> q.chat = "answered"
    BY <2>1 DEF Dropped, Unfinished
  <2>3. chat = "asking" => q.chat = "asking"
    BY <2>1 DEF Dropped, Unfinished
  <2>4. QED
    BY <1>1, <2>1, <2>2, <2>3, BecomesCalm DEF Request
<1>7. QED
  BY <1>2, <1>3, <1>4, <1>5, <1>6

LEMMA PostEventCalm ==
    ASSUME TypeOK, NEW e \in Event, NEW r \in Offer, NEW proof \in Proofs, PostEvent(e, r, proof)
    PROVE  Calm
<1>1. PICK q : Becomes(r, q) /\ q.http = "arrived" /\ q.chat = "none" /\ q.met = {}
  BY DEF PostEvent
<1>2. requests'[r] = q /\ \A p \in Offer \ {r} : requests'[p] = requests[p]
  BY <1>1 DEF TypeOK, Becomes
<1>3. ~Used(r) /\ UNCHANGED store
  BY DEF PostEvent
<1>4. QED
  BY <1>1, <1>2, <1>3 DEF Calm, CalmRequests, Same, Used

LEMMA StopCalm ==
    ASSUME TypeOK, Stop
    PROVE  CalmRequests
<1>1. PICK lost : requests' = Ended(lost)
  BY DEF Stop
<1>2. ASSUME NEW p \in Offer, Used(p)
      PROVE  Used(p)' /\ Same(p)
  <2>1. requests[p] \in Request
    BY <1>2, UsedIsTyped
  <2>2. PICK http, post :
           requests'[p] = [requests[p] EXCEPT !.http = http, !.chat = Dropped(requests[p]), !.post = post]
    BY <1>1, <1>2 DEF Ended
  <2>3. Dropped(requests[p]) = "answered" <=> requests[p].chat = "answered"
    BY DEF Dropped, Unfinished
  <2>4. Dropped(requests[p]) = "asking" => requests[p].chat = "asking"
    BY DEF Dropped, Unfinished
  <2>5. /\ requests'[p].event = requests[p].event
        /\ requests'[p].met = requests[p].met
        /\ requests'[p].held = requests[p].held
        /\ requests'[p].chat = Dropped(requests[p])
    BY <2>1, <2>2 DEF Request
  <2>6. requests'[p] # Unused
    BY <2>1, <2>2 DEF Request, Unused
  <2>7. QED
    BY <2>3, <2>4, <2>5, <2>6 DEF Same, Used
<1>3. \A p \in Offer : ~Used(p) => requests'[p] = Unused
  BY <1>1 DEF Ended
<1>4. QED
  BY <1>2, <1>3 DEF CalmRequests, Used

\* A restart has what the file remembers, and forgets the rest.
LEMMA StopRemembers ==
    ASSUME TypeOK, RememberInv, Stop
    PROVE  RememberInv'
<1>1. PICK readable : LoadSessions(readable)
  BY DEF Stop
<1>2. /\ history' = IF PersistEnabled /\ readable THEN disk ELSE NoTurns
      /\ disk' = disk
      /\ forgotten' = forgotten \cup unsaved \cup (IF readable THEN {} ELSE Committed)
  BY <1>1 DEF LoadSessions
<1>3. /\ Committed' = Committed
      /\ \A p \in Committed : Same(p)
      /\ \A p \in Committed : Gone(p) => Gone(p)'
      /\ MetAreOver' /\ CopiesRemember'
  BY <1>2, StopCalm, CalmFacts
<1>4. ASSUME NEW p \in Committed
      PROVE  p \in Range_(history'[SessionOf(requests[p].event)]) \/ Gone(p)'
  <2>1. CASE ~readable
    BY <1>2, <2>1 DEF Gone
  <2>2. CASE readable
    <3>1. history' = disk
      BY <1>2, <2>2 DEF RememberInv, FileRemembers
    <3>2. p \in Range_(disk[SessionOf(requests[p].event)]) \/ Gone(p) \/ p \in unsaved
      BY DEF RememberInv, FileRemembers
    <3>3. p \in unsaved => Gone(p)'
      BY <1>2 DEF Gone
    <3>4. QED
      BY <1>3, <3>1, <3>2, <3>3
  <2>3. QED
    BY <2>1, <2>2
<1>5. TurnsRemembered'
  BY <1>3, <1>4 DEF TurnsRemembered, Same
<1>6. ASSUME NEW p \in Committed
      PROVE  p \in Range_(disk[SessionOf(requests[p].event)]) \/ Gone(p)'
  <2>1. p \in Range_(disk[SessionOf(requests[p].event)]) \/ Gone(p) \/ p \in unsaved
    BY DEF RememberInv, FileRemembers
  <2>2. p \in unsaved => Gone(p)'
    BY <1>2 DEF Gone
  <2>3. QED
    BY <1>3, <2>1, <2>2
<1>7. FileRemembers'
  BY <1>2, <1>3, <1>6 DEF RememberInv, FileRemembers, Same, NoTurns
<1>8. QED
  BY <1>3, <1>5, <1>7 DEF RememberInv

\* A save puts into the file what the sessions remember.
LEMMA SaveRemembers ==
    ASSUME TypeOK, RememberInv, SaveSessions
    PROVE  RememberInv'
<1>1. /\ requests' = requests /\ history' = history /\ forgotten' = forgotten
      /\ disk' = history /\ PersistEnabled
  BY DEF SaveSessions
<1>2. CalmRequests
  BY <1>1 DEF CalmRequests, Same, Used
<1>3. /\ Committed' = Committed
      /\ \A p \in Committed : Gone(p) => Gone(p)'
      /\ MetAreOver' /\ CopiesRemember'
  BY <1>1, <1>2, CalmFacts
<1>4. TurnsRemembered' /\ FileRemembers'
  BY <1>1, <1>3 DEF RememberInv, TurnsRemembered, FileRemembers
<1>5. QED
  BY <1>3, <1>4 DEF RememberInv

\* A chat begins with a copy that remembers what its session does.
LEMMA PrepareChatRemembers ==
    ASSUME TypeOK, RememberInv, NEW r \in Offer, PrepareChat(r)
    PROVE  RememberInv'
<1> DEFINE h == history[SessionOf(requests[r].event)]
           q == [requests[r] EXCEPT !.chat = "asking", !.met = Committed, !.held = h]
<1>1. Used(r) /\ requests[r].chat = "asked" /\ Becomes(r, q) /\ UNCHANGED store
  BY DEF PrepareChat, ChatAt
<1>2. requests[r] \in Request
  BY <1>1, UsedIsTyped
<1>3. /\ q.event = requests[r].event /\ q.chat = "asking" /\ q.met = Committed /\ q.held = h
      /\ q.http = requests[r].http /\ q # Unused
  BY <1>2 DEF Request, Unused
<1> HIDE DEF q
<1>4. requests'[r] = q /\ \A p \in Offer \ {r} : requests'[p] = requests[p]
  BY <1>1 DEF TypeOK, Becomes
<1>5. \A p \in Offer : Used(p)' <=> Used(p)
  BY <1>1, <1>3, <1>4 DEF Used
<1>6. Committed' = Committed /\ r \notin Committed
  BY <1>1, <1>3, <1>4, <1>5 DEF Committed
<1>7. \A p \in Committed : p \in Offer \ {r} /\ requests'[p] = requests[p]
  BY <1>4, <1>6 DEF Committed
<1>8. \A p \in Committed : Gone(p)' <=> Gone(p)
  BY <1>1, <1>6, <1>7 DEF Gone, Overwritten, Overlapped, store
<1>9. MetAreOver'
  BY <1>3, <1>4, <1>5, <1>6 DEF RememberInv, MetAreOver
<1>10. TurnsRemembered' /\ FileRemembers'
  BY <1>1, <1>6, <1>7, <1>8 DEF RememberInv, TurnsRemembered, FileRemembers, NoTurns, store
<1>11. ASSUME NEW u \in Offer, ChatAt(u, "asking")', NEW p \in requests'[u].met,
              SessionOf(requests'[p].event) = SessionOf(requests'[u].event)
       PROVE  p \in Range_(requests'[u].held) \/ Gone(p)'
  <2>1. CASE u = r
    <3>1. p \in Committed /\ SessionOf(requests[p].event) = SessionOf(requests[r].event)
      BY <1>3, <1>4, <1>7, <1>11, <2>1
    <3>2. p \in Range_(h) \/ Gone(p)
      BY <3>1 DEF RememberInv, TurnsRemembered
    <3>3. QED
      BY <1>3, <1>4, <1>8, <2>1, <3>1, <3>2
  <2>2. CASE u # r
    <3>1. ChatAt(u, "asking") /\ Used(u) /\ requests'[u] = requests[u]
      BY <1>4, <1>5, <1>11, <2>2 DEF ChatAt
    <3>2. p \in requests[u].met /\ p \in Committed
      BY <1>11, <3>1 DEF RememberInv, MetAreOver
    <3>3. p \in Range_(requests[u].held) \/ Gone(p)
      BY <1>7, <1>11, <3>1, <3>2 DEF RememberInv, CopiesRemember
    <3>4. QED
      BY <1>8, <3>1, <3>2, <3>3
  <2>3. QED
    BY <2>1, <2>2
<1>12. QED
  BY <1>9, <1>10, <1>11 DEF RememberInv, CopiesRemember

LEMMA AppendRange ==
    ASSUME NEW S, NEW s \in Seq(S), NEW x \in S
    PROVE  x \in Range_(Append(s, x)) /\ Range_(s) \subseteq Range_(Append(s, x))
<1>1. /\ DOMAIN s = 1 .. Len(s) /\ Len(s) \in Nat
      /\ DOMAIN Append(s, x) = 1 .. Len(s) + 1
      /\ Append(s, x)[Len(s) + 1] = x
      /\ \A i \in 1 .. Len(s) : Append(s, x)[i] = s[i]
  OBVIOUS
<1>2. x \in Range_(Append(s, x))
  BY <1>1 DEF Range_
<1>3. \A i \in DOMAIN s : s[i] \in Range_(Append(s, x))
  BY <1>1 DEF Range_
<1>4. QED
  BY <1>2, <1>3 DEF Range_

(***************************************************************************)
(* A chat that writes back its copy forgets no turn that it met, and of    *)
(* one that it did not meet it is the chat that overlapped it.             *)
(***************************************************************************)
LEMMA CommitChatRemembers ==
    ASSUME TypeOK, RememberInv, NEW r \in Offer, CommitChat(r)
    PROVE  RememberInv'
<1> DEFINE s == SessionOf(requests[r].event)
           Q(reply) == [requests[r] EXCEPT !.chat = "answered", !.reply = reply,
                                           !.post = FirstPost(Posts(requests[r].event))]
<1>1. PICK reply \in Replies : Becomes(r, Q(reply))
  BY DEF CommitChat
<1>2. /\ Used(r) /\ requests[r].chat = "asking"
      /\ history' = [history EXCEPT ![s] = Append(requests[r].held, r)]
      /\ Persist(r, history') /\ forgotten' = forgotten
  BY DEF CommitChat, ChatAt
<1>3. requests[r] \in Request /\ requests[r].held \in Seq(Offer)
  BY <1>2, UsedIsTyped DEF Request
<1>4. s \in Session
  BY <1>2, UsedFacts, TalkHasSession
<1> DEFINE q == Q(reply)
<1>5. /\ q.event = requests[r].event /\ q.chat = "answered" /\ q.met = requests[r].met
      /\ q.held = requests[r].held /\ q # Unused
  BY <1>3 DEF Request, Unused
<1>6. requests'[r] = q /\ \A p \in Offer \ {r} : requests'[p] = requests[p]
  BY <1>1 DEF TypeOK, Becomes
<1> HIDE DEF q, Q, s
<1>7. /\ \A p \in Offer : Used(p)' <=> Used(p)
      /\ \A p \in Offer : requests'[p].event = requests[p].event /\ requests'[p].met = requests[p].met
  BY <1>2, <1>5, <1>6 DEF Used
<1>8. Committed' = Committed \cup {r} /\ r \notin Committed /\ Committed \subseteq Offer
  BY <1>2, <1>5, <1>6, <1>7 DEF Committed
<1>9. MetAreOver'
  BY <1>7, <1>8 DEF RememberInv, MetAreOver
<1>10. \A p \in Committed : Gone(p) => Gone(p)'
  BY <1>2, <1>7, <1>8 DEF Gone, Overwritten, Overlapped
<1>11. /\ history'[s] = Append(requests[r].held, r)
       /\ \A x \in Session \ {s} : history'[x] = history[x]
  BY <1>2, <1>4 DEF TypeOK
<1>12. \A p \in Committed : SessionOf(requests[p].event) \in Session
  BY UsedFacts, TalkHasSession DEF Committed
<1>13. r \in Range_(history'[s]) /\ Range_(requests[r].held) \subseteq Range_(history'[s])
  BY <1>3, <1>11, AppendRange
<1>14. ASSUME NEW p \in Committed, SessionOf(requests[p].event) = s
       PROVE  p \in Range_(history'[s]) \/ Gone(p)'
  <2>1. CASE p \in requests[r].met
    <3>1. p \in Range_(requests[r].held) \/ Gone(p)
      BY <1>2, <1>14, <2>1 DEF RememberInv, CopiesRemember, ChatAt, s
    <3>2. QED
      BY <1>10, <1>13, <3>1
  <2>2. CASE p \notin requests[r].met
    <3>1. r \notin requests[p].met
      BY <1>8, <1>14 DEF RememberInv, MetAreOver, Committed
    <3>2. Overlapped(r, p)'
      BY <1>7, <1>8, <1>14, <2>2, <3>1 DEF Overlapped, s
    <3>3. r # p
      BY <1>8, <1>14
    <3>4. QED
      BY <1>8, <3>2, <3>3 DEF Gone, Overwritten
  <2>3. QED
    BY <2>1, <2>2
<1>15. TurnsRemembered'
  <2>1. ASSUME NEW p \in Committed'
        PROVE  p \in Range_(history'[SessionOf(requests'[p].event)]) \/ Gone(p)'
    <3>1. CASE p = r
      BY <1>7, <1>13, <3>1 DEF s
    <3>2. CASE p \in Committed /\ SessionOf(requests[p].event) = s
      BY <1>7, <1>8, <1>14, <3>2
    <3>3. CASE p \in Committed /\ SessionOf(requests[p].event) # s
      <4>1. p \in Range_(history[SessionOf(requests[p].event)]) \/ Gone(p)
        BY <3>3 DEF RememberInv, TurnsRemembered
      <4>2. history'[SessionOf(requests[p].event)] = history[SessionOf(requests[p].event)]
        BY <1>11, <1>12, <3>3
      <4>3. QED
        BY <1>7, <1>8, <1>10, <3>3, <4>1, <4>2
    <3>4. QED
      BY <1>8, <2>1, <3>1, <3>2, <3>3
  <2>2. QED
    BY <2>1 DEF TurnsRemembered
<1>16. FileRemembers'
  <2>1. CASE PersistEnabled /\ disk' = history'
    BY <1>15, <2>1 DEF TurnsRemembered, FileRemembers
  <2>2. CASE disk' = disk /\ unsaved' = unsaved \cup {r}
    <3>1. \A p \in Committed' : requests'[p].event = requests[p].event
      BY <1>7, <1>8
    <3>2. QED
      BY <1>8, <1>10, <2>2, <3>1 DEF RememberInv, FileRemembers, NoTurns
  <2>3. QED
    BY <1>2, <2>1, <2>2 DEF Persist
<1>17. ASSUME NEW u \in Offer, ChatAt(u, "asking")', NEW p \in requests'[u].met,
              SessionOf(requests'[p].event) = SessionOf(requests'[u].event)
       PROVE  p \in Range_(requests'[u].held) \/ Gone(p)'
  <2>1. u # r /\ ChatAt(u, "asking") /\ Used(u) /\ requests'[u] = requests[u]
    BY <1>5, <1>6, <1>7, <1>17 DEF ChatAt
  <2>2. p \in requests[u].met /\ p \in Committed
    BY <1>17, <2>1 DEF RememberInv, MetAreOver
  <2>3. p \in Range_(requests[u].held) \/ Gone(p)
    BY <1>7, <1>8, <1>17, <2>1, <2>2 DEF RememberInv, CopiesRemember
  <2>4. QED
    BY <1>10, <2>1, <2>2, <2>3
<1>18. QED
  BY <1>9, <1>15, <1>16, <1>17 DEF RememberInv, CopiesRemember

LEMMA NextRemembers == TypeOK /\ RememberInv /\ [Next]_vars => RememberInv'
<1>1. SUFFICES ASSUME TypeOK, RememberInv, [Next]_vars
               PROVE  RememberInv'
  OBVIOUS
<1>2. CASE UNCHANGED vars
  BY <1>1, <1>2, CalmKeeps DEF vars, Calm, CalmRequests, Same, Used
<1>3. CASE \E r \in Offer : \E e \in Event, proof \in Proofs : PostEvent(e, r, proof)
  BY <1>1, <1>3, PostEventCalm, CalmKeeps
<1>4. CASE \E r \in Offer : \/ TurnAway(r) \/ Handle(r) \/ ChatFails(r) \/ ShowPost(r)
                            \/ PostFails(r) \/ Respond(r) \/ Drop(r)
  BY <1>1, <1>4, CalmSteps, CalmKeeps
<1>5. CASE \E r \in Offer : PrepareChat(r) \/ CommitChat(r)
  BY <1>1, <1>5, PrepareChatRemembers, CommitChatRemembers
<1>6. CASE Stop \/ SaveSessions
  BY <1>1, <1>6, StopRemembers, SaveRemembers
<1>7. QED
  BY <1>1, <1>2, <1>3, <1>4, <1>5, <1>6 DEF Next

(***************************************************************************)
(* Nothing that a platform has shown is forgotten by the session, over     *)
(* restarts too, unless two chats of it overlapped, or no save succeeded   *)
(* between the turn and the end of the process, or the file was not        *)
(* readable at the start: each handler copies the session                  *)
(* (prepare_session_chat_messages), writes it back whole after the model   *)
(* has answered, and saves the map (commit_session_messages).              *)
(***************************************************************************)
THEOREM ShownIsRemembered == Spec => []SeenIsRemembered
<1>1. Init => RememberInv
  <2>1. SUFFICES ASSUME Init PROVE \A r \in Offer : ~Used(r)
    BY DEF Init, RememberInv, MetAreOver, TurnsRemembered, FileRemembers, CopiesRemember, Committed, ChatAt
  <2>2. QED
    BY <2>1 DEF Init, Used
<1>2. TypeOK /\ RememberInv /\ [Next]_vars => RememberInv'
  BY NextRemembers
<1>3. RememberInv => SeenIsRemembered
  BY DEF RememberInv, TurnsRemembered, SeenIsRemembered, Gone, Overwritten
<1>4. QED
  BY <1>1, <1>2, <1>3, TypeCorrect, PTL DEF Spec
=============================================================================
