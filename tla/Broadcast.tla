------------------------------ MODULE Broadcast ------------------------------
(***************************************************************************)
(* The broadcast sink of internal/core/sink/broadcast.go with the handlers *)
(* of AdminServer.StreamEvents that subscribe to it: the ring of recent     *)
(* events, the bounded channels that drop what a subscriber is too slow to  *)
(* take, and who closes a channel.                                         *)
(*                                                                         *)
(* A handler subscribes once, so it stands for its subscription.  Events   *)
(* are numbered in the order they are published.  Everything done with the  *)
(* mutex held is one step, but for a batch: handlers take events between    *)
(* two events of a batch.  QueryEvents is a handler that leaves at once.    *)
(***************************************************************************)
EXTENDS Integers, Sequences, FiniteSets

CONSTANTS
    Subscribers,
    Size,           \* size of the ring
    Buffer,         \* capacity of a subscriber's channel
    Asked,          \* the history sizes handlers ask for
    MaxBatch,       \* bound: events of one Publish
    MaxEvents       \* bound: events published

BroadcastAssumption ==
    /\ Size \in Nat \ {0} /\ Buffer \in Nat \ {0}
    /\ Asked \subseteq Nat /\ MaxBatch \in Nat /\ MaxEvents \in Nat

VARIABLES
    history, next, filled,   \* the ring
    subscribers,     \* the handlers the sink feeds
    closed,
    batch,           \* events a Publish still has to send, the mutex held
    published,       \* history: events published
    events,          \* handler -> its channel
    closes,          \* history: how many times its channel was closed
    handler,         \* handler -> where it is
    recent,          \* the recent events it still has to send
    got              \* history: what it sent its client

vars == <<history, next, filled, subscribers, closed, batch, published,
          events, closes, handler, recent, got>>

ringVars == <<history, next, filled>>

Init ==
    /\ history = [i \in 0 .. Size - 1 |-> 0] /\ next = 0 /\ filled = FALSE
    /\ subscribers = {} /\ closed = FALSE
    /\ batch = 0 /\ published = 0
    /\ events = [s \in Subscribers |-> <<>>]
    /\ closes = [s \in Subscribers |-> 0]
    /\ handler = [s \in Subscribers |-> "idle"]
    /\ recent = [s \in Subscribers |-> <<>>]
    /\ got = [s \in Subscribers |-> <<>>]

Unlocked == batch = 0

-----------------------------------------------------------------------------
(* The sink *)

\* Publish takes the mutex, and does nothing once closed.
PublishStart ==
    /\ Unlocked /\ ~closed
    /\ \E n \in 1..MaxBatch :
         published + n <= MaxEvents /\ batch' = n
    /\ UNCHANGED <<ringVars, subscribers, closed, published,
                   events, closes, handler, recent, got>>

Full(s) == Len(events[s]) >= Buffer

\* One event: into the ring, then to every subscriber with room for it.
PublishOne ==
    /\ batch > 0
    /\ batch' = batch - 1
    /\ published' = published + 1
    /\ history' = [history EXCEPT ![next] = published']
    /\ next' = (next + 1) % Size
    /\ filled' = (filled \/ next' = 0)
    /\ events' = [s \in Subscribers |->
                    IF s \in subscribers /\ ~Full(s)
                    THEN Append(events[s], published') ELSE events[s]]
    /\ UNCHANGED <<subscribers, closed, closes, handler, recent, got>>

\* recent: the last size events, oldest first; all of the ring for 0.
Recent(size) ==
    LET total == IF filled THEN Size ELSE next
        n == IF size <= 0 \/ size > total THEN total ELSE size
    IN  [i \in 1..n |-> history[(next - total + (total - n + i - 1) + Size) % Size]]

\* Mutant: the channels are left open.
CloseSilently ==
    /\ Unlocked /\ ~closed
    /\ closed' = TRUE
    /\ subscribers' = {}
    /\ UNCHANGED <<ringVars, batch, published, events, closes,
                   handler, recent, got>>

Close ==
    /\ Unlocked /\ ~closed
    /\ closed' = TRUE
    /\ closes' = [s \in Subscribers |->
                    IF s \in subscribers THEN closes[s] + 1 ELSE closes[s]]
    /\ subscribers' = {}
    /\ UNCHANGED <<ringVars, batch, published, events, handler,
                   recent, got>>

-----------------------------------------------------------------------------
(* The handlers *)

\* Mutant: the mutex is given up between the registration and the snapshot.
SubscribeInTwo(s) ==
    /\ Unlocked /\ ~closed
    /\ \/ /\ handler[s] = "idle"
          /\ handler' = [handler EXCEPT ![s] = "register"]
          /\ subscribers' = subscribers \cup {s}
          /\ UNCHANGED recent
       \/ /\ handler[s] = "register"
          /\ handler' = [handler EXCEPT ![s] = "replay"]
          /\ \E size \in Asked : recent' = [recent EXCEPT ![s] = Recent(size)]
          /\ UNCHANGED subscribers
    /\ UNCHANGED <<ringVars, closed, batch, published, events, closes, got>>

\* Subscribe: the snapshot and the registration are one critical section.
Subscribe(s) ==
    /\ handler[s] = "idle" /\ Unlocked
    /\ handler' = [handler EXCEPT ![s] = "replay"]
    /\ IF closed
       THEN /\ closes' = [closes EXCEPT ![s] = @ + 1]
            /\ UNCHANGED <<subscribers, recent>>
       ELSE /\ \E size \in Asked : recent' = [recent EXCEPT ![s] = Recent(size)]
            /\ subscribers' = subscribers \cup {s}
            /\ UNCHANGED closes
    /\ UNCHANGED <<ringVars, closed, batch, published, events, got>>

Replay(s) ==
    /\ handler[s] = "replay" /\ recent[s] # <<>>
    /\ got' = [got EXCEPT ![s] = Append(@, Head(recent[s]))]
    /\ recent' = [recent EXCEPT ![s] = Tail(@)]
    /\ UNCHANGED <<ringVars, subscribers, closed, batch, published, events,
                   closes, handler>>

\* The recent events are replayed: the client is told it is live.
Ready(s) ==
    /\ handler[s] = "replay" /\ recent[s] = <<>>
    /\ handler' = [handler EXCEPT ![s] = "live"]
    /\ UNCHANGED <<ringVars, subscribers, closed, batch, published, events,
                   closes, recent, got>>

Receive(s) ==
    /\ handler[s] = "live" /\ events[s] # <<>>
    /\ got' = [got EXCEPT ![s] = Append(@, Head(events[s]))]
    /\ events' = [events EXCEPT ![s] = Tail(@)]
    /\ UNCHANGED <<ringVars, subscribers, closed, batch, published, closes,
                   handler, recent>>

\* The channel is closed and empty.
Drained(s) ==
    /\ handler[s] = "live" /\ events[s] = <<>> /\ closes[s] > 0
    /\ handler' = [handler EXCEPT ![s] = "leave"]
    /\ UNCHANGED <<ringVars, subscribers, closed, batch, published, events,
                   closes, recent, got>>

\* The client went away: its context is done, or a send fails.
GoAway(s) ==
    /\ handler[s] \in {"replay", "live"}
    /\ handler' = [handler EXCEPT ![s] = "leave"]
    /\ UNCHANGED <<ringVars, subscribers, closed, batch, published, events,
                   closes, recent, got>>

\* Mutant: the channel is closed whoever removed the subscription.
CancelAlways(s) ==
    /\ handler[s] = "leave" /\ Unlocked
    /\ handler' = [handler EXCEPT ![s] = "gone"]
    /\ subscribers' = subscribers \ {s}
    /\ closes' = [closes EXCEPT ![s] = @ + 1]
    /\ UNCHANGED <<ringVars, closed, batch, published, events, recent, got>>

\* The deferred cancel: unregister, and close the channel, if still registered.
Cancel(s) ==
    /\ handler[s] = "leave" /\ Unlocked
    /\ handler' = [handler EXCEPT ![s] = "gone"]
    /\ subscribers' = subscribers \ {s}
    /\ closes' = IF s \in subscribers
                 THEN [closes EXCEPT ![s] = @ + 1] ELSE closes
    /\ UNCHANGED <<ringVars, closed, batch, published, events, recent, got>>

Serve(s) == Replay(s) \/ Ready(s) \/ Receive(s) \/ Drained(s) \/ Cancel(s)

Next ==
    \/ PublishStart \/ PublishOne \/ Close
    \/ \E s \in Subscribers : Subscribe(s) \/ GoAway(s) \/ Serve(s)

Spec == Init /\ [][Next]_vars

\* A Publish that holds the mutex gets on, a handler is scheduled, and its
\* cancel gets the mutex in the end (sync.RWMutex does not starve a writer).
Handle(s) == Replay(s) \/ Ready(s) \/ Receive(s) \/ Drained(s)
FairSpec ==
    /\ Spec /\ WF_vars(PublishOne)
    /\ \A s \in Subscribers : WF_vars(Handle(s)) /\ SF_vars(Cancel(s))

-----------------------------------------------------------------------------
(* Properties *)

Numbers == 0..MaxEvents

TypeOK ==
    /\ history \in [0 .. Size - 1 -> Numbers]
    /\ next \in 0 .. Size - 1 /\ filled \in BOOLEAN /\ closed \in BOOLEAN
    /\ subscribers \subseteq Subscribers
    /\ batch \in 0..MaxBatch /\ published \in Numbers
    /\ closes \in [Subscribers -> Nat]
    /\ handler \in [Subscribers -> {"idle", "replay", "live", "leave", "gone"}]
    /\ events \in [Subscribers -> Seq(Numbers)]
    /\ recent \in [Subscribers -> Seq(Numbers)]
    /\ got \in [Subscribers -> Seq(Numbers)]
    /\ \A s \in Subscribers : Len(events[s]) <= Buffer /\ Len(recent[s]) <= Size

\* No send on a closed channel and no channel closed twice (a panic, that would
\* take the pipeline down), whoever ends the subscription: the sink or the
\* handler.
OneClose ==
    \A s \in Subscribers :
        closes[s] <= 1 /\ (s \in subscribers => closes[s] = 0)

\* The sink keeps its bounds and closes each channel once.
ClosedOnce == TypeOK /\ OneClose

\* Every handler's client is fed as Feed promises.
FeedOfHandlers == INSTANCE Feed WITH
    Kept <- Size, Behind <- Buffer,
    joined <- subscribers,
    view <- [s \in Subscribers |-> got[s] \o recent[s] \o events[s]],
    unread <- [s \in Subscribers |-> Len(events[s])]
ImplementsFeed == FeedOfHandlers!Spec

\* Closing the sink ends every stream, a slow client's too.
StreamsEnd ==
    \A s \in Subscribers :
        closed /\ handler[s] # "idle" ~> handler[s] = "gone"
==============================================================================
