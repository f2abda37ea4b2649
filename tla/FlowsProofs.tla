----------------------------- MODULE FlowsProofs -----------------------------
(***************************************************************************)
(* Proofs about the way in and the ways out, for any value of the constants *)
(* that MCFlows gives the broadcast sink, the links and the retrying sink.  *)
(*                                                                         *)
(* The broadcast sink: its types, that no channel is closed twice or sent   *)
(* to once closed, and that it implements Feed.  Neither OneClose nor the   *)
(* refinement is inductive.  A channel's fate depends on where its handler  *)
(* is (Handlers); what a new subscriber is given depends on what the ring   *)
(* holds, slot by slot (RingHolds).                                        *)
(*                                                                         *)
(* Links: both ends of a link are honest.  LinkIsHonest is not inductive.   *)
(* That an observation is handed over once needs that it is in one place at *)
(* a time, across all the streams a client ever opened (Fresh, Carried,     *)
(* Apart); that a success is true needs that a stream which is not broken   *)
(* loses nothing and that the end of the stream is the last thing on its    *)
(* wire (Carried, Finished).                                               *)
(*                                                                         *)
(* The retrying sink: what it owes its caller whatever the destination      *)
(* does.  Delivery is not inductive: that a retry does not overtake follows *)
(* from how the queue, the event being delivered and what was settled are   *)
(* ordered (Line), and the attempts used up bound how often an event was    *)
(* taken (Attempts).                                                       *)
(***************************************************************************)
EXTENDS MCFlows, FiniteSetTheorems, TLAPS

-----------------------------------------------------------------------------
\* A step of one part is a step of its module, and a stutter of the others.
LEMMA FlowsStep ==
    ASSUME [NextFlows]_flows
    PROVE  /\ [Next]_vars /\ [Resilient!Next]_(Resilient!vars)
           /\ [Links!Next]_(Links!links)
  BY DEF NextFlows, flows, Runs, Rest, Parts, resilient, Resilient!vars, links, Links!links

-----------------------------------------------------------------------------
(* The sink that broadcasts *)

\* A handler is fed between its Subscribe and its Cancel, and what it holds
\* tells how far it got: nothing before it subscribes, no recent event left
\* once it is live.
Handlers ==
    \A s \in Subscribers :
        /\ handler[s] = "idle" =>
               /\ s \notin subscribers /\ closes[s] = 0
               /\ got[s] = <<>> /\ recent[s] = <<>> /\ events[s] = <<>>
        /\ handler[s] = "gone" => s \notin subscribers
        /\ handler[s] = "live" => recent[s] = <<>>

\* The slots before next hold the last lap's events, those from it on the
\* events of the lap before.
RingHolds ==
    /\ filled => published >= Size
    /\ ~filled => next = published
    /\ \A i \in 0 .. next - 1 : history[i] = published - next + i + 1
    /\ filled => \A i \in next .. Size - 1 :
                     history[i] = published - next + i + 1 - Size

\* The model's bound counts the events of the batch under way.
Bounded == published + batch <= MaxEvents

\* The inductive invariant.
IInv == TypeOK /\ OneClose /\ Handlers /\ RingHolds /\ Bounded

-----------------------------------------------------------------------------
(* What the ring's arithmetic and the sequences do. *)

\* Modulo wraps a number of at most two laps once.
LEMMA Wraps ==
    ASSUME NEW N \in Nat \ {0}, NEW k \in 0 .. 2 * N - 1
    PROVE  k % N = IF k < N THEN k ELSE k - N
  OBVIOUS

\* Recent hands out one gapless run of at most Size events up to the latest.
LEMMA RecentEvents ==
    ASSUME BroadcastAssumption, TypeOK, RingHolds, NEW size \in Asked
    PROVE  \E k \in 0 .. Size :
               /\ k <= published
               /\ Recent(size) = [i \in 1..k |-> published - k + i]
<1> DEFINE total == IF filled THEN Size ELSE next
           n == IF size <= 0 \/ size > total THEN total ELSE size
           slot(i) == (next - total + (total - n + i - 1) + Size) % Size
<1>1. /\ Size \in Nat \ {0} /\ size \in Nat /\ next \in 0 .. Size - 1
      /\ published \in Nat /\ filled \in BOOLEAN
  BY DEF BroadcastAssumption, TypeOK, Numbers
<1>2. total \in 0 .. Size /\ total <= published
  BY <1>1 DEF RingHolds
<1>3. n \in 0 .. Size /\ n <= total /\ n <= published
  BY <1>1, <1>2
<1>4. ASSUME NEW i \in 1..n
      PROVE  history[slot(i)] = published - n + i
  <2>1. next - total + (total - n + i - 1) + Size = next - n + i - 1 + Size
    BY <1>1, <1>2, <1>3
  <2>2. next - n + i - 1 + Size \in 0 .. 2 * Size - 1
    BY <1>1, <1>3
  <2>3. slot(i) = IF next - n + i - 1 < 0 THEN next - n + i - 1 + Size
                                          ELSE next - n + i - 1
    <3>1. slot(i) = (next - n + i - 1 + Size) % Size
      BY <2>1
    <3> HIDE DEF n
    <3> DEFINE k == next - n + i - 1 + Size
    <3>2. k % Size = IF k < Size THEN k ELSE k - Size
      <4> HIDE DEF k
      <4> QED BY <1>1, <2>2, Wraps DEF k
    <3> QED
      BY <1>1, <1>3, <3>1, <3>2
  <2>4. CASE next - n + i - 1 < 0
    <3>1. filled /\ slot(i) \in next .. Size - 1
      BY <1>1, <1>3, <2>3, <2>4
    <3> HIDE DEF slot
    <3> QED
      BY <1>1, <1>3, <2>3, <2>4, <3>1 DEF RingHolds
  <2>5. CASE next - n + i - 1 >= 0
    <3>1. slot(i) \in 0 .. next - 1
      BY <1>1, <1>3, <2>3, <2>5
    <3> HIDE DEF slot
    <3> QED
      BY <1>1, <1>3, <2>3, <2>5, <3>1 DEF RingHolds
  <2> QED
    BY <1>1, <1>3, <2>4, <2>5
<1>5. Recent(size) = [i \in 1..n |-> history[slot(i)]]
  BY DEF Recent
<1> HIDE DEF n, slot
<1>6. Recent(size) = [i \in 1..n |-> published - n + i]
  BY <1>4, <1>5
<1> QED
  BY <1>3, <1>6

\* Such a run is a short sequence of event numbers.
LEMMA RunOfEvents ==
    ASSUME BroadcastAssumption, published \in Numbers,
           NEW k \in 0 .. Size, k <= published
    PROVE  LET run == [i \in 1..k |-> published - k + i]
           IN  run \in Seq(Numbers) /\ Len(run) = k
  BY DEF BroadcastAssumption, Numbers

\* Moving a sequence's head to the end of the one before it.
LEMMA MoveHead ==
    ASSUME NEW S, NEW a \in Seq(S), NEW b \in Seq(S), b # <<>>
    PROVE  Append(a, Head(b)) \o Tail(b) = a \o b
  OBVIOUS

-----------------------------------------------------------------------------
\* The initial states satisfy the inductive invariant.
LEMMA InitIInv ==
    ASSUME BroadcastAssumption, Init
    PROVE  IInv
<1>1. TypeOK
  <2>1. /\ events \in [Subscribers -> Seq(Numbers)]
        /\ recent \in [Subscribers -> Seq(Numbers)]
        /\ got \in [Subscribers -> Seq(Numbers)]
    BY DEF Init
  <2>2. \A s \in Subscribers : Len(events[s]) = 0 /\ Len(recent[s]) = 0
    BY DEF Init
  <2> QED
    <3>1. /\ history \in [0 .. Size - 1 -> Numbers] /\ next \in 0 .. Size - 1
          /\ batch \in 0 .. MaxBatch /\ published \in Numbers
      BY DEF BroadcastAssumption, Init, Numbers
    <3>2. /\ closes \in [Subscribers -> Nat]
          /\ handler \in [Subscribers -> {"idle", "replay", "live", "leave", "gone"}]
          /\ filled \in BOOLEAN /\ closed \in BOOLEAN
          /\ subscribers \subseteq Subscribers
      BY DEF Init
    <3>3. 0 <= Buffer /\ 0 <= Size
      BY DEF BroadcastAssumption
    <3> QED
      BY <2>1, <2>2, <3>1, <3>2, <3>3 DEF TypeOK
<1>2. OneClose /\ Handlers
  BY DEF Init, OneClose, Handlers
<1>3. RingHolds /\ Bounded
  BY DEF BroadcastAssumption, Init, RingHolds, Bounded
<1> QED
  BY <1>1, <1>2, <1>3 DEF IInv

USE DEF IInv

\* A Publish starts: only the batch changes.
LEMMA PublishStartStep ==
    ASSUME BroadcastAssumption, IInv, PublishStart
    PROVE  IInv'
<1> USE DEF PublishStart, ringVars
<1>1. TypeOK'
  BY DEF TypeOK, BroadcastAssumption, Numbers
<1>2. (OneClose /\ Handlers /\ RingHolds /\ Bounded)'
  BY DEF TypeOK, BroadcastAssumption, Numbers, OneClose, Handlers, RingHolds,
         Bounded
<1> QED
  BY <1>1, <1>2

\* An event enters the ring and the channels with room for it.
LEMMA PublishOneStep ==
    ASSUME BroadcastAssumption, IInv, PublishOne
    PROVE  IInv'
<1>1. /\ Size \in Nat \ {0} /\ Buffer \in Nat \ {0} /\ MaxEvents \in Nat
      /\ next \in 0 .. Size - 1 /\ published \in Nat
      /\ published' = published + 1 /\ published' \in Numbers /\ Bounded'
  BY DEF BroadcastAssumption, TypeOK, PublishOne, Numbers, Bounded
<1>2. next' = IF next + 1 < Size THEN next + 1 ELSE 0
  <2>1. next + 1 \in 0 .. 2 * Size - 1
    BY <1>1
  <2> QED
    <3> DEFINE k == next + 1
    <3> HIDE DEF k
    <3>1. k % Size = IF k < Size THEN k ELSE k - Size
      BY <1>1, <2>1, Wraps DEF k
    <3> QED
      BY <1>1, <2>1, <3>1 DEF PublishOne, k
<1>3. TypeOK'
  <2>1. history' \in [0 .. Size - 1 -> Numbers]
    BY <1>1 DEF PublishOne, TypeOK
  <2>2. ASSUME NEW s \in Subscribers
        PROVE  events'[s] \in Seq(Numbers) /\ Len(events'[s]) <= Buffer
    BY <1>1 DEF PublishOne, TypeOK, Full
  <2>3. /\ next' \in 0 .. Size - 1 /\ filled' \in BOOLEAN
        /\ batch' \in 0 .. MaxBatch
    BY <1>1, <1>2 DEF PublishOne, TypeOK, BroadcastAssumption
  <2> QED
    BY <1>1, <2>1, <2>2, <2>3 DEF PublishOne, TypeOK
<1>4. OneClose' /\ Handlers'
  BY DEF PublishOne, OneClose, Handlers
<1>5. RingHolds'
  <2>1. filled' <=> filled \/ next' = 0
    BY DEF PublishOne, TypeOK
  <2>2. filled' => published' >= Size
    BY <1>1, <1>2, <2>1 DEF RingHolds
  <2>3. ~filled' => next' = published'
    BY <1>1, <1>2, <2>1 DEF RingHolds
  <2>4. ASSUME NEW i \in 0 .. Size - 1
        PROVE  history'[i] = IF i = next THEN published + 1 ELSE history[i]
    BY <1>1 DEF PublishOne, TypeOK
  <2>5. ASSUME NEW i \in 0 .. next' - 1
        PROVE  history'[i] = published' - next' + i + 1
    BY <1>1, <1>2, <2>4 DEF RingHolds
  <2>6. ASSUME filled', NEW i \in next' .. Size - 1
        PROVE  history'[i] = published' - next' + i + 1 - Size
    BY <1>1, <1>2, <2>1, <2>4, <2>6 DEF RingHolds
  <2> QED
    BY <2>2, <2>3, <2>5, <2>6 DEF RingHolds
<1> QED
  BY <1>1, <1>3, <1>4, <1>5

\* The sink is closed.
LEMMA CloseStep ==
    ASSUME BroadcastAssumption, IInv, Close
    PROVE  IInv'
<1>1. TypeOK'
  BY DEF Close, ringVars, TypeOK
<1>2. (OneClose /\ Handlers /\ RingHolds /\ Bounded)'
  BY DEF Close, ringVars, TypeOK, OneClose, Handlers, RingHolds,
       Bounded
<1> QED
  BY <1>1, <1>2

\* A handler subscribes.
LEMMA SubscribeStep ==
    ASSUME BroadcastAssumption, IInv, NEW s \in Subscribers, Subscribe(s)
    PROVE  IInv'
<1>1. CASE closed
  <2>1. closes' \in [Subscribers -> Nat]
    <3>1. closes \in [Subscribers -> Nat]
      BY DEF TypeOK
    <3> QED
      BY <1>1, <3>1 DEF Subscribe
  <2>3. TypeOK'
    BY <1>1, <2>1 DEF Subscribe, ringVars, TypeOK
  <2>2. (OneClose /\ Handlers /\ RingHolds /\ Bounded)'
    BY <1>1 DEF Subscribe, ringVars, TypeOK, OneClose, Handlers, RingHolds,
       Bounded
  <2> QED
    BY <2>2, <2>3
<1>2. CASE ~closed
  <2>1. PICK size \in Asked : recent' = [recent EXCEPT ![s] = Recent(size)]
    BY <1>2 DEF Subscribe
  <2>2. Recent(size) \in Seq(Numbers) /\ Len(Recent(size)) <= Size
    <3>1. PICK k \in 0 .. Size :
              k <= published /\ Recent(size) = [i \in 1..k |-> published - k + i]
      BY RecentEvents
    <3> QED
      BY <3>1, RunOfEvents DEF TypeOK, BroadcastAssumption
  <2>3. TypeOK'
    BY <1>2, <2>1, <2>2 DEF Subscribe, ringVars, TypeOK
  <2>4. (OneClose /\ Handlers /\ RingHolds /\ Bounded)'
    BY <1>2, <2>1 DEF Subscribe, ringVars, TypeOK, OneClose, Handlers,
                      RingHolds, Bounded
  <2> QED
    BY <2>3, <2>4
<1> QED
  BY <1>1, <1>2

\* A handler sends an event, of the recent ones or of its channel's.
LEMMA SendStep ==
    ASSUME BroadcastAssumption, IInv, NEW s \in Subscribers,
           Replay(s) \/ Receive(s)
    PROVE  IInv'
<1>1. CASE Replay(s)
  <2>1. /\ Head(recent[s]) \in Numbers /\ Tail(recent[s]) \in Seq(Numbers)
        /\ Len(Tail(recent[s])) <= Size
    BY <1>1 DEF Replay, TypeOK, BroadcastAssumption
  <2>2. TypeOK'
    BY <1>1, <2>1 DEF Replay, ringVars, TypeOK
  <2>3. (OneClose /\ Handlers /\ RingHolds /\ Bounded)'
    BY <1>1 DEF Replay, ringVars, TypeOK, OneClose, Handlers, RingHolds,
       Bounded
  <2> QED
    BY <2>2, <2>3
<1>2. CASE Receive(s)
  <2>1. /\ Head(events[s]) \in Numbers /\ Tail(events[s]) \in Seq(Numbers)
        /\ Len(Tail(events[s])) <= Buffer
    BY <1>2 DEF Receive, TypeOK, BroadcastAssumption
  <2>2. TypeOK'
    BY <1>2, <2>1 DEF Receive, ringVars, TypeOK
  <2>3. (OneClose /\ Handlers /\ RingHolds /\ Bounded)'
    BY <1>2 DEF Receive, ringVars, TypeOK, OneClose, Handlers, RingHolds,
       Bounded
  <2> QED
    BY <2>2, <2>3
<1> QED
  BY <1>1, <1>2

\* A handler goes on to the next phase of its life.
LEMMA HandlerStep ==
    ASSUME BroadcastAssumption, IInv, NEW s \in Subscribers,
           Ready(s) \/ Drained(s) \/ GoAway(s)
    PROVE  IInv'
<1> USE DEF Ready, Drained, GoAway, ringVars
<1>1. TypeOK'
  BY DEF TypeOK
<1>2. Handlers'
  BY DEF TypeOK, Handlers
<1>3. (OneClose /\ RingHolds /\ Bounded)'
  BY DEF OneClose, RingHolds, Bounded
<1> QED
  BY <1>1, <1>2, <1>3

\* A handler's deferred cancel.
LEMMA CancelStep ==
    ASSUME BroadcastAssumption, IInv, NEW s \in Subscribers, Cancel(s)
    PROVE  IInv'
<1>1. TypeOK'
  BY DEF Cancel, ringVars, TypeOK
<1>2. (OneClose /\ Handlers /\ RingHolds /\ Bounded)'
  BY DEF Cancel, ringVars, TypeOK, OneClose, Handlers, RingHolds,
       Bounded
<1> QED
  BY <1>1, <1>2

\* A step of the specification preserves the inductive invariant.
LEMMA NextIInv ==
    ASSUME BroadcastAssumption, IInv, [Next]_vars
    PROVE  IInv'
<1>1. CASE PublishStart \/ PublishOne \/ Close
  BY <1>1, PublishStartStep, PublishOneStep, CloseStep
<1>2. ASSUME NEW s \in Subscribers, Subscribe(s) \/ GoAway(s) \/ Serve(s)
      PROVE  IInv'
  BY <1>2, SubscribeStep, SendStep, HandlerStep, CancelStep DEF Serve
<1>3. CASE UNCHANGED vars
  <2>1. TypeOK'
    BY <1>3 DEF vars, ringVars, TypeOK
  <2>2. (OneClose /\ Handlers /\ RingHolds /\ Bounded)'
    BY <1>3 DEF vars, ringVars, OneClose, Handlers, RingHolds, Bounded
  <2> QED
    BY <2>1, <2>2
<1> QED
  BY <1>1, <1>2, <1>3 DEF Next

LEMMA Invariance ==
    ASSUME BroadcastAssumption
    PROVE  Spec => []IInv
<1>1. Init => IInv
  BY InitIInv
<1>2. IInv /\ [Next]_vars => IInv'
  BY NextIInv
<1> QED
  BY <1>1, <1>2, PTL DEF Spec

\* Every variable keeps its type: the ring's slots, the channels' and the
\* replayed events' bounds.
THEOREM TypeCorrect ==
    ASSUME BroadcastAssumption
    PROVE  Spec => []TypeOK
<1>1. IInv => TypeOK
  OBVIOUS
<1> QED
  BY <1>1, Invariance, PTL

\* No channel is closed twice, and none is sent to once closed, whoever ends
\* the subscription: Close, Subscribe on a closed sink, or the deferred cancel.
THEOREM NoPanic ==
    ASSUME BroadcastAssumption
    PROVE  Spec => []ClosedOnce
<1>1. IInv => ClosedOnce
  BY DEF ClosedOnce
<1> QED
  BY <1>1, Invariance, PTL

-----------------------------------------------------------------------------
(* The refinement: each step is a step of Feed, or leaves what Feed speaks  *)
(* of alone.                                                               *)

\* What Feed sees.
View == [s \in Subscribers |-> got[s] \o recent[s] \o events[s]]
Unread == [s \in Subscribers |-> Len(events[s])]

LEMMA InitRefines ==
    ASSUME Init
    PROVE  FeedOfHandlers!Init
  BY DEF Init, FeedOfHandlers!Init

\* One event of a batch is Feed's Publish.
LEMMA PublishOneRefines ==
    ASSUME BroadcastAssumption, IInv, PublishOne
    PROVE  FeedOfHandlers!Publish
<1> DEFINE takes(s) == s \in subscribers /\ Unread[s] < Buffer
<1>1. published' = published + 1 /\ published' \in Nat /\ UNCHANGED subscribers
  BY DEF PublishOne, TypeOK, Numbers, BroadcastAssumption
<1>2. ASSUME NEW s \in Subscribers
      PROVE  /\ events'[s] = IF takes(s) THEN Append(events[s], published')
                                         ELSE events[s]
             /\ got'[s] = got[s] /\ recent'[s] = recent[s]
  BY DEF PublishOne, TypeOK, Full, Unread, BroadcastAssumption
<1>3. ASSUME NEW s \in Subscribers
      PROVE  View'[s] = IF takes(s) THEN Append(View[s], published') ELSE View[s]
  <2>1. /\ got[s] \in Seq(Numbers) /\ recent[s] \in Seq(Numbers)
        /\ events[s] \in Seq(Numbers) /\ published' \in Numbers
    BY PublishOneStep DEF TypeOK
  <2> HIDE DEF takes
  <2>2. got[s] \o recent[s] \o Append(events[s], published')
          = Append(got[s] \o recent[s] \o events[s], published')
    <3>1. \A a, b \in Seq(Numbers) : \A x \in Numbers :
              a \o Append(b, x) = Append(a \o b, x)
      OBVIOUS
    <3>2. got[s] \o recent[s] \in Seq(Numbers)
      BY <2>1
    <3> QED
      BY <2>1, <3>1, <3>2, Zenon
  <2> QED
    BY <1>2, <2>2 DEF View
<1>4. ASSUME NEW s \in Subscribers
      PROVE  Unread'[s] = IF takes(s) THEN Unread[s] + 1 ELSE Unread[s]
  <2>1. events[s] \in Seq(Numbers) /\ published' \in Numbers
    BY PublishOneStep DEF TypeOK
  <2> HIDE DEF takes
  <2>2. Len(Append(events[s], published')) = Len(events[s]) + 1
    BY <2>1
  <2> QED
    BY <1>2, <2>2 DEF Unread
<1>5. /\ View' = [s \in Subscribers |->
                    IF takes(s) THEN Append(View[s], published') ELSE View[s]]
      /\ Unread' = [s \in Subscribers |->
                      IF takes(s) THEN Unread[s] + 1 ELSE Unread[s]]
  <2> HIDE DEF takes
  <2> QED
    BY <1>3, <1>4 DEF View, Unread
<1> QED
  BY <1>1, <1>5 DEF FeedOfHandlers!Publish, View, Unread

\* A subscription is a Join, and on a closed sink nothing Feed sees.
LEMMA SubscribeRefines ==
    ASSUME BroadcastAssumption, IInv, NEW s \in Subscribers, Subscribe(s)
    PROVE  FeedOfHandlers!Join(s) \/ UNCHANGED FeedOfHandlers!vars
<1>1. CASE closed
  BY <1>1 DEF Subscribe, FeedOfHandlers!vars
<1>2. CASE ~closed
  <2>1. PICK size \in Asked : recent' = [recent EXCEPT ![s] = Recent(size)]
    BY <1>2 DEF Subscribe
  <2>2. PICK k \in 0 .. Size :
            k <= published /\ Recent(size) = [i \in 1..k |-> published - k + i]
    BY RecentEvents
  <2>3. Recent(size) \in Seq(Numbers)
    BY <2>2, RunOfEvents DEF TypeOK, BroadcastAssumption
  <2>4. got[s] = <<>> /\ events[s] = <<>> /\ UNCHANGED <<got, events, published>>
    BY <1>2 DEF Subscribe, Handlers
  <2>5. View'[s] = Recent(size)
    <3>1. recent'[s] = Recent(size)
      BY <2>1 DEF TypeOK
    <3>2. <<>> \o Recent(size) \o <<>> = Recent(size)
      BY <2>3
    <3> QED
      BY <2>4, <3>1, <3>2 DEF View
  <2>6. ASSUME NEW q \in Subscribers, q # s
        PROVE  View'[q] = View[q]
    BY <2>1, <2>4, <2>6 DEF View, TypeOK
  <2>7. View' = [View EXCEPT ![s] = [i \in 1..k |-> published - k + i]]
    BY <2>2, <2>5, <2>6 DEF View
  <2>8. /\ subscribers' = subscribers \cup {s} /\ UNCHANGED published
        /\ UNCHANGED Unread
    BY <1>2 DEF Subscribe, Unread
  <2> QED
    BY <2>2, <2>7, <2>8 DEF FeedOfHandlers!Join, View, Unread
<1> QED
  BY <1>1, <1>2

\* What a handler replays it already had: Feed sees nothing of it.
LEMMA ReplayRefines ==
    ASSUME IInv, NEW s \in Subscribers, Replay(s)
    PROVE  UNCHANGED FeedOfHandlers!vars
<1>1. /\ got[s] \in Seq(Numbers) /\ recent[s] \in Seq(Numbers)
      /\ events[s] \in Seq(Numbers) /\ recent[s] # <<>>
      /\ got'[s] = Append(got[s], Head(recent[s]))
      /\ recent'[s] = Tail(recent[s]) /\ events'[s] = events[s]
  BY DEF Replay, TypeOK
<1>2. got'[s] \o recent'[s] = got[s] \o recent[s]
  BY <1>1, MoveHead
<1>3. ASSUME NEW q \in Subscribers, q # s
      PROVE  got'[q] = got[q] /\ recent'[q] = recent[q] /\ events'[q] = events[q]
  BY <1>3 DEF Replay, TypeOK
<1>4. UNCHANGED View
  BY <1>1, <1>2, <1>3 DEF View
<1> QED
  BY <1>4 DEF Replay, View, ringVars, FeedOfHandlers!vars

\* An event taken from the channel is Feed's Take.
LEMMA ReceiveRefines ==
    ASSUME IInv, NEW s \in Subscribers, Receive(s)
    PROVE  FeedOfHandlers!Take(s)
<1>1. /\ got[s] \in Seq(Numbers) /\ events[s] \in Seq(Numbers)
      /\ events[s] # <<>> /\ recent[s] = <<>> /\ recent' = recent
      /\ got'[s] = Append(got[s], Head(events[s]))
      /\ events'[s] = Tail(events[s])
  BY DEF Receive, TypeOK, Handlers
<1>2. View'[s] = View[s]
  <2>1. Append(got[s], Head(events[s])) \in Seq(Numbers)
    BY <1>1
  <2>2. \A q \in Seq(Numbers) : q \o <<>> = q
    OBVIOUS
  <2>3. Append(got[s], Head(events[s])) \o Tail(events[s]) = got[s] \o events[s]
    BY <1>1, MoveHead
  <2> QED
    BY <1>1, <2>1, <2>2, <2>3 DEF View
<1>3. ASSUME NEW q \in Subscribers, q # s
      PROVE  got'[q] = got[q] /\ recent'[q] = recent[q] /\ events'[q] = events[q]
  BY <1>3 DEF Receive, TypeOK
<1>4. UNCHANGED View
  BY <1>2, <1>3 DEF View
<1>5. Unread[s] > 0 /\ Unread' = [Unread EXCEPT ![s] = @ - 1]
  <2>1. Len(events[s]) > 0 /\ Len(events'[s]) = Len(events[s]) - 1
    BY <1>1
  <2>2. \A q \in Subscribers : q # s => Len(events'[q]) = Len(events[q])
    BY <1>3
  <2> QED
    BY <2>1, <2>2 DEF Unread
<1> QED
  BY <1>4, <1>5 DEF Receive, View, Unread, ringVars, FeedOfHandlers!Take

\* Nothing else a handler does is seen, but for the end of its subscription.
LEMMA LeaveRefines ==
    ASSUME NEW s \in Subscribers,
           Ready(s) \/ Drained(s) \/ GoAway(s) \/ Cancel(s)
    PROVE  FeedOfHandlers!Part \/ UNCHANGED FeedOfHandlers!vars
<1>1. CASE Ready(s) \/ Drained(s) \/ GoAway(s)
  BY <1>1 DEF Ready, Drained, GoAway, ringVars, FeedOfHandlers!vars
<1>2. CASE Cancel(s)
  BY <1>2 DEF Cancel, ringVars, FeedOfHandlers!Part
<1> QED
  BY <1>1, <1>2

LEMMA NextRefines ==
    ASSUME BroadcastAssumption, IInv, [Next]_vars
    PROVE  [FeedOfHandlers!Next]_FeedOfHandlers!vars
<1>1. CASE PublishStart
  BY <1>1 DEF PublishStart, ringVars, FeedOfHandlers!vars
<1>2. CASE PublishOne
  BY <1>2, PublishOneRefines DEF FeedOfHandlers!Next
<1>3. CASE Close
  <2>1. FeedOfHandlers!Part
    BY <1>3 DEF Close, ringVars, FeedOfHandlers!Part
  <2> QED
    BY <2>1 DEF FeedOfHandlers!Next
<1>4. ASSUME NEW s \in Subscribers, Subscribe(s) \/ GoAway(s) \/ Serve(s)
      PROVE  [FeedOfHandlers!Next]_FeedOfHandlers!vars
  BY <1>4, SubscribeRefines, ReplayRefines, ReceiveRefines, LeaveRefines
     DEF Serve, FeedOfHandlers!Next
<1>5. CASE UNCHANGED vars
  BY <1>5 DEF vars, FeedOfHandlers!vars
<1> QED
  BY <1>1, <1>2, <1>3, <1>4, <1>5 DEF Next

\* Every client is given one gapless run of the latest events when its handler
\* subscribes, then each later event in order, except those published while its
\* channel is full: the ring and the channels implement Feed.
THEOREM Refinement ==
    ASSUME BroadcastAssumption
    PROVE  Spec => ImplementsFeed
<1>1. Init => FeedOfHandlers!Init
  BY InitRefines
<1>2. IInv /\ [Next]_vars => [FeedOfHandlers!Next]_FeedOfHandlers!vars
  BY NextRefines
<1> QED
  BY <1>1, <1>2, Invariance, PTL DEF Spec, ImplementsFeed, FeedOfHandlers!Spec

-----------------------------------------------------------------------------
(* The links *)

Streams ==
    [owner : Clients, wire : Seq(0..Load), sent : SUBSET (1..Load), held : 0..Load,
     broken : BOOLEAN, handler : {"live", "summary", "error"}]

LinkTypes ==
    /\ source \in [Clients -> [kind : Kinds, lines : 0..Load,
                               end : {"reading", "closed", "failed"}]]
    /\ buffer \in [Clients -> Seq(1..Load)]
    /\ client \in [Clients -> [at : {"sending", "backoff", "closing", "done", "failed"},
                               stream : Nat, expired : BOOLEAN]]
    /\ streams \in Seq(Streams)
    /\ server \in {"serving", "draining", "forced", "returned"}
    /\ out \in [Links!Observations -> {0, 1}]

\* A client uses a stream of its own.
Owned ==
    \A c \in Clients : Links!Stream(c) # 0 =>
        Links!Stream(c) \in DOMAIN streams /\ streams[Links!Stream(c)].owner = c

\* What was never sent, nor handed over.
Unsent(c, n) ==
    /\ out[<<c, n>>] = 0
    /\ \A s \in DOMAIN streams : streams[s].owner = c => n \notin streams[s].sent

\* A sequence where nothing comes twice, and one where nothing follows a 0.
Once(q) == \A i, j \in DOMAIN q : q[i] = q[j] => i = j
EndsLast(q) == \A i \in DOMAIN q : q[i] = 0 => i = Len(q)

\* The lines of a buffer were read, each is there once, and none was sent; a line
\* that is not read is nowhere.
Fresh ==
    \A c \in Clients :
      /\ Once(buffer[c])
      /\ \A n \in Links!ToSet(buffer[c]) : n <= source[c].lines /\ Unsent(c, n)
      /\ \A n \in 1..Load : n > source[c].lines => Unsent(c, n)

\* What a stream was given to send is on its wire once, or held by its handler,
\* or with the engine, or the stream broke and lost it.
Carries(s) ==
    LET c == streams[s].owner
        onWire == Links!ToSet(streams[s].wire)
        held == streams[s].held
        sent == streams[s].sent
    IN
    /\ Once(streams[s].wire)
    /\ \A n \in onWire \ {0} : n \in sent /\ n # held /\ out[<<c, n>>] = 0
    /\ held # 0 => held \in sent /\ out[<<c, held>>] = 0
    /\ \A n \in sent : \/ n = held \/ n \in onWire \/ out[<<c, n>>] = 1
                        \/ (streams[s].broken /\ <<c, n>> \in lost)
Carried == \A s \in DOMAIN streams : Carries(s)

\* The wire of a stream that broke is empty.  The end of a stream comes last, once
\* the client is done with it, and is answered once all that the stream carried is
\* with the engine.
Over(s) == streams[s].handler = "summary" \/ 0 \in Links!ToSet(streams[s].wire)
Finishes(s) ==
    LET c == streams[s].owner IN
    /\ EndsLast(streams[s].wire)
    /\ streams[s].broken => Links!ToSet(streams[s].wire) = {}
    /\ streams[s].held # 0 => streams[s].handler = "live"
    /\ Over(s) => Links!Stream(c) = s /\ client[c].at \in {"closing", "done", "failed"}
    /\ streams[s].handler = "summary" =>
         /\ Links!ToSet(streams[s].wire) = {}
         /\ \A n \in streams[s].sent : out[<<c, n>>] = 1
Finished ==
    /\ \A s \in DOMAIN streams : Finishes(s)
    /\ \A c \in Clients : client[c].at = "done" /\ Links!Stream(c) # 0 =>
         streams[Links!Stream(c)].handler = "summary"

\* No line was sent on two streams.
Apart ==
    \A s, t \in DOMAIN streams :
        s # t /\ streams[s].owner = streams[t].owner =>
          streams[s].sent \cap streams[t].sent = {}

\* A line read is lost, in the buffer, or was sent.
Kept ==
    \A c \in Clients, n \in 1..Load : n <= source[c].lines =>
        \/ <<c, n>> \in lost
        \/ n \in Links!ToSet(buffer[c])
        \/ \E s \in DOMAIN streams : streams[s].owner = c /\ n \in streams[s].sent

\* The inductive invariant.
Linked ==
    /\ LinkTypes /\ Owned /\ Fresh /\ Carried /\ Finished /\ Apart /\ Kept
    /\ Links!NoHandlerOutlivesIngest
-----------------------------------------------------------------------------
(* Sequences *)

LEMMA NothingIn ==
    Links!ToSet(<<>>) = {} /\ Once(<<>>) /\ EndsLast(<<>>)
  BY DEF Links!ToSet, Once, EndsLast

LEMMA AllIn ==
    ASSUME NEW S, NEW q \in Seq(S)
    PROVE  Links!ToSet(q) \subseteq S
<1>1. \A i \in DOMAIN q : q[i] \in S
  OBVIOUS
<1> QED
  BY <1>1 DEF Links!ToSet

LEMMA AppendIn ==
    ASSUME NEW S, NEW q \in Seq(S), NEW x \in S
    PROVE  /\ Append(q, x) \in Seq(S) /\ Links!ToSet(Append(q, x)) = Links!ToSet(q) \cup {x}
           /\ Once(q) /\ x \notin Links!ToSet(q) => Once(Append(q, x))
           /\ 0 \notin Links!ToSet(q) => EndsLast(Append(q, x))
<1> DEFINE r == Append(q, x)
           n == Len(q)
<1>1. /\ r \in Seq(S) /\ DOMAIN r = 1 .. n + 1 /\ Len(r) = n + 1 /\ r[n + 1] = x
      /\ n \in Nat /\ DOMAIN q = 1..n /\ \A i \in 1..n : r[i] = q[i]
  OBVIOUS
<1>2. \A i \in 1 .. n + 1 : i \in 1..n \/ i = n + 1
  BY <1>1
<1>3. \A i \in 1..n : i \in 1 .. n + 1
  BY <1>1
<1>4. n + 1 \in 1 .. n + 1
  BY <1>1
<1> HIDE DEF r, n
<1>5. Links!ToSet(r) = Links!ToSet(q) \cup {x}
  <2>1. ASSUME NEW y \in Links!ToSet(r) PROVE y \in Links!ToSet(q) \cup {x}
    BY <1>1, <1>2 DEF Links!ToSet
  <2>2. ASSUME NEW y \in Links!ToSet(q) PROVE y \in Links!ToSet(r)
    BY <1>1, <1>3 DEF Links!ToSet
  <2>3. x \in Links!ToSet(r)
    BY <1>1, <1>4 DEF Links!ToSet
  <2> QED
    BY <2>1, <2>2, <2>3
<1>6. Once(q) /\ x \notin Links!ToSet(q) => Once(r)
  BY <1>1, <1>2 DEF Once, Links!ToSet
<1>7. 0 \notin Links!ToSet(q) => EndsLast(r)
  BY <1>1, <1>2 DEF EndsLast, Links!ToSet
<1> QED
  BY <1>1, <1>5, <1>6, <1>7 DEF r

LEMMA TailIn ==
    ASSUME NEW S, NEW q \in Seq(S), q # <<>>
    PROVE  /\ Head(q) \in S /\ Tail(q) \in Seq(S)
           /\ Links!ToSet(q) = {Head(q)} \cup Links!ToSet(Tail(q))
           /\ Once(q) => Once(Tail(q)) /\ Head(q) \notin Links!ToSet(Tail(q))
           /\ EndsLast(q) => EndsLast(Tail(q)) /\ (Head(q) = 0 => Links!ToSet(q) = {0})
<1> DEFINE r == Tail(q)
           n == Len(q)
<1>1. /\ r \in Seq(S) /\ DOMAIN r = 1 .. n - 1 /\ Len(r) = n - 1
      /\ Head(q) = q[1] /\ Head(q) \in S
      /\ n \in Nat \ {0} /\ DOMAIN q = 1..n /\ \A i \in 1 .. n - 1 : r[i] = q[i + 1]
  OBVIOUS
<1> HIDE DEF r, n
<1>2. /\ 1 \in 1..n /\ \A i \in 1 .. n - 1 : i + 1 \in 1..n /\ i + 1 # 1
      /\ \A i \in 1..n : i # 1 => i - 1 \in 1 .. n - 1 /\ i = (i - 1) + 1
  BY <1>1
<1>3. \A i \in 1..n : i # 1 => q[i] = r[i - 1]
  BY <1>1, <1>2, Zenon
<1>4. \A i \in 1 .. n - 1 : i + 1 = n => i = n - 1
  BY <1>1
<1>5. n = 1 => \A i \in 1..n : i = 1
  BY <1>1
<1>6. Links!ToSet(q) = {Head(q)} \cup Links!ToSet(r)
  <2>1. ASSUME NEW y \in Links!ToSet(q) PROVE y \in {Head(q)} \cup Links!ToSet(r)
    <3>1. PICK i \in 1..n : y = q[i]
      BY <1>1 DEF Links!ToSet
    <3>2. i # 1 => y = r[i - 1] /\ i - 1 \in DOMAIN r
      BY <1>1, <1>2, <1>3, <3>1
    <3>3. i = 1 => y = Head(q)
      BY <1>1, <3>1
    <3> QED
      BY <3>2, <3>3 DEF Links!ToSet
  <2>2. ASSUME NEW y \in Links!ToSet(r) PROVE y \in Links!ToSet(q)
    BY <1>1, <1>2, SMTT(30) DEF Links!ToSet
  <2>3. Head(q) \in Links!ToSet(q)
    BY <1>1, <1>2 DEF Links!ToSet
  <2> QED
    BY <2>1, <2>2, <2>3
<1>7. Once(q) => Once(r) /\ Head(q) \notin Links!ToSet(r)
  <2> SUFFICES ASSUME Once(q) PROVE Once(r) /\ Head(q) \notin Links!ToSet(r)
    OBVIOUS
  <2>1. ASSUME NEW i \in 1 .. n - 1, NEW j \in 1 .. n - 1, r[i] = r[j]
        PROVE  i = j
    <3>1. i + 1 = j + 1
      BY <1>1, <1>2, <2>1 DEF Once
    <3> QED
      BY <1>1, <3>1
  <2>2. \A i \in 1 .. n - 1 : r[i] # q[1]
    BY <1>1, <1>2 DEF Once
  <2> QED
    BY <1>1, <2>1, <2>2 DEF Once, Links!ToSet
<1>8. EndsLast(q) => EndsLast(r)
  <2> SUFFICES ASSUME EndsLast(q), NEW i \in 1 .. n - 1, r[i] = 0
               PROVE  i = n - 1
    BY <1>1 DEF EndsLast
  <2>1. i + 1 = n
    BY <1>1, <1>2 DEF EndsLast, n
  <2> QED
    BY <1>4, <2>1
<1>9. EndsLast(q) /\ Head(q) = 0 => Links!ToSet(q) = {0}
  <2>1. EndsLast(q) /\ Head(q) = 0 => n = 1
    BY <1>1, <1>2 DEF EndsLast, n
  <2> QED
    BY <1>1, <1>2, <1>5, <2>1 DEF Links!ToSet
<1> QED
  BY <1>1, <1>6, <1>7, <1>8, <1>9 DEF r

LEMMA ReplaceIn ==
    ASSUME NEW S, NEW q \in Seq(S), NEW k \in DOMAIN q, NEW x \in S
    PROVE  LET r == [q EXCEPT ![k] = x] IN
           /\ r \in Seq(S) /\ DOMAIN r = DOMAIN q /\ r[k] = x
           /\ \A i \in DOMAIN q \ {k} : r[i] = q[i]
  OBVIOUS

LEMMA MapIn ==
    ASSUME NEW S, NEW q \in Seq(S), NEW f \in [DOMAIN q -> S]
    PROVE  f \in Seq(S)
<1>1. Len(q) \in Nat /\ f \in [1..Len(q) -> S]
  OBVIOUS
<1> QED
  BY <1>1

-----------------------------------------------------------------------------
LEMMA InitLinked ==
    ASSUME Links!LinksAssumption, Links!Init
    PROVE  Linked
<1>1. /\ streams = <<>> /\ DOMAIN streams = {} /\ streams \in Seq(Streams)
      /\ \A c \in Clients : buffer[c] = <<>> /\ source[c].lines = 0 /\ Links!Stream(c) = 0
      /\ \A c \in Clients, n \in 1..Load : out[<<c, n>>] = 0
      /\ server = "serving" /\ Load \in Nat
  BY DEF Links!Init, Links!Stream, Links!Observations, Links!LinksAssumption
<1>2. LinkTypes
  <2>1. /\ \A c \in Clients : <<>> \in Seq(1..Load)
        /\ 0 \in Nat /\ 0 \in 0..Load
    BY <1>1
  <2> QED
    BY <1>1, <2>1 DEF Links!Init, LinkTypes, Links!LinksAssumption
<1>3. Fresh /\ Kept
  BY <1>1, NothingIn DEF Fresh, Kept, Unsent
<1> QED
  BY <1>1, <1>2, <1>3 DEF Linked, Owned, Carried, Finished, Apart,
                         Links!NoHandlerOutlivesIngest

USE DEF Linked

\* The parts of the invariant look at what they need only.
LEMMA OtherCarries ==
    ASSUME NEW s \in DOMAIN streams, Carries(s),
           streams'[s] = streams[s], UNCHANGED out, lost \subseteq lost'
    PROVE  Carries(s)'
  BY DEF Carries

LEMMA OtherFinishes ==
    ASSUME NEW s \in DOMAIN streams, Finishes(s),
           streams'[s] = streams[s], UNCHANGED <<client, out>>
    PROVE  Finishes(s)'
  BY DEF Finishes, Over, Links!Stream

LEMMA StreamTypes ==
    ASSUME Links!LinksAssumption, Linked, NEW s \in DOMAIN streams
    PROVE  /\ streams[s].owner \in Clients /\ streams[s].wire \in Seq(0..Load)
           /\ streams[s].sent \subseteq 1..Load /\ streams[s].held \in 0..Load
           /\ streams[s].broken \in BOOLEAN
           /\ streams[s].handler \in {"live", "summary", "error"}
           /\ streams[s] \in Streams
<1>1. streams[s] \in Streams
  BY DEF LinkTypes
<1> QED
  BY <1>1 DEF Streams

-----------------------------------------------------------------------------
(* The steps of a client that leave its buffer and the streams alone *)

LEMMA ClientMoves ==
    ASSUME Links!LinksAssumption, Linked, NEW c \in Clients, NEW a, NEW s,
           UNCHANGED <<source, buffer, streams, server, out, lost>>,
           client' = [client EXCEPT ![c].at = a, ![c].stream = s],
           \/ s = 0 /\ a \in {"sending", "backoff", "done", "failed"}
              /\ (Links!Stream(c) = 0 \/ client[c].at \in {"sending", "backoff"})
           \/ s = Links!Stream(c) /\ a \in {"done", "failed"}
              /\ (a = "done" => streams[s].handler = "summary")
    PROVE  Linked'
<1>1. /\ client' \in [Clients -> [at : {"sending", "backoff", "closing", "done", "failed"},
                                   stream : Nat, expired : BOOLEAN]]
      /\ client'[c].at = a /\ client'[c].stream = s
      /\ \A d \in Clients \ {c} : client'[d] = client[d]
  <2>1. /\ client[c] \in [at : {"sending", "backoff", "closing", "done", "failed"},
                           stream : Nat, expired : BOOLEAN]
        /\ DOMAIN client = Clients
    BY DEF LinkTypes
  <2>2. s \in Nat /\ a \in {"sending", "backoff", "closing", "done", "failed"}
    BY <2>1 DEF Links!Stream
  <2>3. [client[c] EXCEPT !.at = a, !.stream = s]
          \in [at : {"sending", "backoff", "closing", "done", "failed"},
              stream : Nat, expired : BOOLEAN]
    BY <2>1, <2>2
  <2>4. client' = [client EXCEPT ![c] = [client[c] EXCEPT !.at = a, !.stream = s]]
    BY <2>1
  <2> QED
    BY <2>1, <2>3, <2>4 DEF LinkTypes
<1>2. LinkTypes'
  BY <1>1 DEF LinkTypes
<1>3. Owned'
  BY <1>1 DEF Owned, Links!Stream
<1>4. Fresh' /\ Apart' /\ Kept' /\ Links!NoHandlerOutlivesIngest'
  BY DEF Fresh, Unsent, Apart, Kept, Links!NoHandlerOutlivesIngest, Links!Live
<1>5. Carried'
  BY OtherCarries DEF Carried
<1>6. ASSUME NEW t \in DOMAIN streams
      PROVE  Finishes(t)'
  <2>1. Finishes(t) /\ streams[t].owner \in Clients /\ t # 0
    BY StreamTypes DEF Finished, LinkTypes
  <2>2. Over(t) => client'[streams[t].owner].stream = t
                   /\ client'[streams[t].owner].at \in {"closing", "done", "failed"}
    BY <1>1, <2>1 DEF Finishes, Links!Stream
  <2> QED
    BY <2>1, <2>2 DEF Finishes, Over, Links!Stream
<1>7. \A d \in Clients : client'[d].at = "done" /\ client'[d].stream # 0 =>
         streams[client'[d].stream].handler = "summary"
  BY <1>1 DEF Finished, Links!Stream
<1> QED
  BY <1>2, <1>3, <1>4, <1>5, <1>6, <1>7 DEF Finished, Links!Stream

LEMMA ForwardSteps ==
    ASSUME Links!LinksAssumption, Linked, NEW c \in Clients,
           \/ Links!OpenFails(c) \/ Links!BackoffEnds(c) \/ Links!SendFails(c) \/ Links!CloseRecv(c)
           \/ (Links!CloseSend(c) /\ Links!Stream(c) = 0)
    PROVE  Linked'
<1>1. CASE Links!OpenFails(c)
  BY <1>1, ClientMoves DEF Links!OpenFails, Links!Set, Links!ServerSame
<1>2. CASE Links!BackoffEnds(c)
  BY <1>2, ClientMoves DEF Links!BackoffEnds, Links!Set, Links!ServerSame
<1>3. CASE Links!SendFails(c)
  BY <1>3, ClientMoves DEF Links!SendFails, Links!Set, Links!ServerSame, Links!Retried, Links!Ready
<1>4. CASE Links!CloseRecv(c)
  BY <1>4, ClientMoves DEF Links!CloseRecv, Links!Set, Links!ServerSame
<1>5. CASE Links!CloseSend(c) /\ Links!Stream(c) = 0
  BY <1>5, ClientMoves DEF Links!CloseSend, Links!Set, Links!ServerSame
<1> QED
  BY <1>1, <1>2, <1>3, <1>4, <1>5

\* Its reader ends.
LEMMA IngestEndsStep ==
    ASSUME Links!LinksAssumption, Linked, NEW c \in Clients, Links!IngestEnds(c)
    PROVE  Linked'
<1>1. /\ UNCHANGED <<buffer, client, streams, server, out, lost>>
      /\ \E e \in {"closed", "failed"} : source' = [source EXCEPT ![c].end = e]
  BY DEF Links!IngestEnds
<1>2. /\ source' \in [Clients -> [kind : Kinds, lines : 0..Load,
                                   end : {"reading", "closed", "failed"}]]
      /\ \A d \in Clients : source'[d].lines = source[d].lines
  <2>1. PICK e \in {"closed", "failed"} : source' = [source EXCEPT ![c].end = e]
    BY <1>1
  <2> QED
    BY <2>1, ZenonT(30) DEF LinkTypes
<1>3. LinkTypes' /\ Owned' /\ Apart' /\ Links!NoHandlerOutlivesIngest'
  BY <1>1, <1>2 DEF LinkTypes, Owned, Links!Stream, Apart, Links!NoHandlerOutlivesIngest, Links!Live
<1>4. Fresh' /\ Kept'
  BY <1>1, <1>2 DEF Fresh, Unsent, Kept
<1>5. Carried' /\ Finished'
  BY <1>1, OtherCarries, OtherFinishes DEF Carried, Finished, Links!Stream
<1> QED
  BY <1>3, <1>4, <1>5

\* A line is read, and kept or skipped.
LEMMA ReadLineStep ==
    ASSUME Links!LinksAssumption, Linked, NEW c \in Clients, NEW skips, Links!ReadLine(c, skips)
    PROVE  Linked'
<1> DEFINE n == source[c].lines + 1
<1>1. /\ source' = [source EXCEPT ![c].lines = @ + 1] /\ n \in 1..Load
      /\ UNCHANGED <<client, streams, server, out>>
      /\ \/ buffer' = [buffer EXCEPT ![c] = Append(@, n)] /\ lost' = lost
         \/ lost' = lost \cup {<<c, n>>} /\ buffer' = buffer
  BY DEF Links!ReadLine, LinkTypes, Links!LinksAssumption
<1>2. /\ source' \in [Clients -> [kind : Kinds, lines : 0..Load,
                                   end : {"reading", "closed", "failed"}]]
      /\ source'[c].lines = n
      /\ \A d \in Clients \ {c} : source'[d].lines = source[d].lines
      /\ source[c].lines \in Nat /\ Load \in Nat
  <2>1. /\ source[c] \in [kind : Kinds, lines : 0..Load,
                           end : {"reading", "closed", "failed"}]
        /\ DOMAIN source = Clients /\ Load \in Nat
    BY DEF LinkTypes, Links!LinksAssumption
  <2>2. n \in 0..Load
    BY <1>1, <2>1
  <2>3. source' = [source EXCEPT ![c] = [source[c] EXCEPT !.lines = n]]
    BY <1>1, <2>1
  <2> HIDE DEF n
  <2>4. [source[c] EXCEPT !.lines = n] \in [kind : Kinds, lines : 0..Load,
                                            end : {"reading", "closed", "failed"}]
    BY <2>1, <2>2
  <2> QED
    BY <2>1, <2>3, <2>4 DEF LinkTypes
<1> HIDE DEF n
<1>3. /\ buffer' \in [Clients -> Seq(1..Load)]
      /\ \A d \in Clients \ {c} : buffer'[d] = buffer[d]
      /\ \/ buffer'[c] = buffer[c] /\ <<c, n>> \in lost'
         \/ buffer'[c] = Append(buffer[c], n)
      /\ lost \subseteq lost'
  <2>1. buffer[c] \in Seq(1..Load) /\ Append(buffer[c], n) \in Seq(1..Load)
    BY <1>1, AppendIn DEF LinkTypes
  <2> QED
    BY <1>1, <2>1 DEF LinkTypes
<1>4. source[c].lines < n /\ \A m \in 1..Load : m <= n <=> m <= source[c].lines \/ m = n
  BY <1>2 DEF n
<1>5. /\ Once(buffer[c]) /\ n \notin Links!ToSet(buffer[c]) /\ Unsent(c, n)
  <2>1. \A m \in Links!ToSet(buffer[c]) : m \in 1..Load /\ m <= source[c].lines
    BY AllIn DEF Fresh, LinkTypes
  <2>2. n \notin Links!ToSet(buffer[c])
    BY <1>2, <1>4, <2>1
  <2>3. n > source[c].lines
    BY <1>1, <1>2, <1>4
  <2> QED
    BY <1>1, <2>2, <2>3 DEF Fresh
<1>6. /\ Once(buffer'[c])
      /\ Links!ToSet(buffer'[c]) = Links!ToSet(buffer[c])
         \/ Links!ToSet(buffer'[c]) = Links!ToSet(buffer[c]) \cup {n}
      /\ n \in Links!ToSet(buffer'[c]) \/ <<c, n>> \in lost'
  <2>1. buffer[c] \in Seq(1..Load)
    BY DEF LinkTypes
  <2>2. /\ Once(Append(buffer[c], n))
        /\ Links!ToSet(Append(buffer[c], n)) = Links!ToSet(buffer[c]) \cup {n}
    <3> DEFINE Lines == 1..Load
    <3>1. n \in Lines /\ buffer[c] \in Seq(Lines)
      BY <1>1, <2>1
    <3> HIDE DEF Lines
    <3> QED
      BY <1>5, <3>1, AppendIn
  <2> QED
    BY <1>3, <1>5, <2>2
<1>7. LinkTypes'
  BY <1>1, <1>2, <1>3 DEF LinkTypes
<1>8. Owned' /\ Apart' /\ Links!NoHandlerOutlivesIngest'
  BY <1>1 DEF Owned, Links!Stream, Apart, Links!NoHandlerOutlivesIngest, Links!Live
<1>9. Fresh'
  <2>1. \A d \in Clients : \A m : Unsent(d, m)' <=> Unsent(d, m)
    BY <1>1 DEF Unsent
  <2>2. \A m \in Links!ToSet(buffer[c]) : m \in 1..Load /\ m <= n /\ Unsent(c, m)
    <3>1. Links!ToSet(buffer[c]) \subseteq 1..Load
      BY AllIn DEF LinkTypes
    <3> QED
      BY <1>4, <3>1 DEF Fresh
  <2>3. \A m \in 1..Load : m > n => Unsent(c, m)
    BY <1>2, <1>4 DEF Fresh
  <2>4. n <= n
    BY <1>1
  <2>5. \A d \in Clients \ {c} :
          /\ Once(buffer'[d])
          /\ \A m \in Links!ToSet(buffer'[d]) : m <= source'[d].lines /\ Unsent(d, m)
          /\ \A m \in 1..Load : m > source'[d].lines => Unsent(d, m)
    BY <1>2, <1>3 DEF Fresh
  <2>6. /\ Once(buffer'[c])
        /\ \A m \in Links!ToSet(buffer'[c]) : m <= n /\ Unsent(c, m)
    BY <1>5, <1>6, <2>2, <2>4
  <2> QED
    BY <1>2, <2>1, <2>3, <2>5, <2>6 DEF Fresh
<1>10. Carried' /\ Finished'
  BY <1>1, <1>3, OtherCarries, OtherFinishes DEF Carried, Finished, Links!Stream
<1>11. Kept'
  <2> SUFFICES ASSUME NEW d \in Clients, NEW m \in 1..Load, m <= source'[d].lines
               PROVE  \/ <<d, m>> \in lost' \/ m \in Links!ToSet(buffer'[d])
                      \/ \E s \in DOMAIN streams :
                           streams[s].owner = d /\ m \in streams[s].sent
    BY <1>1 DEF Kept
  <2>1. CASE d = c /\ m = n
    BY <1>6, <2>1
  <2>2. CASE ~(d = c /\ m = n)
    <3>1. m <= source[d].lines
      BY <1>2, <1>4, <2>2
    <3>2. Links!ToSet(buffer[d]) \subseteq Links!ToSet(buffer'[d])
      BY <1>3, <1>6
    <3> QED
      BY <1>3, <3>1, <3>2 DEF Kept
  <2> QED
    BY <2>1, <2>2
<1> QED
  BY <1>7, <1>8, <1>9, <1>10, <1>11

-----------------------------------------------------------------------------
(* The steps that change one stream, or break several *)

\* Streams break, of clients whose context may end, with a server that stops or
\* not.
LEMMA SeveredStep ==
    ASSUME Links!LinksAssumption, Linked, NEW ss, Links!Severed(ss),
           UNCHANGED <<source, buffer, out>>,
           client' \in [Clients -> [at : {"sending", "backoff", "closing", "done", "failed"},
                                     stream : Nat, expired : BOOLEAN]],
           \A c \in Clients : /\ client'[c].at = client[c].at
                              /\ client'[c].stream = client[c].stream,
           server' \in {server, "forced"}
    PROVE  Linked'
<1> DEFINE broke(s) == [streams[s] EXCEPT !.wire = <<>>, !.broken = TRUE]
<1>1. \A s \in DOMAIN streams :
        /\ broke(s) \in Streams
        /\ broke(s).owner = streams[s].owner /\ broke(s).sent = streams[s].sent
        /\ broke(s).held = streams[s].held /\ broke(s).wire = <<>>
        /\ broke(s).handler = streams[s].handler /\ broke(s).broken = TRUE
  <2>1. <<>> \in Seq(0..Load)
    OBVIOUS
  <2> QED
    BY <2>1, StreamTypes DEF Streams
<1> HIDE DEF broke
<1>2. /\ streams' = [s \in DOMAIN streams |-> IF s \in ss THEN broke(s) ELSE streams[s]]
      /\ lost' = lost \cup UNION {Links!OnWire(streams[s].owner, streams[s]) : s \in ss}
  BY DEF Links!Severed, broke
<1>3. /\ streams' \in Seq(Streams) /\ DOMAIN streams' = DOMAIN streams
      /\ lost \subseteq lost'
      /\ \A s \in DOMAIN streams : streams'[s] = IF s \in ss THEN broke(s) ELSE streams[s]
  <2>1. [s \in DOMAIN streams |-> IF s \in ss THEN broke(s) ELSE streams[s]] \in Seq(Streams)
    <3>1. [s \in DOMAIN streams |-> IF s \in ss THEN broke(s) ELSE streams[s]]
            \in [DOMAIN streams -> Streams]
      BY <1>1, StreamTypes
    <3> QED
      BY <3>1, MapIn DEF LinkTypes
  <2> QED
    BY <1>2, <2>1
<1>4. \A s \in DOMAIN streams :
        /\ streams'[s].owner = streams[s].owner /\ streams'[s].sent = streams[s].sent
        /\ streams'[s].held = streams[s].held
        /\ streams'[s].handler = streams[s].handler
  BY <1>1, <1>3
<1>5. LinkTypes'
  BY <1>3 DEF LinkTypes
<1>6. Owned' /\ Apart' /\ Kept' /\ Fresh'
  <2>1. Owned'
    BY <1>3, <1>4 DEF Owned, Links!Stream
  <2>2. Apart'
    BY <1>3, <1>4 DEF Apart
  <2>3. Kept'
    BY <1>3, <1>4 DEF Kept
  <2>4. \A c \in Clients : \A n : Unsent(c, n) => Unsent(c, n)'
    BY <1>3, <1>4 DEF Unsent
  <2>5. Fresh'
    BY <2>4 DEF Fresh
  <2> QED
    BY <2>1, <2>2, <2>3, <2>5
<1>7. Links!NoHandlerOutlivesIngest'
  BY <1>3, <1>4 DEF Links!NoHandlerOutlivesIngest, Links!Live
<1>8. Carried'
  <2> SUFFICES ASSUME NEW s \in DOMAIN streams PROVE Carries(s)'
    BY <1>3 DEF Carried
  <2>1. CASE s \notin ss
    BY <1>3, <2>1, OtherCarries DEF Carried
  <2>2. CASE s \in ss
    <3>1. /\ streams'[s].wire = <<>> /\ streams'[s].broken
          /\ Links!OnWire(streams[s].owner, streams[s]) \subseteq lost'
      BY <1>1, <1>2, <1>3, <2>2
    <3>2. \A n \in Links!ToSet(streams[s].wire) \ {0} : <<streams[s].owner, n>> \in lost'
      BY <3>1 DEF Links!OnWire
    <3>3. 0 \notin streams[s].sent
      BY StreamTypes
    <3> QED
      BY <1>3, <1>4, <3>1, <3>2, <3>3, NothingIn DEF Carried, Carries
  <2> QED
    BY <2>1, <2>2
<1>9. Finished'
  <2>1. ASSUME NEW s \in DOMAIN streams
        PROVE  Finishes(s)'
    <3>1. Over(s)' => Over(s)
      BY <1>1, <1>3, <1>4, NothingIn DEF Over
    <3>2. streams[s].owner \in Clients /\ Finishes(s)
      BY StreamTypes DEF Finished
    <3>3. /\ Links!ToSet(streams'[s].wire) = {} \/ streams'[s].wire = streams[s].wire
          /\ EndsLast(streams'[s].wire)
          /\ streams'[s].broken => Links!ToSet(streams'[s].wire) = {}
      BY <1>1, <1>3, <3>2, NothingIn DEF Finishes
    <3> QED
      BY <1>4, <3>1, <3>2, <3>3 DEF Finishes, Links!Stream
  <2>2. \A c \in Clients : Links!Stream(c) # 0 => Links!Stream(c) \in DOMAIN streams
    BY DEF Owned
  <2> QED
    BY <1>3, <1>4, <2>1, <2>2 DEF Finished, Links!Stream
<1> QED
  BY <1>5, <1>6, <1>7, <1>8, <1>9

LEMMA BreakSteps ==
    ASSUME Links!LinksAssumption, Linked,
           \/ (\E c \in Clients : Links!Expire(c)) \/ (\E s \in DOMAIN streams : Links!Break(s))
           \/ Links!ForceStop
    PROVE  Linked'
<1>1. ASSUME NEW c \in Clients, Links!Expire(c)
      PROVE  Linked'
  <2>1. /\ client' = [client EXCEPT ![c].expired = TRUE] /\ Links!Severed({Links!Stream(c)} \ {0})
        /\ UNCHANGED <<source, buffer, out, server>>
    BY <1>1 DEF Links!Expire, Links!ServerSame
  <2>2. /\ client' \in [Clients -> [at : {"sending", "backoff", "closing", "done", "failed"},
                                     stream : Nat, expired : BOOLEAN]]
        /\ \A d \in Clients : /\ client'[d].at = client[d].at
                              /\ client'[d].stream = client[d].stream
    BY <2>1 DEF LinkTypes
  <2> QED
    BY <2>1, <2>2, SeveredStep
<1>2. ASSUME NEW s \in DOMAIN streams, Links!Break(s)
      PROVE  Linked'
  BY <1>2, SeveredStep DEF Links!Break, Links!ClientsSame, LinkTypes
<1>3. ASSUME Links!ForceStop
      PROVE  Linked'
  BY <1>3, SeveredStep DEF Links!ForceStop, Links!ClientsSame, LinkTypes
<1> QED
  BY <1>1, <1>2, <1>3

\* The server is told to stop, and returns when no handler runs.
LEMMA ServerSteps ==
    ASSUME Links!LinksAssumption, Linked, Links!Cancel \/ Links!IngestReturns
    PROVE  Linked'
<1>1. /\ UNCHANGED <<source, buffer, client, streams, out, lost>>
      /\ server' = "draining" \/ (server' = "returned" /\ Links!Live = {})
  BY DEF Links!Cancel, Links!IngestReturns, Links!Drained, Links!ClientsSame
<1>2. LinkTypes' /\ Owned' /\ Apart' /\ Kept' /\ Links!NoHandlerOutlivesIngest'
  <2>1. LinkTypes'
    BY <1>1 DEF LinkTypes
  <2>2. Owned' /\ Apart'
    BY <1>1 DEF Owned, Links!Stream, Apart
  <2>3. Kept'
    BY <1>1 DEF Kept, Links!Stream
  <2>4. Links!NoHandlerOutlivesIngest'
    BY <1>1 DEF Links!NoHandlerOutlivesIngest, Links!Live
  <2> QED
    BY <2>1, <2>2, <2>3, <2>4
<1>3. Fresh'
  BY <1>1 DEF Fresh, Unsent
<1>4. Carried' /\ Finished'
  BY <1>1, OtherCarries, OtherFinishes DEF Carried, Finished, Links!Stream
<1> QED
  BY <1>2, <1>3, <1>4

\* A handler takes from the wire of its stream, hands over what it holds, or
\* ends: what the stream was given to send stays the same.
LEMMA HandlerMoves ==
    ASSUME Links!LinksAssumption, Linked, NEW s \in DOMAIN streams, NEW r \in Streams,
           streams' = [streams EXCEPT ![s] = r],
           r.owner = streams[s].owner, r.sent = streams[s].sent,
           r.handler = "live" => streams[s].handler = "live",
           streams[s].handler = "summary" => r.handler = "summary",
           UNCHANGED <<source, buffer, client, server>>, lost \subseteq lost',
           out' \in [Links!Observations -> {0, 1}],
           \A o \in Links!Observations :
              out'[o] = out[o] \/ (streams[s].held # 0 /\ o = <<r.owner, streams[s].held>>),
           Carries(s)', Finishes(s)'
    PROVE  Linked'
<1>1. /\ streams' \in Seq(Streams) /\ DOMAIN streams' = DOMAIN streams
      /\ streams'[s] = r
      /\ \A t \in DOMAIN streams \ {s} : streams'[t] = streams[t]
  BY ReplaceIn DEF LinkTypes
<1>2. \A t \in DOMAIN streams : /\ streams'[t].owner = streams[t].owner
                                /\ streams'[t].sent = streams[t].sent
  BY <1>1
<1>3. LinkTypes'
  BY <1>1 DEF LinkTypes
<1>4. Owned' /\ Apart'
  BY <1>1, <1>2 DEF Owned, Links!Stream, Apart
<1>5. Kept'
  BY <1>1, <1>2 DEF Kept
<1>6. streams[s].held # 0 => streams[s].held \in streams[s].sent
  BY DEF Carried, Carries
<1>7. Fresh'
  <2>1. ASSUME NEW c \in Clients, NEW n \in 1..Load, Unsent(c, n)
        PROVE  Unsent(c, n)'
    <3>1. <<c, n>> \in Links!Observations
      BY DEF Links!Observations
    <3>2. ~(streams[s].held # 0 /\ <<c, n>> = <<r.owner, streams[s].held>>)
      BY <1>6, <2>1 DEF Unsent
    <3>3. out'[<<c, n>>] = 0
      BY <2>1, <3>1, <3>2 DEF Unsent
    <3> QED
      BY <1>1, <1>2, <2>1, <3>3 DEF Unsent
  <2>2. \A c \in Clients : Links!ToSet(buffer[c]) \subseteq 1..Load
    BY AllIn DEF LinkTypes
  <2> QED
    BY <2>1, <2>2 DEF Fresh
<1>8. ASSUME NEW t \in DOMAIN streams, t # s
      PROVE  Carries(t)' /\ Finishes(t)'
  <2>1. \A n \in streams[t].sent : /\ <<streams[t].owner, n>> \in Links!Observations
                                   /\ n \in 1..Load
    BY StreamTypes DEF Links!Observations
  <2>2. ASSUME NEW n \in streams[t].sent
        PROVE  out'[<<streams[t].owner, n>>] = out[<<streams[t].owner, n>>]
    <3>1. ~(streams[s].held # 0 /\ <<streams[t].owner, n>> = <<r.owner, streams[s].held>>)
      BY <1>6, <1>8 DEF Apart
    <3> QED
      BY <2>1, <3>1
  <2>3. Carries(t) /\ Finishes(t) /\ streams'[t] = streams[t]
    BY <1>1, <1>8 DEF Carried, Finished
  <2>4. Carries(t)'
    BY <2>2, <2>3 DEF Carries
  <2>5. Finishes(t)'
    BY <2>2, <2>3 DEF Finishes, Over, Links!Stream
  <2> QED
    BY <2>4, <2>5
<1>9. Carried' /\ Finished'
  <2>1. \A c \in Clients : Links!Stream(c) # 0 => Links!Stream(c) \in DOMAIN streams
    BY DEF Owned
  <2>2. \A c \in Clients : client'[c].at = "done" /\ Links!Stream(c) # 0 =>
          streams'[Links!Stream(c)].handler = "summary"
    BY <1>1, <2>1 DEF Finished
  <2>3. \A t \in DOMAIN streams : Carries(t)' /\ Finishes(t)'
    BY <1>8
  <2> QED
    BY <1>1, <2>2, <2>3 DEF Carried, Finished, Links!Stream
<1>10. Links!NoHandlerOutlivesIngest'
  BY <1>1 DEF Links!NoHandlerOutlivesIngest, Links!Live
<1> QED
  BY <1>3, <1>4, <1>5, <1>7, <1>9, <1>10

\* The next observation, the end of the stream, or its error.
LEMMA RecvStep ==
    ASSUME Links!LinksAssumption, Linked, NEW s \in DOMAIN streams, Links!Recv(s)
    PROVE  Linked'
<1> DEFINE wire == streams[s].wire
           gets == [streams[s] EXCEPT !.held = Head(wire), !.wire = Tail(wire)]
           summed == [streams[s] EXCEPT !.handler = "summary", !.wire = <<>>]
           failed == [streams[s] EXCEPT !.handler = "error"]
<1>1. /\ streams[s].handler = "live" /\ streams[s].held = 0
      /\ UNCHANGED <<source, buffer, client, out, lost, server>>
      /\ \/ /\ wire # <<>>
            /\ \/ Head(wire) = 0 /\ streams' = [streams EXCEPT ![s] = summed]
               \/ Head(wire) # 0 /\ streams' = [streams EXCEPT ![s] = gets]
         \/ streams' = [streams EXCEPT ![s] = failed]
  BY StreamTypes DEF Links!Recv, Links!ClientsSame, LinkTypes
<1>2. /\ streams[s] \in Streams /\ wire \in Seq(0..Load) /\ <<>> \in Seq(0..Load)
      /\ Carries(s) /\ Finishes(s)
      /\ DOMAIN streams' = DOMAIN streams
      /\ out \in [Links!Observations -> {0, 1}]
  BY <1>1, StreamTypes DEF Carried, Finished, LinkTypes
<1>3. CASE wire # <<>> /\ Head(wire) = 0 /\ streams' = [streams EXCEPT ![s] = summed]
  <2>1. Links!ToSet(wire) = {0}
    <3> DEFINE Symbols == 0..Load
    <3>1. wire \in Seq(Symbols)
      BY <1>2
    <3> HIDE DEF Symbols, wire
    <3> QED
      BY <1>3, <3>1, <1>2, TailIn DEF Finishes, wire
  <2>2. /\ summed \in Streams /\ streams'[s] = summed
        /\ summed.owner = streams[s].owner /\ summed.sent = streams[s].sent
        /\ summed.held = 0 /\ summed.wire = <<>> /\ summed.handler = "summary"
        /\ summed.broken = streams[s].broken
    BY <1>1, <1>2, <1>3 DEF Streams
  <2> HIDE DEF summed
  <2>3. Carries(s)'
    BY <1>1, <1>2, <2>1, <2>2, NothingIn, StreamTypes DEF Carries
  <2>4. Finishes(s)'
    <3>1. Over(s)
      BY <2>1 DEF Over
    <3>2. \A n \in streams[s].sent :
            out[<<streams[s].owner, n>>] = 1
            \/ (streams[s].broken /\ <<streams[s].owner, n>> \in lost)
      BY <1>1, <1>2, <2>1, StreamTypes DEF Carries
    <3>3. ~streams[s].broken
      BY <1>2, <2>1 DEF Finishes
    <3> QED
      BY <1>1, <1>2, <2>2, <3>1, <3>2, <3>3, NothingIn DEF Finishes, Links!Stream
  <2> QED
    BY <1>1, <1>2, <1>3, <2>2, <2>3, <2>4, HandlerMoves
<1>4. CASE wire # <<>> /\ Head(wire) # 0 /\ streams' = [streams EXCEPT ![s] = gets]
  <2>1. /\ Head(wire) \in 0..Load /\ Tail(wire) \in Seq(0..Load)
        /\ Links!ToSet(wire) = {Head(wire)} \cup Links!ToSet(Tail(wire))
        /\ Once(Tail(wire)) /\ Head(wire) \notin Links!ToSet(Tail(wire))
        /\ EndsLast(Tail(wire))
    <3> DEFINE Symbols == 0..Load
    <3>1. wire \in Seq(Symbols) /\ Once(wire) /\ EndsLast(wire)
      BY <1>2 DEF Carries, Finishes
    <3> HIDE DEF Symbols, wire
    <3>2. Head(wire) \in Symbols /\ Tail(wire) \in Seq(Symbols)
      BY <1>4, <3>1, TailIn
    <3> QED
      BY <1>4, <3>1, <3>2, TailIn DEF Symbols
  <2>2. /\ gets \in Streams /\ streams'[s] = gets
        /\ gets.owner = streams[s].owner /\ gets.sent = streams[s].sent
        /\ gets.held = Head(wire) /\ gets.wire = Tail(wire)
        /\ gets.handler = streams[s].handler /\ gets.broken = streams[s].broken
    BY <1>1, <1>2, <1>4, <2>1 DEF Streams
  <2> HIDE DEF gets, wire
  <2>3. Links!ToSet(streams[s].wire) = {Head(wire)} \cup Links!ToSet(Tail(wire))
    BY <2>1 DEF wire
  <2>4. Carries(s)'
    <3>1. /\ Head(wire) \in streams[s].sent
          /\ out[<<streams[s].owner, Head(wire)>>] = 0
      BY <1>2, <1>4, <2>3 DEF Carries
    <3>2. \A n \in Links!ToSet(Tail(wire)) \ {0} :
            /\ n \in streams[s].sent /\ n # Head(wire)
            /\ out[<<streams[s].owner, n>>] = 0
      BY <1>2, <2>1, <2>3 DEF Carries
    <3>3. 0 \notin streams[s].sent
      BY StreamTypes
    <3>4. \A n \in streams[s].sent :
            \/ n = Head(wire) \/ n \in Links!ToSet(Tail(wire))
            \/ out[<<streams[s].owner, n>>] = 1
            \/ (streams[s].broken /\ <<streams[s].owner, n>> \in lost)
      BY <1>1, <1>2, <2>3, <3>3 DEF Carries
    <3> QED
      BY <1>1, <2>1, <2>2, <3>1, <3>2, <3>4 DEF Carries
  <2>5. Finishes(s)'
    BY <1>1, <1>2, <1>4, <2>1, <2>2, <2>3, StreamTypes DEF Finishes, Over, Links!Stream
  <2> QED
    BY <1>1, <1>2, <1>4, <2>2, <2>4, <2>5, HandlerMoves
<1>5. CASE streams' = [streams EXCEPT ![s] = failed]
  <2>1. /\ failed \in Streams /\ streams'[s] = failed
        /\ failed.owner = streams[s].owner /\ failed.sent = streams[s].sent
        /\ failed.held = streams[s].held /\ failed.wire = streams[s].wire
        /\ failed.handler = "error" /\ failed.broken = streams[s].broken
    BY <1>1, <1>2, <1>5 DEF Streams
  <2> HIDE DEF failed
  <2>2. Carries(s)'
    BY <1>1, <1>2, <2>1, StreamTypes DEF Carries
  <2>3. Finishes(s)'
    BY <1>1, <1>2, <2>1, StreamTypes DEF Finishes, Over, Links!Stream
  <2> QED
    BY <1>1, <1>2, <1>5, <2>1, <2>2, <2>3, HandlerMoves
<1> QED
  BY <1>1, <1>3, <1>4, <1>5

\* What the handler holds is handed to the engine, for the first time.
LEMMA DeliverStep ==
    ASSUME Links!LinksAssumption, Linked, NEW s \in DOMAIN streams, Links!Deliver(s)
    PROVE  Linked'
<1> DEFINE o == <<streams[s].owner, streams[s].held>>
           free == [streams[s] EXCEPT !.held = 0]
<1>1. /\ streams[s].held # 0 /\ streams' = [streams EXCEPT ![s] = free]
      /\ out' = [out EXCEPT ![o] = @ + 1]
      /\ UNCHANGED <<source, buffer, client, lost, server>>
      /\ streams[s] \in Streams /\ Carries(s) /\ Finishes(s)
      /\ out \in [Links!Observations -> {0, 1}]
  BY StreamTypes DEF Links!Deliver, Links!ClientsSame, Carried, Finished, LinkTypes
<1>2. o \in Links!Observations /\ out[o] = 0
  BY <1>1, StreamTypes DEF Links!Observations, Carries
<1>3. /\ out' \in [Links!Observations -> {0, 1}] /\ out'[o] = 1
      /\ \A p \in Links!Observations : p # o => out'[p] = out[p]
  BY <1>1, <1>2
<1>4. /\ free \in Streams /\ streams'[s] = free
      /\ free.owner = streams[s].owner /\ free.sent = streams[s].sent
      /\ free.held = 0 /\ free.wire = streams[s].wire
      /\ free.handler = streams[s].handler /\ free.broken = streams[s].broken
  <2>1. 0 \in 0..Load
    BY DEF Links!LinksAssumption
  <2> QED
    BY <1>1, <2>1, StreamTypes DEF Streams
<1>5. \A n \in streams[s].sent :
        /\ <<streams[s].owner, n>> \in Links!Observations
        /\ n # streams[s].held => <<streams[s].owner, n>> # o
        /\ n = streams[s].held => <<streams[s].owner, n>> = o
  BY StreamTypes DEF Links!Observations
<1>6. Links!ToSet(streams[s].wire) \ {0} \subseteq streams[s].sent
  BY <1>1 DEF Carries
<1> HIDE DEF free, o
<1>7. Carries(s)'
  <2>1. \A n \in Links!ToSet(streams[s].wire) \ {0} :
          n \in streams[s].sent /\ n # 0 /\ out'[<<streams[s].owner, n>>] = 0
    BY <1>1, <1>3, <1>5, <1>6 DEF Carries
  <2>2. \A n \in streams[s].sent :
          \/ n \in Links!ToSet(streams[s].wire) \/ out'[<<streams[s].owner, n>>] = 1
          \/ (streams[s].broken /\ <<streams[s].owner, n>> \in lost)
    BY <1>1, <1>3, <1>5 DEF Carries
  <2>3. Once(streams[s].wire)
    BY <1>1 DEF Carries
  <2> QED
    BY <1>1, <1>4, <2>1, <2>2, <2>3 DEF Carries
<1>8. Finishes(s)'
  BY <1>1, <1>3, <1>4, <1>5 DEF Finishes, Over, Links!Stream
<1> QED
  BY <1>1, <1>3, <1>4, <1>7, <1>8, HandlerMoves DEF o

\* It is not, since the context of the stream or of the server ended.
LEMMA AbandonStep ==
    ASSUME Links!LinksAssumption, Linked, NEW s \in DOMAIN streams, Links!Abandon(s)
    PROVE  Linked'
<1> DEFINE gone == [streams[s] EXCEPT !.held = 0, !.wire = <<>>, !.broken = TRUE,
                                      !.handler = "error"]
<1>1. /\ streams[s].held # 0
      /\ streams' = [streams EXCEPT ![s] = gone]
      /\ lost' = lost \cup Links!OnWire(streams[s].owner, streams[s])
                      \cup {<<streams[s].owner, streams[s].held>>}
      /\ UNCHANGED <<source, buffer, client, out, server>>
      /\ streams[s] \in Streams /\ Carries(s) /\ Finishes(s)
      /\ out \in [Links!Observations -> {0, 1}]
  BY StreamTypes DEF Links!Abandon, Links!ClientsSame, Carried, Finished, LinkTypes
<1>2. /\ gone \in Streams /\ streams'[s] = gone
      /\ gone.owner = streams[s].owner /\ gone.sent = streams[s].sent
      /\ gone.held = 0 /\ gone.wire = <<>>
      /\ gone.handler = "error" /\ gone.broken
  <2>1. <<>> \in Seq(0..Load) /\ 0 \in 0..Load
    BY DEF Links!LinksAssumption
  <2> QED
    BY <1>1, <2>1, StreamTypes DEF Streams
<1> HIDE DEF gone
<1>3. \A n \in (Links!ToSet(streams[s].wire) \ {0}) \cup {streams[s].held} :
        <<streams[s].owner, n>> \in lost'
  BY <1>1 DEF Links!OnWire
<1>4. Carries(s)'
  <2>1. 0 \notin streams[s].sent
    BY StreamTypes
  <2> QED
    BY <1>1, <1>2, <1>3, <2>1, NothingIn DEF Carries
<1>5. Finishes(s)'
  BY <1>1, <1>2, NothingIn DEF Finishes, Over, Links!Stream
<1>6. lost \subseteq lost' /\ streams[s].handler # "summary"
  BY <1>1 DEF Finishes
<1> QED
  BY <1>1, <1>2, <1>4, <1>5, <1>6, HandlerMoves

\* The next observation of the buffer is sent, for the first time; a stream that
\* is broken loses it.
LEMMA LinkSendStep ==
    ASSUME Links!LinksAssumption, Linked, NEW c \in Clients, Links!Send(c)
    PROVE  Linked'
<1>0. PICK s \in DOMAIN streams : s = Links!Stream(c) /\ streams[s].owner = c
  BY DEF Links!Send, Owned
<1> DEFINE o == Head(buffer[c])
           w == IF streams[s].broken THEN streams[s].wire ELSE Append(streams[s].wire, o)
           r == [streams[s] EXCEPT !.sent = @ \cup {o}, !.wire = w]
<1>1. /\ client[c].at = "sending" /\ buffer[c] # <<>> /\ s # 0
      /\ streams' = [streams EXCEPT ![s].sent = @ \cup {o}, ![s].wire = w]
      /\ lost' = IF streams[s].broken THEN lost \cup {<<c, o>>} ELSE lost
      /\ buffer' = [buffer EXCEPT ![c] = Tail(@)]
      /\ UNCHANGED <<source, client, out, server>>
  BY <1>0 DEF Links!Send, Links!Ready, Links!ServerSame
<1>2. /\ streams[s].owner = c /\ streams[s] \in Streams
      /\ Carries(s) /\ Finishes(s)
  BY <1>0, StreamTypes DEF Carried, Finished
<1>3. /\ o \in 1..Load /\ Tail(buffer[c]) \in Seq(1..Load)
      /\ Links!ToSet(buffer[c]) = {o} \cup Links!ToSet(Tail(buffer[c]))
      /\ Once(Tail(buffer[c])) /\ o \notin Links!ToSet(Tail(buffer[c]))
  <2> DEFINE Lines == 1..Load
  <2>1. buffer[c] \in Seq(Lines) /\ Once(buffer[c])
    BY DEF LinkTypes, Fresh
  <2> HIDE DEF Lines
  <2>2. /\ o \in Lines /\ Tail(buffer[c]) \in Seq(Lines)
        /\ Links!ToSet(buffer[c]) = {o} \cup Links!ToSet(Tail(buffer[c]))
        /\ Once(Tail(buffer[c])) /\ o \notin Links!ToSet(Tail(buffer[c]))
    BY <1>1, <2>1, TailIn
  <2> QED
    BY <2>2 DEF Lines
<1>4. Unsent(c, o) /\ o \notin streams[s].sent /\ out[<<c, o>>] = 0 /\ o # 0
  BY <1>2, <1>3 DEF Fresh, Unsent
<1>5. ~Over(s)
  BY <1>0, <1>1, <1>2 DEF Finishes
<1>6. /\ w \in Seq(0..Load) /\ Once(w) /\ EndsLast(w)
      /\ Links!ToSet(w) = IF streams[s].broken THEN {} ELSE Links!ToSet(streams[s].wire) \cup {o}
  <2> DEFINE Symbols == 0..Load
  <2>1. streams[s].wire \in Seq(Symbols) /\ o \in Symbols
    BY <1>2, <1>3, StreamTypes DEF Links!LinksAssumption
  <2>2. o \notin Links!ToSet(streams[s].wire) /\ 0 \notin Links!ToSet(streams[s].wire)
    BY <1>2, <1>4, <1>5 DEF Carries, Over
  <2>3. /\ Once(streams[s].wire) /\ EndsLast(streams[s].wire)
        /\ streams[s].broken => Links!ToSet(streams[s].wire) = {}
    BY <1>2 DEF Carries, Finishes
  <2> HIDE DEF Symbols, o
  <2>4. /\ w \in Seq(Symbols) /\ Once(w) /\ EndsLast(w)
        /\ Links!ToSet(w) = IF streams[s].broken THEN {} ELSE Links!ToSet(streams[s].wire) \cup {o}
    <3> DEFINE wire == streams[s].wire
    <3>1. /\ Append(wire, o) \in Seq(Symbols) /\ Once(Append(wire, o))
          /\ EndsLast(Append(wire, o)) /\ Links!ToSet(Append(wire, o)) = Links!ToSet(wire) \cup {o}
      <4> HIDE DEF wire
      <4> QED
        BY <2>1, <2>2, <2>3, AppendIn DEF wire
    <3> QED
      BY <2>1, <2>2, <2>3, <3>1
  <2> QED
    BY <2>4 DEF Symbols
<1> HIDE DEF w, o
<1>7. /\ r \in Streams /\ r.owner = c /\ r.sent = streams[s].sent \cup {o}
      /\ r.wire = w /\ r.held = streams[s].held /\ r.broken = streams[s].broken
      /\ r.handler = streams[s].handler
  BY <1>2, <1>3, <1>6, StreamTypes DEF Streams
<1>8. /\ streams' \in Seq(Streams) /\ DOMAIN streams' = DOMAIN streams
      /\ streams'[s] = r
      /\ \A t \in DOMAIN streams \ {s} : streams'[t] = streams[t]
  <2>1. streams \in Seq(Streams)
    BY DEF LinkTypes
  <2>2. streams' = [streams EXCEPT ![s] = r]
    BY <1>1, <1>2
  <2> HIDE DEF r
  <2> QED
    BY <1>2, <1>7, <2>1, <2>2, ReplaceIn
<1> HIDE DEF r
<1>9. /\ buffer' \in [Clients -> Seq(1..Load)] /\ buffer'[c] = Tail(buffer[c])
      /\ \A d \in Clients \ {c} : buffer'[d] = buffer[d]
  BY <1>1, <1>3 DEF LinkTypes
<1>10. LinkTypes'
  BY <1>1, <1>8, <1>9 DEF LinkTypes
<1>11. \A t \in DOMAIN streams : /\ streams'[t].owner = streams[t].owner
                                 /\ streams'[t].handler = streams[t].handler
                                 /\ streams[t].sent \subseteq streams'[t].sent
  BY <1>2, <1>7, <1>8
<1>12. Owned' /\ Links!NoHandlerOutlivesIngest'
  BY <1>1, <1>8, <1>11 DEF Owned, Links!Stream, Links!NoHandlerOutlivesIngest, Links!Live
<1>13. Apart'
  <2>1. \A t \in DOMAIN streams \ {s} : streams[t].owner = c => o \notin streams[t].sent
    BY <1>4 DEF Unsent
  <2> QED
    BY <1>2, <1>7, <1>8, <2>1 DEF Apart
<1>14. Fresh'
  <2>1. ASSUME NEW d \in Clients, NEW n, Unsent(d, n), d # c \/ n # o
        PROVE  Unsent(d, n)'
    BY <1>1, <1>2, <1>7, <1>8, <2>1 DEF Unsent
  <2>2. o <= source[c].lines /\ \A n \in 1..Load : n > source[c].lines => n # o
    <3>1. o <= source[c].lines /\ o \in Nat /\ source[c].lines \in Nat
      BY <1>3 DEF Fresh, LinkTypes, Links!LinksAssumption
    <3> QED
      BY <3>1
  <2>3. /\ Once(buffer'[c])
        /\ \A n \in Links!ToSet(buffer'[c]) : n <= source[c].lines /\ Unsent(c, n)'
        /\ \A n \in 1..Load : n > source[c].lines => Unsent(c, n)'
    BY <1>3, <1>9, <2>1, <2>2 DEF Fresh
  <2>4. ASSUME NEW d \in Clients \ {c}
        PROVE  /\ Once(buffer'[d])
               /\ \A n \in Links!ToSet(buffer'[d]) : n <= source[d].lines /\ Unsent(d, n)'
               /\ \A n \in 1..Load : n > source[d].lines => Unsent(d, n)'
    BY <1>9, <2>1 DEF Fresh
  <2> QED
    BY <1>1, <2>3, <2>4 DEF Fresh
<1>15. lost \subseteq lost' /\ (streams[s].broken => <<c, o>> \in lost')
  BY <1>1
<1>16. Carried'
  <2>1. Carries(s)'
    <3>1. \A n \in Links!ToSet(w) \ {0} : /\ n \in r.sent /\ n # r.held
                                    /\ out[<<c, n>>] = 0
      <4>1. o # streams[s].held
        BY <1>2, <1>4 DEF Carries
      <4> QED
        BY <1>2, <1>4, <1>6, <1>7, <4>1 DEF Carries
    <3>2. \A n \in r.sent : \/ n = r.held \/ n \in Links!ToSet(w) \/ out[<<c, n>>] = 1
                           \/ (r.broken /\ <<c, n>> \in lost')
      <4>1. streams[s].broken => Links!ToSet(streams[s].wire) = {}
        BY <1>2 DEF Finishes
      <4> QED
        BY <1>2, <1>6, <1>7, <1>15, <4>1 DEF Carries
    <3>3. r.held # 0 => r.held \in r.sent /\ out[<<c, r.held>>] = 0
      BY <1>2, <1>7 DEF Carries
    <3> QED
      <4>1. /\ streams'[s].owner = c /\ streams'[s].wire = w /\ Once(w)
            /\ streams'[s].held = r.held /\ streams'[s].sent = r.sent
            /\ streams'[s].broken = r.broken /\ out' = out
        BY <1>1, <1>6, <1>7, <1>8
      <4> QED
        BY <3>1, <3>2, <3>3, <4>1 DEF Carries
  <2>2. \A t \in DOMAIN streams \ {s} : Carries(t)'
    BY <1>1, <1>8, <1>15, OtherCarries DEF Carried
  <2> QED
    BY <1>8, <2>1, <2>2 DEF Carried
<1>17. Finished'
  <2>1. Finishes(s)'
    <3>1. ~Over(s)'
      BY <1>4, <1>5, <1>6, <1>7, <1>8 DEF Over
    <3>2. streams'[s].handler # "summary"
      BY <1>5, <1>7, <1>8 DEF Over
    <3> QED
      BY <1>2, <1>6, <1>7, <1>8, <3>1, <3>2 DEF Finishes
  <2>2. \A t \in DOMAIN streams \ {s} : Finishes(t)'
    BY <1>1, <1>8, OtherFinishes DEF Finished
  <2>3. \A d \in Clients : Links!Stream(d) # 0 => Links!Stream(d) \in DOMAIN streams
    BY DEF Owned
  <2> QED
    BY <1>1, <1>8, <1>11, <2>1, <2>2, <2>3 DEF Finished, Links!Stream
<1>18. Kept'
  <2> SUFFICES ASSUME NEW d \in Clients, NEW n \in 1..Load, n <= source[d].lines
               PROVE  \/ <<d, n>> \in lost' \/ n \in Links!ToSet(buffer'[d])
                      \/ \E t \in DOMAIN streams :
                           streams'[t].owner = d /\ n \in streams'[t].sent
    BY <1>1, <1>8, SMTT(30) DEF Kept
  <2>1. CASE d = c /\ n = o
    BY <1>2, <1>7, <1>8, <2>1
  <2>2. CASE ~(d = c /\ n = o)
    <3>1. n \in Links!ToSet(buffer[d]) => n \in Links!ToSet(buffer'[d])
      BY <1>3, <1>9, <2>2
    <3>2. (\E t \in DOMAIN streams : streams[t].owner = d /\ n \in streams[t].sent) =>
          \E t \in DOMAIN streams : streams'[t].owner = d /\ n \in streams'[t].sent
      BY <1>11
    <3> QED
      BY <1>15, <3>1, <3>2 DEF Kept
  <2> QED
    BY <2>1, <2>2
<1> QED
  BY <1>10, <1>12, <1>13, <1>14, <1>16, <1>17, <1>18

\* A stream is opened, with nothing on it.
LEMMA OpenStep ==
    ASSUME Links!LinksAssumption, Linked, NEW c \in Clients, Links!OpenStream(c)
    PROVE  Linked'
<1> DEFINE r == [owner |-> c, wire |-> <<>>, sent |-> {}, held |-> 0,
                 broken |-> FALSE, handler |-> "live"]
<1>1. PICK n : n = Len(streams) + 1
  OBVIOUS
<1>2. /\ client[c].at = "sending" /\ Links!Stream(c) = 0 /\ server = "serving"
      /\ streams' = Append(streams, r)
      /\ UNCHANGED <<source, buffer, out, lost, server>>
  BY DEF Links!OpenStream, Links!Ready, Links!ServerSame
<1>3. r \in Streams
  <2>1. <<>> \in Seq(0..Load) /\ 0 \in 0..Load
    BY DEF Links!LinksAssumption
  <2> QED
    BY <2>1 DEF Streams
<1> HIDE DEF r
<1>4. /\ streams' \in Seq(Streams) /\ Len(streams') = n /\ n \in Nat \ {0}
      /\ DOMAIN streams' = DOMAIN streams \cup {n} /\ n \notin DOMAIN streams
      /\ streams'[n] = r /\ \A t \in DOMAIN streams : streams'[t] = streams[t]
  <2>1. streams \in Seq(Streams) /\ Len(streams) \in Nat
    BY DEF LinkTypes
  <2> QED
    BY <1>1, <1>2, <1>3, <2>1
<1>5. /\ r.owner = c /\ r.wire = <<>> /\ r.sent = {} /\ r.held = 0 /\ r.broken = FALSE
      /\ r.handler = "live"
  BY DEF r
<1>6. /\ client' \in [Clients -> [at : {"sending", "backoff", "closing", "done", "failed"},
                                   stream : Nat, expired : BOOLEAN]]
      /\ client'[c].at = "sending" /\ client'[c].stream = n
      /\ \A d \in Clients \ {c} : client'[d] = client[d]
  <2>1. client' = [client EXCEPT ![c].at = "sending", ![c].stream = n]
    BY <1>4 DEF Links!OpenStream, Links!Set
  <2> DEFINE Client == [at : {"sending", "backoff", "closing", "done", "failed"},
                        stream : Nat, expired : BOOLEAN]
             new == [client[c] EXCEPT !.at = "sending", !.stream = n]
  <2>2. client \in [Clients -> Client]
    BY DEF LinkTypes
  <2>3. new \in Client /\ new.at = "sending" /\ new.stream = n
    BY <1>4, <2>2
  <2>4. client' = [client EXCEPT ![c] = new]
    BY <2>1, <2>2
  <2> HIDE DEF Client, new
  <2> QED
    BY <2>2, <2>3, <2>4 DEF Client
<1>7. LinkTypes'
  BY <1>2, <1>4, <1>6 DEF LinkTypes
<1>8. Owned'
  BY <1>4, <1>5, <1>6 DEF Owned, Links!Stream
<1>9. Apart'
  BY <1>4, <1>5 DEF Apart
<1>10. Fresh'
  <2>1. \A d \in Clients : \A m : Unsent(d, m) => Unsent(d, m)'
    BY <1>2, <1>4, <1>5 DEF Unsent
  <2> QED
    BY <1>2, <2>1 DEF Fresh
<1>11. Kept'
  BY <1>2, <1>4 DEF Kept
<1>12. Carried'
  <2>1. Carries(n)'
    BY <1>4, <1>5, NothingIn DEF Carries
  <2>2. \A t \in DOMAIN streams : Carries(t)'
    BY <1>2, <1>4, OtherCarries DEF Carried
  <2> QED
    BY <1>4, <2>1, <2>2 DEF Carried
<1>13. Finished'
  <2>1. Finishes(n)'
    BY <1>4, <1>5, NothingIn DEF Finishes, Over
  <2>2. ASSUME NEW t \in DOMAIN streams
        PROVE  Finishes(t)'
    <3>1. Finishes(t) /\ streams[t].owner \in Clients /\ t # 0
      BY StreamTypes DEF Finished, LinkTypes
    <3>2. Over(t) => streams[t].owner # c
      BY <1>2, <3>1 DEF Finishes
    <3> QED
      BY <1>2, <1>4, <1>6, <3>1, <3>2 DEF Finishes, Over, Links!Stream
  <2>3. \A d \in Clients : Links!Stream(d) # 0 => Links!Stream(d) \in DOMAIN streams
    BY DEF Owned
  <2>4. \A d \in Clients : client'[d].at = "done" /\ client'[d].stream # 0 =>
          streams'[client'[d].stream].handler = "summary"
    BY <1>4, <1>6, <2>3 DEF Finished, Links!Stream
  <2> QED
    BY <1>4, <2>1, <2>2, <2>4 DEF Finished, Links!Stream
<1>14. Links!NoHandlerOutlivesIngest'
  BY <1>2 DEF Links!NoHandlerOutlivesIngest
<1> QED
  BY <1>7, <1>8, <1>9, <1>10, <1>11, <1>12, <1>13, <1>14

\* The end of the stream is sent, once the buffer is empty.
LEMMA CloseSendStep ==
    ASSUME Links!LinksAssumption, Linked, NEW c \in Clients, Links!CloseSend(c), Links!Stream(c) # 0
    PROVE  Linked'
<1>1. PICK s \in DOMAIN streams : s = Links!Stream(c) /\ streams[s].owner = c
  BY DEF Owned
<1> DEFINE w == IF streams[s].broken THEN streams[s].wire ELSE Append(streams[s].wire, 0)
           r == [streams[s] EXCEPT !.wire = w]
<1>2. /\ client[c].at = "sending"
      /\ streams' = [streams EXCEPT ![s].wire = w]
      /\ client' = [client EXCEPT ![c].at = "closing", ![c].stream = s]
      /\ UNCHANGED <<source, buffer, out, lost, server>>
  BY <1>1 DEF Links!CloseSend, Links!Set, Links!ServerSame
<1>3. streams[s] \in Streams /\ Carries(s) /\ Finishes(s) /\ ~Over(s)
  BY <1>1, <1>2, StreamTypes DEF Carried, Finished, Finishes
<1>4. /\ w \in Seq(0..Load) /\ Once(w) /\ EndsLast(w)
      /\ Links!ToSet(w) = IF streams[s].broken THEN {} ELSE Links!ToSet(streams[s].wire) \cup {0}
  <2> DEFINE Symbols == 0..Load
  <2>1. streams[s].wire \in Seq(Symbols) /\ 0 \in Symbols
    BY StreamTypes DEF Links!LinksAssumption
  <2>2. /\ Once(streams[s].wire) /\ EndsLast(streams[s].wire)
        /\ 0 \notin Links!ToSet(streams[s].wire)
        /\ streams[s].broken => Links!ToSet(streams[s].wire) = {}
    BY <1>3 DEF Carries, Finishes, Over
  <2> HIDE DEF Symbols
  <2>3. /\ w \in Seq(Symbols) /\ Once(w) /\ EndsLast(w)
        /\ Links!ToSet(w) = IF streams[s].broken THEN {} ELSE Links!ToSet(streams[s].wire) \cup {0}
    <3> DEFINE wire == streams[s].wire
    <3>1. /\ Append(wire, 0) \in Seq(Symbols) /\ Once(Append(wire, 0))
          /\ EndsLast(Append(wire, 0)) /\ Links!ToSet(Append(wire, 0)) = Links!ToSet(wire) \cup {0}
      <4> HIDE DEF wire
      <4> QED
        BY <2>1, <2>2, AppendIn DEF wire
    <3> QED
      BY <2>1, <2>2, <3>1
  <2> QED
    BY <2>3 DEF Symbols
<1> HIDE DEF w
<1>5. /\ r \in Streams /\ r.owner = c /\ r.sent = streams[s].sent
      /\ r.wire = w /\ r.held = streams[s].held /\ r.broken = streams[s].broken
      /\ r.handler = streams[s].handler
  BY <1>1, <1>3, <1>4, StreamTypes DEF Streams
<1>6. /\ streams' \in Seq(Streams) /\ DOMAIN streams' = DOMAIN streams
      /\ streams'[s] = r
      /\ \A t \in DOMAIN streams \ {s} : streams'[t] = streams[t]
  <2>1. streams \in Seq(Streams) /\ streams' = [streams EXCEPT ![s] = r]
    BY <1>2, <1>3 DEF LinkTypes
  <2> HIDE DEF r
  <2> QED
    BY <1>5, <2>1, ReplaceIn
<1> HIDE DEF r
<1>7. /\ client' \in [Clients -> [at : {"sending", "backoff", "closing", "done", "failed"},
                                   stream : Nat, expired : BOOLEAN]]
      /\ client'[c].at = "closing" /\ client'[c].stream = s
      /\ \A d \in Clients \ {c} : client'[d] = client[d]
  <2>1. s \in Nat
    BY DEF LinkTypes
  <2> QED
    BY <1>2, <2>1 DEF LinkTypes
<1>8. LinkTypes'
  BY <1>2, <1>6, <1>7 DEF LinkTypes
<1>9. \A t \in DOMAIN streams : /\ streams'[t].owner = streams[t].owner
                                /\ streams'[t].sent = streams[t].sent
                                /\ streams'[t].handler = streams[t].handler
  BY <1>1, <1>5, <1>6
<1>10. Owned' /\ Apart'
  BY <1>1, <1>6, <1>7, <1>9, SMTT(30) DEF Owned, Apart, Links!Stream
<1>11. Fresh'
  <2>1. \A d \in Clients : \A m : Unsent(d, m) => Unsent(d, m)'
    BY <1>2, <1>6, <1>9 DEF Unsent
  <2> QED
    BY <1>2, <2>1 DEF Fresh
<1>12. Kept'
  BY <1>2, <1>6, <1>9 DEF Kept
<1>13. Carried'
  <2>1. Carries(s)'
    <3>1. Links!ToSet(w) \ {0} = Links!ToSet(streams[s].wire) \ {0}
      BY <1>3, <1>4 DEF Finishes
    <3>2. \A n \in streams[s].sent : n # 0
      BY StreamTypes
    <3>3. /\ streams'[s].owner = c /\ streams'[s].wire = w /\ Once(w)
          /\ streams'[s].held = streams[s].held /\ streams'[s].sent = streams[s].sent
          /\ streams'[s].broken = streams[s].broken /\ out' = out /\ lost' = lost
      BY <1>2, <1>4, <1>5, <1>6
    <3> QED
      BY <1>1, <1>3, <3>1, <3>2, <3>3 DEF Carries
  <2>2. \A t \in DOMAIN streams \ {s} : Carries(t)'
    BY <1>2, <1>6, OtherCarries DEF Carried
  <2> QED
    BY <1>6, <2>1, <2>2 DEF Carried
<1>14. Finished'
  <2>1. Finishes(s)'
    <3>1. /\ streams'[s].owner = c /\ streams'[s].wire = w
          /\ streams'[s].held = streams[s].held /\ streams'[s].sent = streams[s].sent
          /\ streams'[s].broken = streams[s].broken /\ out' = out
          /\ streams'[s].handler = streams[s].handler
      BY <1>2, <1>5, <1>6
    <3>2. streams[s].handler # "summary"
      BY <1>3 DEF Over
    <3> QED
      BY <1>3, <1>4, <1>7, <3>1, <3>2 DEF Finishes, Links!Stream
  <2>2. ASSUME NEW t \in DOMAIN streams \ {s}
        PROVE  Finishes(t)'
    <3>1. Finishes(t) /\ streams[t].owner \in Clients /\ streams'[t] = streams[t]
      BY <1>6, StreamTypes DEF Finished
    <3>2. Over(t) => streams[t].owner # c
      BY <1>1, <3>1 DEF Finishes
    <3> QED
      BY <1>2, <1>7, <3>1, <3>2 DEF Finishes, Over, Links!Stream
  <2>3. \A d \in Clients : Links!Stream(d) # 0 => Links!Stream(d) \in DOMAIN streams
    BY DEF Owned
  <2>4. \A d \in Clients : client'[d].at = "done" /\ client'[d].stream # 0 =>
          streams'[client'[d].stream].handler = "summary"
    BY <1>7, <1>9, <2>3 DEF Finished, Links!Stream
  <2> QED
    BY <1>6, <2>1, <2>2, <2>4 DEF Finished, Links!Stream
<1>15. Links!NoHandlerOutlivesIngest'
  BY <1>2, <1>6, <1>9 DEF Links!NoHandlerOutlivesIngest, Links!Live
<1> QED
  BY <1>8, <1>10, <1>11, <1>12, <1>13, <1>14, <1>15

-----------------------------------------------------------------------------
LEMMA LinkedHolds ==
    ASSUME Links!LinksAssumption, Linked, [Links!Next]_(Links!links)
    PROVE  Linked'
<1>1. Linked'
  <2>1. ASSUME NEW c \in Clients, Links!Ingester(c) PROVE Linked'
    BY <2>1, ReadLineStep DEF Links!Ingester, Links!LogIngest, Links!ChangeIngest,
       Links!MetricIngest,
                              Links!SingleObservation
  <2>2. ASSUME NEW c \in Clients, Links!Forward(c) PROVE Linked'
    BY <2>2, ForwardSteps, OpenStep, LinkSendStep, CloseSendStep DEF Links!Forward
  <2>3. ASSUME NEW c \in Clients, Links!IngestEnds(c) \/ Links!Expire(c) PROVE Linked'
    BY <2>3, IngestEndsStep, BreakSteps
  <2>4. ASSUME NEW s \in DOMAIN streams,
               Links!Recv(s) \/ Links!Deliver(s) \/ Links!Abandon(s) \/ Links!Break(s)
        PROVE  Linked'
    BY <2>4, RecvStep, DeliverStep, AbandonStep, BreakSteps
  <2>5. ASSUME Links!Cancel \/ Links!ForceStop \/ Links!IngestReturns PROVE Linked'
    BY <2>5, ServerSteps, BreakSteps
  <2>6. CASE UNCHANGED Links!links
    <3>1. UNCHANGED <<source, buffer, client, streams, server, out, lost>>
      BY <2>6 DEF Links!links
    <3>2. LinkTypes' /\ Owned' /\ Apart' /\ Kept' /\ Links!NoHandlerOutlivesIngest'
      BY <3>1 DEF LinkTypes, Owned, Links!Stream, Apart, Kept, Links!NoHandlerOutlivesIngest,
         Links!Live
    <3>3. Fresh'
      BY <3>1 DEF Fresh, Unsent
    <3>4. Carried' /\ Finished'
      BY <3>1, OtherCarries, OtherFinishes DEF Carried, Finished, Links!Stream
    <3> QED
      BY <3>2, <3>3, <3>4
  <2> QED
    BY <2>1, <2>2, <2>3, <2>4, <2>5, <2>6 DEF Links!Next, Links!links
<1> QED
  BY <1>1

\* Both ends of a link are honest, over any breaks, retries, timeouts and
\* shutdowns: no line read is skipped or handed over twice, a success means that
\* all of the last stream is with the engine, and no handler runs once Ingest has
\* returned.
THEOREM LinkHolds == SpecFlows => []LinkIsHonest
<1>0. Links!LinksAssumption
  BY FlowsAssumption
<1>1. Linked => Links!LinkIsHonest
  <2> SUFFICES ASSUME Linked PROVE Links!LinkIsHonest
    OBVIOUS
  <2>1. ASSUME NEW o \in Links!Observations PROVE out[o] <= 1
    <3>1. out[o] \in {0, 1}
      BY DEF LinkTypes
    <3> QED
      BY <3>1
  <2>2. ASSUME NEW c \in Clients, NEW n \in 1..Load, n <= source[c].lines
        PROVE  <<c, n>> \in lost \cup Links!InTransit(c) \/ out[<<c, n>>] = 1
    <3>1. CASE n \in Links!ToSet(buffer[c])
      BY <3>1 DEF Links!InTransit
    <3>2. ASSUME NEW s \in DOMAIN streams, streams[s].owner = c, n \in streams[s].sent
          PROVE  <<c, n>> \in lost \cup Links!InTransit(c) \/ out[<<c, n>>] = 1
      <4>1. \/ n = streams[s].held \/ n \in Links!ToSet(streams[s].wire) \ {0}
            \/ out[<<c, n>>] = 1 \/ <<c, n>> \in lost
        <5>1. Carries(s) /\ n # 0
          BY DEF Carried
        <5> QED
          BY <3>2, <5>1 DEF Carries
      <4>2. Links!OnWire(c, streams[s]) \cup {<<c, streams[s].held>>} \subseteq Links!InTransit(c)
        BY <3>2 DEF Links!InTransit
      <4>3. n \in Links!ToSet(streams[s].wire) \ {0} => <<c, n>> \in Links!OnWire(c, streams[s])
        BY DEF Links!OnWire
      <4> QED
        BY <4>1, <4>2, <4>3
    <3> QED
      BY <2>2, <3>1, <3>2 DEF Kept
  <2>3. ASSUME NEW c \in Clients, client[c].at = "done", Links!Stream(c) # 0
        PROVE  \A n \in streams[Links!Stream(c)].sent : out[<<c, n>>] = 1
    <3>1. Links!Stream(c) \in DOMAIN streams /\ streams[Links!Stream(c)].owner = c
      BY <2>3 DEF Owned
    <3>2. streams[Links!Stream(c)].handler = "summary" /\ Finishes(Links!Stream(c))
      BY <2>3, <3>1 DEF Finished
    <3> QED
      BY <3>1, <3>2 DEF Finishes
  <2> QED
    BY <2>1, <2>2, <2>3 DEF Links!LinkIsHonest, Links!ForwardTellsTheTruth
<1>2. InitFlows => Linked
  BY <1>0, InitLinked DEF InitFlows
<1>3. Linked /\ [NextFlows]_flows => Linked'
  BY <1>0, FlowsStep, LinkedHolds
<1> QED
  BY <1>1, <1>2, <1>3, PTL DEF SpecFlows, LinkIsHonest

-----------------------------------------------------------------------------
(* The sink that retries *)

\* The instance counts as this module does.
LEMMA CountsAlike == \A S : Resilient!Cardinality(S) = Cardinality(S)
  BY DEF Resilient!Cardinality, Cardinality

\* The goroutine has an event while it delivers it, and returns when the closed
\* queue is empty.
Runner ==
    /\ runner \in {"range", "returned"} <=> evt = 0
    /\ runner = "range" => attempt = 1
    /\ runner = "sleep" => attempt < MaxAttempts
    /\ runner = "returned" => queue = <<>> /\ queueClosed
    /\ queueClosed <=> closer # "open"
    /\ closer = "closed" => runner = "returned"

\* The queue is in order, ahead of it what was settled, and the event being
\* delivered in between.
Line ==
    /\ \A i, j \in 1..Len(queue) : i < j => queue[i] < queue[j]
    /\ \A e \in Resilient!Waiting :
         /\ e <= offered /\ evt < e
         /\ \A f \in Resilient!Taken \cup abandoned : f < e
    /\ \A f \in Resilient!Taken \cup abandoned : f <= offered
    /\ evt # 0 => /\ evt <= offered
                  /\ \A f \in Resilient!Taken : f <= evt
                  /\ \A f \in abandoned : f < evt

\* What was refused is what is nowhere else.
Refused ==
    /\ refused = (1..offered) \ (Resilient!Waiting \cup Resilient!Taken \cup abandoned \cup {evt})
    /\ IsFiniteSet(refused) /\ dropped = Cardinality(refused)

\* How often the destination took an event, and the attempts that took.
Times(e) == {i \in 1..Len(taken) : taken[i] = e}
Attempts ==
    /\ \A i \in 1 .. Len(taken) - 1 : taken[i] <= taken[i + 1]
    /\ \A e \in Resilient!Events :
         Cardinality(Times(e)) <= CASE e # evt -> MaxAttempts
                                    [] e = evt /\ runner = "publish" -> attempt - 1
                                    [] OTHER -> attempt

\* The inductive invariant.
RetryIInv == Resilient!TypeOK /\ Runner /\ Line /\ Refused /\ Attempts

-----------------------------------------------------------------------------
(* What a queue's operations do to what it holds. *)

LEMMA AppendHolds ==
    ASSUME NEW S, NEW q \in Seq(S), NEW x \in S
    PROVE  LET r == Append(q, x) IN
           /\ r \in Seq(S) /\ Len(r) = Len(q) + 1 /\ r[Len(q) + 1] = x
           /\ \A i \in 1..Len(q) : r[i] = q[i]
           /\ {r[i] : i \in 1..Len(r)} = {q[i] : i \in 1..Len(q)} \cup {x}
<1> DEFINE r == Append(q, x)
           n == Len(q)
<1>1. /\ r \in Seq(S) /\ Len(r) = n + 1 /\ r[n + 1] = x
      /\ n \in Nat /\ \A i \in 1..n : r[i] = q[i]
  OBVIOUS
<1> HIDE DEF r, n
<1>2. {r[i] : i \in 1..Len(r)} = {q[i] : i \in 1..n} \cup {x}
  <2>1. \A i \in 1 .. n + 1 : i \in 1..n \/ i = n + 1
    BY <1>1
  <2>2. \A i \in 1..n : i \in 1 .. n + 1
    BY <1>1
  <2> QED
    BY <1>1, <2>1, <2>2
<1> QED
  BY <1>1, <1>2 DEF r, n

LEMMA TailHolds ==
    ASSUME NEW S, NEW q \in Seq(S), q # <<>>
    PROVE  /\ Head(q) \in S /\ Tail(q) \in Seq(S) /\ Len(Tail(q)) = Len(q) - 1
           /\ Len(q) \in Nat \ {0} /\ Head(q) = q[1]
           /\ \A i \in 1 .. Len(q) - 1 : Tail(q)[i] = q[i + 1]
  OBVIOUS

-----------------------------------------------------------------------------
LEMMA InitRetryIInv ==
    ASSUME Resilient!ResilientAssumption, Resilient!Init
    PROVE  RetryIInv
<1>1. Resilient!TypeOK
  <2>1. queue \in Seq(Resilient!Events) /\ Len(queue) = 0 /\ taken \in Seq(Resilient!Events)
    BY DEF Resilient!Init
  <2>2. attempt \in 1..MaxAttempts /\ backoff \in InitialBackoff..RetryMaxBackoff
    BY DEF Resilient!Init, Resilient!ResilientAssumption
  <2>3. /\ 0 \in 0..MaxEvents /\ {} \subseteq Resilient!Events
        /\ Len(queue) <= QueueSize
    BY <2>1 DEF Resilient!ResilientAssumption
  <2> QED
    BY <2>1, <2>2, <2>3 DEF Resilient!Init, Resilient!TypeOK
<1>2. Resilient!Waiting = {} /\ Resilient!Taken = {} /\ \A e : Times(e) = {}
  BY DEF Resilient!Init, Resilient!Waiting, Resilient!Taken, Times
<1>3. Runner /\ Line
  BY <1>2 DEF Resilient!Init, Runner, Line
<1>4. Refused
  BY <1>2, FS_EmptySet DEF Resilient!Init, Refused
<1>5. Attempts
  <2>1. Len(taken) = 0 /\ evt = 0 /\ 0 \notin Resilient!Events
    BY DEF Resilient!Init, Resilient!Events
  <2>2. \A i \in 1 .. Len(taken) - 1 : taken[i] <= taken[i + 1]
    BY <2>1
  <2>3. \A e \in Resilient!Events : e # evt /\ Cardinality(Times(e)) <= MaxAttempts
    BY <1>2, <2>1, FS_EmptySet DEF Resilient!ResilientAssumption
  <2> QED
    BY <2>2, <2>3 DEF Attempts
<1> QED
  BY <1>1, <1>3, <1>4, <1>5 DEF RetryIInv

USE DEF RetryIInv

\* The counter counts no more events than were offered.
LEMMA FewRefused ==
    ASSUME NEW n \in Nat, NEW S \in SUBSET (1..n)
    PROVE  IsFiniteSet(S) /\ Cardinality(S) \in 0..n
<1>1. IsFiniteSet(1..n) /\ Cardinality(1..n) = n
  BY FS_Interval
<1>2. IsFiniteSet(S) /\ Cardinality(S) <= Cardinality(1..n)
  BY <1>1, FS_Subset
<1>3. Cardinality(S) \in Nat
  BY <1>2, FS_CardinalityType
<1> QED
  BY <1>1, <1>2, <1>3

\* Whatever holds an event holds one that was offered.
LEMMA InRange ==
    ASSUME Resilient!ResilientAssumption, RetryIInv
    PROVE  /\ Resilient!Waiting \subseteq Resilient!Events
              /\ Resilient!Taken \subseteq Resilient!Events
           /\ abandoned \subseteq Resilient!Events /\ evt \in 0..MaxEvents
           /\ Resilient!Waiting \cup Resilient!Taken \cup abandoned \cup {evt} \subseteq 0..offered
<1>1. Resilient!Waiting \subseteq Resilient!Events /\ Resilient!Taken \subseteq Resilient!Events
  BY DEF Resilient!TypeOK, Resilient!Waiting, Resilient!Taken
<1>2. abandoned \subseteq Resilient!Events /\ evt \in 0..MaxEvents /\ offered \in Nat
  BY DEF Resilient!TypeOK, Resilient!ResilientAssumption
<1>3. \A e \in Resilient!Waiting \cup Resilient!Taken \cup abandoned : e \in Nat /\ e <= offered
  BY <1>1, <1>2 DEF Line, Resilient!Events
<1>4. evt <= offered
  BY <1>2 DEF Line
<1> QED
  BY <1>1, <1>2, <1>3, <1>4

\* An event is queued, after all the others, or refused.
LEMMA PublishStep ==
    ASSUME Resilient!ResilientAssumption, RetryIInv, Resilient!Publish
    PROVE  RetryIInv'
<1> DEFINE e == offered + 1
<1>1. /\ offered' = e /\ e \in Resilient!Events /\ offered \in Nat
      /\ closer = "open" /\ ~queueClosed /\ runner # "returned"
      /\ UNCHANGED <<queueClosed, runner, evt, attempt, backoff, abandoned,
                     taken, closer>>
  BY DEF Resilient!Publish, Resilient!tryVars, Resilient!TypeOK, Resilient!Events, Runner,
     Resilient!ResilientAssumption
<1>2. UNCHANGED Resilient!Taken /\ \A f : Times(f)' = Times(f)
  BY <1>1 DEF Resilient!Taken, Times
<1>3. Resilient!Waiting \cup Resilient!Taken \cup abandoned \cup {evt} \subseteq 0..offered
  BY InRange
<1>4. Attempts'
  BY <1>1, <1>2 DEF Attempts
<1>5. CASE Len(queue) < QueueSize /\ queue' = Append(queue, e)
           /\ UNCHANGED <<dropped, refused>>
  <2>1. /\ queue' \in Seq(Resilient!Events) /\ Len(queue') = Len(queue) + 1
        /\ queue'[Len(queue) + 1] = e
        /\ \A i \in 1..Len(queue) : queue'[i] = queue[i]
        /\ Resilient!Waiting' = Resilient!Waiting \cup {e}
    BY <1>1, <1>5, AppendHolds DEF Resilient!TypeOK, Resilient!Waiting
  <2>2. Resilient!TypeOK'
    BY <1>1, <1>5, <2>1 DEF Resilient!TypeOK, Resilient!ResilientAssumption, Resilient!Events
  <2>3. Runner'
    BY <1>1 DEF Runner
  <2>4. Line'
    <3>1. ASSUME NEW i \in 1..Len(queue'), NEW j \in 1..Len(queue'), i < j
          PROVE  queue'[i] < queue'[j]
      <4>1. Len(queue) \in Nat /\ i \in 1..Len(queue) /\ queue'[i] = queue[i]
        BY <2>1, <3>1 DEF Resilient!TypeOK
      <4>2. CASE j = Len(queue) + 1
        <5>1. queue[i] \in Resilient!Waiting
          BY <4>1 DEF Resilient!Waiting
        <5> QED
          BY <1>1, <1>3, <2>1, <4>1, <4>2, <5>1
      <4>3. CASE j # Len(queue) + 1
        BY <2>1, <3>1, <4>1, <4>3 DEF Line
      <4> QED
        BY <4>2, <4>3
    <3>2. ASSUME NEW f \in Resilient!Waiting'
          PROVE  /\ f <= e /\ evt < f
                 /\ \A g \in Resilient!Taken \cup abandoned : g < f
      BY <1>1, <1>3, <2>1 DEF Line
    <3>3. \A f \in Resilient!Taken \cup abandoned : f <= e
      BY <1>1, <1>3
    <3>4. evt # 0 => evt <= e
      BY <1>1, <1>3
    <3> QED
      BY <1>1, <1>2, <3>1, <3>2, <3>3, <3>4 DEF Line
  <2>5. Refused'
    BY <1>1, <1>2, <1>3, <1>5, <2>1 DEF Refused
  <2> QED
    BY <1>4, <2>2, <2>3, <2>4, <2>5
<1>6. CASE dropped' = dropped + 1 /\ refused' = refused \cup {e}
           /\ UNCHANGED queue
  <2>1. UNCHANGED Resilient!Waiting
    BY <1>6 DEF Resilient!Waiting
  <2>2. Runner' /\ Line'
    BY <1>1, <1>2, <1>3, <1>6, <2>1 DEF Runner, Line
  <2>3. Refused'
    <3>1. e \notin refused /\ IsFiniteSet(refused)
      BY <1>1 DEF Refused
    <3>2. IsFiniteSet(refused') /\ dropped' = Cardinality(refused')
      BY <1>6, <3>1, FS_AddElement DEF Refused
    <3>3. refused' = (1..e) \ (Resilient!Waiting \cup Resilient!Taken \cup abandoned \cup {evt})
      BY <1>1, <1>3, <1>6 DEF Refused
    <3> QED
      BY <1>1, <1>2, <2>1, <3>2, <3>3 DEF Refused
  <2>4. Resilient!TypeOK'
    <3>1. dropped' \in 0..e /\ refused' \subseteq 1..e
      BY <1>1, <2>3, FewRefused DEF Refused
    <3> QED
      <4>1. dropped' \in 0..MaxEvents /\ refused' \subseteq Resilient!Events
        BY <1>1, <3>1 DEF Resilient!Events, Resilient!ResilientAssumption
      <4>2. offered' \in 0..MaxEvents
        BY <1>1 DEF Resilient!Events
      <4> QED
        BY <1>1, <1>6, <4>1, <4>2 DEF Resilient!TypeOK
  <2> QED
    BY <1>4, <2>2, <2>3, <2>4
<1> QED
  BY <1>5, <1>6 DEF Resilient!Publish

\* The first event of the queue is taken in hand.
LEMMA ReceiveStep ==
    ASSUME Resilient!ResilientAssumption, RetryIInv, Resilient!Receive
    PROVE  RetryIInv'
<1>1. /\ queue # <<>> /\ queue \in Seq(Resilient!Events) /\ evt = 0
      /\ evt' = Head(queue) /\ queue' = Tail(queue)
      /\ attempt' = 1 /\ backoff' = InitialBackoff /\ runner' = "publish"
      /\ UNCHANGED <<offered, dropped, refused, queueClosed, abandoned, taken,
                     closer>>
      /\ closer # "closed"
  BY DEF Resilient!Receive, Resilient!inVars, Resilient!TypeOK, Runner
<1>2. /\ evt' \in Resilient!Events /\ queue' \in Seq(Resilient!Events)
      /\ Len(queue) \in Nat \ {0} /\ Len(queue') = Len(queue) - 1
      /\ evt' = queue[1]
      /\ \A i \in 1 .. Len(queue) - 1 : queue'[i] = queue[i + 1]
      /\ Resilient!Waiting = {evt'} \cup Resilient!Waiting'
  <2>1. /\ evt' \in Resilient!Events /\ queue' \in Seq(Resilient!Events)
        /\ Len(queue) \in Nat \ {0} /\ Len(queue') = Len(queue) - 1
        /\ evt' = queue[1]
    BY <1>1, TailHolds
  <2>2. \A i \in 1 .. Len(queue) - 1 : queue'[i] = queue[i + 1]
    BY <1>1, TailHolds
  <2>3. ASSUME NEW i \in 1..Len(queue) PROVE queue[i] \in {evt'} \cup Resilient!Waiting'
    <3>1. i = 1 \/ (i - 1 \in 1..Len(queue') /\ queue[i] = queue'[i - 1])
      BY <2>1, <2>2
    <3> QED
      BY <2>1, <3>1 DEF Resilient!Waiting
  <2>4. ASSUME NEW i \in 1..Len(queue') PROVE queue'[i] \in Resilient!Waiting
    <3>1. i + 1 \in 1..Len(queue) /\ queue'[i] = queue[i + 1]
      BY <2>1, <2>2
    <3> QED
      BY <3>1 DEF Resilient!Waiting
  <2>5. evt' \in Resilient!Waiting
    BY <2>1 DEF Resilient!Waiting
  <2>6. Resilient!Waiting = {evt'} \cup Resilient!Waiting'
    BY <2>3, <2>4, <2>5 DEF Resilient!Waiting
  <2> QED
    BY <2>1, <2>2, <2>6
<1>3. UNCHANGED Resilient!Taken /\ \A f : Times(f)' = Times(f)
  BY <1>1 DEF Resilient!Taken, Times
<1>4. Resilient!TypeOK'
  BY <1>1, <1>2 DEF Resilient!TypeOK, Resilient!ResilientAssumption, Resilient!Events
<1>5. Runner'
  BY <1>1, <1>2 DEF Runner, Resilient!Events
<1>6. Line'
  <2>1. \A i, j \in 1..Len(queue') : i < j => queue'[i] < queue'[j]
    BY <1>2 DEF Line
  <2>2. ASSUME NEW f \in Resilient!Waiting'
        PROVE  evt' < f
    <3>1. PICK i \in 1..Len(queue') : f = queue'[i]
      BY DEF Resilient!Waiting
    <3> QED
      BY <1>2, <3>1 DEF Line
  <2>3. evt' \in Resilient!Waiting
    BY <1>2
  <2>4. \A f \in Resilient!Taken \cup abandoned : f < evt' /\ f \in Nat
    BY <2>3, InRange DEF Line, Resilient!Events
  <2>5. /\ evt' <= offered /\ \A f \in Resilient!Waiting' : f <= offered
        /\ \A f \in Resilient!Waiting', g \in Resilient!Taken \cup abandoned : g < f
    BY <1>2, <2>3 DEF Line
  <2>6. \A f \in Resilient!Taken \cup abandoned : f <= offered /\ f <= evt'
    BY <1>2, <2>4 DEF Line, Resilient!Events
  <2> QED
    BY <1>1, <1>3, <2>1, <2>2, <2>4, <2>5, <2>6 DEF Line
<1>7. Refused'
  BY <1>1, <1>2, <1>3 DEF Refused, Resilient!Events
<1>8. Attempts'
  <2>1. Times(evt') = {}
    <3>1. evt' \notin Resilient!Taken
      BY <1>2 DEF Line, Resilient!Events
    <3> QED
      BY <3>1 DEF Times, Resilient!Taken
  <2>2. \A e \in Resilient!Events : Cardinality(Times(e)) <= MaxAttempts
    BY <1>1 DEF Attempts, Resilient!Events
  <2> QED
    <3>1. \A e \in Resilient!Events :
            /\ e # evt' => Cardinality(Times(e)) <= MaxAttempts
            /\ e = evt' => Cardinality(Times(e)) <= attempt' - 1
      <4>1. Cardinality(Times(evt')) <= attempt' - 1
        <5>1. Cardinality({}) = 0
          BY FS_EmptySet
        <5>2. Cardinality(Times(evt')) = 0
          BY <2>1, <5>1, Zenon
        <5>3. attempt' - 1 = 0
          BY <1>1
        <5> QED
          BY <5>2, <5>3
      <4> QED
        BY <2>2, <4>1
    <3>2. \A i \in 1 .. Len(taken) - 1 : taken[i] <= taken[i + 1]
      BY DEF Attempts
    <3> QED
      BY <1>1, <1>3, <3>1, <3>2 DEF Attempts
<1> QED
  BY <1>4, <1>5, <1>6, <1>7, <1>8

-----------------------------------------------------------------------------
(* The destination is handed the event, and may take it. *)

LEMMA TakeHolds ==
    ASSUME Resilient!ResilientAssumption, RetryIInv, evt # 0, Resilient!Mistaken
    PROVE  /\ taken' \in Seq(Resilient!Events)
           /\ Resilient!Taken \subseteq Resilient!Taken'
              /\ Resilient!Taken' \subseteq Resilient!Taken \cup {evt}
           /\ taken' = Append(taken, evt) => evt \in Resilient!Taken'
           /\ \A i \in 1 .. Len(taken') - 1 : taken'[i] <= taken'[i + 1]
           /\ \A e \in Resilient!Events \ {evt} : Times(e)' = Times(e)
           /\ Cardinality(Times(evt)) \in Nat
           /\ Cardinality({i \in 1..Len(taken') : taken'[i] = evt})
                <= Cardinality(Times(evt)) + 1
<1> DEFINE n == Len(taken)
           Again == {i \in 1..Len(taken') : taken'[i] = evt}
<1>1. /\ taken \in Seq(Resilient!Events) /\ evt \in Resilient!Events /\ n \in Nat
      /\ \A i \in 1..n : taken[i] <= evt /\ taken[i] \in Resilient!Events
      /\ \A i \in 1 .. n - 1 : taken[i] <= taken[i + 1]
  <2>1. /\ taken \in Seq(Resilient!Events) /\ n \in Nat /\ evt \in Resilient!Events
        /\ \A i \in 1..n : taken[i] \in Resilient!Events
    <3>1. taken \in Seq(Resilient!Events)
      BY DEF Resilient!TypeOK
    <3>2. evt \in Resilient!Events
      BY DEF Resilient!TypeOK, Resilient!Events
    <3> QED
      BY <3>1, <3>2
  <2>2. \A f \in Resilient!Taken : f <= evt
    BY DEF Line
  <2>3. \A i \in 1..n : taken[i] <= evt
    BY <2>2 DEF Resilient!Taken
  <2>4. \A i \in 1 .. n - 1 : taken[i] <= taken[i + 1]
    BY DEF Attempts
  <2> QED
    BY <2>1, <2>3, <2>4
<1>2. IsFiniteSet(Times(evt)) /\ Cardinality(Times(evt)) \in Nat
  <2>1. Times(evt) \in SUBSET (1..n)
    BY DEF Times
  <2>2. Cardinality(Times(evt)) \in 0..n /\ IsFiniteSet(Times(evt))
    BY <1>1, <2>1, FewRefused
  <2> QED
    BY <1>1, <2>2
<1>3. CASE taken' = taken
  <2>1. Resilient!Taken' = Resilient!Taken /\ Again = Times(evt) /\ \A e : Times(e)' = Times(e)
    BY <1>3 DEF Resilient!Taken, Times
  <2>2. taken' = Append(taken, evt) => FALSE
    <3>1. Len(Append(taken, evt)) = n + 1
      BY <1>1
    <3> QED
      BY <1>1, <1>3, <3>1
  <2>3. Cardinality(Again) <= Cardinality(Times(evt)) + 1
    BY <1>2, <2>1, SMTT(30)
  <2> QED
    BY <1>1, <1>2, <1>3, <2>1, <2>2, <2>3
<1>4. CASE taken' = Append(taken, evt)
  <2>1. /\ taken' \in Seq(Resilient!Events) /\ Len(taken') = n + 1 /\ taken'[n + 1] = evt
        /\ \A i \in 1..n : taken'[i] = taken[i]
        /\ Resilient!Taken' = Resilient!Taken \cup {evt}
    BY <1>1, <1>4, AppendHolds DEF Resilient!Taken
  <2>2. ASSUME NEW i \in 1 .. Len(taken') - 1
        PROVE  taken'[i] <= taken'[i + 1]
    <3> HIDE DEF n
    <3>1. i \in 1..n /\ taken'[i] = taken[i]
      BY <1>1, <2>1
    <3>2. CASE i = n
      BY <1>1, <2>1, <3>1, <3>2
    <3>3. CASE i # n
      <4>1. i \in 1 .. n - 1 /\ i + 1 \in 1..n
        BY <1>1, <3>1, <3>3
      <4> QED
        BY <1>1, <2>1, <3>1, <4>1
    <3> QED
      BY <3>2, <3>3
  <2>3. \A i : i \in 1 .. n + 1 <=> i \in 1..n \/ i = n + 1
    BY <1>1
  <2>4. ASSUME NEW e \in Resilient!Events \ {evt}
        PROVE  Times(e)' = Times(e)
    <3>1. Times(e)' = {i \in 1 .. n + 1 : taken'[i] = e}
      BY <2>1 DEF Times
    <3> QED
      BY <2>1, <2>3, <3>1 DEF Times
  <2>5. Again = Times(evt) \cup {n + 1} /\ n + 1 \notin Times(evt)
    <3>1. Again = {i \in 1 .. n + 1 : taken'[i] = evt}
      BY <2>1
    <3>2. Again = Times(evt) \cup {n + 1}
      BY <2>1, <2>3, <3>1 DEF Times
    <3>3. n + 1 \notin 1..n
      BY <1>1
    <3> QED
      BY <3>2, <3>3 DEF Times
  <2>6. Cardinality(Again) = Cardinality(Times(evt)) + 1
    BY <1>2, <2>5, FS_AddElement
  <2>7. Cardinality(Again) <= Cardinality(Times(evt)) + 1
    BY <1>2, <2>6
  <2> HIDE DEF n
  <2> QED
    BY <1>2, <2>1, <2>2, <2>4, <2>7
<1> QED
  BY <1>3, <1>4 DEF Resilient!Mistaken

\* The event is settled, taken or given up on.
LEMMA SettleStep ==
    ASSUME Resilient!ResilientAssumption, RetryIInv, Resilient!Succeed \/ Resilient!GiveUp
    PROVE  RetryIInv'
<1>1. /\ runner = "publish" /\ runner' = "range" /\ evt' = 0 /\ attempt' = 1
      /\ backoff' = InitialBackoff /\ Resilient!Mistaken
      /\ UNCHANGED <<offered, dropped, refused, queue, queueClosed, closer>>
      /\ abandoned' = abandoned \/ abandoned' = abandoned \cup {evt}
      /\ taken' = Append(taken, evt) \/ evt \in abandoned'
  BY DEF Resilient!Succeed, Resilient!GiveUp, Resilient!Mistaken, Resilient!inVars
<1>2. /\ evt # 0 /\ evt \in Resilient!Events /\ offered \in Nat
      /\ Resilient!Waiting' = Resilient!Waiting /\ Resilient!Waiting \subseteq Resilient!Events
  BY <1>1, InRange DEF Runner, Resilient!Events, Resilient!TypeOK, Resilient!Waiting,
     Resilient!ResilientAssumption
<1>3. /\ taken' \in Seq(Resilient!Events)
      /\ Resilient!Taken \subseteq Resilient!Taken'
         /\ Resilient!Taken' \subseteq Resilient!Taken \cup {evt}
      /\ evt \in Resilient!Taken' \cup abandoned'
      /\ \A i \in 1 .. Len(taken') - 1 : taken'[i] <= taken'[i + 1]
  BY <1>1, <1>2, TakeHolds
<1>4. Resilient!TypeOK'
  <2>1. abandoned' \subseteq Resilient!Events
    BY <1>1, <1>2 DEF Resilient!TypeOK
  <2>2. /\ 0 \in 0..MaxEvents /\ 1 \in 1..MaxAttempts
        /\ InitialBackoff \in InitialBackoff..RetryMaxBackoff
    BY DEF Resilient!ResilientAssumption
  <2> QED
    BY <1>1, <1>3, <2>1, <2>2 DEF Resilient!TypeOK
<1>5. Runner'
  BY <1>1 DEF Runner
<1>6. Resilient!Taken' \cup abandoned' = Resilient!Taken \cup abandoned \cup {evt}
  BY <1>1, <1>3
<1>7. Line'
  <2>1. ASSUME NEW e \in Resilient!Waiting
        PROVE  /\ e <= offered /\ 0 < e
               /\ \A f \in Resilient!Taken' \cup abandoned' : f < e
    BY <1>2, <1>6 DEF Line, Resilient!Events
  <2>2. \A f \in Resilient!Taken' \cup abandoned' : f <= offered
    BY <1>2, <1>6 DEF Line
  <2>3. \A i, j \in 1..Len(queue') : i < j => queue'[i] < queue'[j]
    BY <1>1 DEF Line
  <2> QED
    BY <1>1, <1>2, <2>1, <2>2, <2>3 DEF Line
<1>8. Refused'
  <2>1. 0 \notin 1..offered
    OBVIOUS
  <2>2. (1..offered) \ (Resilient!Waiting \cup Resilient!Taken' \cup abandoned' \cup {0})
           = (1..offered) \ (Resilient!Waiting \cup Resilient!Taken \cup abandoned \cup {evt})
    BY <1>6, <2>1
  <2> QED
    BY <1>1, <1>2, <2>2 DEF Refused
<1>9. Attempts'
  <2>1. ASSUME NEW e \in Resilient!Events, e # evt
        PROVE  Cardinality(Times(e)') <= MaxAttempts
    BY <1>1, <1>2, <2>1, TakeHolds DEF Attempts
  <2>2. Cardinality(Times(evt)) <= attempt - 1
    BY <1>1, <1>2 DEF Attempts
  <2>3. Cardinality({i \in 1..Len(taken') : taken'[i] = evt})
          <= Cardinality(Times(evt)) + 1 /\ Cardinality(Times(evt)) \in Nat
    BY <1>1, <1>2, TakeHolds
  <2>4. attempt \in Nat /\ attempt <= MaxAttempts /\ MaxAttempts \in Nat
    BY DEF Resilient!TypeOK, Resilient!ResilientAssumption
  <2>5. \A e \in Resilient!Events :
          Cardinality({i \in 1..Len(taken') : taken'[i] = e}) <= MaxAttempts
    <3> DEFINE Card(e) == Cardinality({i \in 1..Len(taken') : taken'[i] = e})
    <3>1. /\ Card(evt) <= Cardinality(Times(evt)) + 1
          /\ \A e \in Resilient!Events : e # evt => Card(e) <= MaxAttempts
      BY <2>1, <2>3 DEF Times
    <3>2. Card(evt) \in Nat
      <4>1. {i \in 1..Len(taken') : taken'[i] = evt} \in SUBSET (1..Len(taken'))
        OBVIOUS
      <4>2. Len(taken') \in Nat
        BY <1>3
      <4>3. Card(evt) \in 0..Len(taken')
        BY <4>1, <4>2, FewRefused
      <4> QED
        BY <4>2, <4>3
    <3> HIDE DEF Card
    <3>3. Card(evt) <= MaxAttempts
      BY <2>2, <2>3, <2>4, <3>1, <3>2
    <3>4. \A e \in Resilient!Events : Card(e) <= MaxAttempts
      BY <3>1, <3>3
    <3> QED
      BY <3>4 DEF Card
  <2>6. \A e \in Resilient!Events : e # evt'
    BY <1>1 DEF Resilient!Events
  <2> QED
    BY <1>3, <2>5, <2>6 DEF Attempts, Times
<1> QED
  BY <1>4, <1>5, <1>7, <1>8, <1>9

\* It is not settled, with an attempt left.
LEMMA FailStep ==
    ASSUME Resilient!ResilientAssumption, RetryIInv, Resilient!Fail
    PROVE  RetryIInv'
<1>1. /\ runner = "publish" /\ runner' = "sleep" /\ attempt < MaxAttempts
      /\ Resilient!Mistaken /\ evt # 0 /\ evt \in Resilient!Events
      /\ UNCHANGED <<offered, dropped, refused, queue, queueClosed, evt, attempt,
                     backoff, abandoned, closer>>
  BY DEF Resilient!Fail, Resilient!Last, Resilient!inVars, Runner, Resilient!TypeOK,
     Resilient!ResilientAssumption,
         Resilient!Events
<1>2. /\ taken' \in Seq(Resilient!Events)
      /\ Resilient!Taken \subseteq Resilient!Taken'
         /\ Resilient!Taken' \subseteq Resilient!Taken \cup {evt}
      /\ \A i \in 1 .. Len(taken') - 1 : taken'[i] <= taken'[i + 1]
      /\ \A e \in Resilient!Events \ {evt} : Times(e)' = Times(e)
      /\ Cardinality(Times(evt)) \in Nat
      /\ Cardinality({i \in 1..Len(taken') : taken'[i] = evt})
           <= Cardinality(Times(evt)) + 1
  BY <1>1, TakeHolds
<1>3. Resilient!TypeOK' /\ Runner' /\ UNCHANGED Resilient!Waiting
  BY <1>1, <1>2 DEF Resilient!TypeOK, Runner, Resilient!Waiting
<1>4. Line'
  <2>1. evt <= offered /\ evt \in Nat
    BY <1>1 DEF Line, Resilient!Events
  <2>2. \A f \in Resilient!Taken' \cup abandoned : f <= offered
    BY <1>2, <2>1 DEF Line
  <2>3. \A f \in Resilient!Taken' : f <= evt
    BY <1>1, <1>2, <2>1 DEF Line
  <2>4. \A e \in Resilient!Waiting : \A f \in Resilient!Taken' \cup abandoned : f < e
    BY <1>2 DEF Line
  <2> QED
    BY <1>1, <1>3, <2>2, <2>3, <2>4 DEF Line
<1>5. Refused'
  BY <1>1, <1>2, <1>3 DEF Refused
<1>6. Attempts'
  <2>1. Cardinality(Times(evt)) <= attempt - 1
    BY <1>1 DEF Attempts
  <2>2. Cardinality({i \in 1..Len(taken') : taken'[i] = evt}) <= attempt
    <3> DEFINE card == Cardinality({i \in 1..Len(taken') : taken'[i] = evt})
    <3>1. card \in Nat
      <4>1. {i \in 1..Len(taken') : taken'[i] = evt} \in SUBSET (1..Len(taken'))
        OBVIOUS
      <4>2. Len(taken') \in Nat
        BY <1>2
      <4>3. card \in 0..Len(taken')
        BY <4>1, <4>2, FewRefused
      <4> QED
        BY <4>2, <4>3
    <3>2. attempt \in Nat /\ card <= Cardinality(Times(evt)) + 1
      BY <1>2 DEF Resilient!TypeOK, Resilient!ResilientAssumption
    <3> HIDE DEF card
    <3>3. card <= attempt
      BY <1>2, <2>1, <3>1, <3>2
    <3> QED
      BY <3>3 DEF card
  <2>3. \A e \in Resilient!Events \ {evt} : Cardinality(Times(e)') <= MaxAttempts
    BY <1>2 DEF Attempts
  <2>4. \A e \in Resilient!Events :
          /\ e # evt' => Cardinality(Times(e)') <= MaxAttempts
          /\ e = evt' => Cardinality({i \in 1..Len(taken') : taken'[i] = e}) <= attempt'
    BY <1>1, <2>2, <2>3
  <2> QED
    BY <1>1, <1>2, <2>4 DEF Attempts, Times
<1> QED
  BY <1>3, <1>4, <1>5, <1>6

\* It is tried again, after a pause that doubles up to its bound.
LEMMA RetryStep ==
    ASSUME Resilient!ResilientAssumption, RetryIInv, Resilient!Retry
    PROVE  RetryIInv'
<1>1. /\ runner = "sleep" /\ runner' = "publish" /\ attempt' = attempt + 1
      /\ backoff' = Resilient!Doubled
      /\ UNCHANGED <<offered, dropped, refused, queue, queueClosed, evt,
                     abandoned, taken, closer>>
  BY DEF Resilient!Retry, Resilient!inVars
<1>2. attempt \in 1..MaxAttempts /\ attempt < MaxAttempts /\ evt # 0
  BY <1>1 DEF Runner, Resilient!TypeOK
<1>3. UNCHANGED <<Resilient!Waiting, Resilient!Taken>> /\ \A e : Times(e)' = Times(e)
  BY <1>1 DEF Resilient!Waiting, Resilient!Taken, Times
<1>4. Resilient!TypeOK'
  <2>1. backoff' \in InitialBackoff..RetryMaxBackoff
    BY <1>1 DEF Resilient!Doubled, Resilient!TypeOK, Resilient!ResilientAssumption
  <2>2. attempt' \in 1..MaxAttempts
    BY <1>1, <1>2 DEF Resilient!ResilientAssumption
  <2> QED
    BY <1>1, <2>1, <2>2 DEF Resilient!TypeOK
<1>5. Runner' /\ Line' /\ Refused'
  BY <1>1, <1>2, <1>3 DEF Runner, Line, Refused
<1>6. Attempts'
  <2>1. attempt' - 1 = attempt
    BY <1>1, <1>2
  <2>2. \A e \in Resilient!Events :
          /\ e # evt => Cardinality(Times(e)) <= MaxAttempts
          /\ e = evt => Cardinality(Times(e)) <= attempt
    BY <1>1 DEF Attempts
  <2>3. \A i \in 1 .. Len(taken) - 1 : taken[i] <= taken[i + 1]
    BY DEF Attempts
  <2> QED
    BY <1>1, <1>3, <2>1, <2>2, <2>3 DEF Attempts
<1> QED
  BY <1>4, <1>5, <1>6

\* Closing changes neither the events nor what is done with them.
LEMMA SinkCloseStep ==
    ASSUME Resilient!ResilientAssumption, RetryIInv,
           Resilient!RunReturn \/ Resilient!CloseQueue \/ Resilient!CloseInner \/ Resilient!Done
    PROVE  RetryIInv'
<1>1. /\ UNCHANGED <<offered, dropped, refused, queue, evt, attempt, backoff,
                     abandoned, taken>>
      /\ runner' = runner \/ (runner = "range" /\ runner' = "returned")
  BY DEF Resilient!RunReturn, Resilient!CloseQueue, Resilient!CloseInner, Resilient!Done,
     Resilient!inVars,
         Resilient!tryVars, Resilient!vars
<1>2. UNCHANGED <<Resilient!Waiting, Resilient!Taken>> /\ \A e : Times(e)' = Times(e)
  BY <1>1 DEF Resilient!Waiting, Resilient!Taken, Times
<1>3. Resilient!TypeOK' /\ Runner'
  BY DEF Resilient!RunReturn, Resilient!CloseQueue, Resilient!CloseInner, Resilient!Done,
     Resilient!inVars,
         Resilient!tryVars, Resilient!vars, Resilient!TypeOK,
         Runner
<1>4. Line' /\ Refused'
  BY <1>1, <1>2 DEF Line, Refused
<1>5. Attempts'
  <2>1. (runner = "publish") <=> (runner' = "publish")
    BY <1>1
  <2> QED
    BY <1>1, <1>2, <2>1 DEF Attempts
<1> QED
  BY <1>3, <1>4, <1>5

LEMMA RetriesHold ==
    ASSUME Resilient!ResilientAssumption, RetryIInv, [Resilient!Next]_(Resilient!vars)
    PROVE  RetryIInv'
<1>1. RetryIInv'
  <2>1. CASE Resilient!Publish
    BY <2>1, PublishStep
  <2>2. CASE Resilient!Receive
    BY <2>2, ReceiveStep
  <2>3. CASE Resilient!Succeed \/ Resilient!GiveUp
    BY <2>3, SettleStep
  <2>4. CASE Resilient!Fail
    BY <2>4, FailStep
  <2>5. CASE Resilient!Retry
    BY <2>5, RetryStep
  <2>6. CASE Resilient!RunReturn \/ Resilient!CloseQueue \/ Resilient!CloseInner \/ Resilient!Done
    BY <2>6, SinkCloseStep
  <2>7. CASE UNCHANGED Resilient!vars
    BY <2>7, SinkCloseStep, SMTT(30) DEF Resilient!vars, Resilient!TypeOK, Runner, Line, Refused,
       Attempts, Resilient!Waiting,
                           Resilient!Taken, Times
  <2> QED
    BY <2>1, <2>2, <2>3, <2>4, <2>5, <2>6, <2>7 DEF Resilient!Next, Resilient!Run
<1> QED
  BY <1>1

-----------------------------------------------------------------------------
\* The resilient sink loses no event without counting it, retries without
\* reordering or handing an event over more often than configured, and closes
\* only once every event accepted is settled, however its destination fails.
THEOREM DeliveryHolds == SpecFlows => []Delivery
<1>0. Resilient!ResilientAssumption
  BY FlowsAssumption
<1>1. RetryIInv => Resilient!Delivery
  <2> SUFFICES ASSUME RetryIInv PROVE Resilient!Delivery
    OBVIOUS
  <2>1. Resilient!NothingVanishes
    <3>1. \A e \in Resilient!Waiting : e \in Nat /\ e \notin Resilient!Taken \cup abandoned
      BY <1>0, InRange DEF Line, Resilient!Events
    <3> QED
      BY <3>1, CountsAlike DEF Refused, Resilient!NothingVanishes
  <2>2. Resilient!TakenInOrder
    <3>1. ASSUME NEW e \in Resilient!Taken
          PROVE  Cardinality(Times(e)) <= MaxAttempts
      <4>1. e \in Resilient!Events
        BY <1>0, InRange
      <4>2. attempt \in Nat /\ attempt <= MaxAttempts /\ MaxAttempts \in Nat
        BY <1>0 DEF Resilient!TypeOK, Resilient!ResilientAssumption
      <4>3. Cardinality(Times(e)) \in Nat
        <5>1. Len(taken) \in Nat /\ Times(e) \in SUBSET (1..Len(taken))
          BY DEF Resilient!TypeOK, Times
        <5>2. Cardinality(Times(e)) \in 0..Len(taken)
          BY <5>1, FewRefused
        <5> QED
          BY <5>1, <5>2
      <4>4. \/ Cardinality(Times(e)) <= MaxAttempts
            \/ Cardinality(Times(e)) <= attempt
            \/ Cardinality(Times(e)) <= attempt - 1
        BY <4>1 DEF Attempts
      <4> QED
        BY <4>2, <4>3, <4>4
    <3> QED
      BY <3>1, CountsAlike DEF Attempts, Resilient!TakenInOrder, Times
  <2>3. Resilient!CloseDrains
    <3> SUFFICES ASSUME closer = "closed"
                 PROVE  /\ queue = <<>> /\ evt = 0 /\ runner = "returned"
                        /\ 1..offered \subseteq Resilient!Taken \cup abandoned \cup refused
      BY DEF Resilient!CloseDrains
    <3>1. queue = <<>> /\ evt = 0 /\ runner = "returned"
      BY DEF Runner
    <3>2. Resilient!Waiting = {}
      <4>1. Len(queue) = 0
        BY <3>1
      <4> QED
        BY <4>1 DEF Resilient!Waiting
    <3> QED
      BY <3>1, <3>2 DEF Refused
  <2> QED
    BY <2>1, <2>2, <2>3 DEF Resilient!Delivery
<1>2. InitFlows => RetryIInv
  BY <1>0, InitRetryIInv DEF InitFlows
<1>3. RetryIInv /\ [NextFlows]_flows => RetryIInv'
  BY <1>0, FlowsStep, RetriesHold
<1> QED
  BY <1>1, <1>2, <1>3, PTL DEF SpecFlows, Delivery
=============================================================================
