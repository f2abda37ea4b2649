------------------------------ MODULE Resilient ------------------------------
(***************************************************************************)
(* The resilient sink of internal/core/sink/resilient.go: a bounded queue   *)
(* that drops when full, one goroutine that delivers with retries to a      *)
(* destination that may fail, or take an event and fail to say so, and a    *)
(* Close that drains.                                                      *)
(*                                                                         *)
(* Events are numbered in the order they are offered.  The runtime closes   *)
(* its sinks once the engine has returned (Runtime.Run), so nothing is      *)
(* offered after Close; a Publish then would send on a closed channel.      *)
(***************************************************************************)
EXTENDS Integers, Sequences, FiniteSets

CONSTANTS
    QueueSize, MaxAttempts,
    InitialBackoff, RetryMaxBackoff,
    MaxEvents       \* bound: events offered

ResilientAssumption ==
    /\ QueueSize \in Nat \ {0} /\ MaxAttempts \in Nat \ {0}
    /\ InitialBackoff \in Nat /\ RetryMaxBackoff \in Nat
    /\ InitialBackoff <= RetryMaxBackoff
    /\ MaxEvents \in Nat

VARIABLES
    offered,     \* history: events given to Publish
    queue, queueClosed,
    dropped,     \* the counter of events the queue had no room for
    runner,      \* the goroutine: "range", "publish", "sleep" or "returned"
    evt,         \* the event it delivers, when it has one
    attempt, backoff,
    abandoned,   \* history: the events given up on
    taken,       \* the destination: what it took, in order
    closer,      \* Runtime.Close: "open", "wait" or "closed"
    refused      \* history: the events dropped

vars == <<offered, queue, queueClosed, dropped, runner, evt, attempt, backoff,
          abandoned, taken, closer, refused>>

inVars  == <<offered, dropped, refused>>
tryVars == <<evt, attempt, backoff>>

Init ==
    /\ offered = 0 /\ queue = <<>> /\ queueClosed = FALSE
    /\ dropped = 0 /\ refused = {}
    /\ runner = "range" /\ evt = 0 /\ attempt = 1
    /\ backoff = InitialBackoff
    /\ abandoned = {} /\ taken = <<>> /\ closer = "open"

\* Publish, for each event: queued if there is room, else dropped and counted.
Publish ==
    /\ closer = "open" /\ offered < MaxEvents
    /\ offered' = offered + 1
    /\ \/ /\ Len(queue) < QueueSize
          /\ queue' = Append(queue, offered')
          /\ UNCHANGED <<dropped, refused>>
       \/ /\ Len(queue) = QueueSize
          /\ dropped' = dropped + 1
          /\ refused' = refused \cup {offered'}
          /\ UNCHANGED queue
    /\ UNCHANGED <<queueClosed, runner, tryVars, abandoned, taken, closer>>

-----------------------------------------------------------------------------
(* run and publishWithRetries *)

Receive ==
    /\ runner = "range" /\ queue # <<>>
    /\ evt' = Head(queue) /\ queue' = Tail(queue)
    /\ attempt' = 1 /\ backoff' = InitialBackoff
    /\ runner' = "publish"
    /\ UNCHANGED <<inVars, queueClosed, abandoned, taken, closer>>

RunReturn ==
    /\ runner = "range" /\ queue = <<>> /\ queueClosed
    /\ runner' = "returned"
    /\ UNCHANGED <<inVars, queue, queueClosed, tryVars, abandoned, taken, closer>>

Succeed ==
    /\ runner = "publish"
    /\ taken' = Append(taken, evt)
    /\ runner' = "range"
    /\ evt' = 0 /\ attempt' = 1 /\ backoff' = InitialBackoff
    /\ UNCHANGED <<inVars, queue, queueClosed, abandoned, closer>>

\* The destination did not take it, or took it and the answer was lost.
Mistaken == taken' = taken \/ taken' = Append(taken, evt)

Last == attempt >= MaxAttempts

\* Mutant: a failed event goes to the back of the queue.
FailRequeue ==
    /\ runner = "publish" /\ ~Last /\ Mistaken
    /\ IF Len(queue) < QueueSize /\ queue # <<>> /\ ~queueClosed
       THEN /\ queue' = Append(Tail(queue), evt) /\ evt' = Head(queue)
            /\ UNCHANGED <<runner, attempt, backoff>>
       ELSE runner' = "sleep" /\ UNCHANGED <<queue, evt, attempt, backoff>>
    /\ UNCHANGED <<inVars, queueClosed, abandoned, closer>>

\* It fails, within its timeout, with attempts left.
Fail ==
    /\ runner = "publish" /\ ~Last /\ Mistaken
    /\ runner' = "sleep"
    /\ UNCHANGED <<inVars, queue, queueClosed, evt, attempt, backoff,
                   abandoned, closer>>

\* Mutant: giving up on an event ends the goroutine.
GiveUpForGood ==
    /\ runner = "publish" /\ Last /\ Mistaken
    /\ abandoned' = abandoned \cup {evt}
    /\ runner' = "returned"
    /\ evt' = 0 /\ attempt' = 1 /\ backoff' = InitialBackoff
    /\ UNCHANGED <<inVars, queue, queueClosed, closer>>

GiveUp ==
    /\ runner = "publish" /\ Last /\ Mistaken
    /\ abandoned' = abandoned \cup {evt}
    /\ runner' = "range"
    /\ evt' = 0 /\ attempt' = 1 /\ backoff' = InitialBackoff
    /\ UNCHANGED <<inVars, queue, queueClosed, closer>>

Doubled == IF backoff * 2 < RetryMaxBackoff THEN backoff * 2 ELSE RetryMaxBackoff

Retry ==
    /\ runner = "sleep"
    /\ backoff' = Doubled
    /\ attempt' = attempt + 1
    /\ runner' = "publish"
    /\ UNCHANGED <<inVars, queue, queueClosed, evt, abandoned, taken, closer>>

-----------------------------------------------------------------------------
(* Close *)

CloseQueue ==
    /\ closer = "open"
    /\ queueClosed' = TRUE /\ closer' = "wait"
    /\ UNCHANGED <<inVars, queue, runner, tryVars, abandoned, taken>>

CloseInner ==
    /\ closer = "wait" /\ runner = "returned"
    /\ closer' = "closed"
    /\ UNCHANGED <<inVars, queue, queueClosed, runner, tryVars, abandoned, taken>>

Done == closer = "closed" /\ UNCHANGED vars

Run == \/ Receive \/ RunReturn \/ Succeed \/ Fail \/ GiveUp \/ Retry

Next == Publish \/ Run \/ CloseQueue \/ CloseInner \/ Done

Spec == Init /\ [][Next]_vars

\* The goroutine and the closer are scheduled, a publish ends by its timeout,
\* a sleep ends.  Nothing is assumed of the destination.
FairSpec == Spec /\ WF_vars(Run) /\ WF_vars(CloseInner)

-----------------------------------------------------------------------------
(* Properties *)

Events == 1..MaxEvents

TypeOK ==
    /\ offered \in 0..MaxEvents
    /\ queue \in Seq(Events) /\ Len(queue) <= QueueSize
    /\ queueClosed \in BOOLEAN
    /\ dropped \in 0..MaxEvents /\ refused \subseteq Events
    /\ runner \in {"range", "publish", "sleep", "returned"}
    /\ evt \in 0..MaxEvents
    /\ attempt \in 1..MaxAttempts
    /\ backoff \in InitialBackoff..RetryMaxBackoff
    /\ abandoned \subseteq Events
    /\ taken \in Seq(Events)
    /\ closer \in {"open", "wait", "closed"}

Waiting == {queue[i] : i \in 1..Len(queue)}
Taken == {taken[i] : i \in 1..Len(taken)}

\* No event vanishes: one that did not reach the destination waits, is being
\* delivered, was given up on after its attempts, or was dropped, and the
\* dropped ones are all in the counter an operator reads.
NothingVanishes ==
    /\ dropped = Cardinality((1..offered)
                   \ (Waiting \cup Taken \cup abandoned \cup {evt}))
    /\ Waiting \cap (Taken \cup abandoned) = {}

\* The destination sees the events in the order they were published, an event
\* again only right after itself (an answer lost is retried) and never more often
\* than the attempts configured: a retry does not overtake.
TakenInOrder ==
    /\ \A i \in 1 .. Len(taken) - 1 : taken[i] <= taken[i + 1]
    /\ \A e \in Taken : Cardinality({i \in 1..Len(taken) : taken[i] = e}) <= MaxAttempts

\* "Close drains the queue, then closes the underlying sink": by then every
\* event accepted was delivered or given up on, and nothing is published to a
\* closed destination afterwards.
CloseDrains ==
    closer = "closed" => /\ queue = <<>> /\ evt = 0 /\ runner = "returned"
                         /\ 1..offered \subseteq Taken \cup abandoned \cup refused

\* What the sink owes its caller at every moment, whatever the destination does.
Delivery == TypeOK /\ NothingVanishes /\ TakenInOrder /\ CloseDrains

\* However the destination behaves, an event accepted is settled in the end and
\* Close returns.
EventsSettle ==
    /\ \A e \in Events : e \in Waiting ~> e \in Taken \cup abandoned
    /\ closer = "wait" ~> closer = "closed"
==============================================================================
