------------------------------- MODULE Terminal -------------------------------
(***************************************************************************)
(* tezcatl top: the terminal view follows the events of a server that may  *)
(* be restarted, seeded from its event log, and refreshes the templates    *)
(* and series it shows, from which the operator marks one.  Events are     *)
(* numbered as they are published; a listing is the number of the markings *)
(* it shows.  The screen is drawn by one goroutine, from what it holds.    *)
(***************************************************************************)
EXTENDS Integers, Sequences, FiniteSets, Functions

CONSTANTS
    EventHistory,  \* how many events are asked for, and kept
    RingSize,      \* what the feed of the server remembers
    Behind,        \* how far a subscriber may fall behind
    MaxEvents, MaxMarks, MaxBoots, MaxRefreshes  \* bounds

TerminalAssumption == EventHistory \in Nat \ {0} /\ RingSize \in Nat

VARIABLES
    up, boot,    \* the server: is it running, the last event before it started
    boots,       \* how often it was restarted or the stream broken
    published,   \* how many events were, all of them in its log
    marked,      \* how many markings it took
    stream,      \* streamLoop: "seeding", "waiting", "open", "lost"
    pipe,        \* what StreamEvents still has to send: events, 0 for Ready
    dropped,     \* history: did the feed drop an event of this view
    streaming,   \* is the feed shown as live
    events, seen,  \* the events kept, oldest first, and their identities
    refreshes,   \* the refreshes in flight: [n, value], value -1 when not read
    shown,       \* the listing shown
    screen,      \* the page in front, and the focus
    marking      \* are the marks of the operator being sent

server == <<up, boot, boots, published, marked>>
feed == <<stream, pipe, dropped, streaming, events, seen>>
listing == <<refreshes, shown, screen, marking>>
terminal == <<server, feed, listing>>

Init ==
    /\ up = TRUE /\ boot = 0 /\ boots = 0 /\ published = 0 /\ marked = 0
    /\ stream = "seeding" /\ pipe = <<>> /\ dropped = FALSE /\ streaming = FALSE
    /\ events = <<>> /\ seen = {} /\ refreshes = {} /\ shown = -1
    /\ screen = "events" /\ marking = FALSE

Larger(a, b) == IF a > b THEN a ELSE b
Newest(from, n) == [i \in 1..(published - Larger(from, published - n)) |->
                      Larger(from, published - n) + i]

----------------------------------------------------------------------------
(* The server, from how the view depends on it *)

\* The events of the stream not sent yet, beyond what is replayed.
Pending == Cardinality({i \in DOMAIN pipe : \A j \in i..Len(pipe) : pipe[j] /= 0})

Publish ==
    /\ up /\ published < MaxEvents /\ published' = published + 1
    /\ LET full == Pending >= Behind IN
       /\ pipe' = IF stream = "open" /\ ~full THEN Append(pipe, published') ELSE pipe
       /\ dropped' = (dropped \/ (stream = "open" /\ full))
    /\ UNCHANGED <<up, boot, boots, marked, stream, streaming, events, seen, listing>>

\* A restart ends the stream; the feed forgets, the log does not.
Restart ==
    /\ boots < MaxBoots \/ ~up
    /\ up' = ~up /\ boots' = IF up THEN boots + 1 ELSE boots
    /\ boot' = IF up THEN boot ELSE published
    /\ stream' = IF stream = "open" THEN "lost" ELSE stream
    /\ UNCHANGED <<published, marked, pipe, dropped, streaming, events, seen, listing>>

\* The connection is lost, the server goes on.
Break ==
    /\ stream = "open" /\ boots < MaxBoots /\ boots' = boots + 1 /\ stream' = "lost"
    /\ UNCHANGED <<up, boot, published, marked, pipe, dropped, streaming, events, seen, listing>>

----------------------------------------------------------------------------
(* streamLoop *)

\* rememberEvent: unless it is known.
Remembered(view, e) == IF e \in Range(view) THEN view ELSE Append(view, e)

\* The newest ones are kept; a dropped one is no longer known.
Trimmed(view) ==
    IF Len(view) > EventHistory
    THEN SubSeq(view, Len(view) - EventHistory + 1, Len(view)) ELSE view

Remember(e) ==
    /\ events' = Trimmed(Remembered(events, e)) /\ seen' = Range(events')

\* ListEvents: the view starts with the log, when the server answers.
Seed ==
    /\ stream = "seeding" /\ stream' = "waiting"
    /\ \/ up /\ events' = Newest(0, EventHistory) /\ seen' = Range(events')
       \/ UNCHANGED <<events, seen>>
    /\ UNCHANGED <<server, pipe, dropped, streaming, listing>>

\* Mutant: the stream starts with the next event.
ReplayNothing == <<>>

\* What the feed replays to a subscriber.
Replay == Newest(boot, IF RingSize < EventHistory THEN RingSize ELSE EventHistory)

\* Events and StreamEvents: subscribed, the recent events, Ready, the others.
Connect ==
    /\ stream = "waiting" /\ up
    /\ stream' = "open" /\ pipe' = Append(Replay, 0)
    /\ UNCHANGED <<server, dropped, streaming, events, seen, listing>>

Receive ==
    /\ stream = "open" /\ pipe /= <<>> /\ pipe' = Tail(pipe)
    /\ IF Head(pipe) = 0 THEN streaming' = TRUE /\ UNCHANGED <<events, seen>>
       ELSE Remember(Head(pipe)) /\ UNCHANGED streaming
    /\ UNCHANGED <<server, stream, dropped, listing>>

\* The stream is over: what was received is kept, then the delay.
Disconnected ==
    /\ stream = "lost" /\ stream' = "waiting"
    /\ pipe' = <<>> /\ streaming' = FALSE
    /\ UNCHANGED <<server, dropped, events, seen, listing>>

----------------------------------------------------------------------------
(* The refreshes and the marks *)

FeedSame == UNCHANGED feed

\* refreshLoop, the key r and the end of a mark; several may overlap.
Refresh ==
    /\ Cardinality(refreshes) < MaxRefreshes
    /\ \E n \in (1..MaxRefreshes) \ {r.n : r \in refreshes} :
         refreshes' = refreshes \cup {[n |-> n, value |-> -1]}
    /\ FeedSame /\ UNCHANGED <<server, shown, screen, marking>>

\* The listings are asked for: an answer, or a message and nothing else.
Read ==
    /\ \E r \in refreshes :
         /\ r.value = -1
         /\ refreshes' = (refreshes \ {r})
                         \cup IF up THEN {[r EXCEPT !.value = marked]} ELSE {}
    /\ FeedSame /\ UNCHANGED <<server, shown, screen, marking>>

\* The last answer to arrive is what the next drawing shows.
Shown(value) == value

Apply ==
    /\ \E r \in refreshes :
         r.value /= -1 /\ refreshes' = refreshes \ {r} /\ shown' = Shown(r.value)
    /\ FeedSame /\ UNCHANGED <<server, screen, marking>>

\* onKey: the pages, the filter and the detail of a row, which keep the keys
\* for themselves until they are left.
SwitchTo == {"events", "templates", "metrics"}
OnKey ==
    /\ \/ screen \in SwitchTo /\ screen' \in SwitchTo \cup {"filter"}
       \/ screen \in {"events", "templates"} /\ screen' = "detail"
       \/ screen \in {"filter", "detail"} /\ screen' \in SwitchTo
    /\ FeedSame /\ UNCHANGED <<server, refreshes, shown, marking>>

\* markSelected: the row under the cursor of a listing that has one.
MarkSelected ==
    /\ screen \in {"templates", "metrics"} /\ shown >= 0 /\ ~marking /\ marking' = TRUE
    /\ FeedSame /\ UNCHANGED <<server, refreshes, shown, screen>>

\* Mark and MarkMetric: taken, and the listing refreshed; or refused.
Marked ==
    /\ marking /\ marking' = FALSE
    /\ \/ up /\ marked < MaxMarks /\ marked' = marked + 1
       \/ UNCHANGED marked
    /\ FeedSame /\ UNCHANGED <<up, boot, boots, published, refreshes, shown, screen>>

Next ==
    \/ Publish \/ Restart \/ Break \/ Seed \/ Connect \/ Receive \/ Disconnected
    \/ Refresh \/ Read \/ Apply \/ OnKey \/ MarkSelected \/ Marked

Spec == Init /\ [][Next]_terminal

----------------------------------------------------------------------------
(* Properties *)

\* The history of the log, the replay of each stream and the live events
\* overlap, and never show an event twice nor forget which ones are shown;
\* and while the feed is shown as live and all that was sent has arrived,
\* none of the newest events the server published since it started is
\* missing, unless the feed dropped one for a view too slow.
FeedIsWhole ==
    /\ Cardinality(Range(events)) = Len(events) /\ seen = Range(events)
    /\ streaming /\ stream = "open" /\ pipe = <<>> /\ ~dropped /\ RingSize >= EventHistory =>
         Range(Newest(boot, EventHistory)) \subseteq seen
==============================================================================
