------------------------------- MODULE Console -------------------------------
(***************************************************************************)
(* itztli, the web console: the requests of the tabs of its readers, the   *)
(* cached snapshot of the event log they share, the explanations generated *)
(* outside the requests, and the server it asks.  What a page shows is     *)
(* reduced to the requests it offers.                                      *)
(***************************************************************************)
EXTENDS Incidents, FiniteSetsExt

CONSTANTS
    Tabs,
    Reports,          \* what an event may be: [service, source, changes, severity, anomaly]
    Gaps, Ranges, Floors,                  \* the choices of the filter
    DefaultRange, DefaultFloor,            \* the configured ones
    Window, CacheTTL, StaleLimit, PageSize,
    ExplainTimeout, ExplainRetention,
    Lags,                                  \* how late an event may be
    MaxTime, MaxEvents, MaxRequests        \* bounds

VARIABLES
    clock,
    events,    \* the event log of the server
    marks,     \* how many markings the server has taken
    marked,    \* history: the last one whose handler has returned
    snapshot,  \* Client.snapshot: [at, events, marks], at = -1 for nil
    lock,      \* Client.mutex, held by a tab that fetches
    jobs,      \* explainJobs: incident -> [done, reading, started, finished]
    runs,      \* the generations in flight: [id, read, n]
    page,      \* tab -> what it shows
    asks,      \* tab -> the request it waits for
    requests

console == <<clock, events, marks, marked, snapshot, lock, jobs, runs, page, asks, requests>>

None == [kind |-> "none"]
NoSnapshot == [at |-> -1, events |-> <<>>, marks |-> 0]
Unlocked == [by |-> {}, since |-> 0, answer |-> NoSnapshot]
NoReading == [id |-> 0, read |-> 0]

Init ==
    /\ clock = 0 /\ events = <<>> /\ marks = 0 /\ marked = 0
    /\ snapshot = NoSnapshot /\ lock = Unlocked
    /\ jobs = <<>> /\ runs = {} /\ requests = 0
    /\ page = [t \in Tabs |-> None] /\ asks = [t \in Tabs |-> None]

----------------------------------------------------------------------------
(* The requests the pages offer *)

DefaultFilter == [gap |-> 0, range |-> DefaultRange, floor |-> DefaultFloor]

\* incidentFilter: a range as wide as the window is no range.
IncidentFilter(gap, range, floor) ==
    [gap |-> GapOr(gap), range |-> IF range >= Window THEN 0 ELSE range, floor |-> floor]

Home == [kind |-> "list", filter |-> DefaultFilter]
Detail(id) == [kind |-> "detail", id |-> id, gap |-> 0]
Explain(id) == [kind |-> "explain", id |-> id]
Reset(id) == [kind |-> "reset", id |-> id]
Mark(id) == [kind |-> "mark", id |-> id]

Shell == {Home}

IncidentFilters(f) ==
    {[kind |-> "list", filter |-> g] : g \in
       {[f EXCEPT !.gap = x] : x \in Gaps} \cup {[f EXCEPT !.range = x] : x \in Ranges}
       \cup {[f EXCEPT !.floor = x] : x \in Floors}}

\* The link of a card names the incident and nothing else.
IncidentCardView(id) == Detail(id)

IncidentBatch(p) ==
    {IncidentCardView(id) : id \in Range(p.cards)}
    \cup IF p.more THEN {[kind |-> "rows", filter |-> p.filter, offset |-> p.next]} ELSE {}

IncidentsPage(p) == IncidentFilters(p.filter) \cup IncidentBatch(p)

ExplainButtonSlot(p) == IF p.button THEN {Explain(p.id)} ELSE {}
ExplainPending(p) == {Reset(p.id)}
ExplainPanel(p) == {Explain(p.id), Reset(p.id)}
ExplainZone(p) ==
    CASE p.panel = "pending" -> ExplainPending(p)
      [] p.panel = "done" -> ExplainPanel(p)
      [] OTHER -> {}
MarkShortcut(p) == {Mark(p.id)}
DetailPage(p) == ExplainButtonSlot(p) \cup ExplainZone(p) \cup MarkShortcut(p)

Offered(p) ==
    Shell \cup CASE p.kind = "list" -> IncidentsPage(p)
                 [] p.kind = "detail" -> DetailPage(p)
                 [] OTHER -> {}

Request(t) ==
    /\ asks[t] = None /\ requests < MaxRequests
    /\ \E r \in Offered(page[t]) : asks' = [asks EXCEPT ![t] = r]
    /\ requests' = requests + 1
    /\ UNCHANGED <<clock, events, marks, marked, snapshot, lock, jobs, runs, page>>

----------------------------------------------------------------------------
(* The explanations *)

\* prune: the answers past the retention, the jobs left running.
Pruned(js) ==
    LET Stale(j) == IF j.done THEN clock - j.finished > ExplainRetention
                    ELSE clock - j.started > ExplainRetention + ExplainTimeout
    IN  [id \in {i \in DOMAIN js : ~Stale(js[i])} |-> js[id]]

Started(js, id) ==
    [i \in DOMAIN js \cup {id} |->
       IF i = id THEN [done |-> FALSE, reading |-> NoReading, started |-> clock, finished |-> 0]
       ELSE js[i]]

\* finish: the job may have been dismissed, and asked for again.
Finish(js, id, reading) ==
    IF id \notin DOMAIN js THEN js
    ELSE [js EXCEPT ![id].done = TRUE, ![id].reading = reading, ![id].finished = clock]

ExplainView(js, id) ==
    IF id \notin DOMAIN js THEN "idle" ELSE IF js[id].done THEN "done" ELSE "pending"

\* The answer to a request about the explanation: the zone and the button.
Panel(p, js) ==
    LET view == ExplainView(js, p.id) IN
    IF p.kind /= "detail" THEN p
    ELSE [p EXCEPT !.panel = view, !.button = view = "idle"]

\* handleExplain: a generation in flight is joined, otherwise the incident
\* is looked up.
HandleExplain(t) ==
    /\ asks[t].kind = "explain"
    /\ LET id == asks[t].id
           js == Pruned(jobs)
           joined == id \in DOMAIN js /\ ~js[id].done IN
       /\ jobs' = IF joined THEN js ELSE Started(js, id)
       /\ page' = IF joined THEN [page EXCEPT ![t] = Panel(@, js)] ELSE page
       /\ asks' = [asks EXCEPT ![t] = IF joined THEN None
                     ELSE [kind |-> "explaining", id |-> id, gap |-> 0]]
    /\ UNCHANGED <<clock, events, marks, marked, snapshot, lock, runs, requests>>

\* runExplain: the model answers, or fails, or the timeout does.
RunExplain ==
    /\ \E run \in runs, answers \in BOOLEAN :
         /\ runs' = runs \ {run}
         /\ jobs' = Finish(jobs, run.id, IF answers THEN [id |-> run.id, read |-> run.read]
                                         ELSE NoReading)
    /\ UNCHANGED <<clock, events, marks, marked, snapshot, lock, page, asks, requests>>

\* handleExplainStatus: the pending panel polls, and swaps the zone alone.
HandleExplainStatus(t) ==
    /\ page[t].kind = "detail" /\ page[t].panel = "pending"
    /\ jobs' = Pruned(jobs)
    /\ page' = [page EXCEPT ![t].panel = ExplainView(Pruned(jobs), page[t].id)]
    /\ UNCHANGED <<clock, events, marks, marked, snapshot, lock, runs, asks, requests>>

HandleExplainReset(t) ==
    /\ asks[t].kind = "reset" /\ asks' = [asks EXCEPT ![t] = None]
    /\ jobs' = LET js == Pruned(jobs) IN [i \in DOMAIN js \ {asks[t].id} |-> js[i]]
    /\ page' = [page EXCEPT ![t] = Panel(@, jobs')]
    /\ UNCHANGED <<clock, events, marks, marked, snapshot, lock, runs, requests>>

----------------------------------------------------------------------------
(* The pages built from the snapshot *)

\* queryOf and Incidents: the newest first.
Incidents(snap, filter) ==
    LET in(incident) ==
          /\ filter.range = 0 \/ End(incident) >= clock - filter.range
          /\ SeverityRank(Severity(incident)) >= SeverityRank(filter.floor)
        shown == SelectSeq(Group(snap.events, filter.gap), in)
    IN  SortedBy(shown, [k \in DOMAIN shown |-> -Start(shown[k])])

IncidentID(incident) == Trigger(incident).id

\* Incident: over the whole window, with the gap of the request.
Incident(snap, id, gap) ==
    LET filter == IncidentFilter(gap, 0, "all")
        incidents == Incidents(snap, filter)
    IN  \E i \in DOMAIN incidents : IncidentID(incidents[i]) = id

\* incidentCards: one page of the list.
IncidentCards(incidents, offset) ==
    LET from == Min({offset, Len(incidents)})
        to == Min({from + PageSize, Len(incidents)})
    IN  [ids |-> [k \in 1..to - from |-> IncidentID(incidents[from + k])],
         next |-> to, more |-> to < Len(incidents)]

ListPage(filter, cards, ids, snap) ==
    [kind |-> "list", filter |-> filter, cards |-> ids,
     next |-> cards.next, more |-> cards.more, read |-> snap.at]

\* The handler of tab t is given a snapshot: of a page of the list,
ServeList(t, snap) ==
    LET r == asks[t]
        filter == IncidentFilter(r.filter.gap, r.filter.range, r.filter.floor)
    IN  /\ \E cards \in {IncidentCards(Incidents(snap, filter),
                                       IF r.kind = "rows" THEN r.offset ELSE 0)} :
             page' = [page EXCEPT ![t] = ListPage(filter, cards,
                        IF r.kind = "rows" THEN @.cards \o cards.ids ELSE cards.ids, snap)]
        /\ asks' = [asks EXCEPT ![t] = None] /\ UNCHANGED <<jobs, runs>>

\* of an incident, or the list again if it is not found,
ServeDetail(t, found) ==
    IF ~found
    THEN asks' = [asks EXCEPT ![t] = Home] /\ UNCHANGED <<page, jobs, runs>>
    ELSE /\ jobs' = Pruned(jobs)
         /\ page' = [page EXCEPT ![t] = Panel([kind |-> "detail", id |-> asks[t].id,
                       panel |-> "idle", button |-> FALSE], jobs')]
         /\ asks' = [asks EXCEPT ![t] = None] /\ UNCHANGED runs

\* or of the incident to explain, whose generation starts.
ServeExplain(t, found) ==
    LET id == asks[t].id IN
    /\ runs' = IF found THEN runs \cup {[id |-> id, read |-> clock, n |-> requests]} ELSE runs
    /\ jobs' = IF found THEN jobs ELSE Finish(jobs, id, NoReading)
    /\ page' = [page EXCEPT ![t] = Panel(@, jobs')]
    /\ asks' = [asks EXCEPT ![t] = None]

Serve(t, snap) ==
    \/ asks[t].kind \in {"list", "rows"} /\ ServeList(t, snap)
    \/ /\ asks[t].kind \in {"detail", "explaining"}
       /\ \E found \in {Incident(snap, asks[t].id, asks[t].gap)} :
            IF asks[t].kind = "detail" THEN ServeDetail(t, found) ELSE ServeExplain(t, found)

Reading(t) == asks[t].kind \in {"list", "rows", "detail", "explaining"}
Aged(limit) == snapshot = NoSnapshot \/ clock - snapshot.at >= limit

\* snapshotOf, with the mutex for as long as it takes: from the cache,
FromCache(t) ==
    /\ Reading(t) /\ lock = Unlocked /\ ~Aged(CacheTTL) /\ Serve(t, snapshot)
    /\ UNCHANGED <<clock, events, marks, marked, snapshot, lock, requests>>

\* or by asking the server,
Fetch(t) ==
    /\ Reading(t) /\ lock = Unlocked /\ Aged(CacheTTL)
    /\ lock' = [Unlocked EXCEPT !.by = {t}, !.since = clock - Window]
    /\ UNCHANGED <<clock, events, marks, marked, snapshot, jobs, runs, page, asks, requests>>

\* External: the server answers what it holds at that time.
ListEvents ==
    /\ lock.by /= {} /\ lock.answer = NoSnapshot
    /\ lock' = [lock EXCEPT !.answer = [at |-> 0, marks |-> marks,
                  events |-> SelectSeq(events, LAMBDA e : e.at >= lock.since /\ e.anomaly)]]
    /\ UNCHANGED <<clock, events, marks, marked, snapshot, jobs, runs, page, asks, requests>>

Fetched(t) ==
    /\ lock.by = {t} /\ lock.answer /= NoSnapshot
    /\ snapshot' = [lock.answer EXCEPT !.at = clock] /\ lock' = Unlocked
    /\ Serve(t, snapshot')
    /\ UNCHANGED <<clock, events, marks, marked, requests>>

\* which may fail: the last snapshot serves while it is not ancient.
FetchFails(t) ==
    /\ lock.by = {t} /\ lock' = Unlocked
    /\ IF ~Aged(StaleLimit) THEN Serve(t, snapshot)
       ELSE /\ asks' = [asks EXCEPT ![t] = None] /\ UNCHANGED runs
            /\ IF asks[t].kind = "explaining"
               THEN /\ jobs' = Finish(jobs, asks[t].id, NoReading)
                    /\ page' = [page EXCEPT ![t] = Panel(@, jobs')]
               ELSE page' = [page EXCEPT ![t] = [kind |-> "error"]] /\ UNCHANGED jobs
    /\ UNCHANGED <<clock, events, marks, marked, snapshot, requests>>

\* handleIncidentMark: the server takes the marking, or fails to,
HandleIncidentMark(t) ==
    /\ asks[t].kind = "mark"
    /\ \/ /\ marks' = marks + 1
          /\ asks' = [asks EXCEPT ![t] = [kind |-> "marked", n |-> marks']]
       \/ asks' = [asks EXCEPT ![t] = None] /\ UNCHANGED marks
    /\ UNCHANGED <<clock, events, marked, snapshot, lock, jobs, runs, page, requests>>

\* Mutant: the snapshot is dropped without waiting for a fetch.
InvalidateAtOnce(t) ==
    /\ asks[t].kind = "marked" /\ asks' = [asks EXCEPT ![t] = None]
    /\ snapshot' = NoSnapshot /\ marked' = Max({marked, asks[t].n})
    /\ UNCHANGED <<clock, events, marks, lock, jobs, runs, page, requests>>

\* then the snapshot is dropped, under the mutex.
Invalidate(t) ==
    /\ asks[t].kind = "marked" /\ asks' = [asks EXCEPT ![t] = None]
    /\ lock = Unlocked
    /\ snapshot' = NoSnapshot /\ marked' = Max({marked, asks[t].n})
    /\ UNCHANGED <<clock, events, marks, lock, jobs, runs, page, requests>>

----------------------------------------------------------------------------
\* External: the server publishes an event.
Publish ==
    /\ Len(events) < MaxEvents
    /\ \E r \in Reports, lag \in Lags :
         /\ lag <= clock
         /\ events' = Append(events, [id |-> Len(events) + 1, at |-> clock - lag,
              service |-> r.service, source |-> r.source, changes |-> r.changes,
              severity |-> r.severity, anomaly |-> r.anomaly])
    /\ UNCHANGED <<clock, marks, marked, snapshot, lock, jobs, runs, page, asks, requests>>

\* A generation does not outlive its timeout.
Tick ==
    /\ clock < MaxTime /\ clock' = clock + 1
    /\ \A run \in runs : clock < run.read + ExplainTimeout
    /\ UNCHANGED <<events, marks, marked, snapshot, lock, jobs, runs, page, asks, requests>>

Handle(t) ==
    \/ HandleExplain(t) \/ HandleExplainReset(t) \/ HandleIncidentMark(t) \/ Invalidate(t)
    \/ FromCache(t) \/ Fetch(t) \/ Fetched(t) \/ FetchFails(t)

Next ==
    \/ Publish \/ Tick \/ RunExplain \/ ListEvents
    \/ \E t \in Tabs : Request(t) \/ HandleExplainStatus(t) \/ Handle(t)

Spec == Init /\ [][Next]_console

----------------------------------------------------------------------------
(* Properties *)

\* A marking is seen by the pages built once its handler has returned: no
\* snapshot read before it is kept, the one a fetch was reading included.
MarksSeen == snapshot /= NoSnapshot => snapshot.marks >= marked

\* An answer shown for an incident is a reading of that incident, and not an
\* old one, even when the job was dismissed and asked for again meanwhile.
AnswersFit ==
    \A id \in DOMAIN jobs :
      jobs[id].done /\ jobs[id].reading /= NoReading =>
        /\ jobs[id].reading.id = id
        /\ jobs[id].finished - jobs[id].reading.read <= ExplainTimeout

\* Nobody waits for an answer that nobody prepares: a pending job has its
\* generation in flight, or the handler that will start it, whatever the
\* other tabs dismiss or ask again and whether the model answers or not.
PendingIsOwned ==
    \A id \in DOMAIN jobs : ~jobs[id].done =>
      \/ \E run \in runs : run.id = id
      \/ \E t \in Tabs : asks[t].kind = "explaining" /\ asks[t].id = id

\* What a page shows is true: the markings, the explanations, and those that
\* are said to come.
PagesTellTheTruth == MarksSeen /\ AnswersFit /\ PendingIsOwned
=============================================================================
