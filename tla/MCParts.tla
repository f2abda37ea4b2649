------------------------------- MODULE MCParts -------------------------------
\* The parts that meet the rest of the system through what they keep, side by
\* side in one model, of which one runs while the others rest: the dampener,
\* the metric detector, the persistence of the state and the event log; the
\* stages an observation goes through; the collectors of journald, of
\* Kubernetes changes and events, of Scaleway, of containers and of metrics;
\* the plugins; the console and its sessions; the operator, and the terminal.
EXTENDS Persistence, Integers, TLC

CONSTANTS
    t1, t2, s1, s2, none,
    \* those of the dampener
    Patterns, Scores, Cooldown, MaxCooldown, Escalation, MaxTracked, LastSignal,
    MaxLag, MaxSeen,
    \* those of the metric detector
    Gauges, Families, WarmupSamples, SeasonalDays, MaxSeries, SeriesTTL, SweepInterval,
    SeasonalTolerance, MaxDeviations, MetricDay, LastSample, MaxGap, MaxSamples, MaxOrders,
    \* those of the journald plugin
    Journal, Excluded, Transient, Routes, MaxLearned,
    \* those of the watchers of changes and of events
    Objects, MaxChanges, MaxOccurrences, MaxBreaks,
    \* those of the tailer of pods
    Pods, Second, InitialSince, FirstWait, LongestWait, LongEnough, LongLines, LastLine,
    MaxPodLines, MaxMoves, MaxEnds,
    \* those of the collectors of containers and of metrics
    Ids, Names, ServiceNamed, Width, LastTick, MaxBootings, MaxRuns, Queries, Answers,
    LastReading,
    \* those of the scaleway plugin
    At, Of, Blank, Limit, Lookback, Environment, MaxPolls, MaxRefreshes,
    \* those of the event log
    LogDay, Retention, Skews, LogEnd, MaxBatches, MaxTorn,
    \* those of the plugins
    Installable, Supervised, Releases, FirstRestart, LongestRestart, LastRestart, MaxInstalls,
    \* those of the sessions of the console
    Browsers, Modes, SessionTTL, TripTTL, Slots, LastVisit, MaxTokens,
    \* those of the operator
    Texts, Glob, Markings, Configured, Tabs, MaxRead, MaxCommands, MaxCrashes,
    \* those of the terminal
    EventHistory, RingSize, Behind, MaxEvents, MaxMarks, MaxBoots, MaxListings

VARIABLES
    which,  \* the part that runs
    patterns, latest, seen, since, evicted, reports, verdict,
    series, ignored, lastSweep, told, newest, real, drifts, samples, orders,
    size, phase, pos, cursors, resolver, jDisk, sent, origin, upto, clean, jLives,
    cluster, log, lw, breaks, state, seeded, wTold, baseline,
    stored, cursor, atCursor, byID, existing, deleted, cLife, shipped, twice, starts,
    refreshes,
    now, segments, file, batch, last, accepted, batches, torn,
    pClock, dir, install, installs, process, pStarts,
    mode, time, tokens, sessions, cookie, trip, away, loads, shown, closed, opened,
    clock, events, marks, marked, kSnapshot, lock, jobs, runs, page, asks, requests,
    up, live, oDisk, text, flight, oLines, forgetting, cli, oPage, decided, fresh, cut,
    doomed, commands, crashes,
    tUp, boot, boots, published, tMarked, stream, pipe, dropped, streaming,
    tEvents, known, tRefreshes, tShown, screen, marking,
    reported, workers, eTold, eFrom,
    system, running, bootings, prevCPU, poll, shares, used, hStarts,
    poller, turn, collected, pTold, worth, counters, pPrev, pSpent,
    pods, podLog, tLw, ends, tClock, tLines, tailed, tails

dampener == <<patterns, latest, seen, since, evicted, reports, verdict>>
metric == <<series, ignored, lastSweep, told, newest, real, drifts, samples, orders>>
journald == <<size, phase, pos, cursors, resolver, jDisk, sent, origin, upto,
              clean, jLives>>
listwatch == <<cluster, log, lw, breaks>>
workloads == <<state, seeded, wTold, baseline>>
occurrences == <<eTold, eFrom>>
containers == <<system, running, bootings, prevCPU, poll, shares, used, hStarts>>
pollers == <<poller, turn, collected, pTold, worth, counters, pPrev, pSpent>>
podlogs == <<pods, podLog, tLw, ends, tClock, tLines, tailed, tails>>
cockpit == <<stored, cursor, atCursor, byID, existing, deleted, cLife, shipped, twice,
             starts, refreshes>>
eventlog == <<now, segments, file, batch, last, accepted, batches, torn>>
plugins == <<pClock, dir, install, installs, process, pStarts>>
login == <<mode, time, tokens, sessions, cookie, trip, away, loads, shown, closed, opened>>
console == <<clock, events, marks, marked, kSnapshot, lock, jobs, runs, page, asks,
             requests>>
operator == <<up, live, oDisk, text, flight, oLines, forgetting, cli, oPage,
              decided, fresh, cut, doomed, commands, crashes>>
terminal == <<tUp, boot, boots, published, tMarked, stream, pipe, dropped,
              streaming, tEvents, known, tRefreshes, tShown, screen, marking>>
parts == <<which, dampener, vars, metric, journald, listwatch, workloads,
           occurrences, containers, pollers, cockpit, eventlog, plugins, login,
           console, operator, terminal, reported, workers, podlogs>>

----------------------------------------------------------------------------
(* The instances *)

Dampener == INSTANCE Dampener WITH MaxTime <- LastSignal

TheFamilies == <<{"a"}>>
Metric == INSTANCE MetricDetector WITH
    Series <- Gauges, Patterns <- Families, Day <- MetricDay, MaxTime <- LastSample,
    MaxLag <- 0

Entry(unit, identifier, message) ==
    [unit |-> unit, identifier |-> identifier, message |-> message]
TheJournal ==
    <<Entry("cron", "cron", "a"), Entry("session-1", "cron", "a"),
      Entry("", "cron", "a"), Entry("tezcatl", "t", "a"), Entry("ssh", "sshd", ""),
      Entry("ssh", "sshd", "b")>>
TheSessions == [s \in {"session-1"} |-> "session"]
TheRoutes == <<[messages |-> {"b"}, service |-> "deploy"]>>
Journald == INSTANCE Journald WITH disk <- jDisk, lives <- jLives

\* What may become of a workload: its pods come and go, its template, its
\* restart annotation or its replicas change, or it is deleted.
Born == [generation |-> 1, image |-> 1, restarted |-> 0, replicas |-> 1, ready |-> FALSE]
Bump(v) == [v EXCEPT !.generation = @ + 1]
SpecWrites(v) ==
    IF v = none THEN {Born}
    ELSE {none, [v EXCEPT !.ready = ~@], Bump(v), Bump([v EXCEPT !.image = 3 - @]),
          Bump([v EXCEPT !.restarted = 1]), Bump([v EXCEPT !.replicas = 3 - @])}
Workloads == INSTANCE Workloads WITH
    Absent <- none, Writes <- SpecWrites, MaxWrites <- MaxChanges, told <- wTold

\* What may become of an event: it occurs, again, or expires.
Occurrences(n) == IF n = none THEN {1} ELSE {none, n + 1}
ClusterEvents == INSTANCE ClusterEvents WITH
    Absent <- none, Writes <- Occurrences, MaxWrites <- MaxOccurrences,
    told <- eTold, from <- eFrom

\* The phase of a pod moves as Kubernetes lets it.
PhaseWrites(p) ==
    CASE p = none -> {"Pending", "Running"}
      [] p \in {"Pending", "Unknown"} -> {"Running"}
      [] p = "Running" -> {"Unknown", "Succeeded", none}
      [] OTHER -> {none}
PodLogs == INSTANCE PodLogs WITH
    Objects <- Pods, Absent <- none, Writes <- PhaseWrites, MaxWrites <- MaxMoves,
    MaxBreaks <- MaxEnds, InitialBackoff <- FirstWait, MaxBackoff <- LongestWait,
    MaxTime <- LastLine, MaxLines <- MaxPodLines,
    cluster <- pods, log <- podLog, lw <- tLw, breaks <- ends, clock <- tClock,
    lines <- tLines, streams <- tailed

TheServices == [n \in {"web"} |-> n]
Containers == INSTANCE Containers WITH
    MaxTime <- LastTick, MaxBoots <- MaxBootings, MaxStarts <- MaxRuns, boots <- bootings,
    spent <- used, starts <- hStarts

Sample(value, dated) == [value |-> value, dated |-> dated]
ServerAnswers ==
    {none, <<>>, <<Sample(TRUE, TRUE)>>, <<Sample(TRUE, TRUE), Sample(FALSE, TRUE)>>,
     <<Sample(TRUE, FALSE), Sample(TRUE, TRUE)>>}
TheQueries ==
    [prometheus |-> <<"up", "errors">>, scaleway |-> <<"memory", "requests">>,
     host |-> <<"cpu", "memory", "load">>]
TheAnswers ==
    [prometheus |-> ServerAnswers, scaleway |-> ServerAnswers,
     host |-> {none, <<Sample(TRUE, TRUE)>>}]
Pollers == INSTANCE Pollers WITH
    Failed <- none, MaxTime <- LastReading, batch <- collected, told <- pTold,
    prevCPU <- pPrev, spent <- pSpent

SomeTimes == <<1, 2, 2, 2, 3, 4>>
SomeContainers == <<"c1", "c1", "c2", "c1", "c2", "c1">>
Cockpit == INSTANCE Cockpit WITH MaxLives <- MaxPolls, seen <- atCursor, life <- cLife

SomeSkews == {-2, 0, 2}
EventLog == INSTANCE EventLog WITH Day <- LogDay, MaxTime <- LogEnd

TheReleases ==
    {[assets |-> {"journald", "host"}, checksums |-> {"journald"}],
     [assets |-> {"host"}, checksums |-> {}]}
Plugins == INSTANCE Plugins WITH
    Names <- Installable, InitialBackoff <- FirstRestart, MaxBackoff <- LongestRestart,
    MaxTime <- LastRestart, clock <- pClock, starts <- pStarts

Login == INSTANCE Login WITH MaxTime <- LastVisit

Console == INSTANCE Console WITH
    DefaultGap <- 3, MaxDuration <- 4, CoOccurrence <- 0, Tabs <- {t1, t2},
    Reports <- {[service |-> "a", source |-> "x", changes |-> {},
                 severity |-> "critical", anomaly |-> TRUE]},
    Gaps <- {0, 1}, Ranges <- {2}, Floors <- {"critical"}, DefaultRange <- 2,
    DefaultFloor <- "critical", Window <- 5, CacheTTL <- 1, StaleLimit <- 2,
    PageSize <- 1, ExplainTimeout <- 1, ExplainRetention <- 1, Lags <- {0},
    MaxTime <- 2, MaxEvents <- 2, MaxRequests <- 5, snapshot <- kSnapshot

SomeMarks == [k \in {"a", "b", "*"} |-> IF k = "a" THEN "symptomatic" ELSE ""]
Operator == INSTANCE Operator WITH
    MaxLines <- MaxRead, disk <- oDisk, lines <- oLines, page <- oPage

Terminal == INSTANCE Terminal WITH
    MaxRefreshes <- MaxListings, up <- tUp, marked <- tMarked, events <- tEvents,
    seen <- known, refreshes <- tRefreshes, shown <- tShown

\* The grouping of incidents has no state: it is asked about every sequence of
\* up to four events.
Incidents == INSTANCE Incidents WITH
    DefaultGap <- 1, MaxDuration <- 2, CoOccurrence <- 0
Events == [service : {"a"}, source : {"x"}, changes : {{}, {"c"}}, severity : {"critical"}]
          \cup [service : {""}, source : {"b"}, changes : {{}, {"c"}}, severity : {"warning"}]
Reported ==
    /\ Len(reported) < 4
    /\ \E e \in Events, after \in -1..2 :
         LET before == IF reported = <<>> THEN 0 ELSE reported[Len(reported)].at IN
         reported' = Append(reported, [id |-> Len(reported) + 1, at |-> before + after] @@ e)

\* What collectors make: lines that bear a timestamp, a tag and an envelope or
\* not, or that come unwrapped; samples and changes; some without a service.
NoText == [of |-> "", size |-> 0]
Text(of) == [of |-> of, size |-> 3]
NoLevel == <<"word", "">>
Bodies ==
    [text : {Text("body")}, json : {FALSE}, time : {0}]
    \cup [text : {Text("envelope")}, json : {TRUE}, time : {0, 2},
          message : {NoText, Text("message")}, level : {<<"number", 4>>, <<"word", "odd">>}]
Raws == [size : {3}, stamp : {0, 3}, dressed : BOOLEAN, body : Bodies]
Plain == [size |-> 3, stamp |-> 0, dressed |-> FALSE,
          body |-> [text |-> Text("body"), json |-> FALSE, time |-> 0]]
Logs ==
    [kind : {"log"}, raw : Raws, message : {NoText}, level : {NoLevel}]
    \cup [kind : {"log"}, raw : {Plain}, message : {Text("unwrapped")},
          level : {NoLevel, <<"word", "notice">>, <<"word", "odd">>}]
Named == [kind : {"metric", "change"}, name : {"", "name"}]
Observed(services, environments, modalities, times, payloads) ==
    [id : {FALSE}, source : {<<>>}, service : services, environment : environments,
     modality : modalities, at : times, ingested : {5}, payload : payloads]
Observations ==
    Observed({"web"}, {"", "prod"}, {"log"}, {0, 1}, Logs)
    \cup Observed({"", "web"}, {""}, {"metric", "trace"}, {0}, Named)
Stages == INSTANCE Stages WITH
    Inputs <- Observations, Workers <- {1}, MaxLogLength <- 2,
    Route <- [key \in {"", "prod"} \X {"", "web"} |-> 1]

ASSUME PartsAssumption ==
       /\ Dampener!DampenerAssumption /\ PersistenceAssumption
       /\ Metric!MetricAssumption /\ Journald!JournaldAssumption /\ PodLogs!PodLogsAssumption
       /\ EventLog!EventLogAssumption /\ Plugins!PluginsAssumption
       /\ Terminal!TerminalAssumption /\ Cockpit!CockpitAssumption
       /\ Containers!ContainersAssumption /\ Pollers!PollersAssumption

\* The templates of the persistence, the browsers and the tabs of the console.
Symmetry == Permutations({t1, t2})

----------------------------------------------------------------------------
Rest(part) ==
    /\ UNCHANGED which
    /\ IF part = "dampener" THEN TRUE ELSE UNCHANGED dampener
    /\ IF part = "persistence" THEN TRUE ELSE UNCHANGED vars
    /\ IF part = "metric" THEN TRUE ELSE UNCHANGED metric
    /\ IF part = "journald" THEN TRUE ELSE UNCHANGED journald
    /\ IF part \in {"workloads", "events"} THEN TRUE ELSE UNCHANGED listwatch
    /\ IF part = "workloads" THEN TRUE ELSE UNCHANGED workloads
    /\ IF part = "events" THEN TRUE ELSE UNCHANGED occurrences
    /\ IF part = "podlogs" THEN TRUE ELSE UNCHANGED podlogs
    /\ IF part = "containers" THEN TRUE ELSE UNCHANGED containers
    /\ IF part = "pollers" THEN TRUE ELSE UNCHANGED pollers
    /\ IF part = "stages" THEN TRUE ELSE UNCHANGED workers
    /\ IF part = "cockpit" THEN TRUE ELSE UNCHANGED cockpit
    /\ IF part = "eventlog" THEN TRUE ELSE UNCHANGED eventlog
    /\ IF part = "plugins" THEN TRUE ELSE UNCHANGED plugins
    /\ IF part = "login" THEN TRUE ELSE UNCHANGED login
    /\ IF part = "console" THEN TRUE ELSE UNCHANGED console
    /\ IF part = "operator" THEN TRUE ELSE UNCHANGED operator
    /\ IF part = "terminal" THEN TRUE ELSE UNCHANGED terminal
    /\ IF part = "incidents" THEN TRUE ELSE UNCHANGED reported

Runs(part) == which = part /\ Rest(part)

InitParts ==
    /\ which \in {"dampener", "persistence", "metric", "journald", "workloads",
                  "cockpit", "eventlog", "plugins", "login", "console", "operator",
                  "terminal", "incidents", "events", "podlogs", "containers",
                  "pollers", "stages"}
    /\ Dampener!Init /\ Init /\ Metric!Init /\ Journald!Init
    /\ Workloads!Init /\ Cockpit!Init /\ EventLog!Init /\ Plugins!Init /\ Login!Init
    /\ Console!Init /\ Operator!Init /\ Terminal!Init /\ reported = <<>>
    /\ ClusterEvents!Init /\ PodLogs!Init /\ Containers!Init /\ Pollers!Init /\ Stages!Init
    /\ which # "pollers" => poller = "host"
    /\ which # "login" => mode = CHOOSE m \in Modes : TRUE
    /\ which # "operator" => text = CHOOSE t \in Texts : TRUE

NextParts ==
    \/ Runs("dampener") /\ Dampener!Next
    \/ Runs("persistence") /\ Next
    \/ Runs("metric") /\ Metric!Next
    \/ Runs("journald") /\ Journald!Next
    \/ Runs("workloads") /\ Workloads!Next
    \/ Runs("cockpit") /\ Cockpit!Next
    \/ Runs("eventlog") /\ EventLog!Next
    \/ Runs("plugins") /\ Plugins!Next
    \/ Runs("login") /\ Login!Next
    \/ Runs("console") /\ Console!Next
    \/ Runs("operator") /\ Operator!Next
    \/ Runs("terminal") /\ Terminal!Next
    \/ Runs("incidents") /\ Reported
    \/ Runs("events") /\ ClusterEvents!Next
    \/ Runs("podlogs") /\ PodLogs!Next
    \/ Runs("containers") /\ Containers!Next
    \/ Runs("pollers") /\ Pollers!Next
    \/ Runs("stages") /\ Stages!Next

SpecParts == InitParts /\ [][NextParts]_parts

----------------------------------------------------------------------------
(* The properties of the parts; one that rests has nothing to show *)

SilencesFit == which = "dampener" => Dampener!SilencesFit
KeepsPromise ==
    Dampener!Promise!Init /\ [][which = "dampener" => Dampener!Promise!Step]_parts
DeviationsAreTold == which = "metric" => Metric!DeviationsAreTold
ResumesWhereItStopped == which = "journald" => Journald!ResumesWhereItStopped
ClusterIsTold ==
    /\ which = "workloads" => Workloads!ChangesChain
    /\ which = "events" => ClusterEvents!OccurrencesAreTold
TailsAreWhole == which = "podlogs" => PodLogs!TailsAreWhole
MetricsAreReal ==
    /\ which = "containers" => Containers!ContainersAreReal
    /\ which = "pollers" => Pollers!EachQueryForItself
StagesAgree == which = "stages" => Stages!StagesAgree
PollsMissNothing == which = "cockpit" => Cockpit!PollsMissNothing
NamesStick == [][which = "cockpit" => Cockpit!NameSticks]_parts
QueryFindsRetained == which = "eventlog" => EventLog!QueryFindsRetained
PluginsAreKept == which = "plugins" => Plugins!PluginsAreKept
TripsClose == which = "login" => Login!TripsClose
PagesTellTheTruth == which = "console" => Console!PagesTellTheTruth
DecisionsHold == which = "operator" => Operator!DecisionsHold
FeedIsWhole == which = "terminal" => Terminal!FeedIsWhole
WellGrouped == which = "incidents" => Incidents!WellGrouped(reported, 0)
==============================================================================
