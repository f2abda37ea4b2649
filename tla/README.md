# Verification of tezcatl

TLA+ models of tezcatl, an anomaly detector that turns the logs and metrics of a
fleet into a few events: what they cover, what TLC checks on small instances and
what TLAPS proves for every instance. Paths are those of the repository; every
definition that translates code is tied to its lines by the `map` of
`PROJECT.json`.

## 1. The system

    ingesters ──> dispatcher ──> workers ──> correlator ──> publisher ──> sinks
     (stdio,       (by source)    normalize    (windows,      (one         broadcast ─> admin stream
      plugins,                    mine          echoes)        goroutine)   resilient ─> webhook, postgres
      gRPC)                       detect                                    event log, stdout
                                  dampen
                                    │ state of miner and detectors
                                    └─> state manager ──> store (files, postgres)

| Component (code) | State it keeps | Operations | What makes it hard | What makes it correct |
|---|---|---|---|---|
| Engine (`internal/core/engine`) | channels of observations, of each worker and of events; counters | ingest, dispatch, process, flush on a ticker, last flush, publish, report; cancellation | eight kinds of goroutines joined by bounded channels that close in cascade; a worker emits with the correlator's mutex held; a cancellation may come anywhere | no send on a closed channel, per source order without holes, nothing lost on a clean end, `Run` returns, sinks see the same events |
| Correlator (`internal/core/correlate`, `internal/core/window`) | per source: ring of context, changes, pending event; echoes of changes; watermark | Observe, Add, AddChange, Flush | the three calls of one observation interleave with those of other workers and the flusher; two clocks; echoes fold the signals of other sources | no signal lost or told twice, events that keep their window, context without holes, critical only when corroborated |
| Dampener (`internal/core/dampen`) | per pattern: last report, last sight, score, streak | Filter | doubling silence, late timestamps, eviction | never silent beyond the maximum, a repeat only when worse or after its silence |
| Broadcast sink (`internal/core/sink/broadcast.go`) | ring of recent events, subscribers and their channels | Publish, Subscribe, cancel, Recent, Close | subscribers join, leave and stop reading while events are published | a subscriber sees a gapless history then every event it had room for; each channel closed once |
| Resilient sink (`internal/core/sink/resilient.go`) | queue, attempt, backoff | Publish, retry loop, Close | an answer is lost after the destination took the event; full queue; closing while retrying | nothing vanishes uncounted, order, bounded delay, Close drains and returns |
| Template miner (`internal/core/drain`) | per partition: prefix tree, clusters in least recently used order, counter | AddLogMessage, Match, Snapshot, Restore, Forget | nodes run out of children, clusters are evicted and generalised, the tree is rebuilt on restart | a learnt line stays found, templates stay specific, identifiers are unique |
| Detectors (`internal/core/detect`) | per template rates and known flags, markings; per series means, deviations, latches | Detect, sweep, mark, Forget, Snapshot, Restore | learning periods, caps with eviction, time to live, an operator acting on live state | known stays known, an alert latches and releases, memory bounded |
| State manager (`internal/core/state`, `internal/adapter/fs/state_store.go`, `internal/setup`) | the files of the store | RestoreAll, SaveAll at ticks and at the end | two snapshots of a moving state; crash between any two steps; the order of shutdown | identifiers unique over lives, nothing lost at a clean stop, at most an interval at a crash |
| Processor stages (`internal/core/processor`, `internal/core/model`) | none | parse, normalize, mine, analyse | the partition key is taken before the source is settled; an observation may have crossed a wire | what is learned does not depend on the way an observation came |
| Administration (`internal/core/admin`, `internal/adapter/grpc`) | none of its own | stream and query events, mark, forget | acts on the miner, then on the detectors, each under its own lock, while workers run; offline commands edit the same files | what was decided stays decided, what is forgotten is forgotten everywhere |
| Event log (`internal/adapter/fs/event_log.go`) | daily segments | append, rotate, purge, query | filed by the day of writing, read by the timestamps of the sources; torn writes | what the retention keeps is found |
| Incidents (`internal/core/incident`) | none: recomputed from the events | group | late, chronic and doubly related events | each event in one incident it is related to |
| Forwarding (`internal/adapter/grpc`, `internal/command/ingest.go`) | a buffer, a client stream, its reconnection; a server and its open streams | Send, Forward, Ingest, Stop | a failed Send, what the transport had buffered, graceful stop with a timeout | nothing skipped or sent twice, success is true, the server stops |
| Plugin supervision (`internal/plugin`, `pkg/plugin`) | running processes, the plugins directory | start, read, restart with backoff; install, list, remove | install and remove while the supervisor restarts | spaced restarts, nothing unverified installed |
| Kubernetes collector (`plugins/kubernetes`) | resource versions, known workloads, followers of pods | list, watch, tell a change or an event, tail a pod | watches that expire, streams that break, times cut to the second | changes chain, each occurrence told once, tails without a hole |
| journald collector (`plugins/journald`) | cursor, its file, learned identities | read, deliver, record, flush | crash between delivery and flush | nothing passed over, a clean stop repeats nothing |
| Scaleway collector (`plugins/scaleway`) | log cursor, directory of names | poll, page, refresh | full pages of one instant, failed emits and listings, containers that are deleted | nothing missed within the lookback, names stick while their container exists |
| Host and prometheus collectors (`plugins/host`, `plugins/prometheus`) | previous readings | poll, evaluate | counters that start over, names that move, queries that fail | shares are real, each query stands for itself |
| Console (`internal/itztli`) | cached snapshot, explanation jobs, sessions and trips | load and extend, explain, dismiss, mark, log in | an answer that comes after what it answers has moved on | pages tell the truth, an answered trip opens nothing more |
| Terminal view (`internal/tui`, `internal/command/top.go`) | feed, listings, marks in flight | seed, follow, refresh, mark | history, replay and stream overlap; server restarts | the feed shows each event once, and all of them |
| Configuration, printing commands, generated code | none | parse, print | none a model would reach | - |

`internal/setup` builds all of it and fixes two orders that matter: state is
restored before the engine starts, and saved a last time after it returned.

## 2. What is modelled

Each action is a whole handler, or the part of it between two points where
another goroutine or process can act (a channel operation, a mutex taken or
released, a call that may be answered late). Comments name the function an action
translates where its name does not. Times are small integers, texts and payloads
model values.

### The core

**Engine** (with `Streams`, `MCEngine`, `EngineProofs`). The goroutines of `Run`
and the channels between them. `Read`/`Send`/`Abort`/`Return`/`Fail` are an
ingester; `CloseObservations`/`CloserReturn` the goroutine around `ingest.Wait`;
`Dispatch*` the partitioning loop and its `select`; `WorkerReceive`, `Reject`,
`Analyse`, `WorkerFlush`, `Emit`, `Accept` a worker in the processor chain, which
is cut down to rejecting an observation or leaving an event pending and flushing
under the correlator's mutex; `Tick*`/`FlusherReturn` the ticker; `JoinWorkers`,
`FinalFlush`, `CloseEvents` the shutdown cascade; `Publish*` the publisher;
`StatsReturn` the reporter. A channel is a sequence with a capacity, closed when
the goroutine that closes it has passed that point. `Streams` is the abstract
promise: one first-in first-out stream per partition key, cut at most once.

**Stages** (with `MCStages`). What becomes of one observation before anything is
learned from it: the wire (`ToProto`, `FromProto`), the key of its worker, `ParseLog`
and `Normalize`. A line is given with what parsing can peel off it (a timestamp, the
tag of an emitter, a JSON envelope); how these are recognised is text.

**Correlator** (with `Ring`, `MCCorrelator`, `CorrelatorProofs`, `Sums`). `Observe`, `Add` and `Flush` each
hold the mutex and are one action each; the stage of the worker of each source
makes them come in order while other sources come in between. Times are small
integers on the wall clock or on the timestamps of the observations, as
configured. `Ring` is the ring buffer of `internal/core/window`. `MergeAll` merges
all signals of a call, or the share that `Add` splits off for an echo. `Detections` says
what a worker may hand to `Add`: each detector answers for its own modality only, so that
a change brings no signals and an observation brings those of one modality.

**Dampener** (with `Limiter`, `PartsProofs`). `Admit` judges one signal, in the four ways of
`admit`; `Evictions` is `makeRoom`. `Limiter` is the promise without streaks and
without the table.

**Drain** (with `MCDrain`, `DrainProofs`). One partition of the miner in full:
`Tokenize`, the search (`LeafOf`, `FastMatch`), the generalisation
(`CreateTemplate`), the insertion (`Grow`, `AddToTree`), the bounded table (`Put`,
`Touch`), `Snapshot`, `Restore` and `Forget`. A node of the tree is the path that
leads to it, and each walk of it a recursive function of the levels walked.
Similarities are compared as counts of tokens, which is exact, where the
code divides. `Restore` starts from the last snapshot whenever it likes, which
is a crash or a stop at any point.

**LogDetector** (with `MCLogDetector`, `LogDetectorProofs`). One source of the log detector. `Detect` is
the whole handler under its lock: `Evictions` is `makeRoom`, `Intervals` and `Rolled`
the statistics, `Silenced` the early return of a line marked ignore or normal (one
marking, "quiet", since the detector treats them alike), `Signalled` the rest with
the scan for what is missing (`Expected`, `Overdue`, `Scan`). The smoothed mean
interval is any value between the old mean and the new interval; whether a count is a
surge, and whether uneven intervals are too uneven, is left open. `SetMarking`,
`SetMarkingPattern`, `Forget` and `Restart` (a stop and a start, with the merge of the
configuration and the snapshot) come at any point. It is the detector with
`SeasonalityNone`.

**MetricDetector**. The series, what each sample makes it tell (threshold,
deviation, drift), the deviations remembered and held back, the sweep, the cap, the
markings, `Forget` and restarts. Whether a value breaks a threshold, is far from the
baseline, or makes the trends diverge, is left open: the model is about what the
detector then says and remembers. With one seasonal day there is no day before to
recur on and nothing is held back, so that what must be held back is asked from two days
on.

**Persistence** (with `PersistenceProofs`). One source of lines learnt by the miner,
then by the log detector; the manager that saves one after the other; the store;
`Runtime.Run` around them; crashes, failed saves, failed restores. The miner and
the detector are reduced to identifiers and what was counted under them.

### What leaves it

**Broadcast** (with `Feed`, `FlowsProofs`). The sink together with the handlers of the event stream
of the administration service, because who closes a channel is decided between the
two. `Feed` is the promise to a subscriber.

**Resilient** (with `FlowsProofs`). The queue, the retry loop with its backoff and `Close`, over an
inner sink (webhook, postgres) that takes an event or not and says so or not.

**EventLog** (with `PersistenceProofs`). `Publish` in daily segments with its rotation and purge, restarts, torn
writes, and `Query` with its bounds. A timestamp may be as late as one likes, and a day
ahead of the clock at most: `Query` finds no event dated further ahead. **Incidents** is the grouping, an operator over
sequences of events; it has no state.

**Console** extends `Incidents`: each tab's request is served (`Serve*`), answered
(`Arrives`) and may be overtaken; the snapshot has its flight and its invalidation; a
generation runs outside the request that asked for it. **Login** has the two ways in,
with a password or by a round trip to an identity provider. The answer of a round trip is
loaded in three steps: the cookies are compared (`HandleOIDCCallback`), the code is
exchanged and the session created (`Exchange`), the response clears the cookies
(`Respond`) or finds its browser gone (`Leave`); loads of one answer overlap in their
slots. A logout and the start of a round trip are answered in one step.

**Operator**. A server with its workers, one partition and two series, one with a slash
in a label, and what an operator does to it: the commands with the server running or
stopped, and the pages. Markings are given to texts and to a glob, series ignored by
their key or by a glob, and what the configuration marks is merged under the snapshot at
each start, of the server and of an offline command (`Merged`).
**Terminal** (with `PersistenceProofs`) is the live view of `tezcatl top`.

### What feeds it

**Links** (with `FlowsProofs`). Four kinds of commands reading lines into a buffer, the stream they send
on, the transport, the handlers of the server and its stop.

**Plugins**. Supervision, and what install, list and remove do to the directory.

**ListWatch** is `api.Client.ListWatch` on one collection; **Workloads**,
**ClusterEvents** and **PodLogs** (with `MCPodLogs`) extend it with what each watcher
does of a list and of a frame. **Journald** and **Cockpit** are the two collectors that
keep a cursor; in the second, containers are deployed and deleted while it runs
(`Store`, `Delete`). **Containers** and **Pollers** are those that poll.

### Composition

Components that share no state are explored side by side: `MCParts` and `MCFlows`
hold the variables of several modules and a variable `which`, set by `Init`, says
which of them runs while the others rest in their initial state. The states are those
of each module alone, in one run; a property is asked of the module that runs.
`MCFlows` gathers the parts checked under fairness, `MCParts` the others. Each extends
one of its parts (`Broadcast`, `Persistence`), whose constants the configuration gives,
and instantiates the others with constants of its own, which the configuration gives too:
what is proved of `SpecParts` or of the links holds for every value of them that the
assumptions of the parts (`PartsAssumption`) allow.

Interaction between components is modelled where it matters inside one module:
workers, correlator mutex and sinks in `Engine`; sink and event stream in `Broadcast`;
miner, detector and store in `Persistence`; wire, key and stages in `Stages`; commands,
client, transport and server in `Links`; server, files, commands and pages in
`Operator`; log, stream and view in `Terminal`; pages, cache, jobs and grouping in
`Console`.

## 3. What the runs show

| Run | Instance | Shows |
|---|---|---|
| `engine_safety` | 1 ingester, 2 keys on 2 workers, 2+1 observations, 2 events, 2 sinks, buffers of 1 | types, `NoSendOnClosed`, `Accounts`, and that the engine implements `Streams` |
| `engine_live` | 2 ingesters, 1 key, 2 observations, 2 events, 1 sink | `RunReturns`, `EventsPublished` |
| `correlator_safety` | 2 sources, both clocks, 3 kinds of signals, windows of 1 | `SignalsAreTold`, `ContextSurrounds`, `EventsKeepTheirWindow` |
| `correlator_related` | as above, event clock, a horizon of 2 | **violated**: a change within the horizon of an event is missing from it |
| `persistence_crash` | 4 lines of 3 templates over 3 lives | **violated**: after a crash a known template is reported as new |
| `drain` | 4 lines, 4 clusters created, 2 kept, 2 children per node, lines cut at 2 tokens | types, `TemplatesKeepTheirShape`, `LinesFindTheirTemplate` |
| `drain_resume` | more lines, 3 clusters, no bound on the table | **violated**: after a restart a message learnt before does not find its cluster |
| `log_detector` | 3 templates in a table of 2, 5 lines at times to 7, late by 1 and ahead by 3 at most, 1 order besides restarts, scans 2 apart | `SilencesAreTold`, `OperatorObeyed` |
| `podlogs_long_line` | 1 pod, 3 lines | **violated**: what is written after a line longer than the buffer is never shipped |
| `stages_partition` | 2 workers, 2 names of one environment | **violated**: two workers handle one source at a time |
| `flows` | Broadcast: 2 subscribers, ring of 2, channels of 1, 3 events. Resilient: 3 events, queue of 2, 4 attempts. Links: 4 kinds of clients, 2 lines, 1 break, wires of 2. PodLogs: 1 pod, 2 lines, 2 writes, times to 4 | `ClosedOnce`, `ImplementsFeed`, `StreamsEnd`, `Delivery`, `EventsSettle`, `LinkIsHonest`, `NothingHangs`, `EachLineShipped` |
| `parts` | 18 parts, below | 17 properties, below |

Properties gathered under one name, because one run asks them of one module:

* `Accounts`: the counters add up (`StatsAddUp`), a clean end left nothing behind
  (`CleanReturn`), the sinks saw the same events (`SinksAgree`).
* `SignalsAreTold`: no signal vanishes or is told twice (`SignalsConserved`), a
  critical event is corroborated by more than a repetition (`CriticalIsCorroborated`).
* `LinesFindTheirTemplate`: a mined line matches its template (`MinedLinesMatch`) and is
  recognised at once (`RecognisedAtOnce`); tree and table agree (`OnePlaceInTheTree`).
* `SilencesAreTold`: a silence reported is real (`SilenceIsReal`), and one that lasts is
  noticed at the next scan (`SilenceNoticed`).
* `QueryFindsRetained`: what is retained is found by every window that holds its
  timestamp, and each torn write hides one event at most.
* `TailsAreWhole`: one follower per running pod (`NoStrayTail`), and from each line
  a follower shipped to the place it reads on from none is missing (`NoHole`).
* `Delivery`: no event vanishes uncounted (`NothingVanishes`), they are taken in order
  (`TakenInOrder`), and Close leaves nothing (`CloseDrains`).
* `LinkIsHonest`: nothing read is skipped or delivered twice, and success is true
  (`ForwardTellsTheTruth`); no handler may send on the closed channel of the engine
  (`NoHandlerOutlivesIngest`).

The parts of `parts`:

| Part | Bounds | Property |
|---|---|---|
| dampener | 2 patterns in a table of 1, times to 9, 4 signals | `SilencesFit` (never beyond the cap; a streak takes its time), `KeepsPromise` (implements `Limiter`) |
| persistence | 3 lines of 2 templates (symmetric) over 3 lives | `MemoryServes`: nothing lost at a clean stop, an interval at a crash, new once, one template per identifier |
| metric | 2 series in a table of 1, days of 4, 4 samples, 1 order | `DeviationsAreTold`: what recurs on schedule is held back, and nothing else; a drift is told once |
| stages | 172 observations (lines, levels, times, sources), with or without the wire | `StagesAgree`: the wire changes nothing, the time is the first the observation bears, the miner gets no dress, levels agree |
| workloads | 2 workloads, 3 writes, 2 broken watches | `ClusterIsTold`: the changes told form a chain, each from where the last one led |
| events | 2 events, 4 writes, 2 broken watches | `ClusterIsTold`: each occurrence of a watch once, in order |
| podlogs | 1 pod, 3 writes, 2 lines, 1 break, times to 4 | `TailsAreWhole`: one follower per running pod, and no hole in what it shipped |
| journald | a journal of 6, 3 lives | `ResumesWhereItStopped` |
| cockpit | 6 lines, pages of 3, 2 lives, 2 refreshes | `PollsMissNothing`: shipped once, and none passed over but behind a full page of one instant; `NamesStick`: a name is kept while its container exists |
| containers | 2 containers sharing a name, counters of 4 bits, 2 boots, 2 starts | `MetricsAreReal`: a share is of what the container used since its last reading, one per name, all are counted |
| pollers | 2 or 3 queries, 5 answers | `MetricsAreReal`: each query stands for itself, and is told once |
| eventlog | days of 2, times to 7, timestamps a day off, 1 torn write | `QueryFindsRetained` |
| plugins | 2 plugins, 2 releases, 2 installs, times to 8 | `PluginsAreKept`: restarts spaced, nothing unverified installed |
| login | 2 browsers (symmetric), 2 loads at a time, 3 tokens, times to 2, both modes | `TripsClose`: a trip whose browser has had its answer opens nothing more, its session is in the browser that began it |
| console | 2 tabs (symmetric), 5 requests, 2 events | `PagesTellTheTruth`: markings are seen, an answer fits its incident and is not old, a pending answer is being prepared |
| operator | 2 texts, one of them marked by the configuration, and a glob, 2 markings, 2 series, 1 line, 2 commands, 1 crash | `DecisionsHold`: markings survive, over those of the configuration; a forget forgets everywhere |
| terminal | 3 events, a ring and a history of 2, 1 restart, 1 mark | `FeedIsWhole` |
| incidents | every sequence of up to 4 events of 4 kinds, late ones included | `WellGrouped` |

Why the bounds are enough. Buffers of 1 make every sender wait and let a channel
be empty, full and refilled; two keys on two workers give all the interleavings of
streams that share nothing but the correlator, and two observations of one key the
order within a stream. Two events with two sinks let one sink be ahead of the
other. In the correlator a window, an echo and a horizon of one or two units can
each expire before or after the other. The dampener's times reach past the cap of
the silence, and its table of one evicts at every second pattern. The ring of the
broadcast sink wraps, and a batch is longer than a channel. Four attempts are
enough for the backoff to meet its cap. Three templates in a table of two evict one
another, and five lines let a heartbeat be learnt, be overdue at a line between two
scans and be awaited after it; one order and any number of restarts let a marking of
the configuration be cleared, a line come under a pattern, and the marking return.
With `MinIntervalSamples` at 0 two lines make a heartbeat, which is the detector whose
regularity filter already has its samples. Three lives give a save, a crash and what
is made of the leftovers. Two children per node leave one for a word and
one for all the others, so that the third first word already lacks a branch. A
deviation on two days before can be held back on the third. Three writes let a pod run,
stop and run again, and let a workload change, be missed by a broken watch, and change
again. A page of three among six lines of which three are of one instant is both full of
one instant, where the cursor stays, and cut in the middle of one. Four units of time are two seconds of the tailer:
lines fall in the second it resumes from and in the one after. Days of two in seven
units see a segment opened, rotated and purged. A ring as long as the history the view
shows is what the code configures. Two tabs are one that acts and one that is
overtaken; five requests are a listing, an explanation, a dismissal and a second
explanation around a marking. Everything each action can do was checked to occur: TLC
reports no action that never fires, and for each property a plausible mistake in the
code, a *mutant* of a definition (they stand beside it in the modules), is found to
violate it.

The five violated runs are disagreements between the code and its own words:

* `RelatedChangesComplete`: changes are pruned by the watermark when a
  signal or a change comes, the event that would relate them is built later
  (`correlator.go`). In the trace, a line signals, a change and then a later line move the
  watermark, and the change is gone when the window closes; the change brings no signal.
* `KnownStaysKnown`: `SaveAll` takes the snapshot of the miner, then that of the
  detector, while workers go on; a crash before the next save restores a detector
  that knows more than the miner (`manager.go`).
* `ResumesSeamlessly`: `Restore` inserts the clusters from least to most recently
  used, not in the order they were created, and with their generalised templates.
  When a node was short of children, other first words get the branches, and a
  message already learnt leads to another leaf (`snapshot.go`).
* `EachLineShipped` with long lines: a line longer than the buffer of the scanner ends
  the stream, and the next one resumes from the second of the last line shipped, where
  the long line still is (`podlogs/tailer.go`).
* `OneWorkerPerSource`: the key of an observation is taken before its environment
  defaults, so `""` and `"default"` of one service may go to two workers
  (`model/observation.go`).

## 4. Fairness

`RunReturns` and `EventsPublished` assume that a runnable goroutine runs (weak
fairness of each step), which the Go scheduler provides. Strong fairness is assumed
where a step can be disabled and enabled for ever: taking a `sync.Mutex`, which
hands itself to a goroutine that waited for more than a millisecond, and the
flusher's `select` between its ticker and its end, which chooses uniformly among the
ready cases. Nothing is assumed of a source, which may stay silent: an ingester must
only act while it has something to send, and notice its cancelled context if it
watches it (`Attentive`). Sinks are assumed to answer, as their timeouts make them.

`StreamsEnd`: a publication in progress ends, a handler goes on, and a subscriber's
cancel gets the write lock of the sink (strongly fair: `sync.RWMutex` keeps new readers
behind a waiting writer). Nobody need subscribe, read or leave.

`EventsSettle`: the retry loop and `Close` go on; nothing is assumed of the
destination, since an attempt ends by its timeout and a pause by its timer.

`NothingHangs`: the handlers of the server go on, the timer of the drain fires, and a
one-shot command runs until its deadline. Nothing is assumed of the engine, which may
take nothing, nor of the clients, which may send for ever.

`EachLineShipped`: the loops of the watcher and of the followers go on and the clock
advances; breaks are bounded, as any liveness needs; the cluster need do nothing.

## 5. What is proved

Eight modules hold 33 theorems and the lemmas under them; `Sums` holds lemmas only. Each
states an inductive invariant, which TLC checked on an instance before it was proved,
and shows action by action that each step keeps it; the theorems follow from it. All
hold for every value of the constants that the named assumptions allow: positive
capacities, a route for every key, a positive similarity threshold, a depth of at least
three (what `normalized` makes of the configuration), lines that do not hold the wildcard
token itself (a line that does starts with a template worn below the threshold; such
lines are left out of the model), timestamps a day ahead of the clock at most, and times
and bounds that are natural numbers.

A theorem about one part is stated of the composition its property is checked in
(`SpecParts`, `SpecFlows`), where one part runs and the others rest; its constants are
constants of the composition, so that the theorem speaks of every value of them.

**Sums** (lemmas). The library's induction theorems take an operator as a parameter, which
no installed prover can instantiate. What follows needs a set or a function only: a set of
numbers that is not empty has a least element (`LeastOf`, from the library's well-founded
relations); hence induction over the numbers of a set (`Induction`) and over the subsets of
a finite set (`FiniteInduction`); a step given as a function has one solution
(`Recursion`); the sum over a map of the community modules changes by what a key adds or
takes (`AddingAny`, `AddingLess`, `SumLess`).

**EngineProofs**, for any ingesters, keys, workers, routing, sinks and buffer sizes.

* `TypeCorrect`, and `NoPanic == Spec => []NoSendOnClosed`: no goroutine sends on the
  closed events channel, nor an ingester on the closed observations channel. It is not
  inductive: `final = "exit"` says nothing of a worker that might still start.
  `Goroutines` adds what the code's joins establish: the holder of the mutex is the
  goroutine that is flushing and only one is, past the first join every worker has
  exited, past the second the flusher has.
* `Refinement == Spec => ImplementsStreams`: however many sources, workers and buffers
  lie between, each key is one first-in first-out stream. `Streaming` is the invariant
  it needs: what the pipe from source to worker holds of a key is in order (`InOrder`),
  in the channels its route allows (`Routed`), and is exactly what was sent and not yet
  handled (`OnItsWay`). Each step of the engine is then one of `Streams` or a stutter.
* `AccountsHold == Spec => []Accounts`. `Counted` says that an observation is counted
  once, which rests on its being in one place (`InHand` is finite and loses what the
  counter gains); `EventsKept` that an event is in one place, none is lost before the
  context is done, and the sinks follow one order; `ShutDown` what has already returned
  when a goroutine does, from which a clean end left nothing behind.

**DrainProofs**, for any set of lines, depth, bounds and threshold.

* `TypeCorrect`: the table stays within its bound, its identifiers are distinct and
  were all given out, restored tables included.
* `TemplatesHold == Spec => []TemplatesKeepTheirShape`: a template keeps at least
  the share of literal tokens that a match asks for. What is left of a template after a
  match is exactly what it had in common with the line (`GeneralisedShape`), and a match
  asks that share to reach the threshold; it needs that the search returns a cluster of
  the table that reached the threshold (`SearchFinds`) and that the table operations
  replace one cluster by another (`PutTable`, `TouchTable`).
* `LinesFound == Spec => []LinesFindTheirTemplate`: a line learnt into a known cluster
  finds a template that stands for it, the line learnt last finds its own cluster, and
  each cluster hangs at one place of a tree within its bounds. Three parts join `IInv`.
  `Covered`: a template stands for every line learnt into its cluster, saved tables
  included; the exact lookup then has a cluster to find (`CoveredIsFound`). `Planted`:
  the tree is closed under ancestors and keeps room for the child that stands for the
  rest, each identifier hangs once, at a place its template's length leads to, and one
  cluster at most is of the empty line; an insertion (`AddedTree`) and the rebuilding
  after a restart (`RebuiltTree`) keep it, an eviction leaves a dead identifier behind
  that no walk reports. `RecognisedAtOnce` is inductive with these two: the way the
  search takes is the way insertion laid (`WholeWay`, `LeafFollows`), the new cluster is
  as close to its own line as can be, and the generalised one stays ahead of every
  neighbour it beat before (`CloserStill`, `NotCloser`). What a walk of the tree computes
  is an induction over its levels, by lemmas of the kind of those of `Sums`.

**LogDetectorProofs**, for any templates, markings, thresholds, lateness and bounds.

* `Obeyed == Spec => []OperatorObeyed`: a template the operator marked signals nothing,
  whatever pattern or configuration matches it. `Ordering` is inductive alone: the
  marking in force is the last order or, without one, what the configuration and the
  patterns make of it, before and after a snapshot is merged.
* `SilencesHold == Spec => []SilencesAreTold`: a silence told was one and is told once,
  and one that lasts is noticed at the first scan that is due. `Latches` relates the
  statistics of a template to its lines: what the table holds of it, when it was told,
  since when it has been unheard. `Clocks` relates the scan to the times heard, late lines
  included, and `Waits` says that what is overdue now was not at the last scan, or was told.

**CorrelatorProofs**, for any sources, signals, windows, horizons and ring capacities.

* `ContextHolds == Spec => []ContextSurrounds`: the lines around an event are one
  unbroken run of its source. `Rings` says what the slots of a ring hold after n lines,
  wrapped or not (`RingPut`, `RingRead`), and `Contexts` that what a pending event shows
  is the run before it and as much of the run after it as its bound allows.
* `WindowHolds == Spec => []EventsKeepTheirWindow`, on either clock. Signals are added
  before the flush that finds a window over, so that an event may overrun it, but by its
  last observation only: `Timely` ties the readings of a pending event to its first signal
  and says that once one is late, its worker is on its way to the flush that emits it.
* `SignalsHold == Spec => []SignalsAreTold`: every signal given to `Add` is in one event,
  pending, emitted or to be told by an echo, and a critical event has two kinds of signals
  behind it. `Ledger` is its invariant: what is pending and what the echoes hold is finite
  and of the right shape (`Bounded`, `Tracked`, `Held`); the instances pending, echoing and
  told add up to those given (`Balanced`); what an event is told as rests on what it holds
  (`Corroborated`). The balance is kept by what merging one signal adds to a sum
  (`MergeOne`, `MergeCounts`) and by what a sum becomes when a key is picked, split off or
  renamed (`SumPick` to `SumImage`).

**FlowsProofs**, for any subscribers, clients, lines, wires, queues and sizes.

* `TypeCorrect`, and `NoPanic == ... => []ClosedOnce`: no channel of a subscriber is
  closed twice or sent to once closed. `Handlers` relates the place of a handler to its
  registration and to what it was sent.
* `Refinement == ... => ImplementsFeed`: ring, channels and handlers give each
  subscriber one gapless run of the latest events, then each later event in order, but
  for those published while its channel is full. `RingHolds` says what each slot of the
  ring holds in terms of the number of events published.
* `LinkHolds == SpecFlows => []LinkIsHonest`: no line is skipped or delivered twice,
  success is true, no handler outlives `Ingest`. Each line read is in exactly one place:
  in the buffer and never sent (`Fresh`), on the one stream it was sent on (`Apart`), where
  it is in hand, on the wire, with the engine, or lost with a broken stream (`Carried`), or
  lost (`Kept`); `Finished` says what a client may conclude from the end of its stream,
  `Owned` that no two clients share one.
* `DeliveryHolds == SpecFlows => []Delivery`: no event vanishes uncounted, they are taken
  in order, never more often than configured, and Close leaves nothing. `Line` orders what
  was settled, the event in hand and the queue, `Refused` says that what was refused is
  nowhere else, `Attempts` counts the deliveries of each event, `Runner` ties the
  goroutine to what it holds.

**PersistenceProofs**: what the system remembers.

* `MemoryHolds == Spec => []MemoryServes`, for any templates, lines and lives. What
  survives a crash is decided by where each piece of the memory is: `Chain` orders what a
  completed save secured, what the store holds, the snapshot being written and the miner
  in memory, each an extension of the one before; `LastSave` says that the save of a clean
  stop finds the memory at rest, `AtRest` that a restart reads back what the last life
  left, with miner and detector in agreement as long as every life ended cleanly, `News`
  that what was told is known.
* `QueriesHold == SpecParts => []QueryFindsRetained`, for any day, retention and
  timestamps. `OnDisk` files each event under a day that is not after its writing, and
  whose end is not more than a day before its timestamp (`Shelved`, `Accounted`), which is
  the slack a query allows; an event has one date wherever it lies (`OneDate`). That a torn
  write costs one event at most is a count that must include what the tear has not cost
  yet: events lost, events of the batch under way that were swallowed, and lines that
  dangle are together no more than the torn writes (`Spared`). A line that dangles becomes
  a swallowed event, a swallowed event a lost one when its batch is accepted, or none when
  the batch is given up.
* `DeviationsHold == SpecParts => []DeviationsAreTold`, for any series and any number of
  seasonal days, samples and bounds. `Measured` says that what a series remembers is what
  it really did, as much as its memory keeps, and that a drift told is latched;
  `DaysRecur` what the search over the days before finds.
* `TailsHold == SpecParts => []TailsAreWhole`, for any pods, seconds and backoff.
  `Stamped` says that the log is written in the order of its times, `Filed` that the
  follower of a pod is the one its stream can stop, and that what it shipped is whole up
  to the line it resumes from (`Gapless`), since a time cut to the second is never after
  the last line shipped.
* `FeedHolds == SpecParts => []FeedIsWhole`, for any history, ring, backlog and bounds.
  `Follows` relates what is shown to what the stream still has to send: an event shown or
  coming is in no other place, and while nothing was dropped each event the history must
  hold is shown or still coming.
* `SharesHold == SpecParts => [](which = "containers" => Containers!ContainersAreReal)`, the
  half of `MetricsAreReal` about containers. `Moved` says that the counter of a container
  moved since its reading by what it used, unless it started over (then it is no more than
  that); `Tallied` that a poll counted what it visited; `Real` relates the shares told to
  both.

**PartsProofs**: the collectors, the detectors and the administration.

* `Resumes == SpecParts => []ResumesWhereItStopped`, for any journal, exclusions and
  routes: the cursor on the disk never passes an entry that was not handed over. `Settled`
  says that every entry up to the recorded cursor is dealt with, `OnDisk` that the cursor
  written is one that was recorded.
* `DampensHold == SpecParts => []SilencesFit` and `PromiseKept == SpecParts =>
  KeepsPromise`, for any cooldowns, escalation, table and lateness: no silence is longer
  than its cap, a streak of reports took as long as its silences add up to, and the
  dampener implements `Limiter`. `Dampens` says how a streak and its last report relate to
  the silences told so far, a sum whose terms the cap bounds.
* `TripsHold == SpecParts => []TripsClose`, for any browsers, loads and tokens: `Drawn` says
  that sessions and round trips are known by tokens drawn once, `Owned` that the cookies a
  browser holds are those of a round trip it began and has no answer of (`Awaited`), and
  that each accepted load, and each session, came of such a one.
* `NamesHold == SpecParts => NamesStick`, an action property: `Listed` relates the
  directory, the containers there are and those there were to what each was told as.
* `PollsHold == SpecParts => []PollsMissNothing`, for any lines, page size, lookback and
  failures. `Polled` relates the cursor and the entries remembered at it to what was
  shipped in this life; `PageIs` says what a page is of the lines that follow the cursor,
  from which a poll that brings nothing has a full page of lines of its instant, or blank.
* `PluginsHold == SpecParts => []PluginsAreKept`, for any plugins, releases and backoff:
  `Kept` relates the pause a supervisor is in to the starts since a run that lasted, with
  `Pause` the doubled and bounded wait as a recursive function; `Checked` follows one
  installation.
* `DecisionsStay == SpecParts => []DecisionsHold`, for any texts, markings of the
  configuration, lines and commands. `Serves` relates what the server applies to what was
  ordered over what is configured, `Forgets` what each store still holds to the `Forget`
  under way, `Offline` the files to the commands that edit them.
* `ClusterTold == SpecParts => []ClusterIsTold`, for any objects, writes and breaks.
  `Logged` says what a list and the frames after it show of the log of the cluster,
  `Watched` and `Chained` that the watcher knows what its last change led to; `Telling`
  the same of the occurrences of events.

Changes to the model that the proofs asked for, each a statement that was true on the
instance TLC checked and not for every value: `NoHole` of `PodLogs` begins at the first line
a follower shipped, since lines of the second it starts in may be read again before it;
`DeviationsAreTold` asks for what is held back from two seasonal days on; `EventLog`
allows timestamps a day ahead at most; and `PollsMissNothing` says where a full page hides
what follows it. Others changed the form only: the wait of a plugin is a recursive function
of the doublings and not a power, a record says the same of a process that sleeps as of one
that runs, and a fold became a concatenation.

Left to TLC, and why:

* liveness under fairness, `ENABLED`: out of the prover's reach;
* `WellGrouped` (`Incidents`) and the half of `MetricsAreReal` about the pollers: what they
  say of a sequence of events or of answers is computed over one that was sorted or
  flattened by operators of the community modules, of which no induction of the library
  can speak;
* `StagesAgree`: a function of one observation, which TLC evaluates for each of the inputs;
* `PagesTellTheTruth`, which stands on `WellGrouped`.

No module declares a `RECURSIVE` operator: sums and groupings are folds or recursive
functions, so that each module can be proved about.

## 6. Known disagreements without a run

Core

* `engine.go:106`: the comment of `Engine` says buffered observations are
  drained before `Run` returns; on a cancelled context the dispatcher returns with an
  observation in hand and others in the channel.
* `engine.go:165`: with the context cancelled, the last flush may take the
  `gctx.Done()` branch for every event it emits, and drop them.
* `internal/adapter/stdio`: an ingester blocked in `Scan` does not see its context,
  against the contract of `port.go:10`; this is why `Attentive` is a constant.
* `log.go:591`: a line marked ignore or normal returns before `scanMissing`, so that
  a heartbeat that stopped ("tell me when this stops", `log.go:25`) goes unnoticed
  while only such lines come; `SilenceNoticed` counts from lines that may signal.
* `log.go:575`: a late line moves `LastSeen` back, and a template is reported missing
  earlier than the comment of `DisappearanceFactor` (`log.go:71`) says;
  `SilenceIsReal` allows for that lateness.
* `log.go:245`: a heartbeat that stopped is the first template evicted at the cap, and
  is then never reported.
* `correlator.go:197`: a second change moves the end of an echo forward, where the
  comment at 173 has the first change close it.
* `dampen.go:295`: with more patterns than the table holds, eviction restarts streaks
  again and again, where the comment at 37 has a forgotten pattern cost "at worst"
  one extra signal.
* `metric.go:267`: `sourceOf` cuts a series key at its last `/`, so that series
  with a `/` in the value of a label (`path="/"` of the host plugin) are missed by
  `Forget`. In the same file, a drift that begins with a deviation held back is latched
  and never told.

State and operator

* `log.go:352`: as its comment says, a cleared marking that the configuration also gives
  comes back at the next start (`log.go:937`): to the operator, an order that does not
  last. `DecisionsHold` says so (`Expected`). A key of `MarkMetric` that is cleared stays
  ignored while a glob matches it (`metric.go:311`).
* `event_log.go:209`: an event appended after a torn line is glued to it and lost;
  `Publish` after `Close` reopens the segment; an event more than a day older than its
  writing falls outside the slack of a query.
* A forget or a marking made since the last snapshot is undone by a crash (the model
  says so: `DecisionsHold` holds up to what was saved); a line between the miner and the
  detector survives a `Forget` (`service.go:207`); a listing after it may create the
  partition again, empty.
* `itztli/server/server.go:737`: `handleTemplateMark` shows the marking asked for,
  though a pattern may stay in force (517-519, 794).
* `plugin/install.go:98`: the executable is written in place; a full disk leaves half of
  it, which the supervisor may run. `NothingDamagedInstalled` is about what is written.

Links and collectors

* Lines may swap across a reconnection; a server that accepts then resets streams is
  retried without backoff; a hook whose deadline falls before the answer reports
  failure though it was accepted; a line beyond 1 MB ends an ingest command.
* `journald`: `reader.go:61-62` says a stream "never replays", yet up to a second is
  replayed after a crash, and a crash before the first flush starts at the tail again;
  `identity.go:135` returns early where the comment at 40 has every name learnt.
* `podlogs`: a first connection asks for 10 seconds while the backoff reaches 30; a pod
  that succeeded has its last lines cut; the backoff of `ListWatch` restarts at each
  list that succeeds; events of the cluster that occur between a watch and the next list
  are never told.
* `cockpit/logs.go:219`: a page full of entries of one instant, or of blank lines, is asked
  again for ever if there are more than a page of them, and hides what follows, against
  `logs.go:101`; `PollsMissNothing` holds up to that case. A deleted container whose last
  lines are polled after a refresh is named otherwise than before (`directory.go:66`); a failed listing of
  namespaces names environments "scaleway" (`directory.go:48`).
* `host`: `readCPU` adds guest time that busy and total already hold, and counts on
  `iowait` never decreasing; a container restarted between two polls and past its last
  reading is under-reported; a service left without containers gets no zero.
* One malformed sample discards a whole query in the prometheus plugin, and only itself
  in the scaleway plugin.

* `podlogs/tailer.go:224`: a follower that resumes ships lines of the cut second again;
  `TailsAreWhole` counts a line as shipped however often it is.

Console and terminal

* `oidc.go:120`: two loads of one answer that overlap both pass the check of the cookies,
  and both open a session if the provider exchanges its code twice; a response that comes
  late clears the cookies of a newer round trip, which then fails (`oidc.go:130`).
* `incidents.templ:69`: the link of a card carries no gap, where `client.go:184-187`
  says a link must not break; a late event, or a moved window, changes the identity of
  an incident; paging a list that moves may skip one.
* `explainjobs.go:38-40` says "a generation already in flight is never doubled": a
  dismissal and a new request double it.
* `top.go`: after a restart of the server the log is not read again; after a dropped
  event and a reconnection the replay is appended out of order; overlapping refreshes
  may show the older listing for a while.

## 7. Not modelled, and why

* Text: masking by regular expressions, the recognition of formats by `ParseLog`, the
  text exposition format, `incident/markdown.go`, `explain`, printing, `web/format.go`,
  view models, layout and charts. What these produce is given to the models, or left out.
* `internal/config`, `itztli/config`, `api/kubeconfig.go`, `grpc/target.go`, flags: a
  structure filled once and checked field by field; the capacities and thresholds they
  allow are the constants of the models and their assumptions.
* Pure I/O: the exploration of a Scaleway account, the files of `/proc`, the answers of
  Docker, Prometheus and Kubernetes (each is an environment of a model), the postgres
  store beyond what a sink sees of it.
* Generated code (`gen`, `api`; the `*_templ.go` beside the templates, except for the
  buttons, links and polls of the pages that `Console`, `Login` and `Operator` offer).
* Within modelled components: the hour-of-day baselines of the log detector (they take
  expectations away or replace a baseline), the smoothing arithmetic of both detectors,
  `Size` of a cluster and the parameters extracted from a line, the attributes of an
  observation, several partitions of the miner, a snapshot taken under a larger table,
  the paging of templates, several offline commands at a time, several marks of a
  terminal at a time, pods of several containers, a container that restarts inside a
  running pod, bookmarks of a watch.
* Assumed rather than modelled: `stream.Send` of the event stream returns, though a client
  may not read (`admin.go:63`); a one-shot command has a deadline (`--timeout 0` gives it
  none, and it then waits as long as the server does).
* Said by a comment and checked by nothing: that a drift is told at least once (section 6
  has one that is not), that a line of a pod is shipped at most once, that a generation is
  never doubled (both have counterexamples in section 6).

## 8. What remains

The core, the sinks, the state, the collectors, the console, the administration and the
terminal are modelled, and all of the properties checked under no fairness are proved but
those that section 5 leaves to TLC. By weight, what could come next:

* the pollers' half of `MetricsAreReal`, `WellGrouped` and then `PagesTellTheTruth`, once
  what they sort and flatten is said by functions of the position;
* the hour-of-day baselines of the log detector, and several partitions of the miner.
