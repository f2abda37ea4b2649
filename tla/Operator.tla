------------------------------- MODULE Operator -------------------------------
(***************************************************************************)
(* What an operator does to a server: the markings and the forgetting, by  *)
(* the commands, running server or stopped one, and by the templates and   *)
(* metrics pages of the console.  One partition stands for those a pattern *)
(* matches, and two series, one of which has a label with a slash in it;   *)
(* what is learned is the set of the lines and samples it was learned      *)
(* from; the text of the mined template changes when mining generalizes it.*)
(***************************************************************************)
EXTENDS Integers, FiniteSets, Sequences

CONSTANTS
    Texts,        \* the texts the template may take
    Glob,         \* a pattern that matches every text and the metric of every series
    Markings,     \* the markings, "" for none
    Configured,   \* what the configuration marks, from Marked to a marking
    Tabs,
    MaxLines, MaxCommands, MaxCrashes   \* bounds

VARIABLES
    up,        \* is the server running
    live,      \* its state: [drain, log, metric], each with what it learned
    disk,      \* the same, in the state directory
    text,      \* the current text of the template
    flight,    \* the lines mined and not yet judged by the log detector
    lines,     \* how many lines and samples were read
    forgetting,  \* Service.Forget: the stores left to forget
    cli,       \* forgetOffline: [state, left], the keys left to save
    page,      \* tab -> the rows it shows
    decided,   \* history: the last order of the operator on each text and pattern
    fresh,     \* history: the texts and the glob ordered since the server started
    cut,       \* history: what the last Forget that returned had to drop
    doomed,    \* history: the same for the one that runs
    commands, crashes

operator == <<up, live, disk, text, flight, lines, forgetting, cli, page, decided,
              fresh, cut, doomed, commands, crashes>>

Keys == {"drain", "log", "metric"}
Marked == Texts \cup {Glob}
Series == {"plain", "slashed"}   \* by their keys

\* What a Forget of the partition has to drop.  The samples of the slashed
\* series are not in it: sourceOf cuts its key at the slash of the label, and
\* the pattern does not match what is left.
Learnt(s) == s.drain.learnt \cup s.log.learnt \cup s.metric.learnt

\* Restore: what the configuration marks, under what the snapshot does.
Merged(s) ==
    [s EXCEPT !.log.marks =
       [k \in Marked |-> IF s.log.marks[k] /= "" THEN s.log.marks[k] ELSE Configured[k]]]

NoCLI == [left |-> <<>>]
NoPage == [kind |-> "none"]

Init ==
    /\ up = TRUE /\ lines = 0 /\ commands = 0 /\ crashes = 0
    /\ disk = [drain |-> [learnt |-> {}],
               log |-> [learnt |-> {}, marks |-> [k \in Marked |-> ""]],
               metric |-> [learnt |-> {}, slashed |-> {}, ignored |-> {}]]
    /\ live = Merged(disk) /\ text \in Texts /\ flight = {} /\ forgetting = <<>> /\ cli = NoCLI
    /\ page = [t \in Tabs |-> NoPage] /\ cut = {} /\ doomed = {}
    /\ decided = [marks |-> disk.log.marks, ignored |-> {}] /\ fresh = {}

ServerSame == UNCHANGED <<forgetting, cli, decided, cut, doomed, commands, crashes>>
AdminSame == ServerSame /\ UNCHANGED fresh

----------------------------------------------------------------------------
(* The pipeline, from how the administration depends on it *)

\* A worker mines a line; its template may be generalized by it.
Mine ==
    /\ up /\ lines < MaxLines /\ flight = {} /\ lines' = lines + 1
    /\ live' = [live EXCEPT !.drain.learnt = @ \cup {lines'}]
    /\ flight' = {lines'} /\ text' \in Texts
    /\ AdminSame /\ UNCHANGED <<up, disk, page>>

Judge ==
    /\ up /\ flight /= {} /\ flight' = {}
    /\ live' = [live EXCEPT !.log.learnt = @ \cup flight]
    /\ AdminSame /\ UNCHANGED <<up, disk, text, lines, page>>

Measure ==
    /\ up /\ lines < MaxLines /\ lines' = lines + 1
    /\ \/ live' = [live EXCEPT !.metric.learnt = @ \cup {lines'}]
       \/ live' = [live EXCEPT !.metric.slashed = @ \cup {lines'}]
    /\ AdminSame /\ UNCHANGED <<up, disk, text, flight, page>>

\* The snapshots are saved one key at a time, all of them at a shutdown.
Save ==
    /\ up /\ \E k \in Keys : disk' = [disk EXCEPT ![k] = live[k]]
    /\ AdminSame /\ UNCHANGED <<up, live, text, flight, lines, page>>

Stop ==
    /\ up /\ flight = {} /\ forgetting = <<>> /\ up' = FALSE /\ disk' = live
    /\ fresh' = {} /\ ServerSame /\ UNCHANGED <<live, text, flight, lines, page>>

\* The markings given, and the learning forgotten, since the last save.
Crash ==
    /\ up /\ crashes < MaxCrashes /\ crashes' = crashes + 1
    /\ up' = FALSE /\ flight' = {} /\ forgetting' = <<>> /\ cut' = {} /\ doomed' = {}
    /\ decided' = [marks |-> disk.log.marks, ignored |-> disk.metric.ignored]
    /\ live' = disk /\ fresh' = {}
    /\ UNCHANGED <<disk, text, lines, cli, page, commands>>

Start ==
    /\ ~up /\ cli = NoCLI /\ up' = TRUE /\ live' = Merged(disk)
    /\ AdminSame /\ UNCHANGED <<disk, text, flight, lines, page>>

----------------------------------------------------------------------------
(* The markings *)

InForce(log, t) == IF log.marks[t] /= "" THEN log.marks[t] ELSE log.marks[Glob]
IsIgnored(metric, key) == {key, Glob} \cap metric.ignored /= {}

\* One command of the operator, and what it decides.
Command == commands < MaxCommands /\ commands' = commands + 1
PipelineSame == UNCHANGED <<up, text, flight, lines, crashes>>

\* Service.MarkTemplate, MarkTemplatePattern for the glob, and MarkMetric, by
\* the key of a series or the glob: clearing one leaves the other in force.
MarkTemplate(s, k, m) == [s EXCEPT !.log.marks[k] = m]
Ordered(ignored, key, ignore) == IF ignore THEN ignored \cup {key} ELSE ignored \ {key}
MarkMetric(s, key, ignore) ==
    [s EXCEPT !.metric.ignored = Ordered(s.metric.ignored, key, ignore)]

\* The command mark: one of --template, --template-pattern and --metric; a
\* metric is only ignored.
MarkChoices(s) ==
    {[state |-> MarkTemplate(s, k, m), word |-> [decided EXCEPT !.marks[k] = m],
      store |-> "log", marked |-> {k}] : k \in Marked, m \in Markings}
    \cup {[state |-> MarkMetric(s, key, ignore),
           word |-> [decided EXCEPT !.ignored = Ordered(decided.ignored, key, ignore)],
           store |-> "metric", marked |-> {}] :
             key \in Series \cup {Glob}, ignore \in BOOLEAN}

MarkRemote ==
    /\ up /\ Command
    /\ \E c \in MarkChoices(live) :
         live' = c.state /\ decided' = c.word /\ fresh' = fresh \cup c.marked
    /\ PipelineSame /\ UNCHANGED <<disk, forgetting, cli, page, cut, doomed>>

\* openOffline restores what the stopped server saved, as the server does.
OpenOffline == Merged(disk)

\* markOffline, and markMetricOffline: only the store that was marked is saved.
MarkOffline ==
    /\ ~up /\ cli = NoCLI /\ Command
    /\ \E c \in MarkChoices(OpenOffline) :
         disk' = [disk EXCEPT ![c.store] = c.state[c.store]] /\ decided' = c.word
    /\ PipelineSame /\ UNCHANGED <<live, forgetting, cli, page, fresh, cut, doomed>>

----------------------------------------------------------------------------
(* Forget: the miner, the log detector, the metric detector, one by one *)

Dropped(s, k) == [s EXCEPT ![k].learnt = {}]

\* Service.Forget is called, by the command or through the server; what it
\* has to drop is what has been judged by then.
Forget ==
    /\ up /\ forgetting = <<>> /\ Command
    /\ forgetting' = <<"drain", "log", "metric">> /\ doomed' = Learnt(live) \ flight
    /\ PipelineSame /\ UNCHANGED <<live, disk, cli, page, decided, fresh, cut>>

ForgetNext ==
    /\ forgetting /= <<>> /\ forgetting' = Tail(forgetting)
    /\ live' = Dropped(live, Head(forgetting))
    /\ cut' = IF forgetting' = <<>> THEN doomed ELSE cut
    /\ PipelineSame /\ UNCHANGED <<disk, cli, page, decided, fresh, doomed, commands>>

\* Mutant: the metric baselines are not written back.
TouchedLogs == <<"drain", "log">>

\* The snapshots the operation touched, in the order they are written.
Touched == <<"drain", "log", "metric">>

\* forgetOffline: opened, forgotten, then saved key by key.
ForgetOffline ==
    /\ ~up /\ cli = NoCLI /\ Command
    /\ cli' = [left |-> Touched, doomed |-> Learnt(disk),
               state |-> Dropped(Dropped(Dropped(OpenOffline, "drain"), "log"), "metric")]
    /\ PipelineSame /\ UNCHANGED <<live, disk, forgetting, page, decided, fresh, cut, doomed>>

SaveOffline ==
    /\ cli /= NoCLI
    /\ disk' = [disk EXCEPT ![Head(cli.left)] = cli.state[Head(cli.left)]]
    /\ cli' = IF Len(cli.left) = 1 THEN NoCLI ELSE [cli EXCEPT !.left = Tail(@)]
    /\ cut' = IF cli' = NoCLI THEN cli.doomed ELSE cut
    /\ PipelineSame /\ UNCHANGED <<live, forgetting, page, decided, fresh, doomed, commands>>

\* The command is interrupted between two saves.
KillOffline ==
    /\ cli /= NoCLI /\ crashes < MaxCrashes /\ crashes' = crashes + 1 /\ cli' = NoCLI
    /\ UNCHANGED <<up, live, disk, text, flight, lines, forgetting, page, decided,
                   fresh, cut, doomed, commands>>

----------------------------------------------------------------------------
(* The templates and the metrics pages *)

PageSame ==
    PipelineSame /\ UNCHANGED <<disk, forgetting, cli, cut, doomed>>

\* Service.Templates: what the miner holds, with the marking in force.
LearntTemplates == IF live.drain.learnt = {} THEN {} ELSE {text}

\* templateRows: the rows the marking chip lets through.
Kept(filter, m) ==
    CASE filter = "tous" -> TRUE [] filter = "aucun" -> m = "" [] OTHER -> m = filter

Rows(filter) ==
    LET kept == {t \in LearntTemplates : Kept(filter, InForce(live.log, t))} IN
    [kind |-> "templates", rows |-> [t \in kept |-> InForce(live.log, t)]]

TemplateChips == {"tous", "aucun"} \cup (Markings \ {"", "heartbeat"})

\* A row has a button for each marking, the one in force included.
TemplateRowView(row) == {[template |-> row, marking |-> m] : m \in Markings}
TemplateBatch(p) == UNION {TemplateRowView(t) : t \in DOMAIN p.rows}
TemplatesPage(p) == IF p.kind = "templates" THEN TemplateChips ELSE {}

HandleTemplates(b) ==
    /\ up /\ page' = [page EXCEPT ![b] = Rows("tous")]
    /\ PageSame /\ UNCHANGED <<live, decided, fresh, commands>>

\* A chip of the page: the rows of its marking.
HandleTemplateRows(b) ==
    /\ up /\ \E filter \in TemplatesPage(page[b]) : page' = [page EXCEPT ![b] = Rows(filter)]
    /\ PageSame /\ UNCHANGED <<live, decided, fresh, commands>>

\* A button of a row: the answer shows the marking that was asked for.
HandleTemplateMark(b) ==
    /\ up /\ page[b].kind = "templates" /\ Command
    /\ \E r \in TemplateBatch(page[b]) :
         /\ live' = MarkTemplate(live, r.template, r.marking)
         /\ decided' = [decided EXCEPT !.marks[r.template] = r.marking]
         /\ fresh' = fresh \cup {r.template}
         /\ page' = [page EXCEPT ![b].rows[r.template] = r.marking]
    /\ PageSame

\* A row says what its button asks for, of its key, the contrary of what it
\* shows, though a glob may be what ignores it.
NewMetricRow(key) == IsIgnored(live.metric, key)
MetricRowView(ignored) == ~ignored
SeriesKept == {key \in Series : (IF key = "plain" THEN live.metric.learnt
                                 ELSE live.metric.slashed) /= {}}
MetricsPage == [kind |-> "metrics", rows |-> [key \in SeriesKept |-> NewMetricRow(key)]]

HandleMetrics(b) ==
    /\ up /\ page' = [page EXCEPT ![b] = MetricsPage]
    /\ PageSame /\ UNCHANGED <<live, decided, fresh, commands>>

\* The row is read again after its button.
HandleMetricMark(b) ==
    /\ up /\ page[b].kind = "metrics" /\ Command
    /\ \E key \in DOMAIN page[b].rows :
         LET ignore == MetricRowView(page[b].rows[key]) IN
         /\ live' = MarkMetric(live, key, ignore)
         /\ decided' = [decided EXCEPT !.ignored = Ordered(decided.ignored, key, ignore)]
         /\ page' = [page EXCEPT ![b] = [kind |-> "marked"]]
    /\ PageSame /\ UNCHANGED fresh

MetricReread(b) ==
    /\ page[b].kind = "marked"
    /\ page' = [page EXCEPT ![b] = IF up THEN MetricsPage ELSE NoPage]
    /\ PageSame /\ UNCHANGED <<live, decided, fresh, commands>>

Next ==
    \/ Mine \/ Judge \/ Measure \/ Save \/ Stop \/ Crash \/ Start
    \/ MarkRemote \/ MarkOffline \/ Forget \/ ForgetNext
    \/ ForgetOffline \/ SaveOffline \/ KillOffline
    \/ \E b \in Tabs :
         \/ HandleTemplates(b) \/ HandleTemplateRows(b) \/ HandleTemplateMark(b)
         \/ HandleMetrics(b) \/ HandleMetricMark(b) \/ MetricReread(b)

Spec == Init /\ [][Next]_operator

----------------------------------------------------------------------------
(* Properties *)

\* What the operator may expect of the markings: the last order, and where it
\* cleared one or gave none, what the configuration marks, unless it was
\* cleared since the server started.
Expected ==
    [k \in Marked |-> IF decided.marks[k] /= "" \/ k \in fresh
                      THEN decided.marks[k] ELSE Configured[k]]

\* Markings survive: what the operator decided, over what the configuration
\* says, is what the server applies, or will when it starts, whatever was
\* forgotten, edited offline or killed in between; only a crash takes it back
\* to what was saved.  A cleared marking that is configured too comes back
\* with the next start, and not before.
MarkingsSurvive ==
    LET s == IF up THEN live ELSE OpenOffline IN
    s.log.marks = Expected /\ s.metric.ignored = decided.ignored

\* A Forget that returned forgot: what had been judged when it began, but for
\* the series whose label has a slash, is in no store of the server, nor comes
\* back with a restart short of a crash; a line that was between the miner and
\* the detector may stay.
ForgetIsWhole ==
    cut \cap Learnt(IF up THEN live ELSE disk) = {}

\* What the operator was told is done stays done.
DecisionsHold == MarkingsSurvive /\ ForgetIsWhole
================================================================================
