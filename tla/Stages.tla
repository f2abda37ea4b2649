-------------------------------- MODULE Stages --------------------------------
(***************************************************************************)
(* What becomes of one observation before anything is learned from it: it  *)
(* may cross a wire, a worker is chosen by its key, and the worker parses  *)
(* and normalizes it, then keeps it for the stages that learn.             *)
(*                                                                         *)
(* A line is peeled: a leading timestamp, colours or the tag of its        *)
(* emitter, then a body, plain or a JSON envelope.  A source is a pair     *)
(* <<environment, service>>, a text its name and its size, a zero time or  *)
(* an empty string nothing.                                                *)
(***************************************************************************)
EXTENDS Integers, Sequences

CONSTANTS
    Inputs,        \* the observations, as the collectors make them
    Workers,
    Route,         \* partitionIndex: key -> worker
    MaxLogLength

VARIABLE workers   \* worker -> what it handles, [raw, forwarded, held]

Idle == [held |-> "nothing"]
Init == workers = [w \in Workers |-> Idle]

NoSource == <<>>
NoText == [of |-> "", size |-> 0]

----------------------------------------------------------------------------
(* The wire, from one collector to the server (adapter/grpc/mapping.go) *)

\* Mutant: the level and the message of a plugin do not cross.
ToProtoRaw(o) ==
    [id |-> o.id, source |-> o.source, service |-> o.service,
     environment |-> o.environment, modality |-> o.modality,
     timestamp |-> IF o.at = 0 THEN <<>> ELSE <<o.at>>,
     payload |-> IF o.payload.kind # "log" THEN o.payload
                 ELSE [kind |-> "log", raw |-> o.payload.raw,
                       message |-> NoText, level |-> <<"word", "">>]]

ToProto(o) ==
    [id |-> o.id, source |-> o.source, service |-> o.service,
     environment |-> o.environment, modality |-> o.modality,
     timestamp |-> IF o.at = 0 THEN <<>> ELSE <<o.at>>,
     payload |-> IF o.payload.kind # "log" THEN o.payload
                 ELSE [kind |-> "log", raw |-> o.payload.raw,
                       message |-> o.payload.message, level |-> o.payload.level]]

FromProto(proto, ingestedAt) ==
    [id |-> proto.id, source |-> proto.source, service |-> proto.service,
     environment |-> proto.environment, modality |-> proto.modality,
     at |-> IF proto.timestamp = <<>> THEN 0 ELSE proto.timestamp[1],
     ingested |-> ingestedAt, payload |-> proto.payload]

Arrived(o, forwarded) == IF forwarded THEN FromProto(ToProto(o), o.ingested + 1) ELSE o

\* The key of a worker, computed before the source is settled.
PartitionKey(o) ==
    IF o.source # NoSource THEN o.source ELSE <<o.environment, o.service>>

----------------------------------------------------------------------------
(* ParseLog *)

SyslogLevel(priority) ==
    CASE priority <= 2 -> "fatal"
      [] priority = 3 -> "error"
      [] priority = 4 -> "warn"
      [] priority \in 5..6 -> "info"
      [] priority = 7 -> "debug"
      [] OTHER -> ""

\* A level is <<"number", n>>, quoted or not, or <<"word", w>> in lower case.
NormalizeLevel(level) ==
    IF level[1] = "number" THEN SyslogLevel(level[2])
    ELSE CASE level[2] \in {"trace", "debug"} -> "debug"
           [] level[2] \in {"info", "informational", "notice"} -> "info"
           [] level[2] \in {"warn", "warning"} -> "warn"
           [] level[2] \in {"error", "err"} -> "error"
           [] level[2] \in {"fatal", "critical", "crit", "panic", "emerg", "alert"} -> "fatal"
           [] OTHER -> ""
Levelled(level, otherwise) ==
    IF NormalizeLevel(level) = "" THEN otherwise ELSE <<"word", NormalizeLevel(level)>>

FirstTime(a, b) == IF a # 0 THEN a ELSE b

\* stripTimestamp and stripProcess: what is left is the message, if anything
\* was peeled.
StripTimestamp(o) == FirstTime(o.at, o.payload.raw.stamp)
StripProcess(o) ==
    LET raw == o.payload.raw IN
    IF raw.stamp # 0 \/ raw.dressed THEN raw.body.text ELSE NoText

ParseJSON(o) ==
    LET body == o.payload.raw.body IN
    IF ~body.json THEN o
    ELSE [o EXCEPT !.at = FirstTime(@, body.time),
                   !.payload.message = IF body.message = NoText THEN @ ELSE body.message,
                   !.payload.level = Levelled(body.level, @)]

ParseLog(o) ==
    IF o.modality # "log" \/ o.payload.kind # "log" THEN o
    ELSE IF o.payload.message # NoText
    THEN [o EXCEPT !.payload.level = Levelled(@, @)]
    ELSE ParseJSON([o EXCEPT !.at = StripTimestamp(o), !.payload.message = StripProcess(o)])

----------------------------------------------------------------------------
(* Normalize *)

\* The environment and the source of an observation that names its service.
Settled(o) ==
    LET environment == IF o.environment = "" THEN "default" ELSE o.environment IN
    IF o.service = "" THEN o
    ELSE [o EXCEPT !.environment = environment, !.source = <<environment, o.service>>]

Accepted(o) ==
    /\ Settled(o).source # NoSource
    /\ o.modality \in {"log", "metric", "change"} /\ o.payload.kind = o.modality
    /\ o.modality # "log" => o.payload.name # ""

Shortened(text) == [text EXCEPT !.size = IF @ > MaxLogLength THEN MaxLogLength ELSE @]

Normalize(o) ==
    LET settled == Settled(o)
        dated == [settled EXCEPT !.at = FirstTime(@, o.ingested), !.id = TRUE]
    IN  IF o.modality # "log" THEN dated
        ELSE [dated EXCEPT !.payload.raw = Shortened(@), !.payload.message = Shortened(@)]

\* EffectiveMessage: what the miner is given.
EffectiveMessage(o) ==
    IF o.payload.message # NoText THEN o.payload.message ELSE o.payload.raw

Process(o) == Normalize(ParseLog(o))

----------------------------------------------------------------------------
(* The dispatcher and the workers *)

\* An observation reaches its worker, which drops it or keeps it.
Handle(o, forwarded) ==
    LET obs == Arrived(o, forwarded)
        w == Route[PartitionKey(obs)] IN
    /\ workers[w] = Idle /\ Accepted(ParseLog(obs))
    /\ workers' = [workers EXCEPT
         ![w] = [raw |-> o, forwarded |-> forwarded, held |-> Process(obs)]]

\* The stages that learn have returned.
Finish(w) ==
    /\ workers[w] # Idle /\ workers' = [workers EXCEPT ![w] = Idle]

Next ==
    \/ \E o \in Inputs, forwarded \in BOOLEAN : Handle(o, forwarded)
    \/ \E w \in Workers : Finish(w)

Spec == Init /\ [][Next]_workers

----------------------------------------------------------------------------
(* Properties *)

Handled == {w \in Workers : workers[w] # Idle}

\* What is learned does not depend on the way: an observation that crossed
\* the wire is the one that did not, but for its time when it bears none.
WireIsTransparent ==
    \A w \in Handled : LET h == workers[w].held
                           local == Process(workers[w].raw) IN
      /\ [h EXCEPT !.at = 0, !.ingested = 0] = [local EXCEPT !.at = 0, !.ingested = 0]
      /\ h.at # local.at => h.at = h.ingested /\ local.at = local.ingested
      /\ Route[PartitionKey(workers[w].raw)] = w

\* The time of an observation is the first of those it bears: that of its
\* collector, that its line starts with, that of its envelope; it is that of
\* its ingestion only if it bears none.
TimeIsItsOwn ==
    \A w \in Handled :
      LET raw == workers[w].raw
          line == IF raw.payload.kind = "log" /\ raw.payload.message = NoText
                  THEN <<raw.payload.raw.stamp, raw.payload.raw.body.time>> ELSE <<0, 0>>
          own == SelectSeq(<<raw.at>> \o line, LAMBDA t : t # 0)
      IN  workers[w].held.at = IF own = <<>> THEN workers[w].held.ingested ELSE own[1]

\* The miner is given a bounded text, and never what was peeled off: a line
\* that bears a timestamp or a tag is mined without it.
MinedWithoutDress ==
    \A w \in Handled : workers[w].held.modality = "log" =>
      LET mined == EffectiveMessage(workers[w].held) IN
      /\ mined.size <= MaxLogLength
      /\ "stamp" \in DOMAIN mined => mined.stamp = 0 /\ ~mined.dressed

\* A severity is one level, whether its producer writes the number of
\* RFC 5424 or its keyword; and a level already normalized stays.
LevelsAgree ==
    /\ \A n \in 0..7 : LET keyword == <<"emerg", "alert", "crit", "err", "warning",
                                        "notice", "info", "debug">>[n + 1] IN
         NormalizeLevel(<<"number", n>>) = NormalizeLevel(<<"word", keyword>>)
    /\ \A n \in 0..7 :
         NormalizeLevel(<<"word", SyslogLevel(n)>>) = SyslogLevel(n)

\* What the stages give to those that learn.
StagesAgree == WireIsTransparent /\ TimeIsItsOwn /\ MinedWithoutDress /\ LevelsAgree

\* model/observation.go, of PartitionKey: "Partitioning by source keeps all
\* modalities of a system on the same worker, which gives correlation a
\* consistent view without cross-worker synchronization".  Two workers never
\* handle one source at a time.
OneWorkerPerSource ==
    \A v, w \in Handled :
      v # w => workers[v].held.source # workers[w].held.source
=============================================================================
