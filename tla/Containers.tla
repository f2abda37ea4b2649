------------------------------ MODULE Containers ------------------------------
(***************************************************************************)
(* The collector of the host plugin that polls a container engine: it      *)
(* tells the share of processor time each container used since its         *)
(* previous reading, and how many containers of each service run.  Time is *)
(* processor time: at each tick one container works, or none.              *)
(*                                                                         *)
(* A container is known by its id; a deployment starts one under a         *)
(* transient name, then renames it; its counter starts over with it.       *)
(***************************************************************************)
EXTENDS Integers, FiniteSets

CONSTANTS
    Ids,
    Names,      \* the lasting names of containers
    ServiceNamed, \* name -> the service it names
    Width,      \* the counters wrap at Width
    MaxTime,    \* bound: processor time
    MaxBoots,   \* bound: starts of containers
    MaxStarts   \* bound: starts of the plugin

ContainersAssumption ==
    /\ IsFiniteSet(Ids) /\ Names \subseteq DOMAIN ServiceNamed
    /\ Width \in Nat /\ MaxTime \in Nat \ {0} /\ MaxTime < Width

VARIABLES
    system,     \* the processor time of the machine
    running,    \* the running containers: id -> [name, transient, usage]
    boots,      \* how many containers were started
    prevCPU,    \* id -> its last reading
    poll,       \* [going, listed, left, counts], the last one between polls
    shares,     \* what this poll told so far: [id, name, used, elapsed, real]
    spent,      \* history: id -> [used, since, intact] since its last reading
    starts

world == <<system, running, boots>>
collector == <<prevCPU, poll, shares, spent, starts>>
containers == <<world, collector>>

Nothing == [x \in {} |-> 0]
With(f, x, v) == [y \in DOMAIN f \cup {x} |-> IF y = x THEN v ELSE f[y]]
Only(f, S) == [y \in DOMAIN f \cap S |-> f[y]]

Idle == [going |-> FALSE, listed |-> Nothing, left |-> {}, counts |-> Nothing]

Init ==
    /\ system = 1 /\ running = Nothing /\ boots = 0
    /\ prevCPU = Nothing /\ poll = Idle /\ shares = {}
    /\ spent = [i \in Ids |-> [used |-> 0, since |-> 0, intact |-> TRUE]]
    /\ starts = 1

----------------------------------------------------------------------------
(* External: the machine and its container engine *)

Work(i) ==
    /\ system < MaxTime /\ system' = system + 1
    /\ running' = [running EXCEPT ![i].usage = @ + 1]
    /\ spent' = [spent EXCEPT ![i].used = @ + 1]
    /\ UNCHANGED <<boots, prevCPU, poll, shares, starts>>

Elsewhere ==
    /\ system < MaxTime /\ system' = system + 1
    /\ UNCHANGED <<running, boots, collector>>

\* A container starts, for the first time or again, under a free name.
Boot(i, name, transient) ==
    /\ i \notin DOMAIN running /\ boots < MaxBoots /\ boots' = boots + 1
    /\ \A j \in DOMAIN running :
         running[j].name /= name \/ running[j].transient /= transient
    /\ running' = With(running, i, [name |-> name, transient |-> transient, usage |-> 0])
    /\ spent' = [spent EXCEPT ![i].intact = FALSE]
    /\ UNCHANGED <<system, prevCPU, poll, shares, starts>>

Stop(i) ==
    /\ running' = Only(running, Ids \ {i})
    /\ UNCHANGED <<system, boots, collector>>

\* The end of a deployment: the new container takes the name of the old one.
Rename(i) ==
    /\ running[i].transient
    /\ \A j \in DOMAIN running :
         running[j].name = running[i].name => running[j].transient
    /\ running' = [running EXCEPT ![i].transient = FALSE]
    /\ UNCHANGED <<system, boots, collector>>

\* What the engine answers about a container: zeros once it stopped.
Reading(i) ==
    IF i \in DOMAIN running THEN [usage |-> running[i].usage, system |-> system]
    ELSE [usage |-> 0, system |-> 0]

----------------------------------------------------------------------------
(* One poll *)

\* It begins with the list of those that run; without it, there is no poll.
List ==
    /\ ~poll.going
    /\ poll' = [going |-> TRUE, left |-> DOMAIN running, counts |-> Nothing,
                listed |-> [i \in DOMAIN running |->
                              [name |-> running[i].name, transient |-> running[i].transient]]]
    /\ UNCHANGED <<world, prevCPU, shares, spent, starts>>

TransientContainer(container) == container.transient

Counted(i) ==
    LET service == ServiceNamed[poll.listed[i].name] IN
    With(poll.counts, service,
         IF service \in DOMAIN poll.counts THEN poll.counts[service] + 1 ELSE 1)
Visited(i) ==
    poll' = [going |-> poll.going, listed |-> poll.listed, left |-> poll.left \ {i},
             counts |-> Counted(i)]

\* A container that is transient, or whose counters could not be read, is
\* counted only.
Skip(i) ==
    /\ Visited(i)
    /\ UNCHANGED <<world, prevCPU, shares, spent, starts>>

\* Mutant: a counter that went back is not looked for.
MeasurableAnyway(i, sample) ==
    i \in DOMAIN prevCPU /\ sample.system > prevCPU[i].system

\* cpuPercent: a first reading is a baseline, and so is one whose counters
\* went back or did not move.
Measurable(i, sample) ==
    /\ i \in DOMAIN prevCPU
    /\ sample.system > prevCPU[i].system /\ sample.usage >= prevCPU[i].usage

Share(i, sample) ==
    [id |-> i, name |-> poll.listed[i].name,
     used |-> (sample.usage - prevCPU[i].usage) % Width,
     elapsed |-> (sample.system - prevCPU[i].system) % Width,
     real |-> [spent[i] EXCEPT !.since = system - @]]

Measure(i) ==
    LET sample == Reading(i) IN
    /\ ~TransientContainer(poll.listed[i]) /\ Visited(i)
    /\ prevCPU' = With(prevCPU, i, sample)
    /\ shares' = IF Measurable(i, sample) THEN shares \cup {Share(i, sample)} ELSE shares
    /\ spent' = [spent EXCEPT ![i] = [used |-> 0, since |-> system, intact |-> TRUE]]
    /\ UNCHANGED <<world, starts>>

\* It ends with the counts, and forgets the containers that are gone.
Finish ==
    /\ poll.going /\ poll.left = {}
    /\ poll' = [poll EXCEPT !.going = FALSE] /\ shares' = {}
    /\ prevCPU' = Only(prevCPU, DOMAIN poll.listed)
    /\ UNCHANGED <<world, spent, starts>>

\* An emit fails or the plugin is stopped: it is started anew.
Restart ==
    /\ starts < MaxStarts /\ starts' = starts + 1
    /\ prevCPU' = Nothing /\ poll' = Idle /\ shares' = {}
    /\ UNCHANGED <<world, spent>>

Next ==
    \/ \E i \in DOMAIN running : Work(i) \/ Stop(i) \/ Rename(i)
    \/ \E i \in Ids, name \in Names, transient \in BOOLEAN : Boot(i, name, transient)
    \/ Elsewhere \/ List
    \/ \E i \in poll.left : Skip(i) \/ Measure(i)
    \/ Finish \/ Restart

Spec == Init /\ [][Next]_containers

----------------------------------------------------------------------------
(* Properties *)

\* A share is never of more time than the container used since its previous
\* reading, nor over less time than passed; it is exactly that unless the
\* container started over in between.
SharesAreReal ==
    \A s \in shares :
      /\ s.used <= s.real.used /\ s.elapsed >= s.real.since /\ s.used <= s.elapsed
      /\ s.real.intact => s.used = s.real.used /\ s.elapsed = s.real.since

\* A series is one container at a time: no name gets two shares in a poll.
OneSharePerName == \A s, t \in shares : s.name = t.name => s = t

\* A deployment left behind is visible: every container listed is counted,
\* measured or not.  Nothing is kept about a container that is gone.
AllAreCounted ==
    ~poll.going =>
      /\ \A service \in {ServiceNamed[name] : name \in Names} :
           LET listed ==
                 {i \in DOMAIN poll.listed : ServiceNamed[poll.listed[i].name] = service}
           IN  IF service \in DOMAIN poll.counts
               THEN poll.counts[service] = Cardinality(listed) ELSE listed = {}
      /\ DOMAIN prevCPU \subseteq DOMAIN poll.listed

\* What the collector tells of the containers.
ContainersAreReal == SharesAreReal /\ OneSharePerName /\ AllAreCounted
=============================================================================
