-------------------------------- MODULE Plugins --------------------------------
(***************************************************************************)
(* The source plugins: what install puts in the plugins directory, from a  *)
(* release that may ship several plugins, with checksums or without, and   *)
(* the supervision of a plugin process, which is started again with a      *)
(* backoff whenever its stream ends.  A file that is being written cannot  *)
(* be executed, nor one that runs be written (ETXTBSY).                    *)
(***************************************************************************)
EXTENDS Integers, FiniteSets, Sequences

CONSTANTS
    Names,          \* the plugins
    Supervised,     \* those the server runs, installed when it starts
    Releases,       \* [assets, checksums]: what the project publishes, what it lists
    InitialBackoff, MaxBackoff,
    MaxTime, MaxInstalls   \* bounds

PluginsAssumption ==
    /\ InitialBackoff \in Nat \ {0} /\ MaxBackoff \in Nat /\ InitialBackoff <= MaxBackoff
    /\ MaxTime \in Nat

VARIABLES
    clock,
    dir,        \* the plugins directory: name -> "verified", "unverified", "torn"
    install,    \* the one installation: [step, ...]
    installs,
    process,    \* supervised plugin -> [at, binary, start, wake, backoff]
    starts      \* history: the times of the starts since a run that lasted

plugins == <<clock, dir, install, installs, process, starts>>

NoInstall == [step |-> "none"]

Init ==
    /\ clock = 0 /\ install = NoInstall /\ installs = 0
    /\ dir = [n \in Supervised |-> "verified"]
    /\ process = [n \in Supervised |->
                    [at |-> "asleep", start |-> 0, wake |-> 0, backoff |-> InitialBackoff]]
    /\ starts = [n \in Supervised |-> <<>>]

----------------------------------------------------------------------------
(* install *)

ProcessSame == UNCHANGED <<clock, process, starts>>

\* selectAsset: the archive asked for, or the only one for the platform.
SelectAsset(release, name) ==
    IF name /= "" THEN release.assets \cap {name}
    ELSE IF Cardinality(release.assets) = 1 THEN release.assets ELSE {}

\* Install resolves the release and downloads the archive, which may have
\* been damaged on the way.
Resolve ==
    /\ install = NoInstall /\ installs < MaxInstalls /\ installs' = installs + 1
    /\ \E release \in Releases, name \in Names \cup {""} :
         \E asset \in SelectAsset(release, name), intact \in BOOLEAN :
           install' = [step |-> "downloaded", asset |-> asset, intact |-> intact,
                       sums |-> release.checksums]
    /\ UNCHANGED dir /\ ProcessSame

\* verifyChecksum: none are shipped, or the one of the asset agrees.
Verified(i) == i.sums = {} \/ (i.asset \in i.sums /\ i.intact)

Verify ==
    /\ install.step = "downloaded"
    /\ install' = IF Verified(install) THEN [install EXCEPT !.step = "verified"] ELSE NoInstall
    /\ UNCHANGED <<dir, installs>> /\ ProcessSame

Running(n) == n \in Supervised /\ process[n].at = "running"

Put(name, binary) ==
    dir' = [n \in DOMAIN dir \cup {name} |-> IF n = name THEN binary ELSE dir[n]]

\* The binary found in the archive, by its name or renamed; nothing when the
\* archive is not one.
ExtractPluginBinary(i) == IF i.intact \/ i.sums = {} THEN {i.asset} ELSE {}

\* WriteFile empties the file first, and fails on one that runs.
Write ==
    /\ install.step = "verified"
    /\ \/ \E name \in ExtractPluginBinary(install) :
            /\ ~Running(name) /\ Put(name, "torn")
            /\ install' = [install EXCEPT !.step = "writing"]
       \/ install' = NoInstall /\ UNCHANGED dir
    /\ UNCHANGED installs /\ ProcessSame

\* Written whole, or the disk is full and the file stays as it is.
Written ==
    /\ install.step = "writing" /\ install' = NoInstall
    /\ \/ Put(install.asset, IF install.sums = {} THEN "unverified" ELSE "verified")
       \/ UNCHANGED dir
    /\ UNCHANGED installs /\ ProcessSame

\* The command remove: what Lookup finds, installed.
Lookup == DOMAIN dir
Remove ==
    /\ installs < MaxInstalls /\ installs' = installs + 1 /\ install = NoInstall
    /\ \E name \in Lookup : dir' = [n \in DOMAIN dir \ {name} |-> dir[n]]
    /\ UNCHANGED install /\ ProcessSame

----------------------------------------------------------------------------
(* Ingest: one plugin and its backoff *)

InstallSame == UNCHANGED <<dir, install, installs>>

Set(n, p) == process' = [process EXCEPT ![n] = p]

\* Mutant: the backoff is reset by every run.
LastedAlways(p) == TRUE

\* A run that lasted a while.
Lasted(p) == clock - p.start > MaxBackoff

\* The stream ended, of itself or because the process would not start.
Asleep(n, p) ==
    LET backoff == IF Lasted(p) THEN InitialBackoff ELSE p.backoff IN
    Set(n, [at |-> "asleep", start |-> p.start, wake |-> clock + backoff,
            backoff |-> IF 2 * backoff < MaxBackoff THEN 2 * backoff ELSE MaxBackoff])

\* A wait ends on time.
Due(n) == process[n].at = "asleep" /\ clock >= process[n].wake

\* stream: the subprocess is started, and its stream opened; the path was
\* looked up once.
Start(n) ==
    /\ Due(n)
    /\ starts' = [starts EXCEPT ![n] = Append(@, clock)]
    /\ LET p == [process[n] EXCEPT !.start = clock]
           written == install.step = "writing" /\ install.asset = n IN
       IF n \in DOMAIN dir /\ ~written /\ dir[n] /= "torn"
       THEN Set(n, [p EXCEPT !.at = "running"]) ELSE Asleep(n, p)
    /\ InstallSame /\ UNCHANGED clock

StreamEnds(n) ==
    /\ process[n].at = "running" /\ Asleep(n, process[n])
    /\ starts' = [starts EXCEPT ![n] = IF clock - process[n].start > MaxBackoff THEN <<>> ELSE @]
    /\ InstallSame /\ UNCHANGED clock

\* The context of the server ends.
Cancel(n) ==
    /\ process[n].at \in {"running", "asleep"} /\ Set(n, [process[n] EXCEPT !.at = "returned"])
    /\ InstallSame /\ UNCHANGED <<clock, starts>>

Tick ==
    /\ clock < MaxTime /\ ~\E n \in Supervised : Due(n)
    /\ clock' = clock + 1 /\ InstallSame /\ UNCHANGED <<process, starts>>

Next ==
    \/ Resolve \/ Verify \/ Write \/ Written \/ Remove \/ Tick
    \/ \E n \in Supervised : Start(n) \/ StreamEnds(n) \/ Cancel(n)

Spec == Init /\ [][Next]_plugins

----------------------------------------------------------------------------
(* Properties *)

\* The wait that follows k doublings, were it not bounded.
Doubled(k) ==
    LET d[i \in 0..k] == IF i = 0 THEN InitialBackoff ELSE 2 * d[i - 1] IN d[k]

\* A plugin that keeps failing is started less and less often: its k-th
\* start since a run that lasted comes after waits that doubled each time,
\* up to the longest one, whatever is installed or removed meanwhile.
Spaced(times) ==
    \A k \in 2..Len(times) :
      times[k] - times[k - 1] >=
        IF Doubled(k - 2) < MaxBackoff THEN Doubled(k - 2) ELSE MaxBackoff
RestartsSpaced == \A n \in Supervised : Spaced(starts[n])

\* What is installed whole was verified, unless its release ships no
\* checksums at all: no damaged archive gets into the directory.
NothingDamagedInstalled ==
    install.step = "writing" => install.intact \/ install.sums = {}

\* A plugin that dies is not restarted in a storm, nor one installed unverified.
PluginsAreKept == RestartsSpaced /\ NothingDamagedInstalled
=============================================================================
