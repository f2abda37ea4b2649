--------------------------- MODULE MCLogDetector ---------------------------
\* One source: a heartbeat h whose text says too little, a template o the
\* configuration calls symptomatic, and a pattern that quiets the rest.
EXTENDS LogDetector

CONSTANTS h, o, z

All == {h, o, z}
Informing == {o}
ByTheGlob == <<{h, o, z}>>
Configured == [t \in {h, o} |-> IF t = h THEN "heartbeat" ELSE "symptomatic"]
Routine == [g \in {1} |-> "quiet"]
ClearOrQuiet == {"", "quiet"}
=============================================================================
