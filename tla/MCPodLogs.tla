------------------------------ MODULE MCPodLogs ------------------------------
\* One pod, whose phase moves as Kubernetes lets it.
EXTENDS PodLogs

CONSTANTS p1

PhaseWrites(phase) ==
    CASE phase = Absent -> {"Pending", "Running"}
      [] phase \in {"Pending", "Unknown"} -> {"Running"}
      [] phase = "Running" -> {"Unknown", "Succeeded", Absent}
      [] OTHER -> {Absent}
==============================================================================
