------------------------------- MODULE MCStages -------------------------------
\* One service observed by two collectors, of which one names the environment
\* that the other leaves to its default.
EXTENDS Stages

Observations ==
    [id : {TRUE}, source : {NoSource}, service : {"web"}, environment : {"", "default"},
     modality : {"metric"}, at : {1}, ingested : {1},
     payload : {[kind |-> "metric", name |-> "requests"]}]

Partitions == [key \in {"", "default"} \X {"web"} |-> IF key[1] = "" THEN 1 ELSE 2]
===============================================================================
