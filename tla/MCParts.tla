------------------------------ MODULE MCParts ------------------------------
(* Instances of Pipeline, Cron, Backoff and Stdout for TLC. *)
EXTENDS Pipeline, MCCron, Backoff, Stdout, TLC

CONSTANTS c1, c2, r1, r2, s1, s2, x1, x2, x3, p1, p2, k1, k2

MCCollectors == {c1, c2}
MCReceivers == {r1, r2}
MCSenders == {s1, s2}
\* A chunk that a collector passes on, one that a receiver does, and one of the same
\* receiver that is only good for the DLQ.
MCChunks == {x1, x2, x3}
MCOrigin == x1 :> c1 @@ x2 :> r1 @@ x3 :> r1
MCTarget == x1 :> s1 @@ x2 :> s2 @@ x3 :> DLQ

\* A millisecond is 10, a minute 40 and five minutes 200.
MCConfigs ==
  [type : {"none", "static", "backoff"}, method : {"GET", "POST"}, empty : BOOLEAN,
   maxAttempts : {0, 3, 12}, interval : {5, 10, 13, 40, 100},
   maxInterval : {5, 19, 20, 26, 79, 80, 1000}]

MCPrinters == {p1, p2}
MCClosers == {k1, k2}

VARIABLE part     \* which of the four it is

MCVars == <<part, vars, cronVars, backoffVars, stdoutVars>>

\* The others stay in an initial state.
MCInit ==
  /\ part \in {"pipeline", "cron", "backoff", "stdout"}
  /\ part # "cron" => sched = [kind |-> "once"] /\ zone = CHOOSE z \in Zones : TRUE
  /\ part # "backoff" => config = CHOOSE c \in Configs : TRUE
  /\ Init /\ CronInit /\ BackoffInit /\ StdoutInit

MCNext ==
  /\ \/ part = "pipeline" /\ Next /\ UNCHANGED <<cronVars, backoffVars, stdoutVars>>
     \/ part = "cron" /\ CronNext /\ UNCHANGED <<vars, backoffVars, stdoutVars>>
     \/ part = "backoff" /\ BackoffNext /\ UNCHANGED <<vars, cronVars, stdoutVars>>
     \/ part = "stdout" /\ StdoutNext /\ UNCHANGED <<vars, cronVars, backoffVars>>
  /\ UNCHANGED part

MCSpec ==
  /\ MCInit /\ [][MCNext]_MCVars
  /\ CronFairness
  /\ part = "pipeline" => Fairness
=============================================================================
