------------------------------ MODULE Backoff ------------------------------
(***************************************************************************)
(* Retry policies (src/pkg/http/retries.go): what parseRetries makes of a  *)
(* configuration, and the waits between the attempts of a request that     *)
(* keeps failing.  Durations are numbers of some unit.                     *)
(***************************************************************************)
EXTENDS Integers

CONSTANTS
  Configs,        \* records of the type of policy, the method and whether its
                  \* table is empty, and the numbers that it sets
  MinInterval,    \* a millisecond
  TopInterval,    \* a minute
  TopMaxInterval, \* five minutes
  MaxAttempts     \* 10

ASSUME BackoffAssumption ==
  /\ Configs \subseteq [type : {"none", "disabled", "static", "backoff"},
                        method : {"GET", "PATCH", "POST"}, empty : BOOLEAN,
                        maxAttempts : Int, interval : Int, maxInterval : Int]
  /\ {MinInterval, TopInterval, TopMaxInterval, MaxAttempts} \subseteq Nat
  /\ 5 <= MinInterval /\ MinInterval <= TopInterval /\ TopInterval <= TopMaxInterval

VARIABLES
  config, retries,  \* the configuration and its policy
  attempt,          \* the attempts that have failed
  interval,         \* the last wait, without its jitter
  wait              \* and with it; 0 before the first

backoffVars == <<config, retries, attempt, interval, wait>>

-----------------------------------------------------------------------------
(* parseRetries.                                                           *)

Clamp(v, low, high) == IF v < low THEN low ELSE IF v > high THEN high ELSE v

Disabled == [coefficient |-> 0, maxAttempts |-> 1, interval |-> 0, maxInterval |-> 0]

\* PATCH and POST are not retried unless the configuration says so.  A policy whose
\* intervals are equal is static.
ParseRetries(cfg) ==
  LET n   == Clamp(cfg.maxAttempts, 1, MaxAttempts)
      i   == Clamp(cfg.interval, MinInterval, TopInterval)
      max == Clamp(cfg.maxInterval, i, TopMaxInterval)
      static == cfg.type = "static" \/ max = i
  IN  IF \/ cfg.method \in {"PATCH", "POST"} /\ cfg.empty
         \/ cfg.type \in {"none", "disabled"}
         \/ n = 1
      THEN Disabled
      ELSE [coefficient |-> IF static THEN 1 ELSE 2, maxAttempts |-> n,
            interval |-> i, maxInterval |-> IF static THEN 0 ELSE max]

BackoffInit ==
  /\ config \in Configs
  /\ retries = ParseRetries(config)
  /\ attempt = 0 /\ interval = 0 /\ wait = 0

-----------------------------------------------------------------------------
(* waitBeforeRetry.                                                        *)

\* 1 << n
Shifted[n \in Nat] == IF n = 0 THEN 1 ELSE 2 * Shifted[n - 1]

\* bits.Len64
Len64(x) == IF x = 0 THEN 0 ELSE CHOOSE n \in 1..x : Shifted[n - 1] <= x /\ x < Shifted[n]

Iterations == Len64(retries.maxInterval \div retries.interval)

\* Mutant: the shift starts over an iteration late.
LateInterval == retries.interval * Shifted[attempt % (Iterations + 1)]

\* The shift starts over once the interval cannot be doubled any more.
BackoffInterval == retries.interval * Shifted[attempt % Iterations]

\* What rand.Int64N returns.
Jitters(i) == 0..((i \div 5) - 1)

\* The request failed and waits before the next attempt, unless it was the last.
WaitBeforeRetry ==
  /\ attempt < retries.maxAttempts - 1
  /\ IF retries.coefficient = 2
     THEN /\ interval' = BackoffInterval
          /\ \E jitter \in Jitters(interval') : wait' = ((9 * interval') \div 10) + jitter
     ELSE interval' = retries.interval /\ wait' = interval'
  /\ attempt' = attempt + 1
  /\ UNCHANGED <<config, retries>>

BackoffNext == WaitBeforeRetry

BackoffSpec == BackoffInit /\ [][BackoffNext]_backoffVars

-----------------------------------------------------------------------------
(* Properties.                                                             *)

\* However the policy was configured, a backoff doubles its interval as long as that
\* stays within the maximum, and only then starts over; and no wait is longer than
\* 110% of the maximum, or shorter than 90% of the least interval allowed.
BackoffKept ==
  [][/\ interval > 0 /\ retries.coefficient = 2 =>
          interval' = IF 2 * interval <= retries.maxInterval THEN 2 * interval
                      ELSE retries.interval
     /\ wait' >= (9 * MinInterval) \div 10
     /\ 10 * wait' <= 11 * (IF retries.coefficient = 2 THEN retries.maxInterval
                            ELSE TopInterval)]_backoffVars
=============================================================================
