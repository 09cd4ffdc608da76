---------------------------- MODULE RetryBackoff ----------------------------
(* The platform's shared patience curve, domain/runnable/backoff.go.       *)
EXTENDS Integers

CONSTANT RetryBackoffCap, DefaultBase

RECURSIVE Doubled(_, _)
(* The loop: double `times' times, and stop at the cap.                    *)
Doubled(delay, times) ==
  IF times = 0 THEN delay
  ELSE IF 2 * delay >= RetryBackoffCap THEN RetryBackoffCap
  ELSE Doubled(2 * delay, times - 1)

RetryBackoff(base, attempt) ==
  Doubled(IF base <= 0 THEN DefaultBase ELSE base,
          IF attempt < 1 THEN 0 ELSE attempt - 1)
=============================================================================
