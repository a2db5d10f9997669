--------------------------- MODULE WatchdogCount ---------------------------
(***************************************************************************)
(* The restart watchdog (src/signal/watchdog.rs) without a clock: a count  *)
(* of handshake failures, and whether the latest one is still within the   *)
(* window.  The model of the coordinator uses it; module Watchdog puts the *)
(* clock back and shows that the code's counter behaves like this one.     *)
(***************************************************************************)
EXTENDS Naturals

CONSTANT WatchdogThreshold

ASSUME ThresholdAssumption == WatchdogThreshold \in Nat

Counts == [failures : Nat, fresh : BOOLEAN]

\* Nothing counted: a new watchdog, record_success, and the state a trip leaves.
Clean == [failures |-> 0, fresh |-> FALSE]

\* One more failure, a count gone stale having decayed first.
Counted(dog) == 1 + IF dog.fresh THEN dog.failures ELSE 0

\* What record_failure returns: the caller must request a pipeline restart.
Trips(dog) == Counted(dog) >= WatchdogThreshold

\* What record_failure leaves behind.
Failed(dog) ==
    IF Trips(dog) THEN Clean ELSE [failures |-> Counted(dog), fresh |-> TRUE]

\* More than a window has gone by since the latest failure.
Aged(dog) == [dog EXCEPT !.fresh = FALSE]
=============================================================================
