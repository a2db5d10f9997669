------------------------------ MODULE Watchdog ------------------------------
(***************************************************************************)
(* The restart watchdog of src/signal/watchdog.rs with its clock.  The     *)
(* fields keep the code's names; `tripped` is what the latest call         *)
(* returned and `burst` remembers when the failures since the latest       *)
(* success or trip were recorded, for the properties only.                 *)
(***************************************************************************)
EXTENDS WatchdogCount, Integers, Sequences

CONSTANTS
    WatchdogWindow,     \* ticks within which failures chain
    MaxTime             \* bound: the clock stops here

ASSUME ClockAssumption == WatchdogWindow \in Nat /\ MaxTime \in Nat

VARIABLES now, consecutive_failures, last_failure, tripped, burst

vars == <<now, consecutive_failures, last_failure, tripped, burst>>

\* last_failure when no failure is remembered (Option::None).
Never == -1

TypeOK ==
    /\ now \in 0..MaxTime
    /\ consecutive_failures \in Nat
    /\ consecutive_failures = 0 \/ consecutive_failures < WatchdogThreshold
    /\ last_failure \in {Never} \cup 0..now
    /\ tripped \in BOOLEAN
    /\ burst \in Seq(0..now)

Init ==
    /\ now = 0
    /\ consecutive_failures = 0
    /\ last_failure = Never
    /\ tripped = FALSE
    /\ burst = << >>

Tick ==
    /\ now < MaxTime
    /\ now' = now + 1
    /\ UNCHANGED <<consecutive_failures, last_failure, tripped, burst>>

\* The window excludes its own end.
Mutant_InWindowStrict(t) == last_failure # Never /\ t - last_failure < WatchdogWindow

\* A failure at time t chains with the latest one.
InWindow(t) == last_failure # Never /\ t - last_failure <= WatchdogWindow

\* The count does not decay.
Mutant_RecordFailureKeepsCount ==
    LET count == 1 + consecutive_failures
    IN  /\ tripped' = (count >= WatchdogThreshold)
        /\ consecutive_failures' = IF tripped' THEN 0 ELSE count
        /\ last_failure' = IF tripped' THEN Never ELSE now
        /\ burst' = IF tripped' THEN << >> ELSE Append(burst, now)
        /\ UNCHANGED now

RecordFailure ==
    LET count == 1 + IF InWindow(now) THEN consecutive_failures ELSE 0
    IN  /\ tripped' = (count >= WatchdogThreshold)
        /\ consecutive_failures' = IF tripped' THEN 0 ELSE count
        /\ last_failure' = IF tripped' THEN Never ELSE now
        /\ burst' = IF tripped' THEN << >> ELSE Append(burst, now)
        /\ UNCHANGED now

RecordSuccess ==
    /\ consecutive_failures' = 0
    /\ last_failure' = Never
    /\ tripped' = FALSE
    /\ burst' = << >>
    /\ UNCHANGED now

Next == Tick \/ RecordFailure \/ RecordSuccess

Spec == Init /\ [][Next]_vars

-----------------------------------------------------------------------------
(***************************************************************************)
(* Properties.                                                             *)
(***************************************************************************)

\* The last k failures of h follow each other within the window.
Chained(h, k) ==
    \A i \in Len(h) - k + 1 .. Len(h) - 1 : h[i + 1] - h[i] <= WatchdogWindow

(***************************************************************************)
(* consecutive_failures is the length of the longest chain of failures     *)
(* that ends the burst: neither a decayed failure nor one from before a    *)
(* success or a trip is still counted.                                     *)
(***************************************************************************)
CountIsLongestChain ==
    /\ consecutive_failures <= Len(burst)
    /\ Chained(burst, consecutive_failures)
    /\ consecutive_failures < Len(burst) => ~Chained(burst, consecutive_failures + 1)

(***************************************************************************)
(* record_failure answers true exactly when this failure is the            *)
(* threshold-th of an unbroken chain, so one chain asks for one restart.   *)
(* An unbroken chain may well be longer than a window.                     *)
(***************************************************************************)
TripsExactlyOnAChain ==
    [][RecordFailure =>
         LET h == Append(burst, now)
         IN  tripped' <=> \E k \in WatchdogThreshold .. Len(h) : k > 0 /\ Chained(h, k)]_vars

\* The clocked state seen without the clock.
Abstracted == [failures |-> consecutive_failures, fresh |-> InWindow(now)]

(***************************************************************************)
(* Seen without the clock the watchdog makes the steps of WatchdogCount,   *)
(* which is what entitles the coordinator's model to use that module.      *)
(***************************************************************************)
BehavesLikeWatchdogCount ==
    /\ Abstracted = Clean
    /\ [][\/ Abstracted' = Failed(Abstracted) /\ tripped' = Trips(Abstracted)
          \/ Abstracted' = Clean /\ tripped' = FALSE
          \/ Abstracted' = Aged(Abstracted) /\ UNCHANGED tripped]_<<Abstracted, tripped>>
=============================================================================
