--------------------------- MODULE WatchdogProofs ---------------------------
(***************************************************************************)
(* The restart watchdog, for every threshold, window and clock: its count  *)
(* is the length of the chain it is in, it trips exactly when a chain has  *)
(* reached the threshold, and without its clock it is WatchdogCount.       *)
(***************************************************************************)
EXTENDS Watchdog, TLAPS

\* What the counter knows of the burst: how long it is, and when it ended.
BurstOK ==
    /\ last_failure = Never <=> Len(burst) = 0
    /\ Len(burst) # 0 => last_failure = burst[Len(burst)]

Inv == TypeOK /\ BurstOK /\ CountIsLongestChain

\* The count that RecordFailure arrives at.
NewCount == 1 + IF InWindow(now) THEN consecutive_failures ELSE 0

\* A chain's later part is a chain.
LEMMA ShorterChain ==
    ASSUME NEW h \in Seq(Nat), NEW k \in Nat, NEW l \in Nat, l <= k, Chained(h, k)
    PROVE  Chained(h, l)
  BY DEF Chained

\* One more failure: a chain of h grows by one, if it is within the window.
LEMMA LongerChain ==
    ASSUME NEW h \in Seq(Nat), NEW t \in Nat, NEW k \in Nat, k <= Len(h), Len(h) # 0
    PROVE  LET g == Append(h, t)
           IN  /\ g \in Seq(Nat) /\ Len(g) = Len(h) + 1
               /\ Chained(g, 1)
               /\ k > 0 => (Chained(g, k + 1) <=> Chained(h, k) /\ t - h[Len(h)] <= WatchdogWindow)
  <1> DEFINE g == Append(h, t)
  <1>1. /\ g \in Seq(Nat) /\ Len(g) = Len(h) + 1 /\ Len(h) \in Nat
        /\ g[Len(h) + 1] = t /\ \A i \in 1..Len(h) : g[i] = h[i]
    OBVIOUS
  <1> HIDE DEF g
  <1>2. Chained(g, 1)
    BY <1>1 DEF Chained
  <1>3. ASSUME k > 0
        PROVE  Chained(g, k + 1) <=> Chained(h, k) /\ t - h[Len(h)] <= WatchdogWindow
    <2> DEFINE n == Len(h)
    <2>1. n \in Nat /\ k <= n /\ k >= 1 /\ n \in 1..n /\ n \in n - k + 1 .. n
      BY <1>1, <1>3
    <2>2. ASSUME Chained(g, k + 1)
          PROVE  Chained(h, k) /\ t - h[n] <= WatchdogWindow
      <3>1. \A i \in n - k + 1 .. n : g[i + 1] - g[i] <= WatchdogWindow
        BY <1>1, <2>1, <2>2 DEF Chained
      <3>2. \A i \in n - k + 1 .. n - 1 : h[i + 1] - h[i] <= WatchdogWindow
        <4> SUFFICES ASSUME NEW i \in n - k + 1 .. n - 1 PROVE h[i + 1] - h[i] <= WatchdogWindow
          OBVIOUS
        <4>1. i \in 1..n /\ i + 1 \in 1..n /\ i \in n - k + 1 .. n
          BY <2>1
        <4>2. g[i] = h[i] /\ g[i + 1] = h[i + 1]
          BY <1>1, <4>1
        <4> QED BY <3>1, <4>1, <4>2
      <3>3. g[n] = h[n] /\ g[n + 1] = t
        BY <1>1, <2>1
      <3>4. t - h[n] <= WatchdogWindow
        BY <2>1, <3>1, <3>3
      <3> QED BY <3>2, <3>4 DEF Chained
    <2>3. ASSUME Chained(h, k), t - h[n] <= WatchdogWindow
          PROVE  Chained(g, k + 1)
      <3> SUFFICES ASSUME NEW i \in n - k + 1 .. n PROVE g[i + 1] - g[i] <= WatchdogWindow
        BY <1>1, <2>1 DEF Chained
      <3>1. CASE i = n
        <4>1. g[n] = h[n] /\ g[n + 1] = t
          BY <1>1, <2>1
        <4> QED BY <2>3, <3>1, <4>1
      <3>2. CASE i # n
        <4>1. i \in 1..n /\ i + 1 \in 1..n /\ i \in n - k + 1 .. n - 1
          BY <2>1, <3>2
        <4>2. g[i] = h[i] /\ g[i + 1] = h[i + 1]
          BY <1>1, <4>1
        <4> QED BY <2>3, <4>1, <4>2 DEF Chained
      <3> QED BY <3>1, <3>2
    <2> QED BY <2>2, <2>3
  <1> QED BY <1>1, <1>2, <1>3 DEF g

\* The first failure of a burst.
LEMMA FirstFailure ==
    ASSUME NEW h \in Seq(Nat), NEW t \in Nat, Len(h) = 0
    PROVE  /\ Append(h, t) \in Seq(Nat) /\ Len(Append(h, t)) = 1
           /\ Chained(Append(h, t), 1)
  <1>1. Append(h, t) \in Seq(Nat) /\ Len(Append(h, t)) = 1
    OBVIOUS
  <1> QED BY <1>1 DEF Chained

\* NewCount is the length of the longest chain at the end of the longer burst.
LEMMA CountGrows ==
    ASSUME Inv
    PROVE  LET h == Append(burst, now)
           IN  /\ NewCount \in Nat \ {0} /\ NewCount <= Len(h) /\ h \in Seq(Nat)
               /\ Chained(h, NewCount)
               /\ NewCount < Len(h) => ~Chained(h, NewCount + 1)
  <1> DEFINE h == Append(burst, now)
  <1>1. /\ burst \in Seq(Nat) /\ now \in Nat /\ consecutive_failures \in Nat
        /\ last_failure \in Nat \cup {Never} /\ Len(burst) \in Nat
    BY ClockAssumption DEF Inv, TypeOK
  <1>2. CASE Len(burst) = 0
    <2>1. consecutive_failures = 0 /\ ~InWindow(now)
      BY <1>1, <1>2 DEF Inv, BurstOK, CountIsLongestChain, InWindow
    <2>2. NewCount = 1
      BY <2>1 DEF NewCount
    <2>3. h \in Seq(Nat) /\ Len(h) = 1 /\ Chained(h, 1)
      BY <1>1, <1>2, FirstFailure
    <2> QED BY <2>2, <2>3
  <1>3. CASE Len(burst) # 0
    <2>1. /\ consecutive_failures <= Len(burst) /\ Chained(burst, consecutive_failures)
          /\ consecutive_failures < Len(burst) => ~Chained(burst, consecutive_failures + 1)
          /\ last_failure = burst[Len(burst)] /\ last_failure # Never
      BY <1>3 DEF Inv, BurstOK, CountIsLongestChain
    <2>2. InWindow(now) <=> now - burst[Len(burst)] <= WatchdogWindow
      BY <2>1 DEF InWindow
    <2>3. \A k \in Nat : k <= Len(burst) =>
            /\ h \in Seq(Nat) /\ Len(h) = Len(burst) + 1
            /\ Chained(h, 1)
            /\ k > 0 => (Chained(h, k + 1) <=> Chained(burst, k) /\ InWindow(now))
      BY <1>1, <1>3, <2>2, LongerChain
    <2> HIDE DEF h
    <2>4. CASE InWindow(now)
      <3>1. NewCount = consecutive_failures + 1
        BY <1>1, <2>4 DEF NewCount
      <3>2. Chained(h, NewCount)
        BY <1>1, <2>1, <2>3, <2>4, <3>1
      <3>3. NewCount < Len(h) => ~Chained(h, NewCount + 1)
        <4> DEFINE k == consecutive_failures + 1
        <4>1. k \in Nat /\ k > 0 /\ NewCount = k
          BY <1>1, <3>1
        <4> HIDE DEF k
        <4>2. k < Len(h) => k <= Len(burst) /\ consecutive_failures < Len(burst)
          BY <1>1, <2>3, <3>1, <4>1
        <4>3. k < Len(h) => (Chained(h, k + 1) => Chained(burst, k))
          BY <2>3, <4>1, <4>2
        <4>4. consecutive_failures < Len(burst) => ~Chained(burst, k)
          BY <2>1 DEF k
        <4> QED BY <4>1, <4>2, <4>3, <4>4
      <3> QED BY <1>1, <2>1, <2>3, <3>1, <3>2, <3>3 DEF h
    <2>5. CASE ~InWindow(now)
      <3>1. NewCount = 1
        BY <2>5 DEF NewCount
      <3>2. ~Chained(h, 2)
        BY <1>1, <1>3, <2>3, <2>5
      <3> QED BY <1>1, <1>3, <2>3, <3>1, <3>2 DEF h
    <2> QED BY <2>4, <2>5
  <1> QED BY <1>2, <1>3

\* RecordFailure in terms of the count.
LEMMA RecordFailureIs ==
    RecordFailure <=>
        /\ tripped' = (NewCount >= WatchdogThreshold)
        /\ consecutive_failures' = IF tripped' THEN 0 ELSE NewCount
        /\ last_failure' = IF tripped' THEN Never ELSE now
        /\ burst' = IF tripped' THEN << >> ELSE Append(burst, now)
        /\ UNCHANGED now
  BY DEF RecordFailure, NewCount

\* An empty burst with nothing counted.
LEMMA NothingCounted == Len(<< >>) = 0 /\ Chained(<< >>, 0) /\ \A n : << >> \in Seq(0..n)
  BY DEF Chained

\* A counter whose window has passed.
LEMMA AgedIs ==
    ASSUME NEW d \in Counts
    PROVE  Aged(d) = [failures |-> d.failures, fresh |-> FALSE]
  <1>1. Aged(d) \in Counts /\ Aged(d).failures = d.failures /\ Aged(d).fresh = FALSE
    BY DEF Aged, Counts
  <1>2. \A x \in Counts : x = [failures |-> x.failures, fresh |-> x.fresh]
    BY DEF Counts
  <1> QED BY <1>1, <1>2

\* Nothing is counted at first.
LEMMA InitInv == Init => Inv
  <1> SUFFICES ASSUME Init PROVE Inv
    OBVIOUS
  <1>1. TypeOK
    <2>1. 0 \in 0..MaxTime /\ burst \in Seq(0..now)
      BY ClockAssumption, NothingCounted DEF Init
    <2> QED BY <2>1 DEF Init, TypeOK
  <1> QED BY <1>1, NothingCounted DEF Init, Inv, BurstOK, CountIsLongestChain

\* Every step keeps the count the length of the chain.
LEMMA NextInv ==
    ASSUME Inv, [Next]_vars
    PROVE  Inv'
  <1>1. /\ now \in 0..MaxTime /\ now \in Nat /\ burst \in Seq(0..now)
        /\ last_failure \in {Never} \cup 0..now /\ MaxTime \in Nat
    BY ClockAssumption DEF Inv, TypeOK
  <1>2. CASE Tick
    <2>1. now' \in 0..MaxTime /\ 0..now \subseteq 0..now'
      BY <1>1, <1>2 DEF Tick
    <2>2. burst \in Seq(0..now')
      BY <1>1, <2>1
    <2>3. TypeOK'
      BY <1>1, <1>2, <2>1, <2>2 DEF Tick, Inv, TypeOK
    <2> QED BY <1>2, <2>3 DEF Tick, Inv, BurstOK, CountIsLongestChain, Chained
  <1>3. CASE RecordFailure /\ tripped'
    <2>1. /\ consecutive_failures' = 0 /\ last_failure' = Never /\ burst' = << >> /\ now' = now
          /\ tripped' \in BOOLEAN
      BY <1>3, RecordFailureIs
    <2>2. TypeOK'
      BY <1>1, <2>1, NothingCounted DEF TypeOK
    <2> QED BY <2>1, <2>2, NothingCounted DEF Inv, BurstOK, CountIsLongestChain, Chained
  <1>4. CASE RecordFailure /\ ~tripped'
    <2> DEFINE h == Append(burst, now)
    <2>1. /\ consecutive_failures' = NewCount /\ last_failure' = now /\ burst' = h /\ now' = now
          /\ tripped' \in BOOLEAN /\ ~(NewCount >= WatchdogThreshold)
      <3>1. tripped' = (NewCount >= WatchdogThreshold)
        BY <1>4, RecordFailureIs
      <3>2. ~(NewCount >= WatchdogThreshold)
        BY <1>4, <3>1, Zenon
      <3>3. (NewCount >= WatchdogThreshold) \in BOOLEAN
        OBVIOUS
      <3>4. tripped' \in BOOLEAN
        BY <3>1, <3>3
      <3> QED BY <1>4, <3>2, <3>4, RecordFailureIs
    <2>2. /\ NewCount \in Nat \ {0} /\ NewCount <= Len(h) /\ Chained(h, NewCount)
          /\ NewCount < Len(h) => ~Chained(h, NewCount + 1)
      BY CountGrows
    <2>3. h \in Seq(0..now) /\ Len(h) # 0 /\ h[Len(h)] = now /\ now # Never
      BY <1>1 DEF Never
    <2> HIDE DEF h
    <2>4. TypeOK'
      <3>1. NewCount \in Nat /\ NewCount < WatchdogThreshold /\ now \in 0..now
        BY <1>1, <2>1, <2>2, ThresholdAssumption
      <3> QED BY <1>1, <2>1, <2>3, <3>1 DEF TypeOK
    <2> QED BY <2>1, <2>2, <2>3, <2>4 DEF Inv, BurstOK, CountIsLongestChain, Chained
  <1>5. CASE RecordSuccess
    <2>1. /\ consecutive_failures' = 0 /\ last_failure' = Never /\ burst' = << >> /\ now' = now
          /\ tripped' = FALSE
      BY <1>5 DEF RecordSuccess
    <2>2. TypeOK'
      BY <1>1, <2>1, NothingCounted DEF TypeOK
    <2> QED BY <2>1, <2>2, NothingCounted DEF Inv, BurstOK, CountIsLongestChain, Chained
  <1>6. CASE UNCHANGED vars
    BY <1>6 DEF vars, Inv, TypeOK, BurstOK, CountIsLongestChain, Chained
  <1> QED BY <1>2, <1>3, <1>4, <1>5, <1>6 DEF Next

(***************************************************************************)
(* Every field keeps its type, and the count stays below the threshold, so *)
(* that the u32 of the code cannot overflow.                               *)
(***************************************************************************)
THEOREM TypeCorrect == Spec => []TypeOK
  <1>1. Inv => TypeOK
    BY DEF Inv
  <1>2. Inv /\ [Next]_vars => Inv'
    BY NextInv
  <1> QED BY <1>1, <1>2, InitInv, PTL DEF Spec

(***************************************************************************)
(* The count is the length of the longest chain of failures within the     *)
(* window that ends the burst, for every threshold and window.             *)
(***************************************************************************)
THEOREM CountsTheChain == Spec => []CountIsLongestChain
  <1>1. Inv => CountIsLongestChain
    BY DEF Inv
  <1>2. Inv /\ [Next]_vars => Inv'
    BY NextInv
  <1> QED BY <1>1, <1>2, InitInv, PTL DEF Spec

(***************************************************************************)
(* record_failure asks for a restart exactly when this failure makes the   *)
(* chain it ends as long as the threshold.                                 *)
(***************************************************************************)
THEOREM TripsOnAChain == Spec => TripsExactlyOnAChain
  <1> DEFINE Reached == LET h == Append(burst, now)
                        IN  \E k \in WatchdogThreshold .. Len(h) : k > 0 /\ Chained(h, k)
  <1>1. ASSUME Inv, RecordFailure
        PROVE  tripped' <=> Reached
    <2> DEFINE h == Append(burst, now)
    <2>1. /\ NewCount \in Nat \ {0} /\ NewCount <= Len(h) /\ h \in Seq(Nat)
          /\ Chained(h, NewCount)
          /\ NewCount < Len(h) => ~Chained(h, NewCount + 1)
      BY <1>1, CountGrows
    <2>2. tripped' <=> NewCount >= WatchdogThreshold
      BY <1>1, RecordFailureIs
    <2>3. Reached <=> \E k \in WatchdogThreshold .. Len(h) : k > 0 /\ Chained(h, k)
      OBVIOUS
    <2> HIDE DEF h, Reached
    <2>4. Len(h) \in Nat
      BY <2>1
    <2>5. ASSUME NewCount >= WatchdogThreshold
          PROVE  Reached
      BY <2>1, <2>3, <2>4, <2>5, ThresholdAssumption
    <2>6. ASSUME NewCount < WatchdogThreshold, Reached
          PROVE  FALSE
      <3>1. PICK k \in WatchdogThreshold .. Len(h) : k > 0 /\ Chained(h, k)
        BY <2>3, <2>6
      <3>2. k \in Nat /\ NewCount + 1 \in Nat /\ NewCount + 1 <= k /\ NewCount < Len(h)
        BY <2>1, <2>4, <2>6, <3>1, ThresholdAssumption
      <3>3. Chained(h, NewCount + 1)
        BY <2>1, <3>1, <3>2, ShorterChain
      <3> QED BY <2>1, <3>2, <3>3
    <2> QED BY <2>1, <2>2, <2>5, <2>6, ThresholdAssumption
  <1>2. Inv => (RecordFailure => (tripped' <=> Reached))
    BY <1>1
  <1>3. Inv /\ [Next]_vars => Inv'
    BY NextInv
  <1> QED BY <1>2, <1>3, InitInv, PTL DEF Spec, TripsExactlyOnAChain

(***************************************************************************)
(* Without its clock the watchdog makes only steps of WatchdogCount, so    *)
(* what the coordinator's model does with that counter is what the code    *)
(* does with this one.                                                     *)
(***************************************************************************)
THEOREM ImplementsWatchdogCount == Spec => BehavesLikeWatchdogCount
  <1> DEFINE Step == \/ Abstracted' = Failed(Abstracted) /\ tripped' = Trips(Abstracted)
                     \/ Abstracted' = Clean /\ tripped' = FALSE
                     \/ Abstracted' = Aged(Abstracted) /\ UNCHANGED tripped
  <1>1. ASSUME Init PROVE Abstracted = Clean
    BY <1>1 DEF Init, Abstracted, Clean, InWindow
  <1>2. ASSUME Inv, [Next]_vars
        PROVE  [Step]_<<Abstracted, tripped>>
    <2>1. /\ now \in Nat /\ last_failure \in Int /\ WatchdogWindow \in Nat
          /\ (last_failure # Never => last_failure <= now)
      BY <1>2, ClockAssumption DEF Inv, TypeOK, Never
    <2>2. Counted(Abstracted) = NewCount
      BY DEF Counted, Abstracted, NewCount
    <2>3. CASE Tick
      <3>1. UNCHANGED <<consecutive_failures, last_failure, tripped>> /\ now' = now + 1
        BY <2>3 DEF Tick
      <3>2. InWindow(now)' => InWindow(now)
        BY <2>1, <3>1 DEF InWindow
      <3>3. CASE InWindow(now)'
        <4>1. InWindow(now)' = TRUE /\ InWindow(now) = TRUE
          BY <3>2, <3>3 DEF InWindow
        <4>2. Abstracted' = Abstracted
          BY <3>1, <4>1 DEF Abstracted
        <4> QED BY <3>1, <4>2
      <3>4. CASE ~InWindow(now)'
        <4>1. InWindow(now)' = FALSE
          BY <3>4 DEF InWindow
        <4>2. Abstracted' = [failures |-> consecutive_failures, fresh |-> FALSE]
          BY <3>1, <4>1 DEF Abstracted
        <4>3. Aged(Abstracted) = [failures |-> consecutive_failures, fresh |-> FALSE]
          <5>1. InWindow(now) \in BOOLEAN /\ consecutive_failures \in Nat
            BY <1>2 DEF InWindow, Inv, TypeOK
          <5>2. Abstracted \in Counts /\ Abstracted.failures = consecutive_failures
            BY <5>1 DEF Abstracted, Counts
          <5> QED BY <5>2, AgedIs
        <4> QED BY <3>1, <4>2, <4>3
      <3> QED BY <3>3, <3>4
    <2>4. CASE RecordFailure
      <3>1. /\ tripped' = (NewCount >= WatchdogThreshold)
            /\ consecutive_failures' = IF tripped' THEN 0 ELSE NewCount
            /\ last_failure' = IF tripped' THEN Never ELSE now
            /\ now' = now
        BY <2>4, RecordFailureIs
      <3>2. tripped' = Trips(Abstracted)
        BY <2>2, <3>1 DEF Trips
      <3>3. CASE tripped'
        <4>1. InWindow(now)' = FALSE
          BY <3>1, <3>3 DEF InWindow
        <4>2. Trips(Abstracted)
          BY <3>2, <3>3
        <4> QED BY <3>1, <3>2, <3>3, <4>1, <4>2 DEF Abstracted, Failed, Clean
      <3>4. CASE ~tripped'
        <4>1. InWindow(now)' = TRUE
          BY <2>1, <3>1, <3>4 DEF InWindow, Never
        <4>2. ~Trips(Abstracted)
          BY <3>2, <3>4
        <4> QED BY <2>2, <3>1, <3>2, <3>4, <4>1, <4>2 DEF Abstracted, Failed
      <3> QED BY <3>3, <3>4
    <2>5. CASE RecordSuccess
      BY <2>5 DEF RecordSuccess, Abstracted, Clean, InWindow
    <2>6. CASE UNCHANGED vars
      BY <2>6 DEF vars, Abstracted, InWindow
    <2> QED BY <1>2, <2>3, <2>4, <2>5, <2>6 DEF Next
  <1>3. Init => Abstracted = Clean
    BY <1>1
  <1>4. Inv /\ [Next]_vars => [Step]_<<Abstracted, tripped>>
    BY <1>2
  <1>5. Inv /\ [Next]_vars => Inv'
    BY NextInv
  <1> QED BY <1>3, <1>4, <1>5, InitInv, PTL DEF Spec, BehavesLikeWatchdogCount
=============================================================================
