-------------------------- MODULE SupervisorProofs --------------------------
(***************************************************************************)
(* Proofs about module Supervisor, for any set of faults and any number of *)
(* runs: its types, where its pipelines and its main loops are, how it     *)
(* slows down, that it keeps the run cycle of module RunCycle, and that a  *)
(* shutdown leads out of it.                                               *)
(***************************************************************************)
EXTENDS Supervisor, TLAPS

(***************************************************************************)
(* What the type invariant needs besides itself: beyond the top of the     *)
(* loop there is a current run.                                            *)
(***************************************************************************)
Begun == run = 0 => pc \in {"top", "done"}

TypeInv == TypeOK /\ Begun

\* The initial state has the types.
LEMMA InitType == Init => TypeInv
<1> SUFFICES ASSUME Init PROVE TypeInv
  OBVIOUS
<1>1. run \in 0..MaxRuns /\ consecutive_failures \in 0..U32Max
  BY SupervisorAssumption DEF Init
<1>2. pipeline \in 0..run /\ main_loop \in 0..run /\ taken \in 0..run
  BY DEF Init, NoRun
<1>3. /\ loop \in [Runs -> {"none", "created", "running", "ended"}]
      /\ bus \in [Runs -> {"quiet", "eos", "error"}]
  BY DEF Init
<1>4. pc \in Places
  BY DEF Init, Places
<1> QED
  BY <1>1, <1>2, <1>3, <1>4 DEF Init, TypeOK, TypeInv, Begun

\* A step of the supervisor's own task keeps the types.
LEMMA TaskType == TypeInv /\ SupervisorTask => TypeInv'
<1> SUFFICES ASSUME TypeInv, SupervisorTask PROVE TypeInv'
  OBVIOUS
<1> USE SupervisorAssumption
        DEF TypeInv, Begun, TypeOK, Places, Returned, Runs, NoRun, requests, locked, gst, history
<1>1. CASE Begin
  <2>1. run' = run + 1 /\ run' \in 0..MaxRuns /\ run' # 0
    BY <1>1 DEF Begin
  <2>2. 0..run \subseteq 0..run' /\ 1..run \subseteq 1..run'
    BY <2>1
  <2>3. pipeline' \in 0..run' /\ main_loop' \in 0..run' /\ taken' \in 0..run'
    BY <1>1, <2>2 DEF Begin
  <2>4. live' \subseteq 1..run' /\ dropped' \subseteq 1..run' /\ abandoned' \subseteq 1..run'
    BY <1>1, <2>2 DEF Begin
  <2> QED
    BY <1>1, <2>1, <2>3, <2>4 DEF Begin
<1>2. CASE Leave
  BY <1>2 DEF Leave
<1>3. CASE InitFails
  <2>1. run \in 1..run
    BY <1>3 DEF InitFails
  <2>2. PICK left \in {{}, {run}} : live' = live \cup left /\ dropped' = dropped \cup left
    BY <1>3 DEF InitFails
  <2>3. live' \subseteq 1..run /\ dropped' \subseteq 1..run
    BY <2>1, <2>2
  <2> QED
    BY <1>3, <2>3 DEF InitFails
<1>4. CASE InitSucceeds
  <2>1. run \in 1..run /\ run \in 0..run
    BY <1>4 DEF InitSucceeds
  <2>2. {pipeline} \ {NoRun} \subseteq 1..run
    OBVIOUS
  <2> QED
    BY <1>4, <2>1, <2>2 DEF InitSucceeds
<1>5. CASE RunReturns
  BY <1>5 DEF RunReturns
<1>6. CASE ShutdownArm
  BY <1>6 DEF ShutdownArm
<1>7. CASE RestartArm
  BY <1>7 DEF RestartArm
<1>8. CASE End
  BY <1>8 DEF End
<1>9. CASE Quit
  BY <1>9 DEF Quit
<1>10. CASE Joined
  BY <1>10 DEF Joined
<1>11. CASE JoinTimesOut
  BY <1>11 DEF JoinTimesOut
<1>12. CASE CleanUp
  <2>1. PICK got \in BOOLEAN :
          IF got THEN pipeline' = NoRun /\ main_loop' = NoRun /\ taken' = pipeline
                 ELSE UNCHANGED <<locked, taken>>
    BY <1>12 DEF CleanUp
  <2>2. pipeline' \in 0..run /\ main_loop' \in 0..run /\ taken' \in 0..run
    BY <2>1
  <2>3. pc' \in {"nulling", "resetting"}
    BY <1>12 DEF CleanUp
  <2> QED
    BY <1>12, <2>2, <2>3 DEF CleanUp
<1>13. CASE Nulled
  <2>1. bus' \in [Runs -> {"quiet", "eos", "error"}]
    BY <1>13 DEF Nulled
  <2>2. 0 \in 0..run /\ live' \subseteq 1..run
    BY <1>13 DEF Nulled
  <2> QED
    BY <1>13, <2>1, <2>2 DEF Nulled
<1>14. CASE ResetEnds
  <2>1. FailuresAfter(outcome) \in 0..U32Max
    BY DEF FailuresAfter
  <2> QED
    BY <1>14, <2>1 DEF ResetEnds
<1>15. CASE BackoffEnds
  BY <1>15 DEF BackoffEnds
<1> QED
  BY <1>1, <1>2, <1>3, <1>4, <1>5, <1>6, <1>7, <1>8, <1>9, <1>10, <1>11, <1>12, <1>13, <1>14,
     <1>15 DEF SupervisorTask

\* So does every other step.
LEMMA NextType == TypeInv /\ [Next]_vars => TypeInv'
<1> SUFFICES ASSUME TypeInv, [Next]_vars PROVE TypeInv'
  OBVIOUS
<1> USE SupervisorAssumption
        DEF TypeInv, Begun, TypeOK, Places, Returned, Runs, NoRun, requests, locked, gst, history
<1>1. CASE SupervisorTask
  BY <1>1, TaskType
<1>2. CASE RunStarts
  BY <1>2 DEF RunStarts
<1>3. CASE LoopReturns
  BY <1>3 DEF LoopReturns
<1>4. ASSUME NEW g \in Runs, LoopStarts(g) PROVE TypeInv'
  BY <1>4 DEF LoopStarts
<1>5. ASSUME NEW g \in Runs, BusWatch(g) PROVE TypeInv'
  BY <1>5 DEF BusWatch
<1>6. ASSUME NEW g \in Runs, Posts(g) PROVE TypeInv'
  BY <1>6 DEF Posts
<1>7. CASE Shutdown
  BY <1>7 DEF Shutdown
<1>8. CASE Trip
  BY <1>8 DEF Trip
<1>9. CASE UNCHANGED vars
  BY <1>9 DEF vars
<1> QED
  BY <1>1, <1>2, <1>3, <1>4, <1>5, <1>6, <1>7, <1>8, <1>9 DEF Next, RunTask, MainLoop

(***************************************************************************)
(* Every variable keeps its type, and the numbers of runs stay among those *)
(* that were begun (src/supervisor.rs:44-147).                             *)
(***************************************************************************)
THEOREM TypeCorrect == Spec => []TypeOK
<1>1. TypeInv => TypeOK
  BY DEF TypeInv
<1> QED
  BY <1>1, InitType, NextType, PTL DEF Spec

-----------------------------------------------------------------------------
(***************************************************************************)
(* Where the pipelines are.  Inductive with what is known of the two       *)
(* handles: clean_up holds one only while it waits for NULL, and, the lock *)
(* not failing, the state holds one only between init() and clean_up().    *)
(***************************************************************************)
HandlesOK ==
    /\ taken # NoRun => pc = "nulling"
    /\ main_loop \in {NoRun, pipeline} \cup dropped
    /\ pipeline # NoRun /\ "lock" \notin Faults =>
          pc \in {"select", "ending", "quitting", "joining", "cleaning"}

HandlesInv == TypeInv /\ HandlesOK /\ LivePipelinesAreHeld

\* A step of the supervisor's own task keeps track of the pipelines.
LEMMA TaskHandles == HandlesInv /\ SupervisorTask => HandlesOK' /\ LivePipelinesAreHeld'
<1> SUFFICES ASSUME HandlesInv, SupervisorTask PROVE HandlesOK' /\ LivePipelinesAreHeld'
  OBVIOUS
<1> USE DEF HandlesInv, HandlesOK, LivePipelinesAreHeld, requests, locked, gst, history
<1>0. live \subseteq 1..run /\ 0 \notin live /\ run \in Nat
  BY SupervisorAssumption DEF TypeInv, TypeOK
<1>1. CASE Begin
  BY <1>1 DEF Begin
<1>2. CASE Leave
  BY <1>0, <1>2 DEF Leave, NoRun
<1>3. CASE InitFails
  BY <1>3 DEF InitFails
<1>4. CASE InitSucceeds
  BY <1>4 DEF InitSucceeds
<1>5. CASE RunReturns
  BY <1>5 DEF RunReturns
<1>6. CASE ShutdownArm
  BY <1>6 DEF ShutdownArm
<1>7. CASE RestartArm
  BY <1>7 DEF RestartArm
<1>8. CASE End
  BY <1>8 DEF End
<1>9. CASE Quit
  BY <1>9 DEF Quit
<1>10. CASE Joined
  BY <1>10 DEF Joined
<1>11. CASE JoinTimesOut
  BY <1>11 DEF JoinTimesOut
<1>12. CASE CleanUp
  <2>1. CASE pipeline' = NoRun /\ main_loop' = NoRun /\ taken' = pipeline
    BY <1>0, <1>12, <2>1 DEF CleanUp, NoRun
  <2>2. CASE "lock" \in Faults /\ UNCHANGED <<pipeline, main_loop, taken>>
    BY <1>12, <2>2 DEF CleanUp
  <2> QED
    BY <1>12, <2>1, <2>2 DEF CleanUp, Locks
<1>13. CASE Nulled
  BY <1>0, <1>13 DEF Nulled, NoRun
<1>14. CASE ResetEnds
  BY <1>0, <1>14 DEF ResetEnds, NoRun
<1>15. CASE BackoffEnds
  BY <1>15 DEF BackoffEnds
<1> QED
  BY <1>1, <1>2, <1>3, <1>4, <1>5, <1>6, <1>7, <1>8, <1>9, <1>10, <1>11, <1>12, <1>13, <1>14,
     <1>15 DEF SupervisorTask

\* The run task, the main loops and the requests leave the pipelines alone.
LEMMA NextHandles == HandlesInv /\ [Next]_vars => HandlesInv'
<1> SUFFICES ASSUME HandlesInv, [Next]_vars PROVE HandlesOK' /\ LivePipelinesAreHeld'
  BY NextType DEF HandlesInv
<1> USE DEF HandlesInv, HandlesOK, LivePipelinesAreHeld, requests, locked, gst, history
<1>1. CASE SupervisorTask
  BY <1>1, TaskHandles
<1>2. CASE RunTask
  BY <1>2 DEF RunTask, RunStarts, LoopReturns
<1>3. CASE \E g \in Runs : MainLoop(g) \/ Posts(g)
  BY <1>3 DEF MainLoop, LoopStarts, BusWatch, Posts
<1>4. CASE Shutdown \/ Trip
  BY <1>4 DEF Shutdown, Trip
<1>5. CASE UNCHANGED vars
  BY <1>5 DEF vars
<1> QED
  BY <1>1, <1>2, <1>3, <1>4, <1>5 DEF Next

(***************************************************************************)
(* No pipeline is left playing beside the current one, except one whose    *)
(* init() failed late or that its successor was stored over, and none at   *)
(* all between two runs: through any number of lost quits and joins that   *)
(* time out                                                                *)
(* (src/supervisor.rs:84-161, src/stream/gst_pipeline.rs:378-382, 495-514).*)
(***************************************************************************)
THEOREM LivePipelinesHeld == Spec => []LivePipelinesAreHeld
<1>1. Init => HandlesInv
  BY InitType DEF Init, HandlesInv, HandlesOK, LivePipelinesAreHeld
<1>2. HandlesInv => LivePipelinesAreHeld
  BY DEF HandlesInv
<1> QED
  BY <1>1, <1>2, NextHandles, PTL DEF Spec

-----------------------------------------------------------------------------
(***************************************************************************)
(* Whose the main loops are.  A loop that has not ended is the one the run *)
(* task waits for, or one whose join was given up; the run task is alive   *)
(* only until the join, and what it starts is the loop of its own run.     *)
(***************************************************************************)
LoopsOK ==
    /\ \A g \in Runs : loop[g] \in {"created", "running"} =>
          g \in abandoned \/ (g = run /\ task = "waiting")
    /\ task \in {"spawned", "waiting"} => pc \in {"select", "ending", "quitting", "joining"}
    /\ task = "spawned" => pipeline = run

\* Every step leaves the loops with their runs.
LEMMA NextLoops == HandlesInv /\ LoopsOK /\ [Next]_vars => LoopsOK'
<1> SUFFICES ASSUME HandlesInv, LoopsOK, [Next]_vars PROVE LoopsOK'
  OBVIOUS
<1>0. /\ loop \in [Runs -> {"none", "created", "running", "ended"}]
      /\ pipeline \in 0..run /\ run \in 0..MaxRuns
  BY DEF HandlesInv, TypeInv, TypeOK
<1> USE DEF LoopsOK, Returned, requests, locked, gst, history
<1>1. CASE Begin \/ Leave \/ InitFails \/ InitSucceeds
  BY <1>1 DEF Begin, Leave, InitFails, InitSucceeds
<1>2. CASE RunReturns \/ ShutdownArm \/ RestartArm \/ End \/ Joined \/ JoinTimesOut
  BY <1>2 DEF RunReturns, ShutdownArm, RestartArm, End, Joined, JoinTimesOut
<1>3. CASE Quit
  <2>1. \A g \in Runs : loop'[g] \in {"created", "running"} => loop'[g] = loop[g]
    BY <1>0, <1>3 DEF Quit
  <2> QED
    BY <1>3, <2>1 DEF Quit
<1>4. CASE CleanUp \/ Nulled \/ ResetEnds \/ BackoffEnds
  BY <1>4 DEF CleanUp, Nulled, ResetEnds, BackoffEnds
<1>5. CASE RunStarts
  <2>1. \A g \in Runs : loop'[g] # loop[g] => g = run /\ task' = "waiting"
    BY <1>0, <1>5 DEF RunStarts
  <2>2. task = "spawned" /\ task' \in {"waiting", "error"} /\ UNCHANGED <<pc, run, abandoned>>
    BY <1>5 DEF RunStarts
  <2> QED
    BY <1>5, <2>1, <2>2
<1>6. CASE LoopReturns
  BY <1>6 DEF LoopReturns
<1>7. ASSUME NEW g \in Runs, LoopStarts(g) \/ BusWatch(g) PROVE LoopsOK'
  <2>1. \A h \in Runs : loop'[h] \in {"created", "running"} => loop[h] \in {"created", "running"}
    BY <1>0, <1>7 DEF LoopStarts, BusWatch
  <2> QED
    BY <1>7, <2>1 DEF LoopStarts, BusWatch
<1>8. CASE Shutdown \/ Trip \/ (\E g \in Runs : Posts(g)) \/ UNCHANGED vars
  BY <1>8 DEF Shutdown, Trip, Posts, vars
<1> QED
  BY <1>1, <1>2, <1>3, <1>4, <1>5, <1>6, <1>7, <1>8 DEF Next, SupervisorTask, RunTask, MainLoop

(***************************************************************************)
(* The thread of a main loop outlives its run only where the join was      *)
(* given up, and a quit goes to the loop of the pipeline in the state      *)
(* (src/supervisor.rs:127-142, src/stream/gst_pipeline.rs:420-470).        *)
(***************************************************************************)
THEOREM LoopsEnd == Spec => []LoopsEndWithTheirRun
<1>1. Init => HandlesInv /\ LoopsOK
  BY InitType DEF Init, HandlesInv, HandlesOK, LivePipelinesAreHeld, LoopsOK
<1>2. HandlesInv /\ LoopsOK => LoopsEndWithTheirRun
  <2> SUFFICES ASSUME HandlesInv, LoopsOK PROVE LoopsEndWithTheirRun
    OBVIOUS
  <2>1. main_loop \in {NoRun, pipeline} \cup dropped
    BY DEF HandlesInv, HandlesOK
  <2>2. run \in Nat
    BY SupervisorAssumption DEF HandlesInv, TypeInv, TypeOK
  <2>3. \A g \in Runs : g < run => g # run
    BY <2>2, SupervisorAssumption DEF Runs
  <2> QED
    BY <2>1, <2>3 DEF LoopsOK, LoopsEndWithTheirRun
<1> QED
  BY <1>1, <1>2, NextHandles, NextLoops, PTL DEF Spec

-----------------------------------------------------------------------------
\* What one more failed run, and any other end, do to the wait.
LEMMA DelayAfter ==
    ASSUME consecutive_failures \in 0..U32Max
    PROVE  /\ BackoffDelay(0) = 1 /\ BackoffDelay(1) = 1
           /\ consecutive_failures # 0 =>
                LET before == BackoffDelay(consecutive_failures)
                IN  BackoffDelay(FailuresAfter("error")) =
                        IF 2 * before < 30 THEN 2 * before ELSE 30
<1> USE SupervisorAssumption DEF BackoffDelay, FailuresAfter
<1>1. /\ BackoffDelay(0) = 1 /\ BackoffDelay(1) = 1
      /\ BackoffDelay(2) = 2 /\ BackoffDelay(3) = 4
      /\ BackoffDelay(4) = 8 /\ BackoffDelay(5) = 16
  OBVIOUS
<1>2. \A n \in Nat : n > 5 => BackoffDelay(n) = 30
  OBVIOUS
<1>3. CASE consecutive_failures \in 1..4
  <2>1. FailuresAfter("error") = consecutive_failures + 1
    BY <1>3
  <2> QED
    BY <1>1, <1>3, <2>1 DEF FailuresAfter
<1>4. CASE consecutive_failures >= 5
  <2>1. FailuresAfter("error") \in Nat /\ FailuresAfter("error") > 5
    BY <1>4
  <2>2. BackoffDelay(consecutive_failures) \in {16, 30}
    BY <1>1, <1>2, <1>4
  <2> QED
    BY <1>2, <2>1, <2>2
<1> QED
  BY <1>1, <1>3, <1>4

(***************************************************************************)
(* The wait before a rerun doubles with each failed run, never past thirty *)
(* seconds and never overflowing, and any other end of a run brings it     *)
(* back to one second (src/supervisor.rs:57-76, 179-186).                  *)
(***************************************************************************)
THEOREM SlowsDown == Spec => FailuresSlowDown
<1> DEFINE Slows ==
      pc = "resetting" /\ pc' = "backoff" =>
        LET before == BackoffDelay(consecutive_failures)
            after == BackoffDelay(consecutive_failures')
        IN  IF outcome # "error" \/ consecutive_failures = 0 THEN after = 1
            ELSE after = IF 2 * before < 30 THEN 2 * before ELSE 30
<1>1. TypeInv /\ [Next]_vars => [Slows]_vars
  <2> SUFFICES ASSUME TypeInv, Next, pc = "resetting", pc' = "backoff" PROVE Slows
    OBVIOUS
  <2>1. ResetEnds
    BY DEF Next, SupervisorTask, Begin, Leave, InitFails, InitSucceeds, RunReturns, ShutdownArm,
           RestartArm, End, Quit, Joined, JoinTimesOut, CleanUp, Nulled, BackoffEnds,
           RunTask, RunStarts, LoopReturns, MainLoop, LoopStarts, BusWatch, Posts, Shutdown, Trip
  <2>2. consecutive_failures' = FailuresAfter(outcome)
    BY <2>1 DEF ResetEnds
  <2>3. consecutive_failures \in 0..U32Max
    BY DEF TypeInv, TypeOK
  <2>4. CASE outcome # "error"
    BY <2>2, <2>3, <2>4, DelayAfter DEF FailuresAfter
  <2>5. CASE outcome = "error" /\ consecutive_failures = 0
    BY <2>2, <2>5, DelayAfter, SupervisorAssumption DEF FailuresAfter
  <2>6. CASE outcome = "error" /\ consecutive_failures # 0
    BY <2>2, <2>3, <2>6, DelayAfter
  <2> QED
    BY <2>4, <2>5, <2>6
<1> QED
  BY <1>1, InitType, NextType, PTL DEF Spec, FailuresSlowDown

-----------------------------------------------------------------------------
(***************************************************************************)
(* The run cycle.  A step of the supervisor is a step of RunCycle or       *)
(* leaves its variables alone; what decides between "up" and "quitting" is *)
(* the outcome that the arms of the select! have written.                  *)
(***************************************************************************)
OutcomeOK ==
    /\ pc = "quitting" => outcome = "restart"
    /\ pc = "ending" => outcome # "restart"

\* The arms write the outcome before anything else looks at it.
LEMMA NextOutcome == OutcomeOK /\ [Next]_vars => OutcomeOK'
<1> SUFFICES ASSUME OutcomeOK, [Next]_vars PROVE OutcomeOK'
  OBVIOUS
<1>1. CASE SupervisorTask
  BY <1>1 DEF OutcomeOK, SupervisorTask, Begin, Leave, InitFails, InitSucceeds, RunReturns,
              ShutdownArm, RestartArm, End, Quit, Joined, JoinTimesOut, CleanUp, Nulled,
              ResetEnds, BackoffEnds
<1>2. CASE ~SupervisorTask
  BY <1>2 DEF OutcomeOK, Next, RunTask, RunStarts, LoopReturns, MainLoop, LoopStarts, BusWatch,
              Posts, Shutdown, Trip, vars
<1> QED
  BY <1>1, <1>2

\* One step of the supervisor's task, seen as a step of the cycle.
LEMMA TaskCycle == OutcomeOK /\ SupervisorTask => [Cycle!Next]_(Cycle!vars)
<1> SUFFICES ASSUME OutcomeOK, SupervisorTask PROVE [Cycle!Next]_(Cycle!vars)
  OBVIOUS
<1> USE DEF Cycle!vars, Phase, requests, locked, gst, history
<1>1. CASE Begin
  BY <1>1 DEF Begin, Cycle!Next, Cycle!Begin
<1>2. CASE Leave
  BY <1>2 DEF Leave
<1>3. CASE InitFails
  BY <1>3 DEF InitFails, Cycle!Next, Cycle!Start, Cycle!InitFails, Cycle!Move
<1>4. CASE InitSucceeds
  BY <1>4 DEF InitSucceeds, Cycle!Next, Cycle!Start, Cycle!Move
<1>5. CASE RunReturns
  BY <1>5 DEF RunReturns, Returned, Cycle!Next, Cycle!Stop, Cycle!Move
<1>6. CASE ShutdownArm
  BY <1>6 DEF ShutdownArm
<1>7. CASE RestartArm
  BY <1>7 DEF RestartArm, Cycle!Next, Cycle!TakeRestart
<1>8. CASE End
  BY <1>8 DEF End, OutcomeOK
<1>9. CASE Quit
  BY <1>9 DEF Quit, OutcomeOK
<1>10. CASE Joined
  BY <1>10 DEF Joined, Cycle!Next, Cycle!Stop, Cycle!Move
<1>11. CASE JoinTimesOut
  BY <1>11 DEF JoinTimesOut, Cycle!Next, Cycle!Stop, Cycle!Move
<1>12. CASE CleanUp
  BY <1>12 DEF CleanUp, Cycle!Next, Cycle!Stop, Cycle!Move
<1>13. CASE Nulled
  BY <1>13 DEF Nulled
<1>14. CASE ResetEnds
  BY <1>14 DEF ResetEnds, Cycle!Next, Cycle!ResetEnds, Cycle!Move
<1>15. CASE BackoffEnds
  BY <1>15 DEF BackoffEnds
<1> QED
  BY <1>1, <1>2, <1>3, <1>4, <1>5, <1>6, <1>7, <1>8, <1>9, <1>10, <1>11, <1>12, <1>13, <1>14,
     <1>15 DEF SupervisorTask

(***************************************************************************)
(* The supervisor implements RunCycle: what the coordinator's model takes  *)
(* for granted about the runs of the pipeline is what this loop does       *)
(* (src/supervisor.rs:44-161).                                             *)
(***************************************************************************)
THEOREM ImplementsRunCycle == Spec => KeepsTheRunCycle
<1>1. Init => OutcomeOK /\ Cycle!Init
  BY DEF Init, OutcomeOK, Cycle!Init, Phase
<1>2. OutcomeOK /\ [Next]_vars => [Cycle!Next]_(Cycle!vars)
  <2> SUFFICES ASSUME OutcomeOK, [Next]_vars PROVE [Cycle!Next]_(Cycle!vars)
    OBVIOUS
  <2>1. CASE SupervisorTask
    BY <2>1, TaskCycle
  <2>2. CASE Trip
    BY <2>2 DEF Trip, Cycle!Next, Cycle!Trip, Phase, locked
  <2>3. CASE ~SupervisorTask /\ ~Trip
    BY <2>3 DEF Next, RunTask, RunStarts, LoopReturns, MainLoop, LoopStarts, BusWatch, Posts,
                Shutdown, vars, requests, locked, Phase, Cycle!vars
  <2> QED
    BY <2>1, <2>2, <2>3
<1> QED
  BY <1>1, <1>2, NextOutcome, PTL DEF Spec, KeepsTheRunCycle, Cycle!Spec

-----------------------------------------------------------------------------
(***************************************************************************)
(* How far the supervisor is from the end once a shutdown is asked for.    *)
(***************************************************************************)
StepsLeft ==
    CASE pc = "init" -> 9
      [] pc = "select" -> 8
      [] pc \in {"ending", "quitting"} -> 7
      [] pc = "joining" -> 6
      [] pc = "cleaning" -> 5
      [] pc = "nulling" -> 4
      [] pc = "resetting" -> 3
      [] pc = "backoff" -> 2
      [] pc = "top" -> 1
      [] pc = "done" -> 0

\* No step of the loop leads back up.
LEMMA TaskEnds ==
    ASSUME TypeInv, SupervisorTask, shutdown
    PROVE  StepsLeft' < StepsLeft
<1>1. CASE Begin \/ Leave \/ InitFails \/ InitSucceeds
  BY <1>1 DEF Begin, Leave, InitFails, InitSucceeds, StepsLeft
<1>2. CASE RunReturns \/ ShutdownArm \/ RestartArm
  <2>1. pc = "select" /\ pc' \in {"cleaning", "ending", "quitting"}
    BY <1>2 DEF RunReturns, ShutdownArm, RestartArm
  <2>2. StepsLeft = 8 /\ StepsLeft' \in {5, 7}
    BY <2>1 DEF StepsLeft
  <2> QED
    BY <2>2
<1>3. CASE End \/ Quit \/ Joined \/ JoinTimesOut
  BY <1>3 DEF End, Quit, Joined, JoinTimesOut, StepsLeft
<1>4. CASE CleanUp \/ Nulled
  BY <1>4 DEF CleanUp, Nulled, StepsLeft
<1>5. CASE ResetEnds \/ BackoffEnds
  BY <1>5 DEF ResetEnds, BackoffEnds, StepsLeft
<1> QED
  BY <1>1, <1>2, <1>3, <1>4, <1>5 DEF SupervisorTask

LEMMA ShutdownSteps ==
    TypeInv /\ [Next]_vars => [shutdown => shutdown' /\ (pc' # pc => StepsLeft' < StepsLeft)]_vars
<1> SUFFICES ASSUME TypeInv, [Next]_vars, shutdown
             PROVE  shutdown' /\ (pc' # pc => StepsLeft' < StepsLeft)
  OBVIOUS
<1>1. CASE SupervisorTask
  <2>1. shutdown' = shutdown
    BY <1>1 DEF SupervisorTask, Begin, Leave, InitFails, InitSucceeds, RunReturns, ShutdownArm,
                RestartArm, End, Quit, Joined, JoinTimesOut, CleanUp, Nulled, ResetEnds,
                BackoffEnds, requests
  <2> QED
    BY <1>1, <2>1, TaskEnds
<1>2. CASE ~SupervisorTask
  BY <1>2 DEF Next, RunTask, RunStarts, LoopReturns, MainLoop, LoopStarts, BusWatch, Posts,
              Shutdown, Trip, vars, requests
<1> QED
  BY <1>1, <1>2

(***************************************************************************)
(* Once a shutdown is asked for, every step of the supervisor brings it    *)
(* closer to its end, whatever it was doing and whatever fails: it takes   *)
(* at most nine more steps and begins no run.  What is left to             *)
(* ShutdownCompletes is that it does take them (src/supervisor.rs:44-147). *)
(***************************************************************************)
THEOREM ShutdownLeadsOut ==
    Spec => [][shutdown => shutdown' /\ (pc' # pc => StepsLeft' < StepsLeft)]_vars
<1> QED
  BY InitType, NextType, ShutdownSteps, PTL DEF Spec
=============================================================================
