----------------------------- MODULE Supervisor -----------------------------
(***************************************************************************)
(* The pipeline supervisor of src/supervisor.rs over the real pipeline     *)
(* handle of src/stream/gst_pipeline.rs: the restart loop, the run task    *)
(* and the GLib main loop's thread it parks in, the state behind the timed *)
(* lock, and the GStreamer pipelines themselves, which may outlive both.   *)
(* The viewers' branches are not in here; the coordinator appears as the   *)
(* sender of restart requests and the receiver of resets.                  *)
(***************************************************************************)
EXTENDS Integers, FiniteSets

CONSTANTS
    Faults,     \* which of the faults below an instance admits
    U32Max,     \* where saturating_add stops
    MaxRuns     \* bound: the pipeline is started this often

\* "lock": the state lock may take longer than its second; "play": going to
\* PLAYING may fail half-way; "null": going to NULL may never end.
ASSUME SupervisorAssumption ==
    /\ Faults \subseteq {"lock", "play", "null"}
    /\ U32Max \in Nat /\ U32Max >= 6
    /\ MaxRuns \in Nat

VARIABLES
    pc,                     \* where the supervisor stands
    outcome,                \* RunOutcome of the latest run
    consecutive_failures,
    shutdown,               \* what the shutdown channel reads
    restart,                \* the one-slot restart channel
    run,                    \* how many times init was called
    task,                   \* the run task of the current run
    pipeline, main_loop,    \* the locked state: a run's number, or NoRun
    taken,                  \* the pipeline that clean_up is bringing to NULL
    loop,                   \* the main loop and its thread, of each run
    bus,                    \* a message on each run's bus that ends its loop
    live,                   \* pipelines that have left NULL
    endedBy,                \* history: what ended the loop of the current run
    dropped,                \* history: pipelines let go of before they were NULL
    abandoned               \* history: runs that were not joined in time

requests == <<shutdown, restart>>
locked == <<pipeline, main_loop>>
gst == <<loop, bus, live>>
history == <<endedBy, dropped, abandoned>>
vars == <<pc, outcome, consecutive_failures, requests, run, task, taken, locked, gst, history>>

Runs == 1..MaxRuns
NoRun == 0

Places == {"top", "init", "select", "ending", "quitting", "joining",
           "cleaning", "nulling", "resetting", "backoff", "done"}
Returned == {"ok", "error"}

-----------------------------------------------------------------------------
(***************************************************************************)
(* The supervision loop.                                                   *)
(***************************************************************************)

\* A mutant: a request left over from the last run stays in the channel.
Mutant_BeginUndrained ==
    /\ pc = "top" /\ ~shutdown /\ run < MaxRuns
    /\ pc' = "init"
    /\ run' = run + 1
    /\ endedBy' = "nothing"
    /\ task' = "none"
    /\ UNCHANGED <<outcome, consecutive_failures, requests, taken, locked, gst, dropped,
                   abandoned>>

\* The top of the loop: leftover restart requests are drained, init() is called.
Begin ==
    /\ pc = "top" /\ ~shutdown /\ run < MaxRuns
    /\ pc' = "init"
    /\ run' = run + 1
    /\ restart' = FALSE
    /\ endedBy' = "nothing"
    /\ task' = "none"
    /\ UNCHANGED <<outcome, consecutive_failures, shutdown, taken, locked, gst, dropped,
                   abandoned>>

\* Shutdown, seen at the top of the loop or in the backoff.
Leave ==
    /\ pc \in {"top", "backoff"} /\ shutdown
    /\ pc' = "done"
    /\ UNCHANGED <<outcome, consecutive_failures, requests, run, task, taken, locked, gst,
                   history>>

\* init() fails before the new pipeline has left NULL, or after: then the only
\* handle to it is dropped as it is, because it was not in the state yet.
InitFails ==
    /\ pc = "init"
    /\ \E left \in IF Faults \cap {"lock", "play"} # {} THEN {{}, {run}} ELSE {{}} :
        /\ live' = live \cup left
        /\ dropped' = dropped \cup left
    /\ outcome' = "error"
    /\ pc' = "cleaning"
    /\ UNCHANGED <<consecutive_failures, requests, run, task, taken, locked, loop, bus, endedBy,
                   abandoned>>

\* init() stores the playing pipeline, over one that clean_up could not take;
\* the run task is spawned.
InitSucceeds ==
    /\ pc = "init"
    /\ live' = live \cup {run}
    /\ dropped' = dropped \cup ({pipeline} \ {NoRun})
    /\ pipeline' = run
    /\ task' = "spawned"
    /\ pc' = "select"
    /\ UNCHANGED <<outcome, consecutive_failures, requests, run, main_loop, taken, loop, bus,
                   endedBy, abandoned>>

\* select!: the run task has returned by itself...
RunReturns ==
    /\ pc = "select" /\ task \in Returned
    /\ outcome' = task
    /\ pc' = "cleaning"
    /\ UNCHANGED <<consecutive_failures, requests, run, task, taken, locked, gst, history>>

\* ...or shutdown is requested...
ShutdownArm ==
    /\ pc = "select" /\ shutdown
    /\ outcome' = "shutdown"
    /\ pc' = "ending"
    /\ UNCHANGED <<consecutive_failures, requests, run, task, taken, locked, gst, history>>

\* ...or the watchdog wants a restart.
RestartArm ==
    /\ pc = "select" /\ restart
    /\ restart' = FALSE
    /\ outcome' = "restart"
    /\ pc' = "quitting"
    /\ UNCHANGED <<consecutive_failures, shutdown, run, task, taken, locked, gst, history>>

\* An operation on the pipeline gets the state lock, or may not get it in time.
Locks(got) == got \/ "lock" \in Faults

\* end(): the EOS event may or may not come out as a message on the bus.
End ==
    /\ pc = "ending"
    /\ \E got \in BOOLEAN :
        /\ Locks(got)
        /\ \/ UNCHANGED bus
           \/ got /\ pipeline # NoRun /\ bus' = [bus EXCEPT ![pipeline] = "eos"]
    /\ pc' = "joining"
    /\ UNCHANGED <<outcome, consecutive_failures, requests, run, task, taken, locked, loop,
                   live, history>>

\* quit() stops a main loop that runs.  One that was stored but not entered
\* yet forgets the request as it starts; one that was not stored gets none.
Quit ==
    /\ pc = "quitting"
    /\ \E got \in BOOLEAN :
        /\ Locks(got)
        /\ IF got /\ main_loop # NoRun /\ loop[main_loop] = "running"
           THEN /\ loop' = [loop EXCEPT ![main_loop] = "ended"]
                /\ endedBy' = IF main_loop = run THEN "quit" ELSE endedBy
           ELSE UNCHANGED <<loop, endedBy>>
    /\ pc' = "joining"
    /\ UNCHANGED <<outcome, consecutive_failures, requests, run, task, taken, locked, bus, live,
                   dropped, abandoned>>

Joined ==
    /\ pc = "joining" /\ task \in Returned
    /\ pc' = "cleaning"
    /\ UNCHANGED <<outcome, consecutive_failures, requests, run, task, taken, locked, gst,
                   history>>

\* A mutant: the join has no bound.
Mutant_JoinForever == FALSE /\ UNCHANGED vars

\* SHUTDOWN_JOIN_TIMEOUT: the run task is aborted, its loop's thread left alone.
JoinTimesOut ==
    /\ pc = "joining" /\ task \notin Returned
    /\ task' = "aborted"
    /\ abandoned' = abandoned \cup {run}
    /\ pc' = "cleaning"
    /\ UNCHANGED <<outcome, consecutive_failures, requests, run, taken, locked, gst, endedBy,
                   dropped>>

\* A mutant: the handle is forgotten, the pipeline never brought to NULL.
Mutant_CleanUpForgets ==
    /\ pc = "cleaning"
    /\ pipeline' = NoRun /\ main_loop' = NoRun
    /\ pc' = "resetting"
    /\ UNCHANGED <<outcome, consecutive_failures, requests, run, task, taken, gst, history>>

\* clean_up() takes the pipeline out of the state; without the lock it takes nothing.
CleanUp ==
    /\ pc = "cleaning"
    /\ \E got \in BOOLEAN :
        /\ Locks(got)
        /\ IF got THEN pipeline' = NoRun /\ main_loop' = NoRun /\ taken' = pipeline
                  ELSE UNCHANGED <<locked, taken>>
    /\ pc' = IF taken' # NoRun THEN "nulling" ELSE "resetting"
    /\ UNCHANGED <<outcome, consecutive_failures, requests, run, task, gst, history>>

\* ...and waits, without a bound, for it to go to NULL, which flushes its bus.
Nulled ==
    /\ pc = "nulling"
    /\ live' = live \ {taken}
    /\ bus' = [bus EXCEPT ![taken] = "quiet"]
    /\ taken' = NoRun
    /\ pc' = "resetting"
    /\ UNCHANGED <<outcome, consecutive_failures, requests, run, task, locked, loop, history>>

\* A mutant: a restart counts as one more failure.
Mutant_FailuresAfter(o) ==
    IF o = "ok" THEN 0
    ELSE IF consecutive_failures < U32Max THEN consecutive_failures + 1 ELSE U32Max

\* A mutant: a good run takes one failure off, even from none.
Mutant_FailuresDecay(o) ==
    IF o # "error" THEN consecutive_failures - 1
    ELSE IF consecutive_failures < U32Max THEN consecutive_failures + 1 ELSE U32Max

\* consecutive_failures after a run that ended so.
FailuresAfter(o) ==
    IF o # "error" THEN 0
    ELSE IF consecutive_failures < U32Max THEN consecutive_failures + 1 ELSE U32Max

\* The reset was answered, refused or given up on: all the same to the loop.
ResetEnds ==
    /\ pc = "resetting"
    /\ IF outcome = "shutdown"
       THEN pc' = "done" /\ UNCHANGED consecutive_failures
       ELSE pc' = "backoff" /\ consecutive_failures' = FailuresAfter(outcome)
    /\ UNCHANGED <<outcome, requests, run, task, taken, locked, gst, history>>

BackoffEnds ==
    /\ pc = "backoff"
    /\ pc' = "top"
    /\ UNCHANGED <<outcome, consecutive_failures, requests, run, task, taken, locked, gst,
                   history>>

\* backoff_delay in seconds: it doubles from one failure on, and its cap of
\* thirty is below the cap of 64 on the power.
BackoffDelay(n) ==
    CASE n = 0 -> 1
      [] n \in 1..5 -> <<1, 2, 4, 8, 16>>[n]
      [] OTHER -> 30

-----------------------------------------------------------------------------
(***************************************************************************)
(* The run task, the main loops, and the pipelines.                        *)
(***************************************************************************)

\* run() finds the pipeline, stores a main loop and starts its thread, or
\* returns an error: no pipeline or no lock, or, with a main loop stored
\* already, no thread or no bus watch.
RunStarts ==
    /\ task = "spawned"
    /\ \/ /\ pipeline # NoRun
          /\ main_loop' = pipeline
          /\ loop' = [loop EXCEPT ![pipeline] = "created"]
          /\ task' = "waiting"
       \/ /\ main_loop' \in {main_loop, pipeline}
          /\ task' = "error"
          /\ UNCHANGED loop
    /\ UNCHANGED <<pc, outcome, consecutive_failures, requests, run, taken, pipeline, bus, live,
                   history>>

\* The thread enters the main loop.
LoopStarts(g) ==
    /\ loop[g] = "created"
    /\ loop' = [loop EXCEPT ![g] = "running"]
    /\ UNCHANGED <<pc, outcome, consecutive_failures, requests, run, task, taken, locked, bus,
                   live, history>>

\* The bus watch sees EOS or a fatal error and quits the loop.
BusWatch(g) ==
    /\ loop[g] = "running" /\ bus[g] # "quiet"
    /\ loop' = [loop EXCEPT ![g] = "ended"]
    /\ endedBy' = IF g = run THEN bus[g] ELSE endedBy
    /\ UNCHANGED <<pc, outcome, consecutive_failures, requests, run, task, taken, locked, bus,
                   live, dropped, abandoned>>

\* A mutant: the completion signal is sent before the loop has run.
Mutant_LoopReturnsEarly ==
    /\ task = "waiting"
    /\ task' = "ok"
    /\ UNCHANGED <<pc, outcome, consecutive_failures, requests, run, taken, locked, gst, history>>

\* run() returns once its loop has ended: Ok, whatever ended it.
LoopReturns ==
    /\ task = "waiting" /\ loop[run] = "ended"
    /\ task' = "ok"
    /\ UNCHANGED <<pc, outcome, consecutive_failures, requests, run, taken, locked, gst,
                   history>>

\* A pipeline that plays posts EOS or a fatal error.
Posts(g) ==
    /\ g \in live /\ bus[g] = "quiet"
    /\ \E message \in {"eos", "error"} : bus' = [bus EXCEPT ![g] = message]
    /\ UNCHANGED <<pc, outcome, consecutive_failures, requests, run, task, taken, locked, loop,
                   live, history>>

-----------------------------------------------------------------------------
(***************************************************************************)
(* What the rest of the program asks for.                                  *)
(***************************************************************************)

\* Ctrl-C, or the HTTP server died.
Shutdown ==
    /\ ~shutdown
    /\ shutdown' = TRUE
    /\ UNCHANGED <<pc, outcome, consecutive_failures, restart, run, task, taken, locked, gst,
                   history>>

\* The coordinator's watchdog trips: try_send into the one-slot channel.
Trip ==
    /\ ~restart
    /\ restart' = TRUE
    /\ UNCHANGED <<pc, outcome, consecutive_failures, shutdown, run, task, taken, locked, gst,
                   history>>

-----------------------------------------------------------------------------
Init ==
    /\ pc = "top" /\ outcome = "none" /\ consecutive_failures = 0
    /\ shutdown = FALSE /\ restart = FALSE
    /\ run = 0 /\ task = "none"
    /\ pipeline = NoRun /\ main_loop = NoRun /\ taken = NoRun
    /\ loop = [g \in Runs |-> "none"]
    /\ bus = [g \in Runs |-> "quiet"]
    /\ live = {} /\ endedBy = "nothing" /\ dropped = {} /\ abandoned = {}

SupervisorTask ==
    \/ Begin \/ Leave \/ InitFails \/ InitSucceeds
    \/ RunReturns \/ ShutdownArm \/ RestartArm
    \/ End \/ Quit \/ Joined \/ JoinTimesOut
    \/ CleanUp \/ Nulled \/ ResetEnds \/ BackoffEnds

RunTask == RunStarts \/ LoopReturns

MainLoop(g) == LoopStarts(g) \/ BusWatch(g)

Next ==
    \/ SupervisorTask
    \/ RunTask
    \/ \E g \in Runs : MainLoop(g) \/ Posts(g)
    \/ Shutdown \/ Trip

Spec == Init /\ [][Next]_vars

(***************************************************************************)
(* Fairness.  The tasks and threads are scheduled, and every await of the  *)
(* supervisor ends, by itself or by its bound; the one for NULL has none,  *)
(* so it ends unless an element is wedged.  Nobody must ask for a shutdown *)
(* or a restart, and no pipeline must ever stop by itself.                 *)
(***************************************************************************)
Wedged == pc = "nulling" /\ "null" \in Faults

FairSpec ==
    /\ Spec
    /\ WF_vars(SupervisorTask /\ ~Wedged) /\ WF_vars(RunTask)
    /\ \A g \in Runs : WF_vars(MainLoop(g))

-----------------------------------------------------------------------------
(***************************************************************************)
(* Properties.                                                             *)
(***************************************************************************)

TypeOK ==
    /\ pc \in Places
    /\ outcome \in {"none", "ok", "error", "restart", "shutdown"}
    /\ consecutive_failures \in 0..U32Max
    /\ shutdown \in BOOLEAN /\ restart \in BOOLEAN
    /\ run \in 0..MaxRuns
    /\ task \in {"none", "spawned", "waiting", "aborted"} \cup Returned
    /\ pipeline \in 0..run /\ main_loop \in 0..run /\ taken \in 0..run
    /\ loop \in [Runs -> {"none", "created", "running", "ended"}]
    /\ bus \in [Runs -> {"quiet", "eos", "error"}]
    /\ live \subseteq 1..run
    /\ endedBy \in {"nothing", "quit", "eos", "error"}
    /\ dropped \subseteq 1..run /\ abandoned \subseteq 1..run

(***************************************************************************)
(* A GStreamer pipeline that still plays is the one in the state, the one  *)
(* on its way to NULL, or one that was let go of too early: by an init()   *)
(* that failed late, or over which init() stored its successor.  Through   *)
(* lost quits, joins that time out and locks that are not got, no other    *)
(* pipeline is left running beside the current one; and as long as locks   *)
(* are got, none plays from the reset on to the next init() or the exit.   *)
(***************************************************************************)
LivePipelinesAreHeld ==
    /\ live \subseteq {pipeline, taken} \cup dropped
    /\ Faults \cap {"lock", "play"} = {} => dropped = {}
    /\ pc \in {"resetting", "backoff", "top", "init", "done"} /\ "lock" \notin Faults =>
          live \subseteq dropped

(***************************************************************************)
(* A main loop's thread outlives its run only if that run was not joined   *)
(* in time, and the loop that quit() would stop is the one of the pipeline *)
(* in the state, unless that pipeline was stored over another.             *)
(***************************************************************************)
LoopsEndWithTheirRun ==
    /\ \A g \in Runs :
        loop[g] \in {"created", "running"} /\ (g < run \/ pc \in {"top", "backoff", "done"})
            => g \in abandoned
    /\ main_loop \in {NoRun, pipeline} \cup dropped

(***************************************************************************)
(* Each failed run in a row doubles the wait before the next, from one     *)
(* second up to thirty, without ever overflowing; any other end of a run   *)
(* brings the wait back to one second.                                     *)
(***************************************************************************)
FailuresSlowDown ==
    [][pc = "resetting" /\ pc' = "backoff" =>
        LET before == BackoffDelay(consecutive_failures)
            after == BackoffDelay(consecutive_failures')
        IN  IF outcome # "error" \/ consecutive_failures = 0 THEN after = 1
            ELSE after = IF 2 * before < 30 THEN 2 * before ELSE 30]_vars

(***************************************************************************)
(* src/supervisor.rs:82-83: on shutdown the supervisor stops, wherever it  *)
(* is; a wedged element must not hang process exit.                        *)
(***************************************************************************)
ShutdownCompletes == shutdown ~> pc = "done"

(***************************************************************************)
(* A restart request that the supervisor has taken ends the run, also when *)
(* the quit finds no main loop yet or one that is just being entered.      *)
(***************************************************************************)
RestartsEndTheRun == pc = "quitting" ~> pc = "resetting"

(***************************************************************************)
(* src/supervisor.rs:1-2, 164-166: a pipeline that stopped with an error   *)
(* is rerun with backoff: it counts as a failed run.                       *)
(***************************************************************************)
ErrorsBackOff ==
    pc = "backoff" /\ outcome \in Returned /\ endedBy = "error" => consecutive_failures > 0

\* The phase of a run as the rest of the system sees it.
Phase ==
    CASE pc = "init" -> "init"
      [] pc \in {"select", "ending"} -> "up"
      [] pc \in {"quitting", "joining", "cleaning"} ->
            IF pc = "cleaning" /\ pipeline = NoRun THEN "stopped"
            ELSE IF outcome = "restart" THEN "quitting" ELSE "up"
      [] pc \in {"nulling", "resetting"} -> "stopped"
      [] OTHER -> "none"

Cycle == INSTANCE RunCycle WITH phase <- Phase

(***************************************************************************)
(* The supervisor keeps the run cycle that the coordinator relies on: old  *)
(* restart requests are gone before a run begins, and clean-up and reset   *)
(* lie between two runs.  (What "stopped" leaves behind when the clean-up  *)
(* did not get the lock is the matter of LivePipelinesAreHeld.)            *)
(***************************************************************************)
KeepsTheRunCycle == Cycle!Spec
=============================================================================
