# TLA+ models and proofs for srt-whep

srt-whep takes one SRT stream and offers it to WebRTC viewers over WHEP. One
process holds a shared GStreamer pipeline; each viewer gets a *branch* of it, whose
`whipclientsink` posts its own SDP offer back to the same process over loopback
WHIP, so that a viewer's handshake is a rendezvous of three HTTP calls. This
directory models the parts of the program where that can go wrong — the actor in
which the calls meet with its HTTP contract, the watchdog it feeds, the supervisor
that restarts the pipeline under it, and the branches, pads and tees of the pipeline
itself — checks the models with TLC on small instances and proves their safety
properties with TLAPS for every instance. Paths below are relative to `src/`
of the crate unless they name a document.

## 1. Inventory

| Component | State it keeps | Operations | Talks to |
|---|---|---|---|
| Signaling actor, `signal/coordinator.rs`, `signal/messages.rs` | connection map (`AwaitingOffer`, `AwaitingAnswer`, `Established`, each with a parked reply and a deadline), watchdog | create, offer, answer, remove, reset, list; sweep tick; bus report | routes (mailbox, oneshot replies), pipeline (`add_branch`, `remove_branch`), supervisor (restart slot) |
| Restart watchdog, `signal/watchdog.rs` | `consecutive_failures`, `last_failure` | `record_failure`, `record_success` | the actor |
| Signal handles, `signal/mod.rs` | the bounded mailbox (64) | one method per command, `ResetHandle::reset` | routes, supervisor, actor |
| Supervisor, `supervisor.rs` | `consecutive_failures`, the run task | the loop init → run → clean up → reset → back off; shutdown; forced restart | pipeline, actor, shutdown channel |
| Shared pipeline, `stream/gst_pipeline.rs`, `stream/pipeline.rs` | `pipeline` and `main_loop` behind a 1 s timed lock; a GLib thread per run | `init`, `run`, `end`, `quit`, `clean_up`; `ready`, `add_branch`, `remove_branch`; bus watch | GStreamer, actor (bus reports), supervisor |
| Viewer branch, `stream/branch.rs` | elements and pads of one viewer | `attach`, `detach` | pipeline |
| Bus classification, names, `stream/bus.rs`, `stream/naming.rs` | none (pure) | quit / reap / ignore for a message; element name ↔ branch id | bus watch |
| Output tees and ingest, `stream/egress.rs`, demuxer callbacks of `init`, `stream/utils.rs` | tees and queues | pad-added, no-more-pads; discoverer | pipeline |
| HTTP routes, `routes/*`, `domain/session_description.rs` | none | parse, call the handle, answer | signal handle |
| Error contract, `signal/errors.rs`, `stream/errors.rs`, `errors.rs` | none (pure) | stream error → signal error → status, `Retry-After` | routes |
| Wiring and shutdown, `startup.rs`, `main.rs` | task handles, the shutdown token | `assemble`, `run_until_stopped` | all |
| Telemetry, `telemetry.rs` | none | logging set-up | — |

What is hard in each, and what makes it correct:

* **Actor.** It awaits the pipeline inside handlers (bounded by
  `teardown_timeout`), so clients vanish, deadlines pass, the pipeline stops and
  commands queue up between two halves of one handler. A parked reply can be
  claimed by the other leg, a DELETE, the sweep, a bus report, a reset or a
  watchdog trip. *Correct* means: every call is answered exactly once; SDPs of one
  handshake belong together; connections and branches go together; a session
  ends only for a cause; nothing of one pipeline run survives into the next.
* **Watchdog.** The window is measured from the previous failure and decays.
  *Correct*: it counts each failed handshake once, trips once per chain.
* **Supervisor and pipeline life cycle.** A quit may find no main loop, joins and
  locks time out, `init` fails half-way, shutdown arrives anywhere. *Correct*: no
  stray pipeline or thread, restarts and shutdowns come through, the order
  drain → run → clean up → reset holds, failures slow the loop down.
* **Branch, ingest.** Half-built branches, elements that removed themselves, pads
  that appear from streaming threads while `input_ready` is asked. *Correct*: a
  detach leaves nothing behind from any stage of an attach; a branch is linked only
  to tees that exist.
* **Names, errors, SDP.** *Correct*: an error of one viewer's element never quits
  the pipeline and always finds its own viewer; no description is both offer and
  answer; retryable errors and only those carry `Retry-After`.

`PROJECT.json` lists the same components with their status, and under `hazards`
each of these difficulties at the line where it bites, with the property that
would catch it.

## 2. Modules

| Module | Models | Notes |
|---|---|---|
| `WatchdogCount` | the watchdog without a clock | operators only, used by `Coordinator` |
| `Watchdog` | `signal/watchdog.rs` with its clock | shown to behave like `WatchdogCount` |
| `Coordinator` | actor, mailbox, callers, and supervisor and pipeline as far as the actor can tell | the core |
| `Session` | what one viewer's calls are promised, as if each took effect at once | the abstract specification of `Coordinator` for one id |
| `Contract` | SDP kinds, the routes' body checks, errors to status and `Retry-After` | operators only |
| `Gateway` | the actor behind its HTTP routes | `Coordinator` and `Contract` together; implements `Session` |
| `RunCycle` | what the supervisor promises about runs | the abstract specification of `Supervisor` |
| `BranchCycle` | what the actor and the stream plane rely on of each other about one branch | implemented by `Stream`, and by `Coordinator` as far as it stands for the pipeline |
| `Supervisor` | `supervisor.rs` over the life cycle half of `stream/gst_pipeline.rs` | implements `RunCycle` |
| `Naming` | element names, the ancestry walk and what it decides for an error | operators only |
| `Stream` | one pipeline run: demuxer callbacks, tees, attach, detach, closures, bus errors | the stream plane |
| `MCCoordinator`, `MCStream` | — | the calls, viewers and symmetries of the checked instances |
| `CoordinatorProofs`, `CoordinatorCallsProofs`, `CoordinatorRunsProofs`, `HandshakeProofs` | — | theorems about `Coordinator` and `Gateway`, each extending the one before |
| `SupervisorProofs`, `WatchdogProofs` | — | theorems about `Supervisor` and `Watchdog` |
| `StreamProofs`, `StreamBranchProofs` | — | theorems about `Stream`: the demuxer's side, tees and errors; then the branches |

Operators named `Mutant_*` stand beside the definition they imitate. They are
plausible mistakes in the code, are used by no specification, and serve to show that
each property can fail.

### Coordinator and the code

*State.* `conn` is the `HashMap` (`absent` where it has no entry), with the parked
reply as `waiter` and the deadline as the flag `due`. `act` is where the single
task of the actor stands: in its `select!`, in the list of expired ids of a sweep,
or in an await, with what the handler holds on its stack (the request it must
still answer, the entry a DELETE has taken out, the rest of the sweep).
`mailbox`, `reports` and `restart` are the three channels. `sent`, `reply`,
`sdp`, `gone` are the callers: what was sent, what came back, whose SDP it was,
and who has dropped the receiver. `pipeline`, `run`, `attached`, `broken` are the
supervisor's and GStreamer's side. `failed`, `suspect`, `tripRun` and the fields
`whep` and `run` of an entry are history: no guard of an action reads them.

*Actions.* One per handler up to its await and one per end of each await:
`CreateConnection`, then `BranchAdded`, `BranchRefused`, or `AttachFails` and
`AttachUndone`; `RemoveConnection`, then `Deleted` or `DeleteFailed`; everything
that ends in a best-effort teardown goes on in `Detached`, where the watchdog is
fed. `Terminate` is `terminate()` up to its await for all reasons, driven by
`Policy`, the table in the code. `Sweep` collects the expired ids, `SweepNext`
ends them one after the other. A reply sent to a caller that has gone is
recorded as `lost`.

*Left out or abstracted.* `ListConnections` only reads. An SDP is the identity of
the request that brought it. The bounded await of a teardown ends well or badly by
choice; when it ends badly the branch may or may not be gone, and the id is put into
`suspect`. `RESET_TIMEOUT` runs by the clock: it may fire at any moment between the
sending of a reset and its answer. An `add_branch` may be refused as not ready at any
time, also after another was not. How it comes to end badly, and that its closures then run on, is in
`Stream`. `clean_up` always succeeds here; what happens when it does not is in
`Supervisor`.

### Gateway, Contract, Session and the code

`Contract!Accepts` is what the routes and the SDP parsers let through to the actor
and `Response` the status they make of its answer; a body is the set of the marks
the parsers search for (`v=0`, `a=sendonly`, `a=recvonly`), which is all they look
at. `HttpSpec` is `Coordinator` with the step `Call` restricted to bodies
that are accepted; in `Spec` any body reaches the actor, and the properties
that do not speak of bodies are shown for `Spec`. A `Session` has a stage, the call
that is parked and the answers of the calls that name one id. The refinement
mapping shows a connection that a DELETE has in hand as still being there
(`Seen`): the DELETE takes effect when its teardown has ended, and if it fails it
never happened.

### Supervisor and the code

`pc` walks through `run`, `run_pipeline_until_stopped` and `cleanup`, one value for
each await. `pipeline`, `main_loop` are the locked state and hold the number of the
run they belong to; `task` is the spawned run task, `loop` the GLib main loop
and thread of each run, `bus` a pending message that quits it, `live` the GStreamer
pipelines that have left NULL. Two facts about the libraries carry weight:
`g_main_loop_run` sets its running flag as it starts, so a quit that comes between
the storing and the entering of a main loop is lost; and a pipeline whose last
handle is dropped before it is in NULL is not stopped by that.
`Faults` says which faults an instance admits: `lock` (a lock that is not got
within its second), `play` (going to PLAYING fails half-way), `null` (going to NULL
never ends). Panics of the run task are not modelled.

### Stream, Naming and the code

Three kinds of threads work on one GStreamer pipeline and share no lock: the
actor, one `add_branch` or `remove_branch` at a time; the streaming thread, with the
demuxer's callbacks; and the threads of `call_async`, whose closures run on
when the detach that awaited them has been dropped.

*State.* `pads` are the demuxer's source pads in the order they were added, each with
its kind, which is its name's, and its caps: none yet, a codec, or gone with the pad
itself. (`gone` keeps the place, so that a pad is its index.) `feed` is the pad each
ingest queue is linked to; `walk` where the no-more-pads callback stands in
`foreach_src_pad`; `tees` the output tees in the pipeline and `paused` those a closure
has paused. `handle` is the pipeline in the shared state: not stored, stored, its main
loop quit, taken by `clean_up`. `parts` are the elements of each viewer's branch
in the pipeline, `teePads` its queues that hang on a tee. `work` is where the actor
stands in an attach or a detach, with what it has seen and what it waits for;
`closures` are the `call_async` closures under way, each with its step; `entry` is
what the viewer was told; `detaches` counts the detaches of each viewer. `echo` is
the DELETE that a `whipclientsink` sends to this very process when it is stopped.

*Actions.* `PadAdded`, `NoMorePads` and `LinkPad` are the callbacks, a pad at a
time: the first returns without linking a pad that has no caps, the last stops at one,
and at a chain that cannot be built, whether its tee is in the pipeline by then or not.
`CapsSet` and `PadRemoved` are what the demuxer does on its own account between the
callbacks: a pad that was added without caps gets them, and a pad goes. `AddBranch`, `ReadPads`, `CheckTees` are `add_branch` and `input_ready`, split
where the streaming thread may come between two reads; `AttachSink`,
`AttachMedia`, `AttachSync` are `attach`, which can fail after any element and then
goes into the detach that undoes it. `RemoveBranch` begins a detach;
`FindPart`, `FindTee`, `Awoken`, `Advance` walk through the branch as
`detach` does, each part behind one or two closures; `CutOff` is `teardown_timeout`,
which drops the detach and not its closure. The closure steps `TeePauses`,
`PadReleased`, `TeeResumes`, `ElementStops`, `ElementStopped`, `ElementRemoved`
are separate, since two closures may be at the same tee. `SinkLeaves` is a sink that
takes itself out, `ServeEcho` the DELETE coming back when the actor reads its
mailbox, `ReadError` the bus watch, with `Naming!Classify` deciding what an
error leads to.

*Abstracted.* A name is the sequence of the parts it is made of, so `strip_prefix`
is a comparison of sequences; caps are the media of `Media` by kind, among them a video
codec without a parser and a pad that is neither audio nor video. A pad does not come
or go while `foreach_src_pad` is at its walk: both are the streaming thread's work. Media data
do not flow. Which of several errors ended an attach is kept only as far as
something depends on it.

### How they fit together

`RunCycle` has three variables: the phase of the run, its number and the restart
slot. `Supervisor` implements it (`KeepsTheRunCycle`), and the supervisor's half
of `Coordinator` is shown not to leave it (`RunsFollowTheCycle`). So the coordinator
is checked against an environment that the supervisor's own model provides,
under one assumption: that `clean_up` gets the lock. `Watchdog` stands in the same
way behind `WatchdogCount` (`BehavesLikeWatchdogCount`). `Stream` takes the place of
the token that a branch is in `Coordinator`, and `BranchCycle` is what the two have in
common, one viewer at a time: whether there is a pipeline, which call is under way,
whether anything of the branch is there, what the actor was told last, and whether a
teardown of it was reported failed. `Stream` keeps to it under every interleaving of
its threads (`BranchesKeepTheCycle`), and what `Coordinator` takes the pipeline to do,
while runs end and resets are cut short, is it too (`BranchesFollowTheCycle`). All these
refinements are proved. Two limits. `attached` in `Coordinator` stands for
anything of a branch that may be left, not for a working branch: in `Stream` what a failed
teardown left may still go at any later moment, through a closure of it; `Coordinator`
decides at once whether it goes, and keeps the rest for the run. And a
refinement shows that neither side does more than `BranchCycle` allows, not that
each allows everything the other may do; that would need `ENABLED`. What the actor
relies on beyond it is in `Stream`'s other properties. That
the calls come back is `ActorComesBack`, and when a detach may fail for good is
`OnlyRetriesFailForGood`.

One state of a branch has a name because of what it does to the refinement: `Hollow`, a
branch that was answered Ok after the demuxer had removed the pads that were seen, and
so is a sink without a queue. If its sink takes itself out nothing of it is left, and
nobody is told; `BranchCycle` counts it as there until it is detached or its run ends.

## 3. Runs

| Run | Instance | Shows |
|---|---|---|
| `watchdog` | threshold 3, window 2, 7 ticks | the count is the longest unbroken chain; trips exactly when a chain is full; behaves like `WatchdogCount` (its types are only proved) |
| `coordinator_handshake` | one id, a repeated POST, a repeated offer, an offer and an answer with the body of the other; 1.0 million states | types; SDPs of a handshake pair up and go the right way in any order of calls |
| `coordinator_restarts` | two viewers, two runs, threshold 2, symmetric; 1.0 million states | nothing of a run is left in the next, branches match connections, no stale restart, failures counted once |
| `coordinator_late_calls` | one viewer, two runs, a DELETE that may fail, the reset may time out; 35 thousand states | each call is held once and answered; what a status says of the session is true; runs and branches follow their cycles |
| `coordinator_liveness` | one viewer's whole life with a DELETE, threshold 1; 32 thousand states | reported branches are reaped, trips restart the pipeline, established sessions end for a cause only, implements `Session` |
| `stream` | one viewer with a decoder; two pads of any media, which may come without caps, get them and go; one detach besides those for an echo or an undo; 299 thousand states | tees, branches and pads through attaches and detaches that fail anywhere; what add_branch saw is what the branch gets; the branch keeps its cycle; the actor comes back and echoes are answered |
| `stream_viewers` | two viewers on one tee, one pad that stays, two detaches between them, symmetric; 814 thousand states | no tee stays paused, no pad is orphaned, a detach fails for good only after another, errors stay with their viewer |
| `supervisor` | two runs, faults `lock` and `play` | no stray pipelines or loops, backoff, shutdown and restarts come through, implements `RunCycle` |
| `coordinator_late_reset`, `coordinator_dropped_report`, `supervisor_backoff`, `supervisor_wedged` | as above | the findings of section 5 |

*Bounds.* Requests are fixed by the instance and each is made once: a viewer has one
POST, offer and answer, and the runs that ask about repetition contain the
repeated call under a name of its own. `MailboxCap` is 2 where the code has 64: enough
for a call to queue behind another and for the mailbox to be full. `FailureCap` is 1 for
64: the second report is dropped. `MaxRuns` 2 is the smallest number with something to
carry over, and what is carried over does not add up: connections, reports and
requests are in sets and channels that two runs fill. Two viewers are needed for a
trip that ends somebody else's handshake, and for a sweep with two victims; a third
would be like the second. `WatchdogThreshold` 1 and 2 make trips with one and two
failures reachable, 3 lets a chain break in the middle. `ResetMayTimeOut`
separates what holds as long as `RESET_TIMEOUT` does not fire from what always holds.
`U32Max` is the width of the failure count, small here and arbitrary (at least 6) in the
proofs. `Faults` of `Stream` says whether pads may come without caps (`none`) and whether
the demuxer may remove them (`gone`); `stream` has both. `MaxPads` 2 makes a pad too
many, a pad too late, two pads of a kind, and a pad that takes the place of one that
went possible. `MaxDetaches` counts the detaches of all viewers together, except those
that an echo asks for or that undo an attach: 1 in `stream`, where the second detach
is that of the echo, and 2 in `stream_viewers`, for a detach that is tried again while
the closure of the first is still at work, or for one of each viewer. Two viewers share
a tee in `stream_viewers`, and what the demuxer does makes no difference to their
detaches; nor does the decoder to a tee. Both are left to `stream`.
In `supervisor`, two runs reach the first doubling of the backoff only, and with the
faults `lock` and `play` only the first conjunct of `LivePipelinesAreHeld` says
something: for the rest `SlowsDown` and `LivePipelinesHeld` are proved, for every count
and every set of faults (three runs hold as well, in three and a half minutes). The runs with symmetry check invariants
only. Every safety property is proved as well (section 4), so for these the bounds
decide only what the mutants are caught in.

*Deadlock* is not checked: once the fixed calls are used up and `MaxRuns` is
reached, or no pad, detach or closure is left, the system may stop.

*Fairness.* `Await`: every await of the actor is bounded by `teardown_timeout`
(`coordinator.rs:642-661`, and the timeout around `add_branch`). The three arms of
the actor's loop get strong fairness, because `tokio::select!` polls ready branches in
random order and each arm is ready again and again. Deadlines pass (weak). The
supervisor's loop goes round: weak, and strong for `SendReset`, which waits for room in
the mailbox. That a quit ends the run is assumed in `Coordinator` and is a checked
property (`RestartsEndTheRun`) of `Supervisor`, where nothing but scheduling, bounded
awaits and the end of `set_state(Null)` is assumed. In `Stream` the actor's steps and
`CutOff` are weakly fair, `ServeEcho` strongly, as an arm of the same loop, and
closures weakly, except that a sink which waits for the answer to its own DELETE owes
nothing before it has it: that is the wait that might deadlock with the actor.
Callers, the SRT input, the demuxer, viewers, GStreamer errors and Ctrl-C owe nothing:
no fairness on any of them.

## 4. Proofs

All theorems hold for every value of the constants that satisfies the assumption
of its module: `RequestAssumption`, `ThresholdAssumption`, `BodyAssumption`,
`SupervisorAssumption`, `StreamAssumption`, `IdAssumption`, and the watchdog's.
Every safety property that a passing run checks is proved. Each invariant is
made inductive by one that stands at the head of its section:

* `CoordinatorProofs!TypeCorrect` — `TypeOK` is not inductive: the end of an await
  writes `conn[act.id]` and answers `act.req`, so one needs that the actor in an
  await holds a real id and, for a create or a delete, a real request (`ActorOK`).
* `CoordinatorCallsProofs!CallsHeldOnce` — an unanswered call is in exactly one of the
  mailbox, the handler's hands and the map, an answered one in none. The
  strengthening `HandsOK` says that a call not sent has no answer, that an entry
  without connection has no waiter, and that a handler holds a call only while its id
  is out of the map — without it, `DeleteFailed` might restore an entry over a newer
  one. Each action is reduced to which calls it moves.
* `CoordinatorRunsProofs` — `KindsOK` (which kind of call may be parked where) is what the
  rest uses. `RestartsAreForTheirRun`: the slot is drained at the top of a run and filled
  only by a trip in it (`SlotOK`). `FollowsTheCycle`: `Coordinator` implements
  `RunCycle`. `FollowsTheBranchCycle`: it keeps to `BranchCycle` too, for which
  one needs that there are branches only in a running pipeline, and that what the actor
  is taking apart is no longer in the map (`PlacesOK`).
  `WaitersEndWithTheirRun` and `BranchesMatch` assume `~ResetMayTimeOut`, and
  finding 2 shows that they must: the reset is then handled between the runs
  (`ResetsOK`), after it there is neither a connection nor a DELETE under way
  (`RunsOK`), and a branch without connection is in the hands of a teardown, suspect, or
  in a pipeline that is on its way down (`OwnedOK`). `NoCallIsStranded` and `HandlersEnd` are
  the safety half of `EveryCallIsAnswered`: where an unanswered call can be, and that
  each await of a handler brings the actor nearer to its mailbox (`GetsOn`).
* `HandshakeProofs!SdpsPair` — a call gets its SDP together with its answer and passes
  its own on when it leaves the mailbox (`PairInv`), so a parked call has none and a
  queued one went nowhere yet. `FailuresCountOnce` — a handshake that was counted is
  neither in the map nor in the hands of a teardown (`CountInv`); `RestartsAreEarned`, from the
  same invariant: a restart is asked for only after a threshold of different failed
  handshakes. `SessionsAtomic` — the
  refinement of `Session`, step by step; `DeleteNames` ties the entry that a
  DELETE has in hand to the call it will answer. `DeletesDecide`, `ErrorsLeaveNoSession` and
  `RetriesPay` read the statuses off that refinement: a step of a `Session` says what
  is answered to whom and what is left of the connection (with `DeletesListen`: a DELETE
  always stays to hear its answer, and `GivenOK`: who was given an SDP was answered with
  it). `ErrorsLeaveNoSession` is proved only; the runs check the refinement it
  follows from. `SdpsRightWay` is about `HttpSpec`: routes check bodies, the actor crosses
  kinds (`BodiesOK`, `LegsOK`). `EstablishedLasts` — a deadline is that of a
  handshake, and nothing on a sweep's list is established by the time it is
  reached (`DeadlinesOK`).
* `SupervisorProofs!TypeCorrect`, `LivePipelinesHeld`, `LoopsEnd` — with `HandlesOK` (where the
  two handles may point at each step), for every set of faults. As long as locks are got,
  what still plays between a reset and the next `init`, and after the end, is only what
  a late failure of an `init` has left. `SlowsDown` — the
  backoff doubles from 1 s to 30 s for a count of any width of at least 6; TLC sees only
  the first doubling. `ImplementsRunCycle` — `Spec => KeepsTheRunCycle`.
  `ShutdownLeadsOut` — a measure of the loop (`StepsLeft`) that a shutdown turns
  into at most nine steps, none of which begins a run.
* `WatchdogProofs` — `CountsTheChain` needs that `last_failure` is the end of the burst
  (`BurstOK`); `TripsOnAChain` and `ImplementsWatchdogCount` follow from it.
* `StreamProofs` — `TeesCarry` and `StaysHalfLinked` need what the demuxer's two callbacks
  know of each other: a queue is fed by a pad of its kind that has its caps and is still
  there (`FeedOK`), and a walk has built a tee for each pad it has passed and that is
  still there, so that, as long as no pad has gone, no walk after the first tee gets past
  the first pad (`WalkOK`). Hence the exceptions: `TeesCarry` speaks of a queue that the
  first pad of its kind feeds, and `StaysHalfLinked` of the time until a pad is removed —
  then a walk may get further, or a pad feed the queue of a chain for another codec. `PausedWorkedOn` and `ErrorsContained` need the types and who
  holds a sink.
* `StreamBranchProofs` — `NoPadOrphaned` and `DetachedGone` are proved together
  (`BranchInv`): a detach that waits has a closure of its own for what is still to be
  released (`AwaitOK`), nothing is taken out that has a pad, and what a detach has
  passed is gone (`PartsOK`). `RetriesFail` follows from it. `MappedHang` and
  `NewPadsLackTees` are about single steps, the Ok of an attach and its failure for want
  of a tee; they add that what `add_branch` saw has its tees while it attaches, and
  that each medium of it that is still there when its turn comes, or later, has been
  linked (`SeenOK`): a tee never goes, and a pad that went does not come back.
  `KeepsTheBranchCycle` — the refinement of `BranchCycle`; it needs besides
  that an attach lies within a run of the pipeline and starts from nothing (`BuiltOK`).
  `OperationsEnd` — each attach or detach takes at most 22 steps.

Model-checked only, because liveness and `ENABLED` are beyond the prover:
`EveryCallIsAnswered`, `ReportedBranchesAreReaped`, `TripsRestartThePipeline`,
`RestartsEndTheRun`, `ShutdownCompletes`, `ActorComesBack`, `EchoesAreAnswered`.
`NoCallIsStranded`, `HandlersEnd`, `OperationsEnd` and `ShutdownLeadsOut` prove what these rest on
besides fairness, that nothing goes round in circles; that the steps are taken is
left to TLC.

## 5. Findings

The first four are runs in which TLC violates what a comment or a test says.

1. `coordinator_late_reset` — when `RESET_TIMEOUT` fires, waiters do outlive their run
   (`supervisor.rs:156` against `signal/mod.rs:28`). If the mailbox is still full when it
   fires, the reset has not even been sent and never will be: an established connection of
   the old run then stays, since the sweep looks at handshakes only.
2. `coordinator_dropped_report` — for an established viewer the sweep is no backstop
   for a dropped bus report (`gst_pipeline.rs:438` against `startup.rs:39-42`).
3. `supervisor_backoff` — `run()` answers `Ok` whatever ended its main loop, so
   fatal bus errors never back off (`gst_pipeline.rs:464` against `supervisor.rs:1-2`
   and the test at `supervisor.rs:374`, whose fake pipeline does return errors).
4. `supervisor_wedged` — `clean_up` waits for NULL without a bound after the bounded
   join, so a wedged element does hang process exit (`gst_pipeline.rs:504` against
   `supervisor.rs:82-83`).

Others show in how a property had to be stated, and have no run of their own:

* The failures of a trip need not lie within one window: the window is measured from
  the previous failure (`signal/watchdog.rs:35` against its lines 3-5). See
  `TripsExactlyOnAChain`.
* A reset that comes late, in the next run, takes that run's connections away and leaves
  their branches (`coordinator.rs:669` against 305-306): `BranchesMatchConnections`
  holds only while resets do not time out.
* A pad that appears between `add_branch`'s check and the attach makes the attach fail
  for good, a 500, where a moment earlier it would have been the retryable
  `NotReady` (`stream/errors.rs:10-13`): `OnlyNewPadsLackTees` says that it is the only
  way to get there.
* A pad that the demuxer removes between the check and the attach is taken for a medium
  that need not be linked: `add_branch` answers Ok for a branch that lacks it, or for a
  sink and nothing else, which may then take itself out without anybody being told
  (`stream/branch.rs:111-114`): the exceptions in `MappedBranchesHangOnTees` and
  `BranchesKeepTheCycle`.
* A pad whose caps are known only after pad-added is never linked to its queue
  (`stream/gst_pipeline.rs:333-336`), but the walk of no-more-pads builds its tee, so
  that the input counts as ready and viewers wait for a medium that does not flow; and
  after a change of the program a pad of another codec may feed a chain built for the
  old one, since a tee that is there is never built again: the premise of
  `TeesCarryTheirMedia`.
* A detach that is retried while the closure of one that was cut off still runs may find
  the queue's peer gone and fail for good: `OnlyRetriesFailForGood`.
* A loopback offer that runs into its deadline is answered with `Retry-After` although
  the connection it would retry at has ended (`signal/errors.rs:55-57`): the exception in
  `RetriesAreWorthwhile`.
* An element inside a `whipclientsink` that was taken apart before its error is read has
  lost its ancestors, and the error quits the pipeline for everyone: the exception in
  `ErrorsAreContained`.

## 6. Not modelled

* Telemetry, the text of logs and SDPs, HTTP parsing by actix: no state of the program,
  or not its own.
* The discoverer (`stream/utils.rs`): a one-shot probe of the input at start-up.
* `list`, `options`, `ready`: they only read.
* The graceful stop of the HTTP server that `run_until_stopped` waits for next to the
  supervisor: it is actix's own, with its own timeout. What the supervisor makes of the
  shutdown is modelled; hence "partly" for the wiring.
* In `Stream`: caps that change once they are set, and several sinks of one viewer (ids
  are fresh for every POST).
* In `Coordinator`: a `clean_up` that fails. The consequences for pipelines and main
  loops are in `Supervisor`; those for a branch in a pipeline that nobody holds any more
  are not modelled.
* Media data, WebRTC and ICE, the viewer's side of a session.
* Panics, of the run task or of the actor.

Checking: `tlc -config <run>.cfg <module>` for each row of section 3 (the modules
are in `PROJECT.json`), `tlapm <module>.tla` for the proof modules.
