# Verification of rtp-agent: TLA+ models, model checking and proofs

rtp-agent runs voice agents: a worker process registers with a LiveKit server,
is offered jobs, and for each job runs an agent session that listens (STT),
thinks (LLM), speaks (TTS) and can be interrupted.  This directory holds TLA+
models of the parts where several goroutines share state, the TLC
configurations that check them, and TLAPS proofs.

| module | what it is | source |
|---|---|---|
| `SpeechHandle` | the handle of one speech, as a record and its operators | `core/agent/speech_handle.go` |
| `SpeechScheduling` | the speech queue of an activity, its goroutines, its callers | `core/agent/agent_activity.go`, `pipeline_agent.go` |
| `SpeechTurns` | abstract specification: one turn at a time, by priority and arrival | what `ScheduleSpeech` promises |
| `MCSpeechScheduling` | small instances | |
| `SpeechSchedulingProofs` | type correctness, the turn invariant, and what follows | |
| `SpeechTurnsProofs` | `SpeechScheduling` implements `SpeechTurns` | |
| `SpeechWakeUpProofs` | no wake-up is lost, what a drain has seen stays true | |
| `SpeechWaitingProofs` | replies and Drain do not wait in a circle | |
| `AgentSession` | start, stop, close, hand-over between agents, claims, holds and waits | `core/agent/agent_session.go`, `agent_activity.go` |
| `SessionAgents` | abstract specification: each agent handed over, entered and left once | what `Start`, `Stop`, `closeSoon`, `UpdateAgent` promise |
| `MCAgentSession` | a small instance | |
| `AgentSessionProofs` | types, no stray activity, what close and waits may assume; it implements `SessionAgents`; nobody waits in vain | |
| `FalseInterruption` | the pause of a speech by the user's voice and everything that resolves it | `core/agent/agent_activity.go`, `agent.go` |
| `MCFalseInterruption` | a small instance | |
| `FalseInterruptionProofs` | types, who resumes over the user, who abandons a pause, the known gaps | |
| `RoomOutput` | the room's audio output and the replies that play into it | `interface/worker/livekit/room_io.go`, `core/agent/pipeline_agent.go`, `multimodal_agent.go` |
| `MCRoomOutput` | small instances | |
| `RoomOutputProofs` | types, the publication gate, segments, the encoder; nobody waits in vain | |
| `WorkerJobs` | offers, assignments, entrypoints, terminations, drain, close | `interface/worker/server.go`, `job.go`, `server_tracing.go`, `livekit/*.go` |
| `JobLedger` | abstract specification: a job is started, answered for and ended once | what the worker promises Drain, Close and the server |
| `MCWorkerJobs` | small instances | |
| `WorkerJobsProofs` | types, the invariants of the jobs, timers and statuses, Drain's answer; it implements `JobLedger`; nobody waits in vain | |

`PROJECT.json` lists runs, mutants, findings, hazards and theorems, and maps
every definition that models code to the lines it stands for.

To check a run: `tlc -workers 2 -config worker_jobs.cfg MCWorkerJobs`, and the
same with the other configurations and the MC module that the run names in
`PROJECT.json`; to check the proofs: `tlapm SpeechSchedulingProofs.tla`, and the
same for the other seven modules whose name ends in `Proofs`.

Every safety property that a run checks is also a theorem, for every value of
the constants that the module's assumption allows.  Liveness is checked by TLC
only: under fairness, and with the `ENABLED` it rests on, it is out of the
prover's reach.  What can be proved of it is its safety core: in every state,
whoever waits, waits for something that somebody else is still going to do and
that does not wait for him in turn.  That is `NoCircularWait` of the speeches
and `WaitsAnswered` of the other parts, each an invariant of a run and a theorem.


## 1. Inventory of the system

### Core

**Speech handle** (`core/agent/speech_handle.go`).  State: `allowInterruptions`,
the one-shot channels `interruptCh`, `doneCh`, `scheduledCh`, the list
`generationChs` (one per step of the reply), the interrupt timer, done
callbacks.  Operations: `Interrupt`, `MarkScheduled`, `AuthorizeGeneration`,
`MarkGenerationDone`, `MarkDone`, the waits.  Correct when: an interrupted
speech ends; nobody waits for a channel that is never closed; done callbacks
run once.

**Agent activity** (`core/agent/agent_activity.go`).  One per active agent of a
session.  State under `queueMu`: `speechQueue`, `currentSpeech`,
`schedulingPaused`, `schedulingDraining`, `schedulingStarted`; the channel
`queueUpdatedCh` of size one that wakes the scheduling task; the context.
Operations: `ScheduleSpeech`, `Interrupt`, `PauseScheduling`,
`ResumeScheduling`, `Drain`, `Stop`, `WaitForInactive`, and handlers of user
speech (start, end, transcripts), which detect turns, barge-ins and false
interruptions.  Hard: `processQueue` is run by the scheduling task, by done
callbacks and by everyone who waits for inactivity; a reply that runs tools
gives the turn away and comes back; drain and stop against both.  Correct when:
one speech at a time has the turn, in order of priority and arrival; accepted
speeches end; drain and stop return and leave nothing behind.

**Pipeline agent** (`pipeline_agent.go`, `generation.go`).  One goroutine per
reply: LLM, TTS, playout, tools, then another step after the session has become
inactive.  Interacts with the activity through the handle and
`resumeSpeechStep`.  **Multimodal agent** (`multimodal_agent.go`): the same for
realtime models, whose events arrive as callbacks.

**Agent session** (`agent_session.go`).  State: the current agent and activity,
`started`, `closing`, `lifecycleGate` (a channel of size one that excludes Start
and Stop), user and agent state, claims (`ClaimUserTurn`) and holds
(`WaitForInactiveAndHold`), timers.  Operations: `Start`, `Stop`, `closeSoon`,
`UpdateAgent`, `Say`, `GenerateReply`, `WaitForInactive`.  Hard: `UpdateAgent` and
`closeSoon` change the session before they have the gate; hand-over from one
activity to the next while replies run; closing while starting.  Correct when:
one activity at most is alive; each is entered and left once; callbacks run once
and the close event comes after the cleanup; nobody waits for a dead session.

**False interruption** (`agent_activity.go`): a pause of the audio output when
the user makes a sound, a timer that resumes it unless something was said.
State: `pausedSpeech`, the timer and its sequence number under
`falseInterruptionMu`, the user's turn under `speechBoundaryMu`, and the current
speech under `queueMu`, read and written by the voice detector, the transcripts,
the committed turn, the timer and the end of the reply.  Correct when: a
sound that came to nothing resumes the output, but never over a user who speaks;
a pause does not stay for ever.  **Endpointing, turn
detection, barge-in gates** (`endpointing.go`, `barge_in.go`,
`backchannel_weave.go`): delays learnt from the user's pauses, word counts.

**LLM** (`core/llm`): chat context (an ordered list with truncation and merging),
the remote context of realtime models (a linked list), tools and their schemas,
an MCP client.  **STT / TTS** (`core/stt`, `core/tts`): streams, adapters from
segments to streams, fallback adapters (several providers, marked unavailable on
failure and recovered in the background), the pacer that decides when text is
sent to a TTS.  **VAD and audio**: signal processing.

### Worker

**Agent server** (`interface/worker/server.go`, `server_tracing.go`).  State
under `mu`: `activeJobs`, `finishingJobs`, `pendingAccepts`, `pendingTimers`,
`reservedSlots`, `draining`, `closed`, the connection.  Operations: the handlers
of the LiveKit server's messages (register, availability, assignment,
termination), `Run`, `Drain`, `Close`, job reload, local jobs.  Hard: offers are
answered and terminations handled by goroutines of their own, the end of a job
can be started by three parties.  Correct when: no job is forgotten by drain and
close, a job ends once and in the right order, no accept is lost to an old timer.

**Job context** (`job.go`): the shutdown of a job (drain of the session,
callbacks, disconnection, bounded by a time-out but completed in the
background), entrypoint bookkeeping, participants.

**Executors and pool** (`ipc/`): threads or processes that run a job, warm idle
executors, a protocol of messages between processes.  Used for local jobs.

**Room input/output** (`livekit/room_io.go` and neighbours).  Output: publications
enter a gate (`closed`, `publicationActive`), wait while the output is paused,
and open a playback segment that `Flush` or `ClearBuffer` finishes and that
`WaitForPlayout` waits for; `Shutdown` closes the gate, waits for the
publications and closes the encoder.  Hard: a publisher decides to wait under
the lock and waits outside it; replies overlap and share one segment.  Correct
when: nobody misses a resume or a finish, no segment is left open, the encoder
outlives the publications, Shutdown returns.  Input, transcription and
recording: callbacks of the LiveKit SDK and buffers.  **Agora**
(`agora/`): a second transport.

### Around it

`app` and `cmd` assemble an agent from configuration, `interface/cli` is the
command line with a reloading watcher, `core/beta` holds workflows and tools,
`core/evals` judges, `library` small utilities (connection pool, bounded
dictionary, tokenizers, telemetry), `adapter` more than sixty provider adapters.

### How the parts interact

The server starts the user's entrypoint with a job context; the entrypoint
starts a session; the session owns an activity and an assistant (the pipeline or
multimodal agent).  The activity calls the assistant's `OnSpeechScheduled` in a
goroutine when a speech gets the turn; the assistant reports back through the
handle (its channels and done callbacks) and through `resumeSpeechStep`.  Room
input calls the activity's handlers; room output is paused, resumed and cleared
by it.  The job's shutdown stops the session, which stops the activity, whose
context ends every wait.  `ARCHITECTURE.md` states the rules: cancellation goes
through `context.Context`, a component closes only the channels it created.

The complete list of components, modelled or not and why, is in `PROJECT.json`.


## 2. Speech scheduling

### The model

`SpeechScheduling` has one variable per field (`speechQueue`, `currentSpeech`,
`schedulingPaused`, ... ) and one per goroutine: the scheduling `task`, the
`reply` goroutine and the `watcher` of each speech, the `callback` of its end,
the goroutines that are about to run `processQueue` (`passes`) or to send the
wake-up token (`signals`), and a `waiter` for each caller of `WaitForInactive`
(every reply that comes back from tools, and Drain).  A step is one critical
section or one channel operation.  `processQueue` is the operator
`ProcessQueue`, a conjunct of every action that runs it.  Handles are records
(`SpeechHandle`), so that a handle's method is one atomic update.

| code | action |
|---|---|
| `ScheduleSpeech` | `ScheduleSpeech`, then `Signal` |
| `Interrupt` of the activity, of a handle; its time-out | `InterruptActivity`, `InterruptSpeech`, `TimeoutFires` |
| `PauseScheduling`, `ResumeScheduling` | the same names, then `Signal` |
| `Drain` | `DrainBegin`, the Drainer's waiter, `DrainClear`, `DrainPause` |
| `Start`, `Stop` | `Start`; `StopCancel`, `StopPause` |
| `schedulingTask` | `TaskReceive`, `TaskPass`, `TaskEnd` |
| the goroutines of `processQueue` | `ReplySkip`, `ReplyEnter`, `Watch` |
| `OnSpeechScheduled` and `generateReplyWithContext` | `ReplyBegin`, `ReplySettle`, `ReplyGiveUp`, `ReplyToolsDone`, `ReplyContinue`, `ReplyResume`, `ReplyFinish` |
| `OnPipelineReplyDone` | `OnPipelineReplyDone`, then `Pass` |
| `WaitForInactive` | `WaiterPass`, `WaiterSnapshot`, `WaiterWoken`, `WaiterNext`, `WaiterProceeds` |
| the user's turn and `notifyUserTurnUpdated`; `CommitUserTurn`, which receives from the same channel | `UserTurn`, `CommitUserTurn` |

The environment does what `Ops` lists; a reply may make tool calls in any step
up to `MaxSteps`, and may end at any point.  What is said is left out, and so is
the wait for an end of turn that is being detected (`agent_activity.go:744`).
`userTurnUpdatedCh` has room for one token (258), and a send wakes one receiver:
`userTurnUpdated` is that token, and a `WaiterWoken` takes it.

### The runs

* `speech_turns` (three speeches, interrupts, two steps): types; a speech in its
  first step is the current speech (`FirstStepHoldsTurn`), so that two first
  steps never run at once; only the newest generation channel is open and none
  when the reply is over (`GenerationsClose`); a queue that could move is never
  left without a wake-up (`NoLostWakeUp`); and the replies and the Drain that
  wait for the activity to be quiet never all wait for one another
  (`NoCircularWait`): while anybody is blocked, somebody is blocked on a speech
  that is not, and whose reply is not over unless the activity was stopped.
* `speech_priority` (two speeches of any of two priorities, one of them
  uninterruptible, with pauses, forced scheduling and time-outs):
  `SpeechScheduling` implements `SpeechTurns` with `turn` mapped to the speeches
  in their first step (`TakesTurns`); an interrupted speech ends wherever it is,
  even in a paused queue (`InterruptedEnds`).
* `speech_accepted` (two speeches, tool replies, interrupts and a stop at any
  point): every accepted speech ends unless the activity is stopped
  (`AcceptedEnds`), and a stop ends every reply goroutine (`StopEndsReplies`).
* `speech_drain` (tool replies, a user who talks in between): a Drain that has
  waited leaves no unfinished speech queued (`DrainLeavesNoneQueued`), and Drain
  returns although replies wait for inactivity themselves (`DrainReturns`).  When
  the user falls silent the one token reaches one waiter, and the code may leave
  the others waiting (see "One wake-up for several waiters" in Findings).
  `DrainReturns` therefore says two things: a waiter is overlooked, that is it
  waits for a quiet user with no token left, only if another waiter or
  `CommitUserTurn` received the token in its place (`WakeUpTaken`); and Drain
  returns once the user is silent for good and nobody stays overlooked.

`speech_turns` has about 634,000 distinct states, `speech_drain` 636,000,
`speech_accepted` 128,000.

Bounds: two speeches suffice for the races of two replies, three for a queue
behind a tool reply beside another speech; two steps give one return from
tools; `MaxSignals = 1` allows one caller between its unlock and its token (the
token is idempotent).  Each speech is scheduled once, as in the code, where a
handle is new for every reply.  Symmetry is used for safety without priorities.
`speech_drain` restricts its environment (`EnvironmentOfDrain`), to which no
fairness is owed: the second speech is used only after the first, since the other
order is its mirror image, and the user's turn changes only while somebody is
about to look at it or waits for it, since an earlier change cannot be told from
one that comes just before the look.

Fairness: every goroutine the code starts runs (weak fairness of its actions),
an armed timer fires, and generation, playout and tools end: providers have
deadlines, and playout ends with the audio.  Callers owe nothing: nobody has to
resume a paused activity, to stop it or to interrupt.  `DrainReturns` assumes
that the user does not talk for ever and that wake-ups are not taken from the
same waiter for ever; `AcceptedEnds`, that no speech times out while it is still
queued (see "A speech that timed out" in Findings), and its run leaves out the
user's turns, under which a tool reply may be overlooked as a Drain may.

### The proofs

`SpeechSchedulingProofs` holds for any set of speeches and priorities, any
`Ops`, `MaxSteps` and `MaxSignals` that satisfy `SchedulingAssumption`.

* `TypeCorrect`: `Spec => []TypeOK`.
* `TurnInvariant`: `Spec => []TurnInv`, where `TurnInv` is the inductive
  strengthening: `TypeOK`; no speech is queued twice, and what is queued was
  never taken (`QueuedOnce`); the current speech was taken (`TurnIsTaken`); the
  generations of a handle match the state of its reply goroutine
  (`GensOfReply`); and `FirstStepHoldsTurn`.  `FirstStepHoldsTurn` alone is not
  inductive: `processQueue` gives the turn to a queued speech, which must not
  have been taken before, and clears `currentSpeech` when its generation is
  settled, so one must know which generations a goroutine can have.
  `resumeSpeechStep` is the interesting step: it may take the turn only when the
  current speech is not live, and the speech that resumes is past its first step.
* `TurnHeld`: `Spec => []FirstStepHoldsTurn`, from it.
* `GenerationsAreClosed`: `Spec => []GenerationsClose`, from it.

`SpeechTurnsProofs` adds `QueueTakesTurns` (`Spec => TakesTurns`): initial states
map to initial states, and every step to a step of `SpeechTurns` or a stutter,
with `turn` mapped to the speeches in their first step.  An accepted
`ScheduleSpeech` is `Accept`; a `processQueue` that removes an entry is `Take`,
which needs `TurnInv` to know that nobody has the turn then.  Every other step
leaves the queue alone and satisfies `NoNewTurn` (no speech gets into its first
step), a fact proved beside `TurnInv`, so it is `Yield` or a stutter.

`SpeechWakeUpProofs` holds two facts whose assumptions on `Ops` are the
complements of the observations in Findings.

* `WakeUpsAreKept` (`Spec => []NoLostWakeUp`, assuming `"timeoutQueued"` is not
  in `Ops`) from `WakeInv`: a handle that is done was scheduled or interrupted;
  a queued speech is not done; a speech that was taken is watched until it is
  done.  A `processQueue` that leaves speeches behind then leaves a watched
  speech in turn, whose watcher sends the next wake-up.  A speech that ends in
  the queue breaks exactly this (see Findings), hence the assumption.
* `DrainSeesTheQueue` (`Spec => []DrainLeavesNoneQueued`, assuming `"force"` is
  not in `Ops`): while `schedulingDraining` is set nothing joins the queue and a
  handle that is done stays done, so what the drain's last snapshot has found
  holds until the flag is cleared.  A forced speech ignores the flag.

`SpeechWaitingProofs` adds `WaitsAreGrounded` (`Spec => []NoCircularWait`).  A
reply that has run its tools waits for every speech of its snapshot, and later
for those of another; it is an unfinished speech itself, and others may have it
in theirs.  `WaitInv` says why that does not close a circle: only a reply that
waits has a snapshot (`OnlyIdleWait`), a reply goroutine ends with its speech or
because of Stop (`OverEnded`), who is blocked is blocked on a speech
(`BlockedOnSpeech`), and among any replies there is one that waits for none of
them (`Grounded`).  The last is the strengthening: it speaks of all subsets of
the speeches and of all a snapshot still holds, since what a reply will wait
for next is already fixed.  It holds because a reply that waits has settled its
newest generation, so that no later snapshot finds it active.  `WakeUpsAreTaken`
(`Spec => WakeUpTaken`) is the safety half of `DrainReturns`: only the steps that
receive the token can leave a waiter overlooked.

Only model-checked: `AcceptedEnds`, `StopEndsReplies`, `InterruptedEnds` and
`DrainReturns`, all liveness.


## 3. Worker jobs

### The model

`WorkerJobs` follows each job through the goroutines that touch it:

| code | actions |
|---|---|
| `handleAvailability`, `answerAvailability`, `AnswerAvailabilityRequest` | `HandleAvailability`, `Admit`, `ReserveSlot`, `StorePendingAccept`, `SendAccept` or `Reject`, `ReleaseSlot` |
| the assignment timer | `TimerFires` (its goroutine starts), `ExpirePendingAccept` (it has the mutex) |
| `handleAssignment` | `HandleAssignment` |
| `RunJobEntrypointLifecycle` | `EntryStart`, `EntryReturns`, `EntryPlan`, `EntryReport`, `EntryAwait`, `EntryShutdownDone`, `EntryFinish`, `EntryDone` |
| `handleTermination` | `TerminationArrives`, `TermTake`, `TermMark`, `TermShutdown`, `TermShutdownDone`, `TermWait`, `TermFinish`, `TermDone` |
| `startShutdown` | `BeginShutdown`, `ShutdownReturns`, `ShutdownSettles` |
| `finishJob`, `finishJobLifecycle` | `Claim`, `TrackFinishing`, `AwaitShutdown`, `AwaitSettled`, `SessionEndTimesOut`, `SessionEndReturns`, `CleanUp` |
| `Drain`, `Close`, the end of `Run`'s context | `DrainBegin`, `DrainSend`, `DrainReturn`; `CloseBegin`, `CloseFinish`, `CloseReturn`; `Stop` |

The LiveKit server is the environment: it offers a job, assigns it if it has
been promised, offers it again if the promise got lost or no assignment was
made, and terminates it.  A message is lost when sending fails.  It does not
offer a job while an earlier offer of the same job is still being answered.  A
timer is named by the number of the accept that started it (`accepts`), so that
`ExpirePendingAccept` compares identities as the code compares timer pointers.
`LoadFunc` is the user's; here it reports `JobLoad` per active job.  `Ops`
selects what happens: terminations, failing entrypoints, drain, stop, close,
time-outs inside the worker (`timeout`), and contexts of Drain and Close that
expire or a draining status that cannot be sent (`deadline`).

### The runs

* `worker_jobs` (one job, accepted up to twice, everything): types, with as many
  reserved slots as requests at most; `WorkerJobs` implements `JobLedger`
  (`KeepsLedger`): a job is started once, the worker answers for it, in exactly
  one of `activeJobs` and `finishingJobs`, from then to its clean-up, its final
  status is sent at most once, and once `Close` has returned none is left or
  added; a late timer never removes a newer accept (`PromiseKept`); a final
  status is sent at most once, that of a success after the foreground of the
  teardown and by who finished the job (`ReportsOnce`); a Drain that returns nil
  leaves no slot, accept or job (`DrainLeavesNothing`); and nobody waits in vain
  (`WaitsAnswered`): a shutdown that is waited for has begun, a teardown has
  somebody who runs it, an entrypoint has been started, a job that is
  `finishing` has a finisher, and a pending accept has a timer until Close.
* `worker_ends` (one job, no wait inside the worker runs into its bound): the
  session-end callback follows the entrypoint unless the worker is closed, a
  terminated job ends, a stopped worker drains, Close returns.
* `worker_admission` ends in a violation, see Findings.

Bounds: jobs meet only in the counts that admission, Drain and Close look at; the
races inside a job are checked with one job and all operations, admission with
two, and the theorems below hold for any number.  Two accepts of one job are
needed for an old timer.

Fairness: the goroutines the worker starts run, timers fire, and the user's
entrypoint, shutdown callbacks and session-end callback return (a callback that
never returns keeps the job in `finishingJobs` for ever, by design).  Offers,
assignments, terminations, Stop, Drain and Close are never owed.
`StoppedDrains` assumes that Close is not called: Close stops the timers that
would take away pending accepts, and a Drain that polls then has only its context.
`CHECK_DEADLOCK FALSE`: a worker whose jobs are over and that is offered no more
stops.

### The proofs

`WorkerJobsProofs` holds for any finite set of jobs, any thresholds, any bound on
the accepts of a job and any `Ops` that satisfy `WorkerAssumption`.  The
invariants are proved one after the other, each from the ones before it.

* `WorkerTypeCorrect` (`[]TypeOK`) needs `SlotsCounted`: `reservedSlots` is the
  number of requests between reservation and release.  Without it the release
  could find no slot to give back, and two requests could share one.
* `JobsInvariant` (`[]JobsInv`): a request that is being answered belongs to a
  job that is not assigned, nobody finishes a job before its entrypoint has been
  started (`StartedFirst`), and from `trackFinishingJob` to `untrackFinishingJob`
  the job is in `finishingJobs` (`TeardownTracked`).  `JobsAreAccounted` (a job is in
  exactly one of the two sets) and `CloseStaysFinal` (Close leaves none) follow.  The strengthening is needed because a job is put
  into `finishingJobs` by whoever comes first, the termination or the teardown,
  and taken out only by the teardown: one that came twice, or before the
  assignment, would leave a job behind or lose one.
* `PromisesAreKept` (`[]PromiseKept`) from `TimersInv`: a timer never runs and
  has fired at once, and the running timer of the newest accept is the one in
  `pendingTimers`.
* `DrainLeavesNoJob` (`Spec => DrainLeavesNothing`): the poll that lets Drain
  return adds up four numbers to zero, so by `SlotsCounted` and `JobsAccounted`
  no request holds a slot and no job is unfinished.
* `StatusSentOnce` (`[]ReportsOnce`) from `ReportsInv`: nothing has been sent
  before the entrypoint's own report, nor for a success before its goroutine
  ends.
* `EntrypointBeforeSessionEnd` (`[]SessionEndsAfterEntrypoint`, assuming that
  waits do not time out): whoever finishes a job of a worker that is not closed
  does so after the entrypoint, although three parties race for `finishOnce`.
* `WorkerKeepsLedger` (`Spec => KeepsLedger`): every step is one of `JobLedger` or
  a stutter, with `held` mapped to the union of the two sets.  `ReportsInv` makes
  a `Report` the first, `StartedFirst` makes an end the end of something started,
  and `ClosedByClose` (the worker is closed only by a Close under way or
  returned) keeps an assignment from starting a job after it.
* `NobodyWaitsInVain` (`[]WaitsAnswered`): the teardown and its finisher follow
  each other through every step of `finishJob`, whichever of the entrypoint, a
  termination and Close has won; an accept keeps its timer until it fires.

Only model-checked: `TerminatedEnds`, `StoppedDrains`, `CloseReturns`, the
liveness properties of `worker_ends`.


## 4. Agent session

### The model

`AgentSession` has the fields `lifecycleGate`, `started`, `closing`, the
callbacks flag, `activity` and the counts of claims and holds; the activities,
each as what its session sees of it (made, entered, exited, scheduling paused,
context cancelled, scheduling task started, an unfinished speech); and one
record per calling goroutine: its operation, where it is in it, the activity it
works on, the one it will start, the one `closeSoon` found, and whether it has
callbacks to run.  `callbackRuns` and `outlived` (a claim or hold has outlived a
Stop, and not all of those begun before or since have ended) only observe.

| code | actions |
|---|---|
| `StartWithOptions` | `CallStart`, `StartBegin`, `StartFails` or `StartPublish`, `Enter`, `Entered` |
| `stop`, `stopActivity` | `CallStop`, `StopIdle` or `StopBegin`, `Exit`, `Cancel`, `RunCallbacks` |
| `closeSoon` | `CloseBegin`, `CloseInterrupt`, then `SpeechesEnd` or `CloseUninterrupted`, `stop`'s actions, `CloseEmit` |
| `UpdateAgent` | `UpdateBegin`, `Exit`, `Cancel`, `Enter`, `Entered` |
| `GenerateReply`, `Say` | `CallReply`, `ReplySchedule`; the speech ends by `SpeechesEnd` |
| `ClaimUserTurn` | `ClaimBegin`, `ClaimEnd` |
| `WaitForInactive`, `WaitForInactiveAndHold` | `CallWait`, `WaitRead`, `WaitInactive` or `WaitClosed`, `WaitRecheck`, `WaitClaims`, `WaitReturns`, `HoldBegin`, `HoldEnd` |
| a context expires | `GiveUp` |

### The run

`session_lifecycle` (about 97,000 distinct states; most of its time goes into
liveness): one goroutine starts (or fails to start) and stops the session or
claims the user's turn; one closes it, hands it over, claims the turn or holds
it idle; one hands it over, replies, or holds it idle within a deadline.

* `NoStrayActivity`: an activity that is neither the session's nor cancelled is
  in the hands of the call that took it out of the session.
* `HandsOverAgents`: `AgentSession` implements `SessionAgents`, with the
  activities for the agents: a session has at most one agent and never an
  earlier one again, OnEnter and OnExit run at most once for each, OnExit only
  when the session has moved on, and the pre-close callbacks run once between
  one run and the next.
* `WaitsAnswered`: nobody waits in vain.  Who has the gate works its way to
  releasing it; a claim or a hold that is waited for is counted and its callback
  has yet to return, even if a Stop has dropped others; the speech that
  `closeSoon` waits for has not ended; an activity that `WaitForInactive` awaits
  the start of has a call that will start it.
* `CloseAfterCleanup`: when the close event is emitted, the activity that
  `closeSoon` found is cancelled and left, or `UpdateAgent` is about to leave it.
* `WaitersRespectClaims`: `WaitForInactive` does not return under a claim or a
  hold, with claims nested and holders side by side.  From a Stop that one of
  them has outlived until all have ended the code's counts are wrong (see
  Findings), and only then is the property silent.
* `CallsReturn`, `ReplacedExits`, `WaitersReleased`: calls return, a replaced
  activity is stopped, and nobody waits for ever for a session that has stopped.

Bounds: three activities are needed for a hand-over that races another or a
second Start; three callers for a caller between two others; one speech at a
time, since the session only asks whether there is one.  The role of a caller
bounds which operations meet.  Two callers claim and two hold, so that nested
claims and a second holder meet a waiter, and a claim or a hold that has outlived
a Stop meets newer ones; a third of a kind would only add to a count.  Two
Starts never race in this run, nor do two of `closeSoon`; the theorems below have
any callers with any operations.

Fairness: a goroutine that can go on does.  The gate is a channel, which serves
its waiters in turn, so the three actions that take it are strongly fair.
OnEnter, OnExit and the callbacks return; speeches end if their activity is not
paused or `closeSoon` has interrupted them.  Nobody owes a call, nor the end of
a claim or a hold; `WaitersReleased` asks for the latter.
`CHECK_DEADLOCK FALSE`: a session that has used all its activities stops.

### The proofs

`AgentSessionProofs` holds for any finite set of callers, any operations of
each and any number of activities.  None of the safety properties is inductive; `IInv` is the conjunction of `TypeOK` and

* `Shape`: what a caller at a place may do and knows (a hand-over has a new
  activity, one that leaves has one to leave, ...);
* `GateInv`: who is between taking and releasing the gate has it, and only they;
* `StartedInv`: the session has an activity exactly while it is started, and a
  stopped one has no activity that is alive; this is what makes Start safe
  against an `UpdateAgent` that does not take the gate;
* `EnterInv`, `ExitInv`: an activity has at most one call that will enter it,
  and, once replaced, exactly one that will leave it or has left it;
* `NoStrayActivity`, `CloseInv` (what `closeSoon` found is cleaned up or being
  cleaned up), `CallbacksInv` (the callbacks have run or are held by who has the
  gate), `CountInv` (no more claims and holds are counted than callers claim and
  hold, and just as many unless some have outlived a Stop).

From it: `TypeCorrect`, `NoStray`, `EnterExit`, `Callbacks`,
`CloseFollowsCleanup`, `WaitersRespect`.

`SessionHandsOver` (`Spec => HandsOverAgents`) shows every step to be one of
`SessionAgents` or a stutter.  A Start is safe because `IInv` has nobody
else at the gate and the callbacks of the last run done; the callbacks run on a
stopped session because of `StoppedInv`, proved beside `IInv`: who ends a run
has the gate, and until it is released nobody starts another.

`NobodyWaitsInVain` (`[]WaitsAnswered`) adds `WInv`.  Once a claim has outlived
a Stop the counts are wrong, but in one direction only, and `CountInv` says so:
a caller that waits has a positive count (`Counted`, since the last release and
Stop wake all who wait), so somebody is still to return.  `MadeStart` gives every activity that is not
ready the call that will start it, through the hand-over of `UpdateAgent` as
well, and `SpeechesLast` is about the speeches `closeSoon` waits for.

Only model-checked: `CallsReturn`, `ReplacedExits`, `WaitersReleased`, which are
liveness.


## 5. False interruption

### The model

The goroutines of `FalseInterruption` are the voice detector (`vad`), the
transcripts' stream, which may report the start and the end of speech as well
(`stt`), a committed user turn (`turn`), the reply (`reply`) and the callbacks of
the timer (`Slot`); the first two are the `Listener`s.  They share the recorded
pause and the timer (`falseInterruptionMu`), whether the user speaks
(`speechBoundaryMu`, as `boundary` where it is kept over several steps), the
current speech and the output.  The two sequence numbers are one flag of a
callback: since its check the timer's or the turn's has moved (`stale`, set by
`Bump`).

| code | actions |
|---|---|
| the reply, `OnPipelineReplyDone`, `resumeFinishedPausedSpeech` | `SpeechBegins`, `SpeechInterrupted`, `SpeechEnds`, `ReplyDone`, `ResumeFinishedPausedSpeech`, `ReleaseOutput` |
| `onStartOfSpeech`, after what is held has been drained | `DrainHeld`, `Unpause`, `OnStartOfSpeech` |
| `onEndOfSpeechAt`, `ClearUserTurn` | `OnEndOfSpeech`, `ClearUserTurn` |
| `interruptByAudioActivity` by transcripts and by inferences | `OnTranscript`, `OnVADInferenceDone` (both through `Interrupting`) |
| utterances held while the agent speaks | `HoldSTTEvents` |
| `pauseCurrentSpeechForFalseInterruption` | `PauseRead`, `PauseRecord`, `PauseOutput` |
| `startFalseInterruptionTimer` | `StartFalseInterruptionTimer` |
| `resumeFalseInterruptionFor` | `TimerCheck`, `TimerAwait`, `TimerCommit`, `TimerGivesUp`, `TimerRecheck`, `TimerRecheckAgain`, `TimerResume` |
| `commitHeldBargeIn`: the look, and the resumption with no lock | `TimerCommit`, `DrainHeld`; `Unpause` |
| `onUserTurnCompleted` | `TurnRead`, `TurnCancelPause`, `TurnInterrupt`, `TurnResume`, `TurnFails` |
| `UpdateTurnDetection` | `UpdateTurnDetection` |

A pause is followed by `startFalseInterruptionTimer` only where the code calls
it, after transcripts and at the end of speech (`timed`): an onset's and an
inference's is not.  `OnInterruption` pauses as an inference does, and nothing
in the repository calls it.

### The runs

`false_interruption` (two replies, one callback at a time beside the timer that
may be set again, every operation but a start of speech that the transcripts
report, 3.42 million distinct states):

* `NoResumeOverUser`: the verdict of the timer's callback that nothing was said
  never brings the output back over the user, although the callback drops both
  locks twice on the way.  Three others do it without looking at the user, and
  the property names them: the commit of a held utterance, by a callback
  (`agent_activity.go:3149`) or an onset (2694), which calls `ResumeAudioOutput`
  at 3228 when no lock is held; the end of the paused speech; and a committed
  turn that has interrupted it.
* `PausesAttended`: a recorded pause has a speaking user, a timer that is set, or
  a listener about to set it, until one of three steps takes that away: a change
  of the turn detection; `ClearUserTurn` (3312), which takes the user to be
  silent and sets no timer; and a pause recorded by an onset or an inference when
  the user is already taken to be silent, or a timer stopped by one (2998).  The
  paused speech then waits for the next turn, interrupt or end.
* `OrphansKnown`: the output is left paused for nobody by four steps only (an
  output paused after its pause was resolved, a callback that finds itself out
  of date, a pauser that finds the speech gone, a turn that fails).  They are the
  gaps of the code; the property says there is no fifth.

`false_commit` ends in a violation, see Findings.

Bounds: with two replies a pause of the first can be mistaken for one of the
second.  One slot is enough for a callback that runs while the timer is set
again; a second one would need the first to be out of date already, and such a
callback can only commit what is held before it gives up.  A start of speech by
the transcripts beside the voice detector's (`sttStart`) doubles the states
beyond what is worth a run; the theorems below include it.  No fairness: all
properties are about steps.  `CHECK_DEADLOCK FALSE`: after two replies nothing is
owed.

### The proofs

`FalseInterruptionProofs` holds for any number of speeches and callbacks and any
`Ops`.  `IInv` is `TypeOK` (with `LockHeld`: who keeps `speechBoundaryMu`),
`TimerHasPause` (a timer that is set has a pause and nobody speaks), `LockQuiet`
(nobody speaks while a callback keeps the lock), and `AllRemember`: who is about
to record a pause, a callback that waits and a turn that will interrupt have the
speech they have read, only the later steps of a committed turn remember a pause
that the turn has taken, and a listener that goes on to the timer is on its way.

Every step is shown to be `Sound`: it keeps `IInv` and is no exception to the
three action properties but those they name.  A step that only moves its
goroutine is sound if the goroutine still sets the timer it would have set and
resolves the output it would have resolved (`PlainStep`); `LockQuiet` is what
`TimerResume` needs, since its check of the user is two steps back.
Theorems: `TypeCorrect`, `TimerBound`, `NeverOverUser`, `AllAttended`,
`KnownOrphans`.  All properties of the runs that pass are proved.


## 6. Room output

### The model

`RoomOutput` is the audio output of a room with the replies that play into it.
An action is one critical section of the output's mutex, or one wait.

| code | actions |
|---|---|
| the loop of a reply (`playTTSGenerationWithTranscript`, `consumeRealtimeMessage`, the audio events) | `StreamEnds`, `Discard`, `LoopCancelled` |
| `PublishAudio` and what it calls | `BeginPublication`, `SubscriptionReady`, `CheckPaused`, `HeldReleased`, `HeldCancelled`, `Write` |
| `Flush`, `ClearBuffer`, `finishPlayback` | `FlushTail`, `Finish`; `ClearBuffer` |
| `WaitForPlayout` and its callers | `Await`, `AwaitAgain`, `AwaitCancelled`, `CheckInterrupted` |
| `Shutdown`, `BeginShutdown` | `ShutdownPublications`, `PublicationsDrained`, `ShutdownDrops`, `CloseResources` |
| `PauseAudioOutput`, `ResumeAudioOutput` | the same names |
| interruption, its watcher, a stopped activity | `Interrupt`, `CancelReply`, `StopActivity` |

`Kinds` says what the replies are: those of a pipeline agent, or one of a
realtime agent with the audio events of its session beside it.

### The runs

`room_audio` (two replies of one frame, both sorts of agent, all operations,
291,000 distinct states):

* `WaitsAnswered`: nobody waits in vain.  Who is listed as held is held,
  unanswered, and the output is paused: no resume, drop or cancellation between
  the look and the wait is lost (`HeldByPause`).  Who is listed as waiting for a
  playout waits for a segment that is still to be finished
  (`WaitsForOpenSegment`), and in a pipeline agent some reply is still going to
  flush or clear it.  A Shutdown that waits for publications has some inside.
* `NoSegmentLeftOpen`: when pipeline replies are over, however they ended and
  overlapped, no segment is left open for the next to be taken for.
* `EncoderOutlivesPublications`: Shutdown closes the encoder under no
  publication, unless it gave up waiting (`forced`).
* `RepliesEnd`, `ShutdownReturns`: pipeline replies end and Shutdown returns,
  the latter within its context if it has one.  Both assume an output that does
  not stay paused for ever: a paused reply waits by design, and a Shutdown with
  no deadline waits for it before it drops what is held.

`realtime_playout` ends in a violation, see Findings.

Bounds: with one frame a reply already goes through the gate, its first write
and its tail; more frames repeat the loop.  Two replies overlap in one segment.
One Shutdown: later callers wait for the first.
Fairness: a reply's goroutine or the one that watches for its interruption takes
a step when it can, and so does Shutdown; pauses, resumes, interrupts, stops and
disconnections are never owed.  `CHECK_DEADLOCK FALSE`: replies that are over
and a closed room stop.

### The proofs

`RoomOutputProofs` holds for any finite set of replies of any kinds and any
number of frames.  `IInv` adds to `TypeOK`, `HeldByPause` and
`WaitsForOpenSegment`: `DrainedIsEmpty` (`publicationActive` is the number of
replies inside the gate, and they are reported drained exactly when the gate is
closed and empty), `AnsweredIsHeld`, `ClosedInOrder` (the encoder is closed by a
Shutdown that saw them drained or gave up), and `Owed` (an open segment of
pipeline replies has one that is still going to flush or clear), without which
`NoSegmentLeftOpen` says nothing about the steps before the end.  Theorems:
`TypeCorrect`, `PublicationsCounted`, `PauseHolds` (`HeldByPause`),
`PlayoutAwaited` (`WaitsForOpenSegment`), `SegmentsFinished`, `EncoderLast`.

`NobodyWaitsInVain` (`[]WaitsAnswered`) puts them together.  `WaitBounds` is what
they lack: a playout is waited for up to a segment that has been opened, so
that a waiter whose segment is unfinished waits for the open one, and only a
Shutdown that has closed the gate waits for publications, so that
`DrainedIsEmpty` leaves it somebody to wait for.  In a realtime agent the reply
that is to finish the segment is missing, which is the finding below.

Only model-checked: `RepliesEnd` and `ShutdownReturns`, which are liveness.


## 7. Findings

Shown by a run that ends in a violation:

* **Two offers are admitted into one place** (`worker_admission`): the load
  check and the reservation are two critical sections, and offers are answered
  concurrently.  Through the same gap a Drain can return before an admitted
  request is answered.
* **A committed turn leaves the output paused** (`false_commit`): the turn looks
  for the pause (`agent_activity.go:3711`) before an onset or a transcript has
  recorded it, or while a callback of the timer has taken it; it interrupts the
  speech, and nobody resumes the output.
* **A realtime reply waits for a playout that does not end**
  (`realtime_playout`): it waits for its segment (`multimodal_agent.go:935`), but
  only `Flush`, `ClearBuffer` and `Shutdown` finish one, and no realtime code
  flushes.

Seen in the code while modelling, contained in the models, without a run:

* **A tool reply can speak beside a scheduled speech**: between the end of
  `WaitForInactive` (`pipeline_agent.go:1588`) and `resumeSpeechStep` (1603) a new
  speech can take the turn; an interrupt of the activity then does not reach the
  tool reply, which `pipeline_agent_test.go:5533` calls a failure.
  `FirstStepHoldsTurn` is therefore about first steps.
* **A speech can be accepted at the end of a drain** (`agent_activity.go:1841`):
  `Drain` ends the refusal of new speeches and pauses the queue in two critical
  sections.
* **A speech that timed out in the queue stops the queue** (1506): `processQueue`
  takes it, finds it done and returns without looking at the next.
* **A speech of a stopped activity is never done** (1534): the goroutines of its
  reply end without `MarkDone`, so that `AcceptedEnds` excludes stopped
  activities.
* **One wake-up for several waiters** (778): when the user falls silent, one token
  is sent (`agent_activity.go:4415`) although a Drain and replies that come back
  from tools may all wait for it, and `CommitUserTurn` receives from the same
  channel (3434).  Who is overlooked waits on until the next change of the user's
  turn or the end of its context, and a Drain waits for an overlooked reply.
* **A failed interrupt is half done** (709): `interruptHandles` stops at the first
  uninterruptible speech, after it has interrupted those before it.
* **A status can follow a termination** (`server.go:1929`): an entrypoint that
  had succeeded before the termination was marked wakes up by the termination's
  shutdown, wins `finishOnce` and reports after `handleTermination` has returned.
* **Claims and holds outlive a Stop** (`agent_session.go:540`): released in the
  next run, they count that run's down, so that a waiter returns under a claim.
* **Close leaves accepts without timers** (`server_tracing.go:45`): a Drain that
  is polling returns only with its context.
* **Calls that do nothing**: a `closeSoon` during Start, and one called late can
  close the next run (`agent_session.go:2345`); an `UpdateAgent` between Start's
  reading of the agent and its publication (3405); a second Drain of a worker
  (`server.go:1194`).
* **Stop calls back inside the gate** (3692): a pre-close callback that calls
  Stop waits for the gate its own Stop holds, until its context ends.
* **Overlapping replies share a segment** (`room_io.go:2555`): the one that clears
  finishes the segment the other is playing.
* **The tail ignores pause and gate** (`room_io.go:3240`): Flush may write while
  the output is paused and while Shutdown closes the encoder.
* **A publisher may be held after Shutdown has dropped those held** (2602); only
  a resume or its context releases it.

Suspected, and outside the models: `OnPipelineReplyDone` (1607) and the timer's
callback (3170) set the agent's state after they have released the lock; a
preemptive generation may be stored after its turn has committed (4135); a
replacement assistant may start on a stopped session (`agent_session.go:3436`);
two launches of the process pool can pick one idle executor (`ipc/pool.go:140`),
and its Close may wait while clean-ups are added (177); a termination of a
relaunched job may not wait for its entrypoint (`server.go:493`).


## 8. Not modelled

The source has about 203,000 lines, of which the map covers a small share, and
a larger share is not within reach of faithful models.  More than half are the
provider adapters (over sixty, each a client of a provider's protocol), then
the assembly of agents from configuration, the command line, workflows and
prompts, audio and text processing, telemetry: code that translates, where the
protocol that would make a model interesting is the provider's, not the
repository's.  The models cover where goroutines of this code share state.

What is said, heard and played; audio; encoding and input/output are abstracted
everywhere.  Besides:

* of the activity: preemptive generation, turn detection and endpointing, the
  word counts of the barge-in gate and the weave of backchannels (an onset may
  or may not pause), the agent's and user's states, the realtime events;
* of the session: the commit of a user turn and the drain of tools in Stop,
  replacement assistants, tracks, `teardownCh`, recording and timers;
* of the room: input, transcription, tracks and their publication, the samples
  of a frame, playback positions, avatars;
* of the worker: jobs relaunched after a reload, local jobs and the process pool
  that runs them, the connection's retry loop, load sampling.

`PROJECT.json` gives the reason for each component.


## 9. Plan

Done, in the order of the plan: speech scheduling, worker jobs, the session, false
interruption, room output, each with its safety proved.  What would come next:

1. `FallbackAdapter` (STT, TTS, LLM): attempts in order, availability, recovery in
   the background.
2. `ProcPool`: executors, launches with retries, warming, close.  Properties: an
   executor runs at most one job, nothing is alive after Close.
3. `ConnectionPool`, the TTS pacer, endpointing, the remote chat context, the
   bounded dictionary and tokenizer buffers, as small state machines or as
   functions against reference definitions.
4. The composition of `AgentSession` with two instances of `SpeechScheduling` in
   place of its reduced activities, and of `FalseInterruption` with `RoomOutput`.
