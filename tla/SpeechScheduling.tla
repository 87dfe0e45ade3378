-------------------------- MODULE SpeechScheduling --------------------------
(***************************************************************************)
(* The speech queue of an AgentActivity (core/agent/agent_activity.go) and *)
(* the reply goroutines it starts (core/agent/pipeline_agent.go).          *)
(*                                                                         *)
(* Callers schedule, interrupt, pause, resume, drain and stop; the         *)
(* scheduling task, the done callbacks and everyone who waits for          *)
(* inactivity run processQueue, which hands the turn to the next speech;   *)
(* the reply goroutine of a speech generates, runs its tools, waits for    *)
(* the activity to be quiet and comes back with the tool reply.  A step is *)
(* one critical section of queueMu or of a handle's mutex, or one send or  *)
(* receive on a channel.                                                   *)
(***************************************************************************)
EXTENDS SpeechHandle, FiniteSets

CONSTANTS
    Speech,         (* the speeches callers may schedule, each one once    *)
    Uninterruptible,(* those created with AllowInterruptions false         *)
    Priorities,     (* the priorities callers use                          *)
    None,           (* currentSpeech is nil                                *)
    Drainer,        (* the caller of Drain                                 *)
    Ops,            (* what the environment does in this instance          *)
    MaxSteps,       (* bound on the LLM steps of one reply                 *)
    MaxSignals      (* bound on callers between an unlock and its wake-up  *)

AllOps == {"force", "interrupt", "pause", "drain", "expire", "stop", "user",
           "timeoutQueued", "timeoutActive"}

ASSUME SchedulingAssumption ==
    /\ Uninterruptible \subseteq Speech
    /\ Priorities \subseteq Nat
    /\ None \notin Speech
    /\ Drainer \notin Speech
    /\ Ops \subseteq AllOps
    /\ MaxSteps \in Nat \ {0}
    /\ MaxSignals \in Nat \ {0}

VARIABLES
    handle,             (* the SpeechHandle of each speech                 *)
    speechQueue,        (* scheduledSpeech entries not yet taken           *)
    nextSpeechSeq,      (* sequence number of the next entry               *)
    currentSpeech,      (* the speech that has the turn, or None           *)
    schedulingPaused, schedulingDraining, schedulingStarted,
    startedCh,          (* startedCh is closed                             *)
    closed,             (* the activity's context is cancelled             *)
    queueUpdated,       (* a token is in queueUpdatedCh (capacity 1)       *)
    signals,            (* goroutines about to send that token             *)
    task,               (* the scheduling task                             *)
    passes,             (* `go a.processQueue()' goroutines not yet run    *)
    reply,              (* the reply goroutine of each speech              *)
    watcher,            (* the goroutine that waits for each speech's end  *)
    callback,           (* OnPipelineReplyDone as done callback            *)
    waiter,             (* a call of WaitForInactive, per caller           *)
    drain,              (* the call of Drain                               *)
    stop,               (* the call of Stop                                *)
    userActive,         (* user is speaking or a user turn is pending      *)
    userTurnUpdated     (* a token is in userTurnUpdatedCh (capacity 1)    *)

queueVars   == <<speechQueue, nextSpeechSeq, currentSpeech>>
flagVars    == <<schedulingPaused, schedulingDraining, schedulingStarted,
                 startedCh, closed>>
wakeVars    == <<queueUpdated, signals, task, passes>>
threadVars  == <<reply, watcher, callback>>
userVars    == <<userActive, userTurnUpdated>>
callVars    == <<drain, stop, userVars>>
vars == <<handle, queueVars, flagVars, wakeVars, threadVars, waiter, callVars>>

Waiters == Speech \cup {Drainer}
Entries == [speech: Speech, priority: Priorities, seq: Nat]

(* A reply goroutine: not started, in the delay between speeches, entering *)
(* OnSpeechScheduled, generating and playing, running tools, in session.WaitForInactive, authorized for  *)
(* the tool reply but not yet past resumeSpeechStep, before the deferred   *)
(* MarkDone, ended.                                                        *)
ReplyStates == {"none", "delay", "begin", "speak", "tools", "idle", "resume",
                "finish", "over"}
WaiterStates == {"out", "pass", "snapshot", "start", "user", "next",
                 "blocked", "returned"}

NotWaiting == [at |-> "out", todo |-> {}, target |-> None, gen |-> 0]
Entering   == [NotWaiting EXCEPT !.at = "pass"]

TypeOK ==
    /\ handle \in [Speech -> SpeechHandles]
    /\ speechQueue \subseteq Entries
    /\ nextSpeechSeq \in Nat
    /\ currentSpeech \in Speech \cup {None}
    /\ schedulingPaused \in BOOLEAN /\ schedulingDraining \in BOOLEAN
    /\ schedulingStarted \in BOOLEAN /\ startedCh \in BOOLEAN
    /\ closed \in BOOLEAN
    /\ queueUpdated \in BOOLEAN /\ signals \in Nat /\ passes \in Nat
    /\ task \in {"none", "select", "pass", "over"}
    /\ reply \in [Speech -> ReplyStates]
    /\ watcher \in [Speech -> {"none", "waiting", "over"}]
    /\ callback \in [Speech -> {"none", "armed", "due", "over"}]
    /\ waiter \in [Waiters -> [at: WaiterStates, todo: SUBSET Speech,
                               target: Speech \cup {None}, gen: Nat]]
    /\ drain \in {"idle", "waiting", "clear", "done"}
    /\ stop \in {"no", "cancelled", "done"}
    /\ userActive \in BOOLEAN /\ userTurnUpdated \in BOOLEAN

Init ==
    /\ handle = [h \in Speech |-> NewSpeechHandle(h \notin Uninterruptible)]
    /\ speechQueue = {}
    /\ nextSpeechSeq = 0
    /\ currentSpeech = None
    /\ schedulingPaused = FALSE /\ schedulingDraining = FALSE
    /\ schedulingStarted = FALSE /\ startedCh = FALSE
    /\ closed = FALSE
    /\ queueUpdated = FALSE /\ signals = 0 /\ passes = 0
    /\ task = "none"
    /\ reply = [h \in Speech |-> "none"]
    /\ watcher = [h \in Speech |-> "none"]
    /\ callback = [h \in Speech |-> "none"]
    /\ waiter = [w \in Waiters |-> NotWaiting]
    /\ drain = "idle"
    /\ stop = "no"
    /\ userActive = FALSE /\ userTurnUpdated = FALSE

-----------------------------------------------------------------------------
(* processQueue                                                            *)

(* A speech that still holds the turn: neither done nor between steps.     *)
Live(h) == ~handle[h].done /\ ~GenerationSettled(handle[h])

Kept == IF currentSpeech # None /\ Live(currentSpeech)
        THEN currentSpeech ELSE None

(* nextSpeechIndexLocked: the highest priority, and the oldest of those.   *)
IsNextLatest(e) ==
    \A f \in speechQueue :
        f.priority < e.priority \/ (f.priority = e.priority /\ e.seq >= f.seq)

IsNext(e) ==
    \A f \in speechQueue :
        f.priority < e.priority \/ (f.priority = e.priority /\ e.seq <= f.seq)

(* One run of processQueue.  The done callback and the two goroutines are  *)
(* set up after the unlock; nothing can observe a picked speech without    *)
(* them, because AddDoneCallback on a speech that is already done runs the *)
(* callback just as a later MarkDone would.                                *)
ProcessQueue ==
    \/ /\ speechQueue = {} \/ schedulingPaused \/ Kept # None
       /\ currentSpeech' = Kept
       /\ UNCHANGED <<speechQueue, reply, watcher, callback>>
    \/ /\ ~schedulingPaused
       /\ Kept = None
       /\ \E e \in speechQueue :
            /\ IsNext(e)
            /\ speechQueue' = speechQueue \ {e}
            /\ IF handle[e.speech].done
               THEN /\ currentSpeech' = None
                    /\ UNCHANGED <<reply, watcher, callback>>
               ELSE /\ currentSpeech' = e.speech
                    /\ reply' = [reply EXCEPT ![e.speech] = "delay"]
                    /\ watcher' = [watcher EXCEPT ![e.speech] = "waiting"]
                    /\ callback' = [callback EXCEPT ![e.speech] = "armed"]

(* MarkDone of one handle: callbacks still armed are started as goroutines *)
EndSpeech(h) ==
    /\ handle' = [handle EXCEPT ![h] = MarkDone(@)]
    /\ callback' = [callback EXCEPT ![h] = IF @ = "armed" THEN "due" ELSE @]

-----------------------------------------------------------------------------
(* Callers                                                                 *)

(* Each speech is created for one call of ScheduleSpeech.                  *)
Fresh(h) == ~handle[h].scheduled /\ ~handle[h].interrupted

ScheduleSpeechSilent(h, priority, force) ==
    /\ Fresh(h)
    /\ ~schedulingPaused /\ ~schedulingDraining
    /\ speechQueue' = speechQueue \cup
          {[speech |-> h, priority |-> priority, seq |-> nextSpeechSeq]}
    /\ nextSpeechSeq' = nextSpeechSeq + 1
    /\ handle' = [handle EXCEPT ![h] = MarkScheduled(@)]
    /\ UNCHANGED <<currentSpeech, flagVars, wakeVars, threadVars, waiter,
                   callVars>>

ScheduleSpeech(h, priority, force) ==
    /\ Fresh(h)
    /\ force => "force" \in Ops
    /\ IF (schedulingPaused \/ schedulingDraining) /\ ~force
       THEN /\ handle' = [handle EXCEPT ![h] = Interrupt(@, TRUE)]
            /\ UNCHANGED <<speechQueue, nextSpeechSeq, queueUpdated>>
       ELSE /\ speechQueue' = speechQueue \cup
                 {[speech |-> h, priority |-> priority, seq |-> nextSpeechSeq]}
            /\ nextSpeechSeq' = nextSpeechSeq + 1
            /\ queueUpdated' = TRUE
            /\ handle' = [handle EXCEPT ![h] = MarkScheduled(@)]
    /\ UNCHANGED <<currentSpeech, flagVars, signals, task, passes, threadVars,
                   waiter, callVars>>

(* interruptHandles walks the current speech and then the queue in the     *)
(* order of arrival, and gives up at the first one that refuses.           *)
Before(h, g) ==
    \/ h = currentSpeech
    \/ \E e, f \in speechQueue : e.speech = h /\ f.speech = g /\ e.seq < f.seq

Targets == {e.speech : e \in speechQueue}
             \cup (IF currentSpeech = None THEN {} ELSE {currentSpeech})

Interrupted(force) ==
    {h \in Targets :
        /\ ~RefusesInterrupt(handle[h], force)
        /\ \A g \in Targets : RefusesInterrupt(handle[g], force) =>
                                ~Before(g, h)}

InterruptActivity(force) ==
    /\ "interrupt" \in Ops
    /\ handle' = [h \in Speech |-> IF h \in Interrupted(force)
                                   THEN Interrupt(handle[h], force)
                                   ELSE handle[h]]
    /\ UNCHANGED <<queueVars, flagVars, wakeVars, threadVars, waiter, callVars>>

(* SpeechHandle.Interrupt by whoever holds the handle.                     *)
InterruptSpeech(h, force) ==
    /\ "interrupt" \in Ops
    /\ handle[h].scheduled
    /\ handle' = [handle EXCEPT ![h] = Interrupt(@, force)]
    /\ UNCHANGED <<queueVars, flagVars, wakeVars, threadVars, waiter, callVars>>

(* startWithContext, after OnEnter has returned.                           *)
Start ==
    /\ ~startedCh
    /\ schedulingStarted' = TRUE
    /\ startedCh' = TRUE
    /\ task' = "select"
    /\ UNCHANGED <<handle, queueVars, schedulingPaused, schedulingDraining,
                   closed, queueUpdated, signals, passes, threadVars, waiter,
                   callVars>>

(* Lock; flags; unlock; then a non-blocking send, which is Signal.         *)
SetFlags(paused, draining) ==
    /\ signals < MaxSignals
    /\ schedulingPaused' = paused
    /\ schedulingDraining' = draining
    /\ signals' = signals + 1

PauseScheduling ==
    /\ "pause" \in Ops
    /\ SetFlags(TRUE, schedulingDraining)
    /\ UNCHANGED <<handle, queueVars, schedulingStarted, startedCh, closed,
                   queueUpdated, task, passes, threadVars, waiter, callVars>>

ResumeScheduling ==
    /\ "pause" \in Ops
    /\ SetFlags(FALSE, FALSE)
    /\ UNCHANGED <<handle, queueVars, schedulingStarted, startedCh, closed,
                   queueUpdated, task, passes, threadVars, waiter, callVars>>

Signal ==
    /\ signals > 0
    /\ signals' = signals - 1
    /\ queueUpdated' = TRUE
    /\ UNCHANGED <<handle, queueVars, flagVars, task, passes, threadVars,
                   waiter, callVars>>

(* Drain: refuse new speeches, wait for the activity to be inactive, then, *)
(* in two critical sections, stop refusing and pause.                      *)
DrainBegin ==
    /\ "drain" \in Ops
    /\ drain = "idle"
    /\ IF schedulingPaused
       THEN /\ drain' = "done"
            /\ UNCHANGED <<schedulingPaused, schedulingDraining, signals,
                           waiter>>
       ELSE /\ drain' = "waiting"
            /\ SetFlags(schedulingPaused, TRUE)
            /\ waiter' = [waiter EXCEPT ![Drainer] = Entering]
    /\ UNCHANGED <<handle, queueVars, schedulingStarted, startedCh, closed,
                   queueUpdated, task, passes, threadVars, stop, userVars>>

(* WaitForInactive has returned, or its context has ended first.           *)
CallEndsOnlyByReturn(w, cancelled) == waiter[w].at = "returned"

CallEnds(w, cancelled) ==
    \/ waiter[w].at = "returned"
    \/ cancelled /\ waiter[w].at \in {"blocked", "start", "user"}

DrainClear ==
    /\ drain = "waiting"
    /\ CallEnds(Drainer, closed \/ "expire" \in Ops)
    /\ waiter' = [waiter EXCEPT ![Drainer] = NotWaiting]
    /\ schedulingDraining' = FALSE
    /\ drain' = "clear"
    /\ UNCHANGED <<handle, queueVars, schedulingPaused, schedulingStarted,
                   startedCh, closed, wakeVars, threadVars, stop, userVars>>

DrainPause ==
    /\ drain = "clear"
    /\ SetFlags(TRUE, schedulingDraining)
    /\ drain' = "done"
    /\ UNCHANGED <<handle, queueVars, schedulingStarted, startedCh, closed,
                   queueUpdated, task, passes, threadVars, waiter, stop,
                   userVars>>

(* stopActivity: OnExit, cancel the context, then pause for good.          *)
StopCancel ==
    /\ "stop" \in Ops
    /\ startedCh
    /\ stop = "no"
    /\ stop' = "cancelled"
    /\ closed' = TRUE
    /\ UNCHANGED <<handle, queueVars, schedulingPaused, schedulingDraining,
                   schedulingStarted, startedCh, wakeVars, threadVars, waiter,
                   drain, userVars>>

StopPause ==
    /\ stop = "cancelled"
    /\ SetFlags(TRUE, FALSE)
    /\ schedulingStarted' = FALSE
    /\ stop' = "done"
    /\ UNCHANGED <<handle, queueVars, startedCh, closed, queueUpdated, task,
                   passes, threadVars, waiter, drain, userVars>>

(* The user speaks, is transcribed or falls silent: the state is set, then *)
(* notifyUserTurnUpdated sends, unless the channel is full.  One step:     *)
(* who looks at the state in between sees what he would see after it.      *)
UserTurn ==
    /\ "user" \in Ops
    /\ userActive' \in BOOLEAN
    /\ userTurnUpdated' = TRUE
    /\ UNCHANGED <<handle, queueVars, flagVars, wakeVars, threadVars, waiter,
                   drain, stop>>

(* CommitUserTurn, waiting for a transcript, receives from the same channel*)
CommitUserTurn ==
    /\ "user" \in Ops
    /\ userTurnUpdated
    /\ userTurnUpdated' = FALSE
    /\ UNCHANGED <<handle, queueVars, flagVars, wakeVars, threadVars, waiter,
                   drain, stop, userActive>>

-----------------------------------------------------------------------------
(* Goroutines that run processQueue                                        *)

(* schedulingTask receives the token and then runs processQueue; once the  *)
(* context is cancelled its select may choose to end instead.              *)
TaskReceive ==
    /\ task = "select"
    /\ queueUpdated
    /\ queueUpdated' = FALSE
    /\ task' = "pass"
    /\ UNCHANGED <<handle, queueVars, flagVars, signals, passes, threadVars,
                   waiter, callVars>>

TaskEnd ==
    /\ task = "select"
    /\ closed
    /\ task' = "over"
    /\ UNCHANGED <<handle, queueVars, flagVars, queueUpdated, signals, passes,
                   threadVars, waiter, callVars>>

TaskPass ==
    /\ task = "pass"
    /\ ProcessQueue
    /\ task' = "select"
    /\ UNCHANGED <<handle, nextSpeechSeq, flagVars, queueUpdated, signals,
                   passes, waiter, callVars>>

Pass ==
    /\ passes > 0
    /\ ProcessQueue
    /\ passes' = passes - 1
    /\ UNCHANGED <<handle, nextSpeechSeq, flagVars, queueUpdated, signals,
                   task, waiter, callVars>>

(* OnPipelineReplyDone.                                                    *)
OnPipelineReplyDone(h) ==
    /\ callback[h] = "due"
    /\ callback' = [callback EXCEPT ![h] = "over"]
    /\ currentSpeech' = IF currentSpeech = h /\ handle[h].done
                        THEN None ELSE currentSpeech
    /\ passes' = IF schedulingStarted THEN passes + 1 ELSE passes
    /\ UNCHANGED <<handle, speechQueue, nextSpeechSeq, flagVars, queueUpdated,
                   signals, task, reply, watcher, waiter, callVars>>

(* The goroutine started by processQueue that waits on doneCh.             *)
Watch(h) ==
    /\ watcher[h] = "waiting"
    /\ handle[h].done
    /\ watcher' = [watcher EXCEPT ![h] = "over"]
    /\ currentSpeech' = IF currentSpeech = h THEN None ELSE currentSpeech
    /\ signals' = signals + 1
    /\ UNCHANGED <<handle, speechQueue, nextSpeechSeq, flagVars, queueUpdated,
                   task, passes, reply, callback, waiter, callVars>>

-----------------------------------------------------------------------------
(* The reply goroutine                                                     *)

(* The delay between speeches is over, or the context or the speech ended  *)
(* first; OnSpeechScheduled then authorizes the first generation (of a     *)
(* speech that may have ended since) and looks for an interrupt.           *)
ReplySkip(h) ==
    /\ reply[h] = "delay"
    /\ closed \/ handle[h].done
    /\ reply' = [reply EXCEPT ![h] = "over"]
    /\ UNCHANGED <<handle, queueVars, flagVars, wakeVars, watcher, callback,
                   waiter, callVars>>

ReplyEnter(h) ==
    /\ reply[h] = "delay"
    /\ ~handle[h].done
    /\ reply' = [reply EXCEPT ![h] = "begin"]
    /\ UNCHANGED <<handle, queueVars, flagVars, wakeVars, watcher, callback,
                   waiter, callVars>>

ReplyBegin(h) ==
    /\ reply[h] = "begin"
    /\ handle' = [handle EXCEPT ![h] = AuthorizeGeneration(@)]
    /\ reply' = [reply EXCEPT ![h] = IF handle[h].interrupted
                                     THEN "finish" ELSE "speak"]
    /\ UNCHANGED <<queueVars, flagVars, wakeVars, watcher, callback, waiter,
                   callVars>>

(* Generation, synthesis and playout are over and committed.               *)
ReplySettle(h) ==
    /\ reply[h] = "speak"
    /\ handle' = [handle EXCEPT ![h] = MarkGenerationDone(@)]
    /\ reply' = [reply EXCEPT ![h] = "tools"]
    /\ UNCHANGED <<queueVars, flagVars, wakeVars, watcher, callback, waiter,
                   callVars>>

(* A provider failed or the reply was cancelled: an early return; or the   *)
(* step had no tools to answer for (a Say never has).                      *)
ReplyGiveUp(h) ==
    /\ reply[h] \in {"speak", "tools"}
    /\ reply' = [reply EXCEPT ![h] = "finish"]
    /\ UNCHANGED <<handle, queueVars, flagVars, wakeVars, watcher, callback,
                   waiter, callVars>>

(* The tools returned and a reply is required: wait for inactivity.        *)
ReplyToolsDone(h) ==
    /\ reply[h] = "tools"
    /\ ~handle[h].interrupted
    /\ handle[h].steps < MaxSteps
    /\ reply' = [reply EXCEPT ![h] = "idle"]
    /\ waiter' = [waiter EXCEPT ![h] = Entering]
    /\ UNCHANGED <<handle, queueVars, flagVars, wakeVars, watcher, callback,
                   callVars>>

(* The wait is over.  The reply's context ends with the activity's or with *)
(* an interrupt; an interrupted reply gives up, another one takes the next *)
(* step and is authorized to generate again.  (No timeout can come between *)
(* the look at interruptCh and the authorization: it is five seconds away.)*)
ReplyContinue(h) ==
    /\ reply[h] = "idle"
    /\ CallEnds(h, closed \/ handle[h].interrupted)
    /\ waiter' = [waiter EXCEPT ![h] = NotWaiting]
    /\ IF waiter[h].at = "returned" /\ ~handle[h].interrupted
       THEN /\ handle' = [handle EXCEPT ![h] =
                            AuthorizeGeneration(IncrementStep(@))]
            /\ reply' = [reply EXCEPT ![h] = "resume"]
       ELSE /\ reply' = [reply EXCEPT ![h] = "finish"]
            /\ UNCHANGED handle
    /\ UNCHANGED <<queueVars, flagVars, wakeVars, watcher, callback, callVars>>

(* resumeSpeechStep: take the turn back unless another speech has it.      *)
ReplyResumeSeizes(h) ==
    /\ reply[h] = "resume"
    /\ currentSpeech' = h
    /\ reply' = [reply EXCEPT ![h] = "speak"]
    /\ UNCHANGED <<handle, speechQueue, nextSpeechSeq, flagVars, wakeVars,
                   watcher, callback, waiter, callVars>>

ReplyResume(h) ==
    /\ reply[h] = "resume"
    /\ currentSpeech' = IF Kept = None THEN h ELSE currentSpeech
    /\ reply' = [reply EXCEPT ![h] = "speak"]
    /\ UNCHANGED <<handle, speechQueue, nextSpeechSeq, flagVars, wakeVars,
                   watcher, callback, waiter, callVars>>

(* The deferred MarkDone of OnSpeechScheduled.                             *)
ReplyFinish(h) ==
    /\ reply[h] = "finish"
    /\ EndSpeech(h)
    /\ reply' = [reply EXCEPT ![h] = "over"]
    /\ UNCHANGED <<queueVars, flagVars, wakeVars, watcher, waiter, callVars>>

(* InterruptionTimeout has passed since the interrupt.                     *)
Queued(h) == \E e \in speechQueue : e.speech = h

TimeoutFires(h) ==
    /\ handle[h].timer
    /\ Queued(h) => "timeoutQueued" \in Ops
    /\ reply[h] # "none" => "timeoutActive" \in Ops
    /\ EndSpeech(h)
    /\ UNCHANGED <<queueVars, flagVars, wakeVars, reply, watcher, waiter,
                   callVars>>

-----------------------------------------------------------------------------
(* WaitForInactive                                                         *)

WaiterPass(w) ==
    /\ waiter[w].at = "pass"
    /\ ProcessQueue
    /\ waiter' = [waiter EXCEPT ![w].at = "snapshot"]
    /\ UNCHANGED <<handle, nextSpeechSeq, flagVars, wakeVars, callVars>>

(* activeSpeechHandles.                                                    *)
ActiveSpeechNoQueue == {h \in Speech : h = currentSpeech /\ Live(h)}

ActiveSpeechNilToo ==
    {currentSpeech} \cup {h \in Speech : Queued(h) /\ ~handle[h].done}

ActiveSpeech ==
    {h \in Speech : h = currentSpeech /\ Live(h)}
      \cup {h \in Speech : Queued(h) /\ ~handle[h].done}

(* With nothing active, waits in turn for the start of the activity (but   *)
(* Drain does not) and for the user; only then does it return.             *)
WaiterSnapshot(w) ==
    /\ waiter[w].at = "snapshot"
    /\ waiter' = [waiter EXCEPT ![w] =
         [@ EXCEPT !.todo = ActiveSpeech,
                   !.at = IF ActiveSpeech # {} THEN "next"
                          ELSE IF ~startedCh /\ w # Drainer THEN "start"
                          ELSE IF userActive THEN "user" ELSE "returned"]]
    /\ UNCHANGED <<handle, queueVars, flagVars, wakeVars, threadVars, callVars>>

(* The activity has started, which all may see; or this waiter is the one  *)
(* that receives what notifyUserTurnUpdated has sent.                      *)
WaiterWoken(w) ==
    /\ \/ waiter[w].at = "start" /\ startedCh /\ UNCHANGED userTurnUpdated
       \/ waiter[w].at = "user" /\ userTurnUpdated /\ userTurnUpdated' = FALSE
    /\ waiter' = [waiter EXCEPT ![w] = Entering]
    /\ UNCHANGED <<handle, queueVars, flagVars, wakeVars, threadVars, drain,
                   stop, userActive>>

(* The next speech of the snapshot: the generation to wait for is read     *)
(* now, and is the nil channel if the speech has not been authorized yet.  *)
WaiterNext(w) ==
    /\ waiter[w].at = "next"
    /\ \/ /\ waiter[w].todo = {}
          /\ waiter' = [waiter EXCEPT ![w] = Entering]
       \/ \E h \in waiter[w].todo :
            waiter' = [waiter EXCEPT ![w] =
                         [at |-> "blocked", todo |-> @.todo \ {h},
                          target |-> h, gen |-> handle[h].gens]]
    /\ UNCHANGED <<handle, queueVars, flagVars, wakeVars, threadVars, callVars>>

(* The select returned (for good: closed channels stay closed) and         *)
(* processQueue runs.                                                      *)
WaiterProceeds(w) ==
    /\ waiter[w].at = "blocked"
    /\ LET s == handle[waiter[w].target]
       IN s.done \/ GenerationClosed(s, waiter[w].gen)
    /\ ProcessQueue
    /\ waiter' = [waiter EXCEPT ![w] =
                    [@ EXCEPT !.at = "next", !.target = None, !.gen = 0]]
    /\ UNCHANGED <<handle, nextSpeechSeq, flagVars, wakeVars, callVars>>

-----------------------------------------------------------------------------
Caller ==
    \/ \E h \in Speech, p \in Priorities, force \in BOOLEAN :
          ScheduleSpeech(h, p, force)
    \/ \E force \in BOOLEAN : InterruptActivity(force)
    \/ \E h \in Speech, force \in BOOLEAN : InterruptSpeech(h, force)
    \/ PauseScheduling \/ ResumeScheduling
    \/ DrainBegin \/ StopCancel \/ UserTurn \/ CommitUserTurn

Runner ==
    \/ Start \/ Signal \/ TaskReceive \/ TaskEnd \/ TaskPass \/ Pass
    \/ DrainClear \/ DrainPause \/ StopPause

Reply(h) ==
    \/ ReplySkip(h) \/ ReplyEnter(h) \/ ReplyBegin(h)
    \/ ReplySettle(h) \/ ReplyGiveUp(h) \/ ReplyToolsDone(h)
    \/ ReplyContinue(h) \/ ReplyResume(h) \/ ReplyFinish(h)

Ending(h) == Watch(h) \/ OnPipelineReplyDone(h) \/ TimeoutFires(h)

Waiting(w) ==
    \/ WaiterPass(w) \/ WaiterSnapshot(w) \/ WaiterWoken(w) \/ WaiterNext(w)
    \/ WaiterProceeds(w)

Next ==
    \/ Caller
    \/ Runner
    \/ \E h \in Speech : Reply(h) \/ Ending(h)
    \/ \E w \in Waiters : Waiting(w)

Spec == Init /\ [][Next]_vars

(* Every goroutine the code starts gets to run, a timer that is armed      *)
(* fires, and a generation, its playout and its tools end (the providers   *)
(* have deadlines of their own).  Callers owe nothing.                     *)
Fairness ==
    /\ WF_vars(Start) /\ WF_vars(Signal)
    /\ WF_vars(TaskReceive \/ TaskPass) /\ WF_vars(Pass)
    /\ WF_vars(DrainClear) /\ WF_vars(DrainPause) /\ WF_vars(StopPause)
    /\ \A h \in Speech : /\ WF_vars(Reply(h))
                         /\ WF_vars(Watch(h))
                         /\ WF_vars(OnPipelineReplyDone(h))
                         /\ WF_vars(TimeoutFires(h))
    /\ \A w \in Waiters : WF_vars(Waiting(w))

FairSpec == Spec /\ Fairness

-----------------------------------------------------------------------------
(* Properties                                                              *)

(* Taken from the queue, and in its first step: not done, not settled.     *)
FirstStep(h) == reply[h] # "none" /\ handle[h].gens <= 1 /\ Live(h)

(* processQueue and resumeSpeechStep: a speech in its first step holds the *)
(* turn, so two scheduled speeches never generate and play at once unless  *)
(* one of them is the tool reply of an earlier step.                       *)
FirstStepHoldsTurn == \A h \in Speech : FirstStep(h) => currentSpeech = h

(* ScheduleSpeech and processQueue: seen from outside, the queue hands out *)
(* one turn at a time, by priority and then by arrival.                    *)
Turns == INSTANCE SpeechTurns WITH
             arrivals <- nextSpeechSeq,
             waiting  <- speechQueue,
             turn     <- {h \in Speech : FirstStep(h)}

TakesTurns == Turns!Spec

(* AuthorizeGeneration and MarkDone: only the newest generation can be     *)
(* open, and none is once the reply goroutine has ended, so that nobody    *)
(* blocked in WaitForGeneration or WaitForInactive waits for a channel     *)
(* that will never be closed.                                              *)
GenerationsClose ==
    \A h \in Speech : /\ handle[h].open \subseteq {handle[h].gens}
                      /\ reply[h] = "over" => handle[h].open = {}

(* queueUpdatedCh: while the scheduling task is idle, a speech that could  *)
(* have the turn has either a run of processQueue on its way to it or an   *)
(* unfinished speech whose end will start one.                             *)
WakeUpPending ==
    \/ queueUpdated \/ signals > 0 \/ passes > 0
    \/ \E h \in Speech : watcher[h] = "waiting"

NoLostWakeUp ==
    (/\ task = "select" /\ ~closed /\ ~schedulingPaused
     /\ Kept = None
     /\ \E e \in speechQueue : ~handle[e.speech].done) => WakeUpPending

(* WaitForInactive: replies that come back from tools wait for one another *)
(* and for what is queued, and Drain waits for them all.  They are never   *)
(* all blocked on each other: one waits for a speech that is not itself    *)
(* blocked and whose reply, if it has one, goes on, unless the activity is *)
(* stopped, which cancels the waits.                                       *)
Blocked(w) ==
    /\ waiter[w].at = "blocked"
    /\ ~handle[waiter[w].target].done
    /\ ~GenerationClosed(handle[waiter[w].target], waiter[w].gen)

NoCircularWait ==
    LET blocked == {w \in Waiters : Blocked(w)}
    IN blocked # {} =>
         \E w \in blocked : /\ waiter[w].target \notin blocked
                            /\ reply[waiter[w].target] = "over" => closed

(* Drain: once its WaitForInactive has returned, and as long as speeches   *)
(* are refused, no speech is left waiting in the queue.                    *)
DrainLeavesNoneQueued ==
    waiter[Drainer].at = "returned" /\ schedulingDraining =>
        \A e \in speechQueue : handle[e.speech].done

(* ScheduleSpeech .. MarkDone: a speech accepted by the queue ends, unless *)
(* the activity is stopped (stopActivity leaves what is queued as it is).  *)
AcceptedEnds ==
    \A h \in Speech :
        handle[h].scheduled ~> handle[h].done \/ stop # "no"

(* Interrupt and InterruptionTimeout: an interrupted speech ends, wherever *)
(* it is, paused, drained or stopped as the activity may be.               *)
InterruptedEnds ==
    \A h \in Speech : handle[h].interrupted ~> handle[h].done

(* Stop: the reply goroutines of a stopped activity come to an end.        *)
StopEndsReplies ==
    stop = "done" ~> \A h \in Speech : reply[h] \in {"none", "over"}

(* Waits for a user who is quiet already, and nothing is there to receive. *)
Overlooked(w) == waiter[w].at = "user" /\ ~userActive /\ ~userTurnUpdated

(* userTurnUpdatedCh: a waiter is overlooked only if another one, or       *)
(* CommitUserTurn, has received the one wake-up in its place.              *)
WakeUpTaken ==
    [][\A w \in Waiters : Overlooked(w)' /\ ~Overlooked(w) =>
          CommitUserTurn \/ \E v \in Waiters \ {w} : WaiterWoken(v)]_vars

(* Drain returns, provided the user falls silent for good and, from some   *)
(* time on, no wake-up is taken from Drain or from a reply it waits for.   *)
DrainReturns ==
    /\ WakeUpTaken
    /\ <>[](~userActive /\ \A w \in Waiters : ~Overlooked(w))
         => (drain = "waiting" ~> drain = "done")
=============================================================================
