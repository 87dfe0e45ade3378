------------------------- MODULE SpeechWakeUpProofs -------------------------
(***************************************************************************)
(* No wake-up of the scheduling task is lost, and a drain has seen a queue *)
(* without unfinished speeches: for every set of speeches and priorities   *)
(* and every bound.                                                        *)
(***************************************************************************)
EXTENDS SpeechSchedulingProofs

-----------------------------------------------------------------------------
(* What a handle that ends must have been through.                         *)

Sane(s) == /\ s.done => s.scheduled \/ s.interrupted
           /\ s.timer => s.interrupted

SaneHandles == \A h \in Speech : Sane(handle[h])

(* No method ends a handle but MarkDone, and only Interrupt arms a timer.  *)
LEMMA SaneOps ==
    ASSUME NEW s \in SpeechHandles, NEW force \in BOOLEAN, Sane(s)
    PROVE  /\ Sane(Interrupt(s, force))
           /\ Sane(MarkScheduled(s))
           /\ Sane(MarkGenerationDone(s))
           /\ Sane(AuthorizeGeneration(s))
           /\ Sane(AuthorizeGeneration(IncrementStep(s)))
           /\ s.scheduled \/ s.interrupted => Sane(MarkDone(s))
<1> USE DEF Sane
<1>1. Sane(Interrupt(s, force))
  BY DEF Interrupt, SpeechHandles
<1>2. Sane(MarkScheduled(s))
  BY DEF MarkScheduled, SpeechHandles
<1>3. Sane(MarkGenerationDone(s))
  BY DEF MarkGenerationDone, CloseGeneration, SpeechHandles
<1>4. Sane(AuthorizeGeneration(s))
  BY DEF AuthorizeGeneration, SpeechHandles
<1>5. Sane(AuthorizeGeneration(IncrementStep(s)))
  BY DEF AuthorizeGeneration, IncrementStep, SpeechHandles
<1>6. s.scheduled \/ s.interrupted => Sane(MarkDone(s))
  BY DEF MarkDone, CloseGeneration, SpeechHandles
<1>7. QED
  BY <1>1, <1>2, <1>3, <1>4, <1>5, <1>6

-----------------------------------------------------------------------------
(* Wake-ups.                                                               *)

(* A queued speech could end only by the time-out of an interrupt.         *)
QueuedUnfinished == \A e \in speechQueue : ~handle[e.speech].done

(* processQueue starts a goroutine for a speech it picks, which waits      *)
(* until the speech is done.                                               *)
TakenIsWatched ==
    \A h \in Speech : reply[h] # "none" /\ ~handle[h].done =>
                        watcher[h] = "waiting"

(* The scheduling task sleeps, or is about to, although speeches wait.     *)
Asleep == task # "pass" /\ ~schedulingPaused /\ speechQueue # {}

WakeInv ==
    /\ SaneHandles
    /\ QueuedUnfinished
    /\ TakenIsWatched
    /\ Asleep => WakeUpPending

(* A run of processQueue leaves no speech in the queue, or leaves somebody *)
(* in turn whose end is watched.                                           *)
LEMMA ProcessQueueWake ==
    ASSUME TurnInv, WakeInv, ProcessQueue, UNCHANGED <<handle, schedulingPaused>>
    PROVE  WakeInv'
<1>a. TypeOK
  BY DEF TurnInv
<1>b. SaneHandles'
  BY DEF WakeInv, SaneHandles
<1>1. CASE /\ speechQueue = {} \/ schedulingPaused \/ Kept # None
           /\ UNCHANGED <<speechQueue, reply, watcher>>
  <2>1. Kept # None => watcher[currentSpeech] = "waiting" /\ currentSpeech \in Speech
    BY <1>a DEF Kept, Live, WakeInv, TakenIsWatched, TurnInv, TurnIsTaken, TypeOK
  <2>2. Asleep' => WakeUpPending'
    BY <1>1, <2>1 DEF Asleep, WakeUpPending
  <2>3. QED
    BY <1>1, <1>b, <2>2 DEF WakeInv, QueuedUnfinished, TakenIsWatched
<1>2. ASSUME NEW e \in speechQueue, speechQueue' = speechQueue \ {e},
             reply' = [reply EXCEPT ![e.speech] = "delay"],
             watcher' = [watcher EXCEPT ![e.speech] = "waiting"]
      PROVE  WakeInv'
  <2>1. /\ e.speech \in Speech
        /\ reply \in [Speech -> ReplyStates]
        /\ watcher \in [Speech -> {"none", "waiting", "over"}]
    BY <1>a DEF TypeOK, Entries
  <2>2. TakenIsWatched'
    BY <1>2, <2>1 DEF WakeInv, TakenIsWatched
  <2>3. QueuedUnfinished'
    BY <1>2 DEF WakeInv, QueuedUnfinished
  <2>4. WakeUpPending'
    BY <1>2, <2>1 DEF WakeUpPending
  <2>5. QED
    BY <1>b, <2>2, <2>3, <2>4 DEF WakeInv
<1>3. \A e \in speechQueue : ~handle[e.speech].done
  BY DEF WakeInv, QueuedUnfinished
<1>4. QED
  BY <1>1, <1>2, <1>3 DEF ProcessQueue

(* A step that takes nothing from the queue, ends no queued speech, and    *)
(* neither puts the task to sleep nor takes a wake-up away.                *)
LEMMA OtherWake ==
    ASSUME WakeInv, SaneHandles', UNCHANGED <<speechQueue, watcher>>,
           \A h \in Speech : /\ reply'[h] # "none" => reply[h] # "none"
                             /\ handle[h].done => handle'[h].done
                             /\ handle'[h].done => handle[h].done \/ ~Queued(h),
           speechQueue \subseteq Entries,
           Asleep' => Asleep \/ WakeUpPending',
           WakeUpPending => WakeUpPending'
    PROVE  WakeInv'
<1>1. QueuedUnfinished'
  BY DEF WakeInv, QueuedUnfinished, Queued, Entries
<1>2. TakenIsWatched'
  BY DEF WakeInv, TakenIsWatched
<1>3. QED
  BY <1>1, <1>2 DEF WakeInv

(* In particular one that leaves the handles, the wake-ups and the task.   *)
LEMMA NoFlagWake ==
    ASSUME TypeOK, WakeInv, SaneHandles',
           UNCHANGED <<speechQueue, watcher, task, schedulingPaused,
                       queueUpdated, signals, passes>>,
           \A h \in Speech : /\ reply'[h] # "none" => reply[h] # "none"
                             /\ handle[h].done => handle'[h].done
                             /\ handle'[h].done => handle[h].done \/ ~Queued(h)
    PROVE  WakeInv'
<1>1. Asleep' => Asleep
  BY DEF Asleep
<1>2. WakeUpPending => WakeUpPending'
  BY DEF WakeUpPending
<1>3. QED
  BY <1>1, <1>2, OtherWake DEF TypeOK

(* ScheduleSpeech sends the token when it has accepted a speech.           *)
LEMMA ScheduleSpeechWake ==
    ASSUME TurnInv, WakeInv, NEW h \in Speech, NEW p \in Priorities,
           NEW force \in BOOLEAN, ScheduleSpeech(h, p, force)
    PROVE  WakeInv'
<1>a. TypeOK /\ handle \in [Speech -> SpeechHandles]
      /\ handle[h] \in SpeechHandles /\ Sane(handle[h])
  BY DEF TurnInv, TypeOK, WakeInv, SaneHandles
<1>b. UNCHANGED <<reply, watcher, task, schedulingPaused, signals, passes>>
  BY Zenon DEF ScheduleSpeech, threadVars, flagVars
<1>c. ~handle[h].scheduled /\ ~handle[h].interrupted
  BY Zenon DEF ScheduleSpeech, Fresh
<1>1. CASE /\ handle' = [handle EXCEPT ![h] = Interrupt(@, TRUE)]
           /\ UNCHANGED <<speechQueue, queueUpdated>>
  <2>1. /\ Sane(Interrupt(handle[h], TRUE))
        /\ Interrupt(handle[h], TRUE).done = handle[h].done
    BY <1>a, SaneOps, InterruptSame, Zenon
  <2>2. SaneHandles'
    BY <1>1, <1>a, <2>1 DEF SaneHandles, WakeInv
  <2>3. \A g \in Speech : handle'[g].done = handle[g].done
    BY <1>1, <1>a, <2>1
  <2>4. QED
    BY <1>1, <1>a, <1>b, <2>2, <2>3, NoFlagWake
<1>2. CASE /\ handle' = [handle EXCEPT ![h] = MarkScheduled(@)]
           /\ speechQueue' = speechQueue \cup
                 {[speech |-> h, priority |-> p, seq |-> nextSpeechSeq]}
           /\ queueUpdated' = TRUE
  <2>1. Sane(MarkScheduled(handle[h])) /\ ~handle[h].done
    BY <1>a, <1>c, SaneOps DEF Sane
  <2>2. SaneHandles'
    BY <1>2, <1>a, <2>1 DEF SaneHandles, WakeInv
  <2>3. \A g \in Speech : handle'[g].done = handle[g].done
    BY <1>2, <1>a DEF MarkScheduled, SpeechHandles
  <2>4. QueuedUnfinished'
    BY <1>2, <1>a, <2>1, <2>3 DEF WakeInv, QueuedUnfinished, TypeOK, Entries
  <2>5. TakenIsWatched'
    BY <1>b, <2>3 DEF WakeInv, TakenIsWatched
  <2>6. QED
    BY <1>2, <2>2, <2>4, <2>5 DEF WakeInv, WakeUpPending
<1>3. QED
  BY <1>1, <1>2, Zenon DEF ScheduleSpeech

(* A step that changes no handle, no goroutine of a speech and not the     *)
(* queue, with a wake-up on its way afterwards or nothing else changed.    *)
LEMMA FlagWake ==
    ASSUME WakeInv, UNCHANGED <<handle, speechQueue, reply, watcher>>,
           Asleep' => WakeUpPending'
    PROVE  WakeInv'
BY DEF WakeInv, SaneHandles, QueuedUnfinished, TakenIsWatched

(* The other callers. *)
LEMMA CallerWake ==
    ASSUME TurnInv, WakeInv, Caller
    PROVE  WakeInv'
<1>a. TypeOK /\ handle \in [Speech -> SpeechHandles]
  BY DEF TurnInv, TypeOK
<1>1. ASSUME NEW force \in BOOLEAN,
             \A g \in Speech : \/ handle'[g] = handle[g]
                               \/ handle'[g] = Interrupt(handle[g], force),
             UNCHANGED <<queueVars, flagVars, wakeVars, threadVars>>
      PROVE  WakeInv'
  <2>1. ASSUME NEW g \in Speech
        PROVE  Sane(handle'[g]) /\ handle'[g].done = handle[g].done
    <3>1. handle[g] \in SpeechHandles /\ Sane(handle[g])
      BY <1>a DEF WakeInv, SaneHandles
    <3>2. /\ Sane(Interrupt(handle[g], force))
          /\ Interrupt(handle[g], force).done = handle[g].done
      BY <3>1, SaneOps, InterruptSame, Zenon
    <3>3. QED
      BY <1>1, <3>1, <3>2
  <2>2. SaneHandles'
    BY <2>1 DEF SaneHandles
  <2>3. QED
    BY <1>1, <1>a, <2>1, <2>2, NoFlagWake
       DEF queueVars, flagVars, wakeVars, threadVars
<1>2. ASSUME NEW force \in BOOLEAN, InterruptActivity(force)
      PROVE  WakeInv'
  <2>1. ASSUME NEW g \in Speech
        PROVE  handle'[g] = handle[g] \/ handle'[g] = Interrupt(handle[g], force)
    BY <1>2 DEF InterruptActivity
  <2>2. QED
    BY <1>1, <1>2, <2>1 DEF InterruptActivity
<1>3. ASSUME NEW h \in Speech, NEW force \in BOOLEAN, InterruptSpeech(h, force)
      PROVE  WakeInv'
  <2>1. ASSUME NEW g \in Speech
        PROVE  handle'[g] = handle[g] \/ handle'[g] = Interrupt(handle[g], force)
    BY <1>3, <1>a DEF InterruptSpeech
  <2>2. QED
    BY <1>1, <1>3, <2>1 DEF InterruptSpeech
<1>4. ASSUME NEW paused, NEW draining, SetFlags(paused, draining),
             UNCHANGED <<handle, queueVars, threadVars>>
      PROVE  WakeInv'
  <2>1. WakeUpPending'
    BY <1>4, <1>a DEF SetFlags, WakeUpPending, TypeOK
  <2>2. QED
    BY <1>4, <2>1, FlagWake DEF queueVars, threadVars
<1>5. ASSUME UNCHANGED <<handle, queueVars, schedulingPaused, wakeVars,
                         threadVars>>
      PROVE  WakeInv'
  BY <1>5 DEF WakeInv, SaneHandles, QueuedUnfinished, TakenIsWatched, Asleep,
              WakeUpPending, queueVars, wakeVars, threadVars
<1>6. CASE PauseScheduling \/ ResumeScheduling
  BY <1>4, <1>6 DEF PauseScheduling, ResumeScheduling
<1>7. CASE DrainBegin
  <2>1. UNCHANGED <<handle, queueVars, queueUpdated, task, passes, threadVars>>
    BY <1>7, Zenon DEF DrainBegin
  <2>2. \/ SetFlags(schedulingPaused, TRUE)
        \/ UNCHANGED <<schedulingPaused, signals>>
    BY <1>7, Zenon DEF DrainBegin
  <2>3. CASE UNCHANGED <<schedulingPaused, signals>>
    BY <1>5, <2>1, <2>3 DEF wakeVars
  <2>4. QED
    BY <1>4, <2>1, <2>2, <2>3
<1>8. CASE StopCancel \/ UserTurn \/ CommitUserTurn
  BY <1>5, <1>8 DEF StopCancel, UserTurn, CommitUserTurn, flagVars
<1>9. QED
  BY <1>2, <1>3, <1>6, <1>7, <1>8, ScheduleSpeechWake DEF Caller

(* There is a scheduling task only once the activity has been started.     *)
TaskStarted == ~startedCh => task = "none"

(* Start, which starts it, runs once. *)
LEMMA TaskStartedStep ==
    ASSUME TaskStarted, Next
    PROVE  TaskStarted'
<1> USE DEF TaskStarted
<1>1. ASSUME UNCHANGED <<startedCh, task>>
      PROVE  TaskStarted'
  BY <1>1
<1>2. CASE Caller
  BY <1>1, <1>2, Zenon DEF Caller, ScheduleSpeech, InterruptActivity,
       InterruptSpeech, PauseScheduling, ResumeScheduling, DrainBegin,
       StopCancel, UserTurn, CommitUserTurn, flagVars, wakeVars
<1>3. CASE Runner
  <2>1. CASE Start \/ TaskReceive \/ TaskEnd \/ TaskPass
    BY <2>1 DEF Start, TaskReceive, TaskEnd, TaskPass, flagVars
  <2>2. CASE Signal \/ Pass \/ DrainClear \/ DrainPause \/ StopPause
    BY <1>1, <2>2, Zenon DEF Signal, Pass, DrainClear, DrainPause, StopPause,
         flagVars, wakeVars
  <2>3. QED
    BY <1>3, <2>1, <2>2 DEF Runner
<1>4. ASSUME NEW h \in Speech, Reply(h) \/ Ending(h)
      PROVE  TaskStarted'
  BY <1>1, <1>4, Zenon DEF Reply, ReplySkip, ReplyEnter, ReplyBegin,
       ReplySettle, ReplyGiveUp, ReplyToolsDone, ReplyContinue, ReplyResume,
       ReplyFinish, Ending, Watch, OnPipelineReplyDone, TimeoutFires, flagVars,
       wakeVars
<1>5. ASSUME NEW w \in Waiters, Waiting(w)
      PROVE  TaskStarted'
  BY <1>1, <1>5, Zenon DEF Waiting, WaiterPass, WaiterSnapshot, WaiterWoken,
       WaiterNext, WaiterProceeds, flagVars, wakeVars
<1>6. QED
  BY <1>2, <1>3, <1>4, <1>5 DEF Next

(* The scheduling task, the token, and the ends of Drain and Stop. *)
LEMMA RunnerWake ==
    ASSUME TurnInv, TaskStarted, WakeInv, Runner
    PROVE  WakeInv'
<1>a. TypeOK
  BY DEF TurnInv
<1>1. CASE Start
  <2>1. task = "none"
    BY <1>1 DEF Start, TaskStarted
  <2>2. Asleep' => Asleep
    BY <1>1, <2>1 DEF Start, Asleep, queueVars
  <2>3. WakeUpPending => WakeUpPending'
    BY <1>1 DEF Start, WakeUpPending, threadVars
  <2>4. QED
    BY <1>1, <2>2, <2>3, FlagWake DEF Start, WakeInv, queueVars, threadVars
<1>2. CASE Signal
  BY <1>2, FlagWake DEF Signal, WakeUpPending, queueVars, threadVars
<1>3. CASE TaskReceive
  BY <1>3, FlagWake DEF TaskReceive, Asleep, queueVars, threadVars
<1>4. CASE TaskEnd
  BY <1>4 DEF TaskEnd, WakeInv, SaneHandles, QueuedUnfinished, TakenIsWatched,
              Asleep, WakeUpPending, queueVars, flagVars, threadVars
<1>5. CASE TaskPass \/ Pass
  BY <1>5, ProcessQueueWake DEF TaskPass, Pass, flagVars
<1>6. CASE DrainClear
  BY <1>6 DEF DrainClear, WakeInv, SaneHandles, QueuedUnfinished,
              TakenIsWatched, Asleep, WakeUpPending, queueVars, wakeVars,
              threadVars
<1>7. CASE DrainPause \/ StopPause
  <2>1. WakeUpPending'
    BY <1>7, <1>a DEF DrainPause, StopPause, SetFlags, WakeUpPending, TypeOK
  <2>2. QED
    BY <1>7, <2>1, FlagWake DEF DrainPause, StopPause, queueVars, threadVars
<1>8. QED
  BY <1>1, <1>2, <1>3, <1>4, <1>5, <1>6, <1>7 DEF Runner

(* A reply goroutine, which ends only speeches that have been taken. *)
LEMMA ReplyWake ==
    ASSUME TurnInv, TypeOK', WakeInv, NEW h \in Speech, Reply(h)
    PROVE  WakeInv'
<1>a. /\ TypeOK /\ handle \in [Speech -> SpeechHandles]
      /\ handle[h] \in SpeechHandles /\ Sane(handle[h])
      /\ reply \in [Speech -> ReplyStates]
  BY DEF TurnInv, TypeOK, WakeInv, SaneHandles
<1>b. UNCHANGED <<speechQueue, watcher, task, schedulingPaused, queueUpdated,
                  signals, passes>>
  BY Zenon DEF Reply, ReplySkip, ReplyEnter, ReplyBegin, ReplySettle,
       ReplyGiveUp, ReplyToolsDone, ReplyContinue, ReplyResume, ReplyFinish,
       EndSpeech, queueVars, flagVars, wakeVars
<1>c. reply[h] # "none"
  BY Zenon DEF Reply, ReplySkip, ReplyEnter, ReplyBegin, ReplySettle,
       ReplyGiveUp, ReplyToolsDone, ReplyContinue, ReplyResume, ReplyFinish
<1>d. \A g \in Speech \ {h} : reply'[g] = reply[g]
  <2>1. \E at \in ReplyStates : reply' = [reply EXCEPT ![h] = at]
    BY DEF Reply, ReplySkip, ReplyEnter, ReplyBegin, ReplySettle, ReplyGiveUp,
         ReplyToolsDone, ReplyContinue, ReplyResume, ReplyFinish, ReplyStates
  <2>2. QED
    BY <2>1, <1>a
<1>e. handle[h].scheduled /\ ~Queued(h)
  BY <1>c DEF TurnInv, QueuedOnce, Queued
<1>1. \/ UNCHANGED handle
      \/ handle' = [handle EXCEPT ![h] = AuthorizeGeneration(@)]
      \/ handle' = [handle EXCEPT ![h] = MarkGenerationDone(@)]
      \/ handle' = [handle EXCEPT ![h] = AuthorizeGeneration(IncrementStep(@))]
      \/ handle' = [handle EXCEPT ![h] = MarkDone(@)]
  BY Zenon DEF Reply, ReplySkip, ReplyEnter, ReplyBegin, ReplySettle,
       ReplyGiveUp, ReplyToolsDone, ReplyContinue, ReplyResume, ReplyFinish,
       EndSpeech
<1>2. \A g \in Speech \ {h} : handle'[g] = handle[g]
  BY <1>1, <1>a
<1>3. Sane(handle'[h]) /\ (handle[h].done => handle'[h].done)
  <2>1. /\ Sane(AuthorizeGeneration(handle[h]))
        /\ Sane(MarkGenerationDone(handle[h]))
        /\ Sane(AuthorizeGeneration(IncrementStep(handle[h])))
        /\ Sane(MarkDone(handle[h]))
    BY <1>a, <1>e, SaneOps
  <2>2. /\ AuthorizeGeneration(handle[h]).done = handle[h].done
        /\ MarkGenerationDone(handle[h]).done = handle[h].done
        /\ AuthorizeGeneration(IncrementStep(handle[h])).done = handle[h].done
        /\ MarkDone(handle[h]).done = TRUE
    <3>1. TRUE \in BOOLEAN
      OBVIOUS
    <3>2. QED
      BY <1>a, <3>1, HandleOpsEffect, Zenon
  <2>3. \/ handle'[h] = handle[h]
        \/ handle'[h] = AuthorizeGeneration(handle[h])
        \/ handle'[h] = MarkGenerationDone(handle[h])
        \/ handle'[h] = AuthorizeGeneration(IncrementStep(handle[h]))
        \/ handle'[h] = MarkDone(handle[h])
    BY <1>1, <1>a
  <2>4. QED
    BY <1>a, <2>1, <2>2, <2>3
<1>4. SaneHandles'
  BY <1>2, <1>3 DEF SaneHandles, WakeInv
<1>5. \A g \in Speech : /\ reply'[g] # "none" => reply[g] # "none"
                        /\ handle[g].done => handle'[g].done
                        /\ handle'[g].done => handle[g].done \/ ~Queued(g)
  BY <1>c, <1>d, <1>e, <1>2, <1>3
<1>6. QED
  BY <1>a, <1>b, <1>4, <1>5, NoFlagWake

(* The watcher of a done speech brings a wake-up of its own; a time-out    *)
(* ends no speech that is still queued.                                    *)
LEMMA EndingWake ==
    ASSUME "timeoutQueued" \notin Ops,
           TurnInv, WakeInv, NEW h \in Speech, Ending(h)
    PROVE  WakeInv'
<1>a. /\ TypeOK /\ handle \in [Speech -> SpeechHandles]
      /\ handle[h] \in SpeechHandles /\ Sane(handle[h])
  BY DEF TurnInv, TypeOK, WakeInv, SaneHandles
<1>1. CASE Watch(h)
  <2>1. WakeUpPending'
    BY <1>1, <1>a DEF Watch, WakeUpPending, TypeOK
  <2>2. TakenIsWatched'
    BY <1>1, <1>a DEF Watch, WakeInv, TakenIsWatched, TypeOK
  <2>3. QED
    BY <1>1, <2>1, <2>2 DEF Watch, WakeInv, SaneHandles, QueuedUnfinished
<1>2. CASE OnPipelineReplyDone(h)
  <2>1. passes' = passes \/ passes' = passes + 1
    BY <1>2, Zenon DEF OnPipelineReplyDone
  <2>2. UNCHANGED <<handle, speechQueue, reply, watcher, task, queueUpdated,
                    signals, schedulingPaused>>
    BY <1>2, Zenon DEF OnPipelineReplyDone, flagVars
  <2>3. WakeUpPending => WakeUpPending'
    BY <2>1, <2>2, <1>a DEF WakeUpPending, TypeOK
  <2>4. Asleep' => Asleep
    BY <2>2 DEF Asleep
  <2>5. QED
    BY <2>2, <2>3, <2>4, FlagWake DEF WakeInv
<1>3. CASE TimeoutFires(h)
  <2>1. handle[h].timer /\ ~Queued(h) /\ handle[h].interrupted
    BY <1>3, <1>a DEF TimeoutFires, Sane
  <2>2. Sane(MarkDone(handle[h])) /\ MarkDone(handle[h]).done
    <3>1. TRUE \in BOOLEAN
      OBVIOUS
    <3>2. Sane(MarkDone(handle[h]))
      BY <1>a, <2>1, <3>1, SaneOps, Zenon
    <3>3. MarkDone(handle[h]).done = TRUE
      BY <1>a, <3>1, HandleOpsEffect, Zenon
    <3>4. QED
      BY <3>2, <3>3
  <2>3. handle' = [handle EXCEPT ![h] = MarkDone(@)]
    BY <1>3 DEF TimeoutFires, EndSpeech
  <2>4. SaneHandles'
    BY <1>a, <2>2, <2>3 DEF SaneHandles, WakeInv
  <2>5. UNCHANGED <<speechQueue, reply, watcher, task, schedulingPaused,
                    queueUpdated, signals, passes>>
    BY <1>3 DEF TimeoutFires, queueVars, flagVars, wakeVars
  <2>6. \A g \in Speech : /\ handle[g].done => handle'[g].done
                          /\ handle'[g].done => handle[g].done \/ ~Queued(g)
    BY <1>a, <2>1, <2>2, <2>3
  <2>7. QED
    BY <1>a, <2>4, <2>5, <2>6, NoFlagWake
<1>4. QED
  BY <1>1, <1>2, <1>3 DEF Ending

(* Calls of WaitForInactive. *)
LEMMA WaitingWake ==
    ASSUME TurnInv, WakeInv, NEW w \in Waiters, Waiting(w)
    PROVE  WakeInv'
<1>1. CASE WaiterPass(w) \/ WaiterProceeds(w)
  BY <1>1, ProcessQueueWake DEF WaiterPass, WaiterProceeds, flagVars
<1>2. CASE WaiterSnapshot(w) \/ WaiterWoken(w) \/ WaiterNext(w)
  <2>1. UNCHANGED <<handle, queueVars, flagVars, wakeVars, threadVars>>
    BY <1>2, Zenon DEF WaiterSnapshot, WaiterWoken, WaiterNext
  <2>2. QED
    BY <2>1 DEF WakeInv, SaneHandles, QueuedUnfinished, TakenIsWatched, Asleep,
                WakeUpPending, queueVars, flagVars, wakeVars, threadVars
<1>3. QED
  BY <1>1, <1>2 DEF Waiting

(* While no interrupt ends a speech in the queue: when the scheduling task *)
(* sleeps and a speech could have the turn, a wake-up is on its way, or    *)
(* the goroutine that will send one when an earlier speech has ended.      *)
THEOREM WakeUpsAreKept ==
    ASSUME "timeoutQueued" \notin Ops
    PROVE  Spec => []NoLostWakeUp
<1>1. Init => WakeInv
  <2>1. ASSUME Init PROVE SaneHandles
    BY <2>1 DEF Init, SaneHandles, Sane, NewSpeechHandle
  <2>2. QED
    BY <2>1 DEF Init, WakeInv, QueuedUnfinished, TakenIsWatched, Asleep
<1>2. Init => TaskStarted
  BY DEF Init, TaskStarted
<1>3. TaskStarted /\ [Next]_vars => TaskStarted'
  <2>1. TaskStarted /\ UNCHANGED vars => TaskStarted'
    BY DEF TaskStarted, vars, flagVars, wakeVars
  <2>2. QED
    BY <2>1, TaskStartedStep
<1>4. TurnInv /\ TypeOK' /\ TaskStarted /\ WakeInv /\ [Next]_vars => WakeInv'
  <2>1. ASSUME WakeInv, UNCHANGED vars PROVE WakeInv'
    BY <2>1 DEF WakeInv, SaneHandles, QueuedUnfinished, TakenIsWatched, Asleep,
                WakeUpPending, vars, queueVars, flagVars, wakeVars, threadVars
  <2>2. QED
    BY <2>1, CallerWake, RunnerWake, ReplyWake, EndingWake, WaitingWake DEF Next
<1>5. WakeInv => NoLostWakeUp
  BY DEF WakeInv, Asleep, NoLostWakeUp
<1>6. QED
  BY <1>1, <1>2, <1>3, <1>4, <1>5, TurnInvariant, TypeCorrect, PTL DEF Spec

-----------------------------------------------------------------------------
(* Drain.                                                                  *)

(* A speech that is done stays done. *)
LEMMA DoneStays ==
    ASSUME TypeOK, Next
    PROVE  \A h \in Speech : handle[h].done => handle'[h].done
<1>a. handle \in [Speech -> SpeechHandles]
  BY DEF TypeOK
<1>1. ASSUME NEW g \in Speech, NEW s \in SpeechHandles, s.done,
             handle' = [handle EXCEPT ![g] = s]
      PROVE  \A h \in Speech : handle[h].done => handle'[h].done
  BY <1>1, <1>a
<1>2. ASSUME NEW s \in SpeechHandles, NEW force \in BOOLEAN
      PROVE  /\ Interrupt(s, force).done = s.done
             /\ MarkScheduled(s).done = s.done
             /\ MarkGenerationDone(s).done = s.done
             /\ AuthorizeGeneration(s).done = s.done
             /\ AuthorizeGeneration(IncrementStep(s)).done = s.done
             /\ MarkDone(s).done = TRUE
  BY <1>2, HandleOpsEffect, Zenon
<1>3. CASE Caller
  <2>1. ASSUME NEW h \in Speech, NEW p \in Priorities, NEW force \in BOOLEAN,
               ScheduleSpeech(h, p, force)
        PROVE  \A g \in Speech : handle[g].done => handle'[g].done
    <3>1. \/ handle' = [handle EXCEPT ![h] = Interrupt(@, TRUE)]
          \/ handle' = [handle EXCEPT ![h] = MarkScheduled(@)]
      BY <2>1, Zenon DEF ScheduleSpeech
    <3>2. /\ Interrupt(handle[h], TRUE).done = handle[h].done
          /\ MarkScheduled(handle[h]).done = handle[h].done
      BY <1>a, <1>2
    <3>3. QED
      BY <1>a, <3>1, <3>2
  <2>2. ASSUME NEW force \in BOOLEAN, InterruptActivity(force)
        PROVE  \A g \in Speech : handle[g].done => handle'[g].done
    BY <1>a, <1>2, <2>2 DEF InterruptActivity
  <2>3. ASSUME NEW h \in Speech, NEW force \in BOOLEAN, InterruptSpeech(h, force)
        PROVE  \A g \in Speech : handle[g].done => handle'[g].done
    <3>1. Interrupt(handle[h], force).done = handle[h].done
      BY <1>a, <1>2
    <3>2. QED
      BY <1>a, <2>3, <3>1 DEF InterruptSpeech
  <2>4. CASE PauseScheduling \/ ResumeScheduling \/ DrainBegin \/ StopCancel
               \/ UserTurn \/ CommitUserTurn
    BY <2>4, Zenon DEF PauseScheduling, ResumeScheduling, DrainBegin,
                       StopCancel, UserTurn, CommitUserTurn
  <2>5. QED
    BY <1>3, <2>1, <2>2, <2>3, <2>4 DEF Caller
<1>4. CASE Runner
  BY <1>4, Zenon DEF Runner, Start, Signal, TaskReceive, TaskEnd, TaskPass, Pass,
                     DrainClear, DrainPause, StopPause
<1>5. ASSUME NEW h \in Speech, Reply(h) \/ Ending(h)
      PROVE  \A g \in Speech : handle[g].done => handle'[g].done
  <2>1. \/ UNCHANGED handle
        \/ handle' = [handle EXCEPT ![h] = AuthorizeGeneration(@)]
        \/ handle' = [handle EXCEPT ![h] = MarkGenerationDone(@)]
        \/ handle' = [handle EXCEPT ![h] = AuthorizeGeneration(IncrementStep(@))]
        \/ handle' = [handle EXCEPT ![h] = MarkDone(@)]
    BY <1>5, Zenon DEF Reply, ReplySkip, ReplyEnter, ReplyBegin, ReplySettle,
         ReplyGiveUp, ReplyToolsDone, ReplyContinue, ReplyResume, ReplyFinish,
         EndSpeech, Ending, Watch, OnPipelineReplyDone, TimeoutFires
  <2>2. /\ AuthorizeGeneration(handle[h]).done = handle[h].done
        /\ MarkGenerationDone(handle[h]).done = handle[h].done
        /\ AuthorizeGeneration(IncrementStep(handle[h])).done = handle[h].done
        /\ MarkDone(handle[h]).done = TRUE
    <3>1. TRUE \in BOOLEAN /\ handle[h] \in SpeechHandles
      BY <1>a
    <3>2. QED
      BY <1>2, <3>1
  <2>3. QED
    BY <1>a, <2>1, <2>2
<1>6. ASSUME NEW w \in Waiters, Waiting(w)
      PROVE  UNCHANGED handle
  BY <1>6, Zenon DEF Waiting, WaiterPass, WaiterSnapshot, WaiterWoken,
                     WaiterNext, WaiterProceeds
<1>7. QED
  BY <1>3, <1>4, <1>5, <1>6 DEF Next

(* While Drain refuses speeches nothing joins the queue, so what its last  *)
(* look at the queue has found stays true.                                 *)
LEMMA DrainedStep ==
    ASSUME "force" \notin Ops, TypeOK, DrainLeavesNoneQueued, Next
    PROVE  DrainLeavesNoneQueued'
<1>a. /\ waiter \in [Waiters -> WaiterRecords]
      /\ \A e \in speechQueue : e.speech \in Speech
      /\ Drainer \in Waiters /\ Drainer \notin Speech
  BY SchedulingAssumption DEF TypeOK, WaiterRecords, Entries, Waiters
<1>b. \A h \in Speech : handle[h].done => handle'[h].done
  BY DoneStays
<1>1. ASSUME schedulingDraining' => speechQueue' \subseteq speechQueue,
             waiter'[Drainer].at = "returned" => waiter[Drainer].at = "returned",
             schedulingDraining' => schedulingDraining
      PROVE  DrainLeavesNoneQueued'
  BY <1>1, <1>a, <1>b DEF DrainLeavesNoneQueued
<1>q. \/ UNCHANGED speechQueue
      \/ \E e \in speechQueue : speechQueue' = speechQueue \ {e}
      => speechQueue' \subseteq speechQueue
  OBVIOUS
<1>2. CASE Caller
  <2>1. ASSUME NEW h \in Speech, NEW p \in Priorities, NEW force \in BOOLEAN,
               ScheduleSpeech(h, p, force)
        PROVE  DrainLeavesNoneQueued'
    <3>1. UNCHANGED <<schedulingDraining, waiter>>
      BY <2>1, Zenon DEF ScheduleSpeech, flagVars
    <3>2. schedulingDraining => UNCHANGED speechQueue
      BY <2>1, Zenon DEF ScheduleSpeech
    <3>3. QED
      BY <1>1, <3>1, <3>2
  <2>2. CASE DrainBegin
    <3>1. \/ UNCHANGED <<waiter, schedulingDraining>>
          \/ waiter' = [waiter EXCEPT ![Drainer] = Entering]
      BY <2>2, Zenon DEF DrainBegin
    <3>2. UNCHANGED speechQueue
      BY <2>2, Zenon DEF DrainBegin, queueVars
    <3>3. CASE waiter' = [waiter EXCEPT ![Drainer] = Entering]
      BY <1>a, <3>3 DEF Entering, NotWaiting, DrainLeavesNoneQueued
    <3>4. QED
      BY <1>1, <3>1, <3>2, <3>3
  <2>3. CASE PauseScheduling \/ ResumeScheduling
    <3>1. /\ UNCHANGED <<waiter, speechQueue>>
          /\ schedulingDraining' = schedulingDraining
               \/ schedulingDraining' = FALSE
      BY <2>3, Zenon DEF PauseScheduling, ResumeScheduling, SetFlags, queueVars
    <3>2. QED
      BY <1>1, <3>1
  <2>4. ASSUME UNCHANGED <<queueVars, waiter, schedulingDraining>>
        PROVE  DrainLeavesNoneQueued'
    BY <1>1, <2>4 DEF queueVars
  <2>5. CASE StopCancel \/ UserTurn \/ CommitUserTurn
    BY <2>4, <2>5, Zenon DEF StopCancel, UserTurn, CommitUserTurn, flagVars
  <2>6. ASSUME NEW force \in BOOLEAN, InterruptActivity(force)
        PROVE  DrainLeavesNoneQueued'
    BY <2>4, <2>6, Zenon DEF InterruptActivity, flagVars
  <2>7. ASSUME NEW h \in Speech, NEW force \in BOOLEAN, InterruptSpeech(h, force)
        PROVE  DrainLeavesNoneQueued'
    BY <2>4, <2>7, Zenon DEF InterruptSpeech, flagVars
  <2>8. QED
    BY <1>2, <2>1, <2>2, <2>3, <2>5, <2>6, <2>7 DEF Caller
<1>p. ProcessQueue => speechQueue' \subseteq speechQueue
  BY <1>q, Zenon DEF ProcessQueue
<1>3. CASE Runner
  <2>1. CASE TaskPass \/ Pass
    BY <1>1, <1>p, <2>1, Zenon DEF TaskPass, Pass, flagVars
  <2>2. CASE DrainClear
    BY <2>2 DEF DrainClear, DrainLeavesNoneQueued
  <2>3. CASE \/ Start \/ Signal \/ TaskReceive \/ TaskEnd \/ DrainPause
             \/ StopPause
    <3>1. /\ UNCHANGED <<waiter, speechQueue>>
          /\ schedulingDraining' = schedulingDraining
               \/ schedulingDraining' = FALSE
      BY <2>3, Zenon DEF Start, Signal, TaskReceive, TaskEnd, DrainPause,
           StopPause, SetFlags, queueVars, flagVars
    <3>2. QED
      BY <1>1, <3>1
  <2>4. QED
    BY <1>3, <2>1, <2>2, <2>3 DEF Runner
<1>4. ASSUME NEW h \in Speech, Reply(h) \/ Ending(h)
      PROVE  DrainLeavesNoneQueued'
  <2>1. UNCHANGED <<speechQueue, schedulingDraining>>
    BY <1>4, Zenon DEF Reply, ReplySkip, ReplyEnter, ReplyBegin, ReplySettle,
         ReplyGiveUp, ReplyToolsDone, ReplyContinue, ReplyResume, ReplyFinish,
         Ending, Watch, OnPipelineReplyDone, TimeoutFires, queueVars, flagVars
  <2>2. \/ UNCHANGED waiter
        \/ waiter' = [waiter EXCEPT ![h] = Entering]
        \/ waiter' = [waiter EXCEPT ![h] = NotWaiting]
    BY <1>4, Zenon DEF Reply, ReplySkip, ReplyEnter, ReplyBegin, ReplySettle,
         ReplyGiveUp, ReplyToolsDone, ReplyContinue, ReplyResume, ReplyFinish,
         Ending, Watch, OnPipelineReplyDone, TimeoutFires
  <2>3. waiter'[Drainer] = waiter[Drainer]
    BY <1>a, <2>2
  <2>4. QED
    BY <1>1, <2>1, <2>3
<1>5. ASSUME NEW w \in Waiters, Waiting(w)
      PROVE  DrainLeavesNoneQueued'
  <2>1. CASE WaiterSnapshot(w) /\ w = Drainer
    <3>1. UNCHANGED <<handle, speechQueue>>
      BY <2>1, Zenon DEF WaiterSnapshot, queueVars
    <3>2. CASE ActiveSpeech = {}
      BY <1>a, <3>1, <3>2 DEF ActiveSpeech, Queued, DrainLeavesNoneQueued
    <3>3. CASE ActiveSpeech # {}
      <4>1. waiter' = [waiter EXCEPT ![w] =
                         [@ EXCEPT !.todo = ActiveSpeech, !.at = "next"]]
        BY <2>1, <3>3 DEF WaiterSnapshot
      <4>2. waiter'[Drainer].at = "next"
        BY <1>a, <2>1, <4>1 DEF WaiterRecords
      <4>3. QED
        BY <4>2 DEF DrainLeavesNoneQueued
    <3>4. QED
      BY <3>2, <3>3
  <2>2. CASE WaiterSnapshot(w) /\ w # Drainer
    <3>1. waiter'[Drainer] = waiter[Drainer]
      BY <1>a, <2>2 DEF WaiterSnapshot
    <3>2. UNCHANGED <<speechQueue, schedulingDraining>>
      BY <2>2, Zenon DEF WaiterSnapshot, queueVars, flagVars
    <3>3. QED
      BY <1>1, <3>1, <3>2
  <2>3. CASE WaiterPass(w) \/ WaiterProceeds(w)
    <3>1. waiter'[Drainer] = waiter[Drainer] \/ waiter'[Drainer].at # "returned"
      BY <1>a, <2>3 DEF WaiterPass, WaiterProceeds, WaiterRecords
    <3>2. UNCHANGED schedulingDraining /\ speechQueue' \subseteq speechQueue
      BY <1>p, <2>3, Zenon DEF WaiterPass, WaiterProceeds, flagVars
    <3>3. QED
      BY <1>1, <3>1, <3>2
  <2>4. CASE WaiterWoken(w) \/ WaiterNext(w)
    <3>1. \/ waiter' = [waiter EXCEPT ![w] = Entering]
          \/ \E h \in waiter[w].todo :
                waiter' = [waiter EXCEPT ![w] =
                             [at |-> "blocked", todo |-> @.todo \ {h},
                              target |-> h, gen |-> handle[h].gens]]
      BY <2>4, Zenon DEF WaiterWoken, WaiterNext
    <3>2. waiter'[Drainer] = waiter[Drainer] \/ waiter'[Drainer].at # "returned"
      BY <1>a, <3>1 DEF Entering, NotWaiting
    <3>3. UNCHANGED <<speechQueue, schedulingDraining>>
      BY <2>4, Zenon DEF WaiterWoken, WaiterNext, queueVars, flagVars
    <3>4. QED
      BY <1>1, <3>2, <3>3
  <2>5. QED
    BY <1>5, <2>1, <2>2, <2>3, <2>4 DEF Waiting
<1>6. QED
  BY <1>2, <1>3, <1>4, <1>5 DEF Next

(* Unless speeches are forced into the queue: from the moment the drain's  *)
(* WaitForInactive has returned until speeches are accepted again, every   *)
(* speech in the queue is done.                                            *)
THEOREM DrainSeesTheQueue ==
    ASSUME "force" \notin Ops
    PROVE  Spec => []DrainLeavesNoneQueued
<1>1. Init => DrainLeavesNoneQueued
  BY DEF Init, DrainLeavesNoneQueued
<1>2. TypeOK /\ DrainLeavesNoneQueued /\ [Next]_vars => DrainLeavesNoneQueued'
  <2>1. ASSUME DrainLeavesNoneQueued, UNCHANGED vars
        PROVE  DrainLeavesNoneQueued'
    BY <2>1 DEF DrainLeavesNoneQueued, vars, queueVars, flagVars
  <2>2. QED
    BY <2>1, DrainedStep
<1>3. QED
  BY <1>1, <1>2, TypeCorrect, PTL DEF Spec
=============================================================================
