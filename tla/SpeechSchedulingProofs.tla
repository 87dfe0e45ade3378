----------------------- MODULE SpeechSchedulingProofs -----------------------
(***************************************************************************)
(* Proofs about SpeechScheduling for every set of speeches, every set of   *)
(* priorities, every bound and every choice of what the environment does.  *)
(***************************************************************************)
EXTENDS SpeechScheduling, TLAPS

-----------------------------------------------------------------------------
(* The handle operators keep a handle a handle.                            *)

(* NewSpeechHandle returns a handle. *)
LEMMA NewHandleType ==
    ASSUME NEW allow \in BOOLEAN
    PROVE  NewSpeechHandle(allow) \in SpeechHandles
BY DEF NewSpeechHandle, SpeechHandles

(* Every method of a handle leaves a handle. *)
LEMMA HandleOpsType ==
    ASSUME NEW s \in SpeechHandles, NEW force \in BOOLEAN
    PROVE  /\ Interrupt(s, force) \in SpeechHandles
           /\ MarkScheduled(s) \in SpeechHandles
           /\ MarkGenerationDone(s) \in SpeechHandles
           /\ MarkDone(s) \in SpeechHandles
           /\ AuthorizeGeneration(s) \in SpeechHandles
           /\ AuthorizeGeneration(IncrementStep(s)) \in SpeechHandles
<1>1. Interrupt(s, force) \in SpeechHandles
  BY DEF Interrupt, SpeechHandles
<1>2. MarkScheduled(s) \in SpeechHandles
  BY DEF MarkScheduled, SpeechHandles
<1>3. CloseGeneration(s) \in SpeechHandles
  BY DEF CloseGeneration, SpeechHandles
<1>4. MarkGenerationDone(s) \in SpeechHandles
  BY <1>3 DEF MarkGenerationDone
<1>5. MarkDone(s) \in SpeechHandles
  BY <1>3 DEF MarkDone, SpeechHandles
<1>6. ASSUME NEW t \in SpeechHandles
      PROVE  AuthorizeGeneration(t) \in SpeechHandles
  <2>1. t.gens \in Nat /\ t.open \in SUBSET (Nat \ {0})
    BY DEF SpeechHandles
  <2>2. t.gens + 1 \in Nat \ {0}
    BY <2>1
  <2>3. t.open \cup {t.gens + 1} \in SUBSET (Nat \ {0})
    BY <2>1, <2>2
  <2>4. QED
    BY <2>2, <2>3 DEF AuthorizeGeneration, SpeechHandles
<1>7. IncrementStep(s) \in SpeechHandles
  BY DEF IncrementStep, SpeechHandles
<1>8. QED
  BY <1>1, <1>2, <1>4, <1>5, <1>6, <1>7

(* What each operator does to the fields the invariants speak of.          *)
LEMMA HandleOpsEffect ==
    ASSUME NEW s \in SpeechHandles, NEW force \in BOOLEAN
    PROVE  /\ LET t == Interrupt(s, force) IN
                 /\ t.gens = s.gens /\ t.open = s.open /\ t.done = s.done
                 /\ t.scheduled = s.scheduled
           /\ LET t == MarkScheduled(s) IN
                 /\ t.gens = s.gens /\ t.open = s.open /\ t.done = s.done
                 /\ t.scheduled = TRUE /\ t.interrupted = s.interrupted
           /\ LET t == MarkGenerationDone(s) IN
                 /\ t.gens = s.gens /\ t.open = s.open \ {s.gens}
                 /\ t.done = s.done /\ t.scheduled = s.scheduled
           /\ LET t == MarkDone(s) IN
                 /\ t.gens = s.gens /\ t.open = s.open \ {s.gens}
                 /\ t.done = TRUE /\ t.scheduled = s.scheduled
           /\ LET t == AuthorizeGeneration(s) IN
                 /\ t.gens = s.gens + 1 /\ t.open = s.open \cup {s.gens + 1}
                 /\ t.done = s.done /\ t.scheduled = s.scheduled
           /\ LET t == AuthorizeGeneration(IncrementStep(s)) IN
                 /\ t.gens = s.gens + 1 /\ t.open = s.open \cup {s.gens + 1}
                 /\ t.done = s.done /\ t.scheduled = s.scheduled
<1>1. LET t == Interrupt(s, force) IN
        /\ t.gens = s.gens /\ t.open = s.open /\ t.done = s.done
        /\ t.scheduled = s.scheduled
  BY DEF Interrupt, SpeechHandles
<1>2. LET t == MarkScheduled(s) IN
        /\ t.gens = s.gens /\ t.open = s.open /\ t.done = s.done
        /\ t.scheduled = TRUE /\ t.interrupted = s.interrupted
  BY DEF MarkScheduled, SpeechHandles
<1>3. LET t == MarkGenerationDone(s) IN
        /\ t.gens = s.gens /\ t.open = s.open \ {s.gens}
        /\ t.done = s.done /\ t.scheduled = s.scheduled
  BY DEF MarkGenerationDone, CloseGeneration, SpeechHandles
<1>4. LET t == MarkDone(s) IN
        /\ t.gens = s.gens /\ t.open = s.open \ {s.gens}
        /\ t.done = TRUE /\ t.scheduled = s.scheduled
  BY DEF MarkDone, CloseGeneration, SpeechHandles
<1>5. LET t == AuthorizeGeneration(s) IN
        /\ t.gens = s.gens + 1 /\ t.open = s.open \cup {s.gens + 1}
        /\ t.done = s.done /\ t.scheduled = s.scheduled
  BY DEF AuthorizeGeneration, SpeechHandles
<1>6. LET t == AuthorizeGeneration(IncrementStep(s)) IN
        /\ t.gens = s.gens + 1 /\ t.open = s.open \cup {s.gens + 1}
        /\ t.done = s.done /\ t.scheduled = s.scheduled
  BY DEF AuthorizeGeneration, IncrementStep, SpeechHandles
<1>7. QED
  BY <1>1, <1>2, <1>3, <1>4, <1>5, <1>6
-----------------------------------------------------------------------------
(* Type correctness.                                                       *)

(* What processQueue can do to the types of what it changes.               *)
LEMMA ProcessQueueType ==
    ASSUME TypeOK, ProcessQueue
    PROVE  /\ speechQueue' \subseteq Entries
           /\ currentSpeech' \in Speech \cup {None}
           /\ reply' \in [Speech -> ReplyStates]
           /\ watcher' \in [Speech -> {"none", "waiting", "over"}]
           /\ callback' \in [Speech -> {"none", "armed", "due", "over"}]
<1>1. Kept \in Speech \cup {None}
  BY DEF Kept, TypeOK
<1>2. CASE /\ currentSpeech' = Kept
           /\ UNCHANGED <<speechQueue, reply, watcher, callback>>
  BY <1>1, <1>2 DEF TypeOK
<1>3. CASE \E e \in speechQueue :
             /\ speechQueue' = speechQueue \ {e}
             /\ IF handle[e.speech].done
                THEN /\ currentSpeech' = None
                     /\ UNCHANGED <<reply, watcher, callback>>
                ELSE /\ currentSpeech' = e.speech
                     /\ reply' = [reply EXCEPT ![e.speech] = "delay"]
                     /\ watcher' = [watcher EXCEPT ![e.speech] = "waiting"]
                     /\ callback' = [callback EXCEPT ![e.speech] = "armed"]
  BY <1>3 DEF TypeOK, Entries, ReplyStates
<1>4. QED
  BY <1>2, <1>3 DEF ProcessQueue

(* A reply's call of WaitForInactive is a record of four fields.           *)
WaiterRecords == [at: WaiterStates, todo: SUBSET Speech,
                  target: Speech \cup {None}, gen: Nat]

LEMMA WaiterRecordsType ==
    /\ NotWaiting \in WaiterRecords
    /\ Entering \in WaiterRecords
BY DEF NotWaiting, Entering, WaiterRecords, WaiterStates

(* An activity starts with the types TypeOK names. *)
LEMMA InitType == Init => TypeOK
<1>1. SUFFICES ASSUME Init PROVE TypeOK
  OBVIOUS
<1>2. handle \in [Speech -> SpeechHandles]
  BY <1>1, NewHandleType DEF Init
<1>3. waiter \in [Waiters -> WaiterRecords]
  BY <1>1, WaiterRecordsType DEF Init
<1>4. QED
  BY <1>1, <1>2, <1>3 DEF Init, TypeOK, ReplyStates, WaiterRecords

(* Boolean flags need no arithmetic, and the counter needs no Booleans.    *)
LEMMA SetFlagsType ==
    ASSUME TypeOK, NEW paused \in BOOLEAN, NEW draining \in BOOLEAN,
           SetFlags(paused, draining)
    PROVE  /\ schedulingPaused' \in BOOLEAN
           /\ schedulingDraining' \in BOOLEAN
           /\ signals' \in Nat
<1>1. schedulingPaused' \in BOOLEAN /\ schedulingDraining' \in BOOLEAN
  BY Zenon DEF SetFlags
<1>2. signals' \in Nat
  BY DEF SetFlags, TypeOK
<1>3. QED
  BY <1>1, <1>2

(* What callers do keeps the types. *)
LEMMA CallerType == TypeOK /\ Caller => TypeOK'
<1> SUFFICES ASSUME TypeOK, Caller PROVE TypeOK'
  OBVIOUS
<1> USE SchedulingAssumption
<1>1. ASSUME NEW h \in Speech, NEW p \in Priorities, NEW force \in BOOLEAN,
             ScheduleSpeech(h, p, force)
      PROVE  TypeOK'
  <2>1. handle' = [handle EXCEPT ![h] = Interrupt(@, TRUE)] \/
        handle' = [handle EXCEPT ![h] = MarkScheduled(@)]
    BY <1>1, Zenon DEF ScheduleSpeech
  <2>a. handle' \in [Speech -> SpeechHandles]
    <3>1. handle[h] \in SpeechHandles
      BY DEF TypeOK
    <3>2. /\ Interrupt(handle[h], TRUE) \in SpeechHandles
          /\ MarkScheduled(handle[h]) \in SpeechHandles
      BY <3>1, HandleOpsType, Zenon
    <3>3. QED
      BY <2>1, <3>2 DEF TypeOK
  <2>b. \/ UNCHANGED <<speechQueue, nextSpeechSeq>>
        \/ /\ speechQueue' = speechQueue \cup
                 {[speech |-> h, priority |-> p, seq |-> nextSpeechSeq]}
           /\ nextSpeechSeq' = nextSpeechSeq + 1
    BY <1>1, Zenon DEF ScheduleSpeech
  <2>2. speechQueue' \subseteq Entries /\ nextSpeechSeq' \in Nat
    BY <2>b DEF TypeOK, Entries
  <2>3. queueUpdated' \in BOOLEAN
    BY <1>1, Zenon DEF TypeOK, ScheduleSpeech
  <2>4. UNCHANGED <<currentSpeech, flagVars, signals, task, passes, threadVars,
                    waiter, callVars>>
    BY <1>1, Zenon DEF ScheduleSpeech
  <2>5. QED
    BY <2>a, <2>2, <2>3, <2>4 DEF TypeOK, flagVars, threadVars, callVars, userVars
<1>2. ASSUME NEW force \in BOOLEAN, InterruptActivity(force)
      PROVE  TypeOK'
  <2>1. handle' \in [Speech -> SpeechHandles]
    BY <1>2, HandleOpsType DEF TypeOK, InterruptActivity
  <2>2. QED
    BY <1>2, <2>1 DEF TypeOK, InterruptActivity, queueVars, flagVars, wakeVars,
                      threadVars, callVars, userVars
<1>3. ASSUME NEW h \in Speech, NEW force \in BOOLEAN, InterruptSpeech(h, force)
      PROVE  TypeOK'
  <2>1. handle' \in [Speech -> SpeechHandles]
    BY <1>3, HandleOpsType DEF TypeOK, InterruptSpeech
  <2>2. QED
    BY <1>3, <2>1 DEF TypeOK, InterruptSpeech, queueVars, flagVars, wakeVars,
                      threadVars, callVars, userVars
<1>4. CASE PauseScheduling
  <2>1. SetFlags(TRUE, schedulingDraining)
    BY <1>4 DEF PauseScheduling
  <2>2. /\ schedulingPaused' \in BOOLEAN
        /\ schedulingDraining' \in BOOLEAN
        /\ signals' \in Nat
    BY <2>1, SetFlagsType, Zenon DEF TypeOK
  <2>3. QED
    BY <1>4, <2>2
       DEF TypeOK, PauseScheduling, queueVars, threadVars, callVars, userVars
<1>5. CASE ResumeScheduling
  <2>1. SetFlags(FALSE, FALSE)
    BY <1>5 DEF ResumeScheduling
  <2>2. /\ schedulingPaused' \in BOOLEAN
        /\ schedulingDraining' \in BOOLEAN
        /\ signals' \in Nat
    BY <2>1, SetFlagsType, Zenon DEF TypeOK
  <2>3. QED
    BY <1>5, <2>2
       DEF TypeOK, ResumeScheduling, queueVars, threadVars, callVars, userVars
<1>6. CASE DrainBegin
  <2>1. waiter' \in [Waiters -> WaiterRecords]
    <3>1. waiter' = waiter \/ waiter' = [waiter EXCEPT ![Drainer] = Entering]
      BY <1>6, Zenon DEF DrainBegin
    <3>2. QED
      BY <3>1, WaiterRecordsType DEF TypeOK, WaiterRecords
  <2>2. \/ UNCHANGED <<schedulingPaused, schedulingDraining, signals>>
        \/ SetFlags(schedulingPaused, TRUE)
    BY <1>6, Zenon DEF DrainBegin
  <2>3. /\ schedulingPaused' \in BOOLEAN
        /\ schedulingDraining' \in BOOLEAN
        /\ signals' \in Nat
    <3>1. CASE SetFlags(schedulingPaused, TRUE)
      BY <3>1, SetFlagsType, Zenon DEF TypeOK
    <3>2. CASE UNCHANGED <<schedulingPaused, schedulingDraining, signals>>
      BY <3>2 DEF TypeOK
    <3>3. QED
      BY <2>2, <3>1, <3>2
  <2>4. drain' \in {"idle", "waiting", "clear", "done"}
    BY <1>6, Zenon DEF DrainBegin
  <2>5. UNCHANGED <<handle, queueVars, schedulingStarted, startedCh, closed,
                    queueUpdated, task, passes, threadVars, stop, userVars>>
    BY <1>6, Zenon DEF DrainBegin
  <2>6. QED
    BY <2>1, <2>3, <2>4, <2>5
       DEF TypeOK, queueVars, threadVars, userVars, WaiterRecords
<1>7. CASE StopCancel
  BY <1>7 DEF TypeOK, StopCancel, queueVars, wakeVars, threadVars, userVars
<1>8. CASE UserTurn
  BY <1>8 DEF TypeOK, UserTurn, queueVars, flagVars, wakeVars, threadVars
<1>9. CASE CommitUserTurn
  <2>1. userTurnUpdated' \in BOOLEAN
    BY <1>9, Zenon DEF CommitUserTurn
  <2>2. QED
    BY <1>9, <2>1 DEF TypeOK, CommitUserTurn, queueVars, flagVars, wakeVars,
                      threadVars
<1>10. QED
  BY <1>1, <1>2, <1>3, <1>4, <1>5, <1>6, <1>7, <1>8, <1>9 DEF Caller

(* So do the scheduling task and the ends of Drain and Stop, *)
LEMMA RunnerType == TypeOK /\ Runner => TypeOK'
<1> SUFFICES ASSUME TypeOK, Runner PROVE TypeOK'
  OBVIOUS
<1>1. CASE Start
  <2>1. /\ schedulingStarted' \in BOOLEAN
        /\ startedCh' \in BOOLEAN
        /\ task' = "select"
    BY <1>1, Zenon DEF Start
  <2>2. UNCHANGED <<handle, queueVars, schedulingPaused, schedulingDraining,
                    closed, queueUpdated, signals, passes, threadVars, waiter,
                    callVars>>
    BY <1>1, Zenon DEF Start
  <2>3. QED
    BY <2>1, <2>2 DEF TypeOK, queueVars, threadVars, callVars, userVars
<1>2. CASE Signal
  BY <1>2 DEF TypeOK, Signal, queueVars, flagVars, threadVars, callVars, userVars
<1>3. CASE TaskReceive
  <2>1. queueUpdated' \in BOOLEAN /\ task' = "pass"
    BY <1>3, Zenon DEF TaskReceive
  <2>2. UNCHANGED <<handle, queueVars, flagVars, signals, passes, threadVars,
                    waiter, callVars>>
    BY <1>3, Zenon DEF TaskReceive
  <2>3. QED
    BY <2>1, <2>2 DEF TypeOK, queueVars, flagVars, threadVars, callVars, userVars
<1>4. CASE TaskEnd
  <2>1. task' = "over"
    BY <1>4, Zenon DEF TaskEnd
  <2>2. UNCHANGED <<handle, queueVars, flagVars, queueUpdated, signals, passes,
                    threadVars, waiter, callVars>>
    BY <1>4, Zenon DEF TaskEnd
  <2>3. QED
    BY <2>1, <2>2 DEF TypeOK, queueVars, flagVars, threadVars, callVars, userVars
<1>5. CASE TaskPass
  BY <1>5, ProcessQueueType DEF TypeOK, TaskPass, flagVars, callVars, userVars
<1>6. CASE Pass
  BY <1>6, ProcessQueueType DEF TypeOK, Pass, flagVars, callVars, userVars
<1>7. CASE DrainClear
  <2>1. waiter' \in [Waiters -> WaiterRecords]
    BY <1>7, WaiterRecordsType DEF TypeOK, DrainClear, WaiterRecords
  <2>2. schedulingDraining' \in BOOLEAN /\ drain' = "clear"
    BY <1>7, Zenon DEF DrainClear
  <2>3. UNCHANGED <<handle, queueVars, schedulingPaused, schedulingStarted,
                    startedCh, closed, wakeVars, threadVars, stop, userVars>>
    BY <1>7, Zenon DEF DrainClear
  <2>4. QED
    <3>1. waiter' \in [Waiters -> [at: WaiterStates, todo: SUBSET Speech,
                                  target: Speech \cup {None}, gen: Nat]]
      BY <2>1, Zenon DEF WaiterRecords
    <3>2. QED
      BY <2>2, <2>3, <3>1
         DEF TypeOK, queueVars, wakeVars, threadVars, userVars
<1>8. CASE DrainPause
  <2>1. SetFlags(TRUE, schedulingDraining)
    BY <1>8 DEF DrainPause
  <2>2. /\ schedulingPaused' \in BOOLEAN
        /\ schedulingDraining' \in BOOLEAN
        /\ signals' \in Nat
    BY <2>1, SetFlagsType, Zenon DEF TypeOK
  <2>3. drain' = "done"
    BY <1>8, Zenon DEF DrainPause
  <2>4. UNCHANGED <<handle, queueVars, schedulingStarted, startedCh, closed,
                    queueUpdated, task, passes, threadVars, waiter, stop,
                    userVars>>
    BY <1>8, Zenon DEF DrainPause
  <2>5. QED
    BY <2>2, <2>3, <2>4 DEF TypeOK, queueVars, threadVars, userVars
<1>9. CASE StopPause
  <2>1. SetFlags(TRUE, FALSE)
    BY <1>9 DEF StopPause
  <2>2. /\ schedulingPaused' \in BOOLEAN
        /\ schedulingDraining' \in BOOLEAN
        /\ signals' \in Nat
    BY <2>1, SetFlagsType, Zenon DEF TypeOK
  <2>3. schedulingStarted' \in BOOLEAN /\ stop' = "done"
    BY <1>9, Zenon DEF StopPause
  <2>4. UNCHANGED <<handle, queueVars, startedCh, closed, queueUpdated, task,
                    passes, threadVars, waiter, drain, userVars>>
    BY <1>9, Zenon DEF StopPause
  <2>5. QED
    BY <2>2, <2>3, <2>4 DEF TypeOK, queueVars, threadVars, userVars
<1>10. QED
  BY <1>1, <1>2, <1>3, <1>4, <1>5, <1>6, <1>7, <1>8, <1>9 DEF Runner

(* the reply goroutine of a speech, *)
LEMMA ReplyType ==
    ASSUME TypeOK, NEW h \in Speech, Reply(h)
    PROVE  TypeOK'
<1> USE DEF ReplyStates
<1>a. handle[h] \in SpeechHandles
  BY DEF TypeOK
<1>b. h \in Waiters
  BY DEF Waiters
<1>1. CASE ReplySkip(h)
  BY <1>1 DEF TypeOK, ReplySkip, queueVars, flagVars, wakeVars, callVars, userVars
<1>2. CASE ReplyEnter(h)
  BY <1>2 DEF TypeOK, ReplyEnter, queueVars, flagVars, wakeVars, callVars, userVars
<1>3. CASE ReplyBegin(h)
  <2>1. handle' \in [Speech -> SpeechHandles]
    BY <1>3, <1>a, HandleOpsType DEF TypeOK, ReplyBegin
  <2>2. \/ reply' = [reply EXCEPT ![h] = "finish"]
        \/ reply' = [reply EXCEPT ![h] = "speak"]
    BY <1>3, Zenon DEF ReplyBegin
  <2>3. QED
    BY <1>3, <2>1, <2>2
       DEF TypeOK, ReplyBegin, queueVars, flagVars, wakeVars, callVars, userVars
<1>4. CASE ReplySettle(h)
  <2>1. handle' \in [Speech -> SpeechHandles]
    BY <1>4, <1>a, HandleOpsType DEF TypeOK, ReplySettle
  <2>2. QED
    BY <1>4, <2>1
       DEF TypeOK, ReplySettle, queueVars, flagVars, wakeVars, callVars, userVars
<1>5. CASE ReplyGiveUp(h)
  BY <1>5 DEF TypeOK, ReplyGiveUp, queueVars, flagVars, wakeVars, callVars, userVars
<1>6. CASE ReplyToolsDone(h)
  <2>1. waiter' \in [Waiters -> WaiterRecords]
    BY <1>6, <1>b, WaiterRecordsType DEF TypeOK, ReplyToolsDone, WaiterRecords
  <2>2. QED
    BY <1>6, <2>1 DEF TypeOK, ReplyToolsDone, queueVars, flagVars, wakeVars,
                      callVars, userVars, WaiterRecords
<1>7. CASE ReplyContinue(h)
  <2>1. waiter' \in [Waiters -> WaiterRecords]
    BY <1>7, <1>b, WaiterRecordsType DEF TypeOK, ReplyContinue, WaiterRecords
  <2>2. \/ /\ handle' = [handle EXCEPT ![h] =
                           AuthorizeGeneration(IncrementStep(@))]
           /\ reply' = [reply EXCEPT ![h] = "resume"]
        \/ /\ reply' = [reply EXCEPT ![h] = "finish"]
           /\ UNCHANGED handle
    BY <1>7, Zenon DEF ReplyContinue
  <2>3. handle' \in [Speech -> SpeechHandles]
    BY <2>2, <1>a, HandleOpsType DEF TypeOK
  <2>4. reply' \in [Speech -> ReplyStates]
    BY <2>2 DEF TypeOK
  <2>5. QED
    BY <1>7, <2>1, <2>3, <2>4 DEF TypeOK, ReplyContinue, queueVars, flagVars,
                                  wakeVars, callVars, userVars, WaiterRecords
<1>8. CASE ReplyResume(h)
  <2>1. currentSpeech' \in Speech \cup {None}
    BY <1>8 DEF TypeOK, ReplyResume
  <2>2. QED
    BY <1>8, <2>1 DEF TypeOK, ReplyResume, flagVars, wakeVars, callVars, userVars
<1>9. CASE ReplyFinish(h)
  <2>1. handle' \in [Speech -> SpeechHandles]
    BY <1>9, <1>a, HandleOpsType DEF TypeOK, ReplyFinish, EndSpeech
  <2>2. QED
    BY <1>9, <2>1 DEF TypeOK, ReplyFinish, EndSpeech, queueVars, flagVars,
                      wakeVars, callVars, userVars
<1>10. QED
  BY <1>1, <1>2, <1>3, <1>4, <1>5, <1>6, <1>7, <1>8, <1>9 DEF Reply

(* the watcher, the done callback and the timer of a speech, *)
LEMMA EndingType ==
    ASSUME TypeOK, NEW h \in Speech, Ending(h)
    PROVE  TypeOK'
<1>1. CASE Watch(h)
  BY <1>1 DEF TypeOK, Watch, flagVars, callVars, userVars
<1>2. CASE OnPipelineReplyDone(h)
  <2>1. currentSpeech' = None \/ currentSpeech' = currentSpeech
    BY <1>2, Zenon DEF OnPipelineReplyDone
  <2>2. passes' = passes + 1 \/ passes' = passes
    BY <1>2, Zenon DEF OnPipelineReplyDone
  <2>3. QED
    BY <1>2, <2>1, <2>2 DEF TypeOK, OnPipelineReplyDone, flagVars, callVars, userVars
<1>3. CASE TimeoutFires(h)
  <2>1. handle' \in [Speech -> SpeechHandles]
    BY <1>3, HandleOpsType DEF TypeOK, TimeoutFires, EndSpeech
  <2>2. QED
    BY <1>3, <2>1 DEF TypeOK, TimeoutFires, EndSpeech, queueVars, flagVars,
                      wakeVars, callVars, userVars
<1>4. QED
  BY <1>1, <1>2, <1>3 DEF Ending

(* and a call of WaitForInactive. *)
LEMMA WaitingType ==
    ASSUME TypeOK, NEW w \in Waiters, Waiting(w)
    PROVE  TypeOK'
<1>a. waiter \in [Waiters -> WaiterRecords]
  BY DEF TypeOK, WaiterRecords
<1>b. ActiveSpeech \subseteq Speech
  BY DEF ActiveSpeech
<1>1. CASE WaiterPass(w)
  <2>1. waiter' \in [Waiters -> WaiterRecords]
    BY <1>1, <1>a DEF WaiterPass, WaiterRecords, WaiterStates
  <2>2. QED
    BY <1>1, <2>1, ProcessQueueType
       DEF TypeOK, WaiterPass, flagVars, wakeVars, callVars, userVars, WaiterRecords
<1>2. CASE WaiterSnapshot(w)
  <2>1. \E at \in {"next", "start", "user", "returned"} :
          waiter' = [waiter EXCEPT ![w] =
                       [@ EXCEPT !.todo = ActiveSpeech, !.at = at]]
    BY <1>2 DEF WaiterSnapshot
  <2>2. waiter' \in [Waiters -> WaiterRecords]
    <3>1. waiter[w] \in WaiterRecords
      BY <1>a
    <3>2. \A at \in {"next", "start", "user", "returned"} :
            [waiter[w] EXCEPT !.todo = ActiveSpeech, !.at = at] \in WaiterRecords
      BY <3>1, <1>b DEF WaiterRecords, WaiterStates
    <3>3. QED
      BY <2>1, <1>a, <3>2
  <2>3. UNCHANGED <<handle, queueVars, flagVars, wakeVars, threadVars, callVars>>
    BY <1>2, Zenon DEF WaiterSnapshot
  <2>4. QED
    BY <2>2, <2>3 DEF TypeOK, queueVars, flagVars, wakeVars, threadVars,
                      callVars, userVars, WaiterRecords
<1>3. CASE WaiterWoken(w)
  <2>1. waiter' \in [Waiters -> WaiterRecords]
    BY <1>3, <1>a, WaiterRecordsType DEF WaiterWoken
  <2>2. userTurnUpdated' \in BOOLEAN
    BY <1>3, Zenon DEF TypeOK, WaiterWoken
  <2>3. QED
    BY <1>3, <2>1, <2>2 DEF TypeOK, WaiterWoken, queueVars, flagVars, wakeVars,
                            threadVars, WaiterRecords
<1>4. CASE WaiterNext(w)
  <2>1. waiter' \in [Waiters -> WaiterRecords]
    <3>1. CASE waiter' = [waiter EXCEPT ![w] = Entering]
      BY <3>1, <1>a, WaiterRecordsType
    <3>2. CASE \E h \in waiter[w].todo :
                 waiter' = [waiter EXCEPT ![w] =
                              [at |-> "blocked", todo |-> @.todo \ {h},
                               target |-> h, gen |-> handle[h].gens]]
      <4>1. PICK h \in waiter[w].todo :
                 waiter' = [waiter EXCEPT ![w] =
                              [at |-> "blocked", todo |-> @.todo \ {h},
                               target |-> h, gen |-> handle[h].gens]]
        BY <3>2
      <4>2. h \in Speech /\ waiter[w].todo \ {h} \subseteq Speech
        BY <1>a DEF WaiterRecords
      <4>3. handle[h].gens \in Nat
        BY <4>2 DEF TypeOK, SpeechHandles
      <4>4. [at |-> "blocked", todo |-> waiter[w].todo \ {h},
             target |-> h, gen |-> handle[h].gens] \in WaiterRecords
        BY <4>2, <4>3 DEF WaiterRecords, WaiterStates
      <4>5. QED
        BY <1>a, <4>1, <4>4
    <3>3. QED
      BY <1>4, <3>1, <3>2 DEF WaiterNext
  <2>2. QED
    BY <1>4, <2>1 DEF TypeOK, WaiterNext, queueVars, flagVars, wakeVars,
                      threadVars, callVars, userVars, WaiterRecords
<1>5. CASE WaiterProceeds(w)
  <2>1. waiter' \in [Waiters -> WaiterRecords]
    BY <1>5, <1>a DEF WaiterProceeds, WaiterRecords, WaiterStates
  <2>2. QED
    BY <1>5, <2>1, ProcessQueueType
       DEF TypeOK, WaiterProceeds, flagVars, wakeVars, callVars, userVars, WaiterRecords
<1>6. QED
  BY <1>1, <1>2, <1>3, <1>4, <1>5 DEF Waiting

(* Every reachable state of the speech queue has the types the Go          *)
(* declarations give it: no step, however the goroutines interleave,       *)
(* leaves a speech, a waiter or a counter outside them.                    *)
THEOREM TypeCorrect == Spec => []TypeOK
<1>1. TypeOK /\ [Next]_vars => TypeOK'
  <2> SUFFICES ASSUME TypeOK, [Next]_vars PROVE TypeOK'
    OBVIOUS
  <2>1. CASE Next
    BY <2>1, CallerType, RunnerType, ReplyType, EndingType, WaitingType
       DEF Next
  <2>2. CASE UNCHANGED vars
    BY <2>2 DEF TypeOK, vars, queueVars, flagVars, wakeVars, threadVars,
                callVars, userVars
  <2>3. QED
    BY <2>1, <2>2
<1>2. QED
  BY InitType, <1>1, PTL DEF Spec

-----------------------------------------------------------------------------
(* The invariant that carries FirstStepHoldsTurn and GenerationsClose.     *)
(* Neither is inductive by itself: that a picked speech is the only one in *)
(* its first step needs the queue to hold no speech that was taken before, *)
(* and that an authorization finds no open generation needs to know what   *)
(* each stage of the reply goroutine has opened and closed so far.         *)

NotStarted == {"none", "delay", "begin"}

(* ScheduleSpeech and processQueue: a speech is queued once, is not taken  *)
(* while it is queued, and was accepted before it was taken.               *)
QueuedOnce ==
    /\ \A e \in speechQueue : /\ reply[e.speech] = "none"
                              /\ handle[e.speech].scheduled
    /\ \A e, f \in speechQueue : e.speech = f.speech => e = f
    /\ \A h \in Speech : reply[h] # "none" => handle[h].scheduled

(* The turn is held by a speech whose reply goroutine was started.         *)
TurnIsTaken == currentSpeech # None => reply[currentSpeech] # "none"

(* What a reply goroutine has authorized and closed when it gets somewhere.*)
GensOf(h) ==
    /\ handle[h].open \subseteq {handle[h].gens}
    /\ reply[h] \in NotStarted => handle[h].gens = 0
    /\ reply[h] \notin NotStarted \cup {"over"} => handle[h].gens >= 1
    /\ reply[h] \in {"tools", "idle", "over"} =>
           handle[h].gens \notin handle[h].open
    /\ reply[h] = "resume" => handle[h].gens >= 2

GensOfReply == \A h \in Speech : GensOf(h)

TurnInv ==
    /\ TypeOK
    /\ QueuedOnce
    /\ TurnIsTaken
    /\ GensOfReply
    /\ FirstStepHoldsTurn

(* No speech comes into its first step by this step.                       *)
NoNewTurn == \A h \in Speech : FirstStep(h)' => FirstStep(h)

(* A step that moves no turn and neither authorizes, closes nor ends       *)
(* anything keeps the invariant.                                           *)
SameProgress ==
    \A h \in Speech : /\ handle'[h].gens = handle[h].gens
                      /\ handle'[h].open = handle[h].open
                      /\ handle'[h].done = handle[h].done
                      /\ handle'[h].scheduled = handle[h].scheduled

LEMMA QuietStep ==
    ASSUME TurnInv, TypeOK', SameProgress,
           UNCHANGED <<speechQueue, currentSpeech, reply>>
    PROVE  TurnInv' /\ NoNewTurn
<1>1. QueuedOnce'
  BY DEF TurnInv, QueuedOnce, SameProgress, TypeOK, Entries
<1>2. TurnIsTaken'
  BY DEF TurnInv, TurnIsTaken
<1>3. GensOfReply'
  BY DEF TurnInv, GensOfReply, GensOf, SameProgress
<1>4. NoNewTurn
  BY DEF NoNewTurn, FirstStep, Live, GenerationSettled, SameProgress
<1>5. FirstStepHoldsTurn'
  BY <1>4 DEF TurnInv, FirstStepHoldsTurn, NoNewTurn
<1>6. QED
  BY <1>1, <1>2, <1>3, <1>4, <1>5 DEF TurnInv

(* In particular one that leaves every handle alone. *)
LEMMA SameHandles ==
    ASSUME UNCHANGED handle
    PROVE  SameProgress
BY DEF SameProgress

(* processQueue only ever picks a speech when no other holds the turn, and *)
(* then no other is in its first step.                                     *)
LEMMA KeptHoldsTurn ==
    ASSUME TurnInv, NEW h \in Speech, FirstStep(h)
    PROVE  Kept = h /\ Kept # None
<1>1. currentSpeech = h
  BY DEF TurnInv, FirstStepHoldsTurn
<1>2. h # None
  BY SchedulingAssumption
<1>3. Live(currentSpeech)
  BY <1>1 DEF FirstStep
<1>4. QED
  BY <1>1, <1>2, <1>3 DEF Kept

(* One run of processQueue, whoever runs it. *)
LEMMA ProcessQueueInv ==
    ASSUME TurnInv, TypeOK', ProcessQueue, UNCHANGED handle
    PROVE  TurnInv'
<1>a. TypeOK
  BY DEF TurnInv
<1>1. CASE /\ currentSpeech' = Kept
           /\ UNCHANGED <<speechQueue, reply>>
  <2>1. QueuedOnce' /\ GensOfReply'
    BY <1>1 DEF TurnInv, QueuedOnce, GensOfReply, GensOf
  <2>2. TurnIsTaken'
    BY <1>1 DEF TurnInv, TurnIsTaken, Kept
  <2>3. FirstStepHoldsTurn'
    <3>1. SUFFICES ASSUME NEW h \in Speech, FirstStep(h)'
                   PROVE  currentSpeech' = h
      BY DEF FirstStepHoldsTurn
    <3>2. FirstStep(h)
      BY <1>1, <3>1 DEF FirstStep, Live
    <3>3. QED
      BY <1>1, <3>2, KeptHoldsTurn
  <2>4. QED
    BY <2>1, <2>2, <2>3 DEF TurnInv
<1>2. ASSUME Kept = None,
             NEW e \in speechQueue, speechQueue' = speechQueue \ {e},
             handle[e.speech].done,
             currentSpeech' = None, UNCHANGED reply
      PROVE  TurnInv'
  <2>1. QueuedOnce' /\ GensOfReply' /\ TurnIsTaken'
    BY <1>2 DEF TurnInv, QueuedOnce, GensOfReply, GensOf,
                TurnIsTaken
  <2>2. FirstStepHoldsTurn'
    <3>1. SUFFICES ASSUME NEW h \in Speech, FirstStep(h)'
                   PROVE  FALSE
      BY DEF FirstStepHoldsTurn
    <3>2. FirstStep(h)
      BY <1>2, <3>1 DEF FirstStep, Live
    <3>3. QED
      BY <1>2, <3>2, KeptHoldsTurn
  <2>3. QED
    BY <2>1, <2>2 DEF TurnInv
<1>3. ASSUME Kept = None,
             NEW e \in speechQueue, speechQueue' = speechQueue \ {e},
             ~handle[e.speech].done,
             currentSpeech' = e.speech,
             reply' = [reply EXCEPT ![e.speech] = "delay"]
      PROVE  TurnInv'
  <2>a. e.speech \in Speech
    BY <1>a DEF TypeOK, Entries
  <2>b. reply \in [Speech -> ReplyStates]
    BY <1>a DEF TypeOK
  <2>c. reply[e.speech] = "none" /\ handle[e.speech].scheduled
    BY DEF TurnInv, QueuedOnce
  <2>d. \A h \in Speech : reply'[h] = IF h = e.speech THEN "delay" ELSE reply[h]
    BY <1>3, <2>b
  <2>1. QueuedOnce'
    <3>1. ASSUME NEW f \in speechQueue'
          PROVE  reply'[f.speech] = "none" /\ handle'[f.speech].scheduled
      <4>1. f \in speechQueue /\ f # e
        BY <1>3
      <4>2. f.speech # e.speech /\ f.speech \in Speech
        BY <4>1, <1>a DEF TurnInv, QueuedOnce, TypeOK, Entries
      <4>3. reply'[f.speech] = reply[f.speech]
        BY <4>2, <2>d
      <4>4. QED
        BY <4>1, <4>3 DEF TurnInv, QueuedOnce
    <3>2. \A f, g \in speechQueue' : f.speech = g.speech => f = g
      BY <1>3 DEF TurnInv, QueuedOnce
    <3>3. \A h \in Speech : reply'[h] # "none" => handle'[h].scheduled
      BY <2>c, <2>d DEF TurnInv, QueuedOnce
    <3>4. QED
      BY <3>1, <3>2, <3>3 DEF QueuedOnce
  <2>2. TurnIsTaken'
    BY <1>3, <2>a, <2>d DEF TurnIsTaken
  <2>3. GensOfReply'
    BY <2>c, <2>d DEF TurnInv, GensOfReply, GensOf, NotStarted
  <2>4. FirstStepHoldsTurn'
    <3>1. SUFFICES ASSUME NEW h \in Speech, FirstStep(h)', h # e.speech
                   PROVE  FALSE
      BY <1>3 DEF FirstStepHoldsTurn
    <3>2. reply'[h] = reply[h]
      BY <2>d, <3>1
    <3>3. FirstStep(h)
      BY <3>1, <3>2 DEF FirstStep, Live
    <3>4. QED
      BY <1>3, <3>3, KeptHoldsTurn
  <2>5. QED
    BY <2>1, <2>2, <2>3, <2>4 DEF TurnInv
<1>4. QED
  BY <1>1, <1>2, <1>3 DEF ProcessQueue

(* ScheduleSpeech: a speech it queues was neither queued nor taken before. *)
LEMMA ScheduleSpeechInv ==
    ASSUME TurnInv, TypeOK', NEW h \in Speech, NEW p \in Priorities,
           NEW force \in BOOLEAN, ScheduleSpeech(h, p, force)
    PROVE  TurnInv' /\ NoNewTurn
<1>a. TypeOK
  BY DEF TurnInv
<1>b. handle[h] \in SpeechHandles /\ handle \in [Speech -> SpeechHandles]
  BY <1>a DEF TypeOK
<1>c. UNCHANGED <<currentSpeech, reply>>
  BY Zenon DEF ScheduleSpeech, threadVars
<1>d. ~handle[h].scheduled
  BY Zenon DEF ScheduleSpeech, Fresh
<1>1. CASE /\ handle' = [handle EXCEPT ![h] = Interrupt(@, TRUE)]
           /\ UNCHANGED speechQueue
  <2>1. LET t == Interrupt(handle[h], TRUE)
        IN /\ t.gens = handle[h].gens /\ t.open = handle[h].open
           /\ t.done = handle[h].done /\ t.scheduled = handle[h].scheduled
    BY <1>b, HandleOpsEffect, Zenon
  <2>2. SameProgress
    BY <1>1, <1>b, <2>1 DEF SameProgress
  <2>3. QED
    BY <1>1, <1>c, <2>2, QuietStep
<1>2. CASE /\ handle' = [handle EXCEPT ![h] = MarkScheduled(@)]
           /\ speechQueue' = speechQueue \cup
                 {[speech |-> h, priority |-> p, seq |-> nextSpeechSeq]}
  <2>1. \A g \in Speech : /\ handle'[g].gens = handle[g].gens
                          /\ handle'[g].open = handle[g].open
                          /\ handle'[g].done = handle[g].done
                          /\ handle[g].scheduled => handle'[g].scheduled
    BY <1>2, <1>b DEF MarkScheduled, SpeechHandles
  <2>2. handle'[h].scheduled
    BY <1>2, <1>b DEF MarkScheduled, SpeechHandles
  <2>3. reply[h] = "none" /\ \A e \in speechQueue : e.speech # h
    BY <1>d DEF TurnInv, QueuedOnce
  <2>4. QueuedOnce'
    <3>1. \A e \in speechQueue' : /\ reply'[e.speech] = "none"
                                  /\ handle'[e.speech].scheduled
      BY <1>2, <1>a, <1>c, <2>1, <2>2, <2>3
         DEF TurnInv, QueuedOnce, TypeOK, Entries
    <3>2. \A e, f \in speechQueue' : e.speech = f.speech => e = f
      BY <1>2, <2>3 DEF TurnInv, QueuedOnce
    <3>3. \A g \in Speech : reply'[g] # "none" => handle'[g].scheduled
      BY <1>c, <2>1 DEF TurnInv, QueuedOnce
    <3>4. QED
      BY <3>1, <3>2, <3>3 DEF QueuedOnce
  <2>5. TurnIsTaken' /\ GensOfReply'
    BY <1>c, <2>1 DEF TurnInv, TurnIsTaken, GensOfReply, GensOf
  <2>6. NoNewTurn
    BY <1>c, <2>1 DEF NoNewTurn, FirstStep, Live, GenerationSettled
  <2>7. FirstStepHoldsTurn'
    BY <1>c, <2>6 DEF TurnInv, FirstStepHoldsTurn, NoNewTurn
  <2>8. QED
    BY <2>4, <2>5, <2>6, <2>7 DEF TurnInv
<1>3. QED
  BY <1>1, <1>2, Zenon DEF ScheduleSpeech

(* Interrupt touches none of the fields the invariant reads. *)
LEMMA InterruptSame ==
    ASSUME NEW s \in SpeechHandles, NEW force \in BOOLEAN
    PROVE  LET t == Interrupt(s, force)
           IN /\ t.gens = s.gens /\ t.open = s.open
              /\ t.done = s.done /\ t.scheduled = s.scheduled
BY HandleOpsEffect, Zenon

(* Every step of a caller. *)
LEMMA CallerInv == TurnInv /\ TypeOK' /\ Caller => TurnInv' /\ NoNewTurn
<1> SUFFICES ASSUME TurnInv, TypeOK', Caller PROVE TurnInv' /\ NoNewTurn
  OBVIOUS
<1>a. handle \in [Speech -> SpeechHandles]
  BY DEF TurnInv, TypeOK
<1>1. ASSUME NEW force \in BOOLEAN, InterruptActivity(force)
      PROVE  TurnInv' /\ NoNewTurn
  <2>1. ASSUME NEW g \in Speech
        PROVE  handle'[g] = handle[g] \/ handle'[g] = Interrupt(handle[g], force)
    BY <1>1 DEF InterruptActivity
  <2>2. SameProgress
    BY <1>a, <2>1, InterruptSame DEF SameProgress
  <2>3. UNCHANGED <<speechQueue, currentSpeech, reply>>
    BY <1>1 DEF InterruptActivity, queueVars, threadVars
  <2>4. QED
    BY <2>2, <2>3, QuietStep
<1>2. ASSUME NEW h \in Speech, NEW force \in BOOLEAN, InterruptSpeech(h, force)
      PROVE  TurnInv' /\ NoNewTurn
  <2>1. ASSUME NEW g \in Speech
        PROVE  handle'[g] = handle[g] \/ handle'[g] = Interrupt(handle[g], force)
    BY <1>2, <1>a DEF InterruptSpeech
  <2>2. SameProgress
    BY <1>a, <2>1, InterruptSame DEF SameProgress
  <2>3. UNCHANGED <<speechQueue, currentSpeech, reply>>
    BY <1>2 DEF InterruptSpeech, queueVars, threadVars
  <2>4. QED
    BY <2>2, <2>3, QuietStep
<1>3. CASE PauseScheduling \/ ResumeScheduling \/ DrainBegin \/ StopCancel
             \/ UserTurn \/ CommitUserTurn
  <2>1. UNCHANGED <<handle, queueVars, threadVars>>
    BY <1>3, Zenon DEF PauseScheduling, ResumeScheduling, DrainBegin,
                       StopCancel, UserTurn, CommitUserTurn
  <2>2. UNCHANGED <<handle, speechQueue, currentSpeech, reply>>
    BY <2>1 DEF queueVars, threadVars
  <2>3. QED
    BY <2>2, QuietStep, SameHandles
<1>4. QED
  BY <1>1, <1>2, <1>3, ScheduleSpeechInv DEF Caller

(* Every step of the scheduling task, and of Drain and Stop. *)
LEMMA RunnerInv == TurnInv /\ TypeOK' /\ Runner => TurnInv'
<1> SUFFICES ASSUME TurnInv, TypeOK', Runner PROVE TurnInv'
  OBVIOUS
<1>1. CASE TaskPass \/ Pass
  BY <1>1, ProcessQueueInv DEF TaskPass, Pass
<1>2. CASE Start \/ Signal \/ TaskReceive \/ TaskEnd \/ DrainClear
             \/ DrainPause \/ StopPause
  <2>1. UNCHANGED <<handle, queueVars, threadVars>>
    BY <1>2, Zenon DEF Start, Signal, TaskReceive, TaskEnd, DrainClear,
                       DrainPause, StopPause
  <2>2. UNCHANGED <<handle, speechQueue, currentSpeech, reply>>
    BY <2>1 DEF queueVars, threadVars
  <2>3. QED
    BY <2>2, QuietStep, SameHandles
<1>3. QED
  BY <1>1, <1>2 DEF Runner

(* Every step of a call of WaitForInactive. *)
LEMMA WaitingInv ==
    ASSUME TurnInv, TypeOK', NEW w \in Waiters, Waiting(w)
    PROVE  TurnInv'
<1>1. CASE WaiterPass(w) \/ WaiterProceeds(w)
  BY <1>1, ProcessQueueInv DEF WaiterPass, WaiterProceeds
<1>2. CASE WaiterSnapshot(w) \/ WaiterWoken(w) \/ WaiterNext(w)
  <2>1. UNCHANGED <<handle, queueVars, threadVars>>
    BY <1>2, Zenon DEF WaiterSnapshot, WaiterWoken, WaiterNext
  <2>2. UNCHANGED <<handle, speechQueue, currentSpeech, reply>>
    BY <2>1 DEF queueVars, threadVars
  <2>3. QED
    BY <2>2, QuietStep, SameHandles
<1>3. QED
  BY <1>1, <1>2 DEF Waiting

(* A step of one speech that leaves the queue and the turn alone.          *)
LEMMA OneSpeechStep ==
    ASSUME TurnInv, TypeOK', NEW h \in Speech,
           UNCHANGED <<speechQueue, currentSpeech>>,
           \A g \in Speech \ {h} :
               /\ handle'[g] = handle[g]
               /\ reply'[g] = reply[g],
           handle'[h].scheduled = handle[h].scheduled,
           reply[h] = "none" <=> reply'[h] = "none",
           GensOf(h)',
           FirstStep(h)' => FirstStep(h)
    PROVE  TurnInv' /\ NoNewTurn
<1>a. TypeOK
  BY DEF TurnInv
<1>1. QueuedOnce'
  BY <1>a DEF TurnInv, QueuedOnce, TypeOK, Entries
<1>2. TurnIsTaken'
  BY <1>a DEF TurnInv, TurnIsTaken, TypeOK
<1>3. GensOfReply'
  <2>1. SUFFICES ASSUME NEW g \in Speech \ {h} PROVE GensOf(g)'
    BY DEF GensOfReply
  <2>2. GensOf(g)
    BY DEF TurnInv, GensOfReply
  <2>3. QED
    BY <2>1, <2>2 DEF GensOf
<1>4. NoNewTurn
  <2>1. SUFFICES ASSUME NEW g \in Speech, FirstStep(g)'
                 PROVE  FirstStep(g)
    BY DEF NoNewTurn
  <2>2. CASE g = h
    BY <2>1, <2>2
  <2>3. CASE g # h
    BY <2>1, <2>3 DEF FirstStep, Live
  <2>4. QED
    BY <2>2, <2>3
<1>5. FirstStepHoldsTurn'
  BY <1>4 DEF TurnInv, FirstStepHoldsTurn, NoNewTurn
<1>6. QED
  BY <1>1, <1>2, <1>3, <1>4, <1>5 DEF TurnInv

(* MarkDone, wherever the reply goroutine is and even before there is one. *)
LEMMA EndSpeechInv ==
    ASSUME TurnInv, TypeOK', NEW h \in Speech, EndSpeech(h),
           UNCHANGED <<speechQueue, currentSpeech>>,
           \/ UNCHANGED reply
           \/ reply[h] = "finish" /\ reply' = [reply EXCEPT ![h] = "over"]
    PROVE  TurnInv' /\ NoNewTurn
<1>a. TypeOK
  BY DEF TurnInv
<1>b. handle[h] \in SpeechHandles /\ handle \in [Speech -> SpeechHandles]
      /\ reply \in [Speech -> ReplyStates]
  BY <1>a DEF TypeOK
<1>1. /\ handle'[h].gens = handle[h].gens
      /\ handle'[h].open = handle[h].open \ {handle[h].gens}
      /\ handle'[h].done
      /\ handle'[h].scheduled = handle[h].scheduled
  BY <1>b DEF EndSpeech, MarkDone, CloseGeneration, SpeechHandles
<1>2. \A g \in Speech \ {h} : handle'[g] = handle[g] /\ reply'[g] = reply[g]
  BY <1>b DEF EndSpeech
<1>3. /\ reply'[h] = reply[h] \/ (reply[h] = "finish" /\ reply'[h] = "over")
  BY <1>b
<1>4. GensOf(h)
  BY DEF TurnInv, GensOfReply
<1>5. GensOf(h)'
  BY <1>1, <1>3, <1>4 DEF GensOf, NotStarted
<1>6. ~FirstStep(h)'
  BY <1>1 DEF FirstStep, Live
<1>7. QED
  BY <1>1, <1>2, <1>3, <1>5, <1>6, OneSpeechStep

(* The watcher and the callback release the turn of a done speech only. *)
LEMMA EndingInv ==
    ASSUME TurnInv, TypeOK', NEW h \in Speech, Ending(h)
    PROVE  TurnInv' /\ NoNewTurn
<1>a. TypeOK
  BY DEF TurnInv
<1>1. ASSUME UNCHANGED <<handle, speechQueue, reply>>,
             \/ UNCHANGED currentSpeech
             \/ currentSpeech = h /\ handle[h].done /\ currentSpeech' = None
      PROVE  TurnInv' /\ NoNewTurn
  <2>1. CASE UNCHANGED currentSpeech
    BY <1>1, <2>1, QuietStep, SameHandles
  <2>2. CASE currentSpeech = h /\ handle[h].done /\ currentSpeech' = None
    <3>1. QueuedOnce' /\ TurnIsTaken' /\ GensOfReply'
      BY <1>1, <2>2 DEF TurnInv, QueuedOnce, TurnIsTaken, GensOfReply, GensOf
    <3>2. FirstStepHoldsTurn'
      <4>1. SUFFICES ASSUME NEW g \in Speech, FirstStep(g)' PROVE FALSE
        BY DEF FirstStepHoldsTurn
      <4>2. FirstStep(g)
        BY <1>1, <4>1 DEF FirstStep, Live
      <4>3. g = h
        BY <2>2, <4>2 DEF TurnInv, FirstStepHoldsTurn
      <4>4. QED
        BY <2>2, <4>2, <4>3 DEF FirstStep, Live
    <3>3. NoNewTurn
      BY <1>1 DEF NoNewTurn, FirstStep, Live
    <3>4. QED
      BY <3>1, <3>2, <3>3 DEF TurnInv
  <2>3. QED
    BY <1>1, <2>1, <2>2
<1>2. CASE Watch(h)
  <2>1. UNCHANGED <<handle, speechQueue, reply>>
    BY <1>2 DEF Watch
  <2>2. \/ UNCHANGED currentSpeech
        \/ currentSpeech = h /\ handle[h].done /\ currentSpeech' = None
    BY <1>2, Zenon DEF Watch
  <2>3. QED
    BY <1>1, <2>1, <2>2
<1>3. CASE OnPipelineReplyDone(h)
  <2>1. UNCHANGED <<handle, speechQueue, reply>>
    BY <1>3, Zenon DEF OnPipelineReplyDone
  <2>2. \/ UNCHANGED currentSpeech
        \/ currentSpeech = h /\ handle[h].done /\ currentSpeech' = None
    BY <1>3, Zenon DEF OnPipelineReplyDone
  <2>3. QED
    BY <1>1, <2>1, <2>2
<1>4. CASE TimeoutFires(h)
  BY <1>4, EndSpeechInv DEF TimeoutFires, queueVars
<1>5. QED
  BY <1>2, <1>3, <1>4 DEF Ending

(* Every step of a reply goroutine. *)
LEMMA ReplyInv ==
    ASSUME TurnInv, TypeOK', NEW h \in Speech, Reply(h)
    PROVE  TurnInv' /\ NoNewTurn
<1>a. TypeOK
  BY DEF TurnInv
<1>b. handle[h] \in SpeechHandles /\ handle \in [Speech -> SpeechHandles]
      /\ reply \in [Speech -> ReplyStates]
  BY <1>a DEF TypeOK
<1>c. GensOf(h)
  BY DEF TurnInv, GensOfReply
<1>d. handle[h].gens \in Nat /\ handle[h].open \subseteq Nat \ {0}
  BY <1>b DEF SpeechHandles
(* The goroutine moves on and touches no generation.                       *)
<1>1. ASSUME NEW at \in ReplyStates, reply' = [reply EXCEPT ![h] = at],
             reply[h] # "none", at # "none",
             UNCHANGED <<handle, speechQueue, currentSpeech>>,
             GensOf(h)'
      PROVE  TurnInv' /\ NoNewTurn
  <2>1. reply'[h] = at
    BY <1>1, <1>b
  <2>2. FirstStep(h)' => FirstStep(h)
    BY <1>1 DEF FirstStep, Live
  <2>3. \A g \in Speech \ {h} : handle'[g] = handle[g] /\ reply'[g] = reply[g]
    BY <1>1, <1>b
  <2>4. QED
    BY <1>1, <2>1, <2>2, <2>3, OneSpeechStep
<1>2. CASE ReplySkip(h)
  <2>1. GensOf(h)'
    BY <1>2, <1>b, <1>c, <1>d DEF ReplySkip, GensOf, NotStarted
  <2>2. QED
    BY <1>1, <1>2, <2>1 DEF ReplySkip, ReplyStates, queueVars
<1>3. CASE ReplyEnter(h)
  <2>1. GensOf(h)'
    BY <1>3, <1>b, <1>c DEF ReplyEnter, GensOf, NotStarted
  <2>2. QED
    BY <1>1, <1>3, <2>1 DEF ReplyEnter, ReplyStates, queueVars
<1>4. CASE ReplyGiveUp(h)
  <2>1. GensOf(h)'
    BY <1>4, <1>b, <1>c DEF ReplyGiveUp, GensOf, NotStarted
  <2>2. QED
    BY <1>1, <1>4, <2>1 DEF ReplyGiveUp, ReplyStates, queueVars
<1>5. CASE ReplyToolsDone(h)
  <2>1. GensOf(h)'
    BY <1>5, <1>b, <1>c DEF ReplyToolsDone, GensOf, NotStarted
  <2>2. QED
    BY <1>1, <1>5, <2>1 DEF ReplyToolsDone, ReplyStates, queueVars
(* The first generation is authorized: none was open.                      *)
<1>6. CASE ReplyBegin(h)
  <2>1. /\ handle'[h].gens = 1 /\ handle'[h].open = {1}
        /\ handle'[h].done = handle[h].done
        /\ handle'[h].scheduled = handle[h].scheduled
        /\ handle[h].gens = 0
    <3>1. handle[h].gens = 0 /\ handle[h].open = {}
      BY <1>6, <1>c, <1>d DEF ReplyBegin, GensOf, NotStarted
    <3>2. handle'[h] = AuthorizeGeneration(handle[h])
      BY <1>6, <1>b DEF ReplyBegin
    <3>3. QED
      BY <3>1, <3>2, <1>b DEF AuthorizeGeneration, SpeechHandles
  <2>2. reply[h] = "begin" /\ UNCHANGED <<speechQueue, currentSpeech>>
    BY <1>6 DEF ReplyBegin, queueVars
  <2>3. \/ reply' = [reply EXCEPT ![h] = "finish"]
        \/ reply' = [reply EXCEPT ![h] = "speak"]
    BY <1>6, Zenon DEF ReplyBegin
  <2>4. reply'[h] \in {"finish", "speak"}
    BY <2>3, <1>b
  <2>5. GensOf(h)'
    BY <2>1, <2>4 DEF GensOf, NotStarted
  <2>6. FirstStep(h)' => FirstStep(h)
    BY <2>1, <2>2, <1>d DEF FirstStep, Live, GenerationSettled
  <2>7. \A g \in Speech \ {h} : handle'[g] = handle[g] /\ reply'[g] = reply[g]
    BY <1>6, <2>3, <1>b DEF ReplyBegin
  <2>8. QED
    BY <2>1, <2>2, <2>4, <2>5, <2>6, <2>7, OneSpeechStep
(* The newest generation is closed, and it was the only open one.          *)
<1>7. CASE ReplySettle(h)
  <2>1. /\ handle'[h].gens = handle[h].gens
        /\ handle'[h].open = handle[h].open \ {handle[h].gens}
        /\ handle'[h].done = handle[h].done
        /\ handle'[h].scheduled = handle[h].scheduled
    <3>1. handle'[h] = MarkGenerationDone(handle[h])
      BY <1>7, <1>b DEF ReplySettle
    <3>2. QED
      BY <3>1, <1>b DEF MarkGenerationDone, CloseGeneration, SpeechHandles
  <2>2. /\ reply[h] = "speak" /\ reply'[h] = "tools"
        /\ UNCHANGED <<speechQueue, currentSpeech>>
    BY <1>7, <1>b DEF ReplySettle, queueVars
  <2>3. GensOf(h)'
    BY <2>1, <2>2, <1>c DEF GensOf, NotStarted
  <2>4. handle[h].gens >= 1
    BY <2>2, <1>c DEF GensOf, NotStarted
  <2>5. ~FirstStep(h)'
    BY <2>1, <2>4, <1>d DEF FirstStep, Live, GenerationSettled
  <2>6. \A g \in Speech \ {h} : handle'[g] = handle[g] /\ reply'[g] = reply[g]
    BY <1>7, <1>b DEF ReplySettle
  <2>7. QED
    BY <2>1, <2>2, <2>3, <2>5, <2>6, OneSpeechStep
(* A later generation is authorized: the earlier ones are closed, and the  *)
(* speech is no longer in its first step.                                  *)
<1>8. CASE ReplyContinue(h)
  <2>1. reply[h] = "idle" /\ UNCHANGED <<speechQueue, currentSpeech>>
    BY <1>8 DEF ReplyContinue, queueVars
  <2>2. CASE /\ handle' = [handle EXCEPT ![h] =
                             AuthorizeGeneration(IncrementStep(@))]
             /\ reply' = [reply EXCEPT ![h] = "resume"]
    <3>1. handle'[h] = AuthorizeGeneration(IncrementStep(handle[h]))
      BY <2>2, <1>b
    <3>2. /\ handle'[h].gens = handle[h].gens + 1
          /\ handle'[h].open = handle[h].open \cup {handle[h].gens + 1}
          /\ handle'[h].scheduled = handle[h].scheduled
      BY <3>1, <1>b DEF AuthorizeGeneration, IncrementStep, SpeechHandles
    <3>3. handle[h].gens >= 1 /\ handle[h].open = {}
      BY <2>1, <1>c DEF GensOf, NotStarted
    <3>4. reply'[h] = "resume"
      BY <2>2, <1>b
    <3>5. GensOf(h)'
      BY <3>2, <3>3, <3>4, <1>d DEF GensOf, NotStarted
    <3>6. ~FirstStep(h)'
      BY <3>2, <3>3, <1>d DEF FirstStep
    <3>7. \A g \in Speech \ {h} : handle'[g] = handle[g] /\ reply'[g] = reply[g]
      BY <2>2, <1>b
    <3>8. QED
      BY <2>1, <3>2, <3>4, <3>5, <3>6, <3>7, OneSpeechStep
  <2>3. CASE UNCHANGED handle /\ reply' = [reply EXCEPT ![h] = "finish"]
    <3>1. GensOf(h)'
      BY <2>1, <2>3, <1>b, <1>c DEF GensOf, NotStarted
    <3>2. QED
      BY <1>1, <2>1, <2>3, <3>1 DEF ReplyStates
  <2>4. QED
    BY <1>8, <2>2, <2>3, Zenon DEF ReplyContinue
(* The turn is taken back only when nobody is in a first step.             *)
<1>9. CASE ReplyResume(h)
  <2>1. /\ reply[h] = "resume" /\ reply' = [reply EXCEPT ![h] = "speak"]
        /\ UNCHANGED <<handle, speechQueue>>
        /\ currentSpeech' = IF Kept = None THEN h ELSE currentSpeech
    BY <1>9 DEF ReplyResume
  <2>2. \A g \in Speech : reply'[g] = IF g = h THEN "speak" ELSE reply[g]
    BY <2>1, <1>b
  <2>3. QueuedOnce'
    BY <2>1, <2>2, <1>a DEF TurnInv, QueuedOnce, TypeOK, Entries
  <2>4. TurnIsTaken'
    BY <2>1, <2>2, <1>a DEF TurnInv, TurnIsTaken, TypeOK
  <2>5. GensOfReply'
    BY <2>1, <2>2, <1>d DEF TurnInv, GensOfReply, GensOf, NotStarted
  <2>6. handle[h].gens >= 2
    BY <2>1, <1>c DEF GensOf
  <2>7. NoNewTurn
    BY <2>1, <2>2, <2>6, <1>d DEF NoNewTurn, FirstStep, Live
  <2>8. FirstStepHoldsTurn'
    <3>1. SUFFICES ASSUME NEW g \in Speech, FirstStep(g)'
                   PROVE  currentSpeech' = g
      BY DEF FirstStepHoldsTurn
    <3>2. FirstStep(g)
      BY <2>7, <3>1 DEF NoNewTurn
    <3>3. Kept # None /\ currentSpeech = g
      BY <3>2, KeptHoldsTurn DEF TurnInv, FirstStepHoldsTurn
    <3>4. QED
      BY <2>1, <3>3
  <2>9. QED
    BY <2>3, <2>4, <2>5, <2>7, <2>8 DEF TurnInv
<1>10. CASE ReplyFinish(h)
  BY <1>10, EndSpeechInv DEF ReplyFinish, queueVars
<1>11. QED
  BY <1>2, <1>3, <1>4, <1>5, <1>6, <1>7, <1>8, <1>9, <1>10 DEF Reply

(* An activity starts with an empty queue and nobody in turn. *)
LEMMA TurnInvInit == Init => TurnInv
<1> SUFFICES ASSUME Init PROVE TurnInv
  OBVIOUS
<1>1. TypeOK
  BY InitType
<1>2. \A h \in Speech : /\ handle[h].gens = 0 /\ handle[h].open = {}
                        /\ reply[h] = "none"
  BY DEF Init, NewSpeechHandle
<1>3. QueuedOnce /\ TurnIsTaken
  BY <1>2 DEF Init, QueuedOnce, TurnIsTaken
<1>4. GensOfReply
  BY <1>2 DEF GensOfReply, GensOf, NotStarted
<1>5. FirstStepHoldsTurn
  BY <1>2 DEF FirstStepHoldsTurn, FirstStep
<1>6. QED
  BY <1>1, <1>3, <1>4, <1>5 DEF TurnInv

(* TurnInv is inductive. *)
LEMMA TurnInvStep == TurnInv /\ TypeOK' /\ [Next]_vars => TurnInv'
<1> SUFFICES ASSUME TurnInv, TypeOK', [Next]_vars PROVE TurnInv'
  OBVIOUS
<1>1. CASE Next
  BY <1>1, CallerInv, RunnerInv, ReplyInv, EndingInv, WaitingInv DEF Next
<1>2. CASE UNCHANGED vars
  BY <1>2, QuietStep, SameHandles DEF vars, queueVars, threadVars
<1>3. QED
  BY <1>1, <1>2

(* TurnInv holds whatever the callers, the task, the reply goroutines and  *)
(* the waiters of an activity do.                                          *)
THEOREM TurnInvariant == Spec => []TurnInv
BY TurnInvInit, TurnInvStep, TypeCorrect, PTL DEF Spec

(* For any number of speeches, priorities and callers: a speech that was   *)
(* taken from the queue and has not yet settled its first generation is    *)
(* the current speech, so two queued speeches never play at once.          *)
THEOREM TurnHeld == Spec => []FirstStepHoldsTurn
<1>1. TurnInv => FirstStepHoldsTurn
  BY DEF TurnInv
<1>2. QED
  BY <1>1, TurnInvariant, PTL

(* For any number of speeches and steps: at most the newest generation of  *)
(* a speech is open, and none is once its reply goroutine has ended, so a  *)
(* waiter never blocks on a generation that nobody will close.             *)
THEOREM GenerationsAreClosed == Spec => []GenerationsClose
<1>1. TurnInv => GenerationsClose
  BY DEF TurnInv, GensOfReply, GensOf, GenerationsClose
<1>2. QED
  BY <1>1, TurnInvariant, PTL
=============================================================================
