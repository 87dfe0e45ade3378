-------------------------- MODULE SpeechTurnsProofs --------------------------
(***************************************************************************)
(* SpeechScheduling implements SpeechTurns, for every set of speeches and  *)
(* priorities, every bound and every choice of what the environment does:  *)
(* whoever runs processQueue, and however the goroutines interleave, seen  *)
(* from outside the queue hands out one turn at a time, by priority and    *)
(* then by arrival.                                                        *)
(***************************************************************************)
EXTENDS SpeechSchedulingProofs

(* The mapping: who has the turn is who is in its first step.              *)
InTurn == {h \in Speech : FirstStep(h)}

TurnsStep == [Turns!Next]_(Turns!vars)

-----------------------------------------------------------------------------
(* At most the current speech has the turn. *)
LEMMA OneInTurn ==
    ASSUME TurnInv
    PROVE  InTurn = {} \/ InTurn = {currentSpeech}
BY DEF TurnInv, FirstStepHoldsTurn, InTurn

(* A step after which no new speech has the turn, and that leaves the      *)
(* queue alone, either changes nothing that is seen or yields the turn.    *)
LEMMA NoNewTurnMaps ==
    ASSUME TurnInv, NoNewTurn, UNCHANGED <<speechQueue, nextSpeechSeq>>
    PROVE  TurnsStep
<1>1. InTurn' \subseteq InTurn
  BY DEF NoNewTurn, InTurn
<1>2. InTurn' = InTurn \/ (InTurn # {} /\ InTurn' = {})
  BY <1>1, OneInTurn
<1>3. CASE InTurn' = InTurn
  BY <1>3 DEF TurnsStep, Turns!vars, InTurn
<1>4. CASE InTurn # {} /\ InTurn' = {}
  <2>1. Turns!Yield
    BY <1>4 DEF Turns!Yield, InTurn
  <2>2. QED
    BY <2>1 DEF TurnsStep, Turns!Next
<1>5. QED
  BY <1>2, <1>3, <1>4

(* An accepted speech joins the line; a rejected one is not seen.          *)
LEMMA ScheduleSpeechMaps ==
    ASSUME TurnInv, TypeOK', NEW h \in Speech, NEW p \in Priorities,
           NEW force \in BOOLEAN, ScheduleSpeech(h, p, force)
    PROVE  TurnsStep
<1>a. handle \in [Speech -> SpeechHandles]
  BY DEF TurnInv, TypeOK
<1>b. reply' = reply
  BY Zenon DEF ScheduleSpeech, threadVars
<1>1. CASE UNCHANGED <<speechQueue, nextSpeechSeq>>
  BY <1>1, ScheduleSpeechInv, NoNewTurnMaps
<1>2. CASE /\ handle' = [handle EXCEPT ![h] = MarkScheduled(@)]
           /\ speechQueue' = speechQueue \cup
                 {[speech |-> h, priority |-> p, seq |-> nextSpeechSeq]}
           /\ nextSpeechSeq' = nextSpeechSeq + 1
  <2>1. \A g \in Speech : /\ handle'[g].gens = handle[g].gens
                          /\ handle'[g].open = handle[g].open
                          /\ handle'[g].done = handle[g].done
    BY <1>2, <1>a DEF MarkScheduled, SpeechHandles
  <2>2. \A g \in Speech : FirstStep(g)' <=> FirstStep(g)
    BY <1>b, <2>1 DEF FirstStep, Live, GenerationSettled
  <2>3. InTurn' = InTurn
    BY <2>2 DEF InTurn
  <2>4. Turns!Accept(h, p)
    BY <1>2, <2>3 DEF Turns!Accept, InTurn
  <2>5. QED
    BY <2>4 DEF TurnsStep, Turns!Next
<1>3. QED
  BY <1>1, <1>2, Zenon DEF ScheduleSpeech

(* A run of processQueue takes the first in line, or drops it when it is   *)
(* over, and only when nobody has the turn.                                *)
LEMMA ProcessQueueMaps ==
    ASSUME TurnInv, TypeOK', ProcessQueue, UNCHANGED <<handle, nextSpeechSeq>>
    PROVE  TurnsStep
<1>a. TypeOK
  BY DEF TurnInv
<1>1. CASE UNCHANGED <<speechQueue, reply>>
  <2>1. NoNewTurn
    BY <1>1 DEF NoNewTurn, FirstStep, Live
  <2>2. QED
    BY <1>1, <2>1, NoNewTurnMaps
<1>2. ASSUME Kept = None,
             NEW e \in speechQueue, IsNext(e),
             speechQueue' = speechQueue \ {e},
             \/ UNCHANGED reply
             \/ /\ ~handle[e.speech].done
                /\ reply' = [reply EXCEPT ![e.speech] = "delay"]
      PROVE  TurnsStep
  <2>1. InTurn = {}
    BY <1>2, KeptHoldsTurn DEF InTurn
  <2>2. e.speech \in Speech /\ reply \in [Speech -> ReplyStates]
    BY <1>a DEF TypeOK, Entries
  <2>3. InTurn' = {} \/ InTurn' = {e.speech}
    <3>1. CASE UNCHANGED reply
      BY <2>1, <3>1 DEF InTurn, FirstStep, Live
    <3>2. CASE /\ ~handle[e.speech].done
               /\ reply' = [reply EXCEPT ![e.speech] = "delay"]
      <4>1. \A g \in Speech : FirstStep(g)' => g = e.speech
        BY <2>1, <2>2, <3>2 DEF InTurn, FirstStep, Live
      <4>2. QED
        BY <4>1 DEF InTurn
    <3>3. QED
      BY <1>2, <3>1, <3>2
  <2>4. Turns!First(e)
    BY <1>2 DEF IsNext, Turns!First
  <2>5. Turns!Take
    BY <1>2, <2>1, <2>3, <2>4 DEF Turns!Take, InTurn
  <2>6. QED
    BY <2>5 DEF TurnsStep, Turns!Next
<1>3. QED
  BY <1>1, <1>2, Zenon DEF ProcessQueue

-----------------------------------------------------------------------------
(* Every step maps to a step of SpeechTurns or to a stutter. *)
LEMMA StepMaps ==
    ASSUME TurnInv, TypeOK', [Next]_vars
    PROVE  TurnsStep
<1>1. ASSUME UNCHANGED <<handle, queueVars, threadVars>>
      PROVE  TurnsStep
  <2>1. NoNewTurn
    BY <1>1, QuietStep, SameHandles DEF queueVars, threadVars
  <2>2. QED
    BY <1>1, <2>1, NoNewTurnMaps DEF queueVars
<1>2. CASE Caller
  <2>1. ASSUME NEW h \in Speech, NEW p \in Priorities, NEW force \in BOOLEAN,
               ScheduleSpeech(h, p, force)
        PROVE  TurnsStep
    BY <2>1, ScheduleSpeechMaps
  <2>2. ASSUME UNCHANGED queueVars
        PROVE  TurnsStep
    BY <1>2, <2>2, CallerInv, NoNewTurnMaps DEF queueVars
  <2>3. ASSUME NEW force \in BOOLEAN, NEW h \in Speech,
               InterruptSpeech(h, force)
        PROVE  UNCHANGED queueVars
    BY <2>3, Zenon DEF InterruptSpeech
  <2>4. ASSUME NEW force \in BOOLEAN, InterruptActivity(force)
        PROVE  UNCHANGED queueVars
    BY <2>4, Zenon DEF InterruptActivity
  <2>5. ASSUME PauseScheduling \/ ResumeScheduling \/ DrainBegin \/ StopCancel
                 \/ UserTurn \/ CommitUserTurn
        PROVE  UNCHANGED queueVars
    BY <2>5, Zenon DEF PauseScheduling, ResumeScheduling, DrainBegin,
                       StopCancel, UserTurn, CommitUserTurn
  <2>6. QED
    BY <1>2, <2>1, <2>2, <2>3, <2>4, <2>5 DEF Caller
<1>3. CASE Runner
  <2>1. CASE TaskPass \/ Pass
    BY <2>1, ProcessQueueMaps DEF TaskPass, Pass
  <2>2. CASE Start \/ Signal \/ TaskReceive \/ TaskEnd \/ DrainClear
               \/ DrainPause \/ StopPause
    BY <1>1, <2>2, Zenon DEF Start, Signal, TaskReceive, TaskEnd, DrainClear,
                             DrainPause, StopPause
  <2>3. QED
    BY <1>3, <2>1, <2>2 DEF Runner
<1>4. ASSUME NEW h \in Speech, Reply(h)
      PROVE  TurnsStep
  <2>1. UNCHANGED <<speechQueue, nextSpeechSeq>>
    BY <1>4, Zenon DEF Reply, ReplySkip, ReplyEnter, ReplyBegin, ReplySettle,
         ReplyGiveUp, ReplyToolsDone, ReplyContinue, ReplyResume, ReplyFinish,
         queueVars
  <2>2. QED
    BY <1>4, <2>1, ReplyInv, NoNewTurnMaps
<1>5. ASSUME NEW h \in Speech, Ending(h)
      PROVE  TurnsStep
  <2>1. UNCHANGED <<speechQueue, nextSpeechSeq>>
    BY <1>5, Zenon DEF Ending, Watch, OnPipelineReplyDone, TimeoutFires,
         queueVars
  <2>2. QED
    BY <1>5, <2>1, EndingInv, NoNewTurnMaps
<1>6. ASSUME NEW w \in Waiters, Waiting(w)
      PROVE  TurnsStep
  <2>1. CASE WaiterPass(w) \/ WaiterProceeds(w)
    BY <2>1, ProcessQueueMaps DEF WaiterPass, WaiterProceeds
  <2>2. CASE WaiterSnapshot(w) \/ WaiterWoken(w) \/ WaiterNext(w)
    BY <1>1, <2>2, Zenon DEF WaiterSnapshot, WaiterWoken, WaiterNext
  <2>3. QED
    BY <1>6, <2>1, <2>2 DEF Waiting
<1>7. CASE UNCHANGED vars
  BY <1>1, <1>7 DEF vars
<1>8. QED
  BY <1>2, <1>3, <1>4, <1>5, <1>6, <1>7 DEF Next

(* ScheduleSpeech and processQueue keep what SpeechTurns promises: turns   *)
(* are taken one at a time, the most urgent speech first and in the order  *)
(* of arrival among equals, for any number of speeches and priorities.     *)
THEOREM QueueTakesTurns == Spec => TakesTurns
<1>1. Init => Turns!Init
  <2>1. ASSUME Init PROVE InTurn = {}
    BY <2>1 DEF Init, InTurn, FirstStep
  <2>2. QED
    BY <2>1 DEF Init, Turns!Init, InTurn
<1>2. TurnInv /\ TypeOK' /\ [Next]_vars => [Turns!Next]_(Turns!vars)
  BY StepMaps DEF TurnsStep
<1>3. QED
  BY <1>1, <1>2, TurnInvariant, TypeCorrect, PTL DEF Spec, TakesTurns, Turns!Spec
=============================================================================
