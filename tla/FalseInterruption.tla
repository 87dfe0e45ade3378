------------------------- MODULE FalseInterruption -------------------------
(* False interruptions (core/agent/agent_activity.go): when the user starts  *)
(* to speak, the audio output is paused instead of the agent's speech being *)
(* interrupted; a timer resumes it if the user's sound comes to nothing, a  *)
(* committed user turn interrupts it, and the end of the speech releases it. *)
(* The voice detector, the transcripts, the turn that is being committed,   *)
(* the timer's callbacks and the reply itself run on goroutines of their    *)
(* own.  They share pausedSpeech and the timer under falseInterruptionMu,   *)
(* but read the current speech and set the output outside it.  The agent's  *)
(* state is left out: an onset may find the agent speaking or thinking, the *)
(* barge-in gate may govern or not, and transcripts may be held or not.     *)
(* Timeouts last as long as they like.                                      *)
EXTENDS Naturals, FiniteSets

CONSTANTS
    Speeches,    (* how many replies are spoken: a bound                   *)
    Slot,        (* goroutines for the callbacks of the timer              *)
    None,
    Ops          (* what may happen: see AllOps                            *)

AllOps == {"transcript", "inference", "sttStart", "sttEnd", "clear", "hold",
           "await", "commit", "fail", "interrupt", "options"}

ASSUME FalseInterruptionAssumption ==
    /\ Speeches \in Nat
    /\ Ops \subseteq AllOps
    /\ IsFiniteSet(Slot)
    /\ Slot \cap {"vad", "stt", "turn", "reply"} = {}
    /\ None \notin Slot \cup {"vad", "stt", "turn", "reply"}

(* The voice detector, and the transcripts' stream with whoever else tells *)
(* the activity of the user's speech.                                      *)
Listener == {"vad", "stt"}

Thread == {"vad", "stt", "turn", "reply"} \cup Slot
Speech == 1..Speeches

VARIABLES
    speaking,    (* the user speaks                                        *)
    boundary,    (* who holds speechBoundaryMu                             *)
    current,     (* currentSpeech; 0 is nil                                *)
    over, stopped, (* the speeches that are done, and those interrupted    *)
    silent,      (* the audio output is paused                             *)
    pause,       (* pausedSpeech                                           *)
    armed,       (* falseInterruptionTimer is set                          *)
    held,        (* heldSTTEvents has a real utterance                     *)
    at           (* what each goroutine is doing                           *)

userVars  == <<speaking, boundary>>
replyVars == <<current, over, stopped>>
outVars   == <<silent, held>>
timerVars == <<pause, armed>>
vars == <<userVars, replyVars, outVars, timerVars, at>>

NoPause == [speech |-> 0, awaited |-> FALSE]

(* A goroutine: where it is, the speech it has read or whose pause it has  *)
(* taken, whether the turn took a pause, whether a listener goes on to set *)
(* the timer, and, for a callback, whether falseInterruptionTimerSeq or    *)
(* userTurnSeq has moved on since its check.                               *)
Idle == [pc |-> "idle", speech |-> 0, took |-> FALSE, timed |-> FALSE,
         stale |-> FALSE]

In(t, p) == at[t].pc = p

Paused == pause.speech # 0

Eligible == current # 0 /\ current \notin over \cup stopped

Init ==
    /\ speaking = FALSE /\ boundary = None
    /\ current = 0 /\ over = {} /\ stopped = {}
    /\ silent = FALSE /\ held = FALSE
    /\ pause = NoPause /\ armed = FALSE
    /\ at = [t \in Thread |-> Idle]

Go(t, r) == at' = [at EXCEPT ![t] = r]

Step(t, p) == [at[t] EXCEPT !.pc = p]

(* falseInterruptionTimerSeq++, and t goes on with r: a timer that is set  *)
(* is stopped and the callbacks that run are out of date.  A stopped timer *)
(* that fires all the same fails the first check.                          *)
Bump(t, r) ==
    at' = [u \in Thread |->
             IF u = t THEN r
             ELSE IF u \in Slot /\ at[u].pc \in {"commit", "recheck", "again"}
                  THEN [at[u] EXCEPT !.stale = TRUE] ELSE at[u]]

-----------------------------------------------------------------------------
(* The reply: processQueue, the pipeline, OnPipelineReplyDone              *)

SpeechBegins ==
    /\ current = 0
    /\ \E s \in Speech \ over : /\ \A r \in Speech \ over : s <= r
                                /\ current' = s
    /\ UNCHANGED <<userVars, over, stopped, outVars, timerVars, at>>

(* Interrupt by the application or the barge-in gate; cancels no pause.    *)
SpeechInterrupted ==
    /\ "interrupt" \in Ops
    /\ Eligible
    /\ stopped' = stopped \cup {current}
    /\ UNCHANGED <<userVars, current, over, outVars, timerVars, at>>

(* MarkDone: the last audio may be out before the output was paused.       *)
SpeechEnds ==
    /\ In("reply", "idle")
    /\ current # 0 /\ current \notin over
    /\ over' = over \cup {current}
    /\ Go("reply", [Idle EXCEPT !.pc = "done", !.speech = current])
    /\ UNCHANGED <<userVars, current, stopped, outVars, timerVars>>

ReplyDone ==
    /\ In("reply", "done")
    /\ current' = 0
    /\ Go("reply", Step("reply", "finished"))
    /\ UNCHANGED <<userVars, over, stopped, outVars, timerVars>>

(* Mutant: the pause of a finished speech is dropped, the output stays.     *)
DropFinishedPausedSpeech ==
    /\ In("reply", "finished")
    /\ IF pause.speech = at["reply"].speech
       THEN pause' = NoPause /\ armed' = FALSE /\ Bump("reply", Idle)
       ELSE Go("reply", Idle) /\ UNCHANGED timerVars
    /\ UNCHANGED <<userVars, replyVars, outVars>>

ResumeFinishedPausedSpeech ==
    /\ In("reply", "finished")
    /\ IF pause.speech = at["reply"].speech
       THEN /\ pause' = NoPause /\ armed' = FALSE
            /\ Bump("reply", [Idle EXCEPT !.pc = "release"])
       ELSE Go("reply", Idle) /\ UNCHANGED timerVars
    /\ UNCHANGED <<userVars, replyVars, outVars>>

ReleaseOutput ==
    /\ In("reply", "release")
    /\ silent' = FALSE
    /\ Go("reply", Idle)
    /\ UNCHANGED <<userVars, replyVars, timerVars, held>>

-----------------------------------------------------------------------------
(* The user: onStartOfSpeech, onEndOfSpeechAt, transcripts                 *)

(* drainHeldUserTranscriptWindow: an onset first commits what is held.     *)
DrainHeld(t) ==
    /\ In(t, "idle") /\ held
    /\ t = "stt" => "sttStart" \in Ops
    /\ Go(t, [Idle EXCEPT !.pc = "unpause"])
    /\ UNCHANGED <<userVars, replyVars, outVars, timerVars>>

(* Under speechBoundaryMu, whether the user speaks already or not; then    *)
(* the speech is paused, unless the barge-in gate governs.                 *)
OnStartOfSpeech(t) ==
    /\ (In(t, "idle") /\ ~held) \/ In(t, "onset")
    /\ boundary = None
    /\ t = "stt" => "sttStart" \in Ops
    /\ speaking' = TRUE
    /\ armed' = FALSE
    /\ \E p \in {"idle", "read"} : Bump(t, [Idle EXCEPT !.pc = p])
    /\ UNCHANGED <<boundary, replyVars, outVars, pause>>

OnEndOfSpeech(t) ==
    /\ In(t, "idle") /\ boundary = None
    /\ t = "stt" => "sttEnd" \in Ops
    /\ speaking' = FALSE
    /\ Go(t, [Idle EXCEPT !.pc = "timer", !.timed = TRUE])
    /\ UNCHANGED <<boundary, replyVars, outVars, timerVars>>

(* ClearUserTurn: the user is taken to be silent, under no lock and with   *)
(* no timer.                                                               *)
ClearUserTurn ==
    /\ "clear" \in Ops
    /\ speaking' = FALSE
    /\ UNCHANGED <<boundary, replyVars, outVars, timerVars, at>>

(* interruptByAudioActivity reads the current speech first; without one it *)
(* has nothing to do.                                                      *)
Interrupting(t, timed) ==
    /\ Eligible
    /\ Go(t, [Idle EXCEPT !.pc = "record", !.speech = current, !.timed = timed])

(* OnInterimTranscript, OnFinalTranscript: whether it pauses the speech or *)
(* not, a transcript goes on to the timer.                                 *)
OnTranscript ==
    /\ "transcript" \in Ops
    /\ In("stt", "idle")
    /\ \/ Interrupting("stt", TRUE)
       \/ Go("stt", [Idle EXCEPT !.pc = "timer", !.timed = TRUE])
    /\ UNCHANGED <<userVars, replyVars, outVars, timerVars>>

(* An inference does not.  (OnInterruption, which nothing calls, is alike.)*)
OnVADInferenceDone ==
    /\ "inference" \in Ops
    /\ In("vad", "idle")
    /\ Interrupting("vad", FALSE)
    /\ UNCHANGED <<userVars, replyVars, outVars, timerVars>>

(* holdSTTEventWhileAgentSpeaking, and flushHeldSTTEvents when the agent   *)
(* no longer speaks: what was held comes as transcripts.                   *)
HoldSTTEvents ==
    /\ "hold" \in Ops
    /\ held' = ~held
    /\ UNCHANGED <<userVars, replyVars, silent, timerVars, at>>

(* commitHeldBargeIn, with no lock and whatever has happened since it      *)
(* looked: the output is resumed and what is held comes as transcripts.    *)
Unpause(t) ==
    /\ In(t, "unpause")
    /\ silent' = FALSE
    /\ held' = FALSE
    /\ Go(t, IF t \in Slot THEN Idle ELSE Step(t, "onset"))
    /\ UNCHANGED <<userVars, replyVars, timerVars>>

AfterPause(t) ==
    IF at[t].timed THEN [Idle EXCEPT !.pc = "timer", !.timed = TRUE] ELSE Idle

(* pauseCurrentSpeechForFalseInterruption: an onset reads the current      *)
(* speech under queueMu ...                                                *)
PauseRead(t) ==
    /\ In(t, "read")
    /\ \/ Interrupting(t, FALSE)
       \/ ~Eligible /\ Go(t, Idle)
    /\ UNCHANGED <<userVars, replyVars, outVars, timerVars>>

(* ... records it under falseInterruptionMu, where an onset that found the *)
(* agent thinking leaves a pause of the same speech alone (an inference    *)
(* that was refused earlier comes to the same) ...                         *)
PauseRecord(t) ==
    /\ In(t, "record")
    /\ \/ /\ pause.speech = at[t].speech /\ ~at[t].timed
          /\ Go(t, AfterPause(t)) /\ UNCHANGED timerVars
       \/ /\ pause.speech = at[t].speech
          /\ armed' = FALSE
          /\ Bump(t, AfterPause(t)) /\ UNCHANGED pause
       \/ /\ pause.speech # at[t].speech
          /\ pause' = [speech |-> at[t].speech, awaited |-> FALSE]
          /\ armed' = FALSE
          /\ Bump(t, [Step(t, "silence") EXCEPT !.speech = 0])
    /\ UNCHANGED <<userVars, replyVars, outVars>>

(* ... and pauses the output with no lock.                                 *)
PauseOutput(t) ==
    /\ In(t, "silence")
    /\ silent' = TRUE
    /\ Go(t, AfterPause(t))
    /\ UNCHANGED <<userVars, replyVars, timerVars, held>>

(* Under speechBoundaryMu and falseInterruptionMu; nobody holds the first  *)
(* while the user speaks, so the look that a transcript takes at the user  *)
(* before is the same.                                                     *)
StartFalseInterruptionTimer(t) ==
    /\ In(t, "timer") /\ boundary = None
    /\ IF speaking \/ ~Paused
       THEN Go(t, Idle) /\ UNCHANGED armed
       ELSE armed' = TRUE /\ Bump(t, Idle)
    /\ UNCHANGED <<userVars, replyVars, outVars, pause>>

(* UpdateTurnDetection, to or from manual: cancelFalseInterruptionTimer.   *)
UpdateTurnDetection ==
    /\ "options" \in Ops
    /\ armed' = FALSE
    /\ Bump(None, Idle)
    /\ UNCHANGED <<userVars, replyVars, outVars, pause>>

-----------------------------------------------------------------------------
(* The timer: resumeFalseInterruptionFor                                   *)

(* With both locks; a callback that waits for the transcript keeps the     *)
(* first.  The sequence numbers agree as long as the timer is set.         *)
TimerCheck(t) ==
    /\ In(t, "idle") /\ armed /\ boundary = None
    /\ Paused /\ ~speaking
    /\ armed' = FALSE /\ pause' = NoPause
    /\ \/ /\ Go(t, [Idle EXCEPT !.pc = "commit", !.speech = pause.speech])
          /\ UNCHANGED boundary
       \/ /\ "await" \in Ops /\ ~pause.awaited
          /\ Go(t, [Idle EXCEPT !.pc = "await", !.speech = pause.speech])
          /\ boundary' = t
    /\ UNCHANGED <<speaking, replyVars, outVars>>

(* Mutants: the pause goes back without a timer, or the lock is not left.  *)
TimerAwaitUnarmed(t) ==
    /\ In(t, "await")
    /\ boundary' = None
    /\ IF Paused THEN Go(t, Idle) /\ UNCHANGED pause
       ELSE /\ pause' = [speech |-> at[t].speech, awaited |-> TRUE]
            /\ Bump(t, Idle)
    /\ UNCHANGED <<speaking, replyVars, outVars, armed>>

TimerAwaitLocked(t) ==
    /\ In(t, "await")
    /\ IF Paused THEN Go(t, Idle) /\ UNCHANGED timerVars
       ELSE /\ pause' = [speech |-> at[t].speech, awaited |-> TRUE]
            /\ armed' = TRUE
            /\ Bump(t, Idle)
    /\ UNCHANGED <<userVars, replyVars, outVars>>

(* The last transcript has not come: once more in 500 ms, unless somebody  *)
(* else has paused a speech.                                               *)
TimerAwait(t) ==
    /\ In(t, "await")
    /\ boundary' = None
    /\ IF Paused
       THEN Go(t, Idle) /\ UNCHANGED timerVars
       ELSE /\ pause' = [speech |-> at[t].speech, awaited |-> TRUE]
            /\ armed' = TRUE
            /\ Bump(t, Idle)
    /\ UNCHANGED <<speaking, replyVars, outVars>>

(* commitHeldBargeIn looks at what is held, and goes on with Unpause.      *)
TimerCommit(t) ==
    /\ In(t, "commit")
    /\ Go(t, IF held THEN [Idle EXCEPT !.pc = "unpause"] ELSE Step(t, "recheck"))
    /\ UNCHANGED <<userVars, replyVars, outVars, timerVars>>

Stale(t) == at[t].stale \/ Paused \/ speaking

TimerGivesUp(t) ==
    /\ at[t].pc \in {"recheck", "again"} /\ boundary = None
    /\ Stale(t)
    /\ Go(t, Idle)
    /\ UNCHANGED <<userVars, replyVars, outVars, timerVars>>

(* The locks are released for UpdateAgentState if there is still a speech  *)
(* to go on with.                                                          *)
TimerRecheck(t) ==
    /\ In(t, "recheck") /\ boundary = None
    /\ ~Stale(t)
    /\ IF current = at[t].speech /\ current \notin over
       THEN Go(t, Step(t, "again")) /\ UNCHANGED boundary
       ELSE Go(t, [Idle EXCEPT !.pc = "resume"]) /\ boundary' = t
    /\ UNCHANGED <<speaking, replyVars, outVars, timerVars>>

(* Mutant: nothing is checked again after UpdateAgentState.                *)
TimerResumesAtOnce(t) ==
    /\ In(t, "again") /\ boundary = None
    /\ Go(t, [Idle EXCEPT !.pc = "resume"]) /\ boundary' = t
    /\ UNCHANGED <<speaking, replyVars, outVars, timerVars>>

TimerRecheckAgain(t) ==
    /\ In(t, "again") /\ boundary = None
    /\ ~Stale(t)
    /\ Go(t, [Idle EXCEPT !.pc = "resume"]) /\ boundary' = t
    /\ UNCHANGED <<speaking, replyVars, outVars, timerVars>>

(* ResumeAudioOutput, still under speechBoundaryMu.                        *)
TimerResume(t) ==
    /\ In(t, "resume")
    /\ silent' = FALSE
    /\ boundary' = None
    /\ Go(t, Idle)
    /\ UNCHANGED <<speaking, replyVars, timerVars, held>>

-----------------------------------------------------------------------------
(* onUserTurnCompleted                                                     *)

TurnRead ==
    /\ "commit" \in Ops
    /\ In("turn", "idle") /\ Eligible
    /\ Go("turn", [Idle EXCEPT !.pc = "cancel", !.speech = current])
    /\ UNCHANGED <<userVars, replyVars, outVars, timerVars>>

(* cancelPausedFalseInterruption                                           *)
TurnCancelPause ==
    /\ In("turn", "cancel")
    /\ pause' = NoPause /\ armed' = FALSE
    /\ Bump("turn", [Step("turn", "interrupt") EXCEPT !.took = Paused])
    /\ UNCHANGED <<userVars, replyVars, outVars>>

TurnInterrupt ==
    /\ In("turn", "interrupt")
    /\ stopped' = stopped \cup ({at["turn"].speech} \ over)
    /\ Go("turn", Step("turn", "wait"))
    /\ UNCHANGED <<userVars, current, over, outVars, timerVars>>

(* resumeCanceledFalseInterruption                                         *)
TurnResume ==
    /\ In("turn", "wait") /\ at["turn"].speech \in over
    /\ silent' = (silent /\ ~at["turn"].took)
    /\ Go("turn", Idle)
    /\ UNCHANGED <<userVars, replyVars, timerVars, held>>

(* The wait or the realtime interrupter fails.                             *)
TurnFails ==
    /\ "fail" \in Ops
    /\ In("turn", "wait")
    /\ Go("turn", Idle)
    /\ UNCHANGED <<userVars, replyVars, outVars, timerVars>>

-----------------------------------------------------------------------------
Hears(t) == DrainHeld(t) \/ Unpause(t) \/ OnStartOfSpeech(t) \/ OnEndOfSpeech(t)

Pauses(t) ==
    \/ PauseRead(t) \/ PauseRecord(t) \/ PauseOutput(t)
    \/ StartFalseInterruptionTimer(t)

Timer(t) ==
    \/ TimerCheck(t) \/ TimerAwait(t) \/ TimerCommit(t) \/ Unpause(t)
    \/ TimerGivesUp(t) \/ TimerRecheck(t) \/ TimerRecheckAgain(t)
    \/ TimerResume(t)

Reply == ReplyDone \/ ResumeFinishedPausedSpeech \/ ReleaseOutput

Turn == TurnCancelPause \/ TurnInterrupt \/ TurnResume

Next ==
    \/ SpeechBegins \/ SpeechInterrupted \/ SpeechEnds \/ Reply
    \/ ClearUserTurn \/ OnTranscript \/ OnVADInferenceDone \/ HoldSTTEvents
    \/ UpdateTurnDetection
    \/ \E t \in Listener : Hears(t) \/ Pauses(t)
    \/ \E t \in Slot : Timer(t)
    \/ TurnRead \/ Turn \/ TurnFails

Spec == Init /\ [][Next]_vars

-----------------------------------------------------------------------------
(* Properties                                                              *)

Places == {"idle", "unpause", "onset",
           "read", "record", "silence", "timer",
           "cancel", "interrupt", "wait", "done", "finished", "release",
           "await", "commit", "recheck", "again", "resume"}

Goroutines == [pc : Places, speech : Speech \cup {0}, took : BOOLEAN,
               timed : BOOLEAN, stale : BOOLEAN]

LockHeld == \A t \in Slot : boundary = t <=> at[t].pc \in {"await", "resume"}

TypeOK ==
    /\ speaking \in BOOLEAN /\ silent \in BOOLEAN /\ held \in BOOLEAN
    /\ boundary \in Slot \cup {None}
    /\ current \in Speech \cup {0} /\ over \subseteq Speech
    /\ stopped \subseteq Speech
    /\ armed \in BOOLEAN
    /\ pause \in [speech : Speech \cup {0}, awaited : BOOLEAN]
    /\ at \in [Thread -> Goroutines]
    /\ LockHeld

(* resumeFalseInterruptionFor: the callback drops both locks twice between *)
(* its first look at the user and the resumption, and yet its verdict that *)
(* nothing was said never brings the output back over the user.  Whoever   *)
(* brings it back while the user speaks is a callback or an onset that     *)
(* commits a held utterance, the end of the paused speech, or a committed  *)
(* turn that has interrupted it: these three do not look at the user.      *)
NoResumeOverUser ==
    [][silent /\ ~silent' /\ speaking =>
          \/ \E t \in Thread : Unpause(t)
          \/ ReleaseOutput
          \/ TurnResume]_vars

(* A pause is attended to while the user speaks, or if the timer is set or *)
(* somebody is about to set it.                                            *)
Attended == Paused => speaking \/ armed \/ \E t \in Listener : at[t].timed

(* Only three steps leave a pause to which nobody attends: a change of the *)
(* turn detection, ClearUserTurn, and an onset or an inference that pauses *)
(* a speech, or stops the timer of its pause, when the user has been taken *)
(* to be silent again in the meantime.                                     *)
PausesAttended ==
    [][Attended /\ ~Attended' =>
          \/ UpdateTurnDetection
          \/ ClearUserTurn
          \/ \E t \in Listener : PauseRecord(t) /\ ~at[t].timed /\ ~speaking]_vars

(* The output is paused for nobody: no pause is recorded, and nobody is    *)
(* about to record one or to resume the output.                            *)
Resolving ==
    \/ \E t \in Listener : at[t].pc \in {"read", "record", "unpause"}
    \/ \E t \in Slot : at[t].pc # "idle"
    \/ In("reply", "release")
    \/ at["turn"].took

Orphaned == silent /\ ~Paused /\ ~Resolving

(* Only four steps leave the output paused for nobody: an output that is   *)
(* paused after its pause has been resolved, a callback that finds itself  *)
(* out of date, a pauser that finds the speech gone, and a turn that fails.*)
OrphansKnown ==
    [][Orphaned' /\ ~Orphaned =>
          \/ \E t \in Listener : PauseOutput(t) /\ ~Paused
          \/ \E t \in Listener : PauseRead(t) /\ ~Eligible
          \/ \E t \in Slot : TimerGivesUp(t)
          \/ TurnFails]_vars

(* agent_activity_test.go, line 6303: a user's turn that is committed over *)
(* a paused speech resumes the output; here, a turn that has interrupted a *)
(* speech does not leave the output paused for nobody.                     *)
CommitReleasesOutput ==
    [][TurnResume /\ at["turn"].speech \in stopped => ~Orphaned']_vars
=============================================================================
