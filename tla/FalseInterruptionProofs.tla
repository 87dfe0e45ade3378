---------------------- MODULE FalseInterruptionProofs ----------------------
(***************************************************************************)
(* For every number of speeches and of callbacks, and whatever may happen: *)
(* the types, the timer's pause, who brings the output back over the user, *)
(* who abandons a pause, and who leaves the output paused for nobody.      *)
(***************************************************************************)
EXTENDS FalseInterruption, TLAPS

(* startFalseInterruptionTimer, cancelFalseInterruptionTimer: a timer that *)
(* is set has a pause to resolve, and nobody is speaking.                  *)
TimerHasPause == armed => Paused /\ ~speaking

(* A callback takes speechBoundaryMu when the user is silent, and no onset *)
(* comes through before it leaves it.                                      *)
LockQuiet == boundary # None => ~speaking

(* What goroutine t remembers when it is at r: a pauser or a callback the  *)
(* speech it is about, a turn that it has taken a pause, a listener that   *)
(* it goes on to set the timer.                                            *)
Remembers(t, r) ==
    /\ t \in Listener /\ r.pc = "record" => r.speech # 0
    /\ t \in Listener /\ r.timed => r.pc \in {"record", "silence", "timer"}
    /\ t \in Slot /\ r.pc = "await" => r.speech # 0
    /\ t = "turn" /\ r.pc \in {"cancel", "interrupt"} => r.speech # 0
    /\ t = "turn" /\ r.took => r.pc \in {"interrupt", "wait"}

AllRemember == \A t \in Thread : Remembers(t, at[t])

IInv == TypeOK /\ TimerHasPause /\ LockQuiet /\ AllRemember

(* The types of everything but the goroutines.                             *)
DataOK ==
    /\ speaking \in BOOLEAN /\ silent \in BOOLEAN /\ held \in BOOLEAN
    /\ boundary \in Slot \cup {None}
    /\ current \in Speech \cup {0} /\ over \subseteq Speech
    /\ stopped \subseteq Speech
    /\ armed \in BOOLEAN
    /\ pause \in [speech : Speech \cup {0}, awaited : BOOLEAN]

-----------------------------------------------------------------------------
(* Goroutine t goes to r; of the others, only how up to date they are      *)
(* changes.                                                                *)
Moves(t, r) ==
    /\ at' \in [Thread -> Goroutines]
    /\ t \in Thread => at'[t] = r
    /\ \A u \in Thread \ {t} : /\ at'[u].pc = at[u].pc
                               /\ at'[u].speech = at[u].speech
                               /\ at'[u].took = at[u].took
                               /\ at'[u].timed = at[u].timed

LEMMA GoMoves ==
    ASSUME TypeOK, NEW t \in Thread, NEW r \in Goroutines, Go(t, r)
    PROVE  Moves(t, r)
BY DEF TypeOK, Go, Moves

LEMMA BumpMoves ==
    ASSUME TypeOK, NEW t, NEW r \in Goroutines, Bump(t, r)
    PROVE  Moves(t, r)
<1>1. \A u \in Thread : at[u] \in Goroutines
  BY DEF TypeOK
<1>2. \A u \in Thread : [at[u] EXCEPT !.stale = TRUE] \in Goroutines
  BY <1>1 DEF Goroutines
<1>3. \A u \in Thread \ {t} : \/ at'[u] = at[u]
                              \/ at'[u] = [at[u] EXCEPT !.stale = TRUE]
  BY DEF Bump
<1>4. (t \in Thread => at'[t] = r) /\ at' \in [Thread -> Goroutines]
  BY <1>1, <1>2 DEF Bump
<1>5. \A u \in Thread \ {t} : /\ at'[u].pc = at[u].pc
                              /\ at'[u].speech = at[u].speech
                              /\ at'[u].took = at[u].took
                              /\ at'[u].timed = at[u].timed
  BY <1>1, <1>3 DEF Goroutines
<1>6. QED
  BY <1>4, <1>5 DEF Moves

(* Where a goroutine may be sent.                                          *)
LEMMA IdlePlaces ==
    /\ Idle \in Goroutines
    /\ \A p \in Places : [Idle EXCEPT !.pc = p] \in Goroutines
    /\ \A p \in Places : [Idle EXCEPT !.pc = p, !.timed = TRUE] \in Goroutines
    /\ \A p \in Places, s \in Speech \cup {0} :
          [Idle EXCEPT !.pc = p, !.speech = s] \in Goroutines
    /\ \A p \in Places, s \in Speech \cup {0}, b \in BOOLEAN :
          [Idle EXCEPT !.pc = p, !.speech = s, !.timed = b] \in Goroutines
    /\ \A t : AfterPause(t) \in Goroutines
<1>1. \A p \in Places, s \in Speech \cup {0}, b \in BOOLEAN :
         [Idle EXCEPT !.pc = p, !.speech = s, !.timed = b] \in Goroutines
  BY DEF Idle, Goroutines
<1>2. \A p \in Places, s \in Speech \cup {0} :
         [Idle EXCEPT !.pc = p, !.speech = s] \in Goroutines
  BY DEF Idle, Goroutines
<1>3. /\ Idle \in Goroutines
      /\ \A p \in Places : [Idle EXCEPT !.pc = p] \in Goroutines
      /\ \A p \in Places : [Idle EXCEPT !.pc = p, !.timed = TRUE] \in Goroutines
  BY DEF Idle, Goroutines, Places
<1>4. \A t : AfterPause(t) \in Goroutines
  BY <1>3 DEF AfterPause, Places
<1>5. QED
  BY <1>1, <1>2, <1>3, <1>4

LEMMA StepPlaces ==
    ASSUME TypeOK, NEW t \in Thread, NEW p \in Places
    PROVE  /\ Step(t, p) \in Goroutines
           /\ Step(t, p).pc = p
           /\ Step(t, p).speech = at[t].speech
           /\ Step(t, p).took = at[t].took
           /\ Step(t, p).timed = at[t].timed
BY DEF TypeOK, Goroutines, Step

LEMMA NoPauseType ==
    /\ NoPause \in [speech : Speech \cup {0}, awaited : BOOLEAN]
    /\ NoPause.speech = 0
BY DEF NoPause

(* Who holds speechBoundaryMu once t is at r.                              *)
LockMoves(t, r) ==
    \A u \in Slot :
        boundary' = u <=> (IF u = t THEN r ELSE at[u]).pc \in {"await", "resume"}

(* A step of anybody but a callback leaves the lock alone, and so does a   *)
(* callback that neither takes nor leaves it.                              *)
LEMMA LockAlone ==
    ASSUME TypeOK, NEW t, NEW r, boundary' = boundary,
           t \in Slot => (r.pc \in {"await", "resume"}
                          <=> at[t].pc \in {"await", "resume"})
    PROVE  LockMoves(t, r)
BY DEF TypeOK, LockHeld, LockMoves

(* A callback that takes the lock when it is free.                         *)
LEMMA LockTaken ==
    ASSUME TypeOK, NEW t \in Slot, NEW r, boundary = None, boundary' = t,
           r.pc \in {"await", "resume"}
    PROVE  LockMoves(t, r)
<1>1. \A u \in Slot : at[u].pc \notin {"await", "resume"}
  BY FalseInterruptionAssumption DEF TypeOK, LockHeld
<1>2. QED
  BY <1>1 DEF LockMoves

(* A callback that leaves the lock it holds.                               *)
LEMMA LockLeft ==
    ASSUME TypeOK, NEW t \in Slot, NEW r, at[t].pc \in {"await", "resume"},
           boundary' = None, r.pc \notin {"await", "resume"}
    PROVE  LockMoves(t, r)
<1>1. boundary = t
  BY DEF TypeOK, LockHeld
<1>2. \A u \in Slot \ {t} : at[u].pc \notin {"await", "resume"}
  BY <1>1 DEF TypeOK, LockHeld
<1>3. QED
  BY <1>2, FalseInterruptionAssumption DEF LockMoves

(* A step keeps the invariant if it keeps the data's types, the timer's    *)
(* pause and the silence under the lock, and t's memory.                   *)
LEMMA StepKeeps ==
    ASSUME IInv, NEW t, NEW r, Moves(t, r), DataOK', LockMoves(t, r),
           TimerHasPause', LockQuiet', t \in Thread => Remembers(t, r),
           t \in Slot \/ boundary' = boundary
    PROVE  IInv'
<1>1. Slot \subseteq Thread
  BY DEF Thread
<1>2. LockHeld'
  <2>1. ASSUME NEW u \in Slot
        PROVE  at'[u].pc = (IF u = t THEN r ELSE at[u]).pc
    BY <1>1 DEF Moves
  <2>2. QED
    BY <2>1 DEF LockMoves, LockHeld
<1>3. TypeOK'
  BY <1>2 DEF DataOK, TypeOK, Moves
<1>4. AllRemember'
  <2>1. ASSUME NEW u \in Thread PROVE Remembers(u, at'[u])
    <3>1. CASE u = t
      BY <3>1 DEF Moves
    <3>2. CASE u # t
      <4>1. Remembers(u, at[u])
        BY DEF IInv, AllRemember
      <4>2. QED
        BY <3>2, <4>1 DEF Moves, Remembers
    <3>3. QED
      BY <3>1, <3>2
  <2>2. QED
    BY <2>1 DEF AllRemember
<1>5. QED
  BY <1>3, <1>4 DEF IInv

LEMMA InitInv == Init => IInv
<1> SUFFICES ASSUME Init PROVE IInv
  OBVIOUS
<1>1. \A t \in Thread : at[t] = Idle
  BY DEF Init
<1>2. at \in [Thread -> Goroutines]
  BY IdlePlaces DEF Init
<1>3. LockHeld
  BY <1>1, FalseInterruptionAssumption DEF Init, LockHeld, Idle, Thread
<1>4. TypeOK
  BY <1>2, <1>3 DEF Init, TypeOK, NoPause
<1>5. AllRemember
  BY <1>1 DEF AllRemember, Remembers, Idle
<1>6. QED
  BY <1>4, <1>5 DEF Init, IInv, TimerHasPause, LockQuiet

-----------------------------------------------------------------------------
(* What goroutine t contributes to Resolving when it is at r.              *)
Resolver(t, r) ==
    \/ t \in Listener /\ r.pc \in {"read", "record", "unpause"}
    \/ t \in Slot /\ r.pc # "idle"
    \/ t = "reply" /\ r.pc = "release"
    \/ t = "turn" /\ r.took

LEMMA ResolvingParts == Resolving <=> \E t \in Thread : Resolver(t, at[t])
BY FalseInterruptionAssumption DEF Resolving, Resolver, Thread, Listener, In

LEMMA ResolvingPartsNext == Resolving' <=> \E t \in Thread : Resolver(t, at'[t])
BY FalseInterruptionAssumption DEF Resolving, Resolver, Thread, Listener, In

(* A goroutine that is about to resolve the output leaves it to itself.    *)
LEMMA ResolverClears ==
    ASSUME NEW t \in Thread, NEW r, Moves(t, r), Resolver(t, r)
    PROVE  ~Orphaned'
BY ResolvingPartsNext DEF Moves, Orphaned

(* A step that records no pause, does not pause the output, and whose      *)
(* goroutine still resolves what it was about to: no output is newly       *)
(* paused for nobody.                                                      *)
LEMMA StillResolved ==
    ASSUME NEW t, NEW r, Moves(t, r), silent' => silent, Paused' <=> Paused,
           t \in Thread /\ Resolver(t, at[t]) => Resolver(t, r), Orphaned'
    PROVE  Orphaned
<1>1. ~Resolving' /\ silent /\ ~Paused
  BY DEF Orphaned
<1>2. \A u \in Thread : Resolver(u, at[u]) => Resolver(u, at'[u])
  BY DEF Moves, Resolver
<1>3. QED
  BY <1>1, <1>2, ResolvingParts, ResolvingPartsNext DEF Orphaned

(* A step that leaves the pause, the timer and the user alone, and whose   *)
(* goroutine still goes on to set the timer, leaves a pause attended to.   *)
LEMMA StillAttended ==
    ASSUME NEW t, NEW r, Moves(t, r), Attended,
           pause' = pause, armed' = armed, speaking' = speaking,
           t \in Listener /\ at[t].timed => r.timed
    PROVE  Attended'
BY DEF Attended, Paused, Moves, Thread, Listener

(* What the three action properties allow.                                 *)
OverUser == (\E t \in Thread : Unpause(t)) \/ ReleaseOutput \/ TurnResume

Abandons ==
    \/ UpdateTurnDetection
    \/ ClearUserTurn
    \/ \E t \in Listener : PauseRecord(t) /\ ~at[t].timed /\ ~speaking

Orphans ==
    \/ \E t \in Listener : PauseOutput(t) /\ ~Paused
    \/ \E t \in Listener : PauseRead(t) /\ ~Eligible
    \/ \E t \in Slot : TimerGivesUp(t)
    \/ TurnFails

(* What every step has to show.                                            *)
Sound ==
    /\ IInv'
    /\ silent /\ ~silent' /\ speaking => OverUser
    /\ Attended /\ ~Attended' => Abandons
    /\ Orphaned' /\ ~Orphaned => Orphans

(* A step that only moves its goroutine.                                   *)
LEMMA PlainStep ==
    ASSUME IInv, NEW t, NEW r, Moves(t, r), DataOK', LockMoves(t, r),
           UNCHANGED <<speaking, silent, timerVars>>, LockQuiet',
           t \in Thread => Remembers(t, r), t \in Slot \/ boundary' = boundary,
           t \in Listener /\ at[t].timed => r.timed,
           t \in Thread /\ Resolver(t, at[t]) => Resolver(t, r)
    PROVE  Sound
<1>1. TimerHasPause'
  BY DEF IInv, TimerHasPause, Paused, timerVars
<1>2. IInv'
  BY <1>1, StepKeeps
<1>3. Attended => Attended'
  BY StillAttended DEF timerVars
<1>4. Orphaned' => Orphaned
  BY StillResolved DEF Paused, timerVars
<1>5. QED
  BY <1>2, <1>3, <1>4 DEF Sound

LEMMA Who ==
    /\ "reply" \in Thread /\ "turn" \in Thread
    /\ Listener \subseteq Thread /\ Slot \subseteq Thread
    /\ "reply" \notin Listener \cup Slot /\ "turn" \notin Listener \cup Slot
    /\ Listener \cap Slot = {} /\ None \notin Thread
BY FalseInterruptionAssumption DEF Thread, Listener

LEMMA DataTypes ==
    ASSUME IInv
    PROVE  /\ TypeOK /\ DataOK /\ TimerHasPause /\ LockQuiet
           /\ \A t \in Thread : /\ at[t].speech \in Speech \cup {0}
                               /\ at[t].timed \in BOOLEAN
                               /\ Remembers(t, at[t])
BY DEF IInv, TypeOK, DataOK, Goroutines, AllRemember

-----------------------------------------------------------------------------
(* The reply, and whoever only changes data.                               *)
LEMMA ReplyStep ==
    ASSUME IInv, \/ SpeechBegins \/ SpeechInterrupted \/ SpeechEnds \/ Reply
                 \/ ClearUserTurn \/ HoldSTTEvents \/ UpdateTurnDetection
    PROVE  Sound
<1> USE Who, DataTypes
<1>same. ASSUME at' = at PROVE /\ \A t \in Thread : Moves(t, at[t])
                               /\ Resolving' <=> Resolving
  BY <1>same, ResolvingParts, ResolvingPartsNext DEF Moves, TypeOK
<1>1. CASE SpeechBegins \/ SpeechInterrupted \/ HoldSTTEvents
  <2>1. /\ at' = at /\ boundary' = boundary
        /\ UNCHANGED <<speaking, silent, timerVars>>
    BY <1>1 DEF SpeechBegins, SpeechInterrupted, HoldSTTEvents, userVars, outVars
  <2>2. DataOK'
    BY <1>1 DEF SpeechBegins, SpeechInterrupted, HoldSTTEvents, Eligible, DataOK,
       userVars, replyVars, outVars, timerVars
  <2>3. LockMoves("reply", at["reply"]) /\ LockQuiet'
    BY <2>1, LockAlone DEF LockQuiet
  <2>4. QED
    BY <1>same, <2>1, <2>2, <2>3, PlainStep
<1>2. CASE ClearUserTurn
  <2>1. /\ at' = at /\ ~speaking' /\ boundary' = boundary
        /\ UNCHANGED <<silent, timerVars>>
    BY <1>2 DEF ClearUserTurn, outVars
  <2>2. DataOK' /\ TimerHasPause' /\ LockQuiet'
    BY <1>2 DEF ClearUserTurn, DataOK, TimerHasPause, LockQuiet, Paused,
       replyVars, outVars, timerVars
  <2>3. LockMoves("reply", at["reply"])
    BY <2>1, LockAlone
  <2>4. IInv'
    BY <1>same, <2>1, <2>2, <2>3, StepKeeps
  <2>5. Orphaned' => Orphaned
    BY <1>same, <2>1 DEF Orphaned, Paused, timerVars
  <2>6. QED
    BY <1>2, <2>1, <2>4, <2>5 DEF Sound, Abandons
<1>3. CASE UpdateTurnDetection
  <2>1. Moves(None, Idle)
    BY <1>3, BumpMoves, IdlePlaces DEF UpdateTurnDetection
  <2>2. /\ ~armed' /\ pause' = pause /\ silent' = silent /\ speaking' = speaking
        /\ boundary' = boundary
    BY <1>3 DEF UpdateTurnDetection, userVars, outVars
  <2>3. DataOK' /\ TimerHasPause' /\ LockQuiet'
    BY <1>3 DEF UpdateTurnDetection, DataOK, TimerHasPause, LockQuiet,
       userVars, replyVars, outVars
  <2>4. LockMoves(None, Idle)
    BY <2>2, LockAlone, FalseInterruptionAssumption
  <2>5. IInv'
    BY <2>1, <2>2, <2>3, <2>4, StepKeeps
  <2>6. Orphaned' => Orphaned
    BY <2>1, <2>2, StillResolved DEF Paused
  <2>7. QED
    BY <1>3, <2>2, <2>5, <2>6 DEF Sound, Abandons
<1>4. CASE SpeechEnds
  <2> DEFINE r == [Idle EXCEPT !.pc = "done", !.speech = current]
  <2>1. r \in Goroutines /\ Moves("reply", r)
    BY <1>4, IdlePlaces, GoMoves DEF SpeechEnds, DataOK, Places
  <2>2. /\ UNCHANGED <<speaking, silent, timerVars>> /\ boundary' = boundary
    BY <1>4 DEF SpeechEnds, userVars, outVars
  <2>3. DataOK' /\ LockQuiet'
    BY <1>4 DEF SpeechEnds, DataOK, LockQuiet, userVars, outVars, timerVars
  <2>4. LockMoves("reply", r)
    BY <2>2, LockAlone
  <2>5. Remembers("reply", r) /\ ~Resolver("reply", at["reply"])
    BY <1>4 DEF SpeechEnds, Remembers, Resolver, In
  <2>6. QED
    BY <2>1, <2>2, <2>3, <2>4, <2>5, PlainStep
<1>5. CASE ReplyDone
  <2> DEFINE r == Step("reply", "finished")
  <2>1. r \in Goroutines /\ Moves("reply", r)
    BY <1>5, StepPlaces, GoMoves DEF ReplyDone, Places
  <2>2. /\ UNCHANGED <<speaking, silent, timerVars>> /\ boundary' = boundary
    BY <1>5 DEF ReplyDone, userVars, outVars
  <2>3. DataOK' /\ LockQuiet'
    BY <1>5 DEF ReplyDone, DataOK, LockQuiet, userVars, outVars, timerVars
  <2>4. LockMoves("reply", r)
    BY <2>2, LockAlone
  <2>5. Remembers("reply", r) /\ ~Resolver("reply", at["reply"])
    BY <1>5 DEF ReplyDone, Remembers, Resolver, In
  <2>6. QED
    BY <2>1, <2>2, <2>3, <2>4, <2>5, PlainStep
<1>6. CASE ResumeFinishedPausedSpeech
  <2>1. CASE pause.speech = at["reply"].speech
    <3> DEFINE r == [Idle EXCEPT !.pc = "release"]
    <3>1. r \in Goroutines
      BY IdlePlaces DEF Places
    <3>2. /\ pause' = NoPause /\ armed' = FALSE /\ Bump("reply", r)
          /\ UNCHANGED <<userVars, replyVars, outVars>>
      BY <1>6, <2>1 DEF ResumeFinishedPausedSpeech
    <3>3. Moves("reply", r)
      BY <3>1, <3>2, BumpMoves
    <3>4. DataOK' /\ TimerHasPause' /\ LockQuiet' /\ ~Paused'
      BY <3>2 DEF DataOK, TimerHasPause, LockQuiet, NoPause, Paused,
         userVars, replyVars, outVars
    <3>5. boundary' = boundary /\ silent' = silent
      BY <3>2 DEF userVars, outVars
    <3>6. LockMoves("reply", r) /\ Remembers("reply", r) /\ Resolver("reply", r)
      BY <3>5, LockAlone DEF Remembers, Resolver, Idle
    <3>7. IInv'
      BY <3>3, <3>4, <3>5, <3>6, StepKeeps
    <3>8. ~Orphaned'
      BY <3>3, <3>6, ResolverClears
    <3>9. QED
      BY <3>4, <3>5, <3>7, <3>8 DEF Sound, Attended
  <2>2. CASE pause.speech # at["reply"].speech
    <3>1. /\ Go("reply", Idle) /\ boundary' = boundary
          /\ UNCHANGED <<speaking, silent, timerVars>>
      BY <1>6, <2>2 DEF ResumeFinishedPausedSpeech, userVars, outVars
    <3>2. Moves("reply", Idle)
      BY <3>1, IdlePlaces, GoMoves
    <3>3. DataOK' /\ LockQuiet'
      BY <1>6, <3>1 DEF ResumeFinishedPausedSpeech, DataOK, LockQuiet,
         userVars, replyVars, outVars, timerVars
    <3>4. LockMoves("reply", Idle)
      BY <3>1, LockAlone
    <3>5. Remembers("reply", Idle) /\ ~Resolver("reply", at["reply"])
      BY <1>6 DEF ResumeFinishedPausedSpeech, Remembers, Resolver, In
    <3>6. QED
      BY <3>1, <3>2, <3>3, <3>4, <3>5, PlainStep
  <2>3. QED
    BY <2>1, <2>2
<1>7. CASE ReleaseOutput
  <2>1. /\ Go("reply", Idle) /\ ~silent' /\ boundary' = boundary
        /\ speaking' = speaking /\ pause' = pause /\ armed' = armed
    BY <1>7 DEF ReleaseOutput, userVars, timerVars
  <2>2. Moves("reply", Idle)
    BY <2>1, IdlePlaces, GoMoves
  <2>a. DataOK'
    BY <1>7, <2>1 DEF ReleaseOutput, DataOK, replyVars
  <2>3. DataOK' /\ TimerHasPause' /\ LockQuiet'
    BY <2>1, <2>a DEF TimerHasPause, LockQuiet, Paused
  <2>4. LockMoves("reply", Idle) /\ Remembers("reply", Idle)
    BY <2>1, LockAlone DEF Remembers
  <2>5. IInv'
    BY <2>1, <2>2, <2>3, <2>4, StepKeeps
  <2>6. Attended => Attended'
    BY <2>1, <2>2, StillAttended
  <2>7. QED
    BY <1>7, <2>1, <2>5, <2>6 DEF Sound, OverUser, Orphaned
<1>8. QED
  BY <1>1, <1>2, <1>3, <1>4, <1>5, <1>6, <1>7 DEF Reply

-----------------------------------------------------------------------------
(* The listeners.                                                          *)
LEMMA ListenerStep ==
    ASSUME IInv, NEW t \in Listener,
           \/ Hears(t) \/ Pauses(t)
           \/ t = "stt" /\ OnTranscript
           \/ t = "vad" /\ OnVADInferenceDone
    PROVE  Sound
<1> USE Who, DataTypes
<1>t. t \in Thread /\ t \notin Slot /\ t \notin {"reply", "turn"}
  OBVIOUS
<1>1. CASE DrainHeld(t)
  <2> DEFINE r == [Idle EXCEPT !.pc = "unpause"]
  <2>1. /\ Go(t, r) /\ at[t].pc = "idle" /\ boundary' = boundary
        /\ UNCHANGED <<speaking, silent, timerVars>>
    BY <1>1 DEF DrainHeld, In, userVars, outVars
  <2>2. Moves(t, r)
    BY <1>t, <2>1, IdlePlaces, GoMoves DEF Places
  <2>3. DataOK' /\ LockQuiet'
    BY <1>1, <2>1 DEF DrainHeld, DataOK, LockQuiet, userVars, replyVars, outVars,
       timerVars
  <2>4. LockMoves(t, r)
    BY <1>t, <2>1, LockAlone
  <2>5. Remembers(t, r) /\ Resolver(t, r) /\ ~at[t].timed
    BY <1>t, <2>1 DEF Remembers, Resolver, Idle
  <2>6. QED
    BY <1>t, <2>1, <2>2, <2>3, <2>4, <2>5, PlainStep
<1>2. CASE Unpause(t)
  <2> DEFINE r == Step(t, "onset")
  <2>1. /\ Go(t, r) /\ at[t].pc = "unpause" /\ ~silent' /\ boundary' = boundary
        /\ speaking' = speaking /\ pause' = pause /\ armed' = armed
    BY <1>2, <1>t DEF Unpause, In, userVars, timerVars
  <2>2. Moves(t, r) /\ r.pc = "onset" /\ r.timed = at[t].timed
    BY <1>t, <2>1, StepPlaces, GoMoves DEF Places
  <2>3. DataOK'
    BY <1>2, <2>1 DEF Unpause, DataOK, replyVars
  <2>4. TimerHasPause' /\ LockQuiet'
    BY <2>1 DEF TimerHasPause, LockQuiet, Paused
  <2>5. LockMoves(t, r)
    BY <1>t, <2>1, LockAlone
  <2>6. Remembers(t, r)
    BY <1>t, <2>1, <2>2 DEF Remembers
  <2>7. IInv'
    BY <1>t, <2>1, <2>2, <2>3, <2>4, <2>5, <2>6, StepKeeps
  <2>8. Attended => Attended'
    BY <2>1, <2>2, StillAttended
  <2>9. QED
    BY <1>2, <1>t, <2>1, <2>7, <2>8 DEF Sound, OverUser, Orphaned
<1>3. CASE OnStartOfSpeech(t)
  <2>1. PICK p \in {"idle", "read"} : Bump(t, [Idle EXCEPT !.pc = p])
    BY <1>3 DEF OnStartOfSpeech
  <2> DEFINE r == [Idle EXCEPT !.pc = p]
  <2>2. /\ at[t].pc \in {"idle", "onset"} /\ speaking' /\ ~armed' /\ pause' = pause
        /\ boundary = None /\ boundary' = None /\ silent' = silent
    BY <1>3 DEF OnStartOfSpeech, In, outVars
  <2>3. Moves(t, r) /\ r.pc = p
    BY <2>1, IdlePlaces, BumpMoves DEF Places, Idle
  <2>4. DataOK'
    BY <1>3 DEF OnStartOfSpeech, DataOK, replyVars, outVars
  <2>5. TimerHasPause' /\ LockQuiet'
    BY <2>2 DEF TimerHasPause, LockQuiet
  <2>6. LockMoves(t, r)
    BY <1>t, <2>2, LockAlone
  <2>7. Remembers(t, r)
    BY <1>t DEF Remembers, Idle
  <2>8. IInv'
    BY <1>t, <2>2, <2>3, <2>4, <2>5, <2>6, <2>7, StepKeeps
  <2>9. ~Resolver(t, at[t])
    BY <1>t, <2>2 DEF Resolver
  <2>10. Orphaned' => Orphaned
    BY <2>2, <2>3, <2>9, StillResolved DEF Paused
  <2>11. QED
    BY <2>2, <2>8, <2>10 DEF Sound, Attended
<1>4. CASE OnEndOfSpeech(t)
  <2> DEFINE r == [Idle EXCEPT !.pc = "timer", !.timed = TRUE]
  <2>1. /\ Go(t, r) /\ at[t].pc = "idle" /\ boundary' = boundary /\ ~speaking'
        /\ silent' = silent /\ pause' = pause /\ armed' = armed
    BY <1>4 DEF OnEndOfSpeech, In, outVars, timerVars
  <2>2. Moves(t, r)
    BY <1>t, <2>1, IdlePlaces, GoMoves DEF Places
  <2>3. DataOK'
    BY <1>4 DEF OnEndOfSpeech, DataOK, replyVars, outVars, timerVars
  <2>4. TimerHasPause' /\ LockQuiet'
    BY <2>1 DEF TimerHasPause, LockQuiet, Paused
  <2>5. LockMoves(t, r)
    BY <1>t, <2>1, LockAlone
  <2>6. Remembers(t, r) /\ r.timed
    BY <1>t DEF Remembers, Idle
  <2>7. IInv'
    BY <1>t, <2>1, <2>2, <2>3, <2>4, <2>5, <2>6, StepKeeps
  <2>8. at'[t] = r
    BY <1>t, <2>2 DEF Moves
  <2>9. Attended'
    BY <2>6, <2>8 DEF Attended
  <2>10. ~Resolver(t, at[t])
    BY <1>t, <2>1 DEF Resolver
  <2>11. Orphaned' => Orphaned
    BY <2>1, <2>2, <2>10, StillResolved DEF Paused
  <2>12. QED
    BY <2>1, <2>7, <2>9, <2>11 DEF Sound
<1>int. ASSUME NEW b \in BOOLEAN, Interrupting(t, b), at[t].timed => b,
               UNCHANGED <<userVars, replyVars, outVars, timerVars>>
        PROVE  Sound
  <2> DEFINE r == [Idle EXCEPT !.pc = "record", !.speech = current, !.timed = b]
  <2>1. /\ Go(t, r) /\ current # 0 /\ boundary' = boundary
        /\ UNCHANGED <<speaking, silent, timerVars>>
    BY <1>int DEF Interrupting, Eligible, userVars, outVars
  <2>2. DataOK' /\ LockQuiet'
    BY <1>int DEF DataOK, LockQuiet, userVars, replyVars, outVars, timerVars
  <2>3. current \in Speech \cup {0}
    BY DEF DataOK
  <2>4. Moves(t, r)
    BY <1>t, <2>1, <2>3, IdlePlaces, GoMoves DEF Places
  <2>5. LockMoves(t, r)
    BY <1>t, <2>1, LockAlone
  <2>6. Remembers(t, r) /\ Resolver(t, r) /\ (at[t].timed => r.timed)
    BY <1>t, <1>int, <2>1 DEF Remembers, Resolver, Idle
  <2>7. QED
    BY <1>t, <2>1, <2>2, <2>4, <2>5, <2>6, PlainStep
<1>5. CASE t = "stt" /\ OnTranscript
  <2>1. ~at[t].timed /\ at[t].pc = "idle"
    BY <1>5 DEF OnTranscript, In, Remembers
  <2>2. CASE Interrupting("stt", TRUE)
    BY <1>5, <1>int, <2>2 DEF OnTranscript
  <2>3. CASE ~Interrupting("stt", TRUE)
    <3> DEFINE r == [Idle EXCEPT !.pc = "timer", !.timed = TRUE]
    <3>1. /\ Go(t, r) /\ boundary' = boundary
          /\ UNCHANGED <<speaking, silent, timerVars>>
      BY <1>5, <2>3 DEF OnTranscript, userVars, outVars
    <3>2. DataOK' /\ LockQuiet'
      BY <1>5 DEF OnTranscript, DataOK, LockQuiet, userVars, replyVars, outVars,
         timerVars
    <3>3. Moves(t, r)
      BY <1>t, <3>1, IdlePlaces, GoMoves DEF Places
    <3>4. LockMoves(t, r)
      BY <1>t, <3>1, LockAlone
    <3>5. Remembers(t, r) /\ ~Resolver(t, at[t])
      BY <1>t, <2>1 DEF Remembers, Resolver, Idle
    <3>6. QED
      BY <1>t, <2>1, <3>1, <3>2, <3>3, <3>4, <3>5, PlainStep
  <2>4. QED
    BY <2>2, <2>3
<1>6. CASE t = "vad" /\ OnVADInferenceDone
  <2>1. ~at[t].timed /\ Interrupting(t, FALSE)
    BY <1>6 DEF OnVADInferenceDone, In, Remembers
  <2>2. QED
    BY <1>6, <1>int, <2>1 DEF OnVADInferenceDone
<1>7. CASE PauseRead(t)
  <2>1. ~at[t].timed
    BY <1>7 DEF PauseRead, In, Remembers
  <2>2. CASE Interrupting(t, FALSE)
    BY <1>7, <1>int, <2>1, <2>2 DEF PauseRead
  <2>3. CASE ~Interrupting(t, FALSE)
    <3>1. /\ Go(t, Idle) /\ ~Eligible /\ boundary' = boundary
          /\ speaking' = speaking /\ silent' = silent
          /\ pause' = pause /\ armed' = armed
      BY <1>7, <2>3 DEF PauseRead, userVars, outVars, timerVars
    <3>2. DataOK'
      BY <1>7 DEF PauseRead, DataOK, userVars, replyVars, outVars, timerVars
    <3>3. TimerHasPause' /\ LockQuiet'
      BY <3>1 DEF TimerHasPause, LockQuiet, Paused
    <3>4. Moves(t, Idle)
      BY <1>t, <3>1, IdlePlaces, GoMoves
    <3>5. LockMoves(t, Idle) /\ Remembers(t, Idle)
      BY <1>t, <3>1, LockAlone DEF Remembers, Idle
    <3>6. IInv'
      BY <1>t, <3>1, <3>2, <3>3, <3>4, <3>5, StepKeeps
    <3>7. Attended => Attended'
      BY <2>1, <3>1, <3>4, StillAttended
    <3>8. QED
      BY <1>7, <3>1, <3>6, <3>7 DEF Sound, Orphans
  <2>4. QED
    BY <2>2, <2>3
<1>after. /\ AfterPause(t) \in Goroutines /\ Remembers(t, AfterPause(t))
          /\ AfterPause(t).timed = at[t].timed
  <2>1. CASE at[t].timed
    BY <1>t, <2>1, IdlePlaces DEF AfterPause, Idle, Remembers
  <2>2. CASE ~at[t].timed
    BY <1>t, <2>2, IdlePlaces DEF AfterPause, Idle, Remembers
  <2>3. QED
    BY <2>1, <2>2
<1>8. CASE PauseRecord(t)
  <2> DEFINE quiet == [Step(t, "silence") EXCEPT !.speech = 0]
  <2>1. /\ at[t].pc = "record" /\ speaking' = speaking /\ boundary' = boundary
        /\ silent' = silent
    BY <1>8 DEF PauseRecord, In, userVars, outVars
  <2>2. at[t].speech # 0 /\ at[t].speech \in Speech \cup {0}
    BY <2>1, <1>t DEF Remembers
  <2>3. quiet \in Goroutines /\ quiet.timed = at[t].timed /\ Remembers(t, quiet)
    <3>1. Step(t, "silence") \in Goroutines
      BY <1>t, StepPlaces DEF Places
    <3>2. Step(t, "silence").timed = at[t].timed /\ Step(t, "silence").pc = "silence"
      BY <1>t, StepPlaces DEF Places
    <3>3. /\ quiet \in Goroutines /\ quiet.timed = at[t].timed
          /\ quiet.pc = "silence"
      BY <3>1, <3>2 DEF Goroutines
    <3>4. QED
      BY <1>t, <3>3 DEF Remembers
  <2>4. PICK r \in {AfterPause(t), quiet} : Go(t, r) \/ Bump(t, r)
    BY <1>8 DEF PauseRecord
  <2>5. Moves(t, r)
    BY <1>t, <1>after, <2>3, <2>4, GoMoves, BumpMoves
  <2>6. /\ Paused' /\ pause' \in [speech : Speech \cup {0}, awaited : BOOLEAN]
        /\ armed' \in BOOLEAN /\ (armed' => armed)
    <3>1. pause \in [speech : Speech \cup {0}, awaited : BOOLEAN] /\ armed \in BOOLEAN
      BY DEF DataOK
    <3>2. \/ /\ pause.speech = at[t].speech /\ pause' = pause
             /\ armed' = armed \/ armed' = FALSE
          \/ pause' = [speech |-> at[t].speech, awaited |-> FALSE] /\ armed' = FALSE
      BY <1>8 DEF PauseRecord, timerVars
    <3>3. CASE /\ pause.speech = at[t].speech /\ pause' = pause
               /\ armed' = armed \/ armed' = FALSE
      <4>1. Paused' /\ pause' \in [speech : Speech \cup {0}, awaited : BOOLEAN]
        BY <2>2, <3>1, <3>3 DEF Paused
      <4>2. armed' \in BOOLEAN /\ (armed' => armed)
        <5>1. CASE armed' = armed
          BY <3>1, <5>1
        <5>2. CASE armed' = FALSE
          BY <5>2
        <5>3. QED
          BY <3>3, <5>1, <5>2
      <4>3. QED
        BY <4>1, <4>2
    <3>4. CASE pause' = [speech |-> at[t].speech, awaited |-> FALSE] /\ armed' = FALSE
      <4>1. pause'.speech = at[t].speech
        BY <3>4
      <4>2. pause' \in [speech : Speech \cup {0}, awaited : BOOLEAN]
        BY <2>2, <3>4
      <4>3. QED
        BY <2>2, <3>4, <4>1, <4>2 DEF Paused
    <3>5. QED
      BY <3>2, <3>3, <3>4
  <2>7. DataOK'
    BY <1>8, <2>6 DEF PauseRecord, DataOK, userVars, replyVars, outVars
  <2>8. TimerHasPause' /\ LockQuiet'
    BY <2>1, <2>6 DEF TimerHasPause, LockQuiet
  <2>9. LockMoves(t, r) /\ Remembers(t, r)
    BY <1>t, <1>after, <2>1, <2>3, LockAlone
  <2>10. IInv'
    BY <1>t, <2>1, <2>5, <2>7, <2>8, <2>9, StepKeeps
  <2>11. at'[t].timed = at[t].timed
    BY <1>t, <1>after, <2>3, <2>4, <2>5 DEF Moves
  <2>12. ~Attended' => Abandons
    BY <1>8, <2>1, <2>11 DEF Attended, Abandons
  <2>13. QED
    BY <2>1, <2>6, <2>10, <2>12 DEF Sound, Orphaned
<1>9. CASE PauseOutput(t)
  <2>1. /\ Go(t, AfterPause(t)) /\ silent' /\ at[t].pc = "silence"
        /\ speaking' = speaking /\ boundary' = boundary
        /\ pause' = pause /\ armed' = armed
    BY <1>9 DEF PauseOutput, In, userVars, timerVars
  <2>2. Moves(t, AfterPause(t))
    BY <1>t, <1>after, <2>1, GoMoves
  <2>3. DataOK'
    BY <1>9, <2>1 DEF PauseOutput, DataOK, replyVars
  <2>4. TimerHasPause' /\ LockQuiet'
    BY <2>1 DEF TimerHasPause, LockQuiet, Paused
  <2>5. LockMoves(t, AfterPause(t))
    BY <1>t, <2>1, LockAlone
  <2>6. IInv'
    BY <1>t, <1>after, <2>1, <2>2, <2>3, <2>4, <2>5, StepKeeps
  <2>7. Attended => Attended'
    BY <1>after, <2>1, <2>2, StillAttended
  <2>8. Orphaned' => Orphans
    BY <1>9, <2>1 DEF Orphaned, Orphans, Paused
  <2>9. QED
    BY <2>1, <2>6, <2>7, <2>8 DEF Sound
<1>10. CASE StartFalseInterruptionTimer(t)
  <2>1. /\ at[t].pc = "timer" /\ speaking' = speaking /\ boundary' = boundary
        /\ silent' = silent /\ pause' = pause
    BY <1>10 DEF StartFalseInterruptionTimer, In, userVars, outVars
  <2>2. Go(t, Idle) \/ Bump(t, Idle)
    BY <1>10 DEF StartFalseInterruptionTimer
  <2>3. Moves(t, Idle)
    BY <1>t, <2>2, IdlePlaces, GoMoves, BumpMoves
  <2>4. /\ armed' \in BOOLEAN
        /\ speaking \/ ~Paused => armed' = armed
        /\ ~speaking /\ Paused => armed'
    BY <1>10 DEF StartFalseInterruptionTimer, DataOK
  <2>5. DataOK'
    BY <1>10, <2>1, <2>4 DEF StartFalseInterruptionTimer, DataOK, replyVars, outVars
  <2>6. TimerHasPause' /\ LockQuiet'
    BY <2>1, <2>4 DEF TimerHasPause, LockQuiet, Paused
  <2>7. LockMoves(t, Idle) /\ Remembers(t, Idle) /\ ~Resolver(t, at[t])
    BY <1>t, <2>1, LockAlone DEF Remembers, Resolver, Idle
  <2>8. IInv'
    BY <1>t, <2>1, <2>3, <2>5, <2>6, <2>7, StepKeeps
  <2>9. Attended'
    BY <2>1, <2>4 DEF Attended, Paused
  <2>10. Orphaned' => Orphaned
    BY <2>1, <2>3, <2>7, StillResolved DEF Paused
  <2>11. QED
    BY <2>1, <2>8, <2>9, <2>10 DEF Sound
<1>11. QED
  BY <1>1, <1>2, <1>3, <1>4, <1>5, <1>6, <1>7, <1>8, <1>9, <1>10 DEF Hears, Pauses

-----------------------------------------------------------------------------
(* The callbacks of the timer.                                             *)
LEMMA CallbackStep ==
    ASSUME IInv, NEW t \in Slot, Timer(t)
    PROVE  Sound
<1> USE Who, DataTypes
<1>t. t \in Thread /\ t \notin Listener /\ t \notin {"reply", "turn"}
  OBVIOUS
<1>idle. /\ Idle \in Goroutines /\ Idle.pc = "idle" /\ Remembers(t, Idle)
  BY <1>t, IdlePlaces DEF Idle, Remembers
<1>1. CASE TimerCheck(t)
  <2>1. PICK p \in {"commit", "await"} :
          /\ Go(t, [Idle EXCEPT !.pc = p, !.speech = pause.speech])
          /\ boundary' = IF p = "await" THEN t ELSE boundary
    BY <1>1 DEF TimerCheck
  <2> DEFINE r == [Idle EXCEPT !.pc = p, !.speech = pause.speech]
  <2>2. /\ at[t].pc = "idle" /\ boundary = None /\ Paused /\ ~speaking
        /\ ~armed' /\ pause' = NoPause /\ speaking' = speaking /\ silent' = silent
    BY <1>1 DEF TimerCheck, In, outVars
  <2>3. Moves(t, r) /\ r.pc = p /\ r.speech = pause.speech
    BY <1>t, <2>1, IdlePlaces, GoMoves DEF DataOK, Places, Idle
  <2>a. boundary' \in Slot \cup {None}
    BY <2>1, <2>2
  <2>b. DataOK'
    BY <1>1, <2>a, <2>2, NoPauseType DEF TimerCheck, DataOK, replyVars, outVars
  <2>4. DataOK' /\ TimerHasPause' /\ LockQuiet'
    BY <2>b, <2>2 DEF TimerHasPause, LockQuiet
  <2>5. LockMoves(t, r)
    BY <2>1, <2>2, <2>3, LockAlone, LockTaken
  <2>6. Remembers(t, r) /\ Resolver(t, r)
    BY <1>t, <2>2, <2>3 DEF Remembers, Resolver, Paused
  <2>7. IInv'
    BY <2>3, <2>4, <2>5, <2>6, StepKeeps
  <2>8. ~Orphaned'
    BY <1>t, <2>3, <2>6, ResolverClears
  <2>9. QED
    BY <2>2, <2>7, <2>8 DEF Sound, Attended, Paused, NoPause
<1>2. CASE TimerAwait(t)
  <2>1. /\ at[t].pc = "await" /\ boundary' = None /\ speaking' = speaking
        /\ silent' = silent /\ ~speaking
    BY <1>2, <1>t, FalseInterruptionAssumption
       DEF TimerAwait, In, outVars, LockQuiet, TypeOK, LockHeld
  <2>2. /\ Moves(t, Idle) /\ Paused'
        /\ pause' \in [speech : Speech \cup {0}, awaited : BOOLEAN]
        /\ armed' \in BOOLEAN
    <3>1. CASE Paused
      BY <1>2, <1>t, <1>idle, <3>1, GoMoves
         DEF TimerAwait, DataOK, Paused, timerVars
    <3>2. CASE ~Paused
      <4>1. /\ pause' = [speech |-> at[t].speech, awaited |-> TRUE] /\ armed' = TRUE
            /\ Bump(t, Idle)
        BY <1>2, <3>2 DEF TimerAwait
      <4>2. at[t].speech # 0 /\ at[t].speech \in Speech \cup {0}
        BY <1>t, <2>1 DEF Remembers
      <4>3. QED
        BY <4>1, <4>2, <1>idle, BumpMoves DEF Paused
    <3>3. QED
      BY <3>1, <3>2
  <2>3. DataOK'
    BY <1>2, <2>1, <2>2 DEF TimerAwait, DataOK, replyVars, outVars
  <2>4. TimerHasPause' /\ LockQuiet'
    BY <2>1, <2>2 DEF TimerHasPause, LockQuiet
  <2>5. LockMoves(t, Idle)
    BY <1>idle, <2>1, LockLeft
  <2>6. IInv'
    BY <1>idle, <2>2, <2>3, <2>4, <2>5, StepKeeps
  <2>7. Attended => Attended'
    <3>1. CASE Paused
      <4>1. pause' = pause /\ armed' = armed
        BY <1>2, <3>1 DEF TimerAwait, timerVars
      <4>2. QED
        BY <1>t, <2>1, <2>2, <4>1, StillAttended
    <3>2. CASE ~Paused
      BY <1>2, <3>2 DEF TimerAwait, Attended
    <3>3. QED
      BY <3>1, <3>2
  <2>8. QED
    BY <2>1, <2>2, <2>6, <2>7 DEF Sound, Orphaned
(* A callback that goes on, and takes the lock or leaves it alone.         *)
<1>on. ASSUME NEW r \in Goroutines, Go(t, r), Resolver(t, r), Remembers(t, r),
              LockMoves(t, r), boundary' \in {boundary, t}, ~speaking \/ boundary' = boundary,
              UNCHANGED <<speaking, replyVars, outVars, timerVars>>
       PROVE  Sound
  <2>1. Moves(t, r)
    BY <1>t, <1>on, GoMoves
  <2>2. DataOK' /\ LockQuiet'
    BY <1>on DEF DataOK, LockQuiet, replyVars, outVars, timerVars
  <2>3. silent' = silent
    BY <1>on DEF outVars
  <2>4. QED
    BY <1>t, <1>on, <2>1, <2>2, <2>3, PlainStep
<1>3. CASE TimerCommit(t)
  <2> DEFINE r == IF held THEN [Idle EXCEPT !.pc = "unpause"] ELSE Step(t, "recheck")
  <2>1. /\ Go(t, r) /\ at[t].pc = "commit" /\ boundary' = boundary
        /\ UNCHANGED <<speaking, replyVars, outVars, timerVars>>
    BY <1>3 DEF TimerCommit, In, userVars
  <2>2. r \in Goroutines /\ r.pc \in {"unpause", "recheck"}
    BY <1>t, IdlePlaces, StepPlaces DEF Places, Idle
  <2>3. Resolver(t, r) /\ Remembers(t, r)
    BY <1>t, <2>2 DEF Resolver, Remembers
  <2>4. LockMoves(t, r)
    BY <2>1, <2>2, LockAlone
  <2>5. QED
    BY <1>on, <2>1, <2>2, <2>3, <2>4
<1>4. CASE Unpause(t)
  <2>1. /\ Go(t, Idle) /\ at[t].pc = "unpause" /\ ~silent' /\ boundary' = boundary
        /\ speaking' = speaking /\ pause' = pause /\ armed' = armed
    BY <1>4 DEF Unpause, In, userVars, timerVars
  <2>2. Moves(t, Idle)
    BY <1>t, <1>idle, <2>1, GoMoves
  <2>3. DataOK'
    BY <1>4, <2>1 DEF Unpause, DataOK, replyVars
  <2>4. TimerHasPause' /\ LockQuiet'
    BY <2>1 DEF TimerHasPause, LockQuiet, Paused
  <2>5. LockMoves(t, Idle)
    BY <1>idle, <2>1, LockAlone
  <2>6. IInv'
    BY <1>idle, <2>2, <2>3, <2>4, <2>5, StepKeeps
  <2>7. Attended => Attended'
    BY <1>t, <2>1, <2>2, StillAttended
  <2>8. QED
    BY <1>4, <1>t, <2>1, <2>6, <2>7 DEF Sound, OverUser, Orphaned
<1>5. CASE TimerGivesUp(t)
  <2>1. /\ Go(t, Idle) /\ at[t].pc \in {"recheck", "again"} /\ boundary' = boundary
        /\ speaking' = speaking /\ silent' = silent
        /\ pause' = pause /\ armed' = armed
    BY <1>5 DEF TimerGivesUp, userVars, outVars, timerVars
  <2>2. Moves(t, Idle)
    BY <1>t, <1>idle, <2>1, GoMoves
  <2>3. DataOK'
    BY <1>5 DEF TimerGivesUp, DataOK, userVars, replyVars, outVars, timerVars
  <2>4. TimerHasPause' /\ LockQuiet'
    BY <2>1 DEF TimerHasPause, LockQuiet, Paused
  <2>5. LockMoves(t, Idle)
    BY <1>idle, <2>1, LockAlone
  <2>6. IInv'
    BY <1>idle, <2>2, <2>3, <2>4, <2>5, StepKeeps
  <2>7. Attended => Attended'
    BY <1>t, <2>1, <2>2, StillAttended
  <2>8. QED
    BY <1>5, <2>1, <2>6, <2>7 DEF Sound, Orphans
(* Both checks find the user silent before the callback keeps the lock.    *)
<1> DEFINE resume == [Idle EXCEPT !.pc = "resume"]
<1>res. /\ resume \in Goroutines /\ Resolver(t, resume) /\ Remembers(t, resume)
        /\ boundary = None /\ boundary' = t => LockMoves(t, resume)
  <2>1. resume.pc = "resume"
    BY DEF Idle
  <2>2. resume \in Goroutines
    BY IdlePlaces DEF Places
  <2>3. Resolver(t, resume) /\ Remembers(t, resume)
    BY <1>t, <2>1 DEF Resolver, Remembers
  <2>4. boundary = None /\ boundary' = t => LockMoves(t, resume)
    BY <2>1, LockTaken
  <2>5. QED
    BY <2>2, <2>3, <2>4
<1>6. CASE TimerRecheck(t)
  <2>1. /\ at[t].pc = "recheck" /\ boundary = None /\ ~speaking
        /\ UNCHANGED <<speaking, replyVars, outVars, timerVars>>
    BY <1>6 DEF TimerRecheck, In, Stale
  <2>2. CASE current = at[t].speech /\ current \notin over
    <3> DEFINE r == Step(t, "again")
    <3>1. Go(t, r) /\ boundary' = boundary
      BY <1>6, <2>2 DEF TimerRecheck
    <3>2. r \in Goroutines /\ r.pc = "again"
      BY <1>t, StepPlaces DEF Places
    <3>3. Resolver(t, r) /\ Remembers(t, r)
      BY <1>t, <3>2 DEF Resolver, Remembers
    <3>4. LockMoves(t, r)
      BY <2>1, <3>1, <3>2, LockAlone
    <3>5. QED
      BY <1>on, <2>1, <3>1, <3>2, <3>3, <3>4
  <2>3. CASE ~(current = at[t].speech /\ current \notin over)
    <3>1. Go(t, resume) /\ boundary' = t
      BY <1>6, <2>3 DEF TimerRecheck
    <3>2. QED
      BY <1>on, <1>res, <2>1, <3>1
  <2>4. QED
    BY <2>2, <2>3
<1>7. CASE TimerRecheckAgain(t)
  <2>1. /\ Go(t, resume) /\ boundary = None /\ boundary' = t
        /\ ~speaking /\ UNCHANGED <<speaking, replyVars, outVars, timerVars>>
    BY <1>7 DEF TimerRecheckAgain, Stale
  <2>2. QED
    BY <1>on, <1>res, <2>1
<1>8. CASE TimerResume(t)
  <2>1. /\ Go(t, Idle) /\ at[t].pc = "resume" /\ ~silent' /\ boundary' = None
        /\ speaking' = speaking /\ pause' = pause /\ armed' = armed
    BY <1>8 DEF TimerResume, In, timerVars
  <2>2. ~speaking
    BY <2>1, FalseInterruptionAssumption DEF TypeOK, LockHeld, LockQuiet
  <2>3. Moves(t, Idle)
    BY <1>t, <1>idle, <2>1, GoMoves
  <2>4. DataOK'
    BY <1>8, <2>1 DEF TimerResume, DataOK, replyVars
  <2>5. TimerHasPause' /\ LockQuiet'
    BY <2>1 DEF TimerHasPause, LockQuiet, Paused
  <2>6. LockMoves(t, Idle)
    BY <1>idle, <2>1, LockLeft
  <2>7. IInv'
    BY <1>idle, <2>3, <2>4, <2>5, <2>6, StepKeeps
  <2>8. Attended => Attended'
    BY <1>t, <2>1, <2>3, StillAttended
  <2>9. QED
    BY <2>1, <2>2, <2>7, <2>8 DEF Sound, Orphaned
<1>9. QED
  BY <1>1, <1>2, <1>3, <1>4, <1>5, <1>6, <1>7, <1>8 DEF Timer
-----------------------------------------------------------------------------
(* The turn that is committed.                                             *)
LEMMA TurnStep ==
    ASSUME IInv, TurnRead \/ Turn \/ TurnFails
    PROVE  Sound
<1> USE Who, DataTypes
<1>1. CASE TurnRead
  <2> DEFINE r == [Idle EXCEPT !.pc = "cancel", !.speech = current]
  <2>1. /\ Go("turn", r) /\ at["turn"].pc = "idle" /\ current # 0
        /\ UNCHANGED <<speaking, silent, timerVars>> /\ boundary' = boundary
    BY <1>1 DEF TurnRead, Eligible, In, userVars, outVars
  <2>2. DataOK' /\ LockQuiet'
    BY <1>1 DEF TurnRead, DataOK, LockQuiet, userVars, replyVars, outVars, timerVars
  <2>3. Moves("turn", r)
    BY <2>1, IdlePlaces, GoMoves DEF DataOK, Places
  <2>4. LockMoves("turn", r)
    BY <2>1, LockAlone
  <2>5. Remembers("turn", r) /\ ~Resolver("turn", at["turn"])
    BY <2>1 DEF Remembers, Resolver, Idle
  <2>6. QED
    BY <2>1, <2>2, <2>3, <2>4, <2>5, PlainStep
<1>2. CASE TurnCancelPause
  <2> DEFINE r == [Step("turn", "interrupt") EXCEPT !.took = Paused]
  <2>1. /\ Bump("turn", r) /\ at["turn"].pc = "cancel" /\ pause' = NoPause
        /\ ~armed' /\ speaking' = speaking /\ silent' = silent
        /\ boundary' = boundary
    BY <1>2 DEF TurnCancelPause, In, userVars, outVars
  <2>2. /\ r \in Goroutines /\ r.pc = "interrupt" /\ r.took = Paused
        /\ r.speech = at["turn"].speech
    <3>1. Step("turn", "interrupt") \in Goroutines
      BY StepPlaces DEF Places
    <3>2. /\ Step("turn", "interrupt").pc = "interrupt"
          /\ Step("turn", "interrupt").speech = at["turn"].speech
      BY StepPlaces DEF Places
    <3>3. Paused \in BOOLEAN
      BY DEF Paused
    <3>4. QED
      BY <3>1, <3>2, <3>3 DEF Goroutines
  <2>3. Moves("turn", r)
    BY <2>1, <2>2, BumpMoves
  <2>a. DataOK'
    BY <1>2, <2>1, NoPauseType DEF TurnCancelPause, DataOK, userVars, replyVars, outVars
  <2>4. DataOK' /\ TimerHasPause' /\ LockQuiet' /\ ~Paused'
    BY <2>1, <2>a, NoPauseType DEF TimerHasPause, LockQuiet, Paused
  <2>5. LockMoves("turn", r)
    BY <2>1, LockAlone
  <2>6. Remembers("turn", r) /\ ~Resolver("turn", at["turn"])
    BY <2>1, <2>2 DEF Remembers, Resolver
  <2>7. IInv'
    BY <2>1, <2>3, <2>4, <2>5, <2>6, StepKeeps
  <2>8. Orphaned' => Orphaned
    <3>1. CASE Paused
      BY <2>2, <2>3, <3>1, ResolverClears DEF Resolver
    <3>2. CASE ~Paused
      BY <2>1, <2>3, <2>4, <2>6, <3>2, StillResolved
    <3>3. QED
      BY <3>1, <3>2
  <2>9. QED
    BY <2>1, <2>4, <2>7, <2>8 DEF Sound, Attended
<1>3. CASE TurnInterrupt
  <2> DEFINE r == Step("turn", "wait")
  <2>1. /\ Go("turn", r) /\ at["turn"].pc = "interrupt" /\ boundary' = boundary
        /\ UNCHANGED <<speaking, silent, timerVars>>
    BY <1>3 DEF TurnInterrupt, In, userVars, outVars
  <2>2. stopped' \subseteq Speech
    BY <1>3, <2>1 DEF TurnInterrupt, DataOK, Remembers
  <2>3. DataOK' /\ LockQuiet'
    BY <1>3, <2>2 DEF TurnInterrupt, DataOK, LockQuiet, userVars, outVars, timerVars
  <2>4. Moves("turn", r) /\ r.pc = "wait" /\ r.took = at["turn"].took
    BY <2>1, StepPlaces, GoMoves DEF Places
  <2>5. LockMoves("turn", r)
    BY <2>1, LockAlone
  <2>6. Remembers("turn", r) /\ (Resolver("turn", at["turn"]) => Resolver("turn", r))
    BY <2>4 DEF Remembers, Resolver
  <2>7. QED
    BY <2>1, <2>3, <2>4, <2>5, <2>6, PlainStep
(* A turn that is over leaves everything alone but the output.             *)
<1>end. ASSUME Go("turn", Idle), DataOK', silent' => silent,
               UNCHANGED <<userVars, timerVars>>
        PROVE  /\ IInv' /\ (Attended => Attended')
               /\ ~at["turn"].took => (Orphaned' => Orphaned)
  <2>1. Moves("turn", Idle)
    BY <1>end, IdlePlaces, GoMoves
  <2>2. /\ boundary' = boundary /\ speaking' = speaking
        /\ pause' = pause /\ armed' = armed
    BY <1>end DEF userVars, timerVars
  <2>3. TimerHasPause' /\ LockQuiet'
    BY <2>2 DEF TimerHasPause, LockQuiet, Paused
  <2>4. LockMoves("turn", Idle) /\ Remembers("turn", Idle)
    BY <2>2, LockAlone DEF Remembers, Idle
  <2>5. IInv'
    BY <1>end, <2>1, <2>2, <2>3, <2>4, StepKeeps
  <2>6. Attended => Attended'
    BY <2>1, <2>2, StillAttended
  <2>7. ~at["turn"].took => (Orphaned' => Orphaned)
    BY <1>end, <2>1, <2>2, StillResolved DEF Resolver, Paused
  <2>8. QED
    BY <2>5, <2>6, <2>7
<1>4. CASE TurnResume
  <2>1. /\ Go("turn", Idle) /\ silent' = (silent /\ ~at["turn"].took)
        /\ UNCHANGED <<userVars, replyVars, timerVars, held>>
    BY <1>4 DEF TurnResume
  <2>2. silent' \in BOOLEAN /\ (silent' => silent)
    BY <2>1
  <2>3. DataOK'
    BY <2>1, <2>2 DEF DataOK, userVars, replyVars, timerVars
  <2>4. at["turn"].took => ~Orphaned'
    BY <2>1 DEF Orphaned
  <2>5. QED
    BY <1>4, <1>end, <2>1, <2>2, <2>3, <2>4 DEF Sound, OverUser
<1>5. CASE TurnFails
  <2>1. Go("turn", Idle) /\ UNCHANGED <<userVars, replyVars, outVars, timerVars>>
    BY <1>5 DEF TurnFails
  <2>2. DataOK' /\ silent' = silent
    BY <2>1 DEF DataOK, userVars, replyVars, outVars, timerVars
  <2>3. QED
    BY <1>5, <1>end, <2>1, <2>2 DEF Sound, Orphans
<1>6. QED
  BY <1>1, <1>2, <1>3, <1>4, <1>5 DEF Turn

-----------------------------------------------------------------------------
LEMMA NextSound == IInv /\ Next => Sound
<1> SUFFICES ASSUME IInv, Next PROVE Sound
  OBVIOUS
<1>1. CASE \/ SpeechBegins \/ SpeechInterrupted \/ SpeechEnds \/ Reply
           \/ ClearUserTurn \/ HoldSTTEvents \/ UpdateTurnDetection
  BY <1>1, ReplyStep
<1>2. CASE OnTranscript \/ OnVADInferenceDone
  BY <1>2, ListenerStep DEF Listener
<1>3. CASE \E t \in Listener : Hears(t) \/ Pauses(t)
  BY <1>3, ListenerStep
<1>4. CASE \E t \in Slot : Timer(t)
  BY <1>4, CallbackStep
<1>5. CASE TurnRead \/ Turn \/ TurnFails
  BY <1>5, TurnStep
<1>6. QED
  BY <1>1, <1>2, <1>3, <1>4, <1>5 DEF Next

LEMMA Invariance == Spec => []IInv
<1>1. IInv /\ [Next]_vars => IInv'
  <2>1. CASE Next
    BY <2>1, NextSound DEF Sound
  <2>2. CASE UNCHANGED vars
    BY <2>2 DEF vars, userVars, replyVars, outVars, timerVars, IInv, TypeOK,
       TimerHasPause, LockQuiet, AllRemember, Remembers, LockHeld, Paused
  <2>3. QED
    BY <2>1, <2>2
<1>2. QED
  BY InitInv, <1>1, PTL DEF Spec

(* Every field keeps its type, and speechBoundaryMu is held by exactly the *)
(* callbacks that wait under it or resume the output under it.             *)
THEOREM TypeCorrect == Spec => []TypeOK
<1>1. IInv => TypeOK
  BY DEF IInv
<1>2. QED
  BY Invariance, <1>1, PTL

(* startFalseInterruptionTimer: a timer that is set has a pause to resolve *)
(* and nobody is speaking, whatever the other goroutines do.               *)
THEOREM TimerBound == Spec => []TimerHasPause
<1>1. IInv => TimerHasPause
  BY DEF IInv
<1>2. QED
  BY Invariance, <1>1, PTL

(* A step that brings the output back while the user speaks is that of a   *)
(* callback or an onset that commits a held utterance, of the end of the   *)
(* paused speech, or of a committed turn; the verdict of                   *)
(* resumeFalseInterruptionFor that nothing was said is never one.          *)
THEOREM NeverOverUser == Spec => NoResumeOverUser
<1>1. IInv /\ [Next]_vars
      => [silent /\ ~silent' /\ speaking =>
             \/ \E t \in Thread : Unpause(t)
             \/ ReleaseOutput
             \/ TurnResume]_vars
  BY NextSound DEF Sound, OverUser
<1>2. QED
  BY Invariance, <1>1, PTL DEF Spec, NoResumeOverUser

(* Only a change of the turn detection, ClearUserTurn, and an onset or an  *)
(* inference that records its pause, or stops the timer of one, when the   *)
(* user is no longer taken to speak, leave a pause to which nobody attends.*)
THEOREM AllAttended == Spec => PausesAttended
<1>1. IInv /\ [Next]_vars
      => [Attended /\ ~Attended' =>
             \/ UpdateTurnDetection
             \/ ClearUserTurn
             \/ \E t \in Listener : PauseRecord(t) /\ ~at[t].timed /\ ~speaking]_vars
  BY NextSound DEF Sound, Abandons
<1>2. QED
  BY Invariance, <1>1, PTL DEF Spec, PausesAttended

(* Only four steps leave the output paused for nobody: pausing the output  *)
(* after the pause has been resolved, a callback of the timer that finds   *)
(* itself out of date, a pauser that finds the speech gone and a committed *)
(* turn whose wait fails.  Nothing else forgets an output that is paused.  *)
THEOREM KnownOrphans == Spec => OrphansKnown
<1>1. IInv /\ [Next]_vars
      => [Orphaned' /\ ~Orphaned =>
             \/ \E t \in Listener : PauseOutput(t) /\ ~Paused
             \/ \E t \in Listener : PauseRead(t) /\ ~Eligible
             \/ \E t \in Slot : TimerGivesUp(t)
             \/ TurnFails]_vars
  BY NextSound DEF Sound, Orphans
<1>2. QED
  BY Invariance, <1>1, PTL DEF Spec, OrphansKnown
=============================================================================
