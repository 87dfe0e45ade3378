------------------------- MODULE SpeechWaitingProofs -------------------------
(***************************************************************************)
(* Replies that wait for the activity to be quiet do not wait for each     *)
(* other in a circle: for every set of speeches, finite or not, and every  *)
(* choice of what the environment does.                                    *)
(***************************************************************************)
EXTENDS SpeechWakeUpProofs

(* The speeches a reply waits for, now or later in its snapshot.           *)
WaitsFor(h) == waiter[h].todo \cup {waiter[h].target}

(* WaitForInactive is called by a reply that has run its tools, and its    *)
(* snapshot is gone when the reply goes on.                                *)
OnlyIdleWait == \A h \in Speech : reply[h] # "idle" => waiter[h] = NotWaiting

(* A reply goroutine ends with its speech or because of Stop.              *)
OverEnded == \A h \in Speech : reply[h] = "over" => handle[h].done \/ closed

(* Whoever is blocked, and nobody else, is blocked on a speech.            *)
BlockedOnSpeech ==
    \A w \in Waiters : IF waiter[w].at = "blocked" THEN waiter[w].target \in Speech
                                                  ELSE waiter[w].target = None

(* Among any replies there is one that waits for none of them.  (A reply   *)
(* that takes its snapshot finds no reply that waits already: that one has *)
(* closed its newest generation, so it is not active.)                     *)
Grounded ==
    \A S \in SUBSET Speech :
        S # {} => \E h \in S : \A g \in S : g \notin WaitsFor(h)

WaitInv == OnlyIdleWait /\ OverEnded /\ BlockedOnSpeech /\ Grounded

(* This is what keeps the blocked calls from being blocked on each other.  *)
LEMMA GroundedWaits == WaitInv => NoCircularWait
<1> DEFINE B == {w \in Waiters : Blocked(w)}
<1> SUFFICES ASSUME WaitInv, B # {}
             PROVE  \E w \in B : /\ waiter[w].target \notin B
                                 /\ reply[waiter[w].target] = "over" => closed
  BY DEF NoCircularWait
<1>1. ASSUME NEW w \in B
      PROVE  /\ waiter[w].target \in Speech
             /\ reply[waiter[w].target] = "over" => closed
  BY <1>1 DEF WaitInv, BlockedOnSpeech, OverEnded, Blocked
<1>2. CASE B \cap Speech = {}
  BY <1>1, <1>2
<1>3. CASE B \cap Speech # {}
  <2>1. B \cap Speech \in SUBSET Speech
    OBVIOUS
  <2>2. PICK h \in B \cap Speech : \A g \in B \cap Speech : g \notin WaitsFor(h)
    BY <1>3, <2>1 DEF WaitInv, Grounded
  <2>3. waiter[h].target \in WaitsFor(h)
    BY DEF WaitsFor
  <2>4. waiter[h].target \notin B
    BY <1>1, <2>2, <2>3
  <2>5. QED
    BY <1>1, <2>2, <2>4
<1>4. QED
  BY <1>2, <1>3

LEMMA WaitInit == Init => WaitInv
<1> SUFFICES ASSUME Init PROVE WaitInv
  OBVIOUS
<1>1. \A w \in Waiters : waiter[w] = NotWaiting
  BY DEF Init
<1>2. \A h \in Speech : reply[h] = "none"
  BY DEF Init
<1>3. \A h \in Speech, g \in Speech : g \notin WaitsFor(h)
  BY <1>1, SchedulingAssumption DEF WaitsFor, NotWaiting, Waiters
<1>4. QED
  BY <1>1, <1>2, <1>3 DEF WaitInv, OnlyIdleWait, OverEnded, BlockedOnSpeech,
                           Grounded, NotWaiting, Waiters

-----------------------------------------------------------------------------
(* How the parts of the invariant survive.                                 *)

(* A stopped activity stays stopped.                                       *)
LEMMA ClosedStays == ASSUME Next, closed PROVE closed'
<1>1. CASE Caller
  BY <1>1, Zenon DEF Caller, ScheduleSpeech, InterruptActivity, InterruptSpeech,
     PauseScheduling, ResumeScheduling, DrainBegin, StopCancel, UserTurn,
     CommitUserTurn, flagVars
<1>2. CASE Runner
  BY <1>2, Zenon DEF Runner, Start, Signal, TaskReceive, TaskEnd, TaskPass, Pass,
     DrainClear, DrainPause, StopPause, flagVars
<1>3. ASSUME NEW h \in Speech, Reply(h) \/ Ending(h) PROVE closed'
  BY <1>3, Zenon DEF Reply, ReplySkip, ReplyEnter, ReplyBegin, ReplySettle,
     ReplyGiveUp, ReplyToolsDone, ReplyContinue, ReplyResume, ReplyFinish, Ending,
     Watch, OnPipelineReplyDone, TimeoutFires, flagVars
<1>4. ASSUME NEW w \in Waiters, Waiting(w) PROVE closed'
  BY <1>4, Zenon DEF Waiting, WaiterPass, WaiterSnapshot, WaiterWoken, WaiterNext,
     WaiterProceeds, flagVars
<1>5. QED
  BY <1>1, <1>2, <1>3, <1>4 DEF Next

(* The waits are grounded as long as no reply waits for more than before.  *)
LEMMA FewerWaits ==
    ASSUME Grounded, \A h \in Speech : WaitsFor(h)' \subseteq WaitsFor(h) \cup {None}
    PROVE  Grounded'
<1> SUFFICES ASSUME NEW S \in SUBSET Speech, S # {}
             PROVE  \E h \in S : \A g \in S : g \notin WaitsFor(h)'
  BY DEF Grounded
<1>1. PICK h \in S : \A g \in S : g \notin WaitsFor(h)
  BY DEF Grounded
<1>2. \A g \in S : g \notin WaitsFor(h)'
  BY <1>1, SchedulingAssumption
<1>3. QED
  BY <1>2

(* A snapshot that finds only speeches whose replies do not wait closes no *)
(* circle.                                                                 *)
LEMMA SnapshotGrounded ==
    ASSUME Grounded, OnlyIdleWait, NEW h \in Speech,
           \A g \in Speech \ {h} : WaitsFor(g)' = WaitsFor(g),
           \A g \in Speech : g \in WaitsFor(h)' => reply[g] # "idle",
           reply[h] = "idle"
    PROVE  Grounded'
<1> SUFFICES ASSUME NEW S \in SUBSET Speech, S # {}
             PROVE  \E g \in S : \A f \in S : f \notin WaitsFor(g)'
  BY DEF Grounded
<1>1. CASE h \notin S
  BY <1>1 DEF Grounded
<1>2. CASE \E g \in S : reply[g] # "idle"
  <2>1. PICK g \in S : reply[g] # "idle"
    BY <1>2
  <2>2. WaitsFor(g) = {None}
    BY <2>1 DEF OnlyIdleWait, WaitsFor, NotWaiting
  <2>3. WaitsFor(g)' = {None}
    BY <2>1, <2>2
  <2>4. QED
    BY <2>3, SchedulingAssumption
<1>3. CASE h \in S /\ \A g \in S : reply[g] = "idle"
  BY <1>3
<1>4. QED
  BY <1>1, <1>2, <1>3

(* A step that leaves the waiters alone: no reply starts to wait, and one  *)
(* that ends has ended its speech or finds the activity stopped.           *)
LEMMA QuietWaits ==
    ASSUME WaitInv, UNCHANGED waiter, closed => closed',
           \A h \in Speech : handle[h].done => handle'[h].done,
           \A h \in Speech : /\ reply[h] = "idle" => reply'[h] = "idle"
                             /\ reply'[h] = "over" =>
                                  reply[h] = "over" \/ handle'[h].done \/ closed'
    PROVE  WaitInv'
<1>1. OnlyIdleWait'
  BY DEF WaitInv, OnlyIdleWait
<1>2. OverEnded'
  BY DEF WaitInv, OverEnded
<1>3. BlockedOnSpeech'
  BY DEF WaitInv, BlockedOnSpeech
<1>4. Grounded'
  BY FewerWaits DEF WaitInv, WaitsFor
<1>5. QED
  BY <1>1, <1>2, <1>3, <1>4 DEF WaitInv

(* One run of processQueue starts replies that had not begun.              *)
LEMMA ProcessQueueReplies ==
    ASSUME TurnInv, ProcessQueue
    PROVE  \A h \in Speech : \/ reply'[h] = reply[h]
                             \/ reply[h] = "none" /\ reply'[h] = "delay"
<1>1. reply \in [Speech -> ReplyStates]
  BY DEF TurnInv, TypeOK
<1>2. CASE UNCHANGED reply
  BY <1>2
<1>3. ASSUME NEW e \in speechQueue, reply' = [reply EXCEPT ![e.speech] = "delay"]
      PROVE  \A h \in Speech : \/ reply'[h] = reply[h]
                               \/ reply[h] = "none" /\ reply'[h] = "delay"
  BY <1>1, <1>3 DEF TurnInv, QueuedOnce
<1>4. QED
  BY <1>2, <1>3, Zenon DEF ProcessQueue
-----------------------------------------------------------------------------
(* The steps.                                                              *)

(* Callers and the goroutines that run processQueue touch Drain's wait at  *)
(* most.                                                                   *)
LEMMA OthersWait ==
    ASSUME TurnInv, WaitInv, Next, Caller \/ Runner
    PROVE  WaitInv'
<1>a. TypeOK /\ waiter \in [Waiters -> WaiterRecords]
  BY DEF TurnInv, TypeOK, WaiterRecords
<1>b. Drainer \in Waiters /\ Drainer \notin Speech /\ Speech \subseteq Waiters
  BY SchedulingAssumption DEF Waiters
<1>c. (closed => closed') /\ \A h \in Speech : handle[h].done => handle'[h].done
  BY <1>a, ClosedStays, DoneStays
<1>1. \A h \in Speech : \/ reply'[h] = reply[h]
                        \/ reply[h] = "none" /\ reply'[h] = "delay"
  <2>1. \/ UNCHANGED reply
        \/ ProcessQueue
    BY Zenon DEF Caller, ScheduleSpeech, InterruptActivity, InterruptSpeech,
       PauseScheduling, ResumeScheduling, DrainBegin, StopCancel, UserTurn,
       CommitUserTurn, Runner, Start, Signal, TaskReceive, TaskEnd, TaskPass, Pass,
       DrainClear, DrainPause, StopPause, threadVars
  <2>2. QED
    BY <2>1, ProcessQueueReplies
<1>2. \/ UNCHANGED waiter
      \/ waiter' = [waiter EXCEPT ![Drainer] = Entering]
      \/ waiter' = [waiter EXCEPT ![Drainer] = NotWaiting]
  BY Zenon DEF Caller, ScheduleSpeech, InterruptActivity, InterruptSpeech,
     PauseScheduling, ResumeScheduling, DrainBegin, StopCancel, UserTurn,
     CommitUserTurn, Runner, Start, Signal, TaskReceive, TaskEnd, TaskPass, Pass,
     DrainClear, DrainPause, StopPause
<1>3. \A h \in Speech : waiter'[h] = waiter[h]
  BY <1>a, <1>b, <1>2
<1>4. OnlyIdleWait' /\ OverEnded'
  BY <1>c, <1>1, <1>3 DEF WaitInv, OnlyIdleWait, OverEnded
<1>5. BlockedOnSpeech'
  BY <1>a, <1>2 DEF WaitInv, BlockedOnSpeech, Entering, NotWaiting
<1>6. Grounded'
  BY <1>3, FewerWaits DEF WaitInv, WaitsFor
<1>7. QED
  BY <1>4, <1>5, <1>6 DEF WaitInv

(* The reply goroutine of a speech calls WaitForInactive and comes back.   *)
LEMMA ReplyWait ==
    ASSUME TurnInv, WaitInv, Next, NEW h \in Speech, Reply(h)
    PROVE  WaitInv'
<1>a. /\ TypeOK /\ waiter \in [Waiters -> WaiterRecords]
      /\ reply \in [Speech -> ReplyStates] /\ handle \in [Speech -> SpeechHandles]
  BY DEF TurnInv, TypeOK, WaiterRecords
<1>b. Speech \subseteq Waiters /\ h \in Waiters
  BY DEF Waiters
<1>c. (closed => closed') /\ \A g \in Speech : handle[g].done => handle'[g].done
  BY <1>a, ClosedStays, DoneStays
<1>1. CASE ReplyToolsDone(h) \/ ReplyContinue(h)
  <2>1. PICK p \in {"idle", "resume", "finish"} : reply' = [reply EXCEPT ![h] = p]
    BY <1>1 DEF ReplyToolsDone, ReplyContinue
  <2>2. PICK n \in {Entering, NotWaiting} :
          /\ waiter' = [waiter EXCEPT ![h] = n]
          /\ p # "idle" => n = NotWaiting
    BY <1>1, <1>a, <2>1 DEF ReplyToolsDone, ReplyContinue
  <2>3. /\ reply'[h] = p /\ waiter'[h] = n
        /\ \A g \in Speech \ {h} : reply'[g] = reply[g]
        /\ \A w \in Waiters \ {h} : waiter'[w] = waiter[w]
    BY <1>a, <1>b, <2>1, <2>2
  <2>4. OnlyIdleWait'
    BY <1>b, <2>2, <2>3 DEF WaitInv, OnlyIdleWait
  <2>5. OverEnded'
    BY <1>c, <2>3 DEF WaitInv, OverEnded
  <2>6. n.at # "blocked" /\ n.todo = {} /\ n.target = None
    BY DEF Entering, NotWaiting
  <2>7. BlockedOnSpeech'
    BY <2>3, <2>6 DEF WaitInv, BlockedOnSpeech
  <2>8. \A g \in Speech : WaitsFor(g)' \subseteq WaitsFor(g) \cup {None}
    BY <1>b, <2>3, <2>6 DEF WaitsFor
  <2>9. QED
    BY <2>4, <2>5, <2>7, <2>8, FewerWaits DEF WaitInv
<1>2. CASE /\ reply' = [reply EXCEPT ![h] = "over"] /\ UNCHANGED waiter
           /\ reply[h] # "idle"
           /\ closed' \/ handle'[h].done
  BY <1>a, <1>c, <1>2, QuietWaits
<1>3. CASE ReplySkip(h)
  <2>1. closed' \/ handle'[h].done
    BY <1>c, <1>3 DEF ReplySkip
  <2>2. QED
    BY <1>2, <1>3, <2>1 DEF ReplySkip
<1>4. CASE ReplyFinish(h)
  <2>1. handle'[h].done
    BY <1>4, <1>a DEF ReplyFinish, EndSpeech, MarkDone, CloseGeneration, SpeechHandles
  <2>2. QED
    BY <1>2, <1>4, <2>1 DEF ReplyFinish
<1>5. CASE \/ ReplyEnter(h) \/ ReplyBegin(h) \/ ReplySettle(h) \/ ReplyGiveUp(h)
           \/ ReplyResume(h)
  <2>1. \E p \in {"begin", "finish", "speak", "tools"} : reply' = [reply EXCEPT ![h] = p]
    BY <1>5 DEF ReplyEnter, ReplyBegin, ReplySettle, ReplyGiveUp, ReplyResume
  <2>2. reply[h] # "idle" /\ UNCHANGED waiter
    BY <1>5, Zenon DEF ReplyEnter, ReplyBegin, ReplySettle, ReplyGiveUp, ReplyResume
  <2>3. QED
    BY <1>a, <1>c, <2>1, <2>2, QuietWaits
<1>6. QED
  BY <1>1, <1>3, <1>4, <1>5 DEF Reply

(* What follows the end of a speech leaves replies and waits alone.        *)
LEMMA EndingWait ==
    ASSUME TurnInv, WaitInv, Next, NEW h \in Speech, Ending(h)
    PROVE  WaitInv'
<1>1. (closed => closed') /\ \A g \in Speech : handle[g].done => handle'[g].done
  BY ClosedStays, DoneStays DEF TurnInv
<1>2. UNCHANGED <<reply, waiter>>
  BY Zenon DEF Ending, Watch, OnPipelineReplyDone, TimeoutFires, threadVars
<1>3. QED
  BY <1>1, <1>2, QuietWaits

(* What a snapshot finds is not a reply that waits.                        *)
LEMMA ActiveNotIdle ==
    ASSUME TurnInv, NEW g \in ActiveSpeech
    PROVE  g \in Speech /\ reply[g] # "idle"
<1>1. g \in Speech
  BY DEF ActiveSpeech
<1>2. CASE Queued(g)
  BY <1>1, <1>2 DEF TurnInv, QueuedOnce, Queued
<1>3. CASE Live(g)
  <2>1. handle[g].gens \in Nat
    BY <1>1 DEF TurnInv, TypeOK, SpeechHandles
  <2>2. reply[g] = "idle" => GenerationSettled(handle[g])
    BY <1>1, <2>1 DEF TurnInv, GensOfReply, GensOf, GenerationSettled, NotStarted
  <2>3. QED
    BY <1>1, <1>3, <2>2 DEF Live
<1>4. QED
  BY <1>1, <1>2, <1>3 DEF ActiveSpeech

(* A call of WaitForInactive goes on.                                      *)
LEMMA WaitingWait ==
    ASSUME TurnInv, WaitInv, Next, NEW w \in Waiters, Waiting(w)
    PROVE  WaitInv'
<1>a. TypeOK /\ waiter \in [Waiters -> WaiterRecords] /\ waiter[w] \in WaiterRecords
  BY DEF TurnInv, TypeOK, WaiterRecords
<1>b. Speech \subseteq Waiters
  BY DEF Waiters
<1>c. (closed => closed') /\ \A h \in Speech : handle[h].done => handle'[h].done
  BY <1>a, ClosedStays, DoneStays
<1>1. \A h \in Speech : \/ reply'[h] = reply[h]
                        \/ reply[h] = "none" /\ reply'[h] = "delay"
  <2>1. UNCHANGED reply \/ ProcessQueue
    BY Zenon DEF Waiting, WaiterPass, WaiterSnapshot, WaiterWoken, WaiterNext,
       WaiterProceeds, threadVars
  <2>2. QED
    BY <2>1, ProcessQueueReplies
<1>2. PICK r : waiter' = [waiter EXCEPT ![w] = r]
  BY DEF Waiting, WaiterPass, WaiterSnapshot, WaiterWoken, WaiterNext, WaiterProceeds
<1>3. waiter'[w] = r /\ \A v \in Waiters \ {w} : waiter'[v] = waiter[v]
  BY <1>a, <1>2
<1>4. waiter[w] # NotWaiting
  BY DEF Waiting, WaiterPass, WaiterSnapshot, WaiterWoken, WaiterNext,
     WaiterProceeds, NotWaiting
<1>5. w \in Speech => reply[w] = "idle"
  BY <1>4 DEF WaitInv, OnlyIdleWait
<1>6. OnlyIdleWait'
  BY <1>b, <1>1, <1>3, <1>5 DEF WaitInv, OnlyIdleWait
<1>7. OverEnded'
  BY <1>c, <1>1 DEF WaitInv, OverEnded
<1>8. ASSUME WaitsFor(w)' \subseteq WaitsFor(w) \cup {None} PROVE Grounded'
  <2>1. \A h \in Speech : WaitsFor(h)' \subseteq WaitsFor(h) \cup {None}
    BY <1>b, <1>3, <1>8 DEF WaitsFor
  <2>2. QED
    BY <2>1, FewerWaits DEF WaitInv
<1>9. ASSUME IF r.at = "blocked" THEN r.target \in Speech ELSE r.target = None
      PROVE  BlockedOnSpeech'
  BY <1>3, <1>9 DEF WaitInv, BlockedOnSpeech
<1>t. IF waiter[w].at = "blocked" THEN waiter[w].target \in Speech
                                  ELSE waiter[w].target = None
  BY DEF WaitInv, BlockedOnSpeech
<1>10. CASE WaiterSnapshot(w)
  <2>1. /\ r.todo = ActiveSpeech /\ r.target = waiter[w].target
        /\ r.at # "blocked" /\ waiter[w].at # "blocked"
    BY <1>10, <1>a, <1>3 DEF WaiterSnapshot, WaiterRecords
  <2>2. r.target = None
    BY <1>t, <2>1
  <2>3. BlockedOnSpeech'
    BY <1>9, <2>1, <2>2
  <2>4. CASE w \in Speech
    <3>1. \A g \in Speech : g \in WaitsFor(w)' => reply[g] # "idle"
      BY <1>3, <2>1, <2>2, ActiveNotIdle, SchedulingAssumption DEF WaitsFor
    <3>2. \A g \in Speech \ {w} : WaitsFor(g)' = WaitsFor(g)
      BY <1>b, <1>3 DEF WaitsFor
    <3>3. Grounded'
      BY <1>5, <2>4, <3>1, <3>2, SnapshotGrounded DEF WaitInv
    <3>4. QED
      BY <1>6, <1>7, <2>3, <3>3 DEF WaitInv
  <2>5. CASE w \notin Speech
    <3>1. \A h \in Speech : WaitsFor(h)' \subseteq WaitsFor(h) \cup {None}
      BY <1>b, <1>3, <2>5 DEF WaitsFor
    <3>2. QED
      BY <1>6, <1>7, <2>3, <3>1, FewerWaits DEF WaitInv
  <2>6. QED
    BY <2>4, <2>5
<1>11. CASE WaiterPass(w)
  <2>1. /\ r.todo = waiter[w].todo /\ r.target = waiter[w].target
        /\ r.at # "blocked" /\ waiter[w].at # "blocked"
    BY <1>11, <1>a, <1>3 DEF WaiterPass, WaiterRecords
  <2>2. BlockedOnSpeech' /\ Grounded'
    BY <1>3, <1>8, <1>9, <1>t, <2>1 DEF WaitsFor
  <2>3. QED
    BY <1>6, <1>7, <2>2 DEF WaitInv
<1>12. CASE WaiterProceeds(w)
  <2>1. r.todo = waiter[w].todo /\ r.target = None /\ r.at # "blocked"
    BY <1>12, <1>a, <1>3 DEF WaiterProceeds, WaiterRecords
  <2>2. BlockedOnSpeech' /\ Grounded'
    BY <1>3, <1>8, <1>9, <2>1 DEF WaitsFor
  <2>3. QED
    BY <1>6, <1>7, <2>2 DEF WaitInv
<1>13. ASSUME r = Entering PROVE WaitInv'
  <2>1. r.todo = {} /\ r.target = None /\ r.at # "blocked"
    BY <1>13 DEF Entering, NotWaiting
  <2>2. BlockedOnSpeech' /\ Grounded'
    BY <1>3, <1>8, <1>9, <2>1 DEF WaitsFor
  <2>3. QED
    BY <1>6, <1>7, <2>2 DEF WaitInv
<1>14. CASE WaiterWoken(w)
  BY <1>a, <1>3, <1>13, <1>14 DEF WaiterWoken
<1>15. CASE WaiterNext(w)
  <2>1. ASSUME NEW h \in waiter[w].todo,
               r = [at |-> "blocked", todo |-> waiter[w].todo \ {h},
                    target |-> h, gen |-> handle[h].gens]
        PROVE  WaitInv'
    <3>1. h \in Speech
      BY <1>a DEF WaiterRecords
    <3>2. BlockedOnSpeech' /\ Grounded'
      BY <1>3, <1>8, <1>9, <2>1, <3>1 DEF WaitsFor
    <3>3. QED
      BY <1>6, <1>7, <3>2 DEF WaitInv
  <2>2. \/ r = Entering
        \/ \E h \in waiter[w].todo :
              r = [at |-> "blocked", todo |-> waiter[w].todo \ {h},
                   target |-> h, gen |-> handle[h].gens]
    BY <1>15, <1>a, <1>3 DEF WaiterNext
  <2>3. QED
    BY <1>13, <2>1, <2>2
<1>16. QED
  BY <1>10, <1>11, <1>12, <1>14, <1>15 DEF Waiting

-----------------------------------------------------------------------------
(* WaitForInactive, between replies that come back from tools, speeches in *)
(* the queue and Drain: of the calls that are blocked, one always waits    *)
(* for a speech that is not blocked itself and whose reply has not ended   *)
(* without it.  So the waits cannot hold each other up for ever.           *)
THEOREM WaitsAreGrounded == Spec => []NoCircularWait
<1>1. TurnInv /\ WaitInv /\ [Next]_vars => WaitInv'
  <2>1. ASSUME WaitInv, UNCHANGED vars PROVE WaitInv'
    BY <2>1, QuietWaits DEF vars, flagVars, threadVars
  <2>2. QED
    BY <2>1, OthersWait, ReplyWait, EndingWait, WaitingWait DEF Next
<1>2. QED
  BY <1>1, WaitInit, GroundedWaits, TurnInvariant, PTL DEF Spec

-----------------------------------------------------------------------------
(* The one wake-up in userTurnUpdatedCh.                                   *)

(* A step that neither sends nor receives it leaves the user as he is, and *)
(* takes a call to where it waits for him only if he is active.            *)
OthersLeaveUser(w) ==
    UNCHANGED userVars /\ (waiter'[w].at = "user" => waiter[w].at = "user" \/ userActive)

LEMMA OthersWakeNobody ==
    ASSUME TypeOK, NEW w \in Waiters,
           \/ Caller /\ ~UserTurn /\ ~CommitUserTurn
           \/ Runner
           \/ \E h \in Speech : Reply(h) \/ Ending(h)
    PROVE  OthersLeaveUser(w)
<1>1. waiter \in [Waiters -> WaiterRecords]
  BY DEF TypeOK, WaiterRecords
<1>2. UNCHANGED userVars
  BY Zenon DEF Caller, ScheduleSpeech, InterruptActivity, InterruptSpeech,
     PauseScheduling, ResumeScheduling, DrainBegin, StopCancel,
     Runner, Start, Signal, TaskReceive, TaskEnd, TaskPass, Pass,
     DrainClear, DrainPause, StopPause, Reply, ReplySkip, ReplyEnter,
     ReplyBegin, ReplySettle, ReplyGiveUp, ReplyToolsDone, ReplyContinue,
     ReplyResume, ReplyFinish, Ending, Watch, OnPipelineReplyDone,
     TimeoutFires, callVars
<1>3. \/ UNCHANGED waiter
      \/ \E v \in Waiters : \/ waiter' = [waiter EXCEPT ![v] = Entering]
                          \/ waiter' = [waiter EXCEPT ![v] = NotWaiting]
  <2>1. Drainer \in Waiters /\ Speech \subseteq Waiters
    BY DEF Waiters
  <2>2. QED
    BY <2>1, Zenon DEF Caller, ScheduleSpeech, InterruptActivity,
       InterruptSpeech, PauseScheduling, ResumeScheduling, DrainBegin,
       StopCancel, Runner, Start, Signal, TaskReceive, TaskEnd, TaskPass,
       Pass, DrainClear, DrainPause, StopPause, Reply, ReplySkip, ReplyEnter,
       ReplyBegin, ReplySettle, ReplyGiveUp, ReplyToolsDone, ReplyContinue,
       ReplyResume, ReplyFinish, Ending, Watch, OnPipelineReplyDone,
       TimeoutFires
<1>4. waiter'[w].at = "user" => waiter[w].at = "user"
  BY <1>1, <1>3 DEF Entering, NotWaiting
<1>5. QED
  BY <1>2, <1>4 DEF OthersLeaveUser

LEMMA WaitersWakeNobody ==
    ASSUME TypeOK, NEW w \in Waiters, NEW v \in Waiters,
           Waiting(v), ~WaiterWoken(v)
    PROVE  OthersLeaveUser(w)
<1>1. waiter \in [Waiters -> WaiterRecords]
  BY DEF TypeOK, WaiterRecords
<1>2. UNCHANGED userVars
  BY Zenon DEF Waiting, WaiterPass, WaiterSnapshot, WaiterNext, WaiterProceeds,
     callVars
<1>3. CASE WaiterSnapshot(v)
  BY <1>1, <1>2, <1>3 DEF WaiterSnapshot, WaiterRecords, OthersLeaveUser
<1>4. ASSUME NEW r, waiter' = [waiter EXCEPT ![v] = r], r.at # "user"
      PROVE  OthersLeaveUser(w)
  BY <1>1, <1>2, <1>4 DEF OthersLeaveUser
<1>5. CASE WaiterPass(v)
  <2>1. waiter' = [waiter EXCEPT ![v] = [@ EXCEPT !.at = "snapshot"]]
    BY <1>5 DEF WaiterPass
  <2>2. [waiter[v] EXCEPT !.at = "snapshot"].at # "user"
    BY <1>1 DEF WaiterRecords
  <2>3. QED
    BY <1>4, <2>1, <2>2
<1>6. CASE WaiterNext(v)
  <2>1. Entering.at # "user"
    BY DEF Entering, NotWaiting
  <2>2. QED
    BY <1>4, <1>6, <2>1 DEF WaiterNext
<1>7. CASE WaiterProceeds(v)
  <2>1. [waiter[v] EXCEPT !.at = "next", !.target = None, !.gen = 0].at # "user"
    BY <1>1 DEF WaiterRecords
  <2>2. QED
    BY <1>4, <1>7, <2>1 DEF WaiterProceeds
<1>8. QED
  BY <1>3, <1>5, <1>6, <1>7 DEF Waiting

(* notifyUserTurnUpdated, WaitForInactive: a call that waits for the user  *)
(* to fall silent misses it only if CommitUserTurn or another such call    *)
(* has received the one wake-up there is.                                  *)
THEOREM WakeUpsAreTaken == Spec => WakeUpTaken
<1>1. ASSUME TypeOK, [Next]_vars, NEW w \in Waiters,
             ~Overlooked(w), Overlooked(w)'
      PROVE  CommitUserTurn \/ \E v \in Waiters \ {w} : WaiterWoken(v)
  <2>1. ASSUME OthersLeaveUser(w) PROVE FALSE
    BY <1>1, <2>1 DEF OthersLeaveUser, Overlooked, userVars
  <2>2. CASE UserTurn
    BY <1>1, <2>2 DEF UserTurn, Overlooked
  <2>3. CASE WaiterWoken(w)
    BY <1>1, <2>3 DEF WaiterWoken, Overlooked, Entering, NotWaiting, TypeOK
  <2>4. CASE UNCHANGED vars
    BY <2>1, <2>4 DEF OthersLeaveUser, vars, callVars
  <2>5. QED
    BY <1>1, <2>1, <2>2, <2>3, <2>4, OthersWakeNobody, WaitersWakeNobody
       DEF Next
<1>2. TypeOK /\ [Next]_vars =>
        [\A w \in Waiters : Overlooked(w)' /\ ~Overlooked(w) =>
            CommitUserTurn \/ \E v \in Waiters \ {w} : WaiterWoken(v)]_vars
  BY <1>1
<1>3. QED
  BY <1>2, TypeCorrect, PTL DEF Spec, WakeUpTaken
=============================================================================
