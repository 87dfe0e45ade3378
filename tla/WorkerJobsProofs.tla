-------------------------- MODULE WorkerJobsProofs --------------------------
(***************************************************************************)
(* Proofs about WorkerJobs for any number of jobs, any load threshold, any *)
(* bound on the accepts of a job and every choice of what the environment  *)
(* does: its invariants, that it implements JobLedger, and that nobody     *)
(* waits for what will not come.                                           *)
(***************************************************************************)
EXTENDS WorkerJobs, FiniteSetTheorems, TLAPS

USE DEF offerVars, jobVars, entryVars, termVars, finishVars, shutdownVars,
        workerVars

-----------------------------------------------------------------------------
(* Slots and types.                                                        *)

(* Requests that hold a reserved slot: reserveAvailabilitySlot has run for *)
(* them and releaseAvailabilitySlot has not.                               *)
Holding == {j \in Job : request[j] \in {"asking", "sending", "answered"}}

SlotsCounted == reservedSlots = Cardinality(Holding)

(* A request that has not been accepted yet may still be.                  *)
AcceptsLeft ==
    \A j \in Job :
        request[j] \in {"check", "admitted", "asking"} => accepts[j] < MaxOffers

AnswerInv == TypeOK /\ SlotsCounted /\ AcceptsLeft

(* Holding is finite and no larger than Job. *)
LEMMA HoldingFinite ==
    /\ IsFiniteSet(Holding)
    /\ Cardinality(Holding) \in 0 .. Cardinality(Job)
<1>1. Holding \in SUBSET Job
  BY DEF Holding
<1>2. IsFiniteSet(Job)
  BY WorkerAssumption
<1>3. /\ IsFiniteSet(Holding)
      /\ Cardinality(Holding) <= Cardinality(Job)
  BY <1>1, <1>2, FS_Subset
<1>4. Cardinality(Holding) \in Nat /\ Cardinality(Job) \in Nat
  BY <1>2, <1>3, FS_CardinalityType
<1>5. QED
  BY <1>3, <1>4

(* The counter follows the requests: a slot is reserved and released once  *)
(* for each request, whatever the others do.                               *)
LEMMA SlotsStep ==
    ASSUME TypeOK, SlotsCounted, Next
    PROVE  SlotsCounted'
<1>f. IsFiniteSet(Holding)
  BY HoldingFinite
<1>n. Cardinality(Holding) \in Nat
  BY <1>f, FS_CardinalityType
<1>1. ASSUME NEW j \in Job, ReserveSlot(j)
      PROVE  SlotsCounted'
  <2>1. j \notin Holding /\ Holding' = Holding \cup {j}
    BY <1>1 DEF Holding, ReserveSlot, TypeOK
  <2>2. Cardinality(Holding \cup {j}) = Cardinality(Holding) + 1
    BY <2>1, <1>f, FS_AddElement
  <2>3. reservedSlots' = reservedSlots + 1
    BY <1>1 DEF ReserveSlot
  <2>4. QED
    BY <2>1, <2>2, <2>3 DEF SlotsCounted
<1>2. ASSUME NEW j \in Job, ReleaseSlot(j)
      PROVE  SlotsCounted'
  <2>1. j \in Holding /\ Holding' = Holding \ {j}
    BY <1>2 DEF Holding, ReleaseSlot, TypeOK
  <2>2. Cardinality(Holding \ {j}) = Cardinality(Holding) - 1
    BY <2>1, <1>f, FS_RemoveElement
  <2>3. Cardinality(Holding \ {j}) \in Nat
    BY <1>f, FS_RemoveElement, FS_CardinalityType
  <2>4. reservedSlots' = reservedSlots - 1
    BY <1>2, <1>n, <2>2, <2>3 DEF ReleaseSlot, SlotsCounted
  <2>5. QED
    BY <2>1, <2>2, <2>4 DEF SlotsCounted
<1>3. ASSUME reservedSlots' = reservedSlots, Holding' = Holding
      PROVE  SlotsCounted'
  BY <1>3 DEF SlotsCounted
<1>4. ASSUME reservedSlots' = reservedSlots, request' = request
      PROVE  SlotsCounted'
  BY <1>3, <1>4 DEF Holding
<1>5. ASSUME NEW j \in Job, Offer(j)
      PROVE  SlotsCounted'
  <2>1. CASE HandleAvailability(j)
    BY <1>3, <2>1 DEF HandleAvailability, Holding, TypeOK
  <2>2. CASE HandleAssignment(j) \/ TerminationArrives(j) \/ UserShutdown(j)
    BY <1>4, <2>2 DEF HandleAssignment, TerminationArrives, UserShutdown
  <2>3. QED
    BY <1>5, <2>1, <2>2 DEF Offer
<1>6. ASSUME NEW j \in Job, Answer(j)
      PROVE  SlotsCounted'
  <2>1. CASE Admit(j)
    BY <1>3, <2>1 DEF Admit, Holding, TypeOK
  <2>2. CASE StorePendingAccept(j)
    BY <1>3, <2>2 DEF StorePendingAccept, Holding, TypeOK
  <2>3. CASE SendAccept(j)
    BY <1>3, <2>3 DEF SendAccept, Holding, TypeOK
  <2>4. CASE Reject(j)
    BY <1>3, <2>4 DEF Reject, Holding, TypeOK
  <2>5. QED
    BY <1>1, <1>2, <1>6, <2>1, <2>2, <2>3, <2>4 DEF Answer
<1>7. ASSUME NEW j \in Job, Timer(j) \/ CloseFinish(j)
      PROVE  SlotsCounted'
  BY <1>4, <1>7 DEF Timer, TimerFires, ExpirePendingAccept, CloseFinish
<1>8. ASSUME NEW j \in Job, Entry(j)
      PROVE  SlotsCounted'
  BY <1>4, <1>8 DEF Entry, EntryStart, EntryReturns, EntryPlan, EntryReport,
       EntryAwait, EntryShutdownDone, EntryFinish, EntryDone
<1>9. ASSUME NEW j \in Job, Termination(j)
      PROVE  SlotsCounted'
  BY <1>4, <1>9 DEF Termination, TermTake, TermMark, TermShutdown,
       TermShutdownDone, TermWait, TermFinish, TermDone
<1>10. ASSUME NEW j \in Job, Teardown(j)
       PROVE  SlotsCounted'
  BY <1>4, <1>10 DEF Teardown, ShutdownReturns, ShutdownSettles,
       TrackFinishing, AwaitShutdown, AwaitSettled, SessionEndTimesOut,
       SessionEndReturns, CleanUp
<1>11. ASSUME Worker
       PROVE  SlotsCounted'
  BY <1>4, <1>11 DEF Worker, Stop, DrainBegin, DrainSend, DrainReturn,
       CloseBegin, CloseReturn
<1>12. QED
  BY <1>5, <1>6, <1>7, <1>8, <1>9, <1>10, <1>11 DEF Next

-----------------------------------------------------------------------------
(* Type correctness.                                                       *)

(* The initial state has the types, no slot and no request.                *)
LEMMA AnswerInit == Init => AnswerInv
<1>1. ASSUME Init
      PROVE  AnswerInv
  <2>1. Holding = {}
    BY <1>1 DEF Init, Holding
  <2>2. SlotsCounted
    BY <1>1, <2>1, FS_EmptySet DEF Init, SlotsCounted
  <2>3. 0 \in 0 .. Cardinality(Job)
    BY HoldingFinite, <2>1, FS_EmptySet
  <2>4. 0 \in 0 .. MaxOffers
    BY WorkerAssumption
  <2>5. /\ reservedSlots \in 0 .. Cardinality(Job)
        /\ accepts \in [Job -> 0 .. MaxOffers]
        /\ pendingTimers \in [Job -> 0 .. MaxOffers]
        /\ status \in [Job -> Nat]
    BY <1>1, <2>3, <2>4 DEF Init
  <2>6. TypeOK
    BY <1>1, <2>5 DEF Init, TypeOK
  <2>7. QED
    BY <1>1, <2>2, <2>6 DEF AnswerInv, AcceptsLeft, Init
<1>2. QED
  BY <1>1

(* Every step keeps the types.  The bound on the slots is that of the      *)
(* requests that hold one, in the next state.                              *)
LEMMA TypeStep ==
    ASSUME AnswerInv, Next
    PROVE  TypeOK'
<1>s. reservedSlots' \in 0 .. Cardinality(Job)
  <2>1. SlotsCounted'
    BY SlotsStep DEF AnswerInv
  <2>2. Cardinality(Holding') \in 0 .. Cardinality(Job)
    <3>1. Holding' \in SUBSET Job
      BY DEF Holding
    <3>2. IsFiniteSet(Holding') /\ Cardinality(Holding') <= Cardinality(Job)
      BY <3>1, WorkerAssumption, FS_Subset
    <3>3. Cardinality(Holding') \in Nat /\ Cardinality(Job) \in Nat
      BY <3>2, WorkerAssumption, FS_CardinalityType
    <3>4. QED
      BY <3>2, <3>3
  <2>3. QED
    BY <2>1, <2>2 DEF SlotsCounted
<1>t. TypeOK /\ AcceptsLeft /\ MaxOffers \in Nat \ {0}
  BY WorkerAssumption DEF AnswerInv
<1>1. ASSUME NEW j \in Job, Offer(j)
      PROVE  TypeOK'
  <2>1. CASE HandleAvailability(j)
    BY <1>s, <1>t, <2>1 DEF HandleAvailability, TypeOK
  <2>2. CASE HandleAssignment(j)
    <3>1. CASE j \in pendingAccepts
      <4>1. /\ fuse' \in [Job -> SUBSET Timers] /\ fired' \in [Job -> SUBSET Timers]
            /\ pendingAccepts' \subseteq Job /\ activeJobs' \subseteq Job
            /\ pendingTimers' \in [Job -> 0 .. MaxOffers]
        BY <1>t, <2>2, <3>1 DEF HandleAssignment, TypeOK
      <4>2. QED
        BY <1>s, <1>t, <2>2, <3>1, <4>1 DEF HandleAssignment, TypeOK
    <3>2. CASE j \notin pendingAccepts
      BY <1>s, <1>t, <2>2, <3>2 DEF HandleAssignment, TypeOK
    <3>3. QED
      BY <3>1, <3>2
  <2>3. CASE TerminationArrives(j)
    BY <1>s, <1>t, <2>3 DEF TerminationArrives, TypeOK
  <2>4. CASE UserShutdown(j)
    BY <1>s, <1>t, <2>4 DEF UserShutdown, BeginShutdown, TypeOK
  <2>q. QED
    BY <1>1, <2>1, <2>2, <2>3, <2>4 DEF Offer
<1>2. ASSUME NEW j \in Job, Answer(j)
      PROVE  TypeOK'
  <2>1. CASE Admit(j)
    BY <1>s, <1>t, <2>1 DEF Admit, TypeOK
  <2>2. CASE ReserveSlot(j)
    BY <1>s, <1>t, <2>2 DEF ReserveSlot, TypeOK
  <2>3. CASE StorePendingAccept(j)
    <3>1. accepts[j] + 1 \in Timers
      BY <1>t, <2>3 DEF StorePendingAccept, Timers, AcceptsLeft, TypeOK
    <3>2. accepts' \in [Job -> 0 .. MaxOffers]
      BY <1>t, <2>3, <3>1 DEF StorePendingAccept, Timers, TypeOK
    <3>3. pendingTimers' \in [Job -> 0 .. MaxOffers]
      BY <1>t, <2>3, <3>1 DEF StorePendingAccept, Timers, TypeOK
    <3>4. fuse' \in [Job -> SUBSET Timers]
      BY <1>t, <2>3, <3>1 DEF StorePendingAccept, TypeOK
    <3>5. QED
      BY <1>s, <1>t, <2>3, <3>2, <3>3, <3>4 DEF StorePendingAccept, TypeOK
  <2>4. CASE SendAccept(j)
    BY <1>s, <1>t, <2>4 DEF SendAccept, TypeOK
  <2>5. CASE Reject(j)
    BY <1>s, <1>t, <2>5 DEF Reject, TypeOK
  <2>6. CASE ReleaseSlot(j)
    BY <1>s, <1>t, <2>6 DEF ReleaseSlot, TypeOK
  <2>q. QED
    BY <1>2, <2>1, <2>2, <2>3, <2>4, <2>5, <2>6 DEF Answer
<1>3. ASSUME NEW j \in Job, Timer(j)
      PROVE  TypeOK'
  <2>1. CASE TimerFires(j)
    BY <1>s, <1>t, <2>1 DEF TimerFires, Timers, TypeOK
  <2>2. CASE ExpirePendingAccept(j)
    BY <1>s, <1>t, <2>2 DEF ExpirePendingAccept, Timers, TypeOK
  <2>q. QED
    BY <1>3, <2>1, <2>2 DEF Timer
<1>4. ASSUME NEW j \in Job, Entry(j)
      PROVE  TypeOK'
  <2>1. CASE EntryStart(j)
    BY <1>s, <1>t, <2>1 DEF EntryStart, TypeOK
  <2>2. CASE EntryReturns(j)
    BY <1>s, <1>t, <2>2 DEF EntryReturns, TypeOK
  <2>3. CASE EntryPlan(j)
    BY <1>s, <1>t, <2>3 DEF EntryPlan, TypeOK
  <2>4. CASE EntryReport(j)
    BY <1>s, <1>t, <2>4 DEF EntryReport, TypeOK
  <2>5. CASE EntryAwait(j)
    <3>1. shutdown' = shutdown \/ BeginShutdown(j)
      BY <2>5, Zenon DEF EntryAwait
    <3>2. shutdown' \in [Job -> {"no", "running", "done"}]
      BY <1>t, <3>1 DEF BeginShutdown, TypeOK
    <3>3. \/ entry' = [entry EXCEPT ![j] = "finish"]
          \/ entry' = [entry EXCEPT ![j] = "shutdown"]
      BY <2>5, Zenon DEF EntryAwait
    <3>4. entry' \in [Job -> {"none", "start", "running", "returned", "report",
                              "await", "shutdown", "finish", "waiting", "over"}]
      BY <1>t, <3>3 DEF TypeOK
    <3>5. UNCHANGED <<offerVars, jobVars, plan, status, termVars, finishVars,
                      settled, workerVars>>
      BY <2>5, Zenon DEF EntryAwait
    <3>q. QED
      BY <1>s, <1>t, <3>2, <3>4, <3>5 DEF TypeOK
  <2>6. CASE EntryShutdownDone(j)
    BY <1>s, <1>t, <2>6 DEF EntryShutdownDone, TypeOK
  <2>7. CASE EntryFinish(j)
    <3>1. \/ Claim(j, "entry") /\ entry' = [entry EXCEPT ![j] = "waiting"]
          \/ UNCHANGED finishVars /\ entry' = [entry EXCEPT ![j] = "over"]
      BY <2>7, Zenon DEF EntryFinish
    <3>2. finisher' \in [Job -> {"none", "entry", "term", "close"}]
      BY <1>t, <3>1 DEF Claim, TypeOK
    <3>3. lifecycle' \in [Job -> {"none", "claimed", "shutdown", "settle",
                                  "session", "cleanup", "over"}]
      BY <1>t, <3>1 DEF Claim, TypeOK
    <3>4. foreground' = foreground
      BY <3>1 DEF Claim
    <3>5. entry' \in [Job -> {"none", "start", "running", "returned", "report",
                              "await", "shutdown", "finish", "waiting", "over"}]
      BY <1>t, <3>1 DEF TypeOK
    <3>6. UNCHANGED <<offerVars, jobVars, plan, status, termVars, shutdownVars,
                      workerVars>>
      BY <2>7, Zenon DEF EntryFinish
    <3>q. QED
      BY <1>s, <1>t, <3>2, <3>3, <3>4, <3>5, <3>6 DEF TypeOK
  <2>8. CASE EntryDone(j)
    BY <1>s, <1>t, <2>8 DEF EntryDone, TypeOK
  <2>q. QED
    BY <1>4, <2>1, <2>2, <2>3, <2>4, <2>5, <2>6, <2>7, <2>8 DEF Entry
<1>5. ASSUME NEW j \in Job, Termination(j)
      PROVE  TypeOK'
  <2>1. CASE TermTake(j)
    BY <1>s, <1>t, <2>1 DEF TermTake, TypeOK
  <2>2. CASE TermMark(j)
    BY <1>s, <1>t, <2>2 DEF TermMark, TypeOK
  <2>3. CASE TermShutdown(j)
    BY <1>s, <1>t, <2>3 DEF TermShutdown, BeginShutdown, TypeOK
  <2>4. CASE TermShutdownDone(j)
    BY <1>s, <1>t, <2>4 DEF TermShutdownDone, TypeOK
  <2>5. CASE TermWait(j)
    BY <1>s, <1>t, <2>5 DEF TermWait, TypeOK
  <2>6. CASE TermFinish(j)
    <3>1. \/ Claim(j, "term") /\ term' = [term EXCEPT ![j] = "waiting"]
          \/ UNCHANGED finishVars /\ term' = [term EXCEPT ![j] = "over"]
      BY <2>6, Zenon DEF TermFinish
    <3>2. finisher' \in [Job -> {"none", "entry", "term", "close"}]
      BY <1>t, <3>1 DEF Claim, TypeOK
    <3>3. lifecycle' \in [Job -> {"none", "claimed", "shutdown", "settle",
                                  "session", "cleanup", "over"}]
      BY <1>t, <3>1 DEF Claim, TypeOK
    <3>4. foreground' = foreground
      BY <3>1 DEF Claim
    <3>5. term' \in [Job -> {"none", "begin", "mark", "marked", "shutdown",
                             "wait", "finish", "waiting", "over"}]
      BY <1>t, <3>1 DEF TypeOK
    <3>6. UNCHANGED <<offerVars, jobVars, entryVars, terminated, shutdownVars,
                      workerVars>>
      BY <2>6, Zenon DEF TermFinish
    <3>q. QED
      BY <1>s, <1>t, <3>2, <3>3, <3>4, <3>5, <3>6 DEF TypeOK
  <2>7. CASE TermDone(j)
    BY <1>s, <1>t, <2>7 DEF TermDone, TypeOK
  <2>q. QED
    BY <1>5, <2>1, <2>2, <2>3, <2>4, <2>5, <2>6, <2>7 DEF Termination
<1>6. ASSUME NEW j \in Job, Teardown(j)
      PROVE  TypeOK'
  <2>1. CASE ShutdownReturns(j)
    BY <1>s, <1>t, <2>1 DEF ShutdownReturns, TypeOK
  <2>2. CASE ShutdownSettles(j)
    BY <1>s, <1>t, <2>2 DEF ShutdownSettles, TypeOK
  <2>3. CASE TrackFinishing(j)
    <3>1. shutdown' \in [Job -> {"no", "running", "done"}]
      BY <1>t, <2>3 DEF TrackFinishing, BeginShutdown, TypeOK
    <3>2. lifecycle' = [lifecycle EXCEPT ![j] = "shutdown"]
      BY <2>3 DEF TrackFinishing
    <3>3. lifecycle' \in [Job -> {"none", "claimed", "shutdown", "settle",
                                  "session", "cleanup", "over"}]
      BY <1>t, <3>2 DEF TypeOK
    <3>4. activeJobs' \subseteq Job /\ finishingJobs' \subseteq Job
      BY <1>t, <2>3 DEF TrackFinishing, TypeOK
    <3>5. UNCHANGED <<offerVars, entryVars, termVars, finisher, foreground,
                      settled, workerVars>>
      BY <2>3, Zenon DEF TrackFinishing
    <3>q. QED
      BY <1>s, <1>t, <3>1, <3>3, <3>4, <3>5 DEF TypeOK
  <2>4. CASE AwaitShutdown(j)
    <3>1. \/ /\ lifecycle' = [lifecycle EXCEPT ![j] = "session"]
             /\ foreground' = foreground
          \/ /\ lifecycle' = [lifecycle EXCEPT ![j] = "settle"]
             /\ foreground' = [foreground EXCEPT ![j] = TRUE]
      BY <2>4, Zenon DEF AwaitShutdown
    <3>2. lifecycle' \in [Job -> {"none", "claimed", "shutdown", "settle",
                                  "session", "cleanup", "over"}]
      BY <1>t, <3>1 DEF TypeOK
    <3>3. foreground' \in [Job -> BOOLEAN]
      <4>1. foreground \in [Job -> BOOLEAN]
        BY <1>t, Zenon DEF TypeOK
      <4>2. [foreground EXCEPT ![j] = TRUE] \in [Job -> BOOLEAN]
        BY <4>1
      <4>3. foreground' = foreground \/
            foreground' = [foreground EXCEPT ![j] = TRUE]
        BY <3>1, Zenon
      <4>q. QED
        BY <4>1, <4>2, <4>3, Zenon
    <3>4. UNCHANGED <<offerVars, jobVars, entryVars, termVars, finisher,
                      shutdownVars, workerVars>>
      BY <2>4, Zenon DEF AwaitShutdown
    <3>q. QED
      BY <1>s, <1>t, <3>2, <3>3, <3>4 DEF TypeOK
  <2>5. CASE AwaitSettled(j)
    BY <1>s, <1>t, <2>5 DEF AwaitSettled, TypeOK
  <2>6. CASE SessionEndTimesOut(j)
    BY <1>s, <1>t, <2>6 DEF SessionEndTimesOut, TypeOK
  <2>7. CASE SessionEndReturns(j)
    BY <1>s, <1>t, <2>7 DEF SessionEndReturns, TypeOK
  <2>8. CASE CleanUp(j)
    BY <1>s, <1>t, <2>8 DEF CleanUp, TypeOK
  <2>q. QED
    BY <1>6, <2>1, <2>2, <2>3, <2>4, <2>5, <2>6, <2>7, <2>8 DEF Teardown
<1>7. ASSUME NEW j \in Job, CloseFinish(j)
      PROVE  TypeOK'
  BY <1>s, <1>t, <1>7 DEF CloseFinish, Claim, TypeOK
<1>8. ASSUME Worker
      PROVE  TypeOK'
  <2>1. CASE Stop
    BY <1>s, <1>t, <2>1 DEF Stop, TypeOK
  <2>2. CASE DrainBegin
    BY <1>s, <1>t, <2>2 DEF DrainBegin, TypeOK
  <2>3. CASE DrainSend
    BY <1>s, <1>t, <2>3 DEF DrainSend, TypeOK
  <2>4. CASE DrainReturn
    BY <1>s, <1>t, <2>4 DEF DrainReturn, TypeOK
  <2>5. CASE CloseBegin
    BY <1>s, <1>t, <2>5 DEF CloseBegin, Timers, TypeOK
  <2>6. CASE CloseReturn
    BY <1>s, <1>t, <2>6 DEF CloseReturn, TypeOK
  <2>q. QED
    BY <1>8, <2>1, <2>2, <2>3, <2>4, <2>5, <2>6 DEF Worker
<1>9. QED
  BY <1>1, <1>2, <1>3, <1>4, <1>5, <1>6, <1>7, <1>8 DEF Next

(* A job is offered only while accepts are left, and nobody else accepts   *)
(* it until its request has been answered.                                 *)
LEMMA AcceptsLeftStep ==
    ASSUME AnswerInv, Next
    PROVE  AcceptsLeft'
<1>t. TypeOK /\ AcceptsLeft
  BY DEF AnswerInv
<1>1. ASSUME accepts' = accepts,
             \A j \in Job : request'[j] \in {"check", "admitted", "asking"} =>
                             request[j] \in {"check", "admitted", "asking"}
      PROVE  AcceptsLeft'
  BY <1>t, <1>1 DEF AcceptsLeft
<1>2. ASSUME NEW j \in Job, Offer(j)
      PROVE  AcceptsLeft'
  <2>1. CASE HandleAvailability(j)
    BY <1>t, <2>1 DEF HandleAvailability, AcceptsLeft, TypeOK
  <2>2. CASE HandleAssignment(j) \/ TerminationArrives(j) \/ UserShutdown(j)
    BY <1>1, <2>2 DEF HandleAssignment, TerminationArrives, UserShutdown
  <2>3. QED
    BY <1>2, <2>1, <2>2 DEF Offer
<1>3. ASSUME NEW j \in Job, Answer(j)
      PROVE  AcceptsLeft'
  <2>1. CASE StorePendingAccept(j)
    BY <1>t, <2>1 DEF StorePendingAccept, AcceptsLeft, TypeOK
  <2>2. CASE Admit(j) \/ ReserveSlot(j)
    BY <1>1, <1>t, <2>2 DEF Admit, ReserveSlot, TypeOK
  <2>3. CASE SendAccept(j) \/ Reject(j) \/ ReleaseSlot(j)
    BY <1>1, <1>t, <2>3 DEF SendAccept, Reject, ReleaseSlot, TypeOK
  <2>4. QED
    BY <1>3, <2>1, <2>2, <2>3 DEF Answer
<1>4. ASSUME NEW j \in Job, Timer(j) \/ CloseFinish(j)
      PROVE  AcceptsLeft'
  BY <1>1, <1>4 DEF Timer, TimerFires, ExpirePendingAccept, CloseFinish
<1>5. ASSUME NEW j \in Job, Entry(j)
      PROVE  AcceptsLeft'
  BY <1>1, <1>5 DEF Entry, EntryStart, EntryReturns, EntryPlan, EntryReport,
       EntryAwait, EntryShutdownDone, EntryFinish, EntryDone
<1>6. ASSUME NEW j \in Job, Termination(j)
      PROVE  AcceptsLeft'
  BY <1>1, <1>6 DEF Termination, TermTake, TermMark, TermShutdown,
       TermShutdownDone, TermWait, TermFinish, TermDone
<1>7. ASSUME NEW j \in Job, Teardown(j)
      PROVE  AcceptsLeft'
  BY <1>1, <1>7 DEF Teardown, ShutdownReturns, ShutdownSettles,
       TrackFinishing, AwaitShutdown, AwaitSettled, SessionEndTimesOut,
       SessionEndReturns, CleanUp
<1>8. ASSUME Worker
      PROVE  AcceptsLeft'
  BY <1>1, <1>8 DEF Worker, Stop, DrainBegin, DrainSend, DrainReturn,
       CloseBegin, CloseReturn
<1>9. QED
  BY <1>2, <1>3, <1>4, <1>5, <1>6, <1>7, <1>8 DEF Next

(* A step that changes nothing changes nothing of it. *)
LEMMA AnswerStutter == AnswerInv /\ UNCHANGED vars => AnswerInv'
BY DEF AnswerInv, TypeOK, SlotsCounted, Holding, AcceptsLeft, vars, Timers

(* Types, the count of the slots and the bound on accepts are invariant.   *)
THEOREM AnswerInvariant == Spec => []AnswerInv
<1>1. Init => AnswerInv
  BY AnswerInit
<1>2. AnswerInv /\ [Next]_vars => AnswerInv'
  BY AnswerStutter, TypeStep, SlotsStep, AcceptsLeftStep DEF AnswerInv
<1>3. QED
  BY <1>1, <1>2, PTL DEF Spec

(* Every variable of the worker keeps its type; the reserved slots are     *)
(* never more than the jobs on offer.                                      *)
THEOREM WorkerTypeCorrect == Spec => []TypeOK
<1>1. AnswerInv => TypeOK
  BY DEF AnswerInv
<1>2. QED
  BY <1>1, AnswerInvariant, PTL

-----------------------------------------------------------------------------
(* The jobs in the two maps.                                               *)

(* While a request is being answered the server waits for the answer, and  *)
(* the entrypoint of a job starts with its assignment.                     *)
OffersOnce ==
    \A j \in Job :
        /\ request[j] \in {"check", "admitted", "asking", "sending"} =>
             server[j] = "asked"
        /\ entry[j] # "none" => server[j] = "assigned"

(* Nobody finishes a job that has not been started.                        *)
StartedFirst ==
    \A j \in Job :
        \/ term[j] \notin {"none", "begin", "over"}
        \/ j \in closing
        \/ finisher[j] # "none"
        => entry[j] # "none"

(* The teardown runs from finishOnce on, and the job is tracked as         *)
(* finishing from trackFinishingJob on.                                    *)
TeardownTracked ==
    \A j \in Job :
        /\ lifecycle[j] = "none" <=> finisher[j] = "none"
        /\ lifecycle[j] \in {"shutdown", "settle", "session", "cleanup"} =>
             j \in finishingJobs

(* The worker is closed by Close, and only Close has jobs to finish.       *)
ClosedByClose ==
    /\ closed <=> close # "idle"
    /\ close = "idle" => closing = {}

JobsInv ==
    /\ OffersOnce
    /\ StartedFirst
    /\ TeardownTracked
    /\ ClosedByClose
    /\ JobsAccounted
    /\ CloseIsFinal

(* No job is offered, started or finished, and the worker is open. *)
LEMMA JobsInit == Init => JobsInv
BY DEF Init, JobsInv, OffersOnce, StartedFirst, TeardownTracked, ClosedByClose,
       JobsAccounted, Unfinished, CloseIsFinal

(* Every step keeps a job in exactly one of the maps until its clean-up is *)
(* done, and a closed worker starts none.                                  *)
LEMMA JobsStep ==
    ASSUME TypeOK, JobsInv, Next
    PROVE  JobsInv'
<1> USE DEF JobsInv, OffersOnce, StartedFirst, TeardownTracked, ClosedByClose,
        JobsAccounted, Unfinished, CloseIsFinal
<1>0. ASSUME UNCHANGED <<server, request, entry, term, closing, finisher,
                         lifecycle, jobVars, close, closed>>
      PROVE  JobsInv'
  BY <1>0
<1>1. ASSUME NEW j \in Job, Offer(j)
      PROVE  JobsInv'
  <2>1. CASE HandleAvailability(j)
    BY <2>1 DEF HandleAvailability, TypeOK
  <2>2. CASE HandleAssignment(j)
    BY <2>2 DEF HandleAssignment, TypeOK
  <2>3. CASE TerminationArrives(j)
    BY <2>3 DEF TerminationArrives, TypeOK
  <2>4. CASE UserShutdown(j)
    BY <1>0, <2>4 DEF UserShutdown
  <2>5. QED
    BY <1>1, <2>1, <2>2, <2>3, <2>4 DEF Offer
<1>2. ASSUME NEW j \in Job, Answer(j)
      PROVE  JobsInv'
  <2>1. CASE Admit(j)
    BY <2>1 DEF Admit, TypeOK
  <2>2. CASE ReserveSlot(j)
    BY <2>2 DEF ReserveSlot, TypeOK
  <2>3. CASE StorePendingAccept(j)
    BY <2>3 DEF StorePendingAccept, TypeOK
  <2>4. CASE SendAccept(j)
    BY <2>4 DEF SendAccept, TypeOK
  <2>5. CASE Reject(j)
    BY <2>5 DEF Reject, TypeOK
  <2>6. CASE ReleaseSlot(j)
    BY <2>6 DEF ReleaseSlot, TypeOK
  <2>7. QED
    BY <1>2, <2>1, <2>2, <2>3, <2>4, <2>5, <2>6 DEF Answer
<1>3. ASSUME NEW j \in Job, Timer(j)
      PROVE  JobsInv'
  BY <1>0, <1>3 DEF Timer, TimerFires, ExpirePendingAccept
<1>4. ASSUME NEW j \in Job, Entry(j)
      PROVE  JobsInv'
  <2>1. ASSUME NEW e \in {"start", "running", "returned", "report", "await",
                          "shutdown", "finish", "waiting", "over"},
               entry[j] # "none",
               entry' = [entry EXCEPT ![j] = e],
               UNCHANGED <<server, request, term, closing, finisher, lifecycle,
                           jobVars, close, closed>>
        PROVE  JobsInv'
    BY <2>1 DEF TypeOK
  <2>2. CASE EntryStart(j)
    BY <2>1, <2>2 DEF EntryStart
  <2>3. CASE EntryReturns(j)
    BY <2>1, <2>3 DEF EntryReturns
  <2>4. CASE EntryPlan(j)
    <3>1. PICK e \in {"finish", "await", "report"} :
                 entry' = [entry EXCEPT ![j] = e]
      BY <2>4 DEF EntryPlan
    <3>2. QED
      BY <2>1, <2>4, <3>1 DEF EntryPlan
  <2>5. CASE EntryReport(j)
    BY <2>1, <2>5 DEF EntryReport
  <2>6. CASE EntryAwait(j)
    BY <2>1, <2>6 DEF EntryAwait
  <2>7. CASE EntryShutdownDone(j)
    BY <2>1, <2>7 DEF EntryShutdownDone
  <2>8. CASE EntryFinish(j)
    BY <2>8 DEF EntryFinish, Claim, TypeOK
  <2>9. CASE EntryDone(j)
    BY <2>1, <2>9 DEF EntryDone
  <2>10. QED
    BY <1>4, <2>2, <2>3, <2>4, <2>5, <2>6, <2>7, <2>8, <2>9 DEF Entry
<1>5. ASSUME NEW j \in Job, Termination(j)
      PROVE  JobsInv'
  <2>1. CASE TermTake(j)
    BY <2>1 DEF TermTake, TypeOK
  <2>2. CASE TermMark(j) \/ TermShutdown(j)
    BY <2>2 DEF TermMark, TermShutdown, TypeOK
  <2>3. CASE TermShutdownDone(j)
    BY <2>3 DEF TermShutdownDone, TypeOK
  <2>4. CASE TermWait(j)
    BY <2>4 DEF TermWait, TypeOK
  <2>5. CASE TermFinish(j)
    BY <2>5 DEF TermFinish, Claim, TypeOK
  <2>6. CASE TermDone(j)
    BY <2>6 DEF TermDone, TypeOK
  <2>7. QED
    BY <1>5, <2>1, <2>2, <2>3, <2>4, <2>5, <2>6 DEF Termination
<1>6. ASSUME NEW j \in Job, Teardown(j)
      PROVE  JobsInv'
  <2>1. CASE ShutdownReturns(j) \/ ShutdownSettles(j) \/ SessionEndTimesOut(j)
    BY <1>0, <2>1 DEF ShutdownReturns, ShutdownSettles, SessionEndTimesOut
  <2>2. CASE TrackFinishing(j)
    BY <2>2 DEF TrackFinishing, TypeOK
  <2>3. CASE AwaitShutdown(j)
    <3>1. PICK l \in {"session", "settle"} :
                 lifecycle' = [lifecycle EXCEPT ![j] = l]
      BY <2>3, Zenon DEF AwaitShutdown
    <3>2. QED
      BY <2>3, <3>1 DEF AwaitShutdown, TypeOK
  <2>4. CASE AwaitSettled(j)
    BY <2>4 DEF AwaitSettled, TypeOK
  <2>5. CASE SessionEndReturns(j)
    BY <2>5 DEF SessionEndReturns, TypeOK
  <2>6. CASE CleanUp(j)
    BY <2>6 DEF CleanUp, TypeOK
  <2>7. QED
    BY <1>6, <2>1, <2>2, <2>3, <2>4, <2>5, <2>6 DEF Teardown
<1>7. ASSUME NEW j \in Job, CloseFinish(j)
      PROVE  JobsInv'
  BY <1>7 DEF CloseFinish, Claim, TypeOK
<1>8. ASSUME Worker
      PROVE  JobsInv'
  <2>1. CASE Stop \/ DrainBegin \/ DrainSend \/ DrainReturn
    BY <1>0, <2>1 DEF Stop, DrainBegin, DrainSend, DrainReturn
  <2>2. CASE CloseBegin
    BY <2>2 DEF CloseBegin, TypeOK
  <2>3. CASE CloseReturn
    BY <2>3 DEF CloseReturn, TypeOK
  <2>4. QED
    BY <1>8, <2>1, <2>2, <2>3 DEF Worker
<1>9. QED
  BY <1>1, <1>2, <1>3, <1>4, <1>5, <1>6, <1>7, <1>8 DEF Next

(* The bookkeeping of the jobs is invariant.                               *)
THEOREM JobsInvariant == Spec => []JobsInv
<1>1. Init => JobsInv
  BY JobsInit
<1>2. TypeOK /\ JobsInv /\ [Next]_vars => JobsInv'
  <2>1. JobsInv /\ UNCHANGED vars => JobsInv'
    BY DEF JobsInv, OffersOnce, StartedFirst, TeardownTracked, ClosedByClose,
           JobsAccounted, Unfinished, CloseIsFinal, vars
  <2>2. QED
    BY <2>1, JobsStep
<1>3. QED
  BY <1>1, <1>2, WorkerTypeCorrect, PTL DEF Spec

(* From its assignment to the end of its clean-up a job is in exactly one  *)
(* of activeJobs and finishingJobs, whoever finishes it and in whatever    *)
(* order.                                                                  *)
THEOREM JobsAreAccounted == Spec => []JobsAccounted
<1>1. JobsInv => JobsAccounted
  BY DEF JobsInv
<1>2. QED
  BY <1>1, JobsInvariant, PTL

(* Once Close has returned without an error no job is in either map, and   *)
(* none comes: not by an assignment that was pending, not by a late        *)
(* termination and not by one of Close's own finishJob goroutines.         *)
THEOREM CloseStaysFinal == Spec => []CloseIsFinal
<1>1. JobsInv => CloseIsFinal
  BY DEF JobsInv
<1>2. QED
  BY <1>1, JobsInvariant, PTL

-----------------------------------------------------------------------------
(* The timers of the pending accepts.                                      *)

(* A timer exists once: it runs, or has fired, or is gone.                 *)
TimersOnce ==
    \A j \in Job :
        /\ fuse[j] \cup fired[j] \subseteq 1 .. accepts[j]
        /\ fuse[j] \cap fired[j] = {}

(* The timer of the newest accept, while it runs, guards that accept.      *)
NewestGuards ==
    \A j \in Job : accepts[j] \in fuse[j] =>
                      /\ pendingTimers[j] = accepts[j]
                      /\ j \in pendingAccepts

TimersInv == TimersOnce /\ NewestGuards

(* Every step keeps it: a timer that fires is compared with the one that   *)
(* guards the accept before it takes the accept away.                      *)
LEMMA TimersStep ==
    ASSUME TypeOK, TimersInv, Next
    PROVE  TimersInv'
<1> USE DEF TimersInv, TimersOnce, NewestGuards
<1>0. ASSUME UNCHANGED <<pendingAccepts, accepts, pendingTimers, fuse, fired>>
      PROVE  TimersInv'
  BY <1>0
<1>1. ASSUME NEW j \in Job, Offer(j)
      PROVE  TimersInv'
  <2>1. CASE HandleAssignment(j)
    <3>1. CASE j \in pendingAccepts
      BY <2>1, <3>1, SMTT(20) DEF HandleAssignment, TypeOK
    <3>2. CASE j \notin pendingAccepts
      BY <1>0, <2>1, <3>2 DEF HandleAssignment
    <3>3. QED
      BY <3>1, <3>2
  <2>2. CASE HandleAvailability(j) \/ TerminationArrives(j) \/ UserShutdown(j)
    BY <1>0, <2>2 DEF HandleAvailability, TerminationArrives, UserShutdown
  <2>3. QED
    BY <1>1, <2>1, <2>2 DEF Offer
<1>2. ASSUME NEW j \in Job, Answer(j)
      PROVE  TimersInv'
  <2>1. CASE StorePendingAccept(j)
    <3>1. CASE closed
      BY <2>1, <3>1 DEF StorePendingAccept, TypeOK
    <3>2. CASE ~closed
      BY <2>1, <3>2 DEF StorePendingAccept, TypeOK
    <3>3. QED
      BY <3>1, <3>2
  <2>2. CASE Admit(j) \/ ReserveSlot(j) \/ SendAccept(j) \/ Reject(j)
               \/ ReleaseSlot(j)
    BY <1>0, <2>2 DEF Admit, ReserveSlot, SendAccept, Reject, ReleaseSlot
  <2>3. QED
    BY <1>2, <2>1, <2>2 DEF Answer
<1>3. ASSUME NEW j \in Job, Timer(j)
      PROVE  TimersInv'
  <2>1. CASE TimerFires(j)
    BY <2>1 DEF TimerFires, TypeOK
  <2>2. CASE ExpirePendingAccept(j)
    <3>1. PICK n \in fired[j] :
            /\ fired' = [fired EXCEPT ![j] = @ \ {n}]
            /\ IF pendingTimers[j] = n
               THEN /\ pendingAccepts' = pendingAccepts \ {j}
                    /\ pendingTimers' = [pendingTimers EXCEPT ![j] = 0]
               ELSE UNCHANGED <<pendingAccepts, pendingTimers>>
      BY <2>2 DEF ExpirePendingAccept
    <3>2. fuse' = fuse /\ accepts' = accepts
      BY <2>2 DEF ExpirePendingAccept
    <3>3. TimersOnce'
      BY <3>1, <3>2 DEF TypeOK
    <3>4. pendingTimers[j] = n => accepts[j] \notin fuse[j]
      BY <3>1
    <3>5. NewestGuards'
      BY <3>1, <3>2, <3>4 DEF TypeOK
    <3>6. QED
      BY <3>3, <3>5
  <2>3. QED
    BY <1>3, <2>1, <2>2 DEF Timer
<1>4. ASSUME NEW j \in Job, Entry(j)
      PROVE  TimersInv'
  BY <1>0, <1>4 DEF Entry, EntryStart, EntryReturns, EntryPlan, EntryReport,
       EntryAwait, EntryShutdownDone, EntryFinish, EntryDone
<1>5. ASSUME NEW j \in Job, Termination(j)
      PROVE  TimersInv'
  BY <1>0, <1>5 DEF Termination, TermTake, TermMark, TermShutdown,
       TermShutdownDone, TermWait, TermFinish, TermDone
<1>6. ASSUME NEW j \in Job, Teardown(j) \/ CloseFinish(j)
      PROVE  TimersInv'
  BY <1>0, <1>6 DEF Teardown, ShutdownReturns, ShutdownSettles,
       TrackFinishing, AwaitShutdown, AwaitSettled, SessionEndTimesOut,
       SessionEndReturns, CleanUp, CloseFinish
<1>7. ASSUME Worker
      PROVE  TimersInv'
  <2>1. CASE CloseBegin
    BY <2>1 DEF CloseBegin, TypeOK
  <2>2. CASE Stop \/ DrainBegin \/ DrainSend \/ DrainReturn \/ CloseReturn
    BY <1>0, <2>2 DEF Stop, DrainBegin, DrainSend, DrainReturn, CloseReturn
  <2>3. QED
    BY <1>7, <2>1, <2>2 DEF Worker
<1>8. QED
  BY <1>1, <1>2, <1>3, <1>4, <1>5, <1>6, <1>7 DEF Next

(* An accept is there for its assignment until its own timer takes it      *)
(* away; the timers of earlier accepts of the same job, running or about   *)
(* to take the mutex, do not.                                              *)
THEOREM PromisesAreKept == Spec => []PromiseKept
<1>1. Init => TimersInv
  BY DEF Init, TimersInv, TimersOnce, NewestGuards
<1>2. TypeOK /\ TimersInv /\ [Next]_vars => TimersInv'
  <2>1. TimersInv /\ UNCHANGED vars => TimersInv'
    BY DEF TimersInv, TimersOnce, NewestGuards, vars
  <2>2. QED
    BY <2>1, TimersStep
<1>3. TimersInv => PromiseKept
  BY DEF TimersInv, NewestGuards, PromiseKept
<1>4. QED
  BY <1>1, <1>2, <1>3, WorkerTypeCorrect, PTL DEF Spec

-----------------------------------------------------------------------------
(* What Drain has seen when it returns.                                    *)

(* Only a poll that counts no job in flight lets a waiting Drain return    *)
(* without an error.                                                       *)
LEMMA DrainReturnsEmpty ==
    ASSUME Next, drain = "poll", drain' = "returned"
    PROVE  InflightJobs = 0 /\ UNCHANGED <<offerVars, entryVars, finishVars>>
<1>0. drain' # drain
  OBVIOUS
<1>1. ASSUME NEW j \in Job, Offer(j) \/ Answer(j) \/ Timer(j) \/ CloseFinish(j)
      PROVE  FALSE
  BY <1>0, <1>1 DEF Offer, HandleAvailability, HandleAssignment,
       TerminationArrives, UserShutdown, Answer, Admit, ReserveSlot,
       StorePendingAccept, SendAccept, Reject, ReleaseSlot, Timer, TimerFires,
       ExpirePendingAccept, CloseFinish
<1>2. ASSUME NEW j \in Job, Entry(j) \/ Termination(j)
      PROVE  FALSE
  BY <1>0, <1>2 DEF Entry, EntryStart, EntryReturns, EntryPlan, EntryReport,
       EntryAwait, EntryShutdownDone, EntryFinish, EntryDone, Termination,
       TermTake, TermMark, TermShutdown, TermShutdownDone, TermWait,
       TermFinish, TermDone
<1>3. ASSUME NEW j \in Job, Teardown(j)
      PROVE  FALSE
  BY <1>0, <1>3 DEF Teardown, ShutdownReturns, ShutdownSettles,
       TrackFinishing, AwaitShutdown, AwaitSettled, SessionEndTimesOut,
       SessionEndReturns, CleanUp
<1>4. DrainReturn
  BY <1>0, <1>1, <1>2, <1>3 DEF Next, Worker, Stop, DrainBegin, DrainSend,
       CloseBegin, CloseReturn
<1>5. QED
  BY <1>4 DEF DrainReturn

(* A Drain that waits and then returns without an error leaves no request  *)
(* that holds a slot, no accepted job that waits for its assignment, and   *)
(* no job that is running or being torn down: the four numbers it adds up  *)
(* leave nothing out.                                                      *)
THEOREM DrainLeavesNoJob == Spec => DrainLeavesNothing
<1>1. ASSUME AnswerInv, JobsInv, Next, drain = "poll", drain' = "returned",
             NEW j \in Job
      PROVE  /\ request[j] \in {"none", "check", "admitted"}
             /\ j \notin pendingAccepts
             /\ ~Unfinished(j)
  <2>1. InflightJobs = 0
    BY <1>1, DrainReturnsEmpty
  <2>2. /\ IsFiniteSet(activeJobs) /\ IsFiniteSet(finishingJobs)
        /\ IsFiniteSet(pendingAccepts) /\ IsFiniteSet(Holding)
    <3>1. /\ activeJobs \in SUBSET Job /\ finishingJobs \in SUBSET Job
          /\ pendingAccepts \in SUBSET Job
      BY <1>1 DEF AnswerInv, TypeOK
    <3>2. QED
      BY <3>1, WorkerAssumption, FS_Subset, HoldingFinite
  <2>3. /\ Cardinality(activeJobs) \in Nat /\ Cardinality(finishingJobs) \in Nat
        /\ Cardinality(pendingAccepts) \in Nat /\ Cardinality(Holding) \in Nat
    BY <2>2, FS_CardinalityType
  <2>4. reservedSlots = Cardinality(Holding)
    BY <1>1 DEF AnswerInv, SlotsCounted
  <2>5. /\ Cardinality(activeJobs) = 0 /\ Cardinality(finishingJobs) = 0
        /\ Cardinality(pendingAccepts) = 0 /\ Cardinality(Holding) = 0
    BY <2>1, <2>3, <2>4 DEF InflightJobs
  <2>6. /\ activeJobs = {} /\ finishingJobs = {}
        /\ pendingAccepts = {} /\ Holding = {}
    BY <2>2, <2>5, FS_EmptySet
  <2>7. request[j] \in {"none", "check", "admitted"}
    BY <1>1, <2>6 DEF Holding, AnswerInv, TypeOK
  <2>8. ~Unfinished(j)
    BY <1>1, <2>6 DEF JobsInv, JobsAccounted
  <2>9. QED
    BY <2>6, <2>7, <2>8
<1>2. AnswerInv /\ JobsInv /\ [Next]_vars =>
        [drain = "poll" /\ drain' = "returned" =>
            \A j \in Job : /\ request[j] \in {"none", "check", "admitted"}
                           /\ j \notin pendingAccepts
                           /\ ~Unfinished(j)]_vars
  BY <1>1
<1>3. QED
  BY <1>2, AnswerInvariant, JobsInvariant, PTL DEF Spec, DrainLeavesNothing

-----------------------------------------------------------------------------
(* The final status of a job.                                              *)

(* Nothing has been sent before the entrypoint's own report, and for a     *)
(* success nothing before the end of its goroutine.                        *)
NothingSentYet ==
    \A j \in Job :
        \/ entry[j] \in {"none", "start", "running", "returned", "report"}
        \/ plan[j] = "success" /\ entry[j] # "over"
        => status[j] = 0

(* The entrypoint goroutine reports at once what is not a success, and     *)
(* waits for the foreground of the teardown it has started itself.         *)
ReportingPlan ==
    \A j \in Job : /\ entry[j] = "report" => plan[j] # "success"
                   /\ entry[j] = "waiting" => finisher[j] = "entry"

ReportsInv == NothingSentYet /\ ReportingPlan /\ ReportsOnce

(* Every step keeps it, whoever wins finishOnce.                           *)
LEMMA ReportsStep ==
    ASSUME TypeOK, JobsInv, ReportsInv, Next
    PROVE  ReportsInv'
<1> USE DEF ReportsInv, NothingSentYet, ReportingPlan, ReportsOnce
<1>0. ASSUME UNCHANGED <<entryVars, finisher, foreground>>
      PROVE  ReportsInv'
  BY <1>0
<1>1. ASSUME NEW j \in Job, Offer(j)
      PROVE  ReportsInv'
  <2>1. CASE HandleAssignment(j)
    <3>1. entry[j] = "none"
      BY <2>1 DEF HandleAssignment, JobsInv, OffersOnce
    <3>2. QED
      BY <2>1, <3>1 DEF HandleAssignment, TypeOK
  <2>2. CASE HandleAvailability(j) \/ TerminationArrives(j) \/ UserShutdown(j)
    BY <1>0, <2>2 DEF HandleAvailability, TerminationArrives, UserShutdown
  <2>3. QED
    BY <1>1, <2>1, <2>2 DEF Offer
<1>2. ASSUME NEW j \in Job, Answer(j) \/ Timer(j)
      PROVE  ReportsInv'
  BY <1>0, <1>2 DEF Answer, Admit, ReserveSlot, StorePendingAccept, SendAccept,
       Reject, ReleaseSlot, Timer, TimerFires, ExpirePendingAccept
<1>3. ASSUME NEW j \in Job, Entry(j)
      PROVE  ReportsInv'
  <2>1. CASE EntryStart(j)
    BY <2>1 DEF EntryStart, TypeOK
  <2>2. CASE EntryReturns(j)
    BY <2>2 DEF EntryReturns, TypeOK
  <2>3. CASE EntryPlan(j)
    <3>1. CASE terminated[j]
      BY <2>3, <3>1 DEF EntryPlan, TypeOK
    <3>2. CASE ~terminated[j]
      BY <2>3, <3>2 DEF EntryPlan, TypeOK
    <3>3. QED
      BY <3>1, <3>2
  <2>4. CASE EntryReport(j)
    BY <2>4 DEF EntryReport, TypeOK
  <2>5. CASE EntryAwait(j)
    BY <2>5 DEF EntryAwait, TypeOK
  <2>6. CASE EntryShutdownDone(j)
    BY <2>6 DEF EntryShutdownDone, TypeOK
  <2>7. CASE EntryFinish(j)
    BY <2>7 DEF EntryFinish, Claim, TypeOK
  <2>8. CASE EntryDone(j)
    BY <2>8 DEF EntryDone, TypeOK
  <2>9. QED
    BY <1>3, <2>1, <2>2, <2>3, <2>4, <2>5, <2>6, <2>7, <2>8 DEF Entry
<1>4. ASSUME NEW j \in Job, Termination(j)
      PROVE  ReportsInv'
  <2>1. CASE TermFinish(j)
    BY <2>1 DEF TermFinish, Claim, TypeOK
  <2>2. CASE \/ TermTake(j) \/ TermMark(j) \/ TermShutdown(j)
             \/ TermShutdownDone(j) \/ TermWait(j) \/ TermDone(j)
    BY <1>0, <2>2 DEF TermTake, TermMark, TermShutdown, TermShutdownDone,
         TermWait, TermDone
  <2>3. QED
    BY <1>4, <2>1, <2>2 DEF Termination
<1>5. ASSUME NEW j \in Job, Teardown(j)
      PROVE  ReportsInv'
  <2>1. ASSUME UNCHANGED <<entryVars, finisher>>,
               foreground' = foreground \/
                 foreground' = [foreground EXCEPT ![j] = TRUE]
        PROVE  ReportsInv'
    BY <2>1 DEF TypeOK
  <2>2. CASE AwaitShutdown(j)
    BY <2>1, <2>2, Zenon DEF AwaitShutdown
  <2>3. CASE SessionEndTimesOut(j) \/ CleanUp(j)
    BY <2>1, <2>3 DEF SessionEndTimesOut, CleanUp
  <2>4. CASE \/ ShutdownReturns(j) \/ ShutdownSettles(j) \/ TrackFinishing(j)
             \/ AwaitSettled(j) \/ SessionEndReturns(j)
    BY <1>0, <2>4 DEF ShutdownReturns, ShutdownSettles, TrackFinishing,
         AwaitSettled, SessionEndReturns
  <2>5. QED
    BY <1>5, <2>2, <2>3, <2>4 DEF Teardown
<1>6. ASSUME NEW j \in Job, CloseFinish(j)
      PROVE  ReportsInv'
  BY <1>6 DEF CloseFinish, Claim, TypeOK
<1>7. ASSUME Worker
      PROVE  ReportsInv'
  BY <1>0, <1>7 DEF Worker, Stop, DrainBegin, DrainSend, DrainReturn,
       CloseBegin, CloseReturn
<1>8. QED
  BY <1>1, <1>2, <1>3, <1>4, <1>5, <1>6, <1>7 DEF Next

(* The bookkeeping of the final statuses is invariant.                     *)
THEOREM ReportsInvariant == Spec => []ReportsInv
<1>1. Init => ReportsInv
  BY DEF Init, ReportsInv, NothingSentYet, ReportingPlan, ReportsOnce
<1>2. TypeOK /\ JobsInv /\ ReportsInv /\ [Next]_vars => ReportsInv'
  <2>1. ReportsInv /\ UNCHANGED vars => ReportsInv'
    BY DEF ReportsInv, NothingSentYet, ReportingPlan, ReportsOnce, vars
  <2>2. QED
    BY <2>1, ReportsStep
<1>3. QED
  BY <1>1, <1>2, WorkerTypeCorrect, JobsInvariant, PTL DEF Spec

(* The final status of a job is sent at most once, and a success only by   *)
(* the entrypoint that won finishOnce, after the foreground of the         *)
(* teardown, however a termination, a stop and Close interleave with it.   *)
THEOREM StatusSentOnce == Spec => []ReportsOnce
<1>1. ReportsInv => ReportsOnce
  BY DEF ReportsInv
<1>2. QED
  BY <1>1, ReportsInvariant, PTL

-----------------------------------------------------------------------------
(* The session-end callback and the entrypoint.                            *)

(* Whoever finishes a job of an open worker does so after its entrypoint.  *)
FinishedAfterEntrypoint ==
    \A j \in Job :
        /\ finisher[j] # "none" /\ ~closed => EntrypointReturned(j)
        /\ term[j] \in {"finish", "waiting"} => EntrypointReturned(j)

(* Every step keeps it while waitForEntrypointDone does not time out.      *)
LEMMA FinishedAfterStep ==
    ASSUME "timeout" \notin Ops, TypeOK, JobsInv, FinishedAfterEntrypoint, Next
    PROVE  FinishedAfterEntrypoint'
<1> USE DEF FinishedAfterEntrypoint, EntrypointReturned
<1>0. ASSUME UNCHANGED <<entry, term, closing, finisher, closed>>
      PROVE  FinishedAfterEntrypoint'
  BY <1>0
<1>1. ASSUME NEW j \in Job, Offer(j)
      PROVE  FinishedAfterEntrypoint'
  <2>1. CASE HandleAssignment(j)
    <3>1. entry[j] = "none" /\ finisher[j] = "none"
          /\ term[j] \notin {"finish", "waiting"}
      BY <2>1 DEF HandleAssignment, JobsInv, OffersOnce, StartedFirst
    <3>2. QED
      BY <2>1, <3>1 DEF HandleAssignment, TypeOK
  <2>2. CASE TerminationArrives(j)
    BY <2>2 DEF TerminationArrives, TypeOK
  <2>3. CASE HandleAvailability(j) \/ UserShutdown(j)
    BY <1>0, <2>3 DEF HandleAvailability, UserShutdown
  <2>4. QED
    BY <1>1, <2>1, <2>2, <2>3 DEF Offer
<1>2. ASSUME NEW j \in Job, Answer(j) \/ Timer(j)
      PROVE  FinishedAfterEntrypoint'
  BY <1>0, <1>2 DEF Answer, Admit, ReserveSlot, StorePendingAccept, SendAccept,
       Reject, ReleaseSlot, Timer, TimerFires, ExpirePendingAccept
<1>3. ASSUME NEW j \in Job, Entry(j)
      PROVE  FinishedAfterEntrypoint'
  <2>1. CASE EntryStart(j)
    BY <2>1 DEF EntryStart, TypeOK
  <2>2. CASE EntryReturns(j)
    BY <2>2 DEF EntryReturns, TypeOK
  <2>3. CASE EntryPlan(j)
    <3>1. PICK e \in {"finish", "await", "report"} :
                 entry' = [entry EXCEPT ![j] = e]
      BY <2>3 DEF EntryPlan
    <3>2. QED
      BY <2>3, <3>1 DEF EntryPlan, TypeOK
  <2>4. CASE EntryReport(j)
    BY <2>4 DEF EntryReport, TypeOK
  <2>5. CASE EntryAwait(j)
    BY <2>5 DEF EntryAwait, TypeOK
  <2>6. CASE EntryShutdownDone(j)
    BY <2>6 DEF EntryShutdownDone, TypeOK
  <2>7. CASE EntryFinish(j)
    BY <2>7 DEF EntryFinish, Claim, TypeOK
  <2>8. CASE EntryDone(j)
    BY <2>8 DEF EntryDone, TypeOK
  <2>9. QED
    BY <1>3, <2>1, <2>2, <2>3, <2>4, <2>5, <2>6, <2>7, <2>8 DEF Entry
<1>4. ASSUME NEW j \in Job, Termination(j)
      PROVE  FinishedAfterEntrypoint'
  <2>1. CASE TermTake(j)
    BY <2>1 DEF TermTake, TypeOK
  <2>2. CASE TermMark(j) \/ TermShutdown(j)
    BY <2>2 DEF TermMark, TermShutdown, TypeOK
  <2>3. CASE TermShutdownDone(j)
    BY <2>3 DEF TermShutdownDone, TypeOK
  <2>4. CASE TermWait(j)
    BY <2>4 DEF TermWait, TypeOK
  <2>5. CASE TermFinish(j)
    BY <2>5 DEF TermFinish, Claim, TypeOK
  <2>6. CASE TermDone(j)
    BY <2>6 DEF TermDone, TypeOK
  <2>7. QED
    BY <1>4, <2>1, <2>2, <2>3, <2>4, <2>5, <2>6 DEF Termination
<1>5. ASSUME NEW j \in Job, Teardown(j)
      PROVE  FinishedAfterEntrypoint'
  BY <1>0, <1>5 DEF Teardown, ShutdownReturns, ShutdownSettles,
       TrackFinishing, AwaitShutdown, AwaitSettled, SessionEndTimesOut,
       SessionEndReturns, CleanUp
<1>6. ASSUME NEW j \in Job, CloseFinish(j)
      PROVE  FinishedAfterEntrypoint'
  BY <1>6 DEF CloseFinish, Claim, JobsInv, ClosedByClose, TypeOK
<1>7. ASSUME Worker
      PROVE  FinishedAfterEntrypoint'
  <2>1. CASE CloseBegin
    BY <2>1 DEF CloseBegin
  <2>2. CASE Stop \/ DrainBegin \/ DrainSend \/ DrainReturn \/ CloseReturn
    BY <1>0, <2>2 DEF Stop, DrainBegin, DrainSend, DrainReturn, CloseReturn
  <2>3. QED
    BY <1>7, <2>1, <2>2 DEF Worker
<1>8. QED
  BY <1>1, <1>2, <1>3, <1>4, <1>5, <1>6, <1>7 DEF Next

(* In a worker that is not closed and whose entrypoints return within      *)
(* localEntrypointCloseWait, the session-end callback of a job runs after  *)
(* its entrypoint, although a termination tears the job down on its own.   *)
THEOREM EntrypointBeforeSessionEnd ==
    ASSUME "timeout" \notin Ops
    PROVE  Spec => []SessionEndsAfterEntrypoint
<1>1. Init => FinishedAfterEntrypoint
  BY DEF Init, FinishedAfterEntrypoint, EntrypointReturned
<1>2. TypeOK /\ JobsInv /\ FinishedAfterEntrypoint /\ [Next]_vars =>
        FinishedAfterEntrypoint'
  <2>1. FinishedAfterEntrypoint /\ UNCHANGED vars => FinishedAfterEntrypoint'
    BY DEF FinishedAfterEntrypoint, EntrypointReturned, vars
  <2>2. QED
    BY <2>1, FinishedAfterStep
<1>3. JobsInv /\ FinishedAfterEntrypoint => SessionEndsAfterEntrypoint
  BY DEF JobsInv, TeardownTracked, FinishedAfterEntrypoint,
         SessionEndsAfterEntrypoint
<1>4. QED
  BY <1>1, <1>2, <1>3, WorkerTypeCorrect, JobsInvariant, PTL DEF Spec
-----------------------------------------------------------------------------
(* Nobody waits for what will not come.                                    *)

(* The waits in parts: those of a teardown, the jobs that somebody has to  *)
(* finish, and the pending accepts.                                        *)
TeardownGoesOn ==
    \A j \in Job :
        /\ "shutdown" \in {entry[j], term[j], lifecycle[j]} => shutdown[j] # "no"
        /\ lifecycle[j] = "settle" => shutdown[j] = "done"
        /\ "waiting" \in {entry[j], term[j]} => foreground[j] \/ Finishing(j)

JobsHaveFinisher ==
    \A j \in Job :
        j \in finishingJobs \/ (closed /\ j \in activeJobs) =>
            Finishing(j) \/ WillFinish(j)

AcceptsHaveTimer ==
    ~closed => \A j \in pendingAccepts : pendingTimers[j] \in fuse[j] \cup fired[j]

LEMMA WaitsInParts ==
    ASSUME JobsInv, pendingAccepts \subseteq Job
    PROVE  WaitsAnswered <=>
             TeardownGoesOn /\ JobsHaveFinisher /\ AcceptsHaveTimer
BY DEF JobsInv, StartedFirst, WaitsAnswered, TeardownGoesOn, JobsHaveFinisher,
       AcceptsHaveTimer

(* A pending accept has the timer that was set with it, running or fired.  *)
LEMMA AcceptsHaveTimerStep ==
    ASSUME TypeOK, AcceptsHaveTimer, Next
    PROVE  AcceptsHaveTimer'
<1> USE DEF AcceptsHaveTimer
<1>0. ASSUME UNCHANGED <<pendingAccepts, pendingTimers, fuse, fired, closed>>
      PROVE  AcceptsHaveTimer'
  BY <1>0
<1>1. ASSUME NEW j \in Job, Offer(j)
      PROVE  AcceptsHaveTimer'
  <2>1. CASE HandleAssignment(j)
    BY <2>1 DEF HandleAssignment, TypeOK
  <2>2. CASE HandleAvailability(j) \/ TerminationArrives(j) \/ UserShutdown(j)
    BY <1>0, <2>2 DEF HandleAvailability, TerminationArrives, UserShutdown
  <2>3. QED
    BY <1>1, <2>1, <2>2 DEF Offer
<1>2. ASSUME NEW j \in Job, Answer(j)
      PROVE  AcceptsHaveTimer'
  <2>1. CASE StorePendingAccept(j)
    BY <2>1 DEF StorePendingAccept, TypeOK
  <2>2. CASE Admit(j) \/ ReserveSlot(j) \/ SendAccept(j) \/ Reject(j) \/ ReleaseSlot(j)
    BY <1>0, <2>2 DEF Admit, ReserveSlot, SendAccept, Reject, ReleaseSlot
  <2>3. QED
    BY <1>2, <2>1, <2>2 DEF Answer
<1>3. ASSUME NEW j \in Job, Timer(j)
      PROVE  AcceptsHaveTimer'
  <2>1. CASE TimerFires(j)
    BY <2>1 DEF TimerFires, TypeOK
  <2>2. CASE ExpirePendingAccept(j)
    BY <2>2 DEF ExpirePendingAccept, TypeOK
  <2>3. QED
    BY <1>3, <2>1, <2>2 DEF Timer
<1>4. ASSUME NEW j \in Job, Entry(j) \/ CloseFinish(j)
      PROVE  AcceptsHaveTimer'
  BY <1>0, <1>4 DEF Entry, EntryStart, EntryReturns, EntryPlan, EntryReport,
       EntryAwait, EntryShutdownDone, EntryFinish, EntryDone, CloseFinish
<1>5. ASSUME NEW j \in Job, Termination(j)
      PROVE  AcceptsHaveTimer'
  BY <1>0, <1>5 DEF Termination, TermTake, TermMark, TermShutdown,
       TermShutdownDone, TermWait, TermFinish, TermDone
<1>6. ASSUME NEW j \in Job, Teardown(j)
      PROVE  AcceptsHaveTimer'
  BY <1>0, <1>6 DEF Teardown, ShutdownReturns, ShutdownSettles,
       TrackFinishing, AwaitShutdown, AwaitSettled, SessionEndTimesOut,
       SessionEndReturns, CleanUp
<1>7. ASSUME Worker
      PROVE  AcceptsHaveTimer'
  <2>1. CASE CloseBegin
    BY <2>1 DEF CloseBegin
  <2>2. CASE Stop \/ DrainBegin \/ DrainSend \/ DrainReturn \/ CloseReturn
    BY <1>0, <2>2 DEF Stop, DrainBegin, DrainSend, DrainReturn, CloseReturn
  <2>3. QED
    BY <1>7, <2>1, <2>2 DEF Worker
<1>8. QED
  BY <1>1, <1>2, <1>3, <1>4, <1>5, <1>6, <1>7 DEF Next

(* A finishing job has its finisher, and so has every job after Close: who *)
(* comes late finds the teardown under way, which ends with the clean-up.  *)
LEMMA JobsHaveFinisherStep ==
    ASSUME TypeOK, JobsInv, JobsHaveFinisher, Next
    PROVE  JobsHaveFinisher'
<1> USE DEF JobsHaveFinisher, Finishing, WillFinish
<1>a. \A j \in Job : lifecycle[j] = "none" => finisher[j] = "none"
  BY DEF JobsInv, TeardownTracked
<1>b. \A j \in activeJobs \cup finishingJobs : lifecycle[j] # "over"
  BY DEF JobsInv, JobsAccounted, Unfinished, TypeOK
<1>c. \A j \in activeJobs \cup finishingJobs :
         finisher[j] # "none" => Finishing(j)
  BY <1>a, <1>b DEF TypeOK
<1>0. ASSUME UNCHANGED <<jobVars, term, lifecycle, closing, closed>>
      PROVE  JobsHaveFinisher'
  BY <1>0
<1>1. ASSUME NEW j \in Job, Offer(j)
      PROVE  JobsHaveFinisher'
  <2>1. CASE HandleAssignment(j)
    BY <2>1 DEF HandleAssignment, TypeOK
  <2>2. CASE TerminationArrives(j)
    BY <2>2 DEF TerminationArrives, TypeOK
  <2>3. CASE HandleAvailability(j) \/ UserShutdown(j)
    BY <1>0, <2>3 DEF HandleAvailability, UserShutdown
  <2>4. QED
    BY <1>1, <2>1, <2>2, <2>3 DEF Offer
<1>2. ASSUME NEW j \in Job, Answer(j) \/ Timer(j)
      PROVE  JobsHaveFinisher'
  BY <1>0, <1>2 DEF Answer, Admit, ReserveSlot, StorePendingAccept, SendAccept,
       Reject, ReleaseSlot, Timer, TimerFires, ExpirePendingAccept
<1>3. ASSUME NEW j \in Job, Entry(j)
      PROVE  JobsHaveFinisher'
  <2>1. CASE EntryFinish(j)
    BY <2>1 DEF EntryFinish, Claim, TypeOK
  <2>2. CASE \/ EntryStart(j) \/ EntryReturns(j) \/ EntryPlan(j) \/ EntryReport(j)
             \/ EntryAwait(j) \/ EntryShutdownDone(j) \/ EntryDone(j)
    BY <1>0, <2>2 DEF EntryStart, EntryReturns, EntryPlan, EntryReport,
       EntryAwait, EntryShutdownDone, EntryDone
  <2>3. QED
    BY <1>3, <2>1, <2>2 DEF Entry
<1>4. ASSUME NEW j \in Job, Termination(j)
      PROVE  JobsHaveFinisher'
  <2>1. CASE TermTake(j)
    BY <2>1 DEF TermTake, TypeOK
  <2>2. CASE TermMark(j) \/ TermShutdown(j)
    BY <2>2 DEF TermMark, TermShutdown, TypeOK
  <2>3. CASE TermShutdownDone(j)
    BY <2>3 DEF TermShutdownDone, TypeOK
  <2>4. CASE TermWait(j)
    BY <2>4 DEF TermWait, TypeOK
  <2>5. CASE TermFinish(j)
    BY <1>c, <2>5 DEF TermFinish, Claim, TypeOK
  <2>6. CASE TermDone(j)
    BY <2>6 DEF TermDone, TypeOK
  <2>7. QED
    BY <1>4, <2>1, <2>2, <2>3, <2>4, <2>5, <2>6 DEF Termination
<1>5. ASSUME NEW j \in Job, Teardown(j)
      PROVE  JobsHaveFinisher'
  <2>1. CASE ShutdownReturns(j) \/ ShutdownSettles(j) \/ SessionEndTimesOut(j)
    BY <1>0, <2>1 DEF ShutdownReturns, ShutdownSettles, SessionEndTimesOut
  <2>2. CASE TrackFinishing(j)
    BY <2>2 DEF TrackFinishing, TypeOK
  <2>3. CASE AwaitShutdown(j)
    <3>1. PICK l \in {"session", "settle"} :
                 lifecycle' = [lifecycle EXCEPT ![j] = l]
      BY <2>3, Zenon DEF AwaitShutdown
    <3>2. QED
      BY <2>3, <3>1 DEF AwaitShutdown, TypeOK
  <2>4. CASE AwaitSettled(j)
    BY <2>4 DEF AwaitSettled, TypeOK
  <2>5. CASE SessionEndReturns(j)
    BY <2>5 DEF SessionEndReturns, TypeOK
  <2>6. CASE CleanUp(j)
    <3>1. j \notin activeJobs
      BY <2>6 DEF CleanUp, JobsInv, TeardownTracked, JobsAccounted
    <3>2. QED
      BY <2>6, <3>1 DEF CleanUp, TypeOK
  <2>7. QED
    BY <1>5, <2>1, <2>2, <2>3, <2>4, <2>5, <2>6 DEF Teardown
<1>6. ASSUME NEW j \in Job, CloseFinish(j)
      PROVE  JobsHaveFinisher'
  BY <1>c, <1>6 DEF CloseFinish, Claim, TypeOK
<1>7. ASSUME Worker
      PROVE  JobsHaveFinisher'
  <2>1. CASE CloseBegin
    <3>1. closing = {}
      BY <2>1 DEF CloseBegin, JobsInv, ClosedByClose
    <3>2. QED
      BY <2>1, <3>1 DEF CloseBegin
  <2>2. CASE Stop \/ DrainBegin \/ DrainSend \/ DrainReturn \/ CloseReturn
    BY <1>0, <2>2 DEF Stop, DrainBegin, DrainSend, DrainReturn, CloseReturn
  <2>3. QED
    BY <1>7, <2>1, <2>2 DEF Worker
<1>8. QED
  BY <1>1, <1>2, <1>3, <1>4, <1>5, <1>6, <1>7 DEF Next

(* A shutdown never unbegins, and a teardown ends by closing the channel   *)
(* its finisher waits on.                                                  *)
LEMMA TeardownGoesOnStep ==
    ASSUME TypeOK, TeardownGoesOn, Next
    PROVE  TeardownGoesOn'
<1> USE DEF TeardownGoesOn, Finishing
<1>0. ASSUME UNCHANGED <<entry, term, lifecycle, foreground, shutdown>>
      PROVE  TeardownGoesOn'
  BY <1>0
<1>1. ASSUME NEW j \in Job, Offer(j)
      PROVE  TeardownGoesOn'
  <2>1. CASE HandleAssignment(j)
    BY <2>1 DEF HandleAssignment, TypeOK
  <2>2. CASE TerminationArrives(j)
    BY <2>2 DEF TerminationArrives, TypeOK
  <2>3. CASE UserShutdown(j)
    BY <2>3 DEF UserShutdown, BeginShutdown, TypeOK
  <2>4. CASE HandleAvailability(j)
    BY <1>0, <2>4 DEF HandleAvailability
  <2>5. QED
    BY <1>1, <2>1, <2>2, <2>3, <2>4 DEF Offer
<1>2. ASSUME NEW j \in Job, Answer(j) \/ Timer(j)
      PROVE  TeardownGoesOn'
  BY <1>0, <1>2 DEF Answer, Admit, ReserveSlot, StorePendingAccept, SendAccept,
       Reject, ReleaseSlot, Timer, TimerFires, ExpirePendingAccept
<1>3. ASSUME NEW j \in Job, Entry(j)
      PROVE  TeardownGoesOn'
  <2>1. CASE EntryStart(j)
    BY <2>1 DEF EntryStart, TypeOK
  <2>2. CASE EntryReturns(j)
    BY <2>2 DEF EntryReturns, TypeOK
  <2>3. CASE EntryPlan(j)
    <3>1. PICK e \in {"finish", "await", "report"} :
                 entry' = [entry EXCEPT ![j] = e]
      BY <2>3 DEF EntryPlan
    <3>2. QED
      BY <2>3, <3>1 DEF EntryPlan, TypeOK
  <2>4. CASE EntryReport(j)
    BY <2>4 DEF EntryReport, TypeOK
  <2>5. CASE EntryAwait(j)
    BY <2>5 DEF EntryAwait, BeginShutdown, TypeOK
  <2>6. CASE EntryShutdownDone(j)
    BY <2>6 DEF EntryShutdownDone, TypeOK
  <2>7. CASE EntryFinish(j)
    BY <2>7 DEF EntryFinish, Claim, TypeOK
  <2>8. CASE EntryDone(j)
    BY <2>8 DEF EntryDone, TypeOK
  <2>9. QED
    BY <1>3, <2>1, <2>2, <2>3, <2>4, <2>5, <2>6, <2>7, <2>8 DEF Entry
<1>4. ASSUME NEW j \in Job, Termination(j)
      PROVE  TeardownGoesOn'
  <2>1. CASE TermTake(j)
    BY <2>1 DEF TermTake, TypeOK
  <2>2. CASE TermMark(j) \/ TermShutdown(j)
    BY <2>2 DEF TermMark, TermShutdown, BeginShutdown, TypeOK
  <2>3. CASE TermShutdownDone(j)
    BY <2>3 DEF TermShutdownDone, TypeOK
  <2>4. CASE TermWait(j)
    BY <2>4 DEF TermWait, TypeOK
  <2>5. CASE TermFinish(j)
    BY <2>5 DEF TermFinish, Claim, TypeOK
  <2>6. CASE TermDone(j)
    BY <2>6 DEF TermDone, TypeOK
  <2>7. QED
    BY <1>4, <2>1, <2>2, <2>3, <2>4, <2>5, <2>6 DEF Termination
<1>5. ASSUME NEW j \in Job, Teardown(j)
      PROVE  TeardownGoesOn'
  <2>1. CASE ShutdownReturns(j)
    BY <2>1 DEF ShutdownReturns, TypeOK
  <2>2. CASE ShutdownSettles(j)
    BY <1>0, <2>2 DEF ShutdownSettles
  <2>3. CASE TrackFinishing(j)
    BY <2>3 DEF TrackFinishing, BeginShutdown, TypeOK
  <2>4. CASE AwaitShutdown(j)
    <3>1. CASE settled[j]
      BY <2>4, <3>1 DEF AwaitShutdown, TypeOK
    <3>2. CASE ~settled[j]
      BY <2>4, <3>2 DEF AwaitShutdown, TypeOK
    <3>3. QED
      BY <3>1, <3>2
  <2>5. CASE AwaitSettled(j)
    BY <2>5 DEF AwaitSettled, TypeOK
  <2>6. CASE SessionEndTimesOut(j)
    BY <2>6 DEF SessionEndTimesOut, TypeOK
  <2>7. CASE SessionEndReturns(j)
    BY <2>7 DEF SessionEndReturns, TypeOK
  <2>8. CASE CleanUp(j)
    BY <2>8 DEF CleanUp, TypeOK
  <2>9. QED
    BY <1>5, <2>1, <2>2, <2>3, <2>4, <2>5, <2>6, <2>7, <2>8 DEF Teardown
<1>6. ASSUME NEW j \in Job, CloseFinish(j)
      PROVE  TeardownGoesOn'
  BY <1>6 DEF CloseFinish, Claim, TypeOK
<1>7. ASSUME Worker
      PROVE  TeardownGoesOn'
  BY <1>0, <1>7 DEF Worker, Stop, DrainBegin, DrainSend, DrainReturn,
       CloseBegin, CloseReturn
<1>8. QED
  BY <1>1, <1>2, <1>3, <1>4, <1>5, <1>6, <1>7 DEF Next

(* No goroutine of the worker waits for a shutdown nobody began, a         *)
(* teardown nobody runs, an entrypoint nobody started, the end of a job    *)
(* nobody finishes or a timer nobody set, whoever of the entrypoint, a     *)
(* termination and Close finishes the job.                                 *)
THEOREM NobodyWaitsInVain == Spec => []WaitsAnswered
<1> DEFINE WInv == TeardownGoesOn /\ JobsHaveFinisher /\ AcceptsHaveTimer
<1>1. Init => WInv
  BY DEF Init, TeardownGoesOn, JobsHaveFinisher, AcceptsHaveTimer
<1>2. TypeOK /\ JobsInv /\ WInv /\ [Next]_vars => WInv'
  <2>1. WInv /\ UNCHANGED vars => WInv'
    BY DEF TeardownGoesOn, JobsHaveFinisher, AcceptsHaveTimer, Finishing,
           WillFinish, vars, offerVars, jobVars, entryVars, termVars,
           finishVars, shutdownVars, workerVars
  <2>2. QED
    BY <2>1, TeardownGoesOnStep, JobsHaveFinisherStep, AcceptsHaveTimerStep
<1>3. TypeOK /\ JobsInv /\ WInv => WaitsAnswered
  BY WaitsInParts DEF TypeOK
<1>4. QED
  BY <1>1, <1>2, <1>3, WorkerTypeCorrect, JobsInvariant, PTL DEF Spec

-----------------------------------------------------------------------------
(* The worker keeps the ledger of its jobs.                                *)

(* The ledger stutters when entrypoints go on, claims are made and jobs    *)
(* pass from one map to the other.                                         *)
LEMMA LedgerStutters ==
    ASSUME \A j \in Job : (entry'[j] = "none") <=> (entry[j] = "none"),
           \A j \in Job : (lifecycle'[j] = "over") <=> (lifecycle[j] = "over"),
           (activeJobs \cup finishingJobs)' = activeJobs \cup finishingJobs,
           status' = status,
           (close' = "returned") <=> (close = "returned")
    PROVE  UNCHANGED Ledger!vars
<1>1. {j \in Job : entry'[j] # "none"} = {j \in Job : entry[j] # "none"}
  OBVIOUS
<1>2. {j \in Job : lifecycle'[j] = "over"} = {j \in Job : lifecycle[j] = "over"}
  OBVIOUS
<1>3. (close' = "returned") = (close = "returned")
  OBVIOUS
<1>4. QED
  BY <1>1, <1>2, <1>3 DEF Ledger!vars

(* Every step of the worker is a step of the ledger or stutters.           *)
LEMMA LedgerStep ==
    ASSUME TypeOK, JobsInv, ReportsInv, Next
    PROVE  [Ledger!Next]_(Ledger!vars)
<1> DEFINE Quiet == UNCHANGED Ledger!vars
<1>0. ASSUME UNCHANGED <<entry, lifecycle, jobVars, status, close>>
      PROVE  Quiet
  BY <1>0, LedgerStutters DEF jobVars
<1>1. ASSUME NEW j \in Job, Offer(j)
      PROVE  [Ledger!Next]_(Ledger!vars)
  <2>1. ASSUME HandleAssignment(j), j \in pendingAccepts, ~closed
        PROVE  Ledger!Next
    <3>1. entry[j] = "none"
      BY <2>1 DEF HandleAssignment, JobsInv, OffersOnce
    <3>2. {i \in Job : entry'[i] # "none"} = {i \in Job : entry[i] # "none"} \cup {j}
      BY <2>1 DEF HandleAssignment, TypeOK
    <3>3. (activeJobs \cup finishingJobs)' = (activeJobs \cup finishingJobs) \cup {j}
      BY <2>1 DEF HandleAssignment
    <3>4. close # "returned"
      BY <2>1 DEF JobsInv, ClosedByClose
    <3>5. UNCHANGED <<lifecycle, status, close>>
      BY <2>1 DEF HandleAssignment, finishVars, workerVars
    <3>6. Ledger!Start(j)
      BY <3>2, <3>3, <3>4, <3>5 DEF Ledger!Start
    <3>7. QED
      BY <3>1, <3>6 DEF Ledger!Next
  <2>2. ASSUME HandleAssignment(j), ~(j \in pendingAccepts /\ ~closed)
        PROVE  Quiet
    BY <1>0, <2>2 DEF HandleAssignment, jobVars, finishVars, workerVars
  <2>3. CASE HandleAvailability(j) \/ TerminationArrives(j) \/ UserShutdown(j)
    BY <1>0, <2>3 DEF HandleAvailability, TerminationArrives, UserShutdown,
         entryVars, finishVars, workerVars
  <2>4. QED
    BY <1>1, <2>1, <2>2, <2>3 DEF Offer
<1>2. ASSUME NEW j \in Job, Answer(j) \/ Timer(j)
      PROVE  Quiet
  BY <1>0, <1>2 DEF Answer, Admit, ReserveSlot, StorePendingAccept, SendAccept,
       Reject, ReleaseSlot, Timer, TimerFires, ExpirePendingAccept, entryVars,
       finishVars, workerVars
<1>3. ASSUME NEW j \in Job, Entry(j)
      PROVE  [Ledger!Next]_(Ledger!vars)
  <2>1. ASSUME NEW e \in {"start", "running", "returned", "report", "await",
                          "shutdown", "finish", "waiting", "over"},
               entry[j] # "none",
               entry' = [entry EXCEPT ![j] = e],
               \A i \in Job : (lifecycle'[i] = "over") <=> (lifecycle[i] = "over"),
               UNCHANGED <<jobVars, status, close>>
        PROVE  Quiet
    <3>1. \A i \in Job : (entry'[i] = "none") <=> (entry[i] = "none")
      BY <2>1 DEF TypeOK
    <3>2. QED
      BY <2>1, <3>1, LedgerStutters DEF jobVars
  <2>2. ASSUME NEW e \in {"finish", "over"},
               entry[j] # "none", status[j] = 0,
               entry' = [entry EXCEPT ![j] = e],
               status' = [status EXCEPT ![j] = @ + 1],
               UNCHANGED <<lifecycle, jobVars, close>>
        PROVE  Ledger!Next
    <3>1. {i \in Job : entry'[i] # "none"} = {i \in Job : entry[i] # "none"}
      BY <2>2 DEF TypeOK
    <3>2. status' = [status EXCEPT ![j] = 1]
      BY <2>2 DEF TypeOK
    <3>3. Ledger!Report(j)
      BY <2>2, <3>1, <3>2 DEF Ledger!Report, jobVars
    <3>4. QED
      BY <2>2, <3>3 DEF Ledger!Next
  <2>3. CASE EntryStart(j)
    BY <2>1, <2>3 DEF EntryStart, finishVars, workerVars
  <2>4. CASE EntryReturns(j)
    BY <2>1, <2>4 DEF EntryReturns, finishVars, workerVars
  <2>5. CASE EntryPlan(j)
    <3>1. PICK e \in {"finish", "await", "report"} :
                 entry' = [entry EXCEPT ![j] = e]
      BY <2>5 DEF EntryPlan
    <3>2. QED
      BY <2>1, <2>5, <3>1 DEF EntryPlan, finishVars, workerVars
  <2>6. CASE EntryReport(j)
    <3>1. status[j] = 0
      BY <2>6 DEF EntryReport, ReportsInv, NothingSentYet
    <3>2. QED
      BY <2>2, <2>6, <3>1 DEF EntryReport, finishVars, workerVars
  <2>7. CASE EntryAwait(j)
    BY <2>1, <2>7 DEF EntryAwait, finishVars, workerVars
  <2>8. CASE EntryShutdownDone(j)
    BY <2>1, <2>8 DEF EntryShutdownDone, finishVars, workerVars
  <2>9. CASE EntryFinish(j)
    <3>1. CASE finisher[j] = "none"
      <4>1. lifecycle[j] = "none"
        BY <3>1 DEF JobsInv, TeardownTracked
      <4>2. \A i \in Job : (lifecycle'[i] = "over") <=> (lifecycle[i] = "over")
        BY <2>9, <3>1, <4>1 DEF EntryFinish, Claim, TypeOK
      <4>3. QED
        BY <2>1, <2>9, <3>1, <4>2 DEF EntryFinish, workerVars
    <3>2. CASE finisher[j] # "none"
      BY <2>1, <2>9, <3>2 DEF EntryFinish, finishVars, workerVars
    <3>3. QED
      BY <3>1, <3>2
  <2>10. CASE EntryDone(j)
    <3>1. CASE plan[j] = "success"
      <4>1. status[j] = 0
        BY <2>10, <3>1 DEF EntryDone, ReportsInv, NothingSentYet
      <4>2. QED
        BY <2>2, <2>10, <3>1, <4>1 DEF EntryDone, finishVars, workerVars
    <3>2. CASE plan[j] # "success"
      <4>1. status' = status
        BY <2>10, <3>2 DEF EntryDone, TypeOK
      <4>2. QED
        BY <2>1, <2>10, <4>1 DEF EntryDone, finishVars, workerVars
    <3>3. QED
      BY <3>1, <3>2
  <2>11. QED
    BY <1>3, <2>3, <2>4, <2>5, <2>6, <2>7, <2>8, <2>9, <2>10 DEF Entry
<1>4. ASSUME NEW j \in Job, NEW who, finisher[j] = "none", Claim(j, who),
             UNCHANGED <<entry, jobVars, status, close>>
      PROVE  Quiet
  <2>1. lifecycle[j] = "none"
    BY <1>4 DEF JobsInv, TeardownTracked
  <2>2. \A i \in Job : (lifecycle'[i] = "over") <=> (lifecycle[i] = "over")
    BY <1>4, <2>1 DEF Claim, TypeOK
  <2>3. QED
    BY <1>4, <2>2, LedgerStutters DEF jobVars
<1>5. ASSUME NEW j \in Job, Termination(j)
      PROVE  Quiet
  <2>1. CASE TermTake(j)
    <3>1. (activeJobs \cup finishingJobs)' = activeJobs \cup finishingJobs
      BY <2>1 DEF TermTake, jobVars
    <3>2. QED
      BY <2>1, <3>1, LedgerStutters DEF TermTake, entryVars, finishVars,
           workerVars
  <2>2. CASE TermFinish(j)
    <3>1. CASE finisher[j] = "none"
      BY <1>4, <2>2, <3>1 DEF TermFinish, entryVars, workerVars
    <3>2. CASE finisher[j] # "none"
      BY <1>0, <2>2, <3>2 DEF TermFinish, entryVars, finishVars, workerVars
    <3>3. QED
      BY <3>1, <3>2
  <2>3. CASE \/ TermMark(j) \/ TermShutdown(j) \/ TermShutdownDone(j)
             \/ TermWait(j) \/ TermDone(j)
    BY <1>0, <2>3 DEF TermMark, TermShutdown, TermShutdownDone, TermWait,
         TermDone, entryVars, finishVars, workerVars
  <2>4. QED
    BY <1>5, <2>1, <2>2, <2>3 DEF Termination
<1>6. ASSUME NEW j \in Job, Teardown(j)
      PROVE  [Ledger!Next]_(Ledger!vars)
  <2>1. ASSUME NEW l \in {"shutdown", "settle", "session", "cleanup"},
               lifecycle[j] # "over",
               lifecycle' = [lifecycle EXCEPT ![j] = l],
               (activeJobs \cup finishingJobs)' = activeJobs \cup finishingJobs,
               UNCHANGED <<entryVars, workerVars>>
        PROVE  Quiet
    <3>1. \A i \in Job : (lifecycle'[i] = "over") <=> (lifecycle[i] = "over")
      BY <2>1 DEF TypeOK
    <3>2. QED
      BY <2>1, <3>1, LedgerStutters DEF entryVars, workerVars
  <2>2. CASE TrackFinishing(j)
    <3>1. j \in activeJobs \cup finishingJobs
      <4>1. finisher[j] # "none" /\ lifecycle[j] # "over"
        BY <2>2 DEF TrackFinishing, JobsInv, TeardownTracked
      <4>2. QED
        BY <4>1 DEF JobsInv, StartedFirst, JobsAccounted, Unfinished
    <3>2. (activeJobs \cup finishingJobs)' = activeJobs \cup finishingJobs
      BY <2>2, <3>1 DEF TrackFinishing
    <3>3. QED
      BY <2>1, <2>2, <3>2 DEF TrackFinishing
  <2>3. CASE AwaitShutdown(j)
    <3>1. PICK l \in {"session", "settle"} :
                 lifecycle' = [lifecycle EXCEPT ![j] = l]
      BY <2>3, Zenon DEF AwaitShutdown
    <3>2. QED
      BY <2>1, <2>3, <3>1 DEF AwaitShutdown, jobVars
  <2>4. CASE AwaitSettled(j)
    BY <2>1, <2>4 DEF AwaitSettled, jobVars
  <2>5. CASE SessionEndReturns(j)
    BY <2>1, <2>5 DEF SessionEndReturns, jobVars
  <2>6. CASE ShutdownReturns(j) \/ ShutdownSettles(j) \/ SessionEndTimesOut(j)
    BY <1>0, <2>6 DEF ShutdownReturns, ShutdownSettles, SessionEndTimesOut,
         entryVars, finishVars, workerVars
  <2>7. ASSUME CleanUp(j)
        PROVE  Ledger!Next
    <3>1. j \in finishingJobs /\ j \notin activeJobs
      BY <2>7 DEF CleanUp, JobsInv, TeardownTracked, JobsAccounted
    <3>2. (activeJobs \cup finishingJobs)' = (activeJobs \cup finishingJobs) \ {j}
      BY <2>7, <3>1 DEF CleanUp
    <3>3. {i \in Job : lifecycle'[i] = "over"}
            = {i \in Job : lifecycle[i] = "over"} \cup {j}
      BY <2>7 DEF CleanUp, TypeOK
    <3>4. UNCHANGED <<entry, status, close>>
      BY <2>7 DEF CleanUp, entryVars, workerVars
    <3>5. Ledger!End(j)
      BY <3>2, <3>3, <3>4 DEF Ledger!End
    <3>6. QED
      BY <3>1, <3>5 DEF Ledger!Next
  <2>8. QED
    BY <1>6, <2>2, <2>3, <2>4, <2>5, <2>6, <2>7 DEF Teardown
<1>7. ASSUME NEW j \in Job, CloseFinish(j)
      PROVE  Quiet
  <2>1. CASE finisher[j] = "none"
    BY <1>4, <1>7, <2>1 DEF CloseFinish, entryVars
  <2>2. CASE finisher[j] # "none"
    BY <1>0, <1>7, <2>2 DEF CloseFinish, entryVars, finishVars
  <2>3. QED
    BY <2>1, <2>2
<1>8. ASSUME Worker
      PROVE  [Ledger!Next]_(Ledger!vars)
  <2>1. CASE Stop \/ DrainBegin \/ DrainSend \/ DrainReturn
    BY <1>0, <2>1 DEF Stop, DrainBegin, DrainSend, DrainReturn, entryVars,
         finishVars
  <2>2. CASE CloseBegin
    BY <2>2, LedgerStutters DEF CloseBegin, entryVars, finishVars, jobVars
  <2>3. ASSUME CloseReturn, close' = "returned"
        PROVE  Ledger!Close
    BY <2>3 DEF CloseReturn, Ledger!Close, entryVars, finishVars, jobVars
  <2>4. ASSUME CloseReturn, close' # "returned"
        PROVE  Quiet
    BY <2>4, LedgerStutters DEF CloseReturn, entryVars, finishVars, jobVars
  <2>5. QED
    BY <1>8, <2>1, <2>2, <2>3, <2>4 DEF Worker, Ledger!Next
<1>9. QED
  BY <1>1, <1>2, <1>3, <1>5, <1>6, <1>7, <1>8 DEF Next

(* A job is started once, never after Close has returned; the worker       *)
(* answers for it in one of its two maps from its assignment to its        *)
(* clean-up; its final status is sent at most once; and Close returns when *)
(* no job is left.                                                         *)
THEOREM WorkerKeepsLedger == Spec => KeepsLedger
<1>1. Init => Ledger!Init
  BY DEF Init, Ledger!Init
<1>2. TypeOK /\ JobsInv /\ ReportsInv /\ [Next]_vars
        => [Ledger!Next]_(Ledger!vars)
  <2>1. UNCHANGED vars => UNCHANGED Ledger!vars
    BY DEF vars, jobVars, entryVars, finishVars, workerVars, Ledger!vars
  <2>2. QED
    BY <2>1, LedgerStep
<1>3. QED
  BY <1>1, <1>2, WorkerTypeCorrect, JobsInvariant, ReportsInvariant,
     PTL DEF Spec, KeepsLedger, Ledger!Spec

=============================================================================
