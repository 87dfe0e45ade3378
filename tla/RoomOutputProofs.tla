--------------------------- MODULE RoomOutputProofs ---------------------------
(***************************************************************************)
(* For any finite set of replies, of whatever kinds, any number of frames  *)
(* and whatever may happen: the types, that the publications are counted,  *)
(* that a publisher is held only by a pause and a reply waits only for an  *)
(* open segment which somebody will finish, that the encoder outlives the  *)
(* publications, and that no segment of a pipeline agent is left open.     *)
(***************************************************************************)
EXTENDS RoomOutput, FiniteSetTheorems, TLAPS

(* signalPublicationsDrainedLocked: the publications counted are those     *)
(* inside the gate, and once they are reported drained nobody is inside.   *)
DrainedIsEmpty ==
    /\ publicationActive = Cardinality(Inside)
    /\ publicationDone <=> closed /\ Inside = {}

(* Only who is held has been answered.                                     *)
AnsweredIsHeld == \A r \in Reply : result[r] # "none" => At(r, "held")

(* The encoder is closed last, by a Shutdown that has seen the             *)
(* publications drained or has given them up.                              *)
ClosedInOrder ==
    /\ ~encoder => shutdown = "done"
    /\ shutdown \in {"drop", "finish", "done"} => forced \/ publicationDone

(* An open segment will be finished by some reply.                         *)
Owed == Pipelines /\ playbackCapturing => \E r \in Reply : Owes(rep[r])

IInv ==
    /\ TypeOK /\ DrainedIsEmpty /\ HeldByPause /\ AnsweredIsHeld
    /\ WaitsForOpenSegment /\ ClosedInOrder /\ Owed

-----------------------------------------------------------------------------
(* How a reply moves.                                                      *)

(* Of the replies only r changes, and becomes q, of the same kind.         *)
Moves(r, q) ==
    /\ q \in Flags /\ q.kind = rep[r].kind
    /\ rep' \in [Reply -> Flags]
    /\ rep'[r] = q
    /\ \A s \in Reply \ {r} : rep'[s] = rep[s]

LEMMA FlagsOf ==
    ASSUME TypeOK, NEW r \in Reply
    PROVE  /\ rep[r] \in Flags
           /\ rep[r].pc \in Places
           /\ rep[r].kind \in {"pipeline", "realtime", "events"}
           /\ rep[r].after \in {"check", "await", "over"}
           /\ rep[r].cut \in BOOLEAN /\ rep[r].sent \in BOOLEAN
           /\ rep[r].target \in Nat /\ rep[r].left \in 0..Frames
BY DEF TypeOK, Flags

LEMMA MovedIs ==
    ASSUME TypeOK, NEW r \in Reply, NEW pc \in Places
    PROVE  /\ Moved(rep[r], pc) \in Flags
           /\ Moved(rep[r], pc).pc = pc
           /\ Moved(rep[r], pc).kind = rep[r].kind
           /\ pc # "over" => /\ Moved(rep[r], pc).sent = rep[r].sent
                             /\ Moved(rep[r], pc).cut = rep[r].cut
<1>1. rep[r] \in Flags
  BY FlagsOf
<1>2. CASE pc = "over"
  BY <1>1, <1>2, RoomOutputAssumption DEF Moved, Fresh, Flags, Places
<1>3. CASE pc # "over"
  BY <1>1, <1>3 DEF Moved, Flags, Places
<1>4. QED
  BY <1>2, <1>3

LEMMA GotoMoves ==
    ASSUME TypeOK, NEW r \in Reply, NEW pc \in Places, Goto(r, pc)
    PROVE  Moves(r, Moved(rep[r], pc))
<1>1. /\ rep \in [Reply -> Flags]
      /\ Moved(rep[r], pc) \in Flags
      /\ Moved(rep[r], pc).kind = rep[r].kind
  BY MovedIs DEF TypeOK
<1>2. rep' = [rep EXCEPT ![r] = Moved(rep[r], pc)]
  BY DEF Goto
<1>3. QED
  BY <1>1, <1>2 DEF Moves

LEMMA ThenMoves ==
    ASSUME TypeOK, NEW r \in Reply, NEW f \in {"flush", "finish", "clear"},
           NEW pc \in {"check", "await", "over"}, Then(r, f, pc)
    PROVE  \E q : Moves(r, q) /\ q.pc = f
<1> DEFINE q == [rep[r] EXCEPT !.pc = f, !.after = pc]
<1>1. rep[r] \in Flags /\ rep \in [Reply -> Flags]
  BY DEF TypeOK
<1>2. q \in Flags /\ q.kind = rep[r].kind /\ q.pc = f
  BY <1>1 DEF Flags, Places
<1>3. rep' = [rep EXCEPT ![r] = q]
  BY <1>1 DEF Then
<1>4. Moves(r, q)
  BY <1>1, <1>2, <1>3 DEF Moves
<1>5. QED
  BY <1>2, <1>4

(* Where PublishAudio leaves a reply: outside the gate, and, of a pipeline *)
(* agent, owing a flush or a clear.                                        *)
LEMMA ReturnedMoves ==
    ASSUME TypeOK, NEW r \in Reply, NEW ret \in {"ok", "cancel", "error"},
           Returned(r, ret)
    PROVE  \E q : /\ Moves(r, q)
                  /\ q.pc \in {"loop", "check", "over", "clear", "flush"}
                  /\ Is(r, "pipeline") => Owes(q)
<1>0. rep[r] \in Flags /\ rep \in [Reply -> Flags]
  BY DEF TypeOK
<1>1. rep[r].kind \in {"pipeline", "realtime", "events"}
  BY FlagsOf
<1>2. CASE ret = "ok"
  <2> DEFINE q == [rep[r] EXCEPT !.sent = TRUE, !.pc = IF Is(r, "pipeline") /\ rep[r].cut THEN "check" ELSE "loop"]
  <2>1. q \in Flags /\ q.kind = rep[r].kind
    BY <1>0 DEF Flags, Places
  <2>2. rep' = [rep EXCEPT ![r] = q]
    BY <1>0, <1>2 DEF Returned
  <2>3. Moves(r, q)
    BY <1>0, <2>1, <2>2 DEF Moves
  <2>4. q.sent /\ q.cut = rep[r].cut /\ q.pc = IF Is(r, "pipeline") /\ rep[r].cut THEN "check" ELSE "loop"
    BY <1>0 DEF Flags
  <2>5. q.pc \in {"loop", "check"} /\ Owes(q)
    BY <2>4, <1>1 DEF Owes
  <2>6. QED
    BY <2>3, <2>5
<1>3. CASE ret # "ok" /\ Is(r, "events")
  <2>1. Goto(r, "loop")
    BY <1>3 DEF Returned, Is
  <2>2. Moves(r, Moved(rep[r], "loop")) /\ Moved(rep[r], "loop").pc = "loop"
    BY <2>1, GotoMoves, MovedIs DEF Places
  <2>3. QED
    BY <2>2, <1>3 DEF Is
<1>4. CASE ret # "ok" /\ Is(r, "realtime")
  <2>1. Goto(r, "over")
    BY <1>4 DEF Returned, Is
  <2>2. Moves(r, Moved(rep[r], "over")) /\ Moved(rep[r], "over").pc = "over"
    BY <2>1, GotoMoves, MovedIs DEF Places
  <2>3. QED
    BY <2>2, <1>4 DEF Is
<1>5. CASE ret # "ok" /\ Is(r, "pipeline")
  <2>1. CASE ret = "cancel"
    <3>1. Then(r, "clear", "check")
      BY <2>1, <1>5 DEF Returned, Is
    <3>2. \E q : Moves(r, q) /\ q.pc = "clear"
      BY <3>1, ThenMoves
    <3>3. QED
      BY <3>2 DEF Owes
  <2>2. CASE ret = "error"
    <3>1. Then(r, "flush", "over")
      BY <2>2, <1>5 DEF Returned, Is
    <3>2. \E q : Moves(r, q) /\ q.pc = "flush"
      BY <3>1, ThenMoves
    <3>3. QED
      BY <3>2 DEF Owes
  <2>3. QED
    BY <2>1, <2>2, <1>5
<1>6. QED
  BY <1>1, <1>2, <1>3, <1>4, <1>5 DEF Is
-----------------------------------------------------------------------------
(* What a move keeps.                                                      *)

LEMMA InsideFinite ==
    ASSUME TypeOK
    PROVE  /\ IsFiniteSet(Inside)
           /\ Cardinality(Inside) \in Nat
           /\ Cardinality(Inside) = 0 <=> Inside = {}
<1>1. Inside \subseteq Reply
  BY DEF Inside
<1>2. IsFiniteSet(Inside)
  BY <1>1, RoomOutputAssumption, FS_Subset
<1>3. QED
  BY <1>2, FS_CardinalityType, FS_EmptySet

(* A reply that stays on its side of the gate.                             *)
LEMMA StaysCounted ==
    ASSUME TypeOK, DrainedIsEmpty, NEW r \in Reply, NEW q, Moves(r, q),
           rep[r].pc \in PublishAt <=> q.pc \in PublishAt, UNCHANGED gate
    PROVE  DrainedIsEmpty'
<1>1. Inside' = Inside
  BY DEF Inside, Moves
<1>2. QED
  BY <1>1 DEF DrainedIsEmpty, gate

LEMMA EntersCounted ==
    ASSUME TypeOK, DrainedIsEmpty, NEW r \in Reply, NEW q, Moves(r, q),
           rep[r].pc \notin PublishAt, q.pc \in PublishAt, ~closed,
           publicationActive' = publicationActive + 1,
           UNCHANGED <<closed, publicationDone>>
    PROVE  DrainedIsEmpty'
<1>1. Inside' = Inside \cup {r} /\ r \notin Inside
  BY DEF Inside, Moves
<1>2. Cardinality(Inside') = Cardinality(Inside) + 1
  BY <1>1, InsideFinite, FS_AddElement
<1>3. QED
  BY <1>2 DEF DrainedIsEmpty

LEMMA LeavesCounted ==
    ASSUME TypeOK, DrainedIsEmpty, NEW r \in Reply, NEW q, Moves(r, q),
           rep[r].pc \in PublishAt, q.pc \notin PublishAt,
           publicationActive' = OneLess, SignalDrained(closed, OneLess),
           UNCHANGED closed
    PROVE  DrainedIsEmpty' /\ (publicationDone => publicationDone')
<1>1. Inside' = Inside \ {r} /\ r \in Inside
  BY DEF Inside, Moves
<1>2. /\ IsFiniteSet(Inside')
      /\ Cardinality(Inside') = Cardinality(Inside) - 1
  BY <1>1, InsideFinite, FS_RemoveElement
<1>3. Cardinality(Inside') \in Nat /\ (Cardinality(Inside') = 0 <=> Inside' = {})
  BY <1>2, FS_CardinalityType, FS_EmptySet
<1>4. Cardinality(Inside) \in Nat /\ Inside # {}
  BY <1>1, InsideFinite
<1>5. OneLess = Cardinality(Inside')
  BY <1>2, <1>3, <1>4 DEF OneLess, DrainedIsEmpty
<1>6. publicationDone' = (publicationDone \/ (closed /\ Inside' = {}))
  BY <1>3, <1>5 DEF SignalDrained
<1>7. ~publicationDone
  BY <1>4 DEF DrainedIsEmpty
<1>8. publicationDone' <=> closed' /\ Inside' = {}
  BY <1>6, <1>7
<1>9. QED
  BY <1>5, <1>7, <1>8 DEF DrainedIsEmpty

(* A reply that is held before and after, or neither.                      *)
LEMMA StaysUnheld ==
    ASSUME HeldByPause, AnsweredIsHeld, NEW r \in Reply, NEW q, Moves(r, q),
           rep[r].pc = "held" <=> q.pc = "held", UNCHANGED output
    PROVE  HeldByPause' /\ AnsweredIsHeld'
<1>1. \A s \in Reply : At(s, "held")' <=> At(s, "held")
  BY DEF Moves, At
<1>2. result' = result /\ audioOutputWaiters' = audioOutputWaiters /\ audioOutputPaused' = audioOutputPaused
  BY DEF output
<1>3. {s \in Reply : At(s, "held")' /\ result'[s] = "none"} = {s \in Reply : At(s, "held") /\ result[s] = "none"}
  BY <1>1, <1>2
<1>4. HeldByPause'
  BY <1>2, <1>3 DEF HeldByPause
<1>5. AnsweredIsHeld'
  BY <1>1, <1>2 DEF AnsweredIsHeld
<1>6. QED
  BY <1>4, <1>5

(* The held reply r leaves, or was answered and goes on.                   *)
LEMMA LeavesHeld ==
    ASSUME TypeOK, HeldByPause, AnsweredIsHeld, NEW r \in Reply, NEW q,
           Moves(r, q), q.pc # "held",
           result' = [result EXCEPT ![r] = "none"],
           audioOutputWaiters' = audioOutputWaiters \ {r},
           UNCHANGED audioOutputPaused
    PROVE  HeldByPause' /\ AnsweredIsHeld'
<1>1. \A s \in Reply \ {r} : (At(s, "held")' <=> At(s, "held")) /\ result'[s] = result[s]
  BY DEF Moves, At, TypeOK
<1>2. ~At(r, "held")' /\ result'[r] = "none"
  BY DEF Moves, At, TypeOK
<1>3. {s \in Reply : At(s, "held")' /\ result'[s] = "none"} = {s \in Reply : At(s, "held") /\ result[s] = "none"} \ {r}
  BY <1>1, <1>2
<1>4. HeldByPause'
  BY <1>3 DEF HeldByPause
<1>5. AnsweredIsHeld'
  BY <1>1, <1>2 DEF AnsweredIsHeld
<1>6. QED
  BY <1>4, <1>5

(* A reply that is not listed for a playout, or goes on waiting for it.    *)
LEMMA StaysUnlisted ==
    ASSUME TypeOK, WaitsForOpenSegment, NEW r \in Reply, NEW q, Moves(r, q),
           \/ r \notin playbackWaiters
           \/ q.pc = rep[r].pc /\ q.target = rep[r].target,
           UNCHANGED playback \/ StartPlayback
    PROVE  WaitsForOpenSegment'
<1>1. playbackWaiters' = playbackWaiters /\ playbackFinishedCount' = playbackFinishedCount
  BY DEF playback, segment, StartPlayback
<1>2. playbackSegmentsCount' = playbackFinishedCount' + (IF playbackCapturing' THEN 1 ELSE 0)
  BY DEF playback, segment, StartPlayback, WaitsForOpenSegment, TypeOK
<1>3. \A s \in playbackWaiters : rep'[s].pc = rep[s].pc /\ rep'[s].target = rep[s].target
  BY DEF Moves, TypeOK
<1>4. QED
  BY <1>1, <1>2, <1>3 DEF WaitsForOpenSegment, At

(* What is dropped was held, and stays so until it has seen it.            *)
LEMMA DropKeeps ==
    ASSUME TypeOK, HeldByPause, AnsweredIsHeld, DropPaused,
           \A r \in Reply : At(r, "held")' <=> At(r, "held")
    PROVE  /\ HeldByPause' /\ AnsweredIsHeld'
           /\ audioOutputPaused' \in BOOLEAN /\ audioOutputWaiters' \subseteq Reply
           /\ result' \in [Reply -> {"none", "go", "drop"}]
<1>1. /\ audioOutputWaiters' = {} /\ audioOutputPaused' = audioOutputPaused
      /\ result' = [r \in Reply |-> IF r \in audioOutputWaiters THEN "drop" ELSE result[r]]
  BY DEF DropPaused
<1>2. result' \in [Reply -> {"none", "go", "drop"}]
  BY <1>1 DEF TypeOK
<1>3. \A r \in Reply : ~(At(r, "held")' /\ result'[r] = "none")
  BY <1>1 DEF HeldByPause
<1>4. HeldByPause'
  BY <1>1, <1>3 DEF HeldByPause
<1>5. AnsweredIsHeld'
  BY <1>1 DEF AnsweredIsHeld, HeldByPause
<1>6. QED
  BY <1>1, <1>2, <1>4, <1>5 DEF TypeOK

LEMMA NotWaiting ==
    ASSUME WaitsForOpenSegment, NEW r \in Reply, rep[r].pc # "waiting"
    PROVE  r \notin playbackWaiters
BY DEF WaitsForOpenSegment, At

LEMMA FinishKeepsWaits ==
    ASSUME TypeOK, WaitsForOpenSegment, NEW r \in Reply, NEW q, Moves(r, q),
           r \notin playbackWaiters, FinishPlayback
    PROVE  WaitsForOpenSegment' /\ ~playbackCapturing'
<1>1. CASE playbackFinishedCount >= playbackSegmentsCount
  <2>1. UNCHANGED playback
    BY <1>1 DEF FinishPlayback
  <2>2. ~playbackCapturing
    BY <1>1 DEF WaitsForOpenSegment, TypeOK
  <2>3. QED
    BY <2>1, <2>2, StaysUnlisted DEF playback, segment
<1>2. CASE ~(playbackFinishedCount >= playbackSegmentsCount)
  <2>1. /\ playbackCapturing' = FALSE
        /\ playbackFinishedCount' = playbackFinishedCount + 1
        /\ playbackWaiters' = {}
        /\ playbackSegmentsCount' = playbackSegmentsCount
    BY <1>2 DEF FinishPlayback
  <2>2. playbackCapturing
    BY <1>2 DEF WaitsForOpenSegment, TypeOK
  <2>3. QED
    BY <2>1, <2>2 DEF WaitsForOpenSegment, TypeOK
<1>3. QED
  BY <1>1, <1>2

(* What a reply owed it still owes, or does what it owed.                  *)
LEMMA StaysOwed ==
    ASSUME TypeOK, Owed, NEW r \in Reply, NEW q, Moves(r, q),
           Is(r, "pipeline") => \/ playbackCapturing' = playbackCapturing /\ (Owes(rep[r]) => Owes(q))
                                \/ Owes(q)
                                \/ ~playbackCapturing'
    PROVE  Owed'
<1> SUFFICES ASSUME Pipelines', playbackCapturing'
             PROVE  \E s \in Reply : Owes(rep'[s])
  BY DEF Owed, Owes
<1>1. \A s \in Reply : rep'[s].kind = rep[s].kind
  BY DEF Moves
<1>2. Pipelines /\ Is(r, "pipeline")
  BY <1>1 DEF Pipelines, Is
<1>3. CASE Owes(q)
  BY <1>3 DEF Moves
<1>4. CASE playbackCapturing' = playbackCapturing /\ (Owes(rep[r]) => Owes(q))
  <2>1. PICK s \in Reply : Owes(rep[s])
    BY <1>2, <1>4 DEF Owed
  <2>2. QED
    BY <1>4, <2>1 DEF Moves
<1>5. QED
  BY <1>2, <1>3, <1>4
(* TypeOK in parts.                                                        *)
OutputOK ==
    /\ audioOutputPaused \in BOOLEAN
    /\ audioOutputWaiters \subseteq Reply
    /\ result \in [Reply -> {"none", "go", "drop"}]

GateOK ==
    closed \in BOOLEAN /\ publicationActive \in Nat /\ publicationDone \in BOOLEAN

PlaybackOK ==
    /\ playbackCapturing \in BOOLEAN
    /\ playbackSegmentsCount \in Nat /\ playbackFinishedCount \in Nat
    /\ playbackWaiters \subseteq Reply

ClosingOK ==
    /\ encoder \in BOOLEAN /\ forced \in BOOLEAN /\ bounded \in BOOLEAN
    /\ shutdown \in {"none", "drain", "drop", "finish", "done"}

RepOK == rep \in [Reply -> Flags]

LEMMA TypeParts ==
    TypeOK <=> RepOK /\ OutputOK /\ GateOK /\ PlaybackOK /\ ClosingOK
BY DEF TypeOK, RepOK, OutputOK, GateOK, PlaybackOK, ClosingOK

LEMMA TypePartsNext ==
    TypeOK' <=> RepOK' /\ OutputOK' /\ GateOK' /\ PlaybackOK' /\ ClosingOK'
BY DEF TypeOK, RepOK, OutputOK, GateOK, PlaybackOK, ClosingOK

LEMMA UnchangedTypes ==
    /\ OutputOK /\ UNCHANGED output => OutputOK'
    /\ GateOK /\ UNCHANGED gate => GateOK'
    /\ ClosingOK /\ UNCHANGED closing => ClosingOK'
    /\ PlaybackOK /\ (UNCHANGED playback \/ StartPlayback) => PlaybackOK'
<1>1. OutputOK /\ UNCHANGED output => OutputOK'
  BY DEF OutputOK, output
<1>2. GateOK /\ UNCHANGED gate => GateOK'
  BY DEF GateOK, gate
<1>3. ClosingOK /\ UNCHANGED closing => ClosingOK'
  BY DEF ClosingOK, closing
<1>4. PlaybackOK /\ UNCHANGED playback => PlaybackOK'
  BY DEF PlaybackOK, playback, segment
<1>5. PlaybackOK /\ StartPlayback => PlaybackOK'
  BY DEF PlaybackOK, StartPlayback
<1>6. QED
  BY <1>1, <1>2, <1>3, <1>4, <1>5

LEMMA FinishTypes ==
    ASSUME TypeOK, FinishPlayback
    PROVE  PlaybackOK'
<1>1. PlaybackOK
  BY TypeParts
<1>2. CASE playbackFinishedCount >= playbackSegmentsCount
  BY <1>1, <1>2, UnchangedTypes DEF FinishPlayback
<1>3. CASE ~(playbackFinishedCount >= playbackSegmentsCount)
  <2>1. /\ playbackCapturing' = FALSE /\ playbackWaiters' = {}
        /\ playbackFinishedCount' = playbackFinishedCount + 1
        /\ playbackSegmentsCount' = playbackSegmentsCount
    BY <1>3 DEF FinishPlayback
  <2>2. playbackCapturing' \in BOOLEAN
    BY <2>1, Zenon
  <2>3. playbackSegmentsCount' \in Nat /\ playbackFinishedCount' \in Nat
    BY <1>1, <2>1 DEF PlaybackOK
  <2>4. playbackWaiters' \subseteq Reply
    BY <2>1
  <2>5. QED
    BY <2>2, <2>3, <2>4 DEF PlaybackOK
<1>4. QED
  BY <1>2, <1>3

LEMMA MovesTypes == \A r, q : Moves(r, q) => RepOK'
BY DEF Moves, RepOK

-----------------------------------------------------------------------------
(* The steps of a reply keep the invariant.                                *)

(* A reply that moves on its side of the gate, with no wait begun or ended *)
(* and no debt forgotten.                                                  *)
LEMMA MoveKeeps ==
    ASSUME IInv, NEW r \in Reply, NEW q, Moves(r, q),
           rep[r].pc \in PublishAt <=> q.pc \in PublishAt,
           rep[r].pc = "held" <=> q.pc = "held",
           rep[r].pc # "waiting" \/ (q.pc = rep[r].pc /\ q.target = rep[r].target),
           UNCHANGED <<output, gate, closing>>,
           UNCHANGED playback \/ StartPlayback,
           Is(r, "pipeline") => \/ UNCHANGED playback /\ (Owes(rep[r]) => Owes(q))
                                \/ Owes(q)
    PROVE  IInv'
<1>1. TypeOK'
  BY TypeParts, TypePartsNext, UnchangedTypes, MovesTypes DEF IInv
<1>2. DrainedIsEmpty'
  BY StaysCounted DEF IInv
<1>3. HeldByPause' /\ AnsweredIsHeld'
  BY StaysUnheld DEF IInv
<1>4. WaitsForOpenSegment'
  BY StaysUnlisted, NotWaiting DEF IInv
<1>5. ClosedInOrder'
  BY DEF IInv, ClosedInOrder, gate, closing
<1>6. UNCHANGED playback => playbackCapturing' = playbackCapturing
  BY DEF playback, segment
<1>7. Owed'
  BY <1>6, StaysOwed DEF IInv
<1>8. QED
  BY <1>1, <1>2, <1>3, <1>4, <1>5, <1>7 DEF IInv

(* PublishAudio returns.                                                   *)
LEMMA LeaveKeeps ==
    ASSUME IInv, NEW r \in Reply, NEW ret \in {"ok", "cancel", "error"},
           Leave(r, ret), rep[r].pc \in PublishAt,
           UNCHANGED closing, UNCHANGED playback \/ StartPlayback
    PROVE  /\ \E q : Moves(r, q) /\ q.pc \notin PublishAt
           /\ publicationActive' \in Nat /\ publicationDone' \in BOOLEAN /\ closed' \in BOOLEAN
           /\ DrainedIsEmpty' /\ WaitsForOpenSegment' /\ ClosedInOrder' /\ Owed'
<1>1. PICK q : /\ Moves(r, q)
               /\ q.pc \in {"loop", "check", "over", "clear", "flush"}
               /\ Is(r, "pipeline") => Owes(q)
  BY ReturnedMoves DEF IInv, Leave
<1>2. q.pc \notin PublishAt
  BY <1>1 DEF PublishAt
<1>3. DrainedIsEmpty' /\ (publicationDone => publicationDone')
  BY <1>1, <1>2, LeavesCounted DEF IInv, Leave
<1>4. r \notin playbackWaiters
  BY NotWaiting DEF IInv, PublishAt
<1>5. WaitsForOpenSegment'
  BY <1>1, <1>4, StaysUnlisted DEF IInv
<1>6. ClosedInOrder'
  BY <1>3 DEF IInv, ClosedInOrder, closing
<1>7. Owed'
  BY <1>1, StaysOwed DEF IInv
<1>8. publicationActive' \in Nat /\ publicationDone' \in BOOLEAN /\ closed' \in BOOLEAN
  BY DEF IInv, TypeOK, Leave, OneLess, SignalDrained
<1>9. QED
  BY <1>1, <1>2, <1>3, <1>5, <1>6, <1>7, <1>8

LEMMA LeaveUnheldKeeps ==
    ASSUME IInv, NEW r \in Reply, NEW ret \in {"ok", "cancel", "error"},
           Leave(r, ret), rep[r].pc \in PublishAt \ {"held"},
           UNCHANGED <<output, closing>>, UNCHANGED playback \/ StartPlayback
    PROVE  IInv'
<1>1. PICK q : Moves(r, q) /\ q.pc \notin PublishAt
  BY LeaveKeeps
<1>2. DrainedIsEmpty' /\ WaitsForOpenSegment' /\ ClosedInOrder' /\ Owed'
  BY LeaveKeeps
<1>3. HeldByPause' /\ AnsweredIsHeld'
  BY <1>1, StaysUnheld DEF IInv, PublishAt
<1>4. publicationActive' \in Nat /\ publicationDone' \in BOOLEAN /\ closed' \in BOOLEAN
  BY LeaveKeeps
<1>5. TypeOK'
  BY <1>1, <1>4, TypeParts, TypePartsNext, UnchangedTypes, MovesTypes DEF IInv, GateOK
<1>6. QED
  BY <1>2, <1>3, <1>5 DEF IInv

LEMMA LeaveHeldKeeps ==
    ASSUME IInv, NEW r \in Reply, NEW ret \in {"ok", "cancel", "error"},
           Leave(r, ret), rep[r].pc = "held",
           result' = [result EXCEPT ![r] = "none"],
           audioOutputWaiters' = audioOutputWaiters \ {r},
           UNCHANGED <<audioOutputPaused, closing, playback>>
    PROVE  IInv'
<1>0. rep[r].pc \in PublishAt
  BY DEF PublishAt
<1>1. PICK q : Moves(r, q) /\ q.pc \notin PublishAt
  BY <1>0, LeaveKeeps
<1>2. DrainedIsEmpty' /\ WaitsForOpenSegment' /\ ClosedInOrder' /\ Owed'
  BY <1>0, LeaveKeeps
<1>3. HeldByPause' /\ AnsweredIsHeld'
  BY <1>1, LeavesHeld DEF IInv, PublishAt
<1>4. publicationActive' \in Nat /\ publicationDone' \in BOOLEAN /\ closed' \in BOOLEAN
  BY <1>0, LeaveKeeps
<1>5. OutputOK'
  BY TypeParts DEF IInv, OutputOK
<1>6. TypeOK'
  BY <1>1, <1>4, <1>5, TypeParts, TypePartsNext, UnchangedTypes, MovesTypes DEF IInv, GateOK
<1>7. QED
  BY <1>2, <1>3, <1>6 DEF IInv
LEMMA LoopKeeps ==
    ASSUME IInv, NEW r \in Reply,
           BeginPublication(r) \/ Discard(r) \/ StreamEnds(r) \/ LoopCancelled(r)
    PROVE  IInv'
<1>0. TypeOK /\ rep[r] \in Flags /\ rep \in [Reply -> Flags] /\ rep[r].pc = "loop" /\ r \notin playbackWaiters
  BY NotWaiting DEF IInv, TypeOK, BeginPublication, EnterGate, MayPublish, Discard, StreamEnds,
      LoopCancelled, At
<1>1. CASE BeginPublication(r) /\ ~closed
  <2> DEFINE q == [rep[r] EXCEPT !.pc = "subscribed", !.left = @ - 1]
  <2>1. EnterGate(r) /\ rep[r].left > 0
    BY <1>1 DEF BeginPublication, EnterGate, MayPublish
  <2>2. q \in Flags /\ q.kind = rep[r].kind /\ q.pc = "subscribed" /\ q.sent = rep[r].sent
    <3>1. rep[r].left - 1 \in 0..Frames
      BY <1>0, <2>1, FlagsOf, RoomOutputAssumption
    <3>2. "subscribed" \in Places
      BY DEF Places, PublishAt
    <3>3. QED
      BY <1>0, <3>1, <3>2 DEF Flags
  <2>3. rep' = [rep EXCEPT ![r] = q]
    BY <1>0, <2>1 DEF EnterGate
  <2>4. Moves(r, q)
    BY <1>0, <2>2, <2>3 DEF Moves
  <2>5. /\ UNCHANGED <<output, playback, closing, closed, publicationDone>>
        /\ publicationActive' = publicationActive + 1
    BY <2>1 DEF EnterGate
  <2>6. DrainedIsEmpty'
    BY <1>0, <1>1, <2>2, <2>4, <2>5, EntersCounted DEF IInv, PublishAt
  <2>7. HeldByPause' /\ AnsweredIsHeld'
    BY <1>0, <2>2, <2>4, <2>5, StaysUnheld DEF IInv
  <2>8. WaitsForOpenSegment'
    BY <1>0, <2>4, <2>5, StaysUnlisted DEF IInv
  <2>9. ClosedInOrder'
    BY <2>5 DEF IInv, ClosedInOrder, closing
  <2>10. Owes(rep[r]) => Owes(q)
    BY <1>0, <2>2 DEF Owes, PublishAt
  <2>11. Owed'
    BY <1>0, <2>4, <2>5, <2>10, StaysOwed DEF IInv, playback, segment
  <2>12. GateOK'
    BY <1>0, <2>5 DEF TypeOK, GateOK
  <2>13. TypeOK'
    BY <1>0, <2>4, <2>5, <2>12, TypeParts, TypePartsNext, UnchangedTypes, MovesTypes
  <2>14. QED
    BY <2>6, <2>7, <2>8, <2>9, <2>11, <2>13 DEF IInv
<1>2. CASE BeginPublication(r) /\ closed
  <2> DEFINE q == [rep[r] EXCEPT !.left = @ - 1, !.sent = TRUE]
  <2>1. rep[r].left > 0 /\ UNCHANGED <<output, gate, playback, closing>>
    BY <1>2 DEF BeginPublication, MayPublish
  <2>2. q \in Flags /\ q.kind = rep[r].kind /\ q.pc = "loop" /\ q.sent
    <3>1. rep[r].left - 1 \in 0..Frames
      BY <1>0, <2>1, FlagsOf, RoomOutputAssumption
    <3>2. QED
      BY <1>0, <3>1 DEF Flags
  <2>3. rep' = [rep EXCEPT ![r] = q]
    BY <1>0, <1>2 DEF BeginPublication
  <2>4. Moves(r, q)
    BY <1>0, <2>2, <2>3 DEF Moves
  <2>5. Owes(q)
    BY <2>2 DEF Owes
  <2>6. QED
    BY <1>0, <2>1, <2>2, <2>4, <2>5, MoveKeeps
<1>3. CASE Discard(r)
  <2>1. Goto(r, "check") /\ rep[r].cut /\ UNCHANGED <<output, gate, playback, closing>>
    BY <1>3 DEF Discard
  <2> DEFINE q == Moved(rep[r], "check")
  <2>2. Moves(r, q) /\ q.pc = "check" /\ q.cut = rep[r].cut /\ q.sent = rep[r].sent
    BY <1>0, <2>1, GotoMoves, MovedIs DEF Places
  <2>3. Owes(rep[r]) => Owes(q)
    BY <1>0, <2>1, <2>2 DEF Owes
  <2>4. QED
    BY <1>0, <2>1, <2>2, <2>3, MoveKeeps DEF PublishAt
<1>4. CASE StreamEnds(r)
  <2>1. UNCHANGED <<output, gate, playback, closing>>
    BY <1>4 DEF StreamEnds
  <2>2. CASE Is(r, "pipeline")
    <3>1. PICK q : Moves(r, q) /\ q.pc = "flush"
      BY <1>0, <1>4, <2>2, ThenMoves DEF StreamEnds, Is
    <3>2. QED
      BY <1>0, <2>1, <3>1, MoveKeeps DEF PublishAt, Owes
  <2>3. CASE ~Is(r, "pipeline")
    <3>1. PICK p \in {"await", "check", "over"} : Goto(r, p)
      BY <1>4, <2>3, FlagsOf, <1>0 DEF StreamEnds, Is
    <3>2. Moves(r, Moved(rep[r], p)) /\ Moved(rep[r], p).pc = p
      BY <1>0, <3>1, GotoMoves, MovedIs DEF Places
    <3>3. QED
      BY <1>0, <2>1, <2>3, <3>2, MoveKeeps DEF PublishAt
  <2>4. QED
    BY <2>2, <2>3
<1>5. CASE LoopCancelled(r)
  <2>1. UNCHANGED <<output, gate, playback, closing>>
    BY <1>5 DEF LoopCancelled
  <2>2. CASE Is(r, "pipeline")
    <3>1. PICK q : Moves(r, q) /\ q.pc = "clear"
      BY <1>0, <1>5, <2>2, ThenMoves DEF LoopCancelled
    <3>2. QED
      BY <1>0, <2>1, <3>1, MoveKeeps DEF PublishAt, Owes
  <2>3. CASE ~Is(r, "pipeline")
    <3>1. Goto(r, "over")
      BY <1>5, <2>3 DEF LoopCancelled
    <3>2. Moves(r, Moved(rep[r], "over")) /\ Moved(rep[r], "over").pc = "over"
      BY <1>0, <3>1, GotoMoves, MovedIs DEF Places
    <3>3. QED
      BY <1>0, <2>1, <2>3, <3>2, MoveKeeps DEF PublishAt
  <2>4. QED
    BY <2>2, <2>3
<1>6. QED
  BY <1>1, <1>2, <1>3, <1>4, <1>5
LEMMA PublishKeeps ==
    ASSUME IInv, NEW r \in Reply,
           \/ SubscriptionReady(r) \/ CheckPaused(r)
           \/ HeldReleased(r) \/ HeldCancelled(r) \/ Write(r)
    PROVE  IInv'
<1>0. TypeOK /\ rep[r] \in Flags /\ rep \in [Reply -> Flags]
  BY DEF IInv, TypeOK
<1>1. CASE SubscriptionReady(r)
  <2>1. rep[r].pc = "subscribed" /\ UNCHANGED <<output, playback, closing>>
    BY <1>1 DEF SubscriptionReady, At
  <2>2. CASE Goto(r, "resume") /\ UNCHANGED gate
    <3> DEFINE q == Moved(rep[r], "resume")
    <3>1. Moves(r, q) /\ q.pc = "resume" /\ q.sent = rep[r].sent
      BY <1>0, <2>2, GotoMoves, MovedIs DEF Places, PublishAt
    <3>2. Owes(rep[r]) => Owes(q)
      BY <2>1, <3>1 DEF Owes, PublishAt
    <3>3. QED
      BY <2>1, <2>2, <3>1, <3>2, MoveKeeps DEF PublishAt
  <2>3. CASE \E ret \in {"ok", "cancel"} : Leave(r, ret)
    BY <2>1, <2>3, LeaveUnheldKeeps DEF PublishAt
  <2>4. QED
    BY <1>1, <2>2, <2>3 DEF SubscriptionReady
<1>2. CASE CheckPaused(r) /\ ~audioOutputPaused
  <2>1. rep[r].pc = "resume" /\ Goto(r, "write") /\ UNCHANGED <<output, gate, playback, closing>>
    BY <1>2 DEF CheckPaused, At
  <2> DEFINE q == Moved(rep[r], "write")
  <2>2. Moves(r, q) /\ q.pc = "write" /\ q.sent = rep[r].sent
    BY <1>0, <2>1, GotoMoves, MovedIs DEF Places, PublishAt
  <2>3. Owes(rep[r]) => Owes(q)
    BY <2>1, <2>2 DEF Owes, PublishAt
  <2>4. QED
    BY <2>1, <2>2, <2>3, MoveKeeps DEF PublishAt
<1>3. CASE CheckPaused(r) /\ audioOutputPaused
  <2>1. /\ rep[r].pc = "resume" /\ Goto(r, "held")
        /\ audioOutputWaiters' = audioOutputWaiters \cup {r}
        /\ UNCHANGED <<audioOutputPaused, result, gate, playback, closing>>
    BY <1>3 DEF CheckPaused, Hold, At
  <2> DEFINE q == Moved(rep[r], "held")
  <2>2. Moves(r, q) /\ q.pc = "held" /\ q.sent = rep[r].sent
    BY <1>0, <2>1, GotoMoves, MovedIs DEF Places, PublishAt
  <2>3. Owes(rep[r]) => Owes(q)
    BY <2>1, <2>2 DEF Owes, PublishAt
  <2>4. DrainedIsEmpty'
    BY <1>0, <2>1, <2>2, StaysCounted DEF IInv, PublishAt
  <2>5. result[r] = "none"
    BY <1>0, <2>1 DEF IInv, AnsweredIsHeld, At
  <2>6. \A s \in Reply \ {r} : At(s, "held")' <=> At(s, "held")
    BY <2>2 DEF Moves, At
  <2>7. At(r, "held")'
    BY <2>2 DEF Moves, At
  <2>8. {s \in Reply : At(s, "held")' /\ result'[s] = "none"}
           = {s \in Reply : At(s, "held") /\ result[s] = "none"} \cup {r}
    BY <2>1, <2>5, <2>6, <2>7
  <2>9. HeldByPause'
    BY <1>3, <2>1, <2>8 DEF IInv, HeldByPause
  <2>10. AnsweredIsHeld'
    BY <2>1, <2>6, <2>7 DEF IInv, AnsweredIsHeld
  <2>11. r \notin playbackWaiters
    BY <2>1, NotWaiting DEF IInv
  <2>12. WaitsForOpenSegment'
    BY <1>0, <2>1, <2>2, <2>11, StaysUnlisted DEF IInv
  <2>13. ClosedInOrder'
    BY <2>1 DEF IInv, ClosedInOrder, gate, closing
  <2>14. Owed'
    BY <1>0, <2>1, <2>2, <2>3, StaysOwed DEF IInv, playback, segment
  <2>15. OutputOK'
    BY <1>0, <2>1 DEF TypeOK, OutputOK
  <2>16. TypeOK'
    BY <1>0, <2>1, <2>2, <2>15, TypeParts, TypePartsNext, UnchangedTypes, MovesTypes
  <2>17. QED
    BY <2>4, <2>9, <2>10, <2>12, <2>13, <2>14, <2>16 DEF IInv
<1>4. CASE HeldReleased(r)
  <2>1. /\ rep[r].pc = "held" /\ result[r] # "none"
        /\ result' = [result EXCEPT ![r] = "none"]
        /\ UNCHANGED <<audioOutputPaused, audioOutputWaiters, playback, closing>>
    BY <1>4 DEF HeldReleased, At
  <2>2. r \notin audioOutputWaiters
    BY <2>1 DEF IInv, HeldByPause
  <2>3. audioOutputWaiters' = audioOutputWaiters \ {r}
    BY <2>1, <2>2
  <2>4. CASE Goto(r, "write") /\ UNCHANGED gate
    <3> DEFINE q == Moved(rep[r], "write")
    <3>1. Moves(r, q) /\ q.pc = "write" /\ q.sent = rep[r].sent
      BY <1>0, <2>4, GotoMoves, MovedIs DEF Places, PublishAt
    <3>2. Owes(rep[r]) => Owes(q)
      BY <2>1, <3>1 DEF Owes, PublishAt
    <3>3. DrainedIsEmpty'
      BY <1>0, <2>1, <2>4, <3>1, StaysCounted DEF IInv, PublishAt
    <3>4. HeldByPause' /\ AnsweredIsHeld'
      BY <1>0, <2>1, <2>3, <3>1, LeavesHeld DEF IInv
    <3>5. r \notin playbackWaiters
      BY <2>1, NotWaiting DEF IInv
    <3>6. WaitsForOpenSegment'
      BY <1>0, <2>1, <3>1, <3>5, StaysUnlisted DEF IInv
    <3>7. ClosedInOrder'
      BY <2>1, <2>4 DEF IInv, ClosedInOrder, gate, closing
    <3>8. Owed'
      BY <1>0, <2>1, <3>1, <3>2, StaysOwed DEF IInv, playback, segment
    <3>9. OutputOK'
      BY <1>0, <2>1 DEF TypeOK, OutputOK
    <3>10. TypeOK'
      BY <1>0, <2>1, <2>4, <3>1, <3>9, TypeParts, TypePartsNext, UnchangedTypes, MovesTypes
    <3>11. QED
      BY <3>3, <3>4, <3>6, <3>7, <3>8, <3>10 DEF IInv
  <2>5. CASE Leave(r, "ok")
    BY <2>1, <2>3, <2>5, LeaveHeldKeeps
  <2>6. QED
    BY <1>4, <2>4, <2>5 DEF HeldReleased
<1>5. CASE HeldCancelled(r)
  BY <1>5, LeaveHeldKeeps DEF HeldCancelled, At
<1>6. CASE Write(r)
  <2>1. rep[r].pc = "write" /\ UNCHANGED <<output, closing>> /\ (UNCHANGED playback \/ StartPlayback)
    BY <1>6 DEF Write, At
  <2>2. PICK ret \in {"ok", "cancel", "error"} : Leave(r, ret)
    BY <1>6 DEF Write
  <2>3. QED
    BY <2>1, <2>2, LeaveUnheldKeeps DEF PublishAt
<1>7. QED
  BY <1>1, <1>2, <1>3, <1>4, <1>5, <1>6

LEMMA PlayoutKeeps ==
    ASSUME IInv, NEW r \in Reply,
           \/ FlushTail(r) \/ Finish(r) \/ ClearBuffer(r) \/ CheckInterrupted(r)
           \/ Await(r) \/ AwaitAgain(r) \/ AwaitCancelled(r)
    PROVE  IInv'
<1>0. TypeOK /\ rep[r] \in Flags /\ rep \in [Reply -> Flags]
  BY DEF IInv, TypeOK
<1>a. rep[r].after \in {"check", "await", "over"} /\ rep[r].after \in Places
  BY <1>0, FlagsOf DEF Places
<1>1. CASE FlushTail(r)
  <2>1. /\ rep[r].pc = "flush" /\ Then(r, "finish", rep[r].after)
        /\ UNCHANGED <<output, gate, closing>> /\ (UNCHANGED playback \/ StartPlayback)
    BY <1>1 DEF FlushTail, At
  <2>2. PICK q : Moves(r, q) /\ q.pc = "finish"
    BY <1>0, <1>a, <2>1, ThenMoves
  <2>3. QED
    BY <2>1, <2>2, MoveKeeps DEF Owes, PublishAt
<1>2. CASE Finish(r)
  <2>1. /\ rep[r].pc = "finish" /\ FinishPlayback /\ Goto(r, rep[r].after)
        /\ UNCHANGED <<output, gate, closing>>
    BY <1>2 DEF Finish, At
  <2> DEFINE q == Moved(rep[r], rep[r].after)
  <2>2. Moves(r, q) /\ q.pc \in {"check", "await", "over"}
    BY <1>0, <1>a, <2>1, GotoMoves, MovedIs
  <2>3. DrainedIsEmpty'
    BY <1>0, <2>1, <2>2, StaysCounted DEF IInv, PublishAt
  <2>4. HeldByPause' /\ AnsweredIsHeld'
    BY <2>1, <2>2, StaysUnheld DEF IInv
  <2>5. WaitsForOpenSegment' /\ ~playbackCapturing'
    BY <1>0, <2>1, <2>2, NotWaiting, FinishKeepsWaits DEF IInv
  <2>6. ClosedInOrder'
    BY <2>1 DEF IInv, ClosedInOrder, gate, closing
  <2>7. Owed'
    BY <2>5 DEF Owed
  <2>8. PlaybackOK'
    BY <1>0, <2>1, FinishTypes
  <2>9. TypeOK'
    BY <1>0, <2>1, <2>2, <2>8, TypeParts, TypePartsNext, UnchangedTypes, MovesTypes
  <2>10. QED
    BY <2>3, <2>4, <2>5, <2>6, <2>7, <2>9 DEF IInv
<1>3. CASE ClearBuffer(r)
  <2>1. /\ rep[r].pc = "clear" /\ DropPaused /\ FinishPlayback /\ Goto(r, rep[r].after)
        /\ UNCHANGED <<gate, closing>>
    BY <1>3 DEF ClearBuffer, At
  <2> DEFINE q == Moved(rep[r], rep[r].after)
  <2>2. Moves(r, q) /\ q.pc \in {"check", "await", "over"}
    BY <1>0, <1>a, <2>1, GotoMoves, MovedIs
  <2>3. DrainedIsEmpty'
    BY <1>0, <2>1, <2>2, StaysCounted DEF IInv, PublishAt
  <2>4. \A s \in Reply : At(s, "held")' <=> At(s, "held")
    BY <2>1, <2>2 DEF Moves, At
  <2>5. HeldByPause' /\ AnsweredIsHeld' /\ OutputOK'
    BY <1>0, <2>1, <2>4, DropKeeps DEF IInv, OutputOK
  <2>6. WaitsForOpenSegment' /\ ~playbackCapturing'
    BY <1>0, <2>1, <2>2, NotWaiting, FinishKeepsWaits DEF IInv
  <2>7. ClosedInOrder'
    BY <2>1 DEF IInv, ClosedInOrder, gate, closing
  <2>8. Owed'
    BY <2>6 DEF Owed
  <2>9. PlaybackOK'
    BY <1>0, <2>1, FinishTypes
  <2>10. TypeOK'
    BY <1>0, <2>1, <2>2, <2>5, <2>9, TypeParts, TypePartsNext, UnchangedTypes, MovesTypes
  <2>11. QED
    BY <2>3, <2>5, <2>6, <2>7, <2>8, <2>10 DEF IInv
<1>4. CASE CheckInterrupted(r)
  <2>1. rep[r].pc = "check" /\ UNCHANGED <<output, gate, playback, closing>>
    BY <1>4 DEF CheckInterrupted, At
  <2>2. CASE rep[r].cut /\ (rep[r].sent \/ Is(r, "realtime"))
    <3> DEFINE q == [rep[r] EXCEPT !.pc = "clear", !.after = "await", !.cleared = TRUE]
    <3>1. q \in Flags /\ q.kind = rep[r].kind /\ q.pc = "clear"
      BY <1>0 DEF Flags, Places
    <3>2. rep' = [rep EXCEPT ![r] = q]
      BY <1>0, <1>4, <2>2 DEF CheckInterrupted
    <3>3. Moves(r, q)
      BY <1>0, <3>1, <3>2 DEF Moves
    <3>4. QED
      BY <2>1, <3>1, <3>3, MoveKeeps DEF Owes, PublishAt
  <2>3. CASE ~(rep[r].cut /\ (rep[r].sent \/ Is(r, "realtime")))
    <3> DEFINE q == Moved(rep[r], "over")
    <3>1. Moves(r, q) /\ q.pc = "over"
      BY <1>0, <1>4, <2>3, GotoMoves, MovedIs DEF CheckInterrupted, Places
    <3>2. ~Owes(rep[r])
      BY <2>1, <2>3 DEF Owes, PublishAt
    <3>3. QED
      BY <2>1, <3>1, <3>2, MoveKeeps DEF PublishAt
  <2>4. QED
    BY <2>2, <2>3
<1>b. AfterPlayout(r) \in {"check", "over"} /\ AfterPlayout(r) \in Places
  BY DEF AfterPlayout, Places
<1>5. ASSUME Goto(r, AfterPlayout(r)) \/ Goto(r, "check"), rep[r].pc \in {"await", "waiting"},
             playbackWaiters' = playbackWaiters \ {r},
             UNCHANGED <<output, gate, segment, closing>>
      PROVE  IInv'
  <2>1. PICK p \in {"check", "over"} : Goto(r, p)
    BY <1>5, <1>b
  <2> DEFINE q == Moved(rep[r], p)
  <2>2. Moves(r, q) /\ q.pc = p
    BY <1>0, <2>1, GotoMoves, MovedIs DEF Places
  <2>3. ~Owes(rep[r])
    BY <1>5 DEF Owes, PublishAt
  <2>4. DrainedIsEmpty'
    BY <1>0, <1>5, <2>2, StaysCounted DEF IInv, PublishAt
  <2>5. HeldByPause' /\ AnsweredIsHeld'
    BY <1>5, <2>2, StaysUnheld DEF IInv
  <2>6. WaitsForOpenSegment'
    BY <1>5, <2>2 DEF IInv, WaitsForOpenSegment, segment, Moves, At, TypeOK
  <2>7. ClosedInOrder'
    BY <1>5 DEF IInv, ClosedInOrder, gate, closing
  <2>8. Owed'
    BY <1>0, <1>5, <2>2, <2>3, StaysOwed DEF IInv, segment
  <2>9. PlaybackOK'
    BY <1>0, <1>5 DEF TypeOK, PlaybackOK, segment
  <2>10. TypeOK'
    BY <1>0, <1>5, <2>2, <2>9, TypeParts, TypePartsNext, UnchangedTypes, MovesTypes
  <2>11. QED
    BY <2>4, <2>5, <2>6, <2>7, <2>8, <2>10 DEF IInv
<1>6. ASSUME NEW q, Moves(r, q), q.pc = "waiting", rep[r].pc \in {"await", "waiting"},
             playbackFinishedCount < q.target,
             playbackWaiters' = playbackWaiters \cup {r},
             UNCHANGED <<output, gate, segment, closing>>
      PROVE  IInv'
  <2>3. ~Owes(rep[r])
    BY <1>6 DEF Owes, PublishAt
  <2>4. DrainedIsEmpty'
    BY <1>0, <1>6, StaysCounted DEF IInv, PublishAt
  <2>5. HeldByPause' /\ AnsweredIsHeld'
    BY <1>6, StaysUnheld DEF IInv
  <2>6. WaitsForOpenSegment'
    BY <1>6 DEF IInv, WaitsForOpenSegment, segment, Moves, At, TypeOK
  <2>7. ClosedInOrder'
    BY <1>6 DEF IInv, ClosedInOrder, gate, closing
  <2>8. Owed'
    BY <1>0, <1>6, <2>3, StaysOwed DEF IInv, segment
  <2>9. PlaybackOK'
    BY <1>0, <1>6 DEF TypeOK, PlaybackOK, segment
  <2>10. TypeOK'
    BY <1>0, <1>6, <2>9, TypeParts, TypePartsNext, UnchangedTypes, MovesTypes
  <2>11. QED
    BY <2>4, <2>5, <2>6, <2>7, <2>8, <2>10 DEF IInv
<1>7. CASE Await(r)
  <2>1. rep[r].pc = "await" /\ UNCHANGED <<output, gate, segment, closing>>
    BY <1>7 DEF Await, At
  <2>2. r \notin playbackWaiters
    BY <2>1, NotWaiting DEF IInv
  <2>3. CASE Goto(r, AfterPlayout(r)) /\ UNCHANGED playbackWaiters
    BY <1>5, <2>1, <2>2, <2>3
  <2>4. CASE ~(Goto(r, AfterPlayout(r)) /\ UNCHANGED playbackWaiters)
    <3> DEFINE q == [rep[r] EXCEPT !.pc = "waiting", !.target = playbackSegmentsCount]
    <3>1. /\ ~(playbackFinishedCount >= playbackSegmentsCount)
          /\ rep' = [rep EXCEPT ![r].pc = "waiting", ![r].target = playbackSegmentsCount]
          /\ playbackWaiters' = playbackWaiters \cup {r}
      BY <1>7, <2>4 DEF Await
    <3>2. q \in Flags /\ q.kind = rep[r].kind /\ q.pc = "waiting" /\ q.target = playbackSegmentsCount
      BY <1>0 DEF Flags, Places, TypeOK
    <3>3. rep' = [rep EXCEPT ![r] = q]
      BY <1>0, <3>1
    <3>4. Moves(r, q)
      BY <1>0, <3>2, <3>3 DEF Moves
    <3>5. playbackFinishedCount < q.target
      BY <1>0, <3>1, <3>2 DEF TypeOK
    <3>6. QED
      BY <1>6, <2>1, <3>1, <3>2, <3>4, <3>5
  <2>5. QED
    BY <2>3, <2>4
<1>8. CASE AwaitAgain(r)
  <2>1. /\ rep[r].pc = "waiting" /\ r \notin playbackWaiters
        /\ UNCHANGED <<output, gate, segment, closing>>
    BY <1>8 DEF AwaitAgain, At
  <2>2. CASE playbackFinishedCount >= rep[r].target
    BY <1>5, <1>8, <2>1, <2>2 DEF AwaitAgain
  <2>3. CASE ~(playbackFinishedCount >= rep[r].target)
    <3>1. rep' = rep /\ playbackWaiters' = playbackWaiters \cup {r}
      BY <1>8, <2>3 DEF AwaitAgain
    <3>2. Moves(r, rep[r])
      BY <1>0, <3>1 DEF Moves
    <3>3. playbackFinishedCount < rep[r].target
      BY <1>0, <2>3, FlagsOf DEF TypeOK
    <3>4. QED
      BY <1>6, <2>1, <3>1, <3>2, <3>3
  <2>4. QED
    BY <2>2, <2>3
<1>9. CASE AwaitCancelled(r)
  BY <1>5, <1>9 DEF AwaitCancelled, At
<1>10. QED
  BY <1>1, <1>2, <1>3, <1>4, <1>7, <1>8, <1>9
(* An interruption and its watcher change only the flags of a reply.       *)
LEMMA FlagsKeep ==
    ASSUME IInv, NEW r \in Reply, Interrupt(r) \/ CancelReply(r)
    PROVE  IInv'
<1>0. TypeOK /\ rep[r] \in Flags /\ rep \in [Reply -> Flags]
  BY DEF IInv, TypeOK
<1>1. CASE Interrupt(r)
  <2> DEFINE q == [rep[r] EXCEPT !.cut = TRUE]
  <2>1. /\ q \in Flags /\ q.kind = rep[r].kind /\ q.pc = rep[r].pc
        /\ q.target = rep[r].target /\ q.sent = rep[r].sent /\ q.cut
    BY <1>0 DEF Flags
  <2>2. rep' = [rep EXCEPT ![r] = q] /\ UNCHANGED <<output, gate, playback, closing>>
    BY <1>0, <1>1 DEF Interrupt
  <2>3. Moves(r, q)
    BY <1>0, <2>1, <2>2 DEF Moves
  <2>4. Owes(rep[r]) => Owes(q)
    BY <2>1 DEF Owes
  <2>5. QED
    BY <2>1, <2>2, <2>3, <2>4, MoveKeeps
<1>2. CASE CancelReply(r)
  <2> DEFINE q == [rep[r] EXCEPT !.gone = TRUE]
  <2>1. /\ q \in Flags /\ q.kind = rep[r].kind /\ q.pc = rep[r].pc
        /\ q.target = rep[r].target /\ q.sent = rep[r].sent /\ q.cut = rep[r].cut
    BY <1>0 DEF Flags
  <2>2. rep' = [rep EXCEPT ![r] = q] /\ UNCHANGED <<output, gate, playback, closing>>
    BY <1>0, <1>2 DEF CancelReply
  <2>3. Moves(r, q)
    BY <1>0, <2>1, <2>2 DEF Moves
  <2>4. Owes(rep[r]) => Owes(q)
    BY <2>1 DEF Owes
  <2>5. QED
    BY <2>1, <2>2, <2>3, <2>4, MoveKeeps
<1>3. QED
  BY <1>1, <1>2

(* A stop of the activity ends the contexts of all its replies.            *)
LEMMA StopKeeps ==
    ASSUME IInv, StopActivity
    PROVE  IInv'
<1>0. TypeOK /\ rep \in [Reply -> Flags]
  BY DEF IInv, TypeOK
<1>1. UNCHANGED <<output, gate, playback, closing>>
  BY DEF StopActivity
<1>2. \A r \in Reply : rep'[r] = rep[r] \/ rep'[r] = [rep[r] EXCEPT !.gone = TRUE]
  BY DEF StopActivity
<1>3. \A r \in Reply : [rep[r] EXCEPT !.gone = TRUE] \in Flags
  BY <1>0 DEF Flags
<1>4. rep' \in [Reply -> Flags]
  <2>1. \A r \in Reply : rep'[r] \in Flags
    BY <1>0, <1>2, <1>3
  <2>2. rep' = [r \in Reply |-> rep'[r]]
    BY DEF StopActivity
  <2>3. QED
    BY <2>1, <2>2
<1>5. \A r \in Reply : /\ rep'[r].pc = rep[r].pc /\ rep'[r].kind = rep[r].kind
                       /\ rep'[r].target = rep[r].target
                       /\ rep'[r].sent = rep[r].sent /\ rep'[r].cut = rep[r].cut
  <2> SUFFICES ASSUME NEW r \in Reply
               PROVE  /\ rep'[r].pc = rep[r].pc /\ rep'[r].kind = rep[r].kind
                      /\ rep'[r].target = rep[r].target
                      /\ rep'[r].sent = rep[r].sent /\ rep'[r].cut = rep[r].cut
    OBVIOUS
  <2>1. CASE rep'[r] = rep[r]
    BY <2>1
  <2>2. CASE rep'[r] = [rep[r] EXCEPT !.gone = TRUE]
    <3>1. rep[r] \in Flags
      BY <1>0
    <3>2. QED
      BY <2>2, <3>1 DEF Flags
  <2>3. QED
    BY <1>2, <2>1, <2>2
<1>6. Inside' = Inside
  BY <1>5 DEF Inside
<1>7. DrainedIsEmpty'
  BY <1>1, <1>6 DEF IInv, DrainedIsEmpty, gate
<1>8. HeldByPause'
  <2>1. {r \in Reply : At(r, "held")' /\ result'[r] = "none"} = {r \in Reply : At(r, "held") /\ result[r] = "none"}
    BY <1>1, <1>5 DEF At, output
  <2>2. QED
    BY <1>1, <2>1 DEF IInv, HeldByPause, output
<1>9. AnsweredIsHeld'
  BY <1>1, <1>5 DEF IInv, AnsweredIsHeld, At, output
<1>10. WaitsForOpenSegment'
  BY <1>0, <1>1, <1>5 DEF IInv, WaitsForOpenSegment, At, playback, segment, TypeOK
<1>11. ClosedInOrder'
  BY <1>1 DEF IInv, ClosedInOrder, gate, closing
<1>12. \A r \in Reply : Owes(rep[r]) => Owes(rep'[r])
  BY <1>5 DEF Owes
<1>13. Pipelines' => Pipelines
  BY <1>5 DEF Pipelines, Is
<1>14. playbackCapturing' = playbackCapturing
  BY <1>1 DEF playback, segment
<1>15. Owed'
  BY <1>12, <1>13, <1>14 DEF IInv, Owed, Owes
<1>16. RepOK'
  BY <1>4 DEF RepOK
<1>17. TypeOK'
  BY <1>0, <1>1, <1>16, TypeParts, TypePartsNext, UnchangedTypes
<1>18. QED
  BY <1>7, <1>8, <1>9, <1>10, <1>11, <1>15, <1>17 DEF IInv

(* Steps that leave the replies alone.                                     *)
LEMMA RepSame ==
    ASSUME IInv, UNCHANGED rep
    PROVE  /\ Inside' = Inside
           /\ \A r \in Reply : At(r, "held")' <=> At(r, "held")
           /\ Owed /\ playbackCapturing' = playbackCapturing => Owed'
           /\ WaitsForOpenSegment /\ UNCHANGED playback => WaitsForOpenSegment'
           /\ HeldByPause /\ AnsweredIsHeld /\ UNCHANGED output => HeldByPause' /\ AnsweredIsHeld'
           /\ RepOK'
<1>1. Inside' = Inside
  BY DEF Inside
<1>2. \A r \in Reply : At(r, "held")' <=> At(r, "held")
  BY DEF At
<1>3. Owed /\ playbackCapturing' = playbackCapturing => Owed'
  BY DEF Owed, Owes, Pipelines, Is
<1>4. WaitsForOpenSegment /\ UNCHANGED playback => WaitsForOpenSegment'
  BY DEF WaitsForOpenSegment, At, playback, segment
<1>5. HeldByPause /\ AnsweredIsHeld /\ UNCHANGED output => HeldByPause' /\ AnsweredIsHeld'
  BY DEF HeldByPause, AnsweredIsHeld, At, output
<1>6. RepOK'
  BY TypeParts DEF IInv, RepOK
<1>7. QED
  BY <1>1, <1>2, <1>3, <1>4, <1>5, <1>6

LEMMA PauseKeeps ==
    ASSUME IInv, PauseAudioOutput \/ ResumeAudioOutput
    PROVE  IInv'
<1>0. TypeOK
  BY DEF IInv
<1>1. UNCHANGED <<rep, gate, playback, closing>>
  BY DEF PauseAudioOutput, ResumeAudioOutput
<1>2. DrainedIsEmpty' /\ ClosedInOrder'
  BY <1>1, RepSame DEF IInv, DrainedIsEmpty, ClosedInOrder, gate, closing
<1>3. WaitsForOpenSegment' /\ Owed' /\ RepOK'
  BY <1>1, RepSame DEF IInv, playback, segment
<1>4. HeldByPause' /\ AnsweredIsHeld' /\ OutputOK'
  <2>1. CASE PauseAudioOutput
    BY <1>0, <2>1 DEF IInv, TypeOK, PauseAudioOutput, HeldByPause, AnsweredIsHeld, OutputOK, At
  <2>2. CASE ResumeAudioOutput
    <3>1. /\ audioOutputPaused' = FALSE /\ audioOutputWaiters' = {} /\ rep' = rep
          /\ result' = [r \in Reply |-> IF r \in audioOutputWaiters THEN "go" ELSE result[r]]
      BY <2>2 DEF ResumeAudioOutput
    <3>2. \A r \in Reply : ~(At(r, "held")' /\ result'[r] = "none")
      BY <3>1 DEF IInv, HeldByPause, At
    <3>3. HeldByPause'
      BY <3>1, <3>2 DEF HeldByPause
    <3>4. AnsweredIsHeld'
      BY <3>1 DEF IInv, AnsweredIsHeld, HeldByPause, At
    <3>5. OutputOK'
      BY <1>0, <3>1 DEF TypeOK, OutputOK
    <3>6. QED
      BY <3>3, <3>4, <3>5
  <2>3. QED
    BY <2>1, <2>2
<1>5. TypeOK'
  BY <1>0, <1>1, <1>3, <1>4, TypeParts, TypePartsNext, UnchangedTypes
<1>6. QED
  BY <1>2, <1>3, <1>4, <1>5 DEF IInv

LEMMA ShutdownKeeps ==
    ASSUME IInv, ShutdownPublications \/ ShutdownStep
    PROVE  IInv'
<1>0. TypeOK
  BY DEF IInv
<1>1. CASE ShutdownPublications
  <2>1. /\ shutdown = "none" /\ closed' = TRUE
        /\ publicationDone' = (publicationDone \/ publicationActive = 0)
        /\ UNCHANGED <<encoder, publicationActive, rep, output, playback>>
    BY <1>1 DEF ShutdownPublications, SignalDrained
  <2>2. Inside' = Inside /\ Owed' /\ WaitsForOpenSegment' /\ HeldByPause' /\ AnsweredIsHeld' /\ RepOK'
    BY <2>1, RepSame DEF IInv, playback, segment
  <2>3. publicationActive = 0 <=> Inside = {}
    BY <1>0, InsideFinite DEF IInv, DrainedIsEmpty
  <2>4. DrainedIsEmpty'
    BY <2>1, <2>2, <2>3 DEF IInv, DrainedIsEmpty
  <2>5. \/ shutdown' = "drain" /\ bounded' \in BOOLEAN /\ forced' = forced
        \/ shutdown' = "drop" /\ forced' = TRUE /\ bounded' = bounded
    BY <1>1 DEF ShutdownPublications
  <2>6. ClosedInOrder'
    BY <2>1, <2>5 DEF IInv, ClosedInOrder
  <2>7. GateOK' /\ ClosingOK'
    BY <1>0, <2>1, <2>5 DEF TypeOK, GateOK, ClosingOK
  <2>8. TypeOK'
    BY <1>0, <2>1, <2>2, <2>7, TypeParts, TypePartsNext, UnchangedTypes
  <2>9. QED
    BY <2>2, <2>4, <2>6, <2>8 DEF IInv
<1>2. CASE PublicationsDrained
  <2>1. /\ shutdown' = "drop"
        /\ (publicationDone /\ UNCHANGED forced) \/ forced' = TRUE
        /\ UNCHANGED <<encoder, bounded, rep, output, gate, playback>>
    BY <1>2 DEF PublicationsDrained
  <2>2. Inside' = Inside /\ Owed' /\ WaitsForOpenSegment' /\ HeldByPause' /\ AnsweredIsHeld' /\ RepOK'
    BY <2>1, RepSame DEF IInv, playback, segment
  <2>3. DrainedIsEmpty'
    BY <2>1, <2>2 DEF IInv, DrainedIsEmpty, gate
  <2>4. encoder
    BY <1>2 DEF IInv, ClosedInOrder, PublicationsDrained
  <2>5. ClosedInOrder'
    BY <2>1, <2>4 DEF ClosedInOrder, gate
  <2>6. ClosingOK'
    BY <1>0, <2>1 DEF TypeOK, ClosingOK
  <2>7. TypeOK'
    BY <1>0, <2>1, <2>2, <2>6, TypeParts, TypePartsNext, UnchangedTypes
  <2>8. QED
    BY <2>2, <2>3, <2>5, <2>7 DEF IInv
<1>3. CASE ShutdownDrops
  <2>1. /\ shutdown = "drop" /\ DropPaused /\ shutdown' = "finish"
        /\ UNCHANGED <<encoder, forced, bounded, rep, gate, playback>>
    BY <1>3 DEF ShutdownDrops
  <2>2. /\ Inside' = Inside /\ Owed' /\ WaitsForOpenSegment' /\ RepOK'
        /\ \A r \in Reply : At(r, "held")' <=> At(r, "held")
    BY <2>1, RepSame DEF IInv, playback, segment
  <2>3. HeldByPause' /\ AnsweredIsHeld' /\ OutputOK'
    BY <1>0, <2>1, <2>2, DropKeeps DEF IInv, OutputOK
  <2>4. DrainedIsEmpty'
    BY <2>1, <2>2 DEF IInv, DrainedIsEmpty, gate
  <2>5. ClosedInOrder'
    BY <2>1 DEF IInv, ClosedInOrder, gate
  <2>6. ClosingOK'
    BY <1>0, <2>1 DEF TypeOK, ClosingOK
  <2>7. TypeOK'
    BY <1>0, <2>1, <2>2, <2>3, <2>6, TypeParts, TypePartsNext, UnchangedTypes
  <2>8. QED
    BY <2>2, <2>3, <2>4, <2>5, <2>7 DEF IInv
<1>4. CASE CloseResources
  <2>1. /\ shutdown = "finish" /\ FinishPlayback /\ encoder' = FALSE /\ shutdown' = "done"
        /\ UNCHANGED <<forced, bounded, rep, output, gate>>
    BY <1>4 DEF CloseResources
  <2>2. Inside' = Inside /\ HeldByPause' /\ AnsweredIsHeld' /\ RepOK'
    BY <2>1, RepSame DEF IInv
  <2>3. WaitsForOpenSegment' /\ ~playbackCapturing'
    <3>1. CASE UNCHANGED playback
      <4>1. WaitsForOpenSegment'
        BY <2>1, <3>1, RepSame DEF IInv
      <4>2. playbackFinishedCount >= playbackSegmentsCount
        BY <1>0, <2>1, <3>1 DEF FinishPlayback, playback, segment, TypeOK
      <4>3. ~playbackCapturing
        BY <1>0, <4>2 DEF IInv, WaitsForOpenSegment, TypeOK
      <4>4. QED
        BY <3>1, <4>1, <4>3 DEF playback, segment
    <3>2. CASE ~UNCHANGED playback
      <4>1. /\ playbackCapturing' = FALSE /\ playbackWaiters' = {}
            /\ playbackFinishedCount' = playbackFinishedCount + 1
            /\ playbackSegmentsCount' = playbackSegmentsCount
            /\ ~(playbackFinishedCount >= playbackSegmentsCount)
        BY <2>1, <3>2 DEF FinishPlayback
      <4>2. playbackSegmentsCount = playbackFinishedCount + 1
        BY <1>0, <4>1 DEF IInv, WaitsForOpenSegment, TypeOK
      <4>3. QED
        BY <1>0, <4>1, <4>2 DEF WaitsForOpenSegment, TypeOK
    <3>3. QED
      BY <3>1, <3>2
  <2>4. DrainedIsEmpty'
    BY <2>1, <2>2 DEF IInv, DrainedIsEmpty, gate
  <2>5. ClosedInOrder'
    BY <2>1 DEF IInv, ClosedInOrder, gate
  <2>6. Owed'
    BY <2>3 DEF Owed
  <2>7. ClosingOK' /\ PlaybackOK'
    BY <1>0, <2>1, FinishTypes DEF TypeOK, ClosingOK
  <2>8. TypeOK'
    BY <1>0, <2>1, <2>2, <2>7, TypeParts, TypePartsNext, UnchangedTypes
  <2>9. QED
    BY <2>2, <2>3, <2>4, <2>5, <2>6, <2>8 DEF IInv
<1>5. QED
  BY <1>1, <1>2, <1>3, <1>4 DEF ShutdownStep

-----------------------------------------------------------------------------
LEMMA InitInv == Init => IInv
<1> SUFFICES ASSUME Init PROVE IInv
  OBVIOUS
<1>1. PICK kind \in Kinds : rep = [r \in Reply |-> Fresh(kind[r], "loop")]
  BY DEF Init
<1>2. \A r \in Reply : kind[r] \in {"pipeline", "realtime", "events"}
  BY <1>1, RoomOutputAssumption
<1>3. \A r \in Reply : Fresh(kind[r], "loop") \in Flags
  BY <1>2, RoomOutputAssumption DEF Fresh, Flags, Places
<1>4. \A r \in Reply : rep[r].pc = "loop"
  BY <1>1 DEF Fresh
<1>5. Inside = {}
  BY <1>4 DEF Inside, PublishAt
<1>6. RepOK
  BY <1>1, <1>3 DEF RepOK
<1>7. OutputOK /\ GateOK /\ PlaybackOK /\ ClosingOK
  BY DEF Init, OutputOK, GateOK, PlaybackOK, ClosingOK
<1>8. TypeOK
  BY <1>6, <1>7, TypeParts
<1>9. DrainedIsEmpty
  BY <1>5, FS_EmptySet DEF Init, DrainedIsEmpty
<1>10. HeldByPause /\ AnsweredIsHeld /\ WaitsForOpenSegment
  BY <1>4 DEF Init, HeldByPause, AnsweredIsHeld, WaitsForOpenSegment, At
<1>11. ClosedInOrder /\ Owed
  BY DEF Init, ClosedInOrder, Owed
<1>12. QED
  BY <1>8, <1>9, <1>10, <1>11 DEF IInv

LEMMA StutterKeeps ==
    ASSUME IInv, UNCHANGED vars
    PROVE  IInv'
<1>1. UNCHANGED <<rep, output, gate, playback, closing>>
  BY DEF vars
<1>2. Inside' = Inside /\ Owed' /\ WaitsForOpenSegment' /\ HeldByPause' /\ AnsweredIsHeld' /\ RepOK'
  BY <1>1, RepSame DEF IInv, playback, segment
<1>3. DrainedIsEmpty' /\ ClosedInOrder'
  BY <1>1, <1>2 DEF IInv, DrainedIsEmpty, ClosedInOrder, gate, closing
<1>4. TypeOK'
  BY <1>1, <1>2, TypeParts, TypePartsNext, UnchangedTypes DEF IInv
<1>5. QED
  BY <1>2, <1>3, <1>4 DEF IInv

LEMMA StepInv == IInv /\ [Next]_vars => IInv'
<1> SUFFICES ASSUME IInv, [Next]_vars PROVE IInv'
  OBVIOUS
<1>1. ASSUME NEW r \in Reply, ReplyStep(r)
      PROVE  IInv'
  BY <1>1, LoopKeeps, PublishKeeps, PlayoutKeeps DEF ReplyStep
<1>2. ASSUME NEW r \in Reply, Interrupt(r) \/ CancelReply(r)
      PROVE  IInv'
  BY <1>2, FlagsKeep
<1>3. CASE ShutdownPublications \/ ShutdownStep
  BY <1>3, ShutdownKeeps
<1>4. CASE PauseAudioOutput \/ ResumeAudioOutput
  BY <1>4, PauseKeeps
<1>5. CASE StopActivity
  BY <1>5, StopKeeps
<1>6. CASE UNCHANGED vars
  BY <1>6, StutterKeeps
<1>7. QED
  BY <1>1, <1>2, <1>3, <1>4, <1>5, <1>6 DEF Next

LEMMA Invariance == Spec => []IInv
<1>1. QED
  BY InitInv, StepInv, PTL DEF Spec

(* Every variable of the output, the gate, the playback and the replies    *)
(* keeps its type.                                                         *)
THEOREM TypeCorrect == Spec => []TypeOK
<1>1. IInv => TypeOK
  BY DEF IInv
<1>2. QED
  BY Invariance, <1>1, PTL

(* beginPublication, endPublication: the gate counts who is inside, and    *)
(* reports the publications drained exactly when it is closed and empty.   *)
THEOREM PublicationsCounted == Spec => []DrainedIsEmpty
<1>1. IInv => DrainedIsEmpty
  BY DEF IInv
<1>2. QED
  BY Invariance, <1>1, PTL

(* waitForAudioOutputResume: nobody is held without a pause to hold it.    *)
THEOREM PauseHolds == Spec => []HeldByPause
<1>1. IInv => HeldByPause
  BY DEF IInv
<1>2. QED
  BY Invariance, <1>1, PTL

(* WaitForPlayout: nobody is listed for a segment that has been finished.  *)
THEOREM PlayoutAwaited == Spec => []WaitsForOpenSegment
<1>1. IInv => WaitsForOpenSegment
  BY DEF IInv
<1>2. QED
  BY Invariance, <1>1, PTL

(* playTTSGenerationWithTranscript: the replies of a pipeline agent leave  *)
(* no segment open, however they overlap, fail or are interrupted.         *)
THEOREM SegmentsFinished == Spec => []NoSegmentLeftOpen
<1>1. IInv => NoSegmentLeftOpen
  <2> SUFFICES ASSUME IInv, Running = {}, Pipelines, playbackCapturing
               PROVE  FALSE
    BY DEF NoSegmentLeftOpen, IInv, TypeOK
  <2>1. PICK r \in Reply : Owes(rep[r])
    BY DEF IInv, Owed
  <2>2. rep[r].pc = "over"
    BY DEF Running
  <2>3. QED
    BY <2>1, <2>2 DEF Owes, PublishAt
<1>2. QED
  BY Invariance, <1>1, PTL

(* Shutdown: the encoder is closed under no publication, unless the        *)
(* transport was gone or the context had ended.                            *)
THEOREM EncoderLast == Spec => []EncoderOutlivesPublications
<1>1. IInv => EncoderOutlivesPublications
  BY DEF IInv, ClosedInOrder, DrainedIsEmpty, EncoderOutlivesPublications
<1>2. QED
  BY Invariance, <1>1, PTL

-----------------------------------------------------------------------------
(* What who waits can count on.                                            *)

(* A playout is waited for up to a segment that has been opened, and only  *)
(* a Shutdown that has closed the gate waits for the publications.         *)
WaitBounds ==
    /\ \A r \in Reply : rep[r].target <= playbackSegmentsCount
    /\ shutdown # "none" => closed

(* No reply waits for more than it did.                                    *)
TargetsKept == \A s \in Reply : rep'[s].target \in {rep[s].target, 0}

LEMMA GotoTargets ==
    ASSUME TypeOK, NEW r \in Reply, NEW pc, Goto(r, pc)
    PROVE  TargetsKept
<1> DEFINE q == Moved(rep[r], pc)
<1>1. rep[r] \in Flags /\ rep \in [Reply -> Flags]
  BY DEF TypeOK
<1>2. q.target = 0
  BY <1>1 DEF Moved, Fresh, Flags
<1>3. rep' = [rep EXCEPT ![r] = q]
  BY DEF Goto
<1>4. QED
  BY <1>1, <1>2, <1>3 DEF TargetsKept

(* Only f's target matters of a reply that becomes f.                      *)
LEMMA BecomesTargets ==
    ASSUME TypeOK, NEW r \in Reply, NEW f, rep' = [rep EXCEPT ![r] = f],
           f.target \in {rep[r].target, 0}
    PROVE  TargetsKept
BY DEF TargetsKept, TypeOK

LEMMA ThenTargets ==
    ASSUME TypeOK, NEW r \in Reply, NEW f, NEW pc, Then(r, f, pc)
    PROVE  TargetsKept
<1> DEFINE q == [rep[r] EXCEPT !.pc = f, !.after = pc]
<1>1. rep[r] \in Flags /\ rep \in [Reply -> Flags]
  BY DEF TypeOK
<1>2. q.target = rep[r].target
  BY <1>1 DEF Flags
<1>3. rep' = [rep EXCEPT ![r] = q]
  BY <1>1 DEF Then
<1>4. QED
  BY <1>2, <1>3, BecomesTargets

LEMMA ReturnedTargets ==
    ASSUME TypeOK, NEW r \in Reply, NEW ret \in {"ok", "cancel", "error"},
           Returned(r, ret)
    PROVE  TargetsKept
<1>1. rep[r] \in Flags /\ rep \in [Reply -> Flags]
  BY DEF TypeOK
<1>2. CASE ret = "ok"
  <2> DEFINE q == [rep[r] EXCEPT !.sent = TRUE, !.pc = IF Is(r, "pipeline") /\ rep[r].cut THEN "check" ELSE "loop"]
  <2>1. q.target = rep[r].target
    BY <1>1 DEF Flags
  <2>2. rep' = [rep EXCEPT ![r] = q]
    BY <1>1, <1>2 DEF Returned
  <2>3. QED
    BY <2>1, <2>2, BecomesTargets
<1>3. CASE ret # "ok"
  <2>1. (\E pc : Goto(r, pc)) \/ (\E f, pc : Then(r, f, pc))
    <3>1. CASE Is(r, "events")
      BY <1>3, <3>1 DEF Returned
    <3>2. CASE Is(r, "realtime")
      BY <1>3, <3>2 DEF Returned, Is
    <3>3. CASE Is(r, "pipeline")
      BY <1>3, <3>3 DEF Returned, Is
    <3>4. QED
      BY <3>1, <3>2, <3>3, FlagsOf DEF Is
  <2>2. QED
    BY <2>1, GotoTargets, ThenTargets
<1>4. QED
  BY <1>2, <1>3

(* PublishAudio and its caller.                                            *)
LEMMA PublishTargets ==
    ASSUME TypeOK, NEW r \in Reply,
           \/ BeginPublication(r) \/ Discard(r) \/ StreamEnds(r)
           \/ LoopCancelled(r) \/ SubscriptionReady(r) \/ CheckPaused(r)
           \/ HeldReleased(r) \/ HeldCancelled(r) \/ Write(r)
    PROVE  /\ TargetsKept
           /\ playbackSegmentsCount' \in {playbackSegmentsCount, playbackSegmentsCount + 1}
           /\ UNCHANGED <<closed, shutdown>>
<1> USE DEF output, gate, playback, segment, closing
<1>0. rep[r] \in Flags /\ rep \in [Reply -> Flags]
  BY DEF TypeOK
<1>1. CASE BeginPublication(r)
  <2>1. CASE ~closed
    <3> DEFINE q == [rep[r] EXCEPT !.pc = "subscribed", !.left = @ - 1]
    <3>1. rep' = [rep EXCEPT ![r] = q] /\ q.target = rep[r].target
      BY <1>0, <1>1, <2>1 DEF BeginPublication, EnterGate, Flags
    <3>2. TargetsKept
      BY <3>1, BecomesTargets
    <3>3. QED
      BY <1>1, <2>1, <3>2 DEF BeginPublication, EnterGate
  <2>2. CASE closed
    <3> DEFINE q == [rep[r] EXCEPT !.left = @ - 1, !.sent = TRUE]
    <3>1. rep' = [rep EXCEPT ![r] = q] /\ q.target = rep[r].target
      BY <1>0, <1>1, <2>2 DEF BeginPublication, Flags
    <3>2. TargetsKept
      BY <3>1, BecomesTargets
    <3>3. QED
      BY <1>1, <2>2, <3>2 DEF BeginPublication
  <2>3. QED
    BY <2>1, <2>2
<1>2. CASE Discard(r)
  BY <1>2, GotoTargets DEF Discard
<1>3. CASE StreamEnds(r)
  <2>1. (\E pc : Goto(r, pc)) \/ (\E f, pc : Then(r, f, pc))
    <3>1. CASE Is(r, "pipeline")
      BY <1>3, <3>1 DEF StreamEnds
    <3>2. CASE Is(r, "realtime")
      BY <1>3, <3>2 DEF StreamEnds, Is
    <3>3. CASE Is(r, "events")
      BY <1>3, <3>3 DEF StreamEnds, Is
    <3>4. QED
      BY <3>1, <3>2, <3>3, FlagsOf DEF Is
  <2>2. QED
    BY <1>3, <2>1, GotoTargets, ThenTargets DEF StreamEnds
<1>4. CASE LoopCancelled(r)
  BY <1>4, GotoTargets, ThenTargets DEF LoopCancelled
<1>5. CASE SubscriptionReady(r)
  BY <1>5, GotoTargets, ReturnedTargets DEF SubscriptionReady, Leave
<1>6. CASE CheckPaused(r)
  BY <1>6, GotoTargets DEF CheckPaused, Hold
<1>7. CASE HeldReleased(r)
  BY <1>7, GotoTargets, ReturnedTargets DEF HeldReleased, Leave
<1>8. CASE HeldCancelled(r)
  BY <1>8, ReturnedTargets DEF HeldCancelled, Leave
<1>9. CASE Write(r)
  <2>1. \E ret \in {"ok", "cancel", "error"} : Leave(r, ret)
    BY <1>9 DEF Write
  <2>2. QED
    BY <1>9, <2>1, ReturnedTargets DEF Write, Leave, StartPlayback
<1>10. QED
  BY <1>1, <1>2, <1>3, <1>4, <1>5, <1>6, <1>7, <1>8, <1>9

(* Only Await sets a target, and to the newest segment.                    *)
LEMMA PlayoutTargets ==
    ASSUME TypeOK, NEW r \in Reply,
           \/ FlushTail(r) \/ Finish(r) \/ ClearBuffer(r) \/ CheckInterrupted(r)
           \/ Await(r) \/ AwaitAgain(r) \/ AwaitCancelled(r)
    PROVE  /\ \A s \in Reply : rep'[s].target \in
                                  {rep[s].target, 0, playbackSegmentsCount}
           /\ playbackSegmentsCount' \in {playbackSegmentsCount, playbackSegmentsCount + 1}
           /\ UNCHANGED <<closed, shutdown>>
<1> USE DEF output, gate, playback, segment, closing
<1>0. rep[r] \in Flags /\ rep \in [Reply -> Flags]
  BY DEF TypeOK
<1>1. CASE FlushTail(r)
  BY <1>1, ThenTargets DEF FlushTail, StartPlayback, TargetsKept
<1>2. CASE Finish(r)
  BY <1>2, GotoTargets DEF Finish, FinishPlayback, TargetsKept
<1>3. CASE ClearBuffer(r)
  BY <1>3, GotoTargets DEF ClearBuffer, FinishPlayback, TargetsKept
<1>4. CASE CheckInterrupted(r)
  <2> DEFINE q == [rep[r] EXCEPT !.pc = "clear", !.after = "await", !.cleared = TRUE]
  <2>1. q.target = rep[r].target
    BY <1>0 DEF Flags
  <2>2. rep' = [rep EXCEPT ![r] = q] \/ Goto(r, "over")
    BY <1>0, <1>4 DEF CheckInterrupted
  <2>3. TargetsKept
    BY <2>1, <2>2, BecomesTargets, GotoTargets
  <2>4. QED
    BY <1>4, <2>3 DEF CheckInterrupted, TargetsKept
<1>5. CASE Await(r)
  <2>1. CASE Goto(r, AfterPlayout(r))
    BY <1>5, <2>1, GotoTargets DEF Await, TargetsKept
  <2>2. CASE rep' = [rep EXCEPT ![r].pc = "waiting", ![r].target = playbackSegmentsCount]
    <3> DEFINE q == [rep[r] EXCEPT !.pc = "waiting", !.target = playbackSegmentsCount]
    <3>1. q.target = playbackSegmentsCount /\ rep' = [rep EXCEPT ![r] = q]
      BY <1>0, <2>2 DEF Flags
    <3>2. QED
      BY <1>0, <1>5, <3>1 DEF Await
  <2>3. QED
    BY <1>5, <2>1, <2>2 DEF Await
<1>6. CASE AwaitAgain(r)
  BY <1>6, GotoTargets DEF AwaitAgain, TargetsKept
<1>7. CASE AwaitCancelled(r)
  BY <1>7, GotoTargets DEF AwaitCancelled, TargetsKept
<1>8. QED
  BY <1>1, <1>2, <1>3, <1>4, <1>5, <1>6, <1>7

(* The flags of the replies, the pauses and the stop of the activity.      *)
LEMMA FlagTargets ==
    ASSUME TypeOK,
           \/ \E r \in Reply : Interrupt(r) \/ CancelReply(r)
           \/ StopActivity \/ PauseAudioOutput \/ ResumeAudioOutput
    PROVE  /\ TargetsKept
           /\ UNCHANGED <<playbackSegmentsCount, closed, shutdown>>
<1> USE DEF output, gate, playback, segment, closing
<1>0. rep \in [Reply -> Flags]
  BY DEF TypeOK
<1>1. ASSUME NEW r \in Reply, Interrupt(r)
      PROVE  TargetsKept
  <2> DEFINE q == [rep[r] EXCEPT !.cut = TRUE]
  <2>1. q.target = rep[r].target /\ rep' = [rep EXCEPT ![r] = q]
    BY <1>0, <1>1 DEF Interrupt, Flags
  <2>2. QED
    BY <2>1, BecomesTargets
<1>2. ASSUME NEW r \in Reply, CancelReply(r)
      PROVE  TargetsKept
  <2> DEFINE q == [rep[r] EXCEPT !.gone = TRUE]
  <2>1. q.target = rep[r].target /\ rep' = [rep EXCEPT ![r] = q]
    BY <1>0, <1>2 DEF CancelReply, Flags
  <2>2. QED
    BY <2>1, BecomesTargets
<1>3. ASSUME StopActivity
      PROVE  TargetsKept
  <2> SUFFICES ASSUME NEW s \in Reply
               PROVE  rep'[s].target = rep[s].target
    BY DEF TargetsKept
  <2>1. rep'[s] = rep[s] \/ rep'[s] = [rep[s] EXCEPT !.gone = TRUE]
    BY <1>3 DEF StopActivity
  <2>2. rep[s] \in Flags
    BY <1>0
  <2>3. QED
    BY <2>1, <2>2 DEF Flags
<1>4. CASE PauseAudioOutput \/ ResumeAudioOutput
  BY <1>4 DEF PauseAudioOutput, ResumeAudioOutput, TargetsKept
<1>5. QED
  BY <1>1, <1>2, <1>3, <1>4 DEF Interrupt, CancelReply, StopActivity

(* Segments are only ever added, and the gate stays closed.                *)
LEMMA WaitBoundsStep ==
    ASSUME TypeOK, WaitBounds, [Next]_vars
    PROVE  WaitBounds'
<1>0. /\ playbackSegmentsCount \in Nat
      /\ \A r \in Reply : rep[r].target \in Nat
  BY FlagsOf DEF TypeOK
<1>1. ASSUME \A s \in Reply : rep'[s].target \in
                                {rep[s].target, 0, playbackSegmentsCount},
             playbackSegmentsCount' \in {playbackSegmentsCount, playbackSegmentsCount + 1},
             UNCHANGED <<closed, shutdown>>
      PROVE  WaitBounds'
  BY <1>0, <1>1 DEF WaitBounds
<1>2. ASSUME NEW r \in Reply, ReplyStep(r)
      PROVE  WaitBounds'
  BY <1>1, <1>2, PublishTargets, PlayoutTargets DEF ReplyStep, TargetsKept
<1>3. CASE \/ \E r \in Reply : Interrupt(r) \/ CancelReply(r)
           \/ StopActivity \/ PauseAudioOutput \/ ResumeAudioOutput
  BY <1>1, <1>3, FlagTargets DEF TargetsKept
<1>4. CASE ShutdownPublications \/ ShutdownStep
  BY <1>4 DEF WaitBounds, ShutdownPublications, ShutdownStep,
       PublicationsDrained, ShutdownDrops, CloseResources, FinishPlayback,
       gate, playback, segment
<1>5. CASE UNCHANGED vars
  BY <1>5 DEF WaitBounds, vars, gate, playback, segment, closing
<1>6. QED
  BY <1>2, <1>3, <1>4, <1>5 DEF Next

(* A publisher is held by a pause only, a playout is waited for while its  *)
(* segment is open and, in a pipeline agent, another reply is going to     *)
(* finish it, and a Shutdown waits for publications that are inside the    *)
(* gate: nobody waits for what will not come.                              *)
THEOREM NobodyWaitsInVain == Spec => []WaitsAnswered
<1>1. Init => WaitBounds
  <2> SUFFICES ASSUME Init, NEW r \in Reply
               PROVE  rep[r].target <= playbackSegmentsCount
    BY DEF Init, WaitBounds
  <2>1. rep[r].target = 0
    BY DEF Init, Fresh
  <2>2. QED
    BY <2>1 DEF Init
<1>2. IInv /\ WaitBounds /\ [Next]_vars => WaitBounds'
  BY WaitBoundsStep DEF IInv
<1>3. IInv /\ WaitBounds => WaitsAnswered
  <2> SUFFICES ASSUME IInv, WaitBounds
               PROVE  WaitsAnswered
    OBVIOUS
  <2>1. playbackWaiters # {} => playbackCapturing
    <3> SUFFICES ASSUME NEW r \in playbackWaiters
                 PROVE  playbackCapturing
      OBVIOUS
    <3>1. /\ r \in Reply /\ playbackFinishedCount < rep[r].target
          /\ rep[r].target <= playbackSegmentsCount
      BY DEF IInv, TypeOK, WaitsForOpenSegment, WaitBounds
    <3>2. /\ playbackFinishedCount \in Nat /\ playbackSegmentsCount \in Nat
          /\ rep[r].target \in Nat
      BY <3>1, FlagsOf DEF IInv, TypeOK
    <3>3. playbackSegmentsCount # playbackFinishedCount
      BY <3>1, <3>2
    <3>4. QED
      BY <3>2, <3>3 DEF IInv, WaitsForOpenSegment
  <2>2. playbackCapturing /\ Pipelines => \E r \in Reply : Owes(rep[r])
    BY DEF IInv, Owed
  <2>3. shutdown = "drain" => publicationDone \/ Inside # {}
    BY DEF IInv, DrainedIsEmpty, WaitBounds
  <2>4. QED
    BY <2>1, <2>2, <2>3 DEF IInv, WaitsAnswered
<1>4. QED
  BY Invariance, <1>1, <1>2, <1>3, PTL DEF Spec
=============================================================================
