----------------------------- MODULE RoomOutput -----------------------------
(***************************************************************************)
(* The audio output of a room (src/interface/worker/livekit/room_io.go)    *)
(* and the replies that play into it.  A reply publishes its frames one by *)
(* one: PublishAudio enters the publication gate, waits for a subscriber,  *)
(* waits while the output is paused, encodes and writes the frame and      *)
(* opens a playback segment when none is open.  Flush and ClearBuffer      *)
(* finish a segment and wake whoever waits for the playout.  Shutdown      *)
(* closes the gate, waits for the publications inside it, drops those held *)
(* by a pause, finishes the playback and closes the encoder.  Replies of a *)
(* pipeline agent and of a realtime agent follow their own scripts         *)
(* (pipeline_agent.go, multimodal_agent.go); "events" stands for the audio *)
(* events of a realtime session, published one at a time with no context.  *)
(* Every action is one critical section of RoomIO.mu, or one wait.         *)
(***************************************************************************)
EXTENDS Naturals, FiniteSets

CONSTANTS
    Reply,      \* the goroutines that play audio
    Kinds,      \* what the replies of a session may be, each a function
    Frames,     \* bound: the frames of a reply
    Ops         \* what the environment does

ASSUME RoomOutputAssumption ==
    /\ Kinds \subseteq [Reply -> {"pipeline", "realtime", "events"}]
    /\ Frames \in Nat
    /\ Ops \subseteq {"pause", "interrupt", "stop", "fail", "close", "disconnect"}
    /\ IsFiniteSet(Reply)

VARIABLES
    rep,                \* rep[r]: where reply r is, and its flags
    audioOutputPaused,
    audioOutputWaiters, \* replies whose channel is listed
    result,             \* result[r]: what was sent on r's channel
    closed,
    publicationActive,
    publicationDone,    \* publicationDone is closed
    playbackCapturing,
    playbackSegmentsCount,
    playbackFinishedCount,
    playbackWaiters,    \* replies whose channel is listed
    encoder,            \* the encoder is open
    forced,             \* Shutdown went on without the publications
    shutdown,           \* where the one Shutdown of the room is
    bounded             \* its context has a deadline

output == <<audioOutputPaused, audioOutputWaiters, result>>
gate == <<closed, publicationActive, publicationDone>>
segment == <<playbackCapturing, playbackSegmentsCount, playbackFinishedCount>>
playback == <<segment, playbackWaiters>>
closing == <<encoder, forced, shutdown, bounded>>
vars == <<rep, output, gate, playback, closing>>

PublishAt == {"subscribed", "resume", "held", "write"}
At(r, pc) == rep[r].pc = pc
Is(r, kind) == rep[r].kind = kind
(* The replies inside the publication gate.                                *)
Inside == {r \in Reply : rep[r].pc \in PublishAt}
Running == {r \in Reply : rep[r].pc # "over"}

Fresh(kind, pc) ==
    [pc |-> pc, kind |-> kind, left |-> Frames, cut |-> FALSE, gone |-> FALSE,
     sent |-> FALSE, after |-> "over", cleared |-> FALSE, target |-> 0]
(* A reply goes on at pc; of one that is over nothing is remembered.       *)
Moved(q, pc) ==
    IF pc = "over" THEN Fresh(q.kind, pc)
                   ELSE [q EXCEPT !.pc = pc, !.after = "over", !.target = 0]
Goto(r, pc) == rep' = [rep EXCEPT ![r] = Moved(@, pc)]
(* Do f, one of flush and clear, and go to pc after it.                    *)
Then(r, f, pc) == rep' = [rep EXCEPT ![r].pc = f, ![r].after = pc]

Init ==
    /\ \E kind \in Kinds : rep = [r \in Reply |-> Fresh(kind[r], "loop")]
    /\ audioOutputPaused = FALSE
    /\ audioOutputWaiters = {}
    /\ result = [r \in Reply |-> "none"]
    /\ closed = FALSE
    /\ publicationActive = 0
    /\ publicationDone = FALSE
    /\ playbackCapturing = FALSE
    /\ playbackSegmentsCount = 0
    /\ playbackFinishedCount = 0
    /\ playbackWaiters = {}
    /\ encoder = TRUE
    /\ forced = FALSE
    /\ shutdown = "none"
    /\ bounded = FALSE

-----------------------------------------------------------------------------
(* The loop of a reply: playTTSGenerationWithTranscript of a pipeline      *)
(* agent, consumeRealtimeMessage of a realtime one, handleRealtimeEvent.   *)

MayPublishPastTheEnd(r) ==
    /\ At(r, "loop")
    /\ ~rep[r].gone
    /\ Is(r, "pipeline") => ~rep[r].cut

(* The next frame of a reply that may go on.                               *)
MayPublish(r) ==
    /\ At(r, "loop") /\ rep[r].left > 0
    /\ ~rep[r].gone
    /\ Is(r, "pipeline") => ~rep[r].cut

EnterGate(r) ==
    /\ MayPublish(r)
    /\ rep' = [rep EXCEPT ![r].pc = "subscribed", ![r].left = @ - 1]
    /\ publicationActive' = publicationActive + 1
    /\ UNCHANGED <<closed, publicationDone, output, playback, closing>>

(* beginPublication; refused, PublishAudio returns nil and the reply       *)
(* counts the frame as forwarded.                                          *)
BeginPublication(r) ==
    IF ~closed THEN EnterGate(r)
    ELSE /\ MayPublish(r)
         /\ rep' = [rep EXCEPT ![r].left = @ - 1, ![r].sent = TRUE]
         /\ UNCHANGED <<output, gate, playback, closing>>

(* The interrupted pipeline reply returns without touching the playback.   *)
Discard(r) ==
    /\ At(r, "loop") /\ rep[r].left > 0
    /\ Is(r, "pipeline") /\ rep[r].cut
    /\ ~rep[r].gone
    /\ Goto(r, "check")
    /\ UNCHANGED <<output, gate, playback, closing>>

(* All frames are published: a pipeline reply flushes before it waits for  *)
(* its playout, a realtime one does not.                                   *)
StreamEnds(r) ==
    /\ At(r, "loop") /\ rep[r].left = 0
    /\ CASE Is(r, "pipeline") -> Then(r, "flush", "await")
         [] Is(r, "realtime") -> Goto(r, IF rep[r].sent THEN "await" ELSE "check")
         [] OTHER -> Goto(r, "over")
    /\ UNCHANGED <<output, gate, playback, closing>>

LoopCancelled(r) ==
    /\ At(r, "loop") /\ rep[r].gone
    /\ IF Is(r, "pipeline") THEN Then(r, "clear", "check") ELSE Goto(r, "over")
    /\ UNCHANGED <<output, gate, playback, closing>>

-----------------------------------------------------------------------------
(* PublishAudio.                                                           *)

ReturnedUncleared(r, ret) ==
    CASE ret = "ok" ->
            rep' = [rep EXCEPT ![r].sent = TRUE,
                               ![r].pc = IF Is(r, "pipeline") /\ rep[r].cut THEN "check" ELSE "loop"]
      [] ret # "ok" /\ Is(r, "events") -> Goto(r, "loop")
      [] ret # "ok" /\ Is(r, "realtime") -> Goto(r, "over")
      [] ret = "cancel" /\ Is(r, "pipeline") -> Goto(r, "check")
      [] ret = "error" /\ Is(r, "pipeline") -> Then(r, "flush", "over")

(* What the reply does with what PublishAudio returned.                    *)
Returned(r, ret) ==
    CASE ret = "ok" ->
            rep' = [rep EXCEPT ![r].sent = TRUE,
                               ![r].pc = IF Is(r, "pipeline") /\ rep[r].cut THEN "check" ELSE "loop"]
      [] ret # "ok" /\ Is(r, "events") -> Goto(r, "loop")
      [] ret # "ok" /\ Is(r, "realtime") -> Goto(r, "over")
      [] ret = "cancel" /\ Is(r, "pipeline") -> Then(r, "clear", "check")
      [] ret = "error" /\ Is(r, "pipeline") -> Then(r, "flush", "over")

(* signalPublicationsDrainedLocked                                         *)
SignalDrained(isClosed, active) ==
    publicationDone' = (publicationDone \/ (isClosed /\ active = 0))

OneLess == IF publicationActive > 0 THEN publicationActive - 1 ELSE 0

(* PublishAudio returns, with endPublication deferred.                     *)
Leave(r, ret) ==
    /\ Returned(r, ret)
    /\ publicationActive' = OneLess
    /\ SignalDrained(closed, OneLess)
    /\ UNCHANGED closed

(* waitForAudioSubscriptionReady ends by a subscriber, by its time-out, by *)
(* BeginShutdown or with the reply's context; then isClosed is looked at   *)
(* and the encoder is taken.                                               *)
SubscriptionReady(r) ==
    /\ At(r, "subscribed")
    /\ \/ ~closed /\ Goto(r, "resume") /\ UNCHANGED gate
       \/ closed /\ Leave(r, "ok")
       \/ rep[r].gone /\ Leave(r, "cancel")
    /\ UNCHANGED <<output, playback, closing>>

(* Make a channel and list it.                                             *)
Hold(r) ==
    /\ At(r, "resume")
    /\ Goto(r, "held")
    /\ audioOutputWaiters' = audioOutputWaiters \cup {r}
    /\ UNCHANGED <<audioOutputPaused, result, gate, playback, closing>>

(* waitForAudioOutputResume, under the lock.                               *)
CheckPaused(r) ==
    IF audioOutputPaused THEN Hold(r)
    ELSE /\ At(r, "resume")
         /\ Goto(r, "write")
         /\ UNCHANGED <<output, gate, playback, closing>>

HeldReleased(r) ==
    /\ At(r, "held")
    /\ \/ result[r] = "go" /\ Goto(r, "write") /\ UNCHANGED gate
       \/ result[r] = "drop" /\ Leave(r, "ok")
    /\ result' = [result EXCEPT ![r] = "none"]
    /\ UNCHANGED <<audioOutputPaused, audioOutputWaiters, playback, closing>>

HeldCancelled(r) ==
    /\ At(r, "held") /\ rep[r].gone
    /\ Leave(r, "cancel")
    /\ audioOutputWaiters' = audioOutputWaiters \ {r}
    /\ result' = [result EXCEPT ![r] = "none"]
    /\ UNCHANGED <<audioOutputPaused, playback, closing>>

(* startPlayback                                                           *)
StartPlayback ==
    /\ playbackCapturing' = TRUE
    /\ playbackSegmentsCount' = IF playbackCapturing THEN playbackSegmentsCount
                                                     ELSE playbackSegmentsCount + 1
    /\ UNCHANGED <<playbackFinishedCount, playbackWaiters>>

(* The chunks of the frame are encoded, paced and written until the frame, *)
(* the context or an error ends them; the first one written starts the     *)
(* playback, a frame that only fills the carry writes none.                *)
Write(r) ==
    /\ At(r, "write")
    /\ \/ ~rep[r].gone /\ Leave(r, "ok")
       \/ rep[r].gone /\ Leave(r, "cancel")
       \/ "fail" \in Ops /\ Leave(r, "error")
    /\ UNCHANGED playback \/ StartPlayback
    /\ UNCHANGED <<output, closing>>

-----------------------------------------------------------------------------
(* Flush, ClearBuffer and WaitForPlayout.                                  *)

(* flushAudioOutputTail: the tail is empty, is lost to an error, or is     *)
(* written, paused or not and outside the gate.                            *)
FlushTail(r) ==
    /\ At(r, "flush")
    /\ Then(r, "finish", rep[r].after)
    /\ UNCHANGED playback \/ StartPlayback
    /\ UNCHANGED <<output, gate, closing>>

FinishPlaybackSilent ==
    IF playbackFinishedCount >= playbackSegmentsCount THEN UNCHANGED playback
    ELSE /\ playbackCapturing' = FALSE
         /\ playbackFinishedCount' = playbackFinishedCount + 1
         /\ UNCHANGED <<playbackSegmentsCount, playbackWaiters>>

(* finishPlayback                                                          *)
FinishPlayback ==
    IF playbackFinishedCount >= playbackSegmentsCount THEN UNCHANGED playback
    ELSE /\ playbackCapturing' = FALSE
         /\ playbackFinishedCount' = playbackFinishedCount + 1
         /\ playbackWaiters' = {}
         /\ UNCHANGED playbackSegmentsCount

(* The end of Flush, after the paced audio has drained.                    *)
Finish(r) ==
    /\ At(r, "finish")
    /\ FinishPlayback
    /\ Goto(r, rep[r].after)
    /\ UNCHANGED <<output, gate, closing>>

(* dropPausedAudioOutput                                                   *)
DropPaused ==
    /\ audioOutputWaiters' = {}
    /\ result' = [r \in Reply |-> IF r \in audioOutputWaiters THEN "drop" ELSE result[r]]
    /\ UNCHANGED audioOutputPaused

ClearBuffer(r) ==
    /\ At(r, "clear")
    /\ DropPaused
    /\ FinishPlayback
    /\ Goto(r, rep[r].after)
    /\ UNCHANGED <<gate, closing>>

(* forwardedAssistantTextAfterInterruption and its realtime twin clear the *)
(* output and wait without a context.                                      *)
CheckInterrupted(r) ==
    /\ At(r, "check")
    /\ IF rep[r].cut /\ (rep[r].sent \/ Is(r, "realtime"))
       THEN rep' = [rep EXCEPT ![r].pc = "clear", ![r].after = "await", ![r].cleared = TRUE]
       ELSE Goto(r, "over")
    /\ UNCHANGED <<output, gate, playback, closing>>

AfterPlayout(r) == IF rep[r].cleared THEN "over" ELSE "check"

(* waitForAssistantPlayout of a reply that is interrupted by now does not  *)
(* wait; WaitForPlayout finds the segments finished, or registers.         *)
Await(r) ==
    /\ At(r, "await")
    /\ IF (rep[r].cut /\ ~rep[r].cleared) \/ playbackFinishedCount >= playbackSegmentsCount
       THEN Goto(r, AfterPlayout(r)) /\ UNCHANGED playbackWaiters
       ELSE /\ rep' = [rep EXCEPT ![r].pc = "waiting", ![r].target = playbackSegmentsCount]
            /\ playbackWaiters' = playbackWaiters \cup {r}
    /\ UNCHANGED <<output, gate, segment, closing>>

(* Woken, it looks again for the target it came with.                      *)
AwaitAgain(r) ==
    /\ At(r, "waiting") /\ r \notin playbackWaiters
    /\ IF playbackFinishedCount >= rep[r].target
       THEN Goto(r, AfterPlayout(r)) /\ UNCHANGED playbackWaiters
       ELSE playbackWaiters' = playbackWaiters \cup {r} /\ UNCHANGED rep
    /\ UNCHANGED <<output, gate, segment, closing>>

AwaitCancelled(r) ==
    /\ At(r, "waiting") /\ rep[r].gone /\ ~rep[r].cleared
    /\ Goto(r, "check")
    /\ playbackWaiters' = playbackWaiters \ {r}
    /\ UNCHANGED <<output, gate, segment, closing>>

ReplyStep(r) ==
    \/ BeginPublication(r) \/ Discard(r) \/ StreamEnds(r) \/ LoopCancelled(r)
    \/ SubscriptionReady(r) \/ CheckPaused(r)
    \/ HeldReleased(r) \/ HeldCancelled(r) \/ Write(r)
    \/ FlushTail(r) \/ Finish(r) \/ ClearBuffer(r)
    \/ CheckInterrupted(r)
    \/ Await(r) \/ AwaitAgain(r) \/ AwaitCancelled(r)

-----------------------------------------------------------------------------
(* Shutdown: BeginShutdown, the wait for the publications, the resources.  *)
(* The first caller does it all and the others wait for it.                *)

(* shutdownPublications closes the gate (BeginShutdown) and, when the      *)
(* transport is usable and the listeners have stopped in time, goes on to  *)
(* wait for the publications.  The job's own StopPublishing closes the     *)
(* same gate when its drain has run out of time.                           *)
ShutdownPublications ==
    /\ "close" \in Ops
    /\ shutdown = "none"
    /\ closed' = TRUE
    /\ SignalDrained(TRUE, publicationActive)
    /\ \/ shutdown' = "drain" /\ bounded' \in BOOLEAN /\ UNCHANGED forced
       \/ "disconnect" \in Ops /\ shutdown' = "drop" /\ forced' = TRUE /\ UNCHANGED bounded
    /\ UNCHANGED <<encoder, publicationActive, rep, output, playback>>

DrainNotAwaited ==
    /\ shutdown = "drain"
    /\ shutdown' = "drop"
    /\ UNCHANGED <<encoder, forced, bounded, rep, output, gate, playback>>

DrainUnbounded ==
    /\ shutdown = "drain"
    /\ publicationDone
    /\ shutdown' = "drop"
    /\ UNCHANGED <<encoder, forced, bounded, rep, output, gate, playback>>

(* waitForPublications, within the caller's context.                       *)
PublicationsDrained ==
    /\ shutdown = "drain"
    /\ shutdown' = "drop"
    /\ \/ publicationDone /\ UNCHANGED forced
       \/ bounded /\ forced' = TRUE
    /\ UNCHANGED <<encoder, bounded, rep, output, gate, playback>>

(* shutdownResources: what is held by a pause is dropped, the playback is  *)
(* finished, the encoder is closed.                                        *)
ShutdownDrops ==
    /\ shutdown = "drop"
    /\ DropPaused
    /\ shutdown' = "finish"
    /\ UNCHANGED <<encoder, forced, bounded, rep, gate, playback>>

CloseResources ==
    /\ shutdown = "finish"
    /\ FinishPlayback
    /\ encoder' = FALSE
    /\ shutdown' = "done"
    /\ UNCHANGED <<forced, bounded, rep, output, gate>>

ShutdownStep ==
    \/ PublicationsDrained \/ ShutdownDrops \/ CloseResources

-----------------------------------------------------------------------------
(* What the session, the room and the job do to the output.                *)

PauseAudioOutput ==
    /\ "pause" \in Ops
    /\ ~audioOutputPaused
    /\ audioOutputPaused' = TRUE
    /\ UNCHANGED <<audioOutputWaiters, result, rep, gate, playback, closing>>

ResumeOnly ==
    /\ audioOutputPaused
    /\ audioOutputPaused' = FALSE
    /\ UNCHANGED <<audioOutputWaiters, result, rep, gate, playback, closing>>

ResumeAudioOutput ==
    /\ audioOutputPaused
    /\ audioOutputPaused' = FALSE
    /\ audioOutputWaiters' = {}
    /\ result' = [r \in Reply |-> IF r \in audioOutputWaiters THEN "go" ELSE result[r]]
    /\ UNCHANGED <<rep, gate, playback, closing>>

(* SpeechHandle.Interrupt closes the speech's interrupt channel.           *)
Interrupt(r) ==
    /\ "interrupt" \in Ops
    /\ r \in Running /\ ~rep[r].cut /\ ~Is(r, "events")
    /\ rep' = [rep EXCEPT ![r].cut = TRUE]
    /\ UNCHANGED <<output, gate, playback, closing>>

(* The goroutine that watches that channel cancels the context of a        *)
(* pipeline reply.                                                         *)
CancelReply(r) ==
    /\ r \in Running /\ ~rep[r].gone
    /\ Is(r, "pipeline") /\ rep[r].cut
    /\ rep' = [rep EXCEPT ![r].gone = TRUE]
    /\ UNCHANGED <<output, gate, playback, closing>>

(* The activity is stopped: its context, the parent of its replies', ends. *)
StopActivity ==
    /\ "stop" \in Ops
    /\ \E r \in Running : ~rep[r].gone /\ ~Is(r, "events")
    /\ rep' = [r \in Reply |-> IF r \in Running /\ ~Is(r, "events")
                               THEN [rep[r] EXCEPT !.gone = TRUE] ELSE rep[r]]
    /\ UNCHANGED <<output, gate, playback, closing>>

Next ==
    \/ \E r \in Reply : ReplyStep(r) \/ Interrupt(r) \/ CancelReply(r)
    \/ ShutdownPublications \/ ShutdownStep
    \/ PauseAudioOutput \/ ResumeAudioOutput \/ StopActivity

Spec == Init /\ [][Next]_vars

(* A reply's goroutine, or the one that watches for its interruption,      *)
(* takes a step when it can, and so does Shutdown.                         *)
FairSpec ==
    /\ Spec
    /\ \A r \in Reply : WF_vars(ReplyStep(r) \/ CancelReply(r))
    /\ WF_vars(ShutdownStep)

-----------------------------------------------------------------------------
Places == PublishAt \cup {"loop", "flush", "finish", "clear", "check", "await", "waiting", "over"}
Flags == [pc : Places, kind : {"pipeline", "realtime", "events"}, left : 0..Frames,
          cut : BOOLEAN, gone : BOOLEAN, sent : BOOLEAN, after : {"check", "await", "over"},
          cleared : BOOLEAN, target : Nat]

(* Types, and that the two channels of waiters hold only who waits.        *)
TypeOK ==
    /\ rep \in [Reply -> Flags]
    /\ audioOutputPaused \in BOOLEAN
    /\ audioOutputWaiters \subseteq Reply
    /\ result \in [Reply -> {"none", "go", "drop"}]
    /\ closed \in BOOLEAN
    /\ publicationActive \in Nat
    /\ publicationDone \in BOOLEAN
    /\ playbackCapturing \in BOOLEAN
    /\ playbackSegmentsCount \in Nat
    /\ playbackFinishedCount \in Nat
    /\ playbackWaiters \subseteq Reply
    /\ encoder \in BOOLEAN
    /\ forced \in BOOLEAN
    /\ shutdown \in {"none", "drain", "drop", "finish", "done"}
    /\ bounded \in BOOLEAN

(* PublishAudio waits for the resume only while the output is paused: the  *)
(* replies listed are those held, unanswered, and a pause is what holds    *)
(* them.  A resume or a drop that came first is never missed.              *)
HeldByPause ==
    /\ audioOutputWaiters = {r \in Reply : At(r, "held") /\ result[r] = "none"}
    /\ audioOutputWaiters # {} => audioOutputPaused

(* WaitForPlayout: whoever is listed waits for a segment that is not yet   *)
(* finished, so that the finish that will wake it is still to come.        *)
WaitsForOpenSegment ==
    /\ playbackSegmentsCount = playbackFinishedCount + (IF playbackCapturing THEN 1 ELSE 0)
    /\ \A r \in playbackWaiters : At(r, "waiting") /\ playbackFinishedCount < rep[r].target

(* The pipeline reply q is still going to flush or to clear.               *)
Owes(q) ==
    \/ q.pc \in {"flush", "finish", "clear"}
    \/ q.pc \in PublishAt \cup {"loop"} /\ q.sent
    \/ q.pc = "check" /\ q.sent /\ q.cut

Pipelines == \A r \in Reply : Is(r, "pipeline")

(* waitForAudioOutputResume, WaitForPlayout, waitForPublications: nobody   *)
(* waits for what will not come.  Who is held is held by a pause; who      *)
(* waits for a playout waits for the open segment, which in a pipeline     *)
(* agent another reply is going to finish; and a Shutdown that waits for   *)
(* the publications is told, or has some inside the gate.                  *)
WaitsAnswered ==
    /\ HeldByPause
    /\ WaitsForOpenSegment
    /\ playbackWaiters # {} =>
         playbackCapturing /\ (Pipelines => \E r \in Reply : Owes(rep[r]))
    /\ shutdown = "drain" => publicationDone \/ Inside # {}

(* When the replies of pipeline agents are over, however they ended and    *)
(* however they overlapped, no segment of theirs is left open for the next *)
(* reply to be taken for.                                                  *)
NoSegmentLeftOpen ==
    Pipelines /\ Running = {} => ~playbackCapturing

(* Shutdown closes the encoder under no publication, unless the transport  *)
(* was gone or its context ended.                                          *)
EncoderOutlivesPublications ==
    (~encoder /\ ~forced) => Inside = {}

(* A pipeline reply ends, its playout waited for, unless the output stays  *)
(* paused for ever.                                                        *)
RepliesEnd ==
    []<>(~audioOutputPaused) =>
        <>(\A r \in Reply : Is(r, "pipeline") => At(r, "over"))

(* Shutdown returns: within its context when that is bounded, and without  *)
(* a bound when the output does not stay paused.                           *)
ShutdownReturns ==
    /\ shutdown = "drain" /\ bounded ~> shutdown = "done"
    /\ []<>(~audioOutputPaused) => (shutdown # "none" ~> shutdown = "done")

(* multimodal_agent_test.go: a realtime reply that has published its audio *)
(* returns once it has been played.                                        *)
RealtimeReplyEnds ==
    \A r \in Reply : (At(r, "loop") /\ Is(r, "realtime")) ~> At(r, "over")
=============================================================================
