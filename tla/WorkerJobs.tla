------------------------------ MODULE WorkerJobs ------------------------------
(***************************************************************************)
(* The jobs of an AgentServer (interface/worker/server.go): the offers it  *)
(* answers, the accepted offers that wait for an assignment, the jobs that *)
(* run, and their teardown, while the worker is drained, stopped or closed.*)
(*                                                                         *)
(* The message loop handles one server message at a time, but an offer is  *)
(* answered and a termination carried out by a goroutine of its own; every *)
(* job has an entrypoint goroutine and, once somebody finishes it, a       *)
(* finishJobLifecycle goroutine; Drain and Close poll.  A step is one      *)
(* critical section of AgentServer.mu, or one send, receive or wait of one *)
(* of these goroutines.  The LiveKit server, the request callback, the     *)
(* entrypoint, the shutdown callbacks and the session-end callback are the *)
(* environment.                                                            *)
(***************************************************************************)
EXTENDS Naturals, FiniteSets

CONSTANTS
    Job,            (* the jobs the LiveKit server may dispatch            *)
    Ops,            (* what the environment does in this instance          *)
    LoadThreshold,  (* Options.LoadThreshold; 0 disables the load check    *)
    JobLoad,        (* what LoadFunc reports for each active job           *)
    IdleProcesses,  (* Options.NumIdleProcesses                            *)
    MaxOffers       (* bound on the times one job is accepted              *)

(* "terminate" the server terminates jobs, "fail" entrypoints fail, "timeout" *)
(* waits inside the worker run into their bounds, "deadline" the contexts of *)
(* Drain and Close expire and the draining status fails to be sent.          *)
AllOps == {"terminate", "fail", "drain", "stop", "close", "timeout", "deadline"}

ASSUME WorkerAssumption ==
    /\ IsFiniteSet(Job)
    /\ Ops \subseteq AllOps
    /\ LoadThreshold \in Nat
    /\ JobLoad \in Nat
    /\ IdleProcesses \in Nat \ {0}
    /\ MaxOffers \in Nat \ {0}

VARIABLES
    server,         (* what the LiveKit server thinks of a job             *)
    request,        (* the answerAvailability goroutine of a job           *)
    reservedSlots,
    pendingAccepts,
    accepts,        (* times the job was accepted: names its timers        *)
    pendingTimers,  (* the timer that guards the pending accept, 0 if none *)
    fuse,           (* timers that are running                             *)
    fired,          (* timers that fired and wait for the mutex            *)
    activeJobs, finishingJobs,
    entry,          (* the entrypoint goroutine of a job                   *)
    plan,           (* its JobCompletionPlan                               *)
    status,         (* final statuses sent for a job                       *)
    term,           (* the handleTermination goroutine of a job            *)
    terminated,     (* JobContext.terminated                               *)
    finisher,       (* who won finishOnce                                  *)
    lifecycle,      (* the finishJobLifecycle goroutine                    *)
    foreground,     (* foregroundDone is closed                            *)
    shutdown,       (* JobContext.startShutdown                            *)
    settled,        (* the channel startShutdown returned is closed        *)
    draining, closed,
    drain, close,   (* the calls of Drain and Close                        *)
    closing,        (* jobs whose finishJob Close has yet to start         *)
    stopped         (* the context of Run is cancelled                     *)

offerVars    == <<server, request, reservedSlots, pendingAccepts, accepts,
                  pendingTimers, fuse, fired>>
jobVars      == <<activeJobs, finishingJobs>>
entryVars    == <<entry, plan, status>>
termVars     == <<term, terminated>>
finishVars   == <<finisher, lifecycle, foreground>>
shutdownVars == <<shutdown, settled>>
workerVars   == <<draining, closed, drain, close, closing, stopped>>
vars == <<offerVars, jobVars, entryVars, termVars, finishVars, shutdownVars,
          workerVars>>

Timers == 1 .. MaxOffers

TypeOK ==
    /\ server \in [Job -> {"out", "asked", "promised", "assigned"}]
    /\ request \in [Job -> {"none", "check", "admitted", "asking", "sending",
                            "answered"}]
    /\ reservedSlots \in 0 .. Cardinality(Job)
    /\ pendingAccepts \subseteq Job
    /\ accepts \in [Job -> 0 .. MaxOffers]
    /\ pendingTimers \in [Job -> 0 .. MaxOffers]
    /\ fuse \in [Job -> SUBSET Timers] /\ fired \in [Job -> SUBSET Timers]
    /\ activeJobs \subseteq Job /\ finishingJobs \subseteq Job
    /\ entry \in [Job -> {"none", "start", "running", "returned", "report",
                          "await", "shutdown", "finish", "waiting", "over"}]
    /\ plan \in [Job -> {"none", "success", "failed", "quiet"}]
    /\ status \in [Job -> Nat]
    /\ term \in [Job -> {"none", "begin", "mark", "marked", "shutdown",
                         "wait", "finish", "waiting", "over"}]
    /\ terminated \in [Job -> BOOLEAN]
    /\ finisher \in [Job -> {"none", "entry", "term", "close"}]
    /\ lifecycle \in [Job -> {"none", "claimed", "shutdown", "settle",
                              "session", "cleanup", "over"}]
    /\ foreground \in [Job -> BOOLEAN]
    /\ shutdown \in [Job -> {"no", "running", "done"}]
    /\ settled \in [Job -> BOOLEAN]
    /\ draining \in BOOLEAN /\ closed \in BOOLEAN /\ stopped \in BOOLEAN
    /\ drain \in {"idle", "send", "poll", "returned", "failed"}
    /\ close \in {"idle", "poll", "returned", "failed"}
    /\ closing \subseteq Job

Init ==
    /\ server = [j \in Job |-> "out"]
    /\ request = [j \in Job |-> "none"]
    /\ reservedSlots = 0
    /\ pendingAccepts = {}
    /\ accepts = [j \in Job |-> 0]
    /\ pendingTimers = [j \in Job |-> 0]
    /\ fuse = [j \in Job |-> {}] /\ fired = [j \in Job |-> {}]
    /\ activeJobs = {} /\ finishingJobs = {}
    /\ entry = [j \in Job |-> "none"]
    /\ plan = [j \in Job |-> "none"]
    /\ status = [j \in Job |-> 0]
    /\ term = [j \in Job |-> "none"]
    /\ terminated = [j \in Job |-> FALSE]
    /\ finisher = [j \in Job |-> "none"]
    /\ lifecycle = [j \in Job |-> "none"]
    /\ foreground = [j \in Job |-> FALSE]
    /\ shutdown = [j \in Job |-> "no"]
    /\ settled = [j \in Job |-> FALSE]
    /\ draining = FALSE /\ closed = FALSE /\ stopped = FALSE
    /\ drain = "idle"
    /\ close = "idle"
    /\ closing = {}

-----------------------------------------------------------------------------
(* Answering an offer                                                      *)

(* effectiveLoadWithLoad, multiplied out.  LoadFunc is the user's; here it *)
(* reports JobLoad for every active job.                                   *)
Promised == Cardinality(pendingAccepts) + reservedSlots

FitsLoad ==
    \/ LoadThreshold = 0
    \/ activeJobs # {}
         /\ JobLoad * (Cardinality(activeJobs) + Promised) < LoadThreshold
    \/ activeJobs = {} /\ Promised < IdleProcesses

AvailableForJob == ~draining /\ FitsLoad

(* The message loop receives an offer and starts answerAvailability.  The  *)
(* server may offer a job again that was accepted but not assigned.        *)
HandleAvailability(j) ==
    /\ ~stopped
    /\ server[j] \in {"out", "promised"}
    /\ request[j] = "none"
    /\ accepts[j] < MaxOffers
    /\ server' = [server EXCEPT ![j] = "asked"]
    /\ request' = [request EXCEPT ![j] = "check"]
    /\ UNCHANGED <<reservedSlots, pendingAccepts, accepts, pendingTimers, fuse,
                   fired, jobVars, entryVars, termVars, finishVars,
                   shutdownVars, workerVars>>

Admit(j) ==
    /\ request[j] = "check"
    /\ IF AvailableForJob
       THEN /\ request' = [request EXCEPT ![j] = "admitted"]
            /\ UNCHANGED server
       ELSE /\ request' = [request EXCEPT ![j] = "none"]
            /\ server' = [server EXCEPT ![j] = "out"]
    /\ UNCHANGED <<reservedSlots, pendingAccepts, accepts, pendingTimers, fuse,
                   fired, jobVars, entryVars, termVars, finishVars,
                   shutdownVars, workerVars>>

ReserveSlot(j) ==
    /\ request[j] = "admitted"
    /\ request' = [request EXCEPT ![j] = "asking"]
    /\ reservedSlots' = reservedSlots + 1
    /\ UNCHANGED <<server, pendingAccepts, accepts, pendingTimers, fuse, fired,
                   jobVars, entryVars, termVars, finishVars, shutdownVars,
                   workerVars>>

(* The request callback accepts: storePendingAccept replaces the timer of  *)
(* an earlier accept of the same job.                                      *)
StorePendingAccept(j) ==
    /\ request[j] = "asking"
    /\ request' = [request EXCEPT ![j] = "sending"]
    /\ accepts' = [accepts EXCEPT ![j] = @ + 1]
    /\ IF closed
       THEN UNCHANGED <<pendingAccepts, pendingTimers, fuse>>
       ELSE /\ pendingAccepts' = pendingAccepts \cup {j}
            /\ pendingTimers' = [pendingTimers EXCEPT ![j] = accepts[j] + 1]
            /\ fuse' = [fuse EXCEPT ![j] =
                          (@ \ {pendingTimers[j]}) \cup {accepts[j] + 1}]
    /\ UNCHANGED <<server, reservedSlots, fired, jobVars, entryVars, termVars,
                   finishVars, shutdownVars, workerVars>>

(* The acceptance is sent; a send that fails leaves the server waiting.    *)
SendAccept(j) ==
    /\ request[j] = "sending"
    /\ request' = [request EXCEPT ![j] = "answered"]
    /\ \E got \in {"promised", "out"} : server' = [server EXCEPT ![j] = got]
    /\ UNCHANGED <<reservedSlots, pendingAccepts, accepts, pendingTimers, fuse,
                   fired, jobVars, entryVars, termVars, finishVars,
                   shutdownVars, workerVars>>

(* The callback rejects, fails or does not answer.                         *)
Reject(j) ==
    /\ request[j] = "asking"
    /\ request' = [request EXCEPT ![j] = "answered"]
    /\ server' = [server EXCEPT ![j] = "out"]
    /\ UNCHANGED <<reservedSlots, pendingAccepts, accepts, pendingTimers, fuse,
                   fired, jobVars, entryVars, termVars, finishVars,
                   shutdownVars, workerVars>>

ReleaseSlotForgets(j) ==
    /\ request[j] = "answered"
    /\ request' = [request EXCEPT ![j] = "none"]
    /\ UNCHANGED <<server, reservedSlots, pendingAccepts, accepts, pendingTimers,
                   fuse, fired, jobVars, entryVars, termVars, finishVars,
                   shutdownVars, workerVars>>

ReleaseSlot(j) ==
    /\ request[j] = "answered"
    /\ request' = [request EXCEPT ![j] = "none"]
    /\ reservedSlots' = IF reservedSlots > 0 THEN reservedSlots - 1 ELSE 0
    /\ UNCHANGED <<server, pendingAccepts, accepts, pendingTimers, fuse, fired,
                   jobVars, entryVars, termVars, finishVars, shutdownVars,
                   workerVars>>

(* assignmentTimeout: the timer's goroutine starts, and later has the      *)
(* mutex.  By then the accept may be gone or a later timer may guard it.   *)
TimerFires(j) ==
    /\ \E n \in fuse[j] :
         /\ fuse' = [fuse EXCEPT ![j] = @ \ {n}]
         /\ fired' = [fired EXCEPT ![j] = @ \cup {n}]
    /\ UNCHANGED <<server, request, reservedSlots, pendingAccepts, accepts,
                   pendingTimers, jobVars, entryVars, termVars, finishVars,
                   shutdownVars, workerVars>>

ExpirePendingAcceptAnyTimer(j) ==
    /\ \E n \in fired[j] : fired' = [fired EXCEPT ![j] = @ \ {n}]
    /\ pendingAccepts' = pendingAccepts \ {j}
    /\ pendingTimers' = [pendingTimers EXCEPT ![j] = 0]
    /\ UNCHANGED <<server, request, reservedSlots, accepts, fuse, jobVars,
                   entryVars, termVars, finishVars, shutdownVars, workerVars>>

ExpirePendingAccept(j) ==
    /\ \E n \in fired[j] :
         /\ fired' = [fired EXCEPT ![j] = @ \ {n}]
         /\ IF pendingTimers[j] = n
            THEN /\ pendingAccepts' = pendingAccepts \ {j}
                 /\ pendingTimers' = [pendingTimers EXCEPT ![j] = 0]
            ELSE UNCHANGED <<pendingAccepts, pendingTimers>>
    /\ UNCHANGED <<server, request, reservedSlots, accepts, fuse, jobVars,
                   entryVars, termVars, finishVars, shutdownVars, workerVars>>

HandleAssignmentWhenClosed(j) ==
    /\ ~stopped
    /\ server[j] = "promised"
    /\ server' = [server EXCEPT ![j] = "assigned"]
    /\ IF j \in pendingAccepts
       THEN /\ pendingAccepts' = pendingAccepts \ {j}
            /\ pendingTimers' = [pendingTimers EXCEPT ![j] = 0]
            /\ fuse' = [fuse EXCEPT ![j] = @ \ {pendingTimers[j]}]
            /\ activeJobs' = activeJobs \cup {j}
            /\ entry' = [entry EXCEPT ![j] = "start"]
       ELSE UNCHANGED <<pendingAccepts, pendingTimers, fuse, activeJobs, entry>>
    /\ UNCHANGED <<request, reservedSlots, accepts, fired, finishingJobs, plan,
                   status, termVars, finishVars, shutdownVars, workerVars>>

(* handleAssignment.  A termination of this job is handled after it, so    *)
(* that the entrypoint is marked as started in time.                       *)
HandleAssignment(j) ==
    /\ ~stopped
    /\ server[j] = "promised"
    /\ server' = [server EXCEPT ![j] = "assigned"]
    /\ IF j \in pendingAccepts
       THEN /\ pendingAccepts' = pendingAccepts \ {j}
            /\ pendingTimers' = [pendingTimers EXCEPT ![j] = 0]
            /\ fuse' = [fuse EXCEPT ![j] = @ \ {pendingTimers[j]}]
            /\ IF closed
               THEN UNCHANGED <<activeJobs, entry>>
               ELSE /\ activeJobs' = activeJobs \cup {j}
                    /\ entry' = [entry EXCEPT ![j] = "start"]
       ELSE UNCHANGED <<pendingAccepts, pendingTimers, fuse, activeJobs, entry>>
    /\ UNCHANGED <<request, reservedSlots, accepts, fired, finishingJobs, plan,
                   status, termVars, finishVars, shutdownVars, workerVars>>

-----------------------------------------------------------------------------
(* Shutdown of a job context, and finishJob                                *)

(* startShutdown runs once; who calls it later waits for the first.        *)
BeginShutdown(j) ==
    shutdown' = [shutdown EXCEPT ![j] = IF @ = "no" THEN "running" ELSE @]

(* The job's own code, or the end of its room, shuts the job down.         *)
UserShutdown(j) ==
    /\ entry[j] \notin {"none", "start"}
    /\ shutdown[j] = "no"
    /\ BeginShutdown(j)
    /\ UNCHANGED <<offerVars, jobVars, entryVars, termVars, finishVars, settled,
                   workerVars>>

(* The drain and the callbacks are done, or have taken too long.           *)
ShutdownReturns(j) ==
    /\ shutdown[j] = "running"
    /\ shutdown' = [shutdown EXCEPT ![j] = "done"]
    /\ \E all \in BOOLEAN : settled' = [settled EXCEPT ![j] = all]
    /\ UNCHANGED <<offerVars, jobVars, entryVars, termVars, finishVars,
                   workerVars>>

ShutdownSettles(j) ==
    /\ shutdown[j] = "done"
    /\ ~settled[j]
    /\ settled' = [settled EXCEPT ![j] = TRUE]
    /\ UNCHANGED <<offerVars, jobVars, entryVars, termVars, finishVars, shutdown,
                   workerVars>>

(* finishJob: the first to come through finishOnce tracks the job and      *)
(* starts its teardown, and waits for the foreground part of it.           *)
Claim(j, who) ==
    /\ finisher' = [finisher EXCEPT ![j] = who]
    /\ lifecycle' = [lifecycle EXCEPT ![j] = "claimed"]
    /\ UNCHANGED foreground

TrackFinishingForgets(j) ==
    /\ lifecycle[j] = "claimed"
    /\ lifecycle' = [lifecycle EXCEPT ![j] = "shutdown"]
    /\ activeJobs' = activeJobs \ {j}
    /\ BeginShutdown(j)
    /\ UNCHANGED <<offerVars, finishingJobs, entryVars, termVars, finisher,
                   foreground, settled, workerVars>>

TrackFinishing(j) ==
    /\ lifecycle[j] = "claimed"
    /\ lifecycle' = [lifecycle EXCEPT ![j] = "shutdown"]
    /\ activeJobs' = activeJobs \ {j}
    /\ finishingJobs' = finishingJobs \cup {j}
    /\ BeginShutdown(j)
    /\ UNCHANGED <<offerVars, entryVars, termVars, finisher, foreground, settled,
                   workerVars>>

(* finishJobLifecycle: a shutdown that has timed out lets the foreground go*)
(* and the teardown waits for what is left of it.                          *)
AwaitShutdown(j) ==
    /\ lifecycle[j] = "shutdown"
    /\ shutdown[j] = "done"
    /\ IF settled[j]
       THEN /\ lifecycle' = [lifecycle EXCEPT ![j] = "session"]
            /\ UNCHANGED foreground
       ELSE /\ lifecycle' = [lifecycle EXCEPT ![j] = "settle"]
            /\ foreground' = [foreground EXCEPT ![j] = TRUE]
    /\ UNCHANGED <<offerVars, jobVars, entryVars, termVars, finisher,
                   shutdownVars, workerVars>>

AwaitSettled(j) ==
    /\ lifecycle[j] = "settle"
    /\ settled[j]
    /\ lifecycle' = [lifecycle EXCEPT ![j] = "session"]
    /\ UNCHANGED <<offerVars, jobVars, entryVars, termVars, finisher, foreground,
                   shutdownVars, workerVars>>

(* runSessionEnd: the callback returns, perhaps after it has timed out.    *)
SessionEndTimesOut(j) ==
    /\ "timeout" \in Ops
    /\ lifecycle[j] = "session"
    /\ ~foreground[j]
    /\ foreground' = [foreground EXCEPT ![j] = TRUE]
    /\ UNCHANGED <<offerVars, jobVars, entryVars, termVars, finisher, lifecycle,
                   shutdownVars, workerVars>>

SessionEndReturns(j) ==
    /\ lifecycle[j] = "session"
    /\ lifecycle' = [lifecycle EXCEPT ![j] = "cleanup"]
    /\ UNCHANGED <<offerVars, jobVars, entryVars, termVars, finisher, foreground,
                   shutdownVars, workerVars>>

(* The deferred part: clean-up, untrackFinishingJob, foreground.           *)
CleanUp(j) ==
    /\ lifecycle[j] = "cleanup"
    /\ lifecycle' = [lifecycle EXCEPT ![j] = "over"]
    /\ finishingJobs' = finishingJobs \ {j}
    /\ foreground' = [foreground EXCEPT ![j] = TRUE]
    /\ UNCHANGED <<offerVars, activeJobs, entryVars, termVars, finisher,
                   shutdownVars, workerVars>>

-----------------------------------------------------------------------------
(* The entrypoint goroutine                                                *)

(* runJobEntrypoint refuses to start in a closed worker.                   *)
EntryStart(j) ==
    /\ entry[j] = "start"
    /\ IF closed
       THEN /\ entry' = [entry EXCEPT ![j] = "returned"]
            /\ plan' = [plan EXCEPT ![j] = "failed"]
       ELSE /\ entry' = [entry EXCEPT ![j] = "running"]
            /\ UNCHANGED plan
    /\ UNCHANGED <<offerVars, jobVars, status, termVars, finishVars,
                   shutdownVars, workerVars>>

EntryReturns(j) ==
    /\ entry[j] = "running"
    /\ \E p \in {"success"} \cup (IF "fail" \in Ops THEN {"failed"} ELSE {}) :
         plan' = [plan EXCEPT ![j] = p]
    /\ entry' = [entry EXCEPT ![j] = "returned"]
    /\ UNCHANGED <<offerVars, jobVars, status, termVars, finishVars,
                   shutdownVars, workerVars>>

(* JobCompletionPlanForEntrypoint, with Terminated read just now.          *)
EntryPlan(j) ==
    /\ entry[j] = "returned"
    /\ plan' = [plan EXCEPT ![j] = IF terminated[j] THEN "quiet" ELSE @]
    /\ entry' = [entry EXCEPT ![j] =
                   IF terminated[j] THEN "finish"
                   ELSE IF plan[j] = "success" THEN "await" ELSE "report"]
    /\ UNCHANGED <<offerVars, jobVars, status, termVars, finishVars,
                   shutdownVars, workerVars>>

EntryReport(j) ==
    /\ entry[j] = "report"
    /\ status' = [status EXCEPT ![j] = @ + 1]
    /\ entry' = [entry EXCEPT ![j] = "finish"]
    /\ UNCHANGED <<offerVars, jobVars, plan, termVars, finishVars, shutdownVars,
                   workerVars>>

EntryAwaitIgnoresStop(j) ==
    /\ entry[j] = "await"
    /\ shutdown[j] = "done"
    /\ entry' = [entry EXCEPT ![j] = "finish"]
    /\ UNCHANGED <<offerVars, jobVars, plan, status, termVars, finishVars,
                   shutdownVars, workerVars>>

(* waitForJobShutdown: until the job is shut down, or the worker stops and *)
(* the job is shut down from here.                                         *)
EntryAwait(j) ==
    /\ entry[j] = "await"
    /\ \/ /\ shutdown[j] = "done"
          /\ entry' = [entry EXCEPT ![j] = "finish"]
          /\ UNCHANGED shutdown
       \/ /\ stopped
          /\ entry' = [entry EXCEPT ![j] = "shutdown"]
          /\ BeginShutdown(j)
    /\ UNCHANGED <<offerVars, jobVars, plan, status, termVars, finishVars,
                   settled, workerVars>>

EntryShutdownDone(j) ==
    /\ entry[j] = "shutdown"
    /\ shutdown[j] = "done"
    /\ entry' = [entry EXCEPT ![j] = "finish"]
    /\ UNCHANGED <<offerVars, jobVars, plan, status, termVars, finishVars,
                   shutdownVars, workerVars>>

EntryFinish(j) ==
    /\ entry[j] = "finish"
    /\ IF finisher[j] = "none"
       THEN Claim(j, "entry") /\ entry' = [entry EXCEPT ![j] = "waiting"]
       ELSE UNCHANGED finishVars /\ entry' = [entry EXCEPT ![j] = "over"]
    /\ UNCHANGED <<offerVars, jobVars, plan, status, termVars, shutdownVars,
                   workerVars>>

EntryDoneAlwaysReports(j) ==
    /\ entry[j] = "waiting"
    /\ foreground[j]
    /\ entry' = [entry EXCEPT ![j] = "over"]
    /\ status' = [status EXCEPT ![j] = @ + 1]
    /\ UNCHANGED <<offerVars, jobVars, plan, termVars, finishVars, shutdownVars,
                   workerVars>>

(* After the foreground of the teardown, the status of a success is sent.  *)
EntryDone(j) ==
    /\ entry[j] = "waiting"
    /\ foreground[j]
    /\ entry' = [entry EXCEPT ![j] = "over"]
    /\ status' = [status EXCEPT ![j] = IF plan[j] = "success" THEN @ + 1 ELSE @]
    /\ UNCHANGED <<offerVars, jobVars, plan, termVars, finishVars, shutdownVars,
                   workerVars>>

-----------------------------------------------------------------------------
(* handleTermination                                                       *)

TerminationArrives(j) ==
    /\ "terminate" \in Ops
    /\ ~stopped
    /\ server[j] = "assigned"
    /\ term[j] = "none"
    /\ term' = [term EXCEPT ![j] = "begin"]
    /\ UNCHANGED <<offerVars, jobVars, entryVars, terminated, finishVars,
                   shutdownVars, workerVars>>

TermTakeForgets(j) ==
    /\ term[j] = "begin"
    /\ IF j \in activeJobs
       THEN /\ activeJobs' = activeJobs \ {j}
            /\ term' = [term EXCEPT ![j] = "mark"]
       ELSE /\ term' = [term EXCEPT ![j] = "over"]
            /\ UNCHANGED activeJobs
    /\ UNCHANGED <<offerVars, finishingJobs, entryVars, terminated, finishVars,
                   shutdownVars, workerVars>>

TermTake(j) ==
    /\ term[j] = "begin"
    /\ IF j \in activeJobs
       THEN /\ activeJobs' = activeJobs \ {j}
            /\ finishingJobs' = finishingJobs \cup {j}
            /\ term' = [term EXCEPT ![j] = "mark"]
       ELSE /\ term' = [term EXCEPT ![j] = "over"]
            /\ UNCHANGED jobVars
    /\ UNCHANGED <<offerVars, entryVars, terminated, finishVars, shutdownVars,
                   workerVars>>

TermMark(j) ==
    /\ term[j] = "mark"
    /\ terminated' = [terminated EXCEPT ![j] = TRUE]
    /\ term' = [term EXCEPT ![j] = "marked"]
    /\ UNCHANGED <<offerVars, jobVars, entryVars, finishVars, shutdownVars,
                   workerVars>>

TermShutdownOmitted(j) ==
    /\ term[j] = "marked"
    /\ term' = [term EXCEPT ![j] = "shutdown"]
    /\ UNCHANGED <<offerVars, jobVars, entryVars, terminated, finishVars,
                   shutdownVars, workerVars>>

TermShutdown(j) ==
    /\ term[j] = "marked"
    /\ BeginShutdown(j)
    /\ term' = [term EXCEPT ![j] = "shutdown"]
    /\ UNCHANGED <<offerVars, jobVars, entryVars, terminated, finishVars,
                   settled, workerVars>>

TermShutdownDoneNoWait(j) ==
    /\ term[j] = "shutdown"
    /\ shutdown[j] = "done"
    /\ term' = [term EXCEPT ![j] = "finish"]
    /\ UNCHANGED <<offerVars, jobVars, entryVars, terminated, finishVars,
                   shutdownVars, workerVars>>

TermShutdownDone(j) ==
    /\ term[j] = "shutdown"
    /\ shutdown[j] = "done"
    /\ term' = [term EXCEPT ![j] = "wait"]
    /\ UNCHANGED <<offerVars, jobVars, entryVars, terminated, finishVars,
                   shutdownVars, workerVars>>

(* waitForEntrypointDone(localEntrypointCloseWait)                         *)
EntrypointReturned(j) == entry[j] \notin {"none", "start", "running"}

TermWait(j) ==
    /\ term[j] = "wait"
    /\ EntrypointReturned(j) \/ "timeout" \in Ops
    /\ term' = [term EXCEPT ![j] = "finish"]
    /\ UNCHANGED <<offerVars, jobVars, entryVars, terminated, finishVars,
                   shutdownVars, workerVars>>

TermFinish(j) ==
    /\ term[j] = "finish"
    /\ IF finisher[j] = "none"
       THEN Claim(j, "term") /\ term' = [term EXCEPT ![j] = "waiting"]
       ELSE UNCHANGED finishVars /\ term' = [term EXCEPT ![j] = "over"]
    /\ UNCHANGED <<offerVars, jobVars, entryVars, terminated, shutdownVars,
                   workerVars>>

TermDone(j) ==
    /\ term[j] = "waiting"
    /\ foreground[j]
    /\ term' = [term EXCEPT ![j] = "over"]
    /\ UNCHANGED <<offerVars, jobVars, entryVars, terminated, finishVars,
                   shutdownVars, workerVars>>

-----------------------------------------------------------------------------
(* Stopping the worker                                                     *)

(* The context of Run is cancelled; the message loop ends.                 *)
Stop ==
    /\ "stop" \in Ops
    /\ ~stopped
    /\ stopped' = TRUE
    /\ UNCHANGED <<offerVars, jobVars, entryVars, termVars, finishVars,
                   shutdownVars, draining, closed, drain, close, closing>>

InflightJobs ==
    Cardinality(activeJobs) + Cardinality(finishingJobs)
      + Cardinality(pendingAccepts) + reservedSlots

(* A second Drain, and one after Close, returns at once.                   *)
DrainBegin ==
    /\ "drain" \in Ops
    /\ drain = "idle"
    /\ IF draining
       THEN drain' = "returned" /\ UNCHANGED draining
       ELSE drain' = "send" /\ draining' = TRUE
    /\ UNCHANGED <<offerVars, jobVars, entryVars, termVars, finishVars,
                   shutdownVars, closed, close, closing, stopped>>

(* The status is sent on a live connection only, and may fail.             *)
DrainSend ==
    /\ drain = "send"
    /\ drain' = "poll" \/ (drain' = "failed" /\ "deadline" \in Ops)
    /\ UNCHANGED <<offerVars, jobVars, entryVars, termVars, finishVars,
                   shutdownVars, draining, closed, close, closing, stopped>>

DrainReturn ==
    /\ drain = "poll"
    /\ \/ InflightJobs = 0 /\ drain' = "returned"
       \/ "deadline" \in Ops /\ drain' = "failed"
    /\ UNCHANGED <<offerVars, jobVars, entryVars, termVars, finishVars,
                   shutdownVars, draining, closed, close, closing, stopped>>

CloseBeginLeavesJobs ==
    /\ "close" \in Ops
    /\ close = "idle"
    /\ close' = "poll"
    /\ closed' = TRUE
    /\ draining' = TRUE
    /\ fuse' = [j \in Job |-> fuse[j] \ {pendingTimers[j]}]
    /\ UNCHANGED <<server, request, reservedSlots, pendingAccepts, accepts,
                   pendingTimers, fired, jobVars, entryVars, termVars,
                   finishVars, shutdownVars, drain, closing, stopped>>

(* Close stops the timers of the pending accepts but keeps the accepts.    *)
CloseBegin ==
    /\ "close" \in Ops
    /\ close = "idle"
    /\ close' = "poll"
    /\ closed' = TRUE
    /\ draining' = TRUE
    /\ closing' = activeJobs
    /\ fuse' = [j \in Job |-> fuse[j] \ {pendingTimers[j]}]
    /\ UNCHANGED <<server, request, reservedSlots, pendingAccepts, accepts,
                   pendingTimers, fired, jobVars, entryVars, termVars,
                   finishVars, shutdownVars, drain, stopped>>

(* One of the `go s.finishJob(job)' of Close.                              *)
CloseFinish(j) ==
    /\ j \in closing
    /\ closing' = closing \ {j}
    /\ IF finisher[j] = "none" THEN Claim(j, "close") ELSE UNCHANGED finishVars
    /\ UNCHANGED <<offerVars, jobVars, entryVars, termVars, shutdownVars,
                   draining, closed, drain, close, stopped>>

CloseReturn ==
    /\ close = "poll"
    /\ \/ activeJobs \cup finishingJobs = {} /\ close' = "returned"
       \/ "deadline" \in Ops /\ close' = "failed"
    /\ UNCHANGED <<offerVars, jobVars, entryVars, termVars, finishVars,
                   shutdownVars, draining, closed, drain, closing, stopped>>

-----------------------------------------------------------------------------
Offer(j) ==
    \/ HandleAvailability(j) \/ HandleAssignment(j) \/ TerminationArrives(j)
    \/ UserShutdown(j)

Answer(j) ==
    \/ Admit(j) \/ ReserveSlot(j) \/ StorePendingAccept(j) \/ SendAccept(j)
    \/ Reject(j) \/ ReleaseSlot(j)

Timer(j) == TimerFires(j) \/ ExpirePendingAccept(j)

Entry(j) ==
    \/ EntryStart(j) \/ EntryReturns(j) \/ EntryPlan(j) \/ EntryReport(j)
    \/ EntryAwait(j) \/ EntryShutdownDone(j) \/ EntryFinish(j) \/ EntryDone(j)

Termination(j) ==
    \/ TermTake(j) \/ TermMark(j) \/ TermShutdown(j) \/ TermShutdownDone(j)
    \/ TermWait(j) \/ TermFinish(j) \/ TermDone(j)

Teardown(j) ==
    \/ ShutdownReturns(j) \/ ShutdownSettles(j) \/ TrackFinishing(j)
    \/ AwaitShutdown(j) \/ AwaitSettled(j) \/ SessionEndTimesOut(j)
    \/ SessionEndReturns(j) \/ CleanUp(j)

Worker ==
    \/ Stop \/ DrainBegin \/ DrainSend \/ DrainReturn \/ CloseBegin
    \/ CloseReturn

Next ==
    \/ \E j \in Job : \/ Offer(j) \/ Answer(j) \/ Timer(j) \/ Entry(j)
                      \/ Termination(j) \/ Teardown(j) \/ CloseFinish(j)
    \/ Worker

Spec == Init /\ [][Next]_vars

(* Every goroutine the worker has started gets to run and every timer      *)
(* fires; the callbacks and the entrypoint, which are the user's, return.  *)
(* Nobody has to offer, assign, terminate, drain, stop or close.           *)
Fairness ==
    /\ \A j \in Job :
         /\ WF_vars(Answer(j)) /\ WF_vars(TimerFires(j))
         /\ WF_vars(ExpirePendingAccept(j)) /\ WF_vars(Entry(j))
         /\ WF_vars(Termination(j))
         /\ WF_vars(ShutdownReturns(j)) /\ WF_vars(ShutdownSettles(j))
         /\ WF_vars(TrackFinishing(j)) /\ WF_vars(AwaitShutdown(j))
         /\ WF_vars(AwaitSettled(j)) /\ WF_vars(SessionEndReturns(j))
         /\ WF_vars(CleanUp(j)) /\ WF_vars(CloseFinish(j))
    /\ WF_vars(DrainSend) /\ WF_vars(DrainReturn) /\ WF_vars(CloseReturn)

FairSpec == Spec /\ Fairness

-----------------------------------------------------------------------------
(* Properties                                                              *)

(* activeJobs and finishingJobs: from the assignment to the end of its     *)
(* clean-up a job is in exactly one of the two maps, whichever of the      *)
(* entrypoint, a termination and Close finishes it, so that Drain and Close*)
(* see it.                                                                 *)
Unfinished(j) == entry[j] # "none" /\ lifecycle[j] # "over"

JobsAccounted ==
    /\ activeJobs \cap finishingJobs = {}
    /\ \A j \in Job : Unfinished(j) <=> j \in activeJobs \cup finishingJobs

(* drain: it returns nil only when no request that has been given a slot   *)
(* is unanswered, no accepted job waits for its assignment and no job's    *)
(* entrypoint or teardown is unfinished.                                   *)
DrainLeavesNothing ==
    [][drain = "poll" /\ drain' = "returned" =>
          \A j \in Job : /\ request[j] \in {"none", "check", "admitted"}
                         /\ j \notin pendingAccepts
                         /\ ~Unfinished(j)]_vars

(* storePendingAccept and its timers: as long as the timer of the newest   *)
(* accept has not fired, the accept is there for an assignment to find,    *)
(* whatever the timers of earlier accepts of the same job do.              *)
PromiseKept ==
    \A j \in Job : accepts[j] \in fuse[j] => j \in pendingAccepts

(* handleTermination: the session-end callback of a job does not start     *)
(* before its entrypoint has returned (unless the worker is closed).       *)
SessionEndsAfterEntrypoint ==
    \A j \in Job : lifecycle[j] \in {"session", "cleanup", "over"} /\ ~closed =>
                      EntrypointReturned(j)

(* RunJobEntrypointLifecycle and finishOnce: a job's final status is sent  *)
(* at most once, and that of a success only by the entrypoint that itself  *)
(* finished the job, when the foreground of the teardown is over.          *)
ReportsOnce ==
    \A j \in Job : /\ status[j] <= 1
                   /\ status[j] = 1 /\ plan[j] = "success" =>
                        finisher[j] = "entry" /\ foreground[j]

(* Close: once it has returned without an error no job is left, and none   *)
(* comes later.                                                            *)
CloseIsFinal ==
    close = "returned" => activeJobs \cup finishingJobs = {}

(* The worker's jobs, whoever of the entrypoint, a termination and Close   *)
(* finishes them and however the three interleave, are kept as JobLedger   *)
(* says: what the worker answers for are the jobs in its two maps.         *)
Ledger == INSTANCE JobLedger WITH
              started <- {j \in Job : entry[j] # "none"},
              held <- activeJobs \cup finishingJobs,
              ended <- {j \in Job : lifecycle[j] = "over"},
              reports <- status, final <- close = "returned"

KeepsLedger == Ledger!Spec

(* finishJob, handleTermination, Drain, Close: nobody waits for what will  *)
(* not come.  A shutdown that is waited for has begun, and what is left of *)
(* it settles; the teardown whose foreground is waited for is under way; a *)
(* termination waits for an entrypoint that was started; a job that is     *)
(* finishing, and any job of a closed worker, has who finishes it; and a   *)
(* pending accept has its timer, until Close takes the timers away.        *)
Finishing(j) ==
    lifecycle[j] \in {"claimed", "shutdown", "settle", "session", "cleanup"}

WillFinish(j) ==
    \/ j \in closing
    \/ term[j] \in {"mark", "marked", "shutdown", "wait", "finish"}

WaitsAnswered ==
    \A j \in Job :
        /\ "shutdown" \in {entry[j], term[j], lifecycle[j]} => shutdown[j] # "no"
        /\ lifecycle[j] = "settle" => shutdown[j] = "done"
        /\ "waiting" \in {entry[j], term[j]} => foreground[j] \/ Finishing(j)
        /\ term[j] = "wait" => entry[j] # "none"
        /\ j \in finishingJobs \/ (closed /\ j \in activeJobs) =>
              Finishing(j) \/ WillFinish(j)
        /\ ~closed /\ j \in pendingAccepts =>
              pendingTimers[j] \in fuse[j] \cup fired[j]

(* finishJob .. untrackFinishingJob: a job that is being terminated comes  *)
(* to the end of its clean-up, once.                                       *)
TerminatedEnds ==
    \A j \in Job : term[j] = "mark" ~> lifecycle[j] = "over"

(* drain: after the worker has been stopped, its Drain returns (unless     *)
(* Close stops the timers that would take the pending accepts away).       *)
StoppedDrains ==
    []~closed => (stopped /\ drain = "poll" ~> drain = "returned")

(* Close returns although jobs run and are being terminated.               *)
CloseReturns == close = "poll" ~> close = "returned"

(* server_test.go: an offer is not admitted while the requests that are    *)
(* being answered take up the load.                                        *)
AdmissionHeedsReservations ==
    [][\A j \in Job : ReserveSlot(j) => FitsLoad]_vars
=============================================================================
