---------------------------- MODULE AgentSession ----------------------------
(* The lifecycle of a session (core/agent/agent_session.go): starting,     *)
(* stopping and closing it, handing it from one agent to another, and the  *)
(* callers that wait until it is inactive, claim the user's turn or hold   *)
(* it idle.  Start and Stop exclude each other by the lifecycle gate, a    *)
(* channel of size one; UpdateAgent and CloseSoon do not take it before    *)
(* they change the session.  An activity is reduced to what its session    *)
(* sees of it: SpeechScheduling has the rest.                              *)
EXTENDS Integers, FiniteSets

CONSTANTS
    Caller,      (* goroutines that call the session                       *)
    Activities,  (* how many can be made; bounds the starts and hand-overs *)
    None,        (* nil                                                    *)
    Ops          (* what each caller does, or lets happen to it            *)

AllOps == {"start", "stop", "close", "update", "claim", "wait", "hold",
           "reply", "fail", "deadline"}

Activity == 1..Activities

ASSUME SessionAssumption ==
    /\ Activities \in Nat
    /\ None \notin Caller \cup Activity
    /\ Ops \in [Caller -> SUBSET AllOps]
    /\ IsFiniteSet(Caller)

VARIABLES
    gate,         (* who holds lifecycleGate                               *)
    started, closing,
    callbacksRan, (* preCloseCallbacksRan                                  *)
    activity,     (* s.activity                                            *)
    acts,         (* the activities                                        *)
    claims, holds,(* userTurnClaims, idleHolds                             *)
    call,         (* what each caller is doing                             *)
    callbackRuns, (* how often the callbacks ran since the last Start      *)
    outlived      (* a claim or a hold has outlived a Stop, and not all of *)
                  (* those begun before or since have ended                *)

lifeVars  == <<gate, started, closing, callbacksRan>>
agentVars == <<activity, acts>>
idleVars  == <<claims, holds, outlived>>
vars == <<lifeVars, agentVars, idleVars, call, callbackRuns>>

-----------------------------------------------------------------------------
(* An activity: whether it exists, how often OnEnter and OnExit ran, whether its *)
(* scheduling is paused, its context cancelled, its scheduling task        *)
(* started (startedCh closed), and whether it has an unfinished speech.    *)
NoActivity == [made |-> FALSE, entered |-> 0, exited |-> 0, paused |-> FALSE,
               cancelled |-> FALSE, ready |-> FALSE, busy |-> FALSE]

NewActivity == [NoActivity EXCEPT !.made = TRUE]

Made == {a \in Activity : acts[a].made}

(* A caller: the operation and where it is in it, the activity it works    *)
(* on, the one Start or UpdateAgent will start, the one closeSoon found,   *)
(* and whether Stop has pre-close callbacks to run.                        *)
Idle == [op |-> "none", at |-> "idle", act |-> None, next |-> None,
         found |-> None, callbacks |-> FALSE]

At(c, p) == call[c].at = p

Goto(c, p) == call' = [call EXCEPT ![c].at = p]

Return(c) == call' = [call EXCEPT ![c] = Idle]

Begin(c, op, p, a, n) ==
    /\ At(c, "idle") /\ op \in Ops[c]
    /\ call' = [call EXCEPT ![c] = [Idle EXCEPT !.op = op, !.at = p,
                                               !.act = a, !.next = n]]

(* What newAgentActivity makes next: a call that would need more of them   *)
(* than Activities is not made.                                            *)
Taken == Made \cup {call[c].next : c \in Caller}

Fresh == {a \in Activity \ Taken : \A b \in Activity \ Taken : a <= b}

Init ==
    /\ gate = None
    /\ started = FALSE /\ closing = FALSE /\ callbacksRan = FALSE
    /\ activity = None
    /\ acts = [a \in Activity |-> NoActivity]
    /\ claims = 0 /\ holds = 0 /\ outlived = FALSE
    /\ call = [c \in Caller |-> Idle]
    /\ callbackRuns = 0

-----------------------------------------------------------------------------
(* StartWithOptions                                                        *)

CallStart(c) ==
    /\ \E a \in Fresh : Begin(c, "start", "startGate", None, a)
    /\ UNCHANGED <<lifeVars, agentVars, idleVars, callbackRuns>>

(* acquireLifecycle and the first critical section.                        *)
StartBegin(c) ==
    /\ At(c, "startGate")
    /\ gate = None
    /\ IF started
       THEN Return(c) /\ UNCHANGED lifeVars
       ELSE /\ gate' = c
            /\ Goto(c, "starting")
            /\ UNCHANGED <<started, closing, callbacksRan>>
    /\ UNCHANGED <<agentVars, idleVars, callbackRuns>>

(* Mutant: a failed Start keeps the gate.                                  *)
StartFailsKeepsGate(c) ==
    /\ "fail" \in Ops[c] /\ At(c, "starting")
    /\ Return(c)
    /\ UNCHANGED <<gate, started, closing, callbacksRan, agentVars, idleVars,
                   callbackRuns>>

(* Validation, BeforeStart, background audio, avatar or assistant failed.  *)
StartFails(c) ==
    /\ "fail" \in Ops[c]
    /\ At(c, "starting")
    /\ gate' = None
    /\ Return(c)
    /\ UNCHANGED <<started, closing, callbacksRan, agentVars, idleVars,
                   callbackRuns>>

StartPublish(c) ==
    /\ At(c, "starting")
    /\ acts' = [acts EXCEPT ![call[c].next] = NewActivity]
    /\ activity' = call[c].next
    /\ call' = [call EXCEPT ![c].at = "enter", ![c].act = call[c].next,
                            ![c].next = None]
    /\ started' = TRUE /\ closing' = FALSE /\ callbacksRan' = FALSE
    /\ callbackRuns' = 0
    /\ UNCHANGED <<gate, idleVars>>

(* startWithContext: OnEnter runs in the caller.                           *)
Enter(c) ==
    /\ At(c, "enter")
    /\ acts' = [acts EXCEPT ![call[c].act].entered = @ + 1]
    /\ Goto(c, "entering")
    /\ UNCHANGED <<lifeVars, activity, idleVars, callbackRuns>>

(* OnEnter has returned; the scheduling task starts and startedCh closes.  *)
Entered(c) ==
    /\ At(c, "entering")
    /\ acts' = [acts EXCEPT ![call[c].act].ready = TRUE]
    /\ gate' = IF call[c].op = "start" THEN None ELSE gate
    /\ Return(c)
    /\ UNCHANGED <<started, closing, callbacksRan, activity,
                   idleVars, callbackRuns>>

-----------------------------------------------------------------------------
(* stop, called by Stop and by closeSoon                                   *)

CallStop(c) ==
    /\ Begin(c, "stop", "stopGate", None, None)
    /\ UNCHANGED <<lifeVars, agentVars, idleVars, callbackRuns>>

(* Mutants: Stop takes the callbacks without looking whether they ran, or  *)
(* does not wake those who wait for a claim or a hold to end.              *)
TakeCallbacksAgain(c, at, a) ==
    /\ callbacksRan' = TRUE
    /\ call' = [d \in Caller |->
          IF d = c THEN [call[c] EXCEPT !.at = at, !.act = a, !.callbacks = TRUE]
          ELSE IF started /\ call[d].at \in {"onClaims", "onHolds"}
               THEN [call[d] EXCEPT !.at = "read"] ELSE call[d]]

TakeCallbacksOnly(c, at, a) ==
    /\ callbacksRan' = TRUE
    /\ call' = [call EXCEPT ![c].at = at, ![c].act = a,
                            ![c].callbacks = ~callbacksRan]

(* preCloseCallbacksForCycleLocked                                         *)
TakeCallbacks(c, at, a) ==
    /\ callbacksRan' = TRUE
    /\ call' = [d \in Caller |->
          IF d = c THEN [call[c] EXCEPT !.at = at, !.act = a,
                                        !.callbacks = ~callbacksRan]
          ELSE IF started /\ call[d].at \in {"onClaims", "onHolds"}
               THEN [call[d] EXCEPT !.at = "read"] ELSE call[d]]

(* Mutant: a Stop that finds the session stopped does not wait for the gate. *)
StopIdleAnytime(c) ==
    /\ At(c, "stopGate") /\ ~started
    /\ gate' = c
    /\ TakeCallbacks(c, "callbacks", None)
    /\ UNCHANGED <<started, closing, agentVars, idleVars, callbackRuns>>

StopIdle(c) ==
    /\ At(c, "stopGate")
    /\ gate = None /\ ~started
    /\ gate' = c
    /\ TakeCallbacks(c, "callbacks", None)
    /\ UNCHANGED <<started, closing, agentVars, idleVars, callbackRuns>>

(* The run is cancelled and, with it, every activity made in it; claims    *)
(* and holds are dropped and their waiters released.                       *)
StopBegin(c) ==
    /\ At(c, "stopGate")
    /\ gate = None /\ started
    /\ gate' = c
    /\ started' = FALSE
    /\ activity' = None
    /\ acts' = [a \in Activity |-> IF a \in Made
                                   THEN [acts[a] EXCEPT !.cancelled = TRUE]
                                   ELSE acts[a]]
    /\ outlived' = (outlived \/ claims > 0 \/ holds > 0)
    /\ claims' = 0 /\ holds' = 0
    /\ TakeCallbacks(c, "exit", activity)
    /\ UNCHANGED <<closing, callbackRuns>>

(* Mutant: OnExit only after OnEnter.                                      *)
ExitEntered(c) ==
    /\ At(c, "exit")
    /\ acts' = [acts EXCEPT ![call[c].act].exited =
                               IF acts[call[c].act].entered = 0 THEN @ ELSE @ + 1]
    /\ Goto(c, "cancel")
    /\ UNCHANGED <<lifeVars, activity, idleVars, callbackRuns>>

(* stopActivity: OnExit ...                                                *)
Exit(c) ==
    /\ At(c, "exit")
    /\ acts' = [acts EXCEPT ![call[c].act].exited = @ + 1]
    /\ Goto(c, "cancel")
    /\ UNCHANGED <<lifeVars, activity, idleVars, callbackRuns>>

(* ... then the context and the scheduling; Stop goes on to the callbacks, *)
(* UpdateAgent to the activity that takes over.                            *)
Cancel(c) ==
    /\ At(c, "cancel")
    /\ acts' = [acts EXCEPT ![call[c].act].cancelled = TRUE,
                            ![call[c].act].paused = TRUE]
    /\ IF call[c].op = "update"
       THEN call' = [call EXCEPT ![c].at = "enter", ![c].next = None,
                                 ![c].act = call[c].next]
       ELSE call' = [call EXCEPT ![c].at = "callbacks", ![c].act = None]
    /\ UNCHANGED <<lifeVars, activity, idleVars, callbackRuns>>

RunCallbacks(c) ==
    /\ At(c, "callbacks")
    /\ callbackRuns' = callbackRuns + (IF call[c].callbacks THEN 1 ELSE 0)
    /\ gate' = None
    /\ IF call[c].op = "close"
       THEN call' = [call EXCEPT ![c].at = "emit", ![c].callbacks = FALSE]
       ELSE Return(c)
    /\ UNCHANGED <<started, closing, callbacksRan, agentVars, idleVars>>

-----------------------------------------------------------------------------
(* closeSoon                                                               *)

CloseBegin(c) ==
    /\ started /\ ~closing
    /\ At(c, "idle") /\ "close" \in Ops[c]
    /\ closing' = TRUE
    /\ call' = [call EXCEPT ![c] = [Idle EXCEPT !.op = "close",
                                   !.at = "interrupt", !.act = activity,
                                   !.found = activity]]
    /\ UNCHANGED <<gate, started, callbacksRan, agentVars, idleVars,
                   callbackRuns>>

(* activity.Interrupt(true) waits for the speeches it has interrupted, not *)
(* for later ones.                                                         *)
CloseInterrupt(c) ==
    /\ At(c, "interrupt")
    /\ IF acts[call[c].act].busy
       THEN Goto(c, "speeches")
       ELSE call' = [call EXCEPT ![c].at = "stopGate", ![c].act = None]
    /\ UNCHANGED <<lifeVars, agentVars, idleVars, callbackRuns>>

CloseUninterrupted(c) ==
    /\ At(c, "speeches")
    /\ acts[call[c].act].cancelled
    /\ call' = [call EXCEPT ![c].at = "stopGate", ![c].act = None]
    /\ UNCHANGED <<lifeVars, agentVars, idleVars, callbackRuns>>

CloseEmit(c) ==
    /\ At(c, "emit")
    /\ Return(c)
    /\ UNCHANGED <<lifeVars, agentVars, idleVars, callbackRuns>>

-----------------------------------------------------------------------------
(* UpdateAgent, outside the gate; in a session that does not run it only   *)
(* replaces the agent and its components.                                  *)

(* Mutant: the old activity is never stopped.                              *)
UpdateBeginOnly(c) ==
    /\ started
    /\ \E a \in Fresh :
          /\ acts' = [acts EXCEPT ![activity].paused = TRUE, ![a] = NewActivity]
          /\ activity' = a
          /\ Begin(c, "update", "enter", a, None)
    /\ UNCHANGED <<lifeVars, idleVars, callbackRuns>>

(* The old activity is paused and replaced in one critical section; Exit   *)
(* and Cancel stop it, Enter and Entered start the new one.                *)
UpdateBegin(c) ==
    /\ started
    /\ \E a \in Fresh :
          /\ acts' = [acts EXCEPT ![activity].paused = TRUE,
                                 ![a] = NewActivity]
          /\ activity' = a
          /\ Begin(c, "update", "exit", activity, a)
    /\ UNCHANGED <<lifeVars, idleVars, callbackRuns>>

-----------------------------------------------------------------------------
(* GenerateReply, Say: the activity is read under the lock and used after  *)
(* it.                                                                     *)

CallReply(c) ==
    /\ activity # None /\ \A a \in Activity : ~acts[a].busy
    /\ Begin(c, "reply", "schedule", activity, None)
    /\ UNCHANGED <<lifeVars, agentVars, idleVars, callbackRuns>>

ReplySchedule(c) ==
    /\ At(c, "schedule")
    /\ acts' = [acts EXCEPT ![call[c].act].busy = @ \/ ~acts[call[c].act].paused]
    /\ Return(c)
    /\ UNCHANGED <<lifeVars, activity, idleVars, callbackRuns>>

SpeechesEnd(a) ==
    /\ acts[a].busy
    /\ acts' = [acts EXCEPT ![a].busy = FALSE]
    /\ call' = [c \in Caller |->
                  IF At(c, "speeches") /\ call[c].act = a
                  THEN [call[c] EXCEPT !.at = "stopGate", !.act = None]
                  ELSE call[c]]
    /\ UNCHANGED <<lifeVars, activity, idleVars, callbackRuns>>

-----------------------------------------------------------------------------
(* ClaimUserTurn, WaitForInactive, WaitForInactiveAndHold                  *)

ClaimBegin(c) ==
    /\ At(c, "idle") /\ "claim" \in Ops[c]
    /\ claims' = claims + 1
    /\ call' = [call EXCEPT ![c] = [Idle EXCEPT !.op = "claim",
                                               !.at = "claimed"]]
    /\ UNCHANGED <<lifeVars, agentVars, holds, outlived, callbackRuns>>

(* Mutant: a claim that a Stop has dropped is released all the same.       *)
LessAlways(n) == n - 1

(* Mutant: the last claim to end does not close the channel.               *)
ReleaseOnly(c, n, blocked) == call' = [call EXCEPT ![c] = Idle]

(* The callback has returned; with the last claim the channel is closed.   *)
Less(n) == IF n > 0 THEN n - 1 ELSE 0

Release(c, n, blocked) ==
    call' = [d \in Caller |->
               IF d = c THEN Idle
               ELSE IF n = 0 /\ call[d].at = blocked
                    THEN [call[d] EXCEPT !.at = "read"] ELSE call[d]]

Occupies(c) == call[c].at \in {"claimed", "held"}

LastOf(c) == \A d \in Caller \ {c} : ~Occupies(d)

ClaimEnd(c) ==
    /\ At(c, "claimed")
    /\ claims' = Less(claims)
    /\ Release(c, Less(claims), "onClaims")
    /\ outlived' = (outlived /\ ~LastOf(c))
    /\ UNCHANGED <<lifeVars, agentVars, holds, callbackRuns>>

CallWait(c) ==
    /\ \E op \in {"wait", "hold"} : Begin(c, op, "read", None, None)
    /\ UNCHANGED <<lifeVars, agentVars, idleVars, callbackRuns>>

WaitRead(c) ==
    /\ At(c, "read")
    /\ call' = [call EXCEPT ![c].act = activity,
                   ![c].at = IF activity = None THEN "claims" ELSE "inactive"]
    /\ UNCHANGED <<lifeVars, agentVars, idleVars, callbackRuns>>

(* The wait is done with the activity it has read.                         *)
Again(c, p) == call' = [call EXCEPT ![c].at = p, ![c].act = None]

(* WaitForInactive of the activity: no speech, and started unless the      *)
(* session is not going to start it.                                       *)
AwaitsStart(a) == ~acts[a].ready /\ started /\ ~closing /\ activity = a

WaitInactive(c) ==
    /\ At(c, "inactive")
    /\ ~acts[call[c].act].busy /\ ~AwaitsStart(call[c].act)
    /\ Goto(c, "recheck")
    /\ UNCHANGED <<lifeVars, agentVars, idleVars, callbackRuns>>

(* errAgentActivityClosed: once more if the session has moved on.          *)
WaitClosed(c) ==
    /\ At(c, "inactive")
    /\ acts[call[c].act].cancelled
    /\ IF activity # call[c].act THEN Again(c, "read") ELSE Return(c)
    /\ UNCHANGED <<lifeVars, agentVars, idleVars, callbackRuns>>

WaitRecheck(c) ==
    /\ At(c, "recheck")
    /\ Again(c, IF activity # call[c].act THEN "read" ELSE "claims")
    /\ UNCHANGED <<lifeVars, agentVars, idleVars, callbackRuns>>

(* Mutant: only holds are looked at.                                       *)
InactiveButClaimed(c) == At(c, "claims") /\ holds = 0

(* The snapshot of claims and holds; the channel is taken with it.         *)
Inactive(c) == At(c, "claims") /\ claims = 0 /\ holds = 0

WaitClaims(c) ==
    /\ At(c, "claims") /\ ~Inactive(c)
    /\ Goto(c, IF claims > 0 THEN "onClaims" ELSE "onHolds")
    /\ UNCHANGED <<lifeVars, agentVars, idleVars, callbackRuns>>

WaitReturns(c) ==
    /\ Inactive(c)
    /\ IF call[c].op = "hold"
       THEN call' = [call EXCEPT ![c].at = "hold", ![c].act = None]
       ELSE Return(c)
    /\ UNCHANGED <<lifeVars, agentVars, idleVars, callbackRuns>>

HoldBegin(c) ==
    /\ At(c, "hold")
    /\ holds' = holds + 1
    /\ call' = [call EXCEPT ![c].at = "held"]
    /\ UNCHANGED <<lifeVars, agentVars, claims, outlived, callbackRuns>>

HoldEnd(c) ==
    /\ At(c, "held")
    /\ holds' = Less(holds)
    /\ Release(c, Less(holds), "onHolds")
    /\ outlived' = (outlived /\ ~LastOf(c))
    /\ UNCHANGED <<lifeVars, agentVars, claims, callbackRuns>>

(* A context expires; closeSoon stops without one.                         *)
GiveUp(c) ==
    /\ "deadline" \in Ops[c]
    /\ \/ call[c].at \in {"startGate", "inactive", "onClaims", "onHolds"}
       \/ At(c, "stopGate") /\ call[c].op = "stop"
    /\ Return(c)
    /\ UNCHANGED <<lifeVars, agentVars, idleVars, callbackRuns>>

-----------------------------------------------------------------------------
Calls(c) ==
    \/ CallStart(c) \/ CallStop(c) \/ CloseBegin(c) \/ CallReply(c)
    \/ UpdateBegin(c) \/ ClaimBegin(c) \/ CallWait(c) \/ GiveUp(c) \/ StartFails(c)

Gate(c) == StartBegin(c) \/ StopIdle(c) \/ StopBegin(c)

Waits(c) ==
    \/ WaitRead(c) \/ WaitInactive(c) \/ WaitClosed(c) \/ WaitRecheck(c)
    \/ WaitClaims(c) \/ WaitReturns(c)

Works(c) ==
    \/ StartPublish(c) \/ Enter(c) \/ Entered(c) \/ Exit(c) \/ Cancel(c)
    \/ RunCallbacks(c) \/ CloseInterrupt(c) \/ CloseUninterrupted(c)
    \/ CloseEmit(c) \/ ReplySchedule(c) \/ ClaimEnd(c) \/ HoldBegin(c) \/ HoldEnd(c)

Next ==
    \/ \E c \in Caller : Calls(c) \/ Gate(c) \/ Waits(c) \/ Works(c)
    \/ \E a \in Activity : SpeechesEnd(a)

Spec == Init /\ [][Next]_vars

(* The goroutines run, the assistant's Start, OnEnter, OnExit and the      *)
(* callbacks return, speeches end unless their activity is paused, those   *)
(* that closeSoon has interrupted in any case, and the gate, a channel,    *)
(* serves its waiters in turn.  The callbacks of claims and holds owe      *)
(* nothing.                                                                *)
SpeechesMustEnd(a) ==
    /\ \/ acts[a].ready /\ ~acts[a].paused
       \/ \E c \in Caller : At(c, "speeches") /\ call[c].act = a
    /\ SpeechesEnd(a)

Fairness ==
    /\ \A c \in Caller :
          /\ SF_vars(Gate(c))
          /\ WF_vars(Waits(c))
          /\ WF_vars(StartPublish(c) \/ Enter(c) \/ Entered(c) \/ Exit(c)
                     \/ Cancel(c) \/ RunCallbacks(c) \/ CloseInterrupt(c)
                     \/ CloseUninterrupted(c) \/ CloseEmit(c)
                     \/ ReplySchedule(c) \/ HoldBegin(c))
    /\ \A a \in Activity : WF_vars(SpeechesMustEnd(a))

FairSpec == Spec /\ Fairness

-----------------------------------------------------------------------------
(* Properties                                                              *)

Places == {"idle", "startGate", "starting", "enter", "entering", "stopGate",
           "exit", "cancel", "callbacks", "interrupt", "speeches", "emit", "schedule",
           "claimed", "read", "inactive", "recheck", "claims", "onClaims",
           "onHolds", "hold", "held"}

TypeOK ==
    /\ gate \in Caller \cup {None}
    /\ started \in BOOLEAN /\ closing \in BOOLEAN
    /\ callbacksRan \in BOOLEAN
    /\ activity \in Made \cup {None}
    /\ acts \in [Activity -> [made : BOOLEAN, entered : Nat,
                              exited : Nat, paused : BOOLEAN,
                              cancelled : BOOLEAN, ready : BOOLEAN,
                              busy : BOOLEAN]]
    /\ claims \in Nat /\ holds \in Nat /\ outlived \in BOOLEAN
    /\ call \in [Caller -> [op : AllOps \cup {"none"}, at : Places,
                            act : Activity \cup {None},
                            next : Activity \cup {None},
                            found : Activity \cup {None},
                            callbacks : BOOLEAN]]
    /\ callbackRuns \in Nat

(* UpdateAgent, Stop: every activity that is neither the session's nor     *)
(* cancelled is in the hands of the call that took it out of the session,  *)
(* so that no agent goes on listening and speaking beside the current one. *)
NoStrayActivity ==
    \A a \in Made :
        \/ acts[a].cancelled \/ a = activity
        \/ \E c \in Caller : call[c].act = a /\ call[c].at \in {"exit", "cancel"}

(* Start, Stop, UpdateAgent: whichever of them race, OnEnter and OnExit    *)
(* run at most once for an activity.                                       *)
EnterExitOnce == \A a \in Activity : acts[a].entered <= 1 /\ acts[a].exited <= 1

(* stop: the pre-close callbacks run at most once for each Start, and once *)
(* a run of the session has been stopped they have run, whoever stopped    *)
(* it, however Stop, closeSoon and a failed Start race.                    *)
CallbacksOnce ==
    /\ callbackRuns <= 1
    /\ gate = None /\ ~started /\ Made # {} => callbackRuns = 1

(* Start, Stop, closeSoon and UpdateAgent, however they race, keep what a  *)
(* session promises its agents: SessionAgents, with the activities for the *)
(* agents.  Each is made once, entered and left at most once and left only *)
(* once replaced, and the callbacks run once between one run and the next. *)
Agents == INSTANCE SessionAgents WITH
              Agent <- Activity, agents <- Made, current <- activity,
              enters <- [a \in Activity |-> acts[a].entered],
              exits <- [a \in Activity |-> acts[a].exited],
              cleanups <- callbackRuns

HandsOverAgents == Agents!Spec

(* closeSoon: the close event comes after the cleanup.  Whatever stopped   *)
(* or restarted the session in the meantime, the activity that closeSoon   *)
(* found is cancelled and has left, or UpdateAgent is about to make it.    *)
CloseAfterCleanup ==
    [][\A c \in Caller : CloseEmit(c) =>
          LET a == call[c].found
          IN /\ acts[a].cancelled
             /\ \/ acts[a].exited = 1
                \/ \E d \in Caller : call[d].op = "update" /\ call[d].act = a]_vars

(* ClaimUserTurn, WaitForInactiveAndHold: WaitForInactive does not return  *)
(* while somebody claims the user's turn or holds the session idle, nested *)
(* as claims and holds may be; only after a Stop that some have outlived   *)
(* does the count say less than it should, until all of them have ended.   *)
WaitersRespectClaims ==
    [][\A c \in Caller :
          WaitReturns(c) /\ ~outlived =>
              \A d \in Caller : ~Occupies(d)]_vars

(* acquireLifecycle, WaitForInactive, Interrupt: nobody waits for what will*)
(* not come.  The gate is in the hands of a call that works its way to     *)
(* releasing it; a claim or a hold that is waited for is still counted and *)
(* its callback has yet to return; the speeches closeSoon waits for have   *)
(* not ended; and the activity that is to start has who will start it.     *)
Starts(k, a) == k.next = a \/ (k.at \in {"enter", "entering"} /\ k.act = a)

WaitsAnswered ==
    /\ gate # None => call[gate].at \in {"starting", "enter", "entering",
                                         "exit", "cancel", "callbacks"}
    /\ \A c \in Caller :
         /\ At(c, "onClaims") => claims > 0 /\ \E d \in Caller : At(d, "claimed")
         /\ At(c, "onHolds") => holds > 0 /\ \E d \in Caller : At(d, "held")
         /\ At(c, "speeches") => acts[call[c].act].busy
         /\ At(c, "inactive") /\ AwaitsStart(call[c].act) =>
              \E d \in Caller : Starts(call[d], call[c].act)

(* The callers that may do one of ops.                                     *)
Able(ops) == {c \in Caller : Ops[c] \cap ops # {}}

(* Start, Stop, closeSoon and UpdateAgent return, however they wait for    *)
(* the gate and for one another.                                           *)
CallsReturn ==
    \A c \in Able({"start", "stop", "close", "update"}) :
        call[c].op \in {"start", "stop", "close", "update"} ~>
            call[c].op = "none"

(* UpdateAgent, Stop: an activity that has been replaced is stopped.       *)
ReplacedExits ==
    \A a \in Activity :
        a \in Made /\ a # activity ~> acts[a].exited = 1 /\ acts[a].paused

(* stop closes the channels of claims and holds: nobody waits for ever for *)
(* a session that has been stopped, except for those who claim or hold it  *)
(* again.                                                                  *)
Waiting(c) == call[c].at \in {"read", "inactive", "recheck", "claims",
                              "onClaims", "onHolds"}

WaitersReleased ==
    <>[](~started /\ claims = 0 /\ holds = 0) =>
        \A c \in Able({"wait", "hold"}) : Waiting(c) ~> ~Waiting(c)
=============================================================================
