---------------------------- MODULE SpeechTurns ----------------------------
(***************************************************************************)
(* What the speech queue of an AgentActivity promises its callers: accepted*)
(* speeches take the turn one at a time, the most urgent first and in the  *)
(* order of arrival among equals, and a speech keeps the turn until it     *)
(* yields it.  How the turn is handed over (tokens, goroutines, callbacks, *)
(* waiters that help) is left open.                                        *)
(***************************************************************************)
EXTENDS Naturals

CONSTANTS Speech, Priorities

VARIABLES
    arrivals,   (* how many speeches have been accepted                    *)
    waiting,    (* those of them that wait for the turn                    *)
    turn        (* who has the turn: at most one speech                    *)

vars == <<arrivals, waiting, turn>>

Init == arrivals = 0 /\ waiting = {} /\ turn = {}

Accept(h, p) ==
    /\ arrivals' = arrivals + 1
    /\ waiting' = waiting \cup
                    {[speech |-> h, priority |-> p, seq |-> arrivals]}
    /\ UNCHANGED turn

(* Nobody still waiting is more urgent, or as urgent and earlier.          *)
First(e) ==
    \A f \in waiting :
        f.priority < e.priority \/ (f.priority = e.priority /\ e.seq <= f.seq)

(* The first speech in line takes the turn, or is dropped if it is over.   *)
Take ==
    /\ turn = {}
    /\ \E e \in waiting :
         /\ First(e)
         /\ waiting' = waiting \ {e}
         /\ turn' \in {{}, {e.speech}}
    /\ UNCHANGED arrivals

Yield ==
    /\ turn # {}
    /\ turn' = {}
    /\ UNCHANGED <<arrivals, waiting>>

Next ==
    \/ \E h \in Speech, p \in Priorities : Accept(h, p)
    \/ Take
    \/ Yield

Spec == Init /\ [][Next]_vars
=============================================================================
