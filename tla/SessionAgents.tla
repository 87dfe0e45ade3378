--------------------------- MODULE SessionAgents ---------------------------
(***************************************************************************)
(* What a session promises the agents that are handed to it, and its       *)
(* owner: it has at most one agent, which is never one it has had before;  *)
(* OnEnter and OnExit are called at most once for each, OnExit only when   *)
(* the session has moved on; and the pre-close callbacks run once for each *)
(* Start, between the end of that run and the next Start.  Which call does *)
(* what, and how calls that race exclude each other, is left open; so is   *)
(* whether an agent that is replaced at once is entered before it is left. *)
(***************************************************************************)
EXTENDS Naturals

CONSTANTS Agent, None

VARIABLES
    agents,     (* those the session has had so far                        *)
    current,    (* the one it has now, or None                             *)
    enters, exits, (* how often OnEnter and OnExit were called for each    *)
    cleanups    (* how often the callbacks have run since the last Start   *)

vars == <<agents, current, enters, exits, cleanups>>

Init ==
    /\ agents = {} /\ current = None
    /\ enters = [a \in Agent |-> 0] /\ exits = [a \in Agent |-> 0]
    /\ cleanups = 0

(* A run of the session starts: an earlier one has been cleaned up.        *)
Start(a) ==
    /\ current = None /\ (agents = {} \/ cleanups = 1)
    /\ agents' = agents \cup {a} /\ current' = a
    /\ cleanups' = 0
    /\ UNCHANGED <<enters, exits>>

Replace(a) ==
    /\ current # None
    /\ agents' = agents \cup {a} /\ current' = a
    /\ UNCHANGED <<enters, exits, cleanups>>

Stop ==
    /\ current # None
    /\ current' = None
    /\ UNCHANGED <<agents, enters, exits, cleanups>>

OnEnter(a) ==
    /\ enters[a] = 0
    /\ enters' = [enters EXCEPT ![a] = 1]
    /\ UNCHANGED <<agents, current, exits, cleanups>>

OnExit(a) ==
    /\ a # current /\ exits[a] = 0
    /\ exits' = [exits EXCEPT ![a] = 1]
    /\ UNCHANGED <<agents, current, enters, cleanups>>

CleanUp ==
    /\ current = None /\ cleanups = 0
    /\ cleanups' = 1
    /\ UNCHANGED <<agents, current, enters, exits>>

Next ==
    \/ \E a \in Agent \ agents : Start(a) \/ Replace(a)
    \/ \E a \in agents : OnEnter(a) \/ OnExit(a)
    \/ Stop \/ CleanUp

Spec == Init /\ [][Next]_vars
=============================================================================
