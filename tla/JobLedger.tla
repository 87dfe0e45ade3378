----------------------------- MODULE JobLedger -----------------------------
(***************************************************************************)
(* What a worker promises of the jobs it is assigned, to its own Drain and *)
(* Close and to the server: a job is started once, and the worker answers  *)
(* for it from then until its clean-up; at most one final status is sent   *)
(* for it; and once Close has returned without an error the worker answers *)
(* for no job and starts none.  Who ends a job, and in how many steps, is  *)
(* left open.                                                              *)
(***************************************************************************)
EXTENDS Naturals

CONSTANT Job

VARIABLES
    started, (* jobs whose entrypoint has been started                     *)
    held,    (* jobs the worker answers for                                *)
    ended,   (* jobs that have been cleaned up                             *)
    reports, (* final statuses sent for each job                           *)
    final    (* Close has returned                                         *)

vars == <<started, held, ended, reports, final>>

Init ==
    /\ started = {} /\ held = {} /\ ended = {}
    /\ reports = [j \in Job |-> 0]
    /\ final = FALSE

Start(j) ==
    /\ ~final
    /\ started' = started \cup {j} /\ held' = held \cup {j}
    /\ UNCHANGED <<ended, reports, final>>

Report(j) ==
    /\ reports[j] = 0
    /\ reports' = [reports EXCEPT ![j] = 1]
    /\ UNCHANGED <<started, held, ended, final>>

End(j) ==
    /\ held' = held \ {j} /\ ended' = ended \cup {j}
    /\ UNCHANGED <<started, reports, final>>

Close ==
    /\ held = {}
    /\ final' = TRUE
    /\ UNCHANGED <<started, held, ended, reports>>

Next ==
    \/ \E j \in Job \ started : Start(j)
    \/ \E j \in started : Report(j)
    \/ \E j \in held : End(j)
    \/ Close

Spec == Init /\ [][Next]_vars
=============================================================================
