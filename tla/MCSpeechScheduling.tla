------------------------ MODULE MCSpeechScheduling ------------------------
(* Small instances of SpeechScheduling for TLC.                            *)
EXTENDS SpeechScheduling, TLC

CONSTANTS a, b, c

Symmetry == Permutations(Speech)

(* For liveness, which does not go with SYMMETRY: b is used after a, which *)
(* leaves out mirror images only; and the user, whom nobody but a waiter   *)
(* looks at, acts when one looks or waits, as if he had acted before.      *)
(* Both restrict only the environment, to which no fairness is owed.       *)
EnvironmentOfDrain ==
    /\ Fresh(a) => Fresh(b)'
    /\ UserTurn \/ CommitUserTurn =>
          \E w \in Waiters : waiter[w].at \in {"snapshot", "user"}

=============================================================================
