---------------------------- MODULE SpeechHandle ----------------------------
(***************************************************************************)
(* core/agent/speech_handle.go: the handle that follows one speech of the  *)
(* agent from its creation to its end.  A handle is a record; every method *)
(* that changes one is an operator from the old record to the new.  Each   *)
(* of them runs under the handle's mutex, so a use of one of these         *)
(* operators is one atomic step.                                           *)
(*                                                                         *)
(*   allow        AllowInterruptions                                       *)
(*   interrupted  interruptCh is closed                                    *)
(*   done         doneCh is closed                                         *)
(*   scheduled    scheduledCh is closed                                    *)
(*   timer        interruptTimer is armed                                  *)
(*   gens         number of channels in generationChs                      *)
(*   open         the indexes of generationChs that are not closed         *)
(*   steps        numSteps                                                 *)
(***************************************************************************)
EXTENDS Naturals

SpeechHandles ==
    [allow: BOOLEAN, interrupted: BOOLEAN, done: BOOLEAN, scheduled: BOOLEAN,
     timer: BOOLEAN, gens: Nat, open: SUBSET (Nat \ {0}), steps: Nat \ {0}]

NewSpeechHandle(allow) ==
    [allow |-> allow, interrupted |-> FALSE, done |-> FALSE,
     scheduled |-> FALSE, timer |-> FALSE, gens |-> 0, open |-> {},
     steps |-> 1]

(* ErrSpeechInterruptionsDisabled *)
RefusesInterrupt(s, force) == ~force /\ ~s.allow

(* The first interrupt of a speech that is not done closes interruptCh and *)
(* arms the timer that ends the speech after InterruptionTimeout.          *)
(* (Operators like InterruptNoTimer are mutants: what the code would be    *)
(* with a plausible bug.  No model uses them; the checks break with them.) *)
InterruptNoTimer(s, force) ==
    IF RefusesInterrupt(s, force) \/ s.interrupted \/ s.done
    THEN s
    ELSE [s EXCEPT !.interrupted = TRUE]

Interrupt(s, force) ==
    IF RefusesInterrupt(s, force) \/ s.interrupted \/ s.done
    THEN s
    ELSE [s EXCEPT !.interrupted = TRUE, !.timer = TRUE]

MarkScheduled(s) == [s EXCEPT !.scheduled = TRUE]

(* closeGenerationLocked(len(generationChs) - 1): only the newest one.     *)
CloseGeneration(s) == [s EXCEPT !.open = @ \ {s.gens}]

MarkGenerationDoneOffByOne(s) == [s EXCEPT !.open = @ \ {s.gens - 1}]

MarkGenerationDone(s) == CloseGeneration(s)

MarkDoneLeavesOpen(s) == [s EXCEPT !.done = TRUE, !.timer = FALSE]

MarkDone(s) == [CloseGeneration(s) EXCEPT !.done = TRUE, !.timer = FALSE]

AuthorizeGeneration(s) ==
    [s EXCEPT !.gens = @ + 1, !.open = @ \cup {s.gens + 1}]

IncrementStep(s) == [s EXCEPT !.steps = @ + 1]

GenerationSettled(s) == s.gens > 0 /\ s.gens \notin s.open

(* What a receive on generationChs[g - 1] waits for; g = 0 is the nil      *)
(* channel currentGenerationDone returns when there is no generation, and  *)
(* a receive from it never proceeds.                                       *)
GenerationClosed(s, g) == g > 0 /\ g \notin s.open
=============================================================================
