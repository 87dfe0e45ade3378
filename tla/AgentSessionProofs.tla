-------------------------- MODULE AgentSessionProofs --------------------------
(***************************************************************************)
(* For any finite set of callers, whatever they do, and any number of      *)
(* activities: the types, that no activity is left running beside the      *)
(* session's, that OnEnter, OnExit and the callbacks run once, that the    *)
(* close event follows the cleanup, that WaitForInactive respects claims   *)
(* and holds, that the session implements SessionAgents, and that nobody   *)
(* waits for what will not come.                                           *)
(***************************************************************************)
EXTENDS AgentSession, FiniteSetTheorems, TLAPS

Stops   == {"stop", "close"}
Leaving == {"exit", "cancel"}

(* A call record that has the session's gate.                              *)
HoldsGate(k) ==
    \/ k.at \in {"starting", "callbacks"}
    \/ k.at \in {"enter", "entering"} /\ k.op = "start"
    \/ k.at \in Leaving /\ k.op \in Stops

(* Operations and places, and what each knows; M are the activities made.  *)
Shape(k, M) ==
    /\ k.at \in {"startGate", "starting"} => k.op = "start" /\ k.next \in Activity \ M
    /\ k.at \in {"enter", "entering"} => k.op \in {"start", "update"} /\ k.act \in M
    /\ k.at \in Leaving => k.op \in Stops \cup {"update"} /\ k.act \in M
    /\ k.at \in Leaving /\ k.op = "update" => k.next \in M
    /\ k.at \in {"stopGate", "callbacks"} => k.op \in Stops
    /\ k.at \in {"interrupt", "speeches", "emit"} => k.op = "close"
    /\ k.at \in {"interrupt", "speeches", "schedule", "inactive"} => k.act \in M
    /\ k.op = "close" => k.found \in M
    /\ k.next # None => k.at \in {"startGate", "starting"} \/ (k.at \in Leaving /\ k.op = "update")
    /\ k.callbacks => k.at = "callbacks" \/ (k.at \in Leaving /\ k.op \in Stops)

GateInv == \A c \in Caller : HoldsGate(call[c]) <=> gate = c

(* The session has an activity while it is started, and Start finds it     *)
(* stopped until it publishes its own.                                     *)
StartedInv ==
    /\ started <=> activity # None
    /\ \A c \in Caller : At(c, "starting") => ~started
    /\ ~started => \A a \in Made : acts[a].cancelled

(* Each activity has at most one call that is going to enter it ...        *)
WillEnter(k, a) == (k.at = "enter" /\ k.act = a) \/ k.next = a

EnterInv ==
    /\ \A a \in Activity \ Made : acts[a] = NoActivity
    /\ \A a \in Activity : acts[a].entered <= 1
    /\ \A c \in Caller, a \in Activity : WillEnter(call[c], a) => acts[a].entered = 0
    /\ \A c, d \in Caller, a \in Activity :
          WillEnter(call[c], a) /\ WillEnter(call[d], a) => c = d

(* ... and, once replaced, exactly one that will leave it or has left it.  *)
WillExit(k, a) == k.at = "exit" /\ k.act = a

ExitInv ==
    /\ \A a \in Activity : acts[a].exited <= 1
    /\ \A a \in Made : acts[a].exited = 0 /\ a # activity =>
          \E c \in Caller : WillExit(call[c], a)
    /\ \A a \in Activity : a = activity => acts[a].exited = 0
    /\ \A c \in Caller, a \in Activity : WillExit(call[c], a) => acts[a].exited = 0 /\ a # activity
    /\ \A c, d \in Caller, a \in Activity :
          WillExit(call[c], a) /\ WillExit(call[d], a) => c = d

(* A closeSoon that has passed the gate has found its activity cancelled,  *)
(* and it, or an UpdateAgent, leaves it.                                   *)
Cleaned(k) ==
    /\ acts[k.found].cancelled
    /\ \/ acts[k.found].exited = 1
       \/ WillExit(k, k.found)
       \/ \E d \in Caller : call[d].op = "update" /\ WillExit(call[d], k.found)

CloseInv ==
    \A c \in Caller :
        call[c].op = "close" /\ call[c].at \in Leaving \cup {"callbacks", "emit"} => Cleaned(call[c])

(* The callbacks have run or will be run by who has the gate.              *)
Pending == \E c \in Caller : call[c].callbacks

CallbacksInv ==
    /\ ~callbacksRan => callbackRuns = 0 /\ ~Pending
    /\ callbacksRan => (Pending /\ callbackRuns = 0) \/ (~Pending /\ callbackRuns = 1)
    /\ ~started /\ Made # {} => callbacksRan

(* Unless a Stop has dropped them, claims and holds are counted, and never *)
(* more of them than there are.                                            *)
CountInv ==
    /\ claims <= Cardinality({c \in Caller : At(c, "claimed")})
    /\ holds <= Cardinality({c \in Caller : At(c, "held")})
    /\ ~outlived => /\ claims = Cardinality({c \in Caller : At(c, "claimed")})
                    /\ holds = Cardinality({c \in Caller : At(c, "held")})

IInv ==
    /\ TypeOK /\ \A c \in Caller : Shape(call[c], Made)
    /\ GateInv /\ StartedInv /\ EnterInv /\ ExitInv /\ NoStrayActivity
    /\ CloseInv /\ CallbacksInv /\ CountInv
-----------------------------------------------------------------------------
(* Records of calls and of activities, and how an action changes them.    *)
CallRec == [op : AllOps \cup {"none"}, at : Places, act : Activity \cup {None},
            next : Activity \cup {None}, found : Activity \cup {None},
            callbacks : BOOLEAN]

ActRec == [made : BOOLEAN, entered : Nat, exited : Nat, paused : BOOLEAN,
           cancelled : BOOLEAN, ready : BOOLEAN, busy : BOOLEAN]

(* Of the calls only c's changes, and becomes k.                           *)
Moves(c, k) ==
    /\ k \in CallRec
    /\ call' \in [Caller -> CallRec]
    /\ call'[c] = k
    /\ \A d \in Caller \ {c} : call'[d] = call[d]

LEMMA CallOf ==
    ASSUME TypeOK, NEW c \in Caller
    PROVE  /\ call[c] \in CallRec /\ call \in [Caller -> CallRec]
           /\ call[c].op \in AllOps \cup {"none"} /\ call[c].at \in Places
           /\ call[c].act \in Activity \cup {None}
           /\ call[c].next \in Activity \cup {None}
           /\ call[c].found \in Activity \cup {None}
           /\ call[c].callbacks \in BOOLEAN
BY DEF TypeOK, CallRec

LEMMA IdleIs ==
    /\ Idle \in CallRec /\ Idle.op = "none" /\ Idle.at = "idle" /\ Idle.act = None
    /\ Idle.next = None /\ Idle.found = None /\ Idle.callbacks = FALSE
BY DEF Idle, CallRec, Places

LEMMA NoneOutside == None \notin Activity /\ None \notin Made
BY SessionAssumption DEF Made

LEMMA GotoMoves ==
    ASSUME TypeOK, NEW c \in Caller, NEW p \in Places, Goto(c, p)
    PROVE  \E k : /\ Moves(c, k) /\ k.at = p
                  /\ k.op = call[c].op /\ k.act = call[c].act /\ k.next = call[c].next
                  /\ k.found = call[c].found /\ k.callbacks = call[c].callbacks
<1> DEFINE k == [call[c] EXCEPT !.at = p]
<1>1. call[c] \in CallRec /\ call \in [Caller -> CallRec]
  BY CallOf
<1>2. /\ k \in CallRec /\ k.at = p
      /\ k.op = call[c].op /\ k.act = call[c].act /\ k.next = call[c].next
      /\ k.found = call[c].found /\ k.callbacks = call[c].callbacks
  BY <1>1 DEF CallRec
<1>3. call' = [call EXCEPT ![c] = k]
  BY <1>1 DEF Goto
<1>4. Moves(c, k)
  BY <1>1, <1>2, <1>3 DEF Moves
<1>5. QED
  BY <1>2, <1>4

LEMMA ReturnMoves ==
    ASSUME TypeOK, NEW c \in Caller, Return(c)
    PROVE  Moves(c, Idle)
<1>1. call \in [Caller -> CallRec]
  BY CallOf
<1>2. QED
  BY <1>1, IdleIs DEF Return, Moves

Begun(op, p, a, n) == [Idle EXCEPT !.op = op, !.at = p, !.act = a, !.next = n]

LEMMA BegunIs ==
    ASSUME NEW op \in AllOps, NEW p \in Places,
           NEW a, NEW n, a \in Activity \/ a = None, n \in Activity \/ n = None
    PROVE  /\ Begun(op, p, a, n) \in CallRec
           /\ Begun(op, p, a, n).at = p /\ Begun(op, p, a, n).op = op
           /\ Begun(op, p, a, n).act = a /\ Begun(op, p, a, n).next = n
           /\ Begun(op, p, a, n).found = None /\ ~Begun(op, p, a, n).callbacks
BY IdleIs DEF CallRec, Begun

LEMMA BeginMoves ==
    ASSUME TypeOK, NEW c \in Caller, NEW op \in AllOps, NEW p \in Places,
           NEW a, NEW n, a \in Activity \/ a = None, n \in Activity \/ n = None,
           Begin(c, op, p, a, n)
    PROVE  call[c].at = "idle" /\ Moves(c, Begun(op, p, a, n))
<1>1. call \in [Caller -> CallRec]
  BY CallOf
<1>2. call' = [call EXCEPT ![c] = Begun(op, p, a, n)] /\ call[c].at = "idle"
  BY DEF Begin, At, Begun
<1>3. QED
  BY <1>1, <1>2, BegunIs DEF Moves

(* A change of two fields: of the place and of the activity.               *)
Placed(k, p, a) == [k EXCEPT !.at = p, !.act = a]

LEMMA PlacedIs ==
    ASSUME NEW k \in CallRec, NEW p \in Places, NEW a, a \in Activity \/ a = None
    PROVE  /\ Placed(k, p, a) \in CallRec
           /\ Placed(k, p, a).at = p /\ Placed(k, p, a).act = a
           /\ Placed(k, p, a).op = k.op /\ Placed(k, p, a).next = k.next
           /\ Placed(k, p, a).found = k.found
           /\ Placed(k, p, a).callbacks <=> k.callbacks
BY DEF CallRec, Placed

LEMMA PlaceMoves ==
    ASSUME TypeOK, NEW c \in Caller, NEW p \in Places, NEW a, a \in Activity \/ a = None,
           call' = [call EXCEPT ![c].at = p, ![c].act = a]
    PROVE  Moves(c, Placed(call[c], p, a))
<1>1. call[c] \in CallRec /\ call \in [Caller -> CallRec]
  BY CallOf
<1>2. call' = [call EXCEPT ![c] = Placed(call[c], p, a)]
  BY DEF Placed
<1>3. Placed(call[c], p, a) \in CallRec
  BY <1>1, PlacedIs
<1>4. QED
  BY <1>1, <1>2, <1>3 DEF Moves

-----------------------------------------------------------------------------
(* Types in parts.                                                         *)
LifeOK ==
    /\ gate \in Caller \cup {None}
    /\ started \in BOOLEAN /\ closing \in BOOLEAN /\ callbacksRan \in BOOLEAN
    /\ callbackRuns \in Nat

ActsOK == activity \in Made \cup {None} /\ acts \in [Activity -> ActRec]

IdleOK == claims \in Nat /\ holds \in Nat /\ outlived \in BOOLEAN

CallOK == call \in [Caller -> CallRec]

LEMMA TypeParts == TypeOK <=> LifeOK /\ ActsOK /\ IdleOK /\ CallOK
BY DEF TypeOK, LifeOK, ActsOK, IdleOK, CallOK, CallRec, ActRec

LEMMA TypePartsNext == TypeOK' <=> LifeOK' /\ ActsOK' /\ IdleOK' /\ CallOK'
BY DEF TypeOK, LifeOK, ActsOK, IdleOK, CallOK, CallRec, ActRec

LEMMA SameParts ==
    /\ LifeOK /\ UNCHANGED <<lifeVars, callbackRuns>> => LifeOK'
    /\ ActsOK /\ UNCHANGED agentVars => ActsOK'
    /\ IdleOK /\ UNCHANGED idleVars => IdleOK'
<1>1. LifeOK /\ UNCHANGED <<lifeVars, callbackRuns>> => LifeOK'
  BY DEF LifeOK, lifeVars
<1>2. ActsOK /\ UNCHANGED agentVars => ActsOK'
  BY DEF ActsOK, agentVars, Made
<1>3. IdleOK /\ UNCHANGED idleVars => IdleOK'
  BY DEF IdleOK, idleVars
<1>4. QED
  BY <1>1, <1>2, <1>3

LEMMA MovesCallOK == \A c, k : Moves(c, k) => CallOK'
BY DEF Moves, CallOK

-----------------------------------------------------------------------------
(* Calls with no duty in the lifecycle.                                    *)
PlainAt == {"idle", "stopGate", "interrupt", "speeches", "schedule", "claimed", "read",
            "inactive", "recheck", "claims", "onClaims", "onHolds", "hold", "held"}

Plain(k) == k.at \in PlainAt /\ k.next = None /\ ~k.callbacks

(* A call that may give up what it was about to do.                        *)
Retires(k) ==
    Plain(k) \/ k.at \in {"emit", "startGate"} \/ (k.at = "entering" /\ k.op = "update")

LEMMA PlainHasNoDuty ==
    ASSUME NEW k, Plain(k)
    PROVE  /\ ~HoldsGate(k) /\ ~k.callbacks
           /\ \A a \in Activity : ~WillEnter(k, a) /\ ~WillExit(k, a)
           /\ k.at \notin Leaving \cup {"callbacks", "emit", "starting"}
BY NoneOutside DEF Plain, PlainAt, HoldsGate, Leaving, WillEnter, WillExit

LEMMA RetiresIsFree ==
    ASSUME NEW k, NEW M, k \in CallRec, Shape(k, M), Retires(k)
    PROVE  /\ ~HoldsGate(k) /\ ~k.callbacks
           /\ \A a \in Activity : ~WillExit(k, a)
           /\ k.at \notin Leaving \cup {"callbacks", "starting"}
BY DEF Retires, Plain, PlainAt, HoldsGate, Leaving, WillExit, Shape, CallRec, Stops

LEMMA PlainOf ==
    ASSUME NEW k, NEW M, k \in CallRec, Shape(k, M), k.at \in PlainAt
    PROVE  Plain(k)
BY DEF Plain, PlainAt, Shape, CallRec, Leaving

-----------------------------------------------------------------------------
(* What keeps each part of the invariant.                                  *)

(* The activities made are the same; none is revived, entered or left.     *)
StillMade ==
    /\ Made' = Made
    /\ \A a \in Activity : acts[a].cancelled => acts'[a].cancelled

SameEntered ==
    \A a \in Activity : /\ acts'[a].entered = acts[a].entered
                        /\ a \notin Made => acts'[a] = acts[a]

SameExited == \A a \in Activity : acts'[a].exited = acts[a].exited

SameActs == StillMade /\ SameEntered /\ SameExited

LEMMA GateKept ==
    ASSUME GateInv, gate' = gate,
           \A c \in Caller : HoldsGate(call'[c]) <=> HoldsGate(call[c])
    PROVE  GateInv'
BY DEF GateInv, HoldsGate, Leaving, Stops

LEMMA GateTaken ==
    ASSUME TypeOK, GateInv, NEW c \in Caller, gate = None, gate' = c, HoldsGate(call'[c]),
           \A d \in Caller \ {c} : HoldsGate(call'[d]) <=> HoldsGate(call[d])
    PROVE  GateInv'
BY SessionAssumption DEF GateInv, HoldsGate, Leaving, Stops

LEMMA GateReleased ==
    ASSUME TypeOK, GateInv, NEW c \in Caller, HoldsGate(call[c]), gate' = None,
           ~HoldsGate(call'[c]),
           \A d \in Caller \ {c} : HoldsGate(call'[d]) <=> HoldsGate(call[d])
    PROVE  GateInv'
BY SessionAssumption DEF GateInv, HoldsGate, Leaving, Stops

LEMMA StartedKept ==
    ASSUME StartedInv, started' = started, activity' = activity, StillMade,
           \A c \in Caller : call'[c].at = "starting" => call[c].at = "starting"
    PROVE  StartedInv'
BY DEF StartedInv, StillMade, At, Made

LEMMA EnterKept ==
    ASSUME EnterInv, Made' = Made, SameEntered,
           \A c \in Caller, a \in Activity : WillEnter(call'[c], a) => WillEnter(call[c], a)
    PROVE  EnterInv'
BY DEF EnterInv, SameEntered, WillEnter

LEMMA ExitKept ==
    ASSUME ExitInv, activity' = activity, Made' = Made, SameExited,
           \A c \in Caller, a \in Activity : WillExit(call'[c], a) <=> WillExit(call[c], a)
    PROVE  ExitInv'
BY DEF ExitInv, SameExited, WillExit, Made

(* An activity's leaving call stays one, or the activity is cancelled.     *)
LEMMA StrayKept ==
    ASSUME NoStrayActivity, activity' = activity, StillMade,
           \A c \in Caller : call[c].at \in Leaving =>
              \/ call'[c].at \in Leaving /\ call'[c].act = call[c].act
              \/ acts'[call[c].act].cancelled
    PROVE  NoStrayActivity'
BY DEF NoStrayActivity, StillMade, Leaving, Made

LEMMA CloseKept ==
    ASSUME CloseInv, StillMade, SameExited, \A c \in Caller : call[c].op = "close" => call[c].found \in Activity,
           \A c \in Caller, a \in Activity : WillExit(call[c], a) =>
              WillExit(call'[c], a) /\ call'[c].op = call[c].op,
           \A c \in Caller :
              call'[c].op = "close" /\ call'[c].at \in Leaving \cup {"callbacks", "emit"} =>
                 /\ call[c].op = "close" /\ call[c].at \in Leaving \cup {"callbacks", "emit"}
                 /\ call'[c].found = call[c].found
    PROVE  CloseInv'
BY DEF CloseInv, StillMade, SameExited, Cleaned, WillExit, Leaving

LEMMA CallbacksKept ==
    ASSUME CallbacksInv, started' = started, callbacksRan' = callbacksRan, Made' = Made,
           callbackRuns' = callbackRuns,
           \A c \in Caller : call'[c].callbacks <=> call[c].callbacks
    PROVE  CallbacksInv'
BY DEF CallbacksInv, Pending

LEMMA CountKept ==
    ASSUME CountInv, UNCHANGED idleVars,
           \A c \in Caller : /\ call'[c].at = "claimed" <=> call[c].at = "claimed"
                             /\ call'[c].at = "held" <=> call[c].at = "held"
    PROVE  CountInv'
<1>1. {c \in Caller : At(c, "claimed")}' = {c \in Caller : At(c, "claimed")}
  BY DEF At
<1>2. {c \in Caller : At(c, "held")}' = {c \in Caller : At(c, "held")}
  BY DEF At
<1>3. QED
  BY <1>1, <1>2 DEF CountInv, idleVars

-----------------------------------------------------------------------------
(* The steps that change nothing of the lifecycle: a call that may give up *)
(* what it was about to do becomes one without a duty.                     *)
Neutral ==
    /\ UNCHANGED <<gate, started, callbacksRan, activity, callbackRuns>>
    /\ SameActs
    /\ \A c \in Caller : call'[c] = call[c] \/ (Retires(call[c]) /\ Plain(call'[c]))

LEMMA NeutralKeeps ==
    ASSUME IInv, Neutral, TypeOK', \A c \in Caller : Shape(call'[c], Made'), CountInv'
    PROVE  IInv'
<1>1. \A c \in Caller : \/ call'[c] = call[c]
                        \/ /\ ~HoldsGate(call[c]) /\ ~HoldsGate(call'[c])
                           /\ ~call[c].callbacks /\ ~call'[c].callbacks
                           /\ \A a \in Activity : ~WillEnter(call'[c], a) /\ ~WillExit(call'[c], a)
                           /\ \A a \in Activity : ~WillExit(call[c], a)
                           /\ call'[c].at \notin Leaving \cup {"callbacks", "emit", "starting"}
                           /\ call[c].at \notin Leaving \cup {"callbacks", "starting"}
  <2> SUFFICES ASSUME NEW c \in Caller, call'[c] # call[c]
               PROVE  /\ ~HoldsGate(call[c]) /\ ~HoldsGate(call'[c])
                      /\ ~call[c].callbacks /\ ~call'[c].callbacks
                      /\ \A a \in Activity : ~WillEnter(call'[c], a) /\ ~WillExit(call'[c], a)
                      /\ \A a \in Activity : ~WillExit(call[c], a)
                      /\ call'[c].at \notin Leaving \cup {"callbacks", "emit", "starting"}
                      /\ call[c].at \notin Leaving \cup {"callbacks", "starting"}
    OBVIOUS
  <2>1. Retires(call[c]) /\ Plain(call'[c])
    BY DEF Neutral
  <2>2. call[c] \in CallRec /\ Shape(call[c], Made)
    BY CallOf DEF IInv
  <2>3. QED
    BY <2>1, <2>2, PlainHasNoDuty, RetiresIsFree
<1>2. GateInv'
  <2>1. \A c \in Caller : HoldsGate(call'[c]) <=> HoldsGate(call[c])
    BY <1>1
  <2>2. QED
    BY <2>1, GateKept DEF IInv, Neutral, SameActs, StillMade
<1>3. StartedInv'
  <2>1. \A c \in Caller : call'[c].at = "starting" => call[c].at = "starting"
    BY <1>1
  <2>2. QED
    BY <2>1, StartedKept DEF IInv, Neutral, SameActs, StillMade
<1>4. EnterInv'
  <2>1. \A c \in Caller, a \in Activity : WillEnter(call'[c], a) => WillEnter(call[c], a)
    BY <1>1
  <2>2. QED
    BY <2>1, EnterKept DEF IInv, Neutral, SameActs, StillMade
<1>5. \A c \in Caller, a \in Activity : WillExit(call'[c], a) <=> WillExit(call[c], a)
  BY <1>1
<1>6. ExitInv'
  BY <1>5, ExitKept DEF IInv, Neutral, SameActs, StillMade
<1>7. NoStrayActivity'
  <2>1. \A c \in Caller : call[c].at \in Leaving =>
              call'[c].at \in Leaving /\ call'[c].act = call[c].act
    BY <1>1
  <2>2. QED
    BY <2>1, StrayKept DEF IInv, Neutral, SameActs, StillMade
<1>8. CloseInv'
  <2>1. \A c \in Caller : call[c].op = "close" => call[c].found \in Activity
    BY DEF IInv, Shape, Made
  <2>2. \A c \in Caller, a \in Activity : WillExit(call[c], a) =>
              WillExit(call'[c], a) /\ call'[c].op = call[c].op
    BY <1>1
  <2>3. \A c \in Caller :
              call'[c].op = "close" /\ call'[c].at \in Leaving \cup {"callbacks", "emit"} =>
                 /\ call[c].op = "close" /\ call[c].at \in Leaving \cup {"callbacks", "emit"}
                 /\ call'[c].found = call[c].found
    BY <1>1
  <2>4. QED
    BY <2>1, <2>2, <2>3, CloseKept DEF IInv, Neutral, SameActs, StillMade
<1>9. CallbacksInv'
  <2>1. \A c \in Caller : call'[c].callbacks <=> call[c].callbacks
    BY <1>1
  <2>2. QED
    BY <2>1, CallbacksKept DEF IInv, Neutral, SameActs, StillMade
<1>10. (\A c \in Caller : Shape(call[c], Made))'
  BY DEF Shape, Leaving, Stops
<1>11. QED
  BY <1>2, <1>3, <1>4, <1>6, <1>7, <1>8, <1>9, <1>10 DEF IInv

LEMMA IdleIsPlain == Plain(Idle) /\ \A M : Shape(Idle, M)
BY IdleIs, NoneOutside DEF Plain, PlainAt, Shape, Leaving, Stops

LEMMA NoActsChange == TypeOK /\ UNCHANGED agentVars => SameActs /\ ActsOK'
BY SameParts, TypeParts DEF SameActs, StillMade, SameEntered, SameExited, agentVars, Made

(* One call moves, neither from nor to a claim or a hold.                  *)
LEMMA NeutralMove ==
    ASSUME IInv, NEW c \in Caller, NEW k, Moves(c, k),
           Retires(call[c]), Plain(k), Shape(k, Made),
           UNCHANGED <<gate, started, callbacksRan, callbackRuns, activity>>,
           closing' \in BOOLEAN, SameActs, ActsOK', UNCHANGED idleVars,
           call[c].at \notin {"claimed", "held"}, k.at \notin {"claimed", "held"}
    PROVE  IInv'
<1>1. LifeOK /\ IdleOK
  BY TypeParts DEF IInv
<1>2. TypeOK'
  <2>1. LifeOK'
    BY <1>1 DEF LifeOK
  <2>2. IdleOK'
    BY <1>1, SameParts
  <2>3. QED
    BY <2>1, <2>2, MovesCallOK, TypePartsNext
<1>3. \A d \in Caller : Shape(call'[d], Made')
  BY DEF IInv, Moves, SameActs, StillMade
<1>4. CountInv'
  <2>1. \A d \in Caller : /\ call'[d].at = "claimed" <=> call[d].at = "claimed"
                          /\ call'[d].at = "held" <=> call[d].at = "held"
    BY DEF Moves
  <2>2. QED
    BY <2>1, CountKept DEF IInv
<1>5. Neutral
  BY DEF Neutral, Moves
<1>6. QED
  BY <1>2, <1>3, <1>4, <1>5, NeutralKeeps

(* ... and returns.                                                        *)
LEMMA NeutralReturn ==
    ASSUME IInv, NEW c \in Caller, Return(c), Retires(call[c]),
           UNCHANGED <<gate, started, closing, callbacksRan, callbackRuns, activity>>,
           SameActs, ActsOK', UNCHANGED idleVars, call[c].at \notin {"claimed", "held"}
    PROVE  IInv'
<1>1. TypeOK /\ closing' \in BOOLEAN
  BY DEF IInv, TypeOK
<1>2. Moves(c, Idle)
  BY <1>1, ReturnMoves
<1>3. QED
  BY <1>1, <1>2, IdleIsPlain, IdleIs, NeutralMove

(* ... or goes from one place without a duty to another.                   *)
LEMMA NeutralGoto ==
    ASSUME IInv, NEW c \in Caller, NEW p \in Places, Goto(c, p), call[c].at \in PlainAt,
           p \in PlainAt \ {"claimed", "held"}, call[c].at \notin {"claimed", "held"},
           UNCHANGED <<gate, started, closing, callbacksRan, callbackRuns, agentVars>>,
           UNCHANGED idleVars,
           p \in {"stopGate", "interrupt", "speeches"} => call[c].op = "close",
           p \in {"interrupt", "speeches", "schedule", "inactive"} => call[c].act \in Made
    PROVE  IInv'
<1>1. TypeOK /\ closing' \in BOOLEAN /\ Shape(call[c], Made) /\ call[c] \in CallRec
  BY CallOf DEF IInv, TypeOK
<1>2. PICK k : /\ Moves(c, k) /\ k.at = p
               /\ k.op = call[c].op /\ k.act = call[c].act /\ k.next = call[c].next
               /\ k.found = call[c].found /\ k.callbacks = call[c].callbacks
  BY <1>1, GotoMoves
<1>3. Plain(call[c])
  BY <1>1, PlainOf
<1>4. Plain(k) /\ Retires(call[c])
  BY <1>2, <1>3 DEF Plain, Retires
<1>5. Shape(k, Made)
  BY <1>1, <1>2, <1>3 DEF Shape, Plain, PlainAt, Leaving, Stops
<1>6. UNCHANGED <<gate, started, callbacksRan, callbackRuns, activity>> /\ UNCHANGED agentVars
  BY DEF agentVars
<1>7. QED
  BY <1>1, <1>2, <1>4, <1>5, <1>6, NoActsChange, NeutralMove

(* ... or begins an operation that owes nothing yet.                       *)
LEMMA NeutralBegin ==
    ASSUME IInv, NEW c \in Caller, NEW op \in AllOps, NEW p \in Places,
           NEW a, a \in Activity \/ a = None, Begin(c, op, p, a, None),
           op # "close", p \in PlainAt \ {"claimed", "held", "interrupt", "speeches"},
           p = "stopGate" => op = "stop", p \in {"schedule", "inactive"} => a \in Made,
           UNCHANGED <<lifeVars, agentVars, idleVars, callbackRuns>>
    PROVE  IInv'
<1>1. TypeOK /\ closing \in BOOLEAN
  BY DEF IInv, TypeOK
<1> DEFINE k == Begun(op, p, a, None)
<1>2. call[c].at = "idle" /\ Moves(c, k)
  BY <1>1, BeginMoves
<1>3. k \in CallRec /\ k.at = p /\ k.op = op /\ k.act = a /\ k.next = None /\ k.found = None
  BY BegunIs
<1>4. ~k.callbacks
  BY BegunIs
<1> HIDE DEF k
<1>5. Plain(k)
  BY <1>3, <1>4 DEF Plain
<1>6. Retires(call[c])
  BY <1>1, <1>2, CallOf, PlainOf DEF IInv, PlainAt, Retires
<1>7. Shape(k, Made)
  BY <1>3, <1>4, <1>5 DEF Shape, Plain, PlainAt, Leaving, Stops
<1>8. /\ UNCHANGED <<gate, started, callbacksRan, callbackRuns, activity>>
      /\ closing' \in BOOLEAN /\ UNCHANGED agentVars /\ UNCHANGED idleVars
  BY <1>1 DEF agentVars, lifeVars
<1>9. QED
  BY <1>1, <1>2, <1>3, <1>5, <1>6, <1>7, <1>8, NoActsChange, NeutralMove

(* ... or goes from one place to another with another activity.            *)
LEMMA NeutralPlaced ==
    ASSUME IInv, NEW c \in Caller, NEW p \in Places, NEW a, a \in Activity \/ a = None,
           call' = [call EXCEPT ![c].at = p, ![c].act = a],
           call[c].at \in PlainAt \ {"claimed", "held"},
           p \in PlainAt \ {"claimed", "held", "interrupt", "speeches", "schedule"},
           p = "stopGate" => call[c].op = "close", p = "inactive" => a \in Made,
           UNCHANGED <<lifeVars, agentVars, idleVars, callbackRuns>>
    PROVE  IInv'
<1>1. TypeOK /\ call[c] \in CallRec /\ Shape(call[c], Made) /\ closing \in BOOLEAN
  BY CallOf DEF IInv, TypeOK
<1> DEFINE k == Placed(call[c], p, a)
<1>2. Moves(c, k)
  BY <1>1, PlaceMoves
<1>3. /\ k.at = p /\ k.act = a /\ k.op = call[c].op /\ k.next = call[c].next
      /\ k.found = call[c].found /\ (k.callbacks <=> call[c].callbacks)
  BY <1>1, PlacedIs
<1> HIDE DEF k
<1>4. Plain(call[c])
  BY <1>1, PlainOf
<1>5. Plain(k) /\ Retires(call[c])
  BY <1>3, <1>4 DEF Plain, Retires
<1>6. Shape(k, Made)
  BY <1>1, <1>3, <1>4, <1>5 DEF Shape, Plain, PlainAt, Leaving, Stops
<1>7. /\ UNCHANGED <<gate, started, callbacksRan, callbackRuns, activity>>
      /\ closing' \in BOOLEAN /\ UNCHANGED agentVars /\ UNCHANGED idleVars
  BY <1>1 DEF agentVars, lifeVars
<1>8. QED
  BY <1>1, <1>2, <1>3, <1>5, <1>6, <1>7, NoActsChange, NeutralMove

-----------------------------------------------------------------------------
(* The actions without a duty, first the calls that begin.                 *)
LEMMA CallStopKeeps ==
    ASSUME IInv, NEW c \in Caller, CallStop(c)
    PROVE  IInv'
BY NeutralBegin DEF CallStop, AllOps, Places, PlainAt

LEMMA CallReplyKeeps ==
    ASSUME IInv, NEW c \in Caller, CallReply(c)
    PROVE  IInv'
<1>1. activity \in Made /\ activity \in Activity
  BY DEF CallReply, IInv, TypeOK, Made
<1>2. QED
  BY <1>1, NeutralBegin DEF CallReply, AllOps, Places, PlainAt

LEMMA CallWaitKeeps ==
    ASSUME IInv, NEW c \in Caller, CallWait(c)
    PROVE  IInv'
<1>1. PICK op \in {"wait", "hold"} : Begin(c, op, "read", None, None)
  BY DEF CallWait
<1>2. QED
  BY <1>1, NeutralBegin DEF CallWait, AllOps, Places, PlainAt

LEMMA CloseBeginKeeps ==
    ASSUME IInv, NEW c \in Caller, CloseBegin(c)
    PROVE  IInv'
<1>1. TypeOK /\ call[c] \in CallRec /\ call[c].at = "idle" /\ Shape(call[c], Made)
  BY CallOf DEF IInv, CloseBegin, At
<1>2. activity \in Made /\ activity \in Activity
  BY DEF CloseBegin, IInv, StartedInv, TypeOK, Made
<1> DEFINE k == [Idle EXCEPT !.op = "close", !.at = "interrupt", !.act = activity,
                             !.found = activity]
<1>3. /\ k \in CallRec /\ k.op = "close" /\ k.at = "interrupt" /\ k.act = activity
      /\ k.next = None /\ k.found = activity
  BY <1>2, IdleIs DEF CallRec, AllOps, Places
<1>4. ~k.callbacks
  BY IdleIs DEF CallRec
<1>5. Moves(c, k)
  BY <1>1, <1>3, CallOf DEF CloseBegin, Moves
<1> HIDE DEF k
<1>6. Plain(k) /\ Shape(k, Made)
  BY <1>2, <1>3, <1>4 DEF Plain, PlainAt, Shape, Leaving, Stops
<1>7. Retires(call[c])
  BY <1>1, PlainOf DEF PlainAt, Retires
<1>8. /\ UNCHANGED <<gate, started, callbacksRan, callbackRuns, activity>>
      /\ closing' \in BOOLEAN /\ UNCHANGED agentVars /\ UNCHANGED idleVars
  BY DEF agentVars, CloseBegin
<1>9. QED
  BY <1>1, <1>3, <1>5, <1>6, <1>7, <1>8, NoActsChange, NeutralMove

LEMMA GiveUpKeeps ==
    ASSUME IInv, NEW c \in Caller, GiveUp(c)
    PROVE  IInv'
<1>1. TypeOK /\ call[c] \in CallRec /\ Shape(call[c], Made)
  BY CallOf DEF IInv
<1>2. call[c].at \in {"startGate", "inactive", "onClaims", "onHolds", "stopGate"}
  BY DEF GiveUp, At
<1>3. Retires(call[c])
  BY <1>1, <1>2, PlainOf DEF PlainAt, Retires
<1>4. UNCHANGED <<gate, started, closing, callbacksRan, callbackRuns, activity>> /\ UNCHANGED agentVars
  BY DEF GiveUp, lifeVars, agentVars
<1>5. QED
  BY <1>1, <1>2, <1>3, <1>4, NoActsChange, NeutralReturn DEF GiveUp

(* closeSoon outside the gate.                                             *)
LEMMA StopGateKeeps ==
    ASSUME IInv, NEW c \in Caller, call[c].at \in {"interrupt", "speeches"},
           call' = [call EXCEPT ![c].at = "stopGate", ![c].act = None],
           UNCHANGED <<lifeVars, agentVars, idleVars, callbackRuns>>
    PROVE  IInv'
<1>1. call[c].op = "close"
  BY DEF IInv, Shape
<1>2. QED
  BY <1>1, NeutralPlaced DEF Places, PlainAt

LEMMA CloseInterruptKeeps ==
    ASSUME IInv, NEW c \in Caller, CloseInterrupt(c)
    PROVE  IInv'
<1>1. call[c].at = "interrupt" /\ call[c].op = "close" /\ call[c].act \in Made
  BY DEF CloseInterrupt, At, IInv, Shape
<1>2. CASE acts[call[c].act].busy
  <2>1. Goto(c, "speeches")
    BY <1>2 DEF CloseInterrupt
  <2>2. UNCHANGED <<gate, started, closing, callbacksRan, callbackRuns, agentVars>> /\ UNCHANGED idleVars
    BY DEF CloseInterrupt, lifeVars
  <2>3. QED
    BY <1>1, <2>1, <2>2, NeutralGoto DEF PlainAt, Places
<1>3. CASE ~acts[call[c].act].busy
  BY <1>1, <1>3, StopGateKeeps DEF CloseInterrupt
<1>4. QED
  BY <1>2, <1>3

LEMMA CloseUninterruptedKeeps ==
    ASSUME IInv, NEW c \in Caller, CloseUninterrupted(c)
    PROVE  IInv'
BY StopGateKeeps DEF CloseUninterrupted, At

LEMMA CloseEmitKeeps ==
    ASSUME IInv, NEW c \in Caller, CloseEmit(c)
    PROVE  IInv'
<1>1. TypeOK /\ call[c].at = "emit"
  BY DEF IInv, CloseEmit, At
<1>2. UNCHANGED <<gate, started, closing, callbacksRan, callbackRuns, activity>> /\ UNCHANGED agentVars
  BY DEF CloseEmit, lifeVars, agentVars
<1>3. QED
  BY <1>1, <1>2, NoActsChange, NeutralReturn DEF CloseEmit, Retires

(* Those who wait for the session to be inactive.                          *)
LEMMA WaitReadKeeps ==
    ASSUME IInv, NEW c \in Caller, WaitRead(c)
    PROVE  IInv'
<1> DEFINE p == IF activity = None THEN "claims" ELSE "inactive"
<1>1. activity = None \/ (activity \in Made /\ activity \in Activity)
  BY DEF IInv, TypeOK, Made
<1>2. p \in Places /\ p \in {"claims", "inactive"} /\ (p = "inactive" => activity \in Made)
  BY <1>1 DEF Places
<1> HIDE DEF p
<1>3. call[c].at = "read" /\ call' = [call EXCEPT ![c].act = activity, ![c].at = p]
  BY DEF WaitRead, At, p
<1>4. call' = [call EXCEPT ![c].at = p, ![c].act = activity]
  <2>1. call \in [Caller -> CallRec] /\ call[c] \in CallRec
    BY CallOf DEF IInv
  <2>2. [call[c] EXCEPT !.act = activity, !.at = p] = [call[c] EXCEPT !.at = p, !.act = activity]
    BY <2>1 DEF CallRec
  <2>3. QED
    BY <1>3, <2>1, <2>2
<1>5. UNCHANGED <<lifeVars, agentVars, idleVars, callbackRuns>>
  BY DEF WaitRead
<1>6. QED
  BY <1>1, <1>2, <1>3, <1>4, <1>5, NeutralPlaced DEF PlainAt

LEMMA WaitInactiveKeeps ==
    ASSUME IInv, NEW c \in Caller, WaitInactive(c)
    PROVE  IInv'
<1>1. UNCHANGED <<gate, started, closing, callbacksRan, callbackRuns, agentVars>> /\ UNCHANGED idleVars
  BY DEF WaitInactive, lifeVars
<1>2. QED
  BY <1>1, NeutralGoto DEF WaitInactive, At, PlainAt, Places

LEMMA WaitClosedKeeps ==
    ASSUME IInv, NEW c \in Caller, WaitClosed(c)
    PROVE  IInv'
<1>1. TypeOK /\ call[c] \in CallRec /\ Shape(call[c], Made) /\ call[c].at = "inactive"
  BY CallOf DEF IInv, WaitClosed, At
<1>2. UNCHANGED <<gate, started, closing, callbacksRan, callbackRuns, agentVars>> /\ UNCHANGED idleVars
  BY DEF WaitClosed, lifeVars
<1>3. CASE Again(c, "read")
  BY <1>1, <1>2, <1>3, NeutralPlaced DEF Again, PlainAt, Places, lifeVars
<1>4. CASE Return(c)
  <2>1. Retires(call[c])
    BY <1>1, PlainOf DEF PlainAt, Retires
  <2>2. QED
    BY <1>1, <1>2, <1>4, <2>1, NoActsChange, NeutralReturn DEF agentVars
<1>5. QED
  BY <1>3, <1>4 DEF WaitClosed

LEMMA WaitRecheckKeeps ==
    ASSUME IInv, NEW c \in Caller, WaitRecheck(c)
    PROVE  IInv'
<1> DEFINE p == IF activity # call[c].act THEN "read" ELSE "claims"
<1>1. p \in Places /\ p \in {"read", "claims"} /\ Again(c, p) /\ call[c].at = "recheck"
  BY DEF WaitRecheck, At, Places
<1>2. UNCHANGED <<gate, started, closing, callbacksRan, callbackRuns, agentVars>> /\ UNCHANGED idleVars
  BY DEF WaitRecheck, lifeVars
<1> HIDE DEF p
<1>3. QED
  BY <1>1, <1>2, NeutralPlaced DEF Again, PlainAt, lifeVars

LEMMA WaitClaimsKeeps ==
    ASSUME IInv, NEW c \in Caller, WaitClaims(c)
    PROVE  IInv'
<1> DEFINE p == IF claims > 0 THEN "onClaims" ELSE "onHolds"
<1>1. p \in Places /\ p \in {"onClaims", "onHolds"} /\ Goto(c, p) /\ call[c].at = "claims"
  BY DEF WaitClaims, At, Places
<1>2. UNCHANGED <<gate, started, closing, callbacksRan, callbackRuns, agentVars>> /\ UNCHANGED idleVars
  BY DEF WaitClaims, lifeVars
<1> HIDE DEF p
<1>3. QED
  BY <1>1, <1>2, NeutralGoto DEF PlainAt

LEMMA WaitReturnsKeeps ==
    ASSUME IInv, NEW c \in Caller, WaitReturns(c)
    PROVE  IInv'
<1>1. TypeOK /\ call[c] \in CallRec /\ Shape(call[c], Made) /\ call[c].at = "claims"
  BY CallOf DEF IInv, WaitReturns, Inactive, At
<1>2. UNCHANGED <<lifeVars, agentVars, idleVars, callbackRuns>>
  BY DEF WaitReturns
<1>3. CASE call' = [call EXCEPT ![c].at = "hold", ![c].act = None]
  BY <1>1, <1>2, <1>3, NeutralPlaced DEF PlainAt, Places
<1>4. CASE Return(c)
  <2>1. Retires(call[c])
    BY <1>1, PlainOf DEF PlainAt, Retires
  <2>2. UNCHANGED <<gate, started, closing, callbacksRan, callbackRuns, activity>> /\ UNCHANGED agentVars
    BY <1>2 DEF lifeVars, agentVars
  <2>3. QED
    BY <1>1, <1>2, <1>4, <2>1, <2>2, NoActsChange, NeutralReturn
<1>5. QED
  BY <1>3, <1>4 DEF WaitReturns

(* Steps of an activity that its session does not depend on.               *)
LEMMA ActChange ==
    ASSUME ActsOK, NEW a \in Made, NEW r \in ActRec, r.made,
           r.entered = acts[a].entered, r.exited = acts[a].exited,
           acts[a].cancelled => r.cancelled,
           acts' = [acts EXCEPT ![a] = r], activity' = activity
    PROVE  SameActs /\ ActsOK'
<1>1. /\ a \in Activity /\ acts'[a] = r /\ acts' \in [Activity -> ActRec]
      /\ \A b \in Activity \ {a} : acts'[b] = acts[b]
  BY DEF ActsOK, Made
<1>2. Made' = Made
  BY <1>1 DEF Made
<1>3. QED
  BY <1>1, <1>2 DEF SameActs, StillMade, SameEntered, SameExited, ActsOK

LEMMA MadeRec ==
    ASSUME TypeOK, NEW a \in Made
    PROVE  a \in Activity /\ acts[a] \in ActRec /\ acts[a].made /\ acts \in [Activity -> ActRec]
BY DEF TypeOK, Made, ActRec

LEMMA ReplyScheduleKeeps ==
    ASSUME IInv, NEW c \in Caller, ReplySchedule(c)
    PROVE  IInv'
<1>1. /\ TypeOK /\ ActsOK /\ call[c] \in CallRec /\ Shape(call[c], Made)
      /\ call[c].at = "schedule" /\ call[c].act \in Made
  BY CallOf, TypeParts DEF IInv, ReplySchedule, At, Shape
<1> DEFINE a == call[c].act
           r == [acts[a] EXCEPT !.busy = acts[a].busy \/ ~acts[a].paused]
<1>2. acts[a] \in ActRec /\ acts[a].made /\ acts \in [Activity -> ActRec] /\ a \in Activity
  BY <1>1, MadeRec
<1>3. /\ r \in ActRec /\ r.entered = acts[a].entered /\ r.exited = acts[a].exited
      /\ (r.made <=> acts[a].made) /\ (r.cancelled <=> acts[a].cancelled)
  BY <1>2 DEF ActRec
<1>4. acts' = [acts EXCEPT ![a] = r]
  BY <1>2 DEF ReplySchedule
<1> HIDE DEF r
<1>5. SameActs /\ ActsOK'
  BY <1>1, <1>2, <1>3, <1>4, ActChange DEF ReplySchedule
<1>6. Retires(call[c])
  BY <1>1, PlainOf DEF PlainAt, Retires
<1>7. /\ UNCHANGED <<gate, started, closing, callbacksRan, callbackRuns, activity>>
      /\ UNCHANGED idleVars /\ Return(c)
  BY DEF ReplySchedule, lifeVars
<1>8. QED
  BY <1>1, <1>5, <1>6, <1>7, NeutralReturn

LEMMA EnteredChange ==
    ASSUME IInv, NEW c \in Caller, Entered(c)
    PROVE  /\ SameActs /\ ActsOK' /\ call[c].at = "entering" /\ Moves(c, Idle)
           /\ UNCHANGED <<started, closing, callbacksRan, callbackRuns, activity>>
           /\ UNCHANGED idleVars
<1>1. /\ TypeOK /\ ActsOK /\ call[c] \in CallRec /\ Shape(call[c], Made)
      /\ call[c].at = "entering" /\ call[c].act \in Made
  BY CallOf, TypeParts DEF IInv, Entered, At, Shape
<1> DEFINE a == call[c].act
           r == [acts[a] EXCEPT !.ready = TRUE]
<1>2. acts[a] \in ActRec /\ acts[a].made /\ acts \in [Activity -> ActRec] /\ a \in Activity
  BY <1>1, MadeRec
<1>3. /\ r \in ActRec /\ r.entered = acts[a].entered /\ r.exited = acts[a].exited
      /\ (r.made <=> acts[a].made) /\ (r.cancelled <=> acts[a].cancelled)
  BY <1>2 DEF ActRec
<1>4. acts' = [acts EXCEPT ![a] = r]
  BY <1>2 DEF Entered
<1> HIDE DEF r
<1>5. SameActs /\ ActsOK'
  BY <1>1, <1>2, <1>3, <1>4, ActChange DEF Entered
<1>6. QED
  BY <1>1, <1>5, ReturnMoves DEF Entered

LEMMA SpeechesEndKeeps ==
    ASSUME IInv, NEW a \in Activity, SpeechesEnd(a)
    PROVE  IInv'
<1>1. TypeOK /\ ActsOK /\ LifeOK /\ IdleOK /\ \A c \in Caller : call[c] \in CallRec /\ Shape(call[c], Made)
  BY CallOf, TypeParts DEF IInv
<1>2. a \in Made
  <2>1. ~NoActivity.busy
    BY DEF NoActivity
  <2>2. QED
    BY <2>1 DEF SpeechesEnd, IInv, EnterInv
<1> DEFINE r == [acts[a] EXCEPT !.busy = FALSE]
<1>3. acts[a] \in ActRec /\ acts[a].made
  BY <1>1, <1>2, MadeRec
<1>4. /\ r \in ActRec /\ r.entered = acts[a].entered /\ r.exited = acts[a].exited
      /\ (r.made <=> acts[a].made) /\ (r.cancelled <=> acts[a].cancelled)
  BY <1>3 DEF ActRec
<1>5. acts' = [acts EXCEPT ![a] = r]
  BY <1>1, <1>2, MadeRec DEF SpeechesEnd
<1> HIDE DEF r
<1>6. SameActs /\ ActsOK'
  BY <1>1, <1>2, <1>3, <1>4, <1>5, ActChange DEF SpeechesEnd
<1>7. \A c \in Caller :
         \/ call'[c] = call[c]
         \/ /\ call[c].at = "speeches" /\ call'[c] = Placed(call[c], "stopGate", None)
  BY DEF SpeechesEnd, At, Placed
<1>8. \A c \in Caller :
         \/ call'[c] = call[c]
         \/ /\ call[c].at = "speeches" /\ call'[c] \in CallRec /\ Plain(call'[c])
            /\ Shape(call'[c], Made) /\ Plain(call[c]) /\ call'[c].at = "stopGate"
  <2> SUFFICES ASSUME NEW c \in Caller, call[c].at = "speeches",
                      call'[c] = Placed(call[c], "stopGate", None)
               PROVE  /\ call'[c] \in CallRec /\ Plain(call'[c]) /\ Plain(call[c])
                      /\ Shape(call'[c], Made) /\ call'[c].at = "stopGate"
    BY <1>7
  <2> DEFINE k == Placed(call[c], "stopGate", None)
  <2>1. Plain(call[c]) /\ call[c].op = "close" /\ call[c] \in CallRec /\ Shape(call[c], Made)
    BY <1>1, PlainOf DEF PlainAt, Shape
  <2>2. k \in CallRec
    BY <2>1, PlacedIs DEF Places
  <2>3. /\ k.at = "stopGate" /\ k.act = None /\ k.op = call[c].op
        /\ k.next = call[c].next /\ k.found = call[c].found
    BY <2>1 DEF CallRec, Placed
  <2>4. k.callbacks <=> call[c].callbacks
    BY <2>1 DEF CallRec, Placed
  <2> HIDE DEF k
  <2>5. Plain(k)
    BY <2>1, <2>3, <2>4 DEF Plain, PlainAt
  <2>6. Shape(k, Made)
    BY <2>1, <2>3, <2>4, <2>5 DEF Shape, Plain, PlainAt, Leaving, Stops
  <2>7. QED
    BY <2>1, <2>2, <2>3, <2>5, <2>6 DEF k
<1>9. TypeOK'
  <2>1. CallOK'
    <3>1. call' = [c \in Caller |-> call'[c]]
      BY DEF SpeechesEnd
    <3>2. \A c \in Caller : call'[c] \in CallRec
      BY <1>1, <1>8
    <3>3. QED
      BY <3>1, <3>2 DEF CallOK
  <2>2. LifeOK' /\ IdleOK'
    BY <1>1, SameParts DEF SpeechesEnd
  <2>3. QED
    BY <1>6, <2>1, <2>2, TypePartsNext
<1>10. \A c \in Caller : Shape(call'[c], Made')
  BY <1>1, <1>6, <1>8 DEF SameActs, StillMade
<1>11. CountInv'
  <2>1. \A c \in Caller : /\ call'[c].at = "claimed" <=> call[c].at = "claimed"
                          /\ call'[c].at = "held" <=> call[c].at = "held"
    BY <1>8
  <2>2. QED
    BY <2>1, CountKept DEF IInv, SpeechesEnd
<1>12. Neutral
  <2>1. UNCHANGED <<gate, started, callbacksRan, activity, callbackRuns>>
    BY DEF SpeechesEnd, lifeVars
  <2>2. \A c \in Caller : call'[c] = call[c] \/ (Retires(call[c]) /\ Plain(call'[c]))
    BY <1>8 DEF Retires
  <2>3. QED
    BY <1>6, <2>1, <2>2 DEF Neutral
<1>13. QED
  BY <1>9, <1>10, <1>11, <1>12, NeutralKeeps

-----------------------------------------------------------------------------
(* Claims and holds.                                                       *)
LEMMA CountAdd ==
    ASSUME NEW p, NEW c \in Caller, call'[c].at = p, call[c].at # p,
           \A d \in Caller \ {c} : call'[d].at = p <=> call[d].at = p
    PROVE  Cardinality({d \in Caller : At(d, p)})' = Cardinality({d \in Caller : At(d, p)}) + 1
<1> DEFINE S == {d \in Caller : call[d].at = p}
           T == {d \in Caller : call'[d].at = p}
<1>1. IsFiniteSet(S)
  BY SessionAssumption, FS_Subset
<1>2. T = S \cup {c} /\ c \notin S
  OBVIOUS
<1>3. Cardinality(T) = Cardinality(S) + 1
  BY <1>1, <1>2, FS_AddElement
<1>4. QED
  BY <1>3 DEF At

LEMMA CountRemove ==
    ASSUME NEW p, NEW c \in Caller, call'[c].at # p, call[c].at = p,
           \A d \in Caller \ {c} : call'[d].at = p <=> call[d].at = p
    PROVE  /\ Cardinality({d \in Caller : At(d, p)})' = Cardinality({d \in Caller : At(d, p)}) - 1
           /\ Cardinality({d \in Caller : At(d, p)}) > 0
           /\ Cardinality({d \in Caller : At(d, p)}) \in Nat
<1> DEFINE S == {d \in Caller : call[d].at = p}
           T == {d \in Caller : call'[d].at = p}
<1>1. IsFiniteSet(S)
  BY SessionAssumption, FS_Subset
<1>2. T = S \ {c} /\ c \in S
  OBVIOUS
<1>3. Cardinality(T) = Cardinality(S) - 1 /\ Cardinality(S) \in Nat
  BY <1>1, <1>2, FS_RemoveElement, FS_CardinalityType
<1>4. Cardinality(S) > 0
  BY <1>1, <1>2, <1>3, FS_EmptySet
<1>5. QED
  BY <1>3, <1>4 DEF At

LEMMA CountNat ==
    ASSUME NEW p
    PROVE  /\ Cardinality({d \in Caller : At(d, p)}) \in Nat
           /\ Cardinality({d \in Caller : At(d, p)})' \in Nat
<1>1. IsFiniteSet({d \in Caller : call[d].at = p}) /\ IsFiniteSet({d \in Caller : call'[d].at = p})
  BY SessionAssumption, FS_Subset
<1>2. QED
  BY <1>1, FS_CardinalityType DEF At

LEMMA CountSame ==
    ASSUME NEW p, \A d \in Caller : call'[d].at = p <=> call[d].at = p
    PROVE  {d \in Caller : At(d, p)}' = {d \in Caller : At(d, p)}
BY DEF At

LEMMA ClaimBeginKeeps ==
    ASSUME IInv, NEW c \in Caller, ClaimBegin(c)
    PROVE  IInv'
<1>1. /\ TypeOK /\ LifeOK /\ IdleOK /\ call[c] \in CallRec /\ Shape(call[c], Made)
      /\ call[c].at = "idle"
  BY CallOf, TypeParts DEF IInv, ClaimBegin, At
<1> DEFINE k == [Idle EXCEPT !.op = "claim", !.at = "claimed"]
<1>2. k \in CallRec /\ k.at = "claimed" /\ k.op = "claim" /\ k.next = None
  BY IdleIs DEF CallRec, AllOps, Places
<1>3. ~k.callbacks
  BY IdleIs DEF CallRec
<1>4. Moves(c, k)
  BY <1>2, CallOf, <1>1 DEF ClaimBegin, Moves
<1> HIDE DEF k
<1>5. Plain(k) /\ Shape(k, Made)
  BY <1>2, <1>3 DEF Plain, PlainAt, Shape, Leaving, Stops
<1>6. SameActs /\ ActsOK' /\ LifeOK'
  BY <1>1, NoActsChange, SameParts DEF ClaimBegin
<1>7. TypeOK'
  <2>1. IdleOK'
    BY <1>1 DEF IdleOK, ClaimBegin
  <2>2. QED
    BY <1>4, <1>6, <2>1, MovesCallOK, TypePartsNext
<1>8. \A d \in Caller : Shape(call'[d], Made')
  BY <1>4, <1>5, <1>6 DEF IInv, Moves, SameActs, StillMade
<1>9. CountInv'
  <2> DEFINE C == Cardinality({d \in Caller : At(d, "claimed")})
             H == Cardinality({d \in Caller : At(d, "held")})
  <2>1. C' = C + 1
    BY <1>1, <1>2, <1>4, CountAdd DEF Moves
  <2>2. H' = H
    BY <1>1, <1>2, <1>4, CountSame DEF Moves
  <2>3. claims' = claims + 1 /\ holds' = holds /\ outlived' = outlived
    BY DEF ClaimBegin
  <2>4. /\ C \in Nat /\ H \in Nat /\ claims <= C /\ holds <= H
        /\ ~outlived => claims = C /\ holds = H
    BY CountNat DEF IInv, CountInv
  <2> HIDE DEF C, H
  <2>5. /\ claims' <= C' /\ holds' <= H'
        /\ ~outlived' => claims' = C' /\ holds' = H'
    BY <1>1, <2>1, <2>2, <2>3, <2>4 DEF IdleOK
  <2>6. QED
    BY <2>5 DEF CountInv, C, H
<1>10. Retires(call[c])
  BY <1>1, PlainOf DEF PlainAt, Retires
<1>11. Neutral
  BY <1>4, <1>5, <1>6, <1>10 DEF Neutral, Moves, ClaimBegin, lifeVars, agentVars
<1>12. QED
  BY <1>7, <1>8, <1>9, <1>11, NeutralKeeps

LEMMA HoldBeginKeeps ==
    ASSUME IInv, NEW c \in Caller, HoldBegin(c)
    PROVE  IInv'
<1>1. /\ TypeOK /\ LifeOK /\ IdleOK /\ call[c] \in CallRec /\ Shape(call[c], Made)
      /\ call[c].at = "hold" /\ Plain(call[c])
  BY CallOf, TypeParts, PlainOf DEF IInv, HoldBegin, At, PlainAt
<1>2. PICK k : /\ Moves(c, k) /\ k.at = "held"
               /\ k.op = call[c].op /\ k.act = call[c].act /\ k.next = call[c].next
               /\ k.found = call[c].found /\ k.callbacks = call[c].callbacks
  <2>1. "held" \in Places
    BY DEF Places
  <2>2. QED
    BY <1>1, <2>1, GotoMoves DEF HoldBegin, Goto
<1>3. Plain(k)
  BY <1>1, <1>2 DEF Plain, PlainAt
<1>4. Shape(k, Made)
  BY <1>1, <1>2, <1>3 DEF Plain, Shape, Leaving, Stops
<1>6. SameActs /\ ActsOK' /\ LifeOK'
  BY <1>1, NoActsChange, SameParts DEF HoldBegin
<1>7. TypeOK'
  <2>1. IdleOK'
    BY <1>1 DEF IdleOK, HoldBegin
  <2>2. QED
    BY <1>2, <1>6, <2>1, MovesCallOK, TypePartsNext
<1>8. \A d \in Caller : Shape(call'[d], Made')
  BY <1>2, <1>4, <1>6 DEF IInv, Moves, SameActs, StillMade
<1>9. CountInv'
  <2> DEFINE C == Cardinality({d \in Caller : At(d, "claimed")})
             H == Cardinality({d \in Caller : At(d, "held")})
  <2>1. H' = H + 1
    BY <1>1, <1>2, CountAdd DEF Moves
  <2>2. C' = C
    BY <1>1, <1>2, CountSame DEF Moves
  <2>3. holds' = holds + 1 /\ claims' = claims /\ outlived' = outlived
    BY DEF HoldBegin
  <2>4. /\ C \in Nat /\ H \in Nat /\ claims <= C /\ holds <= H
        /\ ~outlived => claims = C /\ holds = H
    BY CountNat DEF IInv, CountInv
  <2> HIDE DEF C, H
  <2>5. /\ claims' <= C' /\ holds' <= H'
        /\ ~outlived' => claims' = C' /\ holds' = H'
    BY <1>1, <2>1, <2>2, <2>3, <2>4 DEF IdleOK
  <2>6. QED
    BY <2>5 DEF CountInv, C, H
<1>10. Neutral
  BY <1>1, <1>2, <1>3, <1>6 DEF Neutral, Moves, HoldBegin, lifeVars, agentVars, Retires
<1>11. QED
  BY <1>7, <1>8, <1>9, <1>10, NeutralKeeps

(* The caller returns, and with the last claim or hold those who wait for  *)
(* it look again.                                                          *)
LEMMA ReleaseSteps ==
    ASSUME IInv, NEW c \in Caller, NEW n, NEW b \in {"onClaims", "onHolds"},
           call[c].at \in {"claimed", "held"}, Release(c, n, b)
    PROVE  /\ CallOK'
           /\ call'[c] = Idle
           /\ \A d \in Caller : /\ Shape(call'[d], Made)
                                /\ call'[d] = call[d] \/ (Retires(call[d]) /\ Plain(call'[d]))
           /\ \A d \in Caller \ {c} : \A p \in {"claimed", "held"} : call'[d].at = p <=> call[d].at = p
<1>1. TypeOK /\ \A d \in Caller : call[d] \in CallRec /\ Shape(call[d], Made)
  BY CallOf DEF IInv
<1>2. call'[c] = Idle
  BY DEF Release
<1>3. Retires(call[c])
  BY <1>1, PlainOf DEF PlainAt, Retires
<1>4. \A d \in Caller \ {c} :
         \/ call'[d] = call[d]
         \/ call[d].at = b /\ call'[d] = [call[d] EXCEPT !.at = "read"]
  BY DEF Release
<1>5. \A d \in Caller \ {c} :
         \/ call'[d] = call[d]
         \/ /\ call[d].at = b /\ call'[d].at = "read" /\ Plain(call[d])
            /\ call'[d] \in CallRec /\ Plain(call'[d]) /\ Shape(call'[d], Made)
  <2> SUFFICES ASSUME NEW d \in Caller \ {c}, call[d].at = b,
                      call'[d] = [call[d] EXCEPT !.at = "read"]
               PROVE  /\ call'[d].at = "read" /\ Plain(call[d])
                      /\ call'[d] \in CallRec /\ Plain(call'[d]) /\ Shape(call'[d], Made)
    BY <1>4
  <2> DEFINE k == [call[d] EXCEPT !.at = "read"]
  <2>1. Plain(call[d]) /\ call[d] \in CallRec /\ Shape(call[d], Made)
    BY <1>1, PlainOf DEF PlainAt
  <2>2. /\ k \in CallRec /\ k.at = "read" /\ k.op = call[d].op
        /\ k.next = call[d].next /\ k.found = call[d].found
    BY <2>1 DEF CallRec, Places
  <2>3. k.callbacks <=> call[d].callbacks
    BY <2>1 DEF CallRec
  <2> HIDE DEF k
  <2>4. Plain(k)
    BY <2>1, <2>2, <2>3 DEF Plain, PlainAt
  <2>5. Shape(k, Made)
    BY <2>1, <2>2, <2>3, <2>4 DEF Shape, Plain, PlainAt, Leaving, Stops
  <2>6. QED
    BY <2>1, <2>2, <2>4, <2>5 DEF k
<1>6. CallOK'
  <2>1. call' = [d \in Caller |-> call'[d]]
    BY DEF Release
  <2>2. \A d \in Caller : call'[d] \in CallRec
    BY <1>1, <1>2, <1>5, IdleIs
  <2>3. QED
    BY <2>1, <2>2 DEF CallOK
<1>7. \A d \in Caller : /\ Shape(call'[d], Made)
                        /\ call'[d] = call[d] \/ (Retires(call[d]) /\ Plain(call'[d]))
  BY <1>1, <1>2, <1>3, <1>5, IdleIsPlain DEF Retires
<1>8. \A d \in Caller \ {c} : \A p \in {"claimed", "held"} : call'[d].at = p <=> call[d].at = p
  BY <1>5
<1>9. QED
  BY <1>2, <1>6, <1>7, <1>8

LEMMA ReleaseKeeps ==
    ASSUME IInv, NEW c \in Caller, NEW n, NEW b \in {"onClaims", "onHolds"},
           call[c].at \in {"claimed", "held"}, Release(c, n, b),
           UNCHANGED <<lifeVars, agentVars, callbackRuns>>, IdleOK', CountInv'
    PROVE  IInv'
<1>1. TypeOK /\ LifeOK
  BY TypeParts DEF IInv
<1>2. SameActs /\ ActsOK' /\ LifeOK'
  BY <1>1, NoActsChange, SameParts
<1>3. TypeOK'
  BY <1>2, ReleaseSteps, TypePartsNext
<1>4. \A d \in Caller : Shape(call'[d], Made')
  BY <1>2, ReleaseSteps DEF SameActs, StillMade
<1>5. Neutral
  <2>1. UNCHANGED <<gate, started, callbacksRan, activity, callbackRuns>>
    BY DEF lifeVars, agentVars
  <2>2. QED
    BY <1>2, <2>1, ReleaseSteps DEF Neutral
<1>6. QED
  BY <1>3, <1>4, <1>5, NeutralKeeps

LEMMA ClaimEndKeeps ==
    ASSUME IInv, NEW c \in Caller, ClaimEnd(c)
    PROVE  IInv'
<1>1. /\ IdleOK /\ call[c].at = "claimed" /\ claims' = Less(claims)
      /\ Release(c, Less(claims), "onClaims") /\ UNCHANGED holds
      /\ outlived' = (outlived /\ ~LastOf(c))
      /\ UNCHANGED <<lifeVars, agentVars, callbackRuns>>
  BY TypeParts DEF IInv, ClaimEnd, At
<1>2. IdleOK'
  <2>1. outlived' \in BOOLEAN
    BY <1>1, Zenon
  <2>2. QED
    BY <1>1, <2>1 DEF IdleOK, Less
<1>3. call'[c] = Idle /\ \A d \in Caller \ {c} : \A p \in {"claimed", "held"} :
          call'[d].at = p <=> call[d].at = p
  BY <1>1, ReleaseSteps
<1>4. /\ Cardinality({d \in Caller : At(d, "claimed")})' = Cardinality({d \in Caller : At(d, "claimed")}) - 1
      /\ Cardinality({d \in Caller : At(d, "claimed")}) > 0
      /\ Cardinality({d \in Caller : At(d, "claimed")}) \in Nat
  BY <1>1, <1>3, IdleIs, CountRemove
<1>5. {d \in Caller : At(d, "held")}' = {d \in Caller : At(d, "held")}
  BY <1>1, <1>3, IdleIs, CountSame
<1>6. CountInv'
  <2>1. /\ claims' <= Cardinality({d \in Caller : At(d, "claimed")})'
        /\ holds' <= Cardinality({d \in Caller : At(d, "held")})'
        /\ ~outlived => /\ claims' = Cardinality({d \in Caller : At(d, "claimed")})'
                        /\ holds' = Cardinality({d \in Caller : At(d, "held")})'
    <3>1. /\ claims <= Cardinality({d \in Caller : At(d, "claimed")})
          /\ holds <= Cardinality({d \in Caller : At(d, "held")})
          /\ ~outlived => /\ claims = Cardinality({d \in Caller : At(d, "claimed")})
                          /\ holds = Cardinality({d \in Caller : At(d, "held")})
      BY DEF IInv, CountInv
    <3>2. Cardinality({d \in Caller : At(d, "held")})' = Cardinality({d \in Caller : At(d, "held")})
      BY <1>5
    <3>3. claims' = IF claims > 0 THEN claims - 1 ELSE 0
      BY <1>1 DEF Less
    <3>4. QED
      BY <1>1, <1>4, <3>1, <3>2, <3>3 DEF IdleOK
  <2>2. CASE ~LastOf(c)
    <3>1. ~outlived' => ~outlived
      BY <1>1, <2>2, Zenon
    <3>2. QED
      BY <2>1, <3>1 DEF CountInv
  <2>3. CASE LastOf(c)
    <3>1. {d \in Caller : At(d, "claimed")}' = {} /\ {d \in Caller : At(d, "held")} = {}
      BY <1>1, <1>3, <2>3, IdleIs DEF LastOf, Occupies, At
    <3>2. Cardinality({}) = 0
      BY FS_EmptySet
    <3>3. /\ Cardinality({d \in Caller : At(d, "claimed")})' = 0
          /\ Cardinality({d \in Caller : At(d, "held")}) = 0
      BY <3>1, <3>2
    <3>4. /\ claims <= Cardinality({d \in Caller : At(d, "claimed")})
          /\ holds <= Cardinality({d \in Caller : At(d, "held")})
      BY DEF IInv, CountInv
    <3>5. claims' = 0 /\ holds' = 0
      BY <1>1, <1>4, <3>3, <3>4 DEF IdleOK, Less
    <3>6. QED
      BY <1>5, <3>3, <3>5 DEF CountInv
  <2>4. QED
    BY <2>2, <2>3
<1>7. QED
  BY <1>1, <1>2, <1>6, ReleaseKeeps

LEMMA HoldEndKeeps ==
    ASSUME IInv, NEW c \in Caller, HoldEnd(c)
    PROVE  IInv'
<1>1. /\ IdleOK /\ call[c].at = "held" /\ holds' = Less(holds)
      /\ Release(c, Less(holds), "onHolds") /\ UNCHANGED claims
      /\ outlived' = (outlived /\ ~LastOf(c))
      /\ UNCHANGED <<lifeVars, agentVars, callbackRuns>>
  BY TypeParts DEF IInv, HoldEnd, At
<1>2. IdleOK'
  <2>1. outlived' \in BOOLEAN
    BY <1>1, Zenon
  <2>2. QED
    BY <1>1, <2>1 DEF IdleOK, Less
<1>3. call'[c] = Idle /\ \A d \in Caller \ {c} : \A p \in {"claimed", "held"} :
          call'[d].at = p <=> call[d].at = p
  BY <1>1, ReleaseSteps
<1>4. /\ Cardinality({d \in Caller : At(d, "held")})' = Cardinality({d \in Caller : At(d, "held")}) - 1
      /\ Cardinality({d \in Caller : At(d, "held")}) > 0
      /\ Cardinality({d \in Caller : At(d, "held")}) \in Nat
  BY <1>1, <1>3, IdleIs, CountRemove
<1>5. {d \in Caller : At(d, "claimed")}' = {d \in Caller : At(d, "claimed")}
  BY <1>1, <1>3, IdleIs, CountSame
<1>6. CountInv'
  <2>1. /\ claims' <= Cardinality({d \in Caller : At(d, "claimed")})'
        /\ holds' <= Cardinality({d \in Caller : At(d, "held")})'
        /\ ~outlived => /\ claims' = Cardinality({d \in Caller : At(d, "claimed")})'
                        /\ holds' = Cardinality({d \in Caller : At(d, "held")})'
    BY <1>1, <1>4, <1>5, CountNat DEF IInv, CountInv, IdleOK, Less
  <2>2. CASE ~LastOf(c)
    <3>1. ~outlived' => ~outlived
      BY <1>1, <2>2, Zenon
    <3>2. QED
      BY <2>1, <3>1 DEF CountInv
  <2>3. CASE LastOf(c)
    <3>1. {d \in Caller : At(d, "held")}' = {} /\ {d \in Caller : At(d, "claimed")} = {}
      BY <1>1, <1>3, <2>3, IdleIs DEF LastOf, Occupies, At
    <3>2. Cardinality({}) = 0
      BY FS_EmptySet
    <3>3. /\ Cardinality({d \in Caller : At(d, "held")})' = 0
          /\ Cardinality({d \in Caller : At(d, "claimed")}) = 0
      BY <3>1, <3>2
    <3>4. /\ claims <= Cardinality({d \in Caller : At(d, "claimed")})
          /\ holds <= Cardinality({d \in Caller : At(d, "held")})
      BY DEF IInv, CountInv
    <3>5. holds' = 0 /\ claims' = 0
      BY <1>1, <1>4, <3>3, <3>4 DEF IdleOK, Less
    <3>6. QED
      BY <1>5, <3>3, <3>5 DEF CountInv
  <2>4. QED
    BY <2>2, <2>3
<1>7. QED
  BY <1>1, <1>2, <1>6, ReleaseKeeps

-----------------------------------------------------------------------------
(* The gate.                                                               *)
LEMMA CallbacksNeedGate ==
    ASSUME IInv, NEW c \in Caller
    PROVE  /\ call[c].callbacks => HoldsGate(call[c])
           /\ HoldsGate(call[c]) <=> gate = c
           /\ c # None
BY SessionAssumption DEF IInv, Shape, GateInv, HoldsGate

(* The other calls are the same.                                           *)
LEMMA OthersSame ==
    ASSUME IInv, NEW c \in Caller, NEW k, Moves(c, k), Made' = Made, Shape(k, Made)
    PROVE  /\ \A d \in Caller : Shape(call'[d], Made')
           /\ CallOK'
BY DEF IInv, Moves, CallOK

(* The invariant of the next state, from its parts.                        *)
LEMMA IInvNext ==
    ASSUME TypeOK', \A d \in Caller : Shape(call'[d], Made'), GateInv', StartedInv',
           EnterInv', ExitInv', NoStrayActivity', CloseInv', CallbacksInv', CountInv'
    PROVE  IInv'
<1>1. (\A d \in Caller : Shape(call[d], Made))'
  BY DEF Shape, Leaving, Stops
<1>2. QED
  BY <1>1 DEF IInv

LEMMA CallStartKeeps ==
    ASSUME IInv, NEW c \in Caller, CallStart(c)
    PROVE  IInv'
<1>1. PICK a \in Fresh : Begin(c, "start", "startGate", None, a)
  BY DEF CallStart
<1>2. /\ TypeOK /\ LifeOK /\ ActsOK /\ IdleOK
      /\ a \in Activity \ Made /\ \A d \in Caller : call[d].next # a
  BY TypeParts DEF IInv, Fresh, Taken
<1> DEFINE k == Begun("start", "startGate", None, a)
<1>3. call[c].at = "idle" /\ Moves(c, k)
  BY <1>1, <1>2, BeginMoves DEF AllOps, Places
<1>4. k.at = "startGate" /\ k.op = "start" /\ k.act = None /\ k.next = a /\ k.found = None
  BY <1>2, IdleIs DEF Begun, CallRec
<1>5. ~k.callbacks
  BY <1>2, IdleIs DEF Begun, CallRec
<1> HIDE DEF k
<1>6. Shape(k, Made)
  BY <1>2, <1>4, <1>5 DEF Shape, Leaving, Stops
<1>7. Plain(call[c])
  BY <1>2, <1>3, CallOf, PlainOf DEF IInv, PlainAt
<1>8. UNCHANGED <<gate, started, closing, callbacksRan, callbackRuns>> /\ UNCHANGED agentVars /\ UNCHANGED idleVars
  BY DEF CallStart, lifeVars
<1>9. SameActs /\ Made' = Made /\ UNCHANGED <<activity, acts>>
  BY <1>2, <1>8, NoActsChange DEF SameActs, StillMade, agentVars
<1>10. TypeOK' /\ \A d \in Caller : Shape(call'[d], Made')
  <2>1. LifeOK' /\ ActsOK' /\ IdleOK'
    BY <1>2, <1>8, SameParts DEF lifeVars
  <2>2. QED
    BY <1>3, <1>6, <1>9, <2>1, OthersSame, TypePartsNext
<1>11. /\ ~HoldsGate(k) /\ ~HoldsGate(call[c])
       /\ \A b \in Activity : ~WillExit(k, b) /\ ~WillExit(call[c], b) /\ ~WillEnter(call[c], b)
       /\ \A b \in Activity : WillEnter(k, b) <=> b = a
  BY <1>4, <1>7, PlainHasNoDuty DEF HoldsGate, WillExit, WillEnter, Leaving
<1>12. GateInv'
  <2>1. \A d \in Caller : HoldsGate(call'[d]) <=> HoldsGate(call[d])
    BY <1>3, <1>11 DEF Moves
  <2>2. QED
    BY <1>8, <2>1, GateKept DEF IInv
<1>13. StartedInv'
  <2>1. \A d \in Caller : call'[d].at = "starting" => call[d].at = "starting"
    BY <1>3, <1>4 DEF Moves
  <2>2. QED
    BY <1>8, <1>9, <2>1, StartedKept DEF IInv, SameActs
<1>14. EnterInv'
  <2>1. acts[a].entered = 0
    BY <1>2 DEF IInv, EnterInv, NoActivity
  <2>2. \A d \in Caller : ~WillEnter(call[d], a)
    BY <1>2 DEF IInv, Shape, WillEnter
  <2>3. \A d \in Caller, b \in Activity : WillEnter(call'[d], b) <=>
            (IF d = c THEN b = a ELSE WillEnter(call[d], b))
    BY <1>3, <1>11 DEF Moves
  <2>4. QED
    BY <1>9, <2>1, <2>2, <2>3 DEF IInv, EnterInv, WillEnter
<1>15. ExitInv' /\ NoStrayActivity' /\ CloseInv'
  <2>1. \A d \in Caller, b \in Activity : WillExit(call'[d], b) <=> WillExit(call[d], b)
    BY <1>3, <1>11 DEF Moves
  <2>2. \A d \in Caller : call[d].at \in Leaving => call'[d] = call[d]
    BY <1>3 DEF Moves, Leaving
  <2>3. \A d \in Caller : call[d].op = "close" => call[d].found \in Activity
    BY DEF IInv, Shape, Made
  <2>4. \A d \in Caller, b \in Activity : WillExit(call[d], b) =>
              WillExit(call'[d], b) /\ call'[d].op = call[d].op
    BY <1>3, <1>11 DEF Moves
  <2>5. \A d \in Caller :
              call'[d].op = "close" /\ call'[d].at \in Leaving \cup {"callbacks", "emit"} =>
                 /\ call[d].op = "close" /\ call[d].at \in Leaving \cup {"callbacks", "emit"}
                 /\ call'[d].found = call[d].found
    BY <1>3, <1>4 DEF Moves
  <2>6. QED
    BY <1>8, <1>9, <2>1, <2>2, <2>3, <2>4, <2>5, ExitKept, StrayKept, CloseKept DEF IInv, SameActs
<1>16. CallbacksInv'
  <2>1. \A d \in Caller : call'[d].callbacks <=> call[d].callbacks
    BY <1>3, <1>5, <1>7 DEF Moves, Plain
  <2>2. QED
    BY <1>8, <1>9, <2>1, CallbacksKept DEF IInv
<1>17. CountInv'
  <2>1. \A d \in Caller : /\ call'[d].at = "claimed" <=> call[d].at = "claimed"
                          /\ call'[d].at = "held" <=> call[d].at = "held"
    BY <1>3, <1>4 DEF Moves
  <2>2. QED
    BY <1>8, <2>1, CountKept DEF IInv
<1>18. QED
  BY <1>10, <1>12, <1>13, <1>14, <1>15, <1>16, <1>17, IInvNext

(* What an activity's exit, its loss and the close event are about, if c   *)
(* moves neither from nor to an exit.                                      *)
LEMMA ExitPartsKept ==
    ASSUME IInv, NEW c \in Caller, NEW k, Moves(c, k), StillMade, SameExited,
           activity' = activity,
           \A b \in Activity : ~WillExit(k, b) /\ ~WillExit(call[c], b),
           call[c].at \in Leaving => acts'[call[c].act].cancelled,
           k.op = "close" /\ k.at \in Leaving \cup {"callbacks", "emit"} =>
              /\ call[c].op = "close" /\ call[c].at \in Leaving \cup {"callbacks", "emit"}
              /\ k.found = call[c].found
    PROVE  ExitInv' /\ NoStrayActivity' /\ CloseInv'
<1>1. \A d \in Caller, b \in Activity : WillExit(call'[d], b) <=> WillExit(call[d], b)
  BY DEF Moves
<1>2. ExitInv'
  BY <1>1, ExitKept DEF IInv, StillMade
<1>3. NoStrayActivity'
  <2>1. \A d \in Caller : call[d].at \in Leaving =>
              \/ call'[d].at \in Leaving /\ call'[d].act = call[d].act
              \/ acts'[call[d].act].cancelled
    BY DEF Moves
  <2>2. QED
    BY <2>1, StrayKept DEF IInv
<1>4. CloseInv'
  <2>1. \A d \in Caller : call[d].op = "close" => call[d].found \in Activity
    BY DEF IInv, Shape, Made
  <2>2. \A d \in Caller, b \in Activity : WillExit(call[d], b) =>
              WillExit(call'[d], b) /\ call'[d].op = call[d].op
    BY DEF Moves
  <2>3. \A d \in Caller :
              call'[d].op = "close" /\ call'[d].at \in Leaving \cup {"callbacks", "emit"} =>
                 /\ call[d].op = "close" /\ call[d].at \in Leaving \cup {"callbacks", "emit"}
                 /\ call'[d].found = call[d].found
    BY DEF Moves
  <2>4. QED
    BY <2>1, <2>2, <2>3, CloseKept DEF IInv
<1>5. QED
  BY <1>2, <1>3, <1>4

LEMMA CountMove ==
    ASSUME IInv, NEW c \in Caller, NEW k, Moves(c, k), UNCHANGED idleVars,
           k.at \notin {"claimed", "held"}, call[c].at \notin {"claimed", "held"}
    PROVE  CountInv'
<1>1. \A d \in Caller : /\ call'[d].at = "claimed" <=> call[d].at = "claimed"
                        /\ call'[d].at = "held" <=> call[d].at = "held"
  BY DEF Moves
<1>2. QED
  BY <1>1, CountKept DEF IInv

LEMMA StartBeginKeeps ==
    ASSUME IInv, NEW c \in Caller, StartBegin(c)
    PROVE  IInv'
<1>1. /\ TypeOK /\ LifeOK /\ ActsOK /\ IdleOK /\ call[c] \in CallRec /\ Shape(call[c], Made)
      /\ call[c].at = "startGate" /\ gate = None
  BY CallOf, TypeParts DEF IInv, StartBegin, At
<1>2. UNCHANGED agentVars /\ UNCHANGED idleVars /\ callbackRuns' = callbackRuns
  BY DEF StartBegin
<1>3. CASE started
  <2>1. Return(c) /\ UNCHANGED <<gate, started, closing, callbacksRan>>
    BY <1>3 DEF StartBegin, lifeVars
  <2>2. QED
    BY <1>1, <1>2, <2>1, NoActsChange, NeutralReturn DEF Retires, agentVars
<1>4. CASE ~started
  <2>1. gate' = c /\ Goto(c, "starting") /\ UNCHANGED <<started, closing, callbacksRan>>
    BY <1>4 DEF StartBegin
  <2>2. PICK k : /\ Moves(c, k) /\ k.at = "starting"
                 /\ k.op = call[c].op /\ k.act = call[c].act /\ k.next = call[c].next
                 /\ k.found = call[c].found /\ k.callbacks = call[c].callbacks
    BY <1>1, <2>1, GotoMoves DEF Places
  <2>3. SameActs /\ ActsOK' /\ UNCHANGED <<activity, acts>>
    BY <1>1, <1>2, NoActsChange DEF agentVars
  <2>4. Shape(k, Made)
    BY <1>1, <2>2 DEF Shape, Leaving, Stops
  <2>5. TypeOK' /\ \A d \in Caller : Shape(call'[d], Made')
    <3>1. LifeOK'
      BY <1>1, <1>2, <2>1 DEF LifeOK
    <3>2. IdleOK'
      BY <1>1, <1>2, SameParts
    <3>3. QED
      BY <2>2, <2>3, <2>4, <3>1, <3>2, OthersSame, TypePartsNext DEF SameActs, StillMade
  <2>6. GateInv'
    <3>1. HoldsGate(call'[c]) /\ \A d \in Caller \ {c} : HoldsGate(call'[d]) <=> HoldsGate(call[d])
      BY <2>2 DEF Moves, HoldsGate
    <3>2. QED
      BY <1>1, <2>1, <3>1, GateTaken DEF IInv
  <2>7. StartedInv'
    BY <1>4, <2>1, <2>3 DEF IInv, StartedInv, SameActs, StillMade, Made
  <2>8. EnterInv'
    <3>1. \A d \in Caller, a \in Activity : WillEnter(call'[d], a) => WillEnter(call[d], a)
      BY <2>2 DEF Moves, WillEnter
    <3>2. QED
      BY <2>3, <3>1, EnterKept DEF IInv, SameActs, StillMade
  <2>9. ExitInv' /\ NoStrayActivity' /\ CloseInv'
    <3>1. \A b \in Activity : ~WillExit(k, b) /\ ~WillExit(call[c], b)
      BY <1>1, <2>2 DEF WillExit
    <3>2. call[c].at \notin Leaving /\ k.at \notin Leaving \cup {"callbacks", "emit"}
      BY <1>1, <2>2 DEF Leaving
    <3>3. QED
      BY <2>2, <2>3, <3>1, <3>2, ExitPartsKept DEF SameActs
  <2>10. CallbacksInv'
    <3>1. \A d \in Caller : call'[d].callbacks <=> call[d].callbacks
      BY <2>2 DEF Moves
    <3>2. QED
      BY <1>2, <2>1, <2>3, <3>1, CallbacksKept DEF IInv, SameActs, StillMade
  <2>11. CountInv'
    BY <1>1, <1>2, <2>2, CountMove
  <2>12. QED
    BY <2>5, <2>6, <2>7, <2>8, <2>9, <2>10, <2>11, IInvNext
<1>5. QED
  BY <1>3, <1>4

LEMMA StartFailsKeeps ==
    ASSUME IInv, NEW c \in Caller, StartFails(c)
    PROVE  IInv'
<1>1. /\ TypeOK /\ LifeOK /\ ActsOK /\ IdleOK /\ call[c] \in CallRec /\ Shape(call[c], Made)
      /\ call[c].at = "starting" /\ HoldsGate(call[c])
  BY CallOf, TypeParts DEF IInv, StartFails, At, HoldsGate
<1>2. /\ UNCHANGED agentVars /\ UNCHANGED idleVars /\ gate' = None
      /\ UNCHANGED <<started, closing, callbacksRan, callbackRuns>>
  BY DEF StartFails
<1>3. Moves(c, Idle)
  BY <1>1, ReturnMoves DEF StartFails
<1>4. SameActs /\ ActsOK' /\ UNCHANGED <<activity, acts>>
  BY <1>1, <1>2, NoActsChange DEF agentVars
<1>5. TypeOK' /\ \A d \in Caller : Shape(call'[d], Made')
  <2>1. LifeOK'
    BY <1>1, <1>2 DEF LifeOK
  <2>2. IdleOK'
    BY <1>1, <1>2, SameParts
  <2>3. QED
    BY <1>3, <1>4, <2>1, <2>2, IdleIsPlain, OthersSame, TypePartsNext DEF SameActs, StillMade
<1>6. /\ ~HoldsGate(Idle) /\ \A b \in Activity : ~WillExit(Idle, b) /\ ~WillEnter(Idle, b)
      /\ ~Idle.callbacks
  BY IdleIsPlain, PlainHasNoDuty
<1>7. GateInv'
  <2>1. ~HoldsGate(call'[c]) /\ \A d \in Caller \ {c} : HoldsGate(call'[d]) <=> HoldsGate(call[d])
    BY <1>3, <1>6 DEF Moves
  <2>2. QED
    BY <1>1, <1>2, <2>1, GateReleased DEF IInv
<1>8. StartedInv'
  <2>1. \A d \in Caller : call'[d].at = "starting" => call[d].at = "starting"
    BY <1>3, IdleIs DEF Moves
  <2>2. QED
    BY <1>2, <1>4, <2>1, StartedKept DEF IInv, SameActs
<1>9. EnterInv'
  <2>1. \A d \in Caller, a \in Activity : WillEnter(call'[d], a) => WillEnter(call[d], a)
    BY <1>3, <1>6 DEF Moves
  <2>2. QED
    BY <1>4, <2>1, EnterKept DEF IInv, SameActs, StillMade
<1>10. ExitInv' /\ NoStrayActivity' /\ CloseInv'
  <2>1. \A b \in Activity : ~WillExit(call[c], b)
    BY <1>1 DEF WillExit
  <2>2. call[c].at \notin Leaving /\ Idle.at \notin Leaving \cup {"callbacks", "emit"}
    BY <1>1, IdleIs DEF Leaving
  <2>3. QED
    BY <1>3, <1>4, <1>6, <2>1, <2>2, ExitPartsKept DEF SameActs
<1>11. CallbacksInv'
  <2>1. ~call[c].callbacks
    BY <1>1 DEF Shape, Leaving
  <2>2. \A d \in Caller : call'[d].callbacks <=> call[d].callbacks
    BY <1>3, <1>6, <2>1 DEF Moves
  <2>3. QED
    BY <1>2, <1>4, <2>2, CallbacksKept DEF IInv, SameActs, StillMade
<1>12. CountInv'
  BY <1>1, <1>2, <1>3, IdleIs, CountMove
<1>13. QED
  BY <1>5, <1>7, <1>8, <1>9, <1>10, <1>11, <1>12, IInvNext

LEMMA EnteredKeeps ==
    ASSUME IInv, NEW c \in Caller, Entered(c)
    PROVE  IInv'
<1>1. /\ TypeOK /\ LifeOK /\ IdleOK /\ call[c] \in CallRec /\ Shape(call[c], Made)
      /\ call[c].at = "entering"
  BY CallOf, TypeParts DEF IInv, Entered, At
<1>2. /\ SameActs /\ ActsOK' /\ Moves(c, Idle)
      /\ UNCHANGED <<started, closing, callbacksRan, callbackRuns, activity>>
      /\ UNCHANGED idleVars
  BY EnteredChange
<1>3. CASE call[c].op # "start"
  <2>1. Retires(call[c]) /\ gate' = gate /\ Return(c)
    BY <1>1, <1>3 DEF Shape, Retires, Entered
  <2>2. QED
    BY <1>1, <1>2, <2>1, NeutralReturn
<1>4. CASE call[c].op = "start"
  <2>1. HoldsGate(call[c]) /\ gate' = None
    BY <1>1, <1>4 DEF HoldsGate, Entered
  <2>2. TypeOK' /\ \A d \in Caller : Shape(call'[d], Made')
    <3>1. LifeOK'
      BY <1>1, <1>2, <2>1 DEF LifeOK
    <3>2. IdleOK'
      BY <1>1, <1>2, SameParts
    <3>3. QED
      BY <1>2, <3>1, <3>2, IdleIsPlain, OthersSame, TypePartsNext DEF SameActs, StillMade
  <2>3. /\ ~HoldsGate(Idle) /\ \A b \in Activity : ~WillExit(Idle, b) /\ ~WillEnter(Idle, b)
        /\ ~Idle.callbacks
    BY IdleIsPlain, PlainHasNoDuty
  <2>4. GateInv'
    <3>1. ~HoldsGate(call'[c]) /\ \A d \in Caller \ {c} : HoldsGate(call'[d]) <=> HoldsGate(call[d])
      BY <1>2, <2>3 DEF Moves
    <3>2. QED
      BY <1>1, <2>1, <3>1, GateReleased DEF IInv
  <2>5. StartedInv'
    <3>1. \A d \in Caller : call'[d].at = "starting" => call[d].at = "starting"
      BY <1>2, IdleIs DEF Moves
    <3>2. QED
      BY <1>2, <3>1, StartedKept DEF IInv, SameActs
  <2>6. EnterInv'
    <3>1. \A d \in Caller, a \in Activity : WillEnter(call'[d], a) => WillEnter(call[d], a)
      BY <1>2, <2>3 DEF Moves
    <3>2. QED
      BY <1>2, <3>1, EnterKept DEF IInv, SameActs, StillMade
  <2>7. ExitInv' /\ NoStrayActivity' /\ CloseInv'
    <3>1. \A b \in Activity : ~WillExit(call[c], b)
      BY <1>1 DEF WillExit
    <3>2. call[c].at \notin Leaving /\ Idle.at \notin Leaving \cup {"callbacks", "emit"}
      BY <1>1, IdleIs DEF Leaving
    <3>3. QED
      BY <1>2, <2>3, <3>1, <3>2, ExitPartsKept DEF SameActs
  <2>8. CallbacksInv'
    <3>1. ~call[c].callbacks
      BY <1>1 DEF Shape, Leaving
    <3>2. \A d \in Caller : call'[d].callbacks <=> call[d].callbacks
      BY <1>2, <2>3, <3>1 DEF Moves
    <3>3. QED
      BY <1>2, <3>2, CallbacksKept DEF IInv, SameActs, StillMade
  <2>9. CountInv'
    BY <1>1, <1>2, IdleIs, CountMove
  <2>10. QED
    BY <2>2, <2>4, <2>5, <2>6, <2>7, <2>8, <2>9, IInvNext
<1>5. QED
  BY <1>3, <1>4

LEMMA EnterKeeps ==
    ASSUME IInv, NEW c \in Caller, Enter(c)
    PROVE  IInv'
<1>1. /\ TypeOK /\ LifeOK /\ ActsOK /\ IdleOK /\ call[c] \in CallRec /\ Shape(call[c], Made)
      /\ call[c].at = "enter" /\ call[c].act \in Made
  BY CallOf, TypeParts DEF IInv, Enter, At, Shape
<1>2. UNCHANGED lifeVars /\ activity' = activity /\ UNCHANGED idleVars /\ callbackRuns' = callbackRuns
  BY DEF Enter
<1>3. PICK k : /\ Moves(c, k) /\ k.at = "entering"
               /\ k.op = call[c].op /\ k.act = call[c].act /\ k.next = call[c].next
               /\ k.found = call[c].found /\ k.callbacks = call[c].callbacks
  BY <1>1, GotoMoves DEF Enter, Places
<1>4. Shape(k, Made) /\ k.next = None
  BY <1>1, <1>3 DEF Shape, Leaving, Stops
<1> DEFINE a == call[c].act
           r == [acts[a] EXCEPT !.entered = acts[a].entered + 1]
<1>5. acts[a] \in ActRec /\ acts[a].made /\ acts \in [Activity -> ActRec] /\ a \in Activity
  BY <1>1, MadeRec
<1>6. acts[a].entered = 0
  BY <1>1, <1>5 DEF IInv, EnterInv, WillEnter
<1>7. /\ r \in ActRec /\ r.entered = 1 /\ r.exited = acts[a].exited
      /\ (r.made <=> acts[a].made) /\ (r.cancelled <=> acts[a].cancelled)
  BY <1>5, <1>6 DEF ActRec
<1>8. acts' = [acts EXCEPT ![a] = r]
  BY <1>5 DEF Enter
<1> HIDE DEF a, r
<1>9. /\ acts'[a] = r /\ acts' \in [Activity -> ActRec]
      /\ \A b \in Activity \ {a} : acts'[b] = acts[b]
  BY <1>5, <1>7, <1>8
<1>10. Made' = Made
  BY <1>5, <1>7, <1>9 DEF Made
<1>11. StillMade /\ SameExited
  BY <1>5, <1>7, <1>9, <1>10 DEF StillMade, SameExited
<1>12. TypeOK' /\ \A d \in Caller : Shape(call'[d], Made')
  <2>1. LifeOK' /\ IdleOK'
    BY <1>1, <1>2, SameParts
  <2>2. ActsOK'
    BY <1>1, <1>2, <1>9, <1>10 DEF ActsOK
  <2>3. QED
    BY <1>3, <1>4, <1>10, <2>1, <2>2, OthersSame, TypePartsNext
<1>13. GateInv'
  <2>1. \A d \in Caller : HoldsGate(call'[d]) <=> HoldsGate(call[d])
    BY <1>1, <1>3 DEF Moves, HoldsGate, Leaving
  <2>2. QED
    BY <1>2, <2>1, GateKept DEF IInv, lifeVars
<1>14. StartedInv'
  <2>1. \A d \in Caller : call'[d].at = "starting" => call[d].at = "starting"
    BY <1>3 DEF Moves
  <2>2. QED
    BY <1>2, <1>11, <2>1, StartedKept DEF IInv, lifeVars
<1>15. EnterInv'
  <2>1. \A b \in Activity : ~WillEnter(k, b) /\ (WillEnter(call[c], b) <=> b = a)
    BY <1>1, <1>3, <1>4, NoneOutside DEF WillEnter, a
  <2>2. \A d \in Caller, b \in Activity : WillEnter(call'[d], b) => WillEnter(call[d], b) /\ b # a
    BY <1>3, <1>5, <2>1 DEF Moves, IInv, EnterInv
  <2>3. /\ \A b \in Activity \ Made : acts'[b] = NoActivity
        /\ \A b \in Activity : acts'[b].entered <= 1
    BY <1>1, <1>7, <1>9 DEF IInv, EnterInv, a
  <2>4. \A d \in Caller, b \in Activity : WillEnter(call'[d], b) => acts'[b].entered = 0
    BY <1>9, <2>2 DEF IInv, EnterInv
  <2>5. \A d, e \in Caller, b \in Activity :
           WillEnter(call'[d], b) /\ WillEnter(call'[e], b) => d = e
    BY <2>2 DEF IInv, EnterInv
  <2>6. QED
    BY <1>10, <2>3, <2>4, <2>5 DEF EnterInv, WillEnter
<1>16. ExitInv' /\ NoStrayActivity' /\ CloseInv'
  <2>1. \A b \in Activity : ~WillExit(k, b) /\ ~WillExit(call[c], b)
    BY <1>1, <1>3 DEF WillExit
  <2>2. call[c].at \notin Leaving /\ k.at \notin Leaving \cup {"callbacks", "emit"}
    BY <1>1, <1>3 DEF Leaving
  <2>3. QED
    BY <1>2, <1>3, <1>11, <2>1, <2>2, ExitPartsKept
<1>17. CallbacksInv'
  <2>1. \A d \in Caller : call'[d].callbacks <=> call[d].callbacks
    BY <1>3 DEF Moves
  <2>2. QED
    BY <1>2, <1>10, <2>1, CallbacksKept DEF IInv, lifeVars
<1>18. CountInv'
  BY <1>1, <1>2, <1>3, CountMove
<1>19. QED
  BY <1>12, <1>13, <1>14, <1>15, <1>16, <1>17, <1>18, IInvNext

LEMMA RunCallbacksKeeps ==
    ASSUME IInv, NEW c \in Caller, RunCallbacks(c)
    PROVE  IInv'
<1>1. /\ TypeOK /\ LifeOK /\ ActsOK /\ IdleOK /\ call[c] \in CallRec /\ Shape(call[c], Made)
      /\ call[c].at = "callbacks" /\ HoldsGate(call[c])
  BY CallOf, TypeParts DEF IInv, RunCallbacks, At, HoldsGate
<1>2. /\ UNCHANGED agentVars /\ UNCHANGED idleVars /\ gate' = None
      /\ UNCHANGED <<started, closing, callbacksRan>>
      /\ callbackRuns' = callbackRuns + (IF call[c].callbacks THEN 1 ELSE 0)
  BY DEF RunCallbacks
<1>3. \E k : /\ Moves(c, k) /\ Shape(k, Made) /\ ~k.callbacks /\ k.next = None
             /\ k.at \in {"idle", "emit"}
             /\ k.op = "close" => call[c].op = "close" /\ k.found = call[c].found
  <2>1. CASE call[c].op = "close"
    <3> DEFINE k == [call[c] EXCEPT !.at = "emit", !.callbacks = FALSE]
    <3>1. /\ k \in CallRec /\ k.at = "emit" /\ k.op = "close"
          /\ k.next = call[c].next /\ k.found = call[c].found
      BY <1>1, <2>1 DEF CallRec, Places
    <3>2. ~k.callbacks
      BY <1>1 DEF CallRec
    <3>3. call' = [call EXCEPT ![c] = k]
      BY <2>1, <1>1, CallOf DEF RunCallbacks
    <3> HIDE DEF k
    <3>4. Moves(c, k)
      BY <1>1, <3>1, <3>3, CallOf DEF Moves
    <3>5. Shape(k, Made) /\ k.next = None
      BY <1>1, <3>1, <3>2, <2>1 DEF Shape, Leaving, Stops
    <3>6. QED
      BY <2>1, <3>1, <3>2, <3>4, <3>5
  <2>2. CASE call[c].op # "close"
    <3>1. Moves(c, Idle)
      BY <1>1, <2>2, ReturnMoves DEF RunCallbacks
    <3>2. QED
      BY <3>1, IdleIs, IdleIsPlain DEF Plain
  <2>3. QED
    BY <2>1, <2>2
<1>4. PICK k : /\ Moves(c, k) /\ Shape(k, Made) /\ ~k.callbacks /\ k.next = None
               /\ k.at \in {"idle", "emit"}
               /\ k.op = "close" => call[c].op = "close" /\ k.found = call[c].found
  BY <1>3
<1>5. SameActs /\ ActsOK' /\ UNCHANGED <<activity, acts>>
  BY <1>1, <1>2, NoActsChange DEF agentVars
<1>6. TypeOK' /\ \A d \in Caller : Shape(call'[d], Made')
  <2>1. LifeOK'
    BY <1>1, <1>2 DEF LifeOK
  <2>2. IdleOK'
    BY <1>1, <1>2, SameParts
  <2>3. QED
    BY <1>4, <1>5, <2>1, <2>2, OthersSame, TypePartsNext DEF SameActs, StillMade
<1>7. ~HoldsGate(k) /\ \A b \in Activity : ~WillExit(k, b) /\ ~WillEnter(k, b)
  BY <1>4, NoneOutside DEF HoldsGate, WillExit, WillEnter, Leaving
<1>8. GateInv'
  <2>1. ~HoldsGate(call'[c]) /\ \A d \in Caller \ {c} : HoldsGate(call'[d]) <=> HoldsGate(call[d])
    BY <1>4, <1>7 DEF Moves
  <2>2. QED
    BY <1>1, <1>2, <2>1, GateReleased DEF IInv
<1>9. StartedInv'
  <2>1. \A d \in Caller : call'[d].at = "starting" => call[d].at = "starting"
    BY <1>4 DEF Moves
  <2>2. QED
    BY <1>2, <1>5, <2>1, StartedKept DEF IInv, SameActs
<1>10. EnterInv'
  <2>1. \A d \in Caller, a \in Activity : WillEnter(call'[d], a) => WillEnter(call[d], a)
    BY <1>4, <1>7 DEF Moves
  <2>2. QED
    BY <1>5, <2>1, EnterKept DEF IInv, SameActs, StillMade
<1>11. ExitInv' /\ NoStrayActivity' /\ CloseInv'
  <2>1. \A b \in Activity : ~WillExit(call[c], b)
    BY <1>1 DEF WillExit
  <2>2. call[c].at \notin Leaving
    BY <1>1 DEF Leaving
  <2>3. QED
    BY <1>1, <1>4, <1>5, <1>7, <2>1, <2>2, ExitPartsKept DEF SameActs
<1>12. CallbacksInv'
  <2>1. \A d \in Caller \ {c} : ~call[d].callbacks
    BY <1>1, CallbacksNeedGate
  <2>2. \A d \in Caller : ~call'[d].callbacks
    BY <1>4, <2>1 DEF Moves
  <2>3. Pending <=> call[c].callbacks
    BY <2>1 DEF Pending
  <2>4. ~Pending'
    BY <2>2 DEF Pending
  <2>5. Made' = Made
    BY <1>5 DEF SameActs, StillMade
  <2>6. QED
    BY <1>1, <1>2, <2>3, <2>4, <2>5 DEF IInv, CallbacksInv, LifeOK
<1>13. CountInv'
  BY <1>1, <1>2, <1>4, CountMove
<1>14. QED
  BY <1>6, <1>8, <1>9, <1>10, <1>11, <1>12, <1>13, IInvNext

LEMMA CancelKeeps ==
    ASSUME IInv, NEW c \in Caller, Cancel(c)
    PROVE  IInv'
<1>1. /\ TypeOK /\ LifeOK /\ ActsOK /\ IdleOK /\ call[c] \in CallRec /\ Shape(call[c], Made)
      /\ call[c].at = "cancel" /\ call[c].act \in Made
  BY CallOf, TypeParts DEF IInv, Cancel, At, Shape, Leaving
<1>2. /\ UNCHANGED lifeVars /\ activity' = activity /\ UNCHANGED idleVars
      /\ callbackRuns' = callbackRuns
  BY DEF Cancel
<1>3. \E k : /\ Moves(c, k) /\ Shape(k, Made) /\ (k.callbacks <=> call[c].callbacks)
             /\ (HoldsGate(k) <=> HoldsGate(call[c]))
             /\ k.at \in {"enter", "callbacks"}
             /\ \A b \in Activity : WillEnter(k, b) => WillEnter(call[c], b)
             /\ k.op = call[c].op /\ k.found = call[c].found
  <2>1. CASE call[c].op = "update"
    <3>1. call[c].next \in Made /\ call[c].next \in Activity
      BY <1>1, <2>1 DEF Shape, Leaving, Made
    <3> DEFINE k == [call[c] EXCEPT !.at = "enter", !.next = None, !.act = call[c].next]
    <3>2. /\ k \in CallRec /\ k.at = "enter" /\ k.op = "update" /\ k.act = call[c].next
          /\ k.next = None /\ k.found = call[c].found
      BY <1>1, <2>1, <3>1 DEF CallRec, Places
    <3>3. k.callbacks <=> call[c].callbacks
      BY <1>1 DEF CallRec
    <3>4. call' = [call EXCEPT ![c] = k]
      BY <1>1, <2>1, CallOf DEF Cancel
    <3> HIDE DEF k
    <3>5. Moves(c, k)
      BY <1>1, <3>2, <3>4, CallOf DEF Moves
    <3>6. ~call[c].callbacks
      BY <1>1, <2>1 DEF Shape, Stops
    <3>7. Shape(k, Made)
      BY <1>1, <2>1, <3>1, <3>2, <3>3, <3>6 DEF Shape, Leaving, Stops
    <3>8. ~HoldsGate(k) /\ ~HoldsGate(call[c])
      BY <1>1, <2>1, <3>2 DEF HoldsGate, Leaving, Stops
    <3>9. \A b \in Activity : WillEnter(k, b) => WillEnter(call[c], b)
      BY <3>2, NoneOutside DEF WillEnter
    <3>10. QED
      BY <2>1, <3>2, <3>3, <3>5, <3>7, <3>8, <3>9
  <2>2. CASE call[c].op # "update"
    <3> DEFINE k == [call[c] EXCEPT !.at = "callbacks", !.act = None]
    <3>1. /\ k \in CallRec /\ k.at = "callbacks" /\ k.op = call[c].op
          /\ k.next = call[c].next /\ k.found = call[c].found
      BY <1>1 DEF CallRec, Places
    <3>2. k.callbacks <=> call[c].callbacks
      BY <1>1 DEF CallRec
    <3>3. call' = [call EXCEPT ![c] = k]
      BY <1>1, <2>2, CallOf DEF Cancel
    <3> HIDE DEF k
    <3>4. Moves(c, k)
      BY <1>1, <3>1, <3>3, CallOf DEF Moves
    <3>5. call[c].op \in Stops /\ k.next = None
      BY <1>1, <2>2, <3>1 DEF Shape, Leaving
    <3>6. Shape(k, Made)
      BY <1>1, <3>1, <3>2, <3>5 DEF Shape, Leaving, Stops
    <3>7. HoldsGate(k) /\ HoldsGate(call[c])
      BY <1>1, <3>1, <3>5 DEF HoldsGate, Leaving
    <3>8. \A b \in Activity : ~WillEnter(k, b)
      BY <3>1, <3>5, NoneOutside DEF WillEnter
    <3>9. QED
      BY <3>1, <3>2, <3>4, <3>6, <3>7, <3>8
  <2>3. QED
    BY <2>1, <2>2
<1>4. PICK k : /\ Moves(c, k) /\ Shape(k, Made) /\ (k.callbacks <=> call[c].callbacks)
               /\ (HoldsGate(k) <=> HoldsGate(call[c]))
               /\ k.at \in {"enter", "callbacks"}
               /\ \A b \in Activity : WillEnter(k, b) => WillEnter(call[c], b)
               /\ k.op = call[c].op /\ k.found = call[c].found
  BY <1>3
<1> DEFINE a == call[c].act
           r == [acts[a] EXCEPT !.cancelled = TRUE, !.paused = TRUE]
<1>5. acts[a] \in ActRec /\ acts[a].made /\ acts \in [Activity -> ActRec] /\ a \in Activity
  BY <1>1, MadeRec
<1>6. /\ r \in ActRec /\ r.entered = acts[a].entered /\ r.exited = acts[a].exited
      /\ (r.made <=> acts[a].made)
  BY <1>5 DEF ActRec
<1>7. r.cancelled
  BY <1>5 DEF ActRec
<1>8. acts' = [acts EXCEPT ![a] = r]
  BY <1>5 DEF Cancel
<1>9. SameActs /\ ActsOK' /\ acts'[a].cancelled
  <2> HIDE DEF r
  <2>1. SameActs /\ ActsOK'
    BY <1>1, <1>2, <1>5, <1>6, <1>7, <1>8, ActChange
  <2>2. QED
    BY <1>5, <1>7, <1>8, <2>1
<1> HIDE DEF a, r
<1>10. TypeOK' /\ \A d \in Caller : Shape(call'[d], Made')
  <2>1. LifeOK' /\ IdleOK'
    BY <1>1, <1>2, SameParts
  <2>2. QED
    BY <1>4, <1>9, <2>1, OthersSame, TypePartsNext DEF SameActs, StillMade
<1>11. GateInv'
  <2>1. \A d \in Caller : HoldsGate(call'[d]) <=> HoldsGate(call[d])
    BY <1>4 DEF Moves
  <2>2. QED
    BY <1>2, <2>1, GateKept DEF IInv, lifeVars
<1>12. StartedInv'
  <2>1. \A d \in Caller : call'[d].at = "starting" => call[d].at = "starting"
    BY <1>4 DEF Moves
  <2>2. QED
    BY <1>2, <1>9, <2>1, StartedKept DEF IInv, lifeVars, SameActs
<1>13. EnterInv'
  <2>1. \A d \in Caller, b \in Activity : WillEnter(call'[d], b) => WillEnter(call[d], b)
    BY <1>4 DEF Moves
  <2>2. QED
    BY <1>9, <2>1, EnterKept DEF IInv, SameActs, StillMade
<1>14. ExitInv' /\ NoStrayActivity' /\ CloseInv'
  <2>1. \A b \in Activity : ~WillExit(k, b) /\ ~WillExit(call[c], b)
    BY <1>1, <1>4 DEF WillExit
  <2>2. call[c].at \in Leaving /\ acts'[call[c].act].cancelled
    BY <1>1, <1>9 DEF Leaving, a
  <2>3. QED
    BY <1>2, <1>4, <1>9, <2>1, <2>2, ExitPartsKept DEF SameActs
<1>15. CallbacksInv'
  <2>1. \A d \in Caller : call'[d].callbacks <=> call[d].callbacks
    BY <1>4 DEF Moves
  <2>2. QED
    BY <1>2, <1>9, <2>1, CallbacksKept DEF IInv, lifeVars, SameActs, StillMade
<1>16. CountInv'
  BY <1>1, <1>2, <1>4, CountMove
<1>17. QED
  BY <1>10, <1>11, <1>12, <1>13, <1>14, <1>15, <1>16, IInvNext

LEMMA ExitKeeps ==
    ASSUME IInv, NEW c \in Caller, Exit(c)
    PROVE  IInv'
<1>1. /\ TypeOK /\ LifeOK /\ ActsOK /\ IdleOK /\ call[c] \in CallRec /\ Shape(call[c], Made)
      /\ call[c].at = "exit" /\ call[c].act \in Made
  BY CallOf, TypeParts DEF IInv, Exit, At, Shape, Leaving
<1>2. UNCHANGED lifeVars /\ activity' = activity /\ UNCHANGED idleVars /\ callbackRuns' = callbackRuns
  BY DEF Exit
<1>3. PICK k : /\ Moves(c, k) /\ k.at = "cancel"
               /\ k.op = call[c].op /\ k.act = call[c].act /\ k.next = call[c].next
               /\ k.found = call[c].found /\ k.callbacks = call[c].callbacks
  BY <1>1, GotoMoves DEF Exit, Places
<1>4. Shape(k, Made)
  BY <1>1, <1>3 DEF Shape, Leaving, Stops
<1> DEFINE a == call[c].act
           r == [acts[a] EXCEPT !.exited = acts[a].exited + 1]
<1>5. acts[a] \in ActRec /\ acts[a].made /\ acts \in [Activity -> ActRec] /\ a \in Activity
  BY <1>1, MadeRec
<1>6. acts[a].exited = 0 /\ a # activity /\ WillExit(call[c], a)
  BY <1>1, <1>5 DEF IInv, ExitInv, WillExit
<1>7. /\ r \in ActRec /\ r.exited = 1 /\ r.entered = acts[a].entered
      /\ (r.made <=> acts[a].made) /\ (r.cancelled <=> acts[a].cancelled)
  BY <1>5, <1>6 DEF ActRec
<1>8. acts' = [acts EXCEPT ![a] = r]
  BY <1>5 DEF Exit
<1> HIDE DEF a, r
<1>9. /\ acts'[a] = r /\ acts' \in [Activity -> ActRec]
      /\ \A b \in Activity \ {a} : acts'[b] = acts[b]
  BY <1>5, <1>7, <1>8
<1>10. Made' = Made
  BY <1>5, <1>7, <1>9 DEF Made
<1>11. StillMade /\ SameEntered
  BY <1>1, <1>5, <1>7, <1>9, <1>10 DEF StillMade, SameEntered, a
<1>12. TypeOK' /\ \A d \in Caller : Shape(call'[d], Made')
  <2>1. LifeOK' /\ IdleOK'
    BY <1>1, <1>2, SameParts
  <2>2. ActsOK'
    BY <1>1, <1>2, <1>9, <1>10 DEF ActsOK
  <2>3. QED
    BY <1>3, <1>4, <1>10, <2>1, <2>2, OthersSame, TypePartsNext
<1>13. GateInv'
  <2>1. \A d \in Caller : HoldsGate(call'[d]) <=> HoldsGate(call[d])
    BY <1>1, <1>3 DEF Moves, HoldsGate, Leaving
  <2>2. QED
    BY <1>2, <2>1, GateKept DEF IInv, lifeVars
<1>14. StartedInv'
  <2>1. \A d \in Caller : call'[d].at = "starting" => call[d].at = "starting"
    BY <1>3 DEF Moves
  <2>2. QED
    BY <1>2, <1>11, <2>1, StartedKept DEF IInv, lifeVars
<1>15. EnterInv'
  <2>1. \A d \in Caller, b \in Activity : WillEnter(call'[d], b) => WillEnter(call[d], b)
    BY <1>3 DEF Moves, WillEnter
  <2>2. QED
    BY <1>10, <1>11, <2>1, EnterKept DEF IInv
<1>16. \A d \in Caller, b \in Activity : WillExit(call'[d], b) <=> WillExit(call[d], b) /\ b # a
  <2>1. \A b \in Activity : ~WillExit(k, b) /\ (WillExit(call[c], b) <=> b = a)
    BY <1>1, <1>3 DEF WillExit, a
  <2>2. QED
    BY <1>3, <1>5, <2>1 DEF Moves, IInv, ExitInv
<1>17. ExitInv'
  <2>1. \A b \in Activity : acts'[b].exited <= 1
    BY <1>7, <1>9 DEF IInv, ExitInv
  <2>2. \A b \in Made : acts'[b].exited = 0 /\ b # activity =>
           b # a /\ \E d \in Caller : WillExit(call[d], b)
    BY <1>7, <1>9 DEF IInv, ExitInv, Made
  <2>3. \A b \in Made : acts'[b].exited = 0 /\ b # activity =>
           \E d \in Caller : WillExit(call'[d], b)
    BY <1>16, <2>2 DEF Made
  <2>4. \A b \in Activity : b = activity => acts'[b].exited = 0
    BY <1>6, <1>9 DEF IInv, ExitInv
  <2>5. \A d \in Caller, b \in Activity : WillExit(call'[d], b) => acts'[b].exited = 0 /\ b # activity
    BY <1>9, <1>16 DEF IInv, ExitInv
  <2>6. \A d, e \in Caller, b \in Activity :
           WillExit(call'[d], b) /\ WillExit(call'[e], b) => d = e
    BY <1>16 DEF IInv, ExitInv
  <2>7. QED
    BY <1>2, <1>10, <2>1, <2>3, <2>4, <2>5, <2>6 DEF ExitInv, WillExit
<1>18. NoStrayActivity'
  <2>1. \A d \in Caller : call[d].at \in Leaving =>
              call'[d].at \in Leaving /\ call'[d].act = call[d].act
    BY <1>1, <1>3 DEF Moves, Leaving
  <2>2. QED
    BY <1>2, <1>11, <2>1, StrayKept DEF IInv
<1>19. CloseInv'
  <2>1. ASSUME NEW d \in Caller, call'[d].op = "close",
               call'[d].at \in Leaving \cup {"callbacks", "emit"}
        PROVE  /\ acts'[call'[d].found].cancelled
               /\ \/ acts'[call'[d].found].exited = 1
                  \/ WillExit(call'[d], call'[d].found)
                  \/ \E e \in Caller : call'[e].op = "update" /\ WillExit(call'[e], call'[d].found)
    <3>1. /\ call[d].op = "close" /\ call[d].at \in Leaving \cup {"callbacks", "emit"}
          /\ call'[d].found = call[d].found
      BY <1>1, <1>3, <2>1 DEF Moves, Leaving
    <3>2. Cleaned(call[d]) /\ call[d].found \in Activity
      BY <3>1 DEF IInv, CloseInv, Shape, Made
    <3>3. acts'[call'[d].found].cancelled
      BY <1>11, <3>1, <3>2 DEF Cleaned, StillMade
    <3>4. CASE call[d].found = a
      BY <1>7, <1>9, <3>1, <3>3, <3>4
    <3>5. CASE call[d].found # a
      <4>1. acts'[call[d].found] = acts[call[d].found]
        BY <1>9, <3>2, <3>5
      <4>2. \A e \in Caller : call'[e].op = call[e].op
        BY <1>3 DEF Moves
      <4>3. QED
        BY <1>16, <3>1, <3>2, <3>3, <3>5, <4>1, <4>2 DEF Cleaned
    <3>6. QED
      BY <3>4, <3>5
  <2>2. QED
    BY <2>1 DEF CloseInv, Cleaned, WillExit, Leaving
<1>20. CallbacksInv'
  <2>1. \A d \in Caller : call'[d].callbacks <=> call[d].callbacks
    BY <1>3 DEF Moves
  <2>2. QED
    BY <1>2, <1>10, <2>1, CallbacksKept DEF IInv, lifeVars
<1>21. CountInv'
  BY <1>1, <1>2, <1>3, CountMove
<1>22. QED
  BY <1>12, <1>13, <1>14, <1>15, <1>17, <1>18, <1>19, <1>20, <1>21, IInvNext

-----------------------------------------------------------------------------
(* Stop.                                                                   *)
LEMMA CallbacksTaken ==
    ASSUME IInv, NEW c \in Caller, gate = None, callbacksRan', callbackRuns' = callbackRuns,
           call'[c].callbacks <=> ~callbacksRan,
           \A d \in Caller \ {c} : call'[d].callbacks <=> call[d].callbacks
    PROVE  CallbacksInv'
<1>1. \A d \in Caller : ~call[d].callbacks
  BY CallbacksNeedGate
<1>2. ~Pending
  BY <1>1 DEF Pending
<1>3. Pending' <=> ~callbacksRan
  BY <1>1 DEF Pending
<1>4. callbackRuns = IF callbacksRan THEN 1 ELSE 0
  BY <1>2 DEF IInv, CallbacksInv
<1>5. QED
  BY <1>3, <1>4 DEF CallbacksInv

(* With nobody at the gate, an activity that has been replaced and has not *)
(* been left will be by an UpdateAgent.                                    *)
LEMMA UpdateLeaves ==
    ASSUME IInv, gate = None, NEW a \in Made, a # activity, acts[a].exited # 1
    PROVE  \E d \in Caller : /\ call[d].op = "update" /\ WillExit(call[d], a)
<1>1. acts[a].exited = 0
  BY MadeRec DEF IInv, ExitInv, ActRec
<1>2. PICK d \in Caller : WillExit(call[d], a)
  BY <1>1 DEF IInv, ExitInv
<1>3. ~HoldsGate(call[d])
  BY CallbacksNeedGate
<1>4. call[d].op = "update"
  BY <1>2, <1>3 DEF HoldsGate, WillExit, Leaving, IInv, Shape
<1>5. QED
  BY <1>2, <1>4

LEMMA StopIdleKeeps ==
    ASSUME IInv, NEW c \in Caller, StopIdle(c)
    PROVE  IInv'
<1>1. /\ TypeOK /\ LifeOK /\ ActsOK /\ IdleOK /\ call[c] \in CallRec /\ Shape(call[c], Made)
      /\ call[c].at = "stopGate" /\ gate = None /\ ~started /\ Plain(call[c])
  BY CallOf, TypeParts, PlainOf DEF IInv, StopIdle, At, PlainAt
<1>2. /\ UNCHANGED agentVars /\ UNCHANGED idleVars /\ gate' = c
      /\ UNCHANGED <<started, closing>> /\ callbacksRan' = TRUE
      /\ callbackRuns' = callbackRuns
  BY DEF StopIdle, TakeCallbacks
<1> DEFINE k == [call[c] EXCEPT !.at = "callbacks", !.act = None, !.callbacks = ~callbacksRan]
<1>3. /\ k \in CallRec /\ k.at = "callbacks" /\ k.op = call[c].op /\ k.act = None
      /\ k.next = call[c].next /\ k.found = call[c].found
  BY <1>1 DEF CallRec, Places
<1>4. k.callbacks <=> ~callbacksRan
  BY <1>1 DEF CallRec
<1>5. call'[c] = k /\ \A d \in Caller \ {c} : call'[d] = call[d]
  BY <1>1 DEF StopIdle, TakeCallbacks
<1> HIDE DEF k
<1>6. Moves(c, k)
  <2>1. call' = [d \in Caller |-> call'[d]]
    BY DEF StopIdle, TakeCallbacks
  <2>2. \A d \in Caller : call'[d] \in CallRec
    BY <1>1, <1>3, <1>5, CallOf
  <2>3. QED
    BY <1>3, <1>5, <2>1, <2>2 DEF Moves
<1>7. Shape(k, Made)
  BY <1>1, <1>3 DEF Shape, Leaving, Plain
<1>8. SameActs /\ ActsOK' /\ UNCHANGED <<activity, acts>>
  BY <1>1, <1>2, NoActsChange DEF agentVars
<1>9. TypeOK' /\ \A d \in Caller : Shape(call'[d], Made')
  <2>1. LifeOK'
    BY <1>1, <1>2 DEF LifeOK
  <2>2. IdleOK'
    BY <1>1, <1>2, SameParts
  <2>3. QED
    BY <1>6, <1>7, <1>8, <2>1, <2>2, OthersSame, TypePartsNext DEF SameActs, StillMade
<1>10. GateInv'
  <2>1. HoldsGate(call'[c]) /\ \A d \in Caller \ {c} : HoldsGate(call'[d]) <=> HoldsGate(call[d])
    BY <1>3, <1>5 DEF HoldsGate
  <2>2. QED
    BY <1>1, <1>2, <2>1, GateTaken DEF IInv
<1>11. StartedInv'
  <2>1. \A d \in Caller : call'[d].at = "starting" => call[d].at = "starting"
    BY <1>3, <1>5
  <2>2. QED
    BY <1>2, <1>8, <2>1, StartedKept DEF IInv, SameActs
<1>12. \A b \in Activity : /\ ~WillEnter(k, b) /\ ~WillExit(k, b)
                           /\ ~WillEnter(call[c], b) /\ ~WillExit(call[c], b)
  BY <1>1, <1>3, NoneOutside DEF WillEnter, WillExit, Plain
<1>13. EnterInv'
  <2>1. \A d \in Caller, b \in Activity : WillEnter(call'[d], b) => WillEnter(call[d], b)
    BY <1>5, <1>12
  <2>2. QED
    BY <1>8, <2>1, EnterKept DEF IInv, SameActs, StillMade
<1>14. \A d \in Caller, b \in Activity : WillExit(call'[d], b) <=> WillExit(call[d], b)
  BY <1>5, <1>12
<1>15. ExitInv' /\ NoStrayActivity'
  <2>1. \A d \in Caller : call[d].at \in Leaving =>
           call'[d].at \in Leaving /\ call'[d].act = call[d].act
    BY <1>1, <1>5 DEF Leaving
  <2>2. QED
    BY <1>8, <1>14, <2>1, ExitKept, StrayKept DEF IInv, SameActs, StillMade
<1>16. CloseInv'
  <2>1. ASSUME NEW d \in Caller, call'[d].op = "close",
               call'[d].at \in Leaving \cup {"callbacks", "emit"}
        PROVE  /\ acts'[call'[d].found].cancelled
               /\ \/ acts'[call'[d].found].exited = 1
                  \/ WillExit(call'[d], call'[d].found)
                  \/ \E e \in Caller : call'[e].op = "update" /\ WillExit(call'[e], call'[d].found)
    <3>1. CASE d # c
      <4>1. Cleaned(call[d]) /\ call'[d] = call[d]
        BY <1>5, <2>1, <3>1 DEF IInv, CloseInv
      <4>2. \A e \in Caller, b \in Activity : WillExit(call[e], b) => call'[e] = call[e]
        BY <1>5, <1>12
      <4>3. call[d].found \in Activity
        BY <2>1, <4>1 DEF IInv, Shape, Made
      <4>4. QED
        BY <1>8, <4>1, <4>2, <4>3 DEF Cleaned, WillExit
    <3>2. CASE d = c
      <4>1. call[c].found \in Made /\ call[c].found \in Activity /\ call'[d].found = call[c].found
        BY <1>1, <1>3, <1>5, <2>1, <3>2 DEF Shape, Made
      <4>2. acts[call[c].found].cancelled /\ activity = None
        BY <1>1, <4>1 DEF IInv, StartedInv
      <4>3. CASE acts[call[c].found].exited = 1
        BY <1>8, <4>1, <4>2, <4>3 DEF Cleaned
      <4>4. CASE acts[call[c].found].exited # 1
        <5>1. PICK e \in Caller : call[e].op = "update" /\ WillExit(call[e], call[c].found)
          BY <1>1, <4>1, <4>2, <4>4, UpdateLeaves, NoneOutside
        <5>2. call'[e] = call[e]
          BY <1>5, <1>12, <4>1, <5>1
        <5>3. QED
          BY <1>8, <4>1, <4>2, <5>1, <5>2 DEF Cleaned, WillExit
      <4>5. QED
        BY <4>3, <4>4
    <3>3. QED
      BY <3>1, <3>2
  <2>2. QED
    BY <2>1 DEF CloseInv, Cleaned, WillExit, Leaving
<1>17. CallbacksInv'
  BY <1>1, <1>2, <1>4, <1>5, CallbacksTaken
<1>18. CountInv'
  BY <1>1, <1>2, <1>3, <1>6, CountMove
<1>19. QED
  BY <1>9, <1>10, <1>11, <1>13, <1>15, <1>16, <1>17, <1>18, IInvNext

LEMMA StopBeginKeeps ==
    ASSUME IInv, NEW c \in Caller, StopBegin(c)
    PROVE  IInv'
<1>1. /\ TypeOK /\ LifeOK /\ ActsOK /\ IdleOK /\ call[c] \in CallRec /\ Shape(call[c], Made)
      /\ call[c].at = "stopGate" /\ gate = None /\ started /\ Plain(call[c])
  BY CallOf, TypeParts, PlainOf DEF IInv, StopBegin, At, PlainAt
<1>2. /\ gate' = c /\ ~started' /\ activity' = None /\ callbacksRan' = TRUE
      /\ closing' = closing /\ callbackRuns' = callbackRuns
      /\ claims' = 0 /\ holds' = 0 /\ outlived' = (outlived \/ claims > 0 \/ holds > 0)
  BY DEF StopBegin, TakeCallbacks
<1>3. activity \in Made /\ activity \in Activity
  BY <1>1 DEF IInv, StartedInv, TypeOK, Made
<1> DEFINE k == [call[c] EXCEPT !.at = "exit", !.act = activity, !.callbacks = ~callbacksRan]
<1>4. /\ k \in CallRec /\ k.at = "exit" /\ k.op = call[c].op /\ k.act = activity
      /\ k.next = call[c].next /\ k.found = call[c].found
  BY <1>1, <1>3 DEF CallRec, Places
<1>5. k.callbacks <=> ~callbacksRan
  BY <1>1 DEF CallRec
<1>6. call'[c] = k
  BY <1>1 DEF StopBegin, TakeCallbacks
<1> HIDE DEF k
<1>7. Shape(k, Made)
  BY <1>1, <1>3, <1>4 DEF Shape, Leaving, Plain, Stops
<1>8. \A d \in Caller \ {c} :
         \/ call'[d] = call[d]
         \/ call[d].at \in {"onClaims", "onHolds"} /\ call'[d] = [call[d] EXCEPT !.at = "read"]
  BY DEF StopBegin, TakeCallbacks
<1>9. \A d \in Caller \ {c} :
         \/ call'[d] = call[d]
         \/ /\ call[d].at \in {"onClaims", "onHolds"} /\ call'[d].at = "read" /\ Plain(call[d])
            /\ call'[d] \in CallRec /\ Plain(call'[d]) /\ Shape(call'[d], Made)
  <2> SUFFICES ASSUME NEW d \in Caller \ {c}, call[d].at \in {"onClaims", "onHolds"},
                      call'[d] = [call[d] EXCEPT !.at = "read"]
               PROVE  /\ call'[d].at = "read" /\ Plain(call[d])
                      /\ call'[d] \in CallRec /\ Plain(call'[d]) /\ Shape(call'[d], Made)
    BY <1>8
  <2> DEFINE q == [call[d] EXCEPT !.at = "read"]
  <2>1. Plain(call[d]) /\ call[d] \in CallRec /\ Shape(call[d], Made)
    BY <1>1, CallOf, PlainOf DEF IInv, PlainAt
  <2>2. /\ q \in CallRec /\ q.at = "read" /\ q.op = call[d].op
        /\ q.next = call[d].next /\ q.found = call[d].found
    BY <2>1 DEF CallRec, Places
  <2>3. q.callbacks <=> call[d].callbacks
    BY <2>1 DEF CallRec
  <2> HIDE DEF q
  <2>4. Plain(q)
    BY <2>1, <2>2, <2>3 DEF Plain, PlainAt
  <2>5. Shape(q, Made)
    BY <2>1, <2>2, <2>3, <2>4 DEF Shape, Plain, PlainAt, Leaving, Stops
  <2>6. QED
    BY <2>1, <2>2, <2>4, <2>5 DEF q
<1>10. \A d \in Caller \ {c} :
          /\ HoldsGate(call'[d]) <=> HoldsGate(call[d])
          /\ call'[d].callbacks <=> call[d].callbacks
          /\ \A b \in Activity : /\ WillEnter(call'[d], b) <=> WillEnter(call[d], b)
                                 /\ WillExit(call'[d], b) <=> WillExit(call[d], b)
          /\ call'[d].at # call[d].at => call'[d].at = "read" /\ call[d].at \in {"onClaims", "onHolds"}
          /\ call'[d].at \in Leaving \cup {"callbacks", "emit", "starting"} => call'[d] = call[d]
          /\ call[d].at \in Leaving => call'[d] = call[d]
  <2> SUFFICES ASSUME NEW d \in Caller \ {c}, call'[d] # call[d]
               PROVE  /\ HoldsGate(call'[d]) <=> HoldsGate(call[d])
                      /\ call'[d].callbacks <=> call[d].callbacks
                      /\ \A b \in Activity : /\ WillEnter(call'[d], b) <=> WillEnter(call[d], b)
                                             /\ WillExit(call'[d], b) <=> WillExit(call[d], b)
                      /\ call'[d].at # call[d].at =>
                            call'[d].at = "read" /\ call[d].at \in {"onClaims", "onHolds"}
                      /\ call'[d].at \notin Leaving \cup {"callbacks", "emit", "starting"}
                      /\ call[d].at \notin Leaving
    OBVIOUS
  <2>1. /\ call[d].at \in {"onClaims", "onHolds"} /\ call'[d].at = "read"
        /\ Plain(call[d]) /\ Plain(call'[d])
    BY <1>9
  <2>2. QED
    BY <2>1, PlainHasNoDuty
<1>11. /\ Made' = Made /\ acts' \in [Activity -> ActRec]
       /\ \A a \in Activity : /\ acts'[a].entered = acts[a].entered
                              /\ acts'[a].exited = acts[a].exited
                              /\ a \notin Made => acts'[a] = acts[a]
       /\ \A a \in Made : acts'[a].cancelled
  <2>1. acts \in [Activity -> ActRec]
    BY <1>1 DEF ActsOK
  <2>2. acts' = [a \in Activity |-> IF a \in Made THEN [acts[a] EXCEPT !.cancelled = TRUE]
                                                   ELSE acts[a]]
    BY DEF StopBegin
  <2>3. \A a \in Activity : LET r == [acts[a] EXCEPT !.cancelled = TRUE]
                            IN /\ r \in ActRec /\ r.entered = acts[a].entered
                               /\ r.exited = acts[a].exited
                               /\ (r.made <=> acts[a].made) /\ r.cancelled
    BY <2>1 DEF ActRec
  <2>4. QED
    BY <2>1, <2>2, <2>3 DEF Made
<1>12. StillMade /\ SameEntered /\ SameExited
  BY <1>11 DEF StillMade, SameEntered, SameExited, Made
<1>13. TypeOK' /\ \A d \in Caller : Shape(call'[d], Made')
  <2>1. LifeOK'
    <3>1. started' = FALSE
      BY DEF StopBegin
    <3>2. started' \in BOOLEAN /\ callbacksRan' \in BOOLEAN
      BY <1>2, <3>1, Zenon
    <3>3. QED
      BY <1>1, <1>2, <3>2 DEF LifeOK
  <2>2. IdleOK'
    <3>1. outlived' \in BOOLEAN
      BY <1>2, Zenon
    <3>2. QED
      BY <1>2, <3>1 DEF IdleOK
  <2>3. ActsOK'
    BY <1>2, <1>11 DEF ActsOK
  <2>4. CallOK'
    <3>1. call' = [d \in Caller |-> call'[d]]
      BY DEF StopBegin, TakeCallbacks
    <3>2. \A d \in Caller : call'[d] \in CallRec
      BY <1>1, <1>4, <1>6, <1>9, CallOf
    <3>3. QED
      BY <3>1, <3>2 DEF CallOK
  <2>5. \A d \in Caller : Shape(call'[d], Made')
    BY <1>6, <1>7, <1>9, <1>11 DEF IInv
  <2>6. QED
    BY <2>1, <2>2, <2>3, <2>4, <2>5, TypePartsNext
<1>14. GateInv'
  <2>1. HoldsGate(call'[c])
    BY <1>1, <1>4, <1>6 DEF HoldsGate, Leaving, Shape
  <2>2. QED
    BY <1>1, <1>2, <1>10, <2>1, GateTaken DEF IInv
<1>15. StartedInv'
  BY <1>2, <1>11 DEF StartedInv, Made
<1>16. \A b \in Activity : /\ ~WillEnter(k, b) /\ (WillExit(k, b) <=> b = activity)
                           /\ ~WillEnter(call[c], b) /\ ~WillExit(call[c], b)
  BY <1>1, <1>4, NoneOutside DEF WillEnter, WillExit, Plain
<1>17. EnterInv'
  <2>1. \A d \in Caller, b \in Activity : WillEnter(call'[d], b) => WillEnter(call[d], b)
    BY <1>6, <1>10, <1>16
  <2>2. QED
    BY <1>11, <1>12, <2>1, EnterKept DEF IInv
<1>18. \A d \in Caller, b \in Activity : WillExit(call'[d], b) <=>
          (IF d = c THEN b = activity ELSE WillExit(call[d], b))
  BY <1>6, <1>10, <1>16
<1>19. ExitInv'
  <2>1. \A b \in Activity : acts'[b].exited <= 1
    BY <1>11 DEF IInv, ExitInv
  <2>2. \A b \in Made : acts'[b].exited = 0 => \E d \in Caller : WillExit(call'[d], b)
    <3> SUFFICES ASSUME NEW b \in Made, acts[b].exited = 0
                 PROVE  \E d \in Caller : WillExit(call'[d], b)
      BY <1>11 DEF Made
    <3>1. CASE b = activity
      BY <1>3, <1>18, <3>1
    <3>2. CASE b # activity
      <4>1. PICK d \in Caller : WillExit(call[d], b)
        BY <3>2 DEF IInv, ExitInv
      <4>2. d # c /\ b \in Activity
        BY <1>16, <4>1 DEF Made
      <4>3. QED
        BY <1>18, <4>1, <4>2
    <3>3. QED
      BY <3>1, <3>2
  <2>3. \A d \in Caller, b \in Activity : WillExit(call'[d], b) => acts'[b].exited = 0 /\ b # None
    BY <1>3, <1>11, <1>18, NoneOutside DEF IInv, ExitInv
  <2>4. \A d, e \in Caller, b \in Activity :
           WillExit(call'[d], b) /\ WillExit(call'[e], b) => d = e
    BY <1>18 DEF IInv, ExitInv
  <2>5. QED
    BY <1>2, <1>11, <2>1, <2>2, <2>3, <2>4, NoneOutside DEF ExitInv, WillExit
<1>20. NoStrayActivity'
  BY <1>11 DEF NoStrayActivity
<1>21. CloseInv'
  <2>1. ASSUME NEW d \in Caller, call'[d].op = "close",
               call'[d].at \in Leaving \cup {"callbacks", "emit"}
        PROVE  /\ acts'[call'[d].found].cancelled
               /\ \/ acts'[call'[d].found].exited = 1
                  \/ WillExit(call'[d], call'[d].found)
                  \/ \E e \in Caller : call'[e].op = "update" /\ WillExit(call'[e], call'[d].found)
    <3>1. /\ call'[d].found = call[d].found /\ call[d].op = "close"
          /\ d # c => call'[d] = call[d]
      BY <1>4, <1>6, <1>10, <2>1
    <3>2. call[d].found \in Made /\ call[d].found \in Activity
      BY <3>1 DEF IInv, Shape, Made
    <3>3. acts'[call'[d].found].cancelled
      BY <1>11, <3>1, <3>2
    <3>4. CASE acts[call[d].found].exited = 1
      BY <1>11, <3>1, <3>2, <3>3, <3>4
    <3>5. CASE acts[call[d].found].exited # 1 /\ call[d].found # activity
      <4>1. PICK e \in Caller : call[e].op = "update" /\ WillExit(call[e], call[d].found)
        BY <1>1, <3>2, <3>5, UpdateLeaves
      <4>2. call'[e] = call[e]
        BY <1>10, <1>16, <3>2, <4>1 DEF WillExit, Leaving
      <4>3. QED
        BY <3>1, <3>3, <4>1, <4>2
    <3>6. CASE call[d].found = activity /\ d = c
      BY <1>6, <1>16, <3>1, <3>2, <3>3, <3>6
    <3>7. CASE call[d].found = activity /\ d # c
      <4>1. Cleaned(call[d])
        BY <2>1, <3>1, <3>7 DEF IInv, CloseInv
      <4>2. acts[activity].exited = 0 /\ \A e \in Caller : ~WillExit(call[e], activity)
        BY <1>3 DEF IInv, ExitInv
      <4>3. QED
        BY <3>7, <4>1, <4>2 DEF Cleaned
    <3>8. QED
      BY <3>4, <3>5, <3>6, <3>7
  <2>2. QED
    BY <2>1 DEF CloseInv, Cleaned, WillExit, Leaving
<1>22. CallbacksInv'
  BY <1>1, <1>2, <1>5, <1>6, <1>10, CallbacksTaken
<1>23. CountInv'
  <2>1. {d \in Caller : At(d, "claimed")}' = {d \in Caller : At(d, "claimed")}
    <3>1. \A d \in Caller : call'[d].at = "claimed" <=> call[d].at = "claimed"
      BY <1>1, <1>4, <1>6, <1>10
    <3>2. QED
      BY <3>1, CountSame
  <2>2. {d \in Caller : At(d, "held")}' = {d \in Caller : At(d, "held")}
    <3>1. \A d \in Caller : call'[d].at = "held" <=> call[d].at = "held"
      BY <1>1, <1>4, <1>6, <1>10
    <3>2. QED
      BY <3>1, CountSame
  <2>3. ~outlived' => ~outlived /\ claims = 0 /\ holds = 0
    <3>1. ~outlived' => ~outlived /\ ~(claims > 0) /\ ~(holds > 0)
      BY <1>2, Zenon
    <3>2. QED
      BY <1>1, <3>1 DEF IdleOK
  <2>4. QED
    BY <1>2, <2>1, <2>2, <2>3, CountNat DEF IInv, CountInv
<1>24. QED
  BY <1>13, <1>14, <1>15, <1>17, <1>19, <1>20, <1>21, <1>22, <1>23, IInvNext

-----------------------------------------------------------------------------
(* An activity is made and becomes the session's.                          *)
Adds(a) ==
    /\ a \in Activity \ Made
    /\ Made' = Made \cup {a} /\ activity' = a
    /\ acts' \in [Activity -> ActRec]
    /\ acts'[a].entered = 0 /\ acts'[a].exited = 0
    /\ \A b \in Activity \ {a} : /\ acts'[b].entered = acts[b].entered
                                 /\ acts'[b].exited = acts[b].exited
                                 /\ acts[b].cancelled => acts'[b].cancelled
                                 /\ b \notin Made => acts'[b] = acts[b]

LEMMA NewIs ==
    /\ NewActivity \in ActRec /\ NewActivity.made
    /\ NewActivity.entered = 0 /\ NewActivity.exited = 0
BY DEF NewActivity, NoActivity, ActRec

(* Nobody knows of an activity before it is made, except who will enter it. *)
LEMMA Unknown ==
    ASSUME IInv, NEW a \in Activity \ Made, NEW d \in Caller
    PROVE  /\ ~WillExit(call[d], a)
           /\ WillEnter(call[d], a) => call[d].next = a
           /\ call[d].op = "close" => call[d].found # a
BY DEF IInv, Shape, WillExit, WillEnter, Leaving

(* The parts that a new activity disturbs, if c becomes k.                 *)
LEMMA AddsKeeps ==
    ASSUME IInv, NEW c \in Caller, NEW k, Moves(c, k), NEW a, Adds(a),
           \A d \in Caller \ {c} : ~WillEnter(call[d], a),
           \A b \in Activity : ~WillExit(call[c], b),
           \A b \in Activity : WillEnter(k, b) <=> b = a,
           \A b \in Activity : WillExit(k, b) <=> activity = b,
           k.op # "close" \/ k.at \notin Leaving \cup {"callbacks", "emit"},
           Shape(k, Made \cup {a})
    PROVE  /\ \A d \in Caller : Shape(call'[d], Made')
           /\ EnterInv' /\ ExitInv' /\ CloseInv'
<1>1. \A d \in Caller : Shape(call'[d], Made')
  <2> SUFFICES ASSUME NEW d \in Caller, d # c
               PROVE  Shape(call[d], Made \cup {a})
    BY DEF Moves, Adds
  <2>1. Shape(call[d], Made) /\ call[d].next # a
    BY DEF IInv, WillEnter
  <2>2. QED
    BY <2>1 DEF Shape, Leaving, Stops
<1>2. EnterInv'
  <2>1. \A d \in Caller, b \in Activity : WillEnter(call'[d], b) <=>
            (IF d = c THEN b = a ELSE b # a /\ WillEnter(call[d], b))
    BY DEF Moves
  <2>2. \A b \in Activity \ Made' : acts'[b] = NoActivity
    BY DEF Adds, IInv, EnterInv
  <2>3. \A b \in Activity : acts'[b].entered <= 1
    BY DEF Adds, IInv, EnterInv
  <2>4. \A d \in Caller, b \in Activity : WillEnter(call'[d], b) => acts'[b].entered = 0
    BY <2>1 DEF Adds, IInv, EnterInv
  <2>5. \A d, e \in Caller, b \in Activity :
           WillEnter(call'[d], b) /\ WillEnter(call'[e], b) => d = e
    BY <2>1 DEF IInv, EnterInv
  <2>6. QED
    BY <2>2, <2>3, <2>4, <2>5 DEF EnterInv, WillEnter
<1>3. \A d \in Caller, b \in Activity : WillExit(call'[d], b) <=>
          (IF d = c THEN activity = b ELSE b # a /\ WillExit(call[d], b))
  BY Unknown DEF Moves, Adds
<1>4. activity # a
  BY NoneOutside DEF IInv, TypeOK, Adds
<1>5. ExitInv'
  <2>1. \A b \in Activity : acts'[b].exited <= 1
    BY DEF Adds, IInv, ExitInv
  <2>2. \A b \in Made' : acts'[b].exited = 0 /\ b # a => \E d \in Caller : WillExit(call'[d], b)
    <3> SUFFICES ASSUME NEW b \in Made, b # a, acts[b].exited = 0
                 PROVE  \E d \in Caller : WillExit(call'[d], b)
      BY DEF Adds, Made
    <3>1. CASE b = activity
      BY <1>3, <3>1 DEF Made
    <3>2. CASE b # activity
      <4>1. PICK d \in Caller : WillExit(call[d], b)
        BY <3>2 DEF IInv, ExitInv
      <4>2. d # c /\ b \in Activity
        BY <4>1 DEF Made
      <4>3. QED
        BY <1>3, <4>1, <4>2
    <3>3. QED
      BY <3>1, <3>2
  <2>3. acts'[a].exited = 0
    BY DEF Adds
  <2>4. \A d \in Caller, b \in Activity : WillExit(call'[d], b) => acts'[b].exited = 0 /\ b # a
    BY <1>3, <1>4 DEF Adds, IInv, ExitInv
  <2>5. \A d, e \in Caller, b \in Activity :
           WillExit(call'[d], b) /\ WillExit(call'[e], b) => d = e
    BY <1>3 DEF IInv, ExitInv
  <2>6. QED
    BY <2>1, <2>2, <2>3, <2>4, <2>5 DEF ExitInv, WillExit, Adds
<1>6. CloseInv'
  <2>1. ASSUME NEW d \in Caller, call'[d].op = "close",
               call'[d].at \in Leaving \cup {"callbacks", "emit"}
        PROVE  /\ acts'[call'[d].found].cancelled
               /\ \/ acts'[call'[d].found].exited = 1
                  \/ WillExit(call'[d], call'[d].found)
                  \/ \E e \in Caller : call'[e].op = "update" /\ WillExit(call'[e], call'[d].found)
    <3>1. d # c /\ call'[d] = call[d]
      BY <2>1 DEF Moves
    <3>2. Cleaned(call[d]) /\ call[d].found \in Activity /\ call[d].found # a
      BY <2>1, <3>1 DEF IInv, CloseInv, Shape, Made, Adds
    <3>3. \A e \in Caller : WillExit(call[e], call[d].found) =>
             WillExit(call'[e], call[d].found) /\ call'[e] = call[e]
      BY <1>3, <3>2 DEF Moves
    <3>4. QED
      BY <3>1, <3>2, <3>3 DEF Cleaned, Adds
  <2>2. QED
    BY <2>1 DEF CloseInv, Cleaned, WillExit, Leaving
<1>7. QED
  BY <1>1, <1>2, <1>5, <1>6

LEMMA StartPublishKeeps ==
    ASSUME IInv, NEW c \in Caller, StartPublish(c)
    PROVE  IInv'
<1>1. /\ TypeOK /\ LifeOK /\ ActsOK /\ IdleOK /\ call[c] \in CallRec /\ Shape(call[c], Made)
      /\ call[c].at = "starting" /\ call[c].op = "start" /\ call[c].next \in Activity \ Made
      /\ ~started /\ activity = None /\ HoldsGate(call[c])
  BY CallOf, TypeParts DEF IInv, StartedInv, StartPublish, At, Shape, HoldsGate
<1> DEFINE a == call[c].next
           k == [call[c] EXCEPT !.at = "enter", !.act = a, !.next = None]
<1>2. /\ acts' = [acts EXCEPT ![a] = NewActivity] /\ activity' = a
      /\ started' = TRUE /\ closing' = FALSE /\ callbacksRan' = FALSE
      /\ callbackRuns' = 0 /\ gate' = gate /\ UNCHANGED idleVars
  BY DEF StartPublish
<1>3. /\ k \in CallRec /\ k.at = "enter" /\ k.op = "start" /\ k.act = a
      /\ k.next = None /\ k.found = call[c].found
  BY <1>1 DEF CallRec, Places
<1>4. (k.callbacks <=> call[c].callbacks) /\ ~call[c].callbacks
  <2>1. k.callbacks <=> call[c].callbacks
    BY <1>1 DEF CallRec
  <2>2. ~call[c].callbacks
    BY <1>1 DEF Shape, Leaving
  <2>3. QED
    BY <2>1, <2>2
<1>5. Moves(c, k)
  <2>1. call' = [call EXCEPT ![c] = k]
    BY DEF StartPublish
  <2>2. QED
    BY <1>3, <2>1, CallOf, <1>1 DEF Moves
<1> HIDE DEF a, k
<1>6. Adds(a)
  <2>1. a \in Activity \ Made /\ acts \in [Activity -> ActRec]
    BY <1>1 DEF a, ActsOK
  <2>2. acts'[a] = NewActivity /\ \A b \in Activity \ {a} : acts'[b] = acts[b]
    BY <1>2, <2>1
  <2>3. Made' = Made \cup {a}
    BY <2>1, <2>2, NewIs DEF Made
  <2>4. acts' \in [Activity -> ActRec]
    BY <1>2, <2>1, NewIs
  <2>5. QED
    BY <1>2, <2>1, <2>2, <2>3, <2>4, NewIs DEF Adds
<1>7. \A d \in Caller \ {c} : ~HoldsGate(call[d]) /\ ~call[d].callbacks
  BY <1>1, CallbacksNeedGate
<1>8. Shape(k, Made \cup {a})
  BY <1>3, <1>4 DEF Shape, Leaving, Stops
<1>9. (\A d \in Caller : Shape(call'[d], Made')) /\ EnterInv' /\ ExitInv' /\ CloseInv'
  <2>1. \A d \in Caller \ {c} : ~WillEnter(call[d], a)
    <3>1. WillEnter(call[c], a) /\ a \in Activity
      BY <1>1 DEF WillEnter, a
    <3>2. QED
      BY <3>1 DEF IInv, EnterInv
  <2>2. \A b \in Activity : ~WillExit(call[c], b) /\ (WillExit(k, b) <=> activity = b)
    BY <1>1, <1>3, NoneOutside DEF WillExit
  <2>3. \A b \in Activity : WillEnter(k, b) <=> b = a
    BY <1>3, NoneOutside DEF WillEnter
  <2>4. k.op # "close"
    BY <1>3
  <2>5. QED
    BY <1>5, <1>6, <1>8, <2>1, <2>2, <2>3, <2>4, AddsKeeps
<1>10. TypeOK'
  <2>1. LifeOK'
    <3>1. started' \in BOOLEAN /\ closing' \in BOOLEAN /\ callbacksRan' \in BOOLEAN
      BY <1>2, Zenon
    <3>2. QED
      BY <1>1, <1>2, <3>1 DEF LifeOK
  <2>2. ActsOK'
    BY <1>6 DEF ActsOK, Adds
  <2>3. IdleOK'
    BY <1>1, <1>2, SameParts
  <2>4. QED
    BY <1>5, <2>1, <2>2, <2>3, MovesCallOK, TypePartsNext
<1>11. GateInv'
  <2>1. \A d \in Caller : HoldsGate(call'[d]) <=> HoldsGate(call[d])
    BY <1>1, <1>3, <1>5 DEF Moves, HoldsGate
  <2>2. QED
    BY <1>2, <2>1, GateKept DEF IInv
<1>12. StartedInv'
  <2>1. activity' # None /\ started'
    BY <1>1, <1>2, NoneOutside DEF a
  <2>2. \A d \in Caller : call'[d].at # "starting"
    BY <1>3, <1>5, <1>7 DEF Moves, HoldsGate
  <2>3. QED
    BY <2>1, <2>2 DEF StartedInv, At
<1>13. NoStrayActivity'
  <2>1. \A b \in Made : acts[b].cancelled
    BY <1>1 DEF IInv, StartedInv
  <2>2. QED
    BY <1>2, <1>6, <2>1 DEF NoStrayActivity, Adds, Made
<1>14. CallbacksInv'
  <2>1. \A d \in Caller : ~call'[d].callbacks
    BY <1>4, <1>5, <1>7 DEF Moves
  <2>2. ~Pending' /\ started' /\ ~callbacksRan'
    BY <1>2, <2>1 DEF Pending
  <2>3. QED
    BY <1>2, <2>2 DEF CallbacksInv
<1>15. CountInv'
  BY <1>1, <1>2, <1>3, <1>5, CountMove
<1>16. QED
  BY <1>9, <1>10, <1>11, <1>12, <1>13, <1>14, <1>15, IInvNext

LEMMA UpdateBeginKeeps ==
    ASSUME IInv, NEW c \in Caller, UpdateBegin(c)
    PROVE  IInv'
<1>1. PICK a \in Fresh : /\ acts' = [acts EXCEPT ![activity].paused = TRUE,
                                                 ![a] = NewActivity]
                         /\ activity' = a /\ Begin(c, "update", "exit", activity, a)
  BY DEF UpdateBegin
<1>2. /\ TypeOK /\ LifeOK /\ ActsOK /\ IdleOK /\ call[c] \in CallRec /\ started
      /\ a \in Activity \ Made /\ \A d \in Caller : call[d].next # a
  BY CallOf, TypeParts DEF IInv, UpdateBegin, Fresh, Taken
<1>3. activity \in Made /\ activity \in Activity /\ activity # a
  BY <1>2 DEF IInv, StartedInv, TypeOK, Made
<1>4. /\ UNCHANGED <<gate, started, closing, callbacksRan, callbackRuns>> /\ UNCHANGED lifeVars
      /\ UNCHANGED idleVars
  BY DEF UpdateBegin, lifeVars
<1> DEFINE k == Begun("update", "exit", activity, a)
<1>5. call[c].at = "idle" /\ Moves(c, k)
  BY <1>1, <1>2, <1>3, BeginMoves DEF AllOps, Places
<1>6. k.at = "exit" /\ k.op = "update" /\ k.act = activity /\ k.next = a /\ k.found = None
  BY <1>2, <1>3, IdleIs DEF Begun, CallRec
<1>7. ~k.callbacks
  BY IdleIs DEF Begun, CallRec
<1> HIDE DEF k
<1>8. Plain(call[c])
  BY <1>2, <1>5, PlainOf DEF IInv, PlainAt
<1>9. Shape(k, Made \cup {a})
  BY <1>3, <1>6, <1>7 DEF Shape, Leaving, Stops
<1>10. Adds(a)
  <2> DEFINE r == [acts[activity] EXCEPT !.paused = TRUE]
  <2>1. acts \in [Activity -> ActRec] /\ acts[activity] \in ActRec
    BY <1>2, <1>3 DEF ActsOK
  <2>2. /\ r \in ActRec /\ r.entered = acts[activity].entered /\ r.exited = acts[activity].exited
        /\ (r.made <=> acts[activity].made) /\ (r.cancelled <=> acts[activity].cancelled)
    BY <2>1 DEF ActRec
  <2>3. acts' = [[acts EXCEPT ![activity] = r] EXCEPT ![a] = NewActivity]
    BY <1>1, <1>2, <1>3, <2>1
  <2> HIDE DEF r
  <2>4. /\ acts'[a] = NewActivity /\ acts'[activity] = r
        /\ \A b \in Activity \ {a, activity} : acts'[b] = acts[b]
        /\ acts' \in [Activity -> ActRec]
    BY <1>2, <1>3, <2>1, <2>2, <2>3, NewIs
  <2>5. Made' = Made \cup {a}
    BY <1>2, <1>3, <2>2, <2>4, NewIs DEF Made
  <2>6. QED
    BY <1>1, <1>2, <1>3, <2>2, <2>4, <2>5, NewIs DEF Adds
<1>11. (\A d \in Caller : Shape(call'[d], Made')) /\ EnterInv' /\ ExitInv' /\ CloseInv'
  <2>1. \A d \in Caller \ {c} : ~WillEnter(call[d], a)
    BY <1>2, Unknown
  <2>2. \A b \in Activity : ~WillExit(call[c], b) /\ (WillExit(k, b) <=> activity = b)
    BY <1>5, <1>6 DEF WillExit
  <2>3. \A b \in Activity : WillEnter(k, b) <=> b = a
    BY <1>6 DEF WillEnter
  <2>4. k.op # "close"
    BY <1>6
  <2>5. QED
    BY <1>5, <1>9, <1>10, <2>1, <2>2, <2>3, <2>4, AddsKeeps
<1>12. TypeOK'
  <2>1. LifeOK' /\ IdleOK'
    BY <1>2, <1>4, SameParts
  <2>2. ActsOK'
    BY <1>10 DEF ActsOK, Adds
  <2>3. QED
    BY <1>5, <2>1, <2>2, MovesCallOK, TypePartsNext
<1>13. GateInv'
  <2>1. \A d \in Caller : HoldsGate(call'[d]) <=> HoldsGate(call[d])
    BY <1>5, <1>6 DEF Moves, HoldsGate, Leaving, Stops
  <2>2. QED
    BY <1>4, <2>1, GateKept DEF IInv
<1>14. StartedInv'
  <2>1. activity' # None /\ started'
    BY <1>1, <1>2, <1>4, NoneOutside
  <2>2. \A d \in Caller : call'[d].at # "starting"
    BY <1>2, <1>5, <1>6 DEF Moves, IInv, StartedInv, At
  <2>3. QED
    BY <2>1, <2>2 DEF StartedInv, At
<1>15. NoStrayActivity'
  <2> SUFFICES ASSUME NEW b \in Made \cup {a}
               PROVE  \/ acts'[b].cancelled \/ b = a
                      \/ \E d \in Caller : call'[d].act = b /\ call'[d].at \in {"exit", "cancel"}
    <3>1. Made' = Made \cup {a} /\ activity' = a
      BY <1>10 DEF Adds
    <3>2. QED
      BY <3>1 DEF NoStrayActivity
  <2>1. CASE b = a
    BY <2>1
  <2>2. CASE b = activity
    BY <1>5, <1>6, <2>2 DEF Moves
  <2>3. CASE b # a /\ b # activity
    <3>1. CASE acts[b].cancelled
      BY <1>10, <2>3, <3>1 DEF Adds, Made
    <3>2. CASE ~acts[b].cancelled
      <4>1. PICK d \in Caller : call[d].act = b /\ call[d].at \in {"exit", "cancel"}
        BY <2>3, <3>2 DEF IInv, NoStrayActivity
      <4>2. call'[d] = call[d]
        BY <1>5, <4>1 DEF Moves
      <4>3. QED
        BY <4>1, <4>2
    <3>3. QED
      BY <3>1, <3>2
  <2>4. QED
    BY <2>1, <2>2, <2>3
<1>16. CallbacksInv'
  <2>1. \A d \in Caller : call'[d].callbacks <=> call[d].callbacks
    BY <1>5, <1>7, <1>8 DEF Moves, Plain
  <2>2. Pending' <=> Pending
    BY <2>1 DEF Pending
  <2>3. QED
    BY <1>2, <1>4, <2>2 DEF IInv, CallbacksInv
<1>17. CountInv'
  BY <1>4, <1>5, <1>6, CountMove
<1>18. QED
  BY <1>11, <1>12, <1>13, <1>14, <1>15, <1>16, <1>17, IInvNext

-----------------------------------------------------------------------------
(* The induction.                                                          *)
LEMMA InitInv == Init => IInv
<1> SUFFICES ASSUME Init
             PROVE  IInv
  OBVIOUS
<1>1. /\ call = [c \in Caller |-> Idle] /\ acts = [a \in Activity |-> NoActivity]
      /\ gate = None /\ activity = None /\ claims = 0 /\ holds = 0 /\ callbackRuns = 0
      /\ started = FALSE /\ closing = FALSE /\ callbacksRan = FALSE /\ outlived = FALSE
  BY DEF Init
<1>2. /\ NoActivity \in ActRec /\ ~NoActivity.made
      /\ NoActivity.entered = 0 /\ NoActivity.exited = 0
  BY DEF NoActivity, ActRec
<1>3. Made = {}
  BY <1>1, <1>2 DEF Made
<1>4. \A c \in Caller : call[c] = Idle
  BY <1>1
<1>5. TypeOK
  <2>1. LifeOK
    <3>1. started \in BOOLEAN /\ closing \in BOOLEAN /\ callbacksRan \in BOOLEAN
      BY <1>1, Zenon
    <3>2. QED
      BY <1>1, <3>1 DEF LifeOK
  <2>2. ActsOK
    BY <1>1, <1>2 DEF ActsOK
  <2>3. IdleOK
    <3>1. outlived \in BOOLEAN
      BY <1>1, Zenon
    <3>2. QED
      BY <1>1, <3>1 DEF IdleOK
  <2>4. CallOK
    BY <1>1, IdleIs DEF CallOK
  <2>5. QED
    BY <2>1, <2>2, <2>3, <2>4, TypeParts
<1>6. \A c \in Caller : Shape(call[c], Made)
  BY <1>4, IdleIsPlain
<1>7. /\ ~HoldsGate(Idle) /\ ~Idle.callbacks
      /\ \A a \in Activity : ~WillEnter(Idle, a) /\ ~WillExit(Idle, a)
  BY IdleIsPlain, PlainHasNoDuty
<1>8. GateInv
  BY <1>1, <1>4, <1>7, SessionAssumption DEF GateInv
<1>9. StartedInv
  BY <1>1, <1>3, <1>4, IdleIs DEF StartedInv, At
<1>10. EnterInv
  BY <1>1, <1>2, <1>4, <1>7 DEF EnterInv
<1>11. ExitInv
  BY <1>1, <1>2, <1>3, <1>4, <1>7 DEF ExitInv
<1>12. NoStrayActivity /\ CloseInv
  BY <1>3, <1>4, IdleIs DEF NoStrayActivity, CloseInv
<1>13. CallbacksInv
  BY <1>1, <1>3, <1>4, <1>7 DEF CallbacksInv, Pending
<1>14. CountInv
  <2>1. {c \in Caller : At(c, "claimed")} = {} /\ {c \in Caller : At(c, "held")} = {}
    BY <1>4, IdleIs DEF At
  <2>2. QED
    BY <1>1, <2>1, FS_EmptySet DEF CountInv
<1>15. QED
  BY <1>5, <1>6, <1>8, <1>9, <1>10, <1>11, <1>12, <1>13, <1>14 DEF IInv

LEMMA StutterKeeps == IInv /\ UNCHANGED vars => IInv'
<1> SUFFICES ASSUME IInv, UNCHANGED vars
             PROVE  IInv'
  OBVIOUS
<1>1. /\ UNCHANGED <<gate, started, callbacksRan, activity, callbackRuns>>
      /\ UNCHANGED <<lifeVars, callbackRuns>> /\ UNCHANGED agentVars /\ UNCHANGED idleVars
      /\ call' = call
  BY DEF vars, lifeVars, agentVars
<1>2. TypeOK /\ LifeOK /\ IdleOK /\ CallOK
  BY TypeParts DEF IInv
<1>3. SameActs /\ ActsOK'
  BY <1>1, <1>2, NoActsChange
<1>4. TypeOK'
  <2>1. CallOK'
    BY <1>1, <1>2 DEF CallOK
  <2>2. LifeOK' /\ IdleOK'
    BY <1>1, <1>2, SameParts
  <2>3. QED
    BY <1>3, <2>1, <2>2, TypePartsNext
<1>5. \A c \in Caller : Shape(call'[c], Made')
  BY <1>1, <1>3 DEF IInv, SameActs, StillMade
<1>6. CountInv'
  BY <1>1, CountKept DEF IInv
<1>7. Neutral
  BY <1>1, <1>3 DEF Neutral
<1>8. QED
  BY <1>4, <1>5, <1>6, <1>7, NeutralKeeps

LEMMA StepInv == IInv /\ [Next]_vars => IInv'
<1> SUFFICES ASSUME IInv, [Next]_vars
             PROVE  IInv'
  OBVIOUS
<1>1. ASSUME NEW c \in Caller, Calls(c)
      PROVE  IInv'
  BY <1>1, CallStartKeeps, CallStopKeeps, CloseBeginKeeps, CallReplyKeeps,
     UpdateBeginKeeps, ClaimBeginKeeps, CallWaitKeeps, GiveUpKeeps, StartFailsKeeps
  DEF Calls
<1>2. ASSUME NEW c \in Caller, Gate(c)
      PROVE  IInv'
  BY <1>2, StartBeginKeeps, StopIdleKeeps, StopBeginKeeps DEF Gate
<1>3. ASSUME NEW c \in Caller, Waits(c)
      PROVE  IInv'
  BY <1>3, WaitReadKeeps, WaitInactiveKeeps, WaitClosedKeeps, WaitRecheckKeeps,
     WaitClaimsKeeps, WaitReturnsKeeps DEF Waits
<1>4. ASSUME NEW c \in Caller, Works(c)
      PROVE  IInv'
  BY <1>4, StartPublishKeeps, EnterKeeps, EnteredKeeps, ExitKeeps, CancelKeeps,
     RunCallbacksKeeps, CloseInterruptKeeps, CloseUninterruptedKeeps, CloseEmitKeeps,
     ReplyScheduleKeeps, ClaimEndKeeps, HoldBeginKeeps, HoldEndKeeps DEF Works
<1>5. CASE \E a \in Activity : SpeechesEnd(a)
  BY <1>5, SpeechesEndKeeps
<1>6. CASE UNCHANGED vars
  BY <1>6, StutterKeeps
<1>7. QED
  BY <1>1, <1>2, <1>3, <1>4, <1>5, <1>6 DEF Next

LEMMA Invariance == Spec => []IInv
BY InitInv, StepInv, PTL DEF Spec

(* Whatever the callers do, every variable keeps its type.                 *)
THEOREM TypeCorrect == Spec => []TypeOK
<1>1. IInv => TypeOK
  BY DEF IInv
<1>2. QED
  BY <1>1, Invariance, PTL

(* UpdateAgent, Stop: no activity is left running beside the session's     *)
(* that no call is about to stop.                                          *)
THEOREM NoStray == Spec => []NoStrayActivity
<1>1. IInv => NoStrayActivity
  BY DEF IInv
<1>2. QED
  BY <1>1, Invariance, PTL

(* Start, Stop, UpdateAgent: OnEnter and OnExit run at most once for an    *)
(* activity, whichever calls race.                                         *)
THEOREM EnterExit == Spec => []EnterExitOnce
<1>1. IInv => EnterExitOnce
  BY DEF IInv, EnterInv, ExitInv, EnterExitOnce
<1>2. QED
  BY <1>1, Invariance, PTL

(* stop: the pre-close callbacks run at most once for a Start, and have    *)
(* run when the session is stopped and nobody is at its gate.              *)
THEOREM Callbacks == Spec => []CallbacksOnce
<1>1. IInv => CallbacksOnce
  <2> SUFFICES ASSUME IInv
               PROVE  CallbacksOnce
    OBVIOUS
  <2>1. callbackRuns <= 1
    BY DEF IInv, CallbacksInv
  <2>2. gate = None => ~Pending
    BY CallbacksNeedGate DEF Pending
  <2>3. QED
    BY <2>1, <2>2 DEF IInv, CallbacksInv, CallbacksOnce
<1>2. QED
  BY <1>1, Invariance, PTL

(* closeSoon: when the close event is emitted, the activity that closeSoon *)
(* found is cancelled and has been left, or UpdateAgent leaves it.         *)
THEOREM CloseFollowsCleanup == Spec => CloseAfterCleanup
<1>1. IInv => \A c \in Caller : CloseEmit(c) =>
          LET a == call[c].found
          IN /\ acts[a].cancelled
             /\ \/ acts[a].exited = 1
                \/ \E d \in Caller : call[d].op = "update" /\ call[d].act = a
  <2> SUFFICES ASSUME IInv, NEW c \in Caller, CloseEmit(c)
               PROVE  /\ acts[call[c].found].cancelled
                      /\ \/ acts[call[c].found].exited = 1
                         \/ \E d \in Caller : /\ call[d].op = "update"
                                              /\ call[d].act = call[c].found
    OBVIOUS
  <2>1. call[c].at = "emit" /\ call[c].op = "close"
    BY DEF CloseEmit, At, IInv, Shape
  <2>2. Cleaned(call[c])
    BY <2>1 DEF IInv, CloseInv
  <2>3. QED
    BY <2>1, <2>2 DEF Cleaned, WillExit
<1>2. QED
  BY <1>1, Invariance, PTL DEF CloseAfterCleanup

(* WaitForInactive: until all claims and holds have ended that there were  *)
(* when, or since, one outlived a Stop, it is as in WaitersRespectClaims:  *)
(* else it does not return while the turn is claimed or the session held.  *)
THEOREM WaitersRespect == Spec => WaitersRespectClaims
<1>1. IInv => \A c \in Caller : WaitReturns(c) /\ ~outlived =>
                 \A d \in Caller : ~Occupies(d)
  <2> SUFFICES ASSUME IInv, NEW c \in Caller, WaitReturns(c), ~outlived,
                      NEW d \in Caller
               PROVE  ~Occupies(d)
    OBVIOUS
  <2> DEFINE S == {e \in Caller : At(e, "claimed")}
             T == {e \in Caller : At(e, "held")}
  <2>1. Cardinality(S) = 0 /\ Cardinality(T) = 0
    BY DEF WaitReturns, Inactive, IInv, CountInv
  <2>2. IsFiniteSet(S) /\ IsFiniteSet(T)
    BY SessionAssumption, FS_Subset
  <2>3. S = {} /\ T = {}
    BY <2>1, <2>2, FS_EmptySet
  <2>4. QED
    BY <2>3 DEF At, Occupies
<1>2. QED
  BY <1>1, Invariance, PTL DEF WaitersRespectClaims
-----------------------------------------------------------------------------
(* The session implements SessionAgents.                                   *)

(* Who stops the session has found it stopped or has stopped it, and until *)
(* the gate is released nobody starts it again.                            *)
Ends(k) == k.op \in Stops /\ k.at \in Leaving \cup {"callbacks"}

StoppedInv == \A c \in Caller : Ends(call[c]) => ~started

(* Calls go on ending, and none starts the session or begins to end it.    *)
NoNewEnd ==
    /\ started' => started
    /\ \A c \in Caller : Ends(call'[c]) => Ends(call[c])

LEMMA NoNewEndKeeps == StoppedInv /\ NoNewEnd => StoppedInv'
BY DEF StoppedInv, NoNewEnd, Ends, Leaving, Stops

LEMMA EndsHoldsGate == \A k : Ends(k) => HoldsGate(k)
BY DEF Ends, HoldsGate

(* c's call moves to a place where it does not end the session.            *)
LEMMA MoveEndsNot ==
    ASSUME NEW c \in Caller, NEW k, Moves(c, k), ~Ends(k), started' = started
    PROVE  NoNewEnd
BY DEF Moves, NoNewEnd

LEMMA IdleEndsNot == ~Ends(Idle)
BY IdleIs DEF Ends, Leaving, Stops

LEMMA GotoEndsNot ==
    ASSUME TypeOK, NEW c \in Caller, NEW p \in Places \ (Leaving \cup {"callbacks"}),
           Goto(c, p), started' = started
    PROVE  NoNewEnd
<1>1. PICK k : Moves(c, k) /\ k.at = p
  BY GotoMoves
<1>2. QED
  BY <1>1, MoveEndsNot DEF Ends

LEMMA BeginEndsNot ==
    ASSUME TypeOK, NEW c \in Caller, NEW op \in AllOps, NEW p \in Places,
           NEW a, NEW n, a \in Activity \/ a = None, n \in Activity \/ n = None,
           op \notin Stops \/ p \notin Leaving \cup {"callbacks"},
           Begin(c, op, p, a, n), started' = started
    PROVE  NoNewEnd
<1>1. Moves(c, Begun(op, p, a, n)) /\ ~Ends(Begun(op, p, a, n))
  BY BeginMoves, BegunIs DEF Ends
<1>2. QED
  BY <1>1, MoveEndsNot

LEMMA ReturnEndsNot ==
    ASSUME TypeOK, NEW c \in Caller, Return(c), started' = started
    PROVE  NoNewEnd
BY ReturnMoves, IdleEndsNot, MoveEndsNot

LEMMA PlaceEndsNot ==
    ASSUME TypeOK, NEW c \in Caller, NEW p \in Places \ (Leaving \cup {"callbacks"}),
           NEW a, a \in Activity \/ a = None,
           call' = [call EXCEPT ![c].at = p, ![c].act = a], started' = started
    PROVE  NoNewEnd
<1>1. call[c] \in CallRec /\ p \in Places
  BY CallOf
<1>2. Placed(call[c], p, a).at = p
  BY <1>1, PlacedIs
<1>3. Moves(c, Placed(call[c], p, a))
  BY <1>1, PlaceMoves
<1>4. QED
  BY <1>2, <1>3, MoveEndsNot DEF Ends

(* What a step is to SessionAgents: nothing ...                            *)
AgentsStep == [Agents!Next]_(Agents!vars)

Unseen ==
    /\ Made' = Made /\ activity' = activity /\ callbackRuns' = callbackRuns
    /\ \A a \in Activity : /\ acts'[a].entered = acts[a].entered
                           /\ acts'[a].exited = acts[a].exited

LEMMA UnseenMaps == Unseen => AgentsStep
<1> SUFFICES ASSUME Unseen
             PROVE  UNCHANGED Agents!vars
  BY DEF AgentsStep
<1>1. [a \in Activity |-> acts[a].entered]' = [a \in Activity |-> acts[a].entered]
  BY DEF Unseen
<1>2. [a \in Activity |-> acts[a].exited]' = [a \in Activity |-> acts[a].exited]
  BY DEF Unseen
<1>3. QED
  BY <1>1, <1>2 DEF Unseen, Agents!vars

LEMMA SameAgents == UNCHANGED <<agentVars, callbackRuns>> => Unseen
BY DEF agentVars, Unseen, Made

LEMMA ActsUnseen ==
    ASSUME SameActs, activity' = activity, callbackRuns' = callbackRuns
    PROVE  Unseen
BY DEF SameActs, StillMade, SameEntered, SameExited, Unseen

(* ... for the calls that begin, the ones that wait and those that go on   *)
(* without touching an activity ...                                        *)
LEMMA CallsMap ==
    ASSUME IInv, NEW c \in Caller,
           \/ CallStart(c) \/ CallStop(c) \/ CloseBegin(c) \/ CallReply(c)
           \/ ClaimBegin(c) \/ CallWait(c) \/ GiveUp(c) \/ StartFails(c)
    PROVE  Unseen /\ NoNewEnd
<1>a. TypeOK /\ activity \in Activity \cup {None}
  BY DEF IInv, TypeOK, Made
<1>1. CASE CallStart(c)
  <2>1. PICK a \in Fresh : Begin(c, "start", "startGate", None, a)
    BY <1>1 DEF CallStart
  <2>2. a \in Activity
    BY DEF Fresh
  <2>3. QED
    BY <1>1, <1>a, <2>1, <2>2, BeginEndsNot, SameAgents
    DEF CallStart, AllOps, Places, Stops, lifeVars
<1>2. CASE CallStop(c)
  BY <1>2, <1>a, BeginEndsNot, SameAgents DEF CallStop, AllOps, Places, Leaving, lifeVars
<1>3. CASE CloseBegin(c)
  <2>1. call' = [call EXCEPT ![c] = [Idle EXCEPT !.op = "close", !.at = "interrupt",
                                       !.act = activity, !.found = activity]]
    BY <1>3 DEF CloseBegin
  <2>2. call'[c].at = "interrupt" /\ \A d \in Caller \ {c} : call'[d] = call[d]
    BY <2>1, <1>a, CallOf, IdleIs DEF CallRec
  <2>3. started' = started /\ UNCHANGED <<agentVars, callbackRuns>>
    BY <1>3 DEF CloseBegin
  <2>4. QED
    BY <2>2, <2>3, SameAgents DEF NoNewEnd, Ends, Leaving
<1>4. CASE CallReply(c)
  BY <1>4, <1>a, BeginEndsNot, SameAgents DEF CallReply, AllOps, Places, Leaving, lifeVars
<1>5. CASE ClaimBegin(c)
  <2>1. call' = [call EXCEPT ![c] = [Idle EXCEPT !.op = "claim", !.at = "claimed"]]
    BY <1>5 DEF ClaimBegin
  <2>2. call'[c].at = "claimed" /\ \A d \in Caller \ {c} : call'[d] = call[d]
    BY <2>1, <1>a, CallOf, IdleIs DEF CallRec
  <2>3. QED
    BY <1>5, <2>2, SameAgents DEF ClaimBegin, NoNewEnd, Ends, Leaving, lifeVars
<1>6. CASE CallWait(c)
  <2>1. PICK op \in {"wait", "hold"} : Begin(c, op, "read", None, None)
    BY <1>6 DEF CallWait
  <2>2. QED
    BY <1>6, <1>a, <2>1, BeginEndsNot, SameAgents DEF CallWait, AllOps, Places, Stops, lifeVars
<1>7. CASE GiveUp(c)
  BY <1>7, <1>a, ReturnEndsNot, SameAgents DEF GiveUp, lifeVars
<1>8. CASE StartFails(c)
  BY <1>8, <1>a, ReturnEndsNot, SameAgents DEF StartFails
<1>9. QED
  BY <1>1, <1>2, <1>3, <1>4, <1>5, <1>6, <1>7, <1>8

LEMMA WaitsMap ==
    ASSUME IInv, NEW c \in Caller, Waits(c)
    PROVE  Unseen /\ NoNewEnd
<1>a. TypeOK /\ activity \in Activity \cup {None}
  BY DEF IInv, TypeOK, Made
<1>b. UNCHANGED <<agentVars, callbackRuns>> /\ started' = started
  BY DEF Waits, WaitRead, WaitInactive, WaitClosed, WaitRecheck, WaitClaims, WaitReturns,
         lifeVars
<1>1. CASE WaitRead(c)
  <2> DEFINE p == IF activity = None THEN "claims" ELSE "inactive"
             k == [call[c] EXCEPT !.act = activity, !.at = p]
  <2>1. call[c] \in CallRec /\ call \in [Caller -> CallRec]
    BY <1>a, CallOf
  <2>2. call' = [call EXCEPT ![c] = k]
    BY <1>1, <2>1 DEF WaitRead
  <2>3. k.at = p
    BY <2>1 DEF CallRec
  <2>4. call'[c].at \in {"claims", "inactive"} /\ \A d \in Caller \ {c} : call'[d] = call[d]
    BY <2>1, <2>2, <2>3
  <2>5. QED
    BY <1>b, <2>4, SameAgents DEF NoNewEnd, Ends, Leaving
<1>2. CASE WaitInactive(c) \/ WaitClaims(c)
  <2>1. \E p \in {"recheck", "onClaims", "onHolds"} : Goto(c, p)
    BY <1>2 DEF WaitInactive, WaitClaims
  <2>2. PICK p \in {"recheck", "onClaims", "onHolds"} : Goto(c, p)
    BY <2>1
  <2>3. p \in Places \ (Leaving \cup {"callbacks"})
    BY DEF Places, Leaving
  <2>4. QED
    BY <1>a, <1>b, <2>2, <2>3, GotoEndsNot, SameAgents
<1>3. CASE WaitClosed(c) \/ WaitRecheck(c)
  <2>1. Again(c, "read") \/ Again(c, "claims") \/ Return(c)
    BY <1>3 DEF WaitClosed, WaitRecheck
  <2>2. QED
    BY <1>a, <1>b, <2>1, PlaceEndsNot, ReturnEndsNot, SameAgents
       DEF Again, Places, Leaving
<1>4. CASE WaitReturns(c)
  <2>1. Return(c) \/ call' = [call EXCEPT ![c].at = "hold", ![c].act = None]
    BY <1>4 DEF WaitReturns
  <2>2. QED
    BY <1>a, <1>b, <2>1, PlaceEndsNot, ReturnEndsNot, SameAgents DEF Places, Leaving
<1>5. QED
  BY <1>1, <1>2, <1>3, <1>4 DEF Waits

LEMMA ReleaseEndsNot ==
    ASSUME TypeOK, NEW c \in Caller, NEW n, NEW p, Release(c, n, p), started' = started
    PROVE  NoNewEnd
<1>1. \A d \in Caller : call'[d] = call[d] \/ call'[d].at \in {"idle", "read"}
  BY CallOf, IdleIs DEF Release, CallRec
<1>2. QED
  BY <1>1 DEF NoNewEnd, Ends, Leaving

LEMMA WorksMap ==
    ASSUME IInv, NEW c \in Caller,
           \/ Entered(c) \/ Cancel(c) \/ CloseInterrupt(c) \/ CloseUninterrupted(c)
           \/ CloseEmit(c) \/ ReplySchedule(c) \/ ClaimEnd(c) \/ HoldBegin(c)
           \/ HoldEnd(c) \/ StartBegin(c)
    PROVE  Unseen /\ NoNewEnd
<1>a. /\ TypeOK /\ ActsOK /\ call[c] \in CallRec /\ call \in [Caller -> CallRec]
      /\ Shape(call[c], Made)
  BY TypeParts, CallOf DEF IInv
<1>1. CASE Entered(c)
  <2>1. SameActs
    BY <1>1, EnteredChange
  <2>2. NoNewEnd
    BY <1>1, <1>a, ReturnEndsNot DEF Entered
  <2>3. QED
    BY <1>1, <2>1, <2>2, ActsUnseen DEF Entered
<1>2. CASE Cancel(c)
  <2>1. call[c].act \in Made /\ call[c].at = "cancel"
    BY <1>2, <1>a DEF Cancel, At, Shape, Leaving
  <2>2. acts[call[c].act] \in ActRec /\ acts[call[c].act].made
    BY <1>a, <2>1, MadeRec
  <2> DEFINE r == [acts[call[c].act] EXCEPT !.cancelled = TRUE, !.paused = TRUE]
  <2>3. /\ r \in ActRec /\ r.made /\ r.cancelled
        /\ r.entered = acts[call[c].act].entered /\ r.exited = acts[call[c].act].exited
    BY <2>2 DEF ActRec
  <2>4. acts' = [acts EXCEPT ![call[c].act] = r] /\ activity' = activity
    BY <1>2 DEF Cancel
  <2>5. Unseen
    <3> HIDE DEF r
    <3>1. SameActs
      BY <1>a, <2>1, <2>3, <2>4, ActChange
    <3>2. QED
      BY <1>2, <3>1, ActsUnseen DEF Cancel
  <2>6. \A d \in Caller \ {c} : call'[d] = call[d]
    BY <1>2, <1>a DEF Cancel
  <2>7. Ends(call'[c]) => Ends(call[c])
    <3>1. CASE call[c].op = "update"
      <4>1. call'[c].op = "update"
        BY <1>2, <1>a, <3>1 DEF Cancel, CallRec
      <4>2. QED
        BY <4>1 DEF Ends, Stops
    <3>2. CASE call[c].op # "update"
      BY <1>a, <2>1, <3>2 DEF Shape, Leaving, Ends
    <3>3. QED
      BY <3>1, <3>2
  <2>8. started' = started
    BY <1>2 DEF Cancel, lifeVars
  <2>9. QED
    BY <2>5, <2>6, <2>7, <2>8 DEF NoNewEnd
<1>3. CASE CloseInterrupt(c) \/ CloseUninterrupted(c)
  <2>1. Goto(c, "speeches") \/ call' = [call EXCEPT ![c].at = "stopGate", ![c].act = None]
    BY <1>3 DEF CloseInterrupt, CloseUninterrupted
  <2>2. started' = started /\ UNCHANGED <<agentVars, callbackRuns>>
    BY <1>3 DEF CloseInterrupt, CloseUninterrupted, lifeVars
  <2>3. NoNewEnd
    BY <1>a, <2>1, <2>2, GotoEndsNot, PlaceEndsNot DEF Places, Leaving
  <2>4. QED
    BY <2>2, <2>3, SameAgents
<1>4. CASE CloseEmit(c)
  BY <1>4, <1>a, ReturnEndsNot, SameAgents DEF CloseEmit, lifeVars
<1>5. CASE ReplySchedule(c)
  <2>1. call[c].act \in Made
    BY <1>5, <1>a DEF ReplySchedule, At, Shape
  <2>2. acts[call[c].act] \in ActRec /\ acts[call[c].act].made
    BY <1>a, <2>1, MadeRec
  <2> DEFINE r == [acts[call[c].act] EXCEPT
                      !.busy = acts[call[c].act].busy \/ ~acts[call[c].act].paused]
  <2>3. /\ r \in ActRec /\ r.made /\ (acts[call[c].act].cancelled => r.cancelled)
        /\ r.entered = acts[call[c].act].entered /\ r.exited = acts[call[c].act].exited
    BY <2>2 DEF ActRec
  <2>4. acts' = [acts EXCEPT ![call[c].act] = r] /\ activity' = activity
    BY <1>5 DEF ReplySchedule
  <2>5. Unseen
    <3> HIDE DEF r
    <3>1. SameActs
      BY <1>a, <2>1, <2>3, <2>4, ActChange
    <3>2. QED
      BY <1>5, <3>1, ActsUnseen DEF ReplySchedule
  <2>6. NoNewEnd
    BY <1>5, <1>a, ReturnEndsNot DEF ReplySchedule, lifeVars
  <2>7. QED
    BY <2>5, <2>6
<1>6. CASE ClaimEnd(c) \/ HoldEnd(c)
  BY <1>6, <1>a, ReleaseEndsNot, SameAgents DEF ClaimEnd, HoldEnd, lifeVars
<1>7. CASE HoldBegin(c)
  BY <1>7, <1>a, GotoEndsNot, SameAgents DEF HoldBegin, Goto, Places, Leaving, lifeVars
<1>8. CASE StartBegin(c)
  <2>1. Return(c) \/ Goto(c, "starting")
    BY <1>8 DEF StartBegin
  <2>2. started' = started /\ UNCHANGED <<agentVars, callbackRuns>>
    BY <1>8 DEF StartBegin, lifeVars
  <2>3. NoNewEnd
    BY <1>a, <2>1, <2>2, ReturnEndsNot, GotoEndsNot DEF Places, Leaving
  <2>4. QED
    BY <2>2, <2>3, SameAgents
<1>9. QED
  BY <1>1, <1>2, <1>3, <1>4, <1>5, <1>6, <1>7, <1>8

LEMMA SpeechesEndMaps ==
    ASSUME IInv, NEW a \in Activity, SpeechesEnd(a)
    PROVE  Unseen /\ NoNewEnd
<1>1. TypeOK /\ ActsOK /\ acts[a] \in ActRec /\ acts \in [Activity -> ActRec]
  BY TypeParts DEF IInv, ActsOK
<1> DEFINE r == [acts[a] EXCEPT !.busy = FALSE]
<1>2. /\ acts'[a] = r /\ \A b \in Activity \ {a} : acts'[b] = acts[b]
  BY <1>1 DEF SpeechesEnd
<1>3. r.entered = acts[a].entered /\ r.exited = acts[a].exited /\ (r.made <=> acts[a].made)
  BY <1>1 DEF ActRec
<1> HIDE DEF r
<1>4. Made' = Made
  BY <1>2, <1>3 DEF Made
<1>5. Unseen
  BY <1>2, <1>3, <1>4 DEF SpeechesEnd, Unseen
<1>6. \A d \in Caller : call'[d] = call[d] \/ call'[d].at = "stopGate"
  BY <1>1, CallOf DEF SpeechesEnd, CallRec
<1>7. NoNewEnd
  BY <1>6 DEF SpeechesEnd, NoNewEnd, Ends, Leaving, lifeVars
<1>8. QED
  BY <1>5, <1>7

(* ... or a start, a hand-over, a stop, an agent that is entered or left,  *)
(* or the callbacks.                                                       *)
LEMMA StartMaps ==
    ASSUME IInv, IInv', StoppedInv, NEW c \in Caller, StartPublish(c)
    PROVE  AgentsStep /\ StoppedInv'
<1> DEFINE a == call[c].next
<1>1. /\ TypeOK /\ call[c] \in CallRec /\ Shape(call[c], Made)
      /\ call[c].at = "starting" /\ a \in Activity \ Made
      /\ ~started /\ activity = None /\ HoldsGate(call[c])
  BY CallOf DEF IInv, StartedInv, StartPublish, At, Shape, HoldsGate
<1>2. /\ acts' = [acts EXCEPT ![a] = NewActivity] /\ activity' = a /\ callbackRuns' = 0
  BY DEF StartPublish
<1>3. acts \in [Activity -> ActRec] /\ acts[a] = NoActivity
  BY <1>1, TypeParts DEF ActsOK, IInv, EnterInv
<1>4. \A d \in Caller : ~call[d].callbacks
  <2>1. ~call[c].callbacks
    BY <1>1 DEF Shape, Leaving
  <2>2. gate = c
    BY <1>1, CallbacksNeedGate
  <2>3. QED
    BY <2>1, <2>2, CallbacksNeedGate
<1>5. Made = {} \/ callbackRuns = 1
  BY <1>1, <1>4 DEF IInv, CallbacksInv, Pending
<1> HIDE DEF a
<1>6. acts'[a] = NewActivity /\ \A b \in Activity \ {a} : acts'[b] = acts[b]
  BY <1>1, <1>2, <1>3
<1>7. Made' = Made \cup {a}
  BY <1>1, <1>6, NewIs DEF Made
<1>8. \A b \in Activity : acts'[b].entered = acts[b].entered /\ acts'[b].exited = acts[b].exited
  BY <1>3, <1>6, NewIs DEF NoActivity
<1>9. /\ [b \in Activity |-> acts[b].entered]' = [b \in Activity |-> acts[b].entered]
      /\ [b \in Activity |-> acts[b].exited]' = [b \in Activity |-> acts[b].exited]
  BY <1>8
<1>10. Agents!Start(a)
  BY <1>1, <1>2, <1>5, <1>7, <1>9 DEF Agents!Start
<1>11. StoppedInv'
  <2>1. /\ call'[c].at = "enter" /\ \A d \in Caller \ {c} : call'[d] = call[d]
    BY <1>1, CallOf DEF StartPublish, CallRec
  <2>2. \A d \in Caller \ {c} : ~Ends(call[d])
    BY <1>1, CallbacksNeedGate, EndsHoldsGate
  <2>3. \A d \in Caller : ~Ends(call'[d])
    BY <2>1, <2>2 DEF Ends, Leaving
  <2>4. QED
    BY <2>3 DEF StoppedInv, Ends
<1>12. QED
  BY <1>1, <1>10, <1>11 DEF AgentsStep, Agents!Next

LEMMA UpdateMaps ==
    ASSUME IInv, StoppedInv, NEW c \in Caller, UpdateBegin(c)
    PROVE  AgentsStep /\ StoppedInv'
<1>1. PICK a \in Fresh : /\ acts' = [acts EXCEPT ![activity].paused = TRUE,
                                                 ![a] = NewActivity]
                         /\ activity' = a /\ Begin(c, "update", "exit", activity, a)
  BY DEF UpdateBegin
<1>2. /\ TypeOK /\ started /\ a \in Activity \ Made /\ acts \in [Activity -> ActRec]
      /\ acts[a] = NoActivity
  BY TypeParts DEF IInv, EnterInv, UpdateBegin, Fresh, Taken, ActsOK
<1>3. activity \in Activity /\ activity \in Made /\ activity # a /\ activity # None
  BY <1>2 DEF IInv, StartedInv, TypeOK, Made
<1>4. callbackRuns' = callbackRuns /\ started' = started
  BY DEF UpdateBegin, lifeVars
<1> DEFINE r == [acts[activity] EXCEPT !.paused = TRUE]
<1>5. acts' = [acts EXCEPT ![activity] = r, ![a] = NewActivity]
  BY <1>1
<1>6. /\ r.entered = acts[activity].entered /\ r.exited = acts[activity].exited
      /\ (r.made <=> acts[activity].made)
  BY <1>2, <1>3 DEF ActRec
<1> HIDE DEF r
<1>7. /\ acts'[a] = NewActivity /\ acts'[activity] = r
      /\ \A b \in Activity \ {a, activity} : acts'[b] = acts[b]
  BY <1>2, <1>3, <1>5
<1>8. Made' = Made \cup {a}
  BY <1>2, <1>3, <1>6, <1>7, NewIs DEF Made
<1>9. \A b \in Activity : acts'[b].entered = acts[b].entered /\ acts'[b].exited = acts[b].exited
  BY <1>2, <1>6, <1>7, NewIs DEF NoActivity
<1>10. /\ [b \in Activity |-> acts[b].entered]' = [b \in Activity |-> acts[b].entered]
       /\ [b \in Activity |-> acts[b].exited]' = [b \in Activity |-> acts[b].exited]
  BY <1>9
<1>11. Agents!Replace(a)
  BY <1>1, <1>3, <1>4, <1>8, <1>10 DEF Agents!Replace
<1>12. NoNewEnd
  BY <1>1, <1>2, <1>3, <1>4, BeginEndsNot DEF AllOps, Places, Stops
<1>13. QED
  BY <1>2, <1>11, <1>12, NoNewEndKeeps DEF AgentsStep, Agents!Next

LEMMA StopMaps ==
    ASSUME IInv, StoppedInv, NEW c \in Caller, StopIdle(c) \/ StopBegin(c)
    PROVE  AgentsStep /\ StoppedInv'
<1>1. ~started'
  BY Zenon DEF StopIdle, StopBegin
<1>2. StoppedInv'
  BY <1>1 DEF StoppedInv
<1>3. CASE StopIdle(c)
  BY <1>2, <1>3, SameAgents, UnseenMaps DEF StopIdle
<1>4. CASE StopBegin(c)
  <2>1. acts \in [Activity -> ActRec] /\ activity # None
    BY <1>4, TypeParts DEF IInv, ActsOK, StartedInv, StopBegin
  <2>2. acts' = [a \in Activity |-> IF a \in Made THEN [acts[a] EXCEPT !.cancelled = TRUE]
                                                 ELSE acts[a]]
    BY <1>4 DEF StopBegin
  <2>3. \A a \in Activity : /\ acts'[a].entered = acts[a].entered
                            /\ acts'[a].exited = acts[a].exited
                            /\ (acts'[a].made <=> acts[a].made)
    BY <2>1, <2>2 DEF ActRec
  <2>4. Made' = Made
    BY <2>3 DEF Made
  <2>5. /\ [b \in Activity |-> acts[b].entered]' = [b \in Activity |-> acts[b].entered]
        /\ [b \in Activity |-> acts[b].exited]' = [b \in Activity |-> acts[b].exited]
    BY <2>3
  <2>6. Agents!Stop
    BY <1>4, <2>1, <2>4, <2>5 DEF StopBegin, Agents!Stop
  <2>7. QED
    BY <1>2, <2>6 DEF AgentsStep, Agents!Next
<1>5. QED
  BY <1>3, <1>4

LEMMA EnterMaps ==
    ASSUME IInv, StoppedInv, NEW c \in Caller, Enter(c)
    PROVE  AgentsStep /\ StoppedInv'
<1>1. PICK a \in Made : /\ TypeOK /\ a = call[c].act /\ call[c].at = "enter"
  BY DEF IInv, Enter, At, Shape
<1> DEFINE r == [acts[a] EXCEPT !.entered = acts[a].entered + 1]
<1>2. acts[a] \in ActRec /\ acts[a].made /\ acts \in [Activity -> ActRec] /\ a \in Activity
  BY <1>1, MadeRec
<1>3. acts[a].entered = 0
  BY <1>1, <1>2 DEF IInv, EnterInv, WillEnter
<1>4. r.entered = 1 /\ r.exited = acts[a].exited /\ (r.made <=> acts[a].made)
  BY <1>2, <1>3 DEF ActRec
<1>5. acts' = [acts EXCEPT ![a] = r] /\ UNCHANGED <<activity, callbackRuns, started>>
  BY <1>1 DEF Enter, lifeVars
<1> HIDE DEF r
<1>6. acts'[a] = r /\ \A b \in Activity \ {a} : acts'[b] = acts[b]
  BY <1>2, <1>5
<1>7. Made' = Made
  BY <1>4, <1>6 DEF Made
<1>8. /\ [b \in Activity |-> acts[b].entered]'
            = [[b \in Activity |-> acts[b].entered] EXCEPT ![a] = 1]
      /\ [b \in Activity |-> acts[b].exited]' = [b \in Activity |-> acts[b].exited]
  BY <1>2, <1>4, <1>6
<1>9. Agents!OnEnter(a)
  BY <1>2, <1>3, <1>5, <1>7, <1>8 DEF Agents!OnEnter
<1>10. NoNewEnd
  BY <1>1, <1>5, GotoEndsNot DEF Enter, Places, Leaving
<1>11. QED
  BY <1>9, <1>10, NoNewEndKeeps DEF AgentsStep, Agents!Next

LEMMA ExitMaps ==
    ASSUME IInv, StoppedInv, NEW c \in Caller, Exit(c)
    PROVE  AgentsStep /\ StoppedInv'
<1>1. PICK a \in Made : /\ TypeOK /\ a = call[c].act /\ call[c].at = "exit"
  BY DEF IInv, Exit, At, Shape, Leaving
<1> DEFINE r == [acts[a] EXCEPT !.exited = acts[a].exited + 1]
<1>2. acts[a] \in ActRec /\ acts[a].made /\ acts \in [Activity -> ActRec] /\ a \in Activity
  BY <1>1, MadeRec
<1>3. acts[a].exited = 0 /\ a # activity
  BY <1>1, <1>2 DEF IInv, ExitInv, WillExit
<1>4. r.exited = 1 /\ r.entered = acts[a].entered /\ (r.made <=> acts[a].made)
  BY <1>2, <1>3 DEF ActRec
<1>5. acts' = [acts EXCEPT ![a] = r] /\ UNCHANGED <<activity, callbackRuns, started>>
  BY <1>1 DEF Exit, lifeVars
<1> HIDE DEF r
<1>6. acts'[a] = r /\ \A b \in Activity \ {a} : acts'[b] = acts[b]
  BY <1>2, <1>5
<1>7. Made' = Made
  BY <1>4, <1>6 DEF Made
<1>8. /\ [b \in Activity |-> acts[b].exited]'
            = [[b \in Activity |-> acts[b].exited] EXCEPT ![a] = 1]
      /\ [b \in Activity |-> acts[b].entered]' = [b \in Activity |-> acts[b].entered]
  BY <1>2, <1>4, <1>6
<1>9. Agents!OnExit(a)
  BY <1>2, <1>3, <1>5, <1>7, <1>8 DEF Agents!OnExit
<1>10. NoNewEnd
  <2>1. PICK k : Moves(c, k) /\ k.at = "cancel" /\ k.op = call[c].op
    BY <1>1, GotoMoves DEF Exit, Places
  <2>2. Ends(k) => Ends(call[c])
    BY <1>1, <2>1 DEF Ends, Leaving
  <2>3. QED
    BY <1>5, <2>1, <2>2 DEF NoNewEnd, Moves
<1>11. QED
  BY <1>9, <1>10, NoNewEndKeeps DEF AgentsStep, Agents!Next

LEMMA CallbacksMap ==
    ASSUME IInv, StoppedInv, NEW c \in Caller, RunCallbacks(c)
    PROVE  AgentsStep /\ StoppedInv'
<1>1. /\ TypeOK /\ call[c] \in CallRec /\ call \in [Caller -> CallRec]
      /\ call[c].at = "callbacks" /\ call[c].op \in Stops /\ callbackRuns \in Nat
  BY CallOf DEF IInv, TypeOK, Shape, RunCallbacks, At
<1>2. ~started /\ activity = None
  BY <1>1 DEF StoppedInv, Ends, IInv, StartedInv
<1>3. UNCHANGED agentVars /\ started' = started
  BY DEF RunCallbacks
<1>4. NoNewEnd
  <2>1. Return(c) \/ call' = [call EXCEPT ![c].at = "emit", ![c].callbacks = FALSE]
    BY DEF RunCallbacks
  <2>2. call'[c].at \in {"idle", "emit"} /\ \A d \in Caller \ {c} : call'[d] = call[d]
    BY <1>1, <2>1, IdleIs DEF Return, CallRec
  <2>3. QED
    BY <1>3, <2>2 DEF NoNewEnd, Ends, Leaving
<1>5. AgentsStep
  <2>1. CASE ~call[c].callbacks
    <3>1. callbackRuns' = callbackRuns
      BY <1>1, <2>1 DEF RunCallbacks
    <3>2. QED
      BY <1>3, <3>1, SameAgents, UnseenMaps
  <2>2. CASE call[c].callbacks
    <3>1. callbackRuns = 0 /\ callbackRuns' = 1
      BY <1>1, <2>2 DEF IInv, CallbacksInv, Pending, RunCallbacks
    <3>2. Agents!CleanUp
      BY <1>2, <1>3, <3>1 DEF Agents!CleanUp, agentVars, Made
    <3>3. QED
      BY <3>2 DEF AgentsStep, Agents!Next
  <2>3. QED
    BY <2>1, <2>2
<1>6. QED
  BY <1>4, <1>5, NoNewEndKeeps

LEMMA SessionStepMaps ==
    ASSUME IInv, IInv', StoppedInv, [Next]_vars
    PROVE  AgentsStep /\ StoppedInv'
<1>1. Unseen /\ NoNewEnd => AgentsStep /\ StoppedInv'
  BY UnseenMaps, NoNewEndKeeps
<1>2. ASSUME NEW c \in Caller, Calls(c)
      PROVE  AgentsStep /\ StoppedInv'
  BY <1>1, <1>2, CallsMap, UpdateMaps DEF Calls
<1>3. ASSUME NEW c \in Caller, Gate(c)
      PROVE  AgentsStep /\ StoppedInv'
  BY <1>1, <1>3, WorksMap, StopMaps DEF Gate
<1>4. ASSUME NEW c \in Caller, Waits(c)
      PROVE  AgentsStep /\ StoppedInv'
  BY <1>1, <1>4, WaitsMap
<1>5. ASSUME NEW c \in Caller, Works(c)
      PROVE  AgentsStep /\ StoppedInv'
  BY <1>1, <1>5, WorksMap, StartMaps, EnterMaps, ExitMaps, CallbacksMap DEF Works
<1>6. CASE \E a \in Activity : SpeechesEnd(a)
  BY <1>1, <1>6, SpeechesEndMaps
<1>7. CASE UNCHANGED vars
  <2>1. NoNewEnd
    BY <1>7 DEF vars, lifeVars, NoNewEnd
  <2>2. QED
    BY <1>1, <1>7, <2>1, SameAgents DEF vars
<1>8. QED
  BY <1>2, <1>3, <1>4, <1>5, <1>6, <1>7 DEF Next

(* Start, Stop, closeSoon and UpdateAgent keep what a session promises its *)
(* agents, for any callers and however their calls interleave.             *)
THEOREM SessionHandsOver == Spec => HandsOverAgents
<1>1. Init => StoppedInv /\ Agents!Init
  <2> SUFFICES ASSUME Init
               PROVE  StoppedInv /\ Agents!Init
    OBVIOUS
  <2>1. Made = {}
    BY DEF Init, Made, NoActivity
  <2>2. /\ [b \in Activity |-> acts[b].entered] = [b \in Activity |-> 0]
        /\ [b \in Activity |-> acts[b].exited] = [b \in Activity |-> 0]
    BY DEF Init, NoActivity
  <2>3. Agents!Init
    BY <2>1, <2>2 DEF Init, Agents!Init
  <2>4. StoppedInv
    BY DEF Init, StoppedInv
  <2>5. QED
    BY <2>3, <2>4
<1>2. IInv /\ IInv' /\ StoppedInv /\ [Next]_vars => StoppedInv' /\ [Agents!Next]_(Agents!vars)
  BY SessionStepMaps DEF AgentsStep
<1>3. QED
  BY <1>1, <1>2, Invariance, PTL DEF Spec, HandsOverAgents, Agents!Spec
-----------------------------------------------------------------------------
(* What is waited for can still come.  A claim or a hold that is counted   *)
(* has a callback that has yet to return (CountInv: a Stop may have dropped*)
(* some, so that there can be more callbacks than are counted, never       *)
(* fewer), and an activity that is not ready has a call that will start it.*)
Claimants == {c \in Caller : At(c, "claimed")}
Holders   == {c \in Caller : At(c, "held")}

Counted ==
    \A c \in Caller : /\ At(c, "onClaims") => claims > 0
                      /\ At(c, "onHolds") => holds > 0

SpeechesLast == \A c \in Caller : At(c, "speeches") => acts[call[c].act].busy

Starter(a) == \E c \in Caller : Starts(call[c], a)

MadeStart == \A a \in Made : acts[a].ready \/ Starter(a)

WInv == Counted /\ SpeechesLast /\ MadeStart

(* Where a call neither starts nor leaves an activity nor is counted; and  *)
(* where it does not wait for another either.                              *)
Rest == Places \ {"enter", "entering", "exit", "cancel", "claimed", "held"}
Free == Rest \ {"onClaims", "onHolds", "speeches"}

LEMMA RestStartsNot ==
    ASSUME NEW c \in Caller, Shape(call[c], Made),
           \/ call[c].at \in Rest \cup {"claimed", "held"}
           \/ (call[c].at \in Leaving /\ call[c].op # "update")
    PROVE  \A a \in Made : ~Starts(call[c], a)
<1> TAKE a \in Made
<1>1. a # None /\ a \in Activity
  BY NoneOutside DEF Made
<1>2. QED
  BY <1>1 DEF Shape, Starts, Rest, Places, Leaving, Stops

(* One call moves, and what was ready or busy is.                          *)
LEMMA MoveWaits ==
    ASSUME IInv, WInv, NEW c \in Caller, NEW k, Moves(c, k),
           claims' = claims, holds' = holds, Made' = Made,
           k.at = "onClaims" => claims > 0, k.at = "onHolds" => holds > 0,
           k.at = "speeches" => acts'[k.act].busy,
           \A a \in Made : /\ acts[a].busy => acts'[a].busy
                           /\ acts[a].ready => acts'[a].ready
                           /\ Starts(call[c], a) => Starts(k, a) \/ acts'[a].ready
    PROVE  WInv'
<1>1. Counted'
  BY DEF WInv, Counted, At, Moves
<1>2. SpeechesLast'
  <2> SUFFICES ASSUME NEW d \in Caller, call'[d].at = "speeches"
               PROVE  acts'[call'[d].act].busy
    BY DEF SpeechesLast, At
  <2>1. CASE d = c
    BY <2>1 DEF Moves
  <2>2. CASE d # c
    <3>1. call'[d] = call[d]
      BY <2>2 DEF Moves
    <3>2. call[d].act \in Made
      BY <3>1 DEF IInv, Shape
    <3>3. acts[call[d].act].busy
      BY <3>1 DEF WInv, SpeechesLast, At
    <3>4. QED
      BY <3>1, <3>2, <3>3
  <2>3. QED
    BY <2>1, <2>2
<1>3. MadeStart'
  <2> SUFFICES ASSUME NEW a \in Made, ~acts'[a].ready
               PROVE  \E d \in Caller : Starts(call'[d], a)
    BY DEF MadeStart, Starter, Starts
  <2>1. PICK d \in Caller : Starts(call[d], a)
    BY DEF WInv, MadeStart, Starter
  <2>2. Starts(call'[d], a)
    BY <2>1 DEF Moves
  <2>3. QED
    BY <2>2
<1>4. QED
  BY <1>1, <1>2, <1>3 DEF WInv

(* ... in particular from a place where it owes nobody anything.           *)
LEMMA RestWaits ==
    ASSUME IInv, WInv, NEW c \in Caller, NEW k, Moves(c, k), call[c].at \in Rest,
           k.at \in Rest, k.at = "onClaims" => claims > 0, k.at = "onHolds" => holds > 0,
           k.at = "speeches" => acts[k.act].busy,
           UNCHANGED agentVars, UNCHANGED idleVars
    PROVE  WInv'
<1>1. acts' = acts /\ Made' = Made /\ claims' = claims /\ holds' = holds
  BY DEF agentVars, Made, idleVars
<1>2. \A a \in Made : ~Starts(call[c], a)
  <2>1. Shape(call[c], Made)
    BY DEF IInv
  <2>2. QED
    BY <2>1, RestStartsNot
<1>3. QED
  BY <1>1, <1>2, MoveWaits

LEMMA FreeWaits ==
    ASSUME IInv, WInv, NEW c \in Caller, NEW k, Moves(c, k), call[c].at \in Rest,
           k.at \in Free, UNCHANGED agentVars, UNCHANGED idleVars
    PROVE  WInv'
BY RestWaits DEF Free

LEMMA ReturnWaits ==
    ASSUME IInv, WInv, NEW c \in Caller, Return(c), call[c].at \in Rest,
           UNCHANGED agentVars, UNCHANGED idleVars
    PROVE  WInv'
<1>1. Idle.at \in Free /\ TypeOK
  BY IdleIs DEF Free, Rest, Places, IInv
<1>2. QED
  BY <1>1, ReturnMoves, FreeWaits

LEMMA GotoWaits ==
    ASSUME IInv, WInv, NEW c \in Caller, NEW p \in Free, Goto(c, p), call[c].at \in Rest,
           UNCHANGED agentVars, UNCHANGED idleVars
    PROVE  WInv'
<1>1. p \in Places /\ TypeOK
  BY DEF Free, Rest, IInv
<1>2. PICK k : Moves(c, k) /\ k.at = p
  BY <1>1, GotoMoves
<1>3. QED
  BY <1>2, FreeWaits

LEMMA BeginWaits ==
    ASSUME IInv, WInv, NEW c \in Caller, NEW op \in AllOps, NEW p \in Free,
           NEW a, NEW n, a \in Activity \/ a = None, n \in Activity \/ n = None,
           Begin(c, op, p, a, n), UNCHANGED agentVars, UNCHANGED idleVars
    PROVE  WInv'
<1>1. p \in Places /\ TypeOK
  BY DEF Free, Rest, IInv
<1>2. call[c].at = "idle" /\ Moves(c, Begun(op, p, a, n)) /\ Begun(op, p, a, n).at = p
  BY <1>1, BeginMoves, BegunIs
<1>3. QED
  BY <1>2, FreeWaits DEF Rest, Places

LEMMA PlaceWaits ==
    ASSUME IInv, WInv, NEW c \in Caller, NEW p \in Free, NEW a, a \in Activity \/ a = None,
           call' = [call EXCEPT ![c].at = p, ![c].act = a], call[c].at \in Rest,
           UNCHANGED agentVars, UNCHANGED idleVars
    PROVE  WInv'
<1>1. p \in Places /\ TypeOK /\ call[c] \in CallRec
  BY CallOf DEF Free, Rest, IInv
<1>2. Placed(call[c], p, a).at = p
  BY <1>1, PlacedIs
<1>3. Moves(c, Placed(call[c], p, a))
  BY <1>1, PlaceMoves
<1>4. QED
  BY <1>2, <1>3, FreeWaits

(* The calls that begin, the gate, and those that wait.                    *)
LEMMA CallsWait ==
    ASSUME IInv, WInv, NEW c \in Caller,
           \/ CallStart(c) \/ CallStop(c) \/ CloseBegin(c) \/ CallReply(c)
           \/ CallWait(c) \/ GiveUp(c) \/ StartFails(c) \/ StartBegin(c)
    PROVE  WInv'
<1>a. /\ TypeOK /\ activity \in Activity \cup {None}
      /\ call[c] \in CallRec /\ call \in [Caller -> CallRec]
  BY CallOf DEF IInv, TypeOK, Made
<1>b. UNCHANGED agentVars /\ UNCHANGED idleVars
  BY DEF CallStart, CallStop, CloseBegin, CallReply, CallWait, GiveUp, StartFails, StartBegin
<1>1. CASE CallStart(c)
  <2>1. PICK a \in Activity : Begin(c, "start", "startGate", None, a)
    BY <1>1 DEF CallStart, Fresh
  <2>2. QED
    BY <1>b, <2>1, BeginWaits DEF AllOps, Free, Rest, Places
<1>2. CASE CallStop(c)
  BY <1>2, <1>b, BeginWaits DEF CallStop, AllOps, Free, Rest, Places
<1>3. CASE CloseBegin(c)
  <2> DEFINE k == [Idle EXCEPT !.op = "close", !.at = "interrupt", !.act = activity,
                               !.found = activity]
  <2>1. k \in CallRec /\ k.at = "interrupt"
    BY <1>a, IdleIs DEF CallRec, AllOps, Places
  <2>2. call' = [call EXCEPT ![c] = k] /\ call[c].at = "idle"
    BY <1>3 DEF CloseBegin, At
  <2> HIDE DEF k
  <2>3. Moves(c, k)
    BY <1>a, <2>1, <2>2 DEF Moves
  <2>4. QED
    BY <1>b, <2>1, <2>2, <2>3, FreeWaits DEF Free, Rest, Places
<1>4. CASE CallReply(c)
  BY <1>4, <1>a, <1>b, BeginWaits DEF CallReply, AllOps, Free, Rest, Places
<1>5. CASE CallWait(c)
  <2>1. PICK op \in {"wait", "hold"} : Begin(c, op, "read", None, None)
    BY <1>5 DEF CallWait
  <2>2. QED
    BY <1>b, <2>1, BeginWaits DEF AllOps, Free, Rest, Places
<1>6. CASE GiveUp(c)
  BY <1>6, <1>b, ReturnWaits DEF GiveUp, At, Rest, Places
<1>7. CASE StartFails(c)
  BY <1>7, <1>b, ReturnWaits DEF StartFails, At, Rest, Places
<1>8. CASE StartBegin(c)
  <2>1. call[c].at = "startGate" /\ (Return(c) \/ Goto(c, "starting"))
    BY <1>8 DEF StartBegin, At
  <2>2. QED
    BY <1>b, <2>1, ReturnWaits, GotoWaits DEF Free, Rest, Places
<1>9. QED
  BY <1>1, <1>2, <1>3, <1>4, <1>5, <1>6, <1>7, <1>8

LEMMA WaitsWait ==
    ASSUME IInv, WInv, NEW c \in Caller, Waits(c)
    PROVE  WInv'
<1>a. /\ TypeOK /\ activity \in Activity \cup {None} /\ IdleOK
      /\ call[c] \in CallRec /\ call \in [Caller -> CallRec]
  BY CallOf, TypeParts DEF IInv, TypeOK, Made
<1>b. UNCHANGED agentVars /\ UNCHANGED idleVars
  BY DEF Waits, WaitRead, WaitInactive, WaitClosed, WaitRecheck, WaitClaims, WaitReturns
<1>1. CASE WaitRead(c)
  <2> DEFINE p == IF activity = None THEN "claims" ELSE "inactive"
             k == [call[c] EXCEPT !.act = activity, !.at = p]
  <2>1. p \in Free /\ p \in Places
    BY DEF Free, Rest, Places
  <2>2. call' = [call EXCEPT ![c] = k] /\ call[c].at = "read"
    BY <1>1, <1>a DEF WaitRead, At
  <2> HIDE DEF p
  <2>3. k \in CallRec /\ k.at = p
    BY <1>a, <2>1 DEF CallRec
  <2> HIDE DEF k
  <2>4. Moves(c, k)
    BY <1>a, <2>2, <2>3 DEF Moves
  <2>5. call[c].at \in Rest
    BY <2>2 DEF Rest, Places
  <2>6. QED
    BY <1>b, <2>1, <2>3, <2>4, <2>5, FreeWaits
<1>2. CASE WaitInactive(c)
  <2>1. call[c].at \in Rest /\ \E p \in Free : Goto(c, p)
    BY <1>2 DEF WaitInactive, At, Free, Rest, Places
  <2>2. QED
    BY <1>b, <2>1, GotoWaits
<1>3. CASE WaitClosed(c) \/ WaitRecheck(c)
  <2>1. /\ call[c].at \in {"inactive", "recheck"}
        /\ Again(c, "read") \/ Again(c, "claims") \/ Return(c)
    BY <1>3 DEF WaitClosed, WaitRecheck, At
  <2>2. QED
    BY <1>b, <2>1, PlaceWaits, ReturnWaits DEF Again, Free, Rest, Places
<1>4. CASE WaitClaims(c)
  <2> DEFINE p == IF claims > 0 THEN "onClaims" ELSE "onHolds"
  <2>1. Goto(c, p) /\ p \in Places /\ call[c].at = "claims"
    BY <1>4 DEF WaitClaims, At, Places
  <2>2. /\ p \in {"onClaims", "onHolds"}
        /\ p = "onClaims" => claims > 0
        /\ p = "onHolds" => holds > 0
    BY <1>4, <1>a DEF WaitClaims, Inactive, At, IdleOK
  <2> HIDE DEF p
  <2>3. PICK k : Moves(c, k) /\ k.at = p
    BY <1>a, <2>1, GotoMoves
  <2>4. call[c].at \in Rest /\ k.at \in Rest /\ k.at # "speeches"
    BY <2>1, <2>2, <2>3 DEF Rest, Places
  <2>5. QED
    BY <1>b, <2>2, <2>3, <2>4, RestWaits
<1>5. CASE WaitReturns(c)
  <2>1. /\ call[c].at = "claims"
        /\ Return(c) \/ call' = [call EXCEPT ![c].at = "hold", ![c].act = None]
    BY <1>5 DEF WaitReturns, Inactive, At
  <2>2. QED
    BY <1>b, <2>1, PlaceWaits, ReturnWaits DEF Free, Rest, Places
<1>6. QED
  BY <1>1, <1>2, <1>3, <1>4, <1>5 DEF Waits

(* Those that work: outside the gate ...                                   *)
LEMMA OutsideWaits ==
    ASSUME IInv, WInv, NEW c \in Caller,
           CloseInterrupt(c) \/ CloseUninterrupted(c) \/ CloseEmit(c) \/ ReplySchedule(c)
    PROVE  WInv'
<1>a. TypeOK /\ call[c] \in CallRec /\ Shape(call[c], Made)
  BY CallOf DEF IInv
<1>1. CASE CloseInterrupt(c)
  <2>1. /\ call[c].at = "interrupt" /\ call[c].at \in Rest
        /\ UNCHANGED agentVars /\ UNCHANGED idleVars
    BY <1>1 DEF CloseInterrupt, At, Rest, Places
  <2>2. CASE acts[call[c].act].busy
    <3>1. PICK k : Moves(c, k) /\ k.at = "speeches" /\ k.act = call[c].act
      BY <1>1, <1>a, <2>2, GotoMoves DEF CloseInterrupt, Places
    <3>2. k.at \in Rest
      BY <3>1 DEF Rest, Places
    <3>3. QED
      BY <2>1, <2>2, <3>1, <3>2, RestWaits
  <2>3. CASE ~acts[call[c].act].busy
    BY <1>1, <2>1, <2>3, PlaceWaits DEF CloseInterrupt, Free, Rest, Places
  <2>4. QED
    BY <2>2, <2>3
<1>2. CASE CloseUninterrupted(c)
  BY <1>2, PlaceWaits DEF CloseUninterrupted, At, Free, Rest, Places
<1>3. CASE CloseEmit(c)
  BY <1>3, ReturnWaits DEF CloseEmit, At, Rest, Places
<1>4. CASE ReplySchedule(c)
  <2>1. call[c].at = "schedule" /\ call[c].act \in Made /\ call[c].at \in Rest
    BY <1>4, <1>a DEF ReplySchedule, At, Shape, Rest, Places
  <2> DEFINE a == call[c].act
             r == [acts[a] EXCEPT !.busy = acts[a].busy \/ ~acts[a].paused]
  <2>2. acts[a] \in ActRec /\ acts \in [Activity -> ActRec] /\ a \in Activity
    BY <1>a, <2>1, MadeRec
  <2>3. r.busy = (acts[a].busy \/ ~acts[a].paused)
    BY <2>2 DEF ActRec
  <2>4. (r.made <=> acts[a].made) /\ (r.ready <=> acts[a].ready)
    BY <2>2 DEF ActRec
  <2>5. acts' = [acts EXCEPT ![a] = r] /\ Return(c) /\ UNCHANGED idleVars
    BY <1>4 DEF ReplySchedule
  <2>6. acts[a].busy => r.busy
    BY <2>3
  <2> HIDE DEF r, a
  <2>7. acts'[a] = r /\ \A b \in Activity \ {a} : acts'[b] = acts[b]
    BY <2>2, <2>5
  <2>8. Made' = Made
    BY <2>4, <2>7 DEF Made
  <2>9. \A b \in Made : /\ acts[b].busy => acts'[b].busy
                        /\ acts[b].ready => acts'[b].ready
    BY <2>4, <2>6, <2>7 DEF Made
  <2>10. \A b \in Made : ~Starts(call[c], b)
    BY <1>a, <2>1, RestStartsNot
  <2>11. Moves(c, Idle)
    BY <1>a, <2>5, ReturnMoves
  <2>12. claims' = claims /\ holds' = holds
    BY <2>5 DEF idleVars
  <2>13. QED
    BY <2>1, <2>8, <2>9, <2>10, <2>11, <2>12, IdleIs, MoveWaits
<1>5. QED
  BY <1>1, <1>2, <1>3, <1>4

(* ... and on the way of an activity, from the call that will enter it to  *)
(* its scheduling task.                                                    *)
LEMMA EnterWaits ==
    ASSUME IInv, WInv, NEW c \in Caller, Enter(c)
    PROVE  WInv'
<1>1. /\ TypeOK /\ call[c] \in CallRec /\ Shape(call[c], Made)
      /\ call[c].at = "enter" /\ call[c].act \in Made
  BY CallOf DEF IInv, Enter, At, Shape
<1>2. PICK k : Moves(c, k) /\ k.at = "entering" /\ k.act = call[c].act /\ k.next = call[c].next
  BY <1>1, GotoMoves DEF Enter, Places
<1> DEFINE a == call[c].act
           r == [acts[a] EXCEPT !.entered = acts[a].entered + 1]
<1>3. acts[a] \in ActRec /\ acts \in [Activity -> ActRec] /\ a \in Activity
  BY <1>1, MadeRec
<1>4. /\ r.made <=> acts[a].made
      /\ r.ready <=> acts[a].ready
      /\ r.busy <=> acts[a].busy
  BY <1>3 DEF ActRec
<1>5. acts' = [acts EXCEPT ![a] = r] /\ claims' = claims /\ holds' = holds
  BY DEF Enter, idleVars
<1> HIDE DEF r, a
<1>6. acts'[a] = r /\ \A b \in Activity \ {a} : acts'[b] = acts[b]
  BY <1>3, <1>5
<1>7. Made' = Made
  BY <1>4, <1>6 DEF Made
<1>8. \A b \in Made : /\ acts[b].busy => acts'[b].busy
                      /\ acts[b].ready => acts'[b].ready
                      /\ Starts(call[c], b) => Starts(k, b)
  BY <1>1, <1>2, <1>4, <1>6 DEF Made, Starts
<1>9. QED
  BY <1>1, <1>2, <1>5, <1>7, <1>8, MoveWaits

LEMMA EnteredWaits ==
    ASSUME IInv, WInv, NEW c \in Caller, Entered(c)
    PROVE  WInv'
<1>1. /\ TypeOK /\ call[c] \in CallRec /\ Shape(call[c], Made)
      /\ call[c].at = "entering" /\ call[c].act \in Made /\ Moves(c, Idle)
  BY CallOf, EnteredChange DEF IInv, Entered, At, Shape
<1> DEFINE a == call[c].act
           r == [acts[a] EXCEPT !.ready = TRUE]
<1>2. acts[a] \in ActRec /\ acts \in [Activity -> ActRec] /\ a \in Activity
  BY <1>1, MadeRec
<1>3. r.ready /\ (r.made <=> acts[a].made) /\ (r.busy <=> acts[a].busy)
  BY <1>2 DEF ActRec
<1>4. acts' = [acts EXCEPT ![a] = r] /\ claims' = claims /\ holds' = holds
  BY DEF Entered, idleVars
<1>5. \A b \in Made : Starts(call[c], b) => b = a
  BY <1>1, NoneOutside DEF Shape, Starts, Leaving
<1> HIDE DEF r, a
<1>6. acts'[a] = r /\ \A b \in Activity \ {a} : acts'[b] = acts[b]
  BY <1>2, <1>4
<1>7. Made' = Made
  BY <1>3, <1>6 DEF Made
<1>8. \A b \in Made : /\ acts[b].busy => acts'[b].busy
                      /\ acts[b].ready => acts'[b].ready
                      /\ Starts(call[c], b) => acts'[b].ready
  BY <1>3, <1>5, <1>6 DEF Made
<1>9. QED
  BY <1>1, <1>4, <1>7, <1>8, IdleIs, MoveWaits

(* UpdateAgent leaves the old activity and then enters the new one.        *)
LEMMA ExitWaits ==
    ASSUME IInv, WInv, NEW c \in Caller, Exit(c)
    PROVE  WInv'
<1>1. /\ TypeOK /\ call[c] \in CallRec /\ Shape(call[c], Made)
      /\ call[c].at = "exit" /\ call[c].act \in Made
  BY CallOf DEF IInv, Exit, At, Shape, Leaving
<1>2. PICK k : Moves(c, k) /\ k.at = "cancel" /\ k.next = call[c].next
  BY <1>1, GotoMoves DEF Exit, Places
<1> DEFINE a == call[c].act
           r == [acts[a] EXCEPT !.exited = acts[a].exited + 1]
<1>3. acts[a] \in ActRec /\ acts \in [Activity -> ActRec] /\ a \in Activity
  BY <1>1, MadeRec
<1>4. /\ r.made <=> acts[a].made
      /\ r.ready <=> acts[a].ready
      /\ r.busy <=> acts[a].busy
  BY <1>3 DEF ActRec
<1>5. acts' = [acts EXCEPT ![a] = r] /\ claims' = claims /\ holds' = holds
  BY DEF Exit, idleVars
<1> HIDE DEF r, a
<1>6. acts'[a] = r /\ \A b \in Activity \ {a} : acts'[b] = acts[b]
  BY <1>3, <1>5
<1>7. Made' = Made
  BY <1>4, <1>6 DEF Made
<1>8. \A b \in Made : /\ acts[b].busy => acts'[b].busy
                      /\ acts[b].ready => acts'[b].ready
                      /\ Starts(call[c], b) => Starts(k, b)
  BY <1>1, <1>2, <1>4, <1>6 DEF Made, Starts
<1>9. QED
  BY <1>1, <1>2, <1>5, <1>7, <1>8, MoveWaits

LEMMA CancelWaits ==
    ASSUME IInv, WInv, NEW c \in Caller, Cancel(c)
    PROVE  WInv'
<1>1. /\ TypeOK /\ call[c] \in CallRec /\ Shape(call[c], Made)
      /\ call[c].at = "cancel" /\ call[c].act \in Made /\ call \in [Caller -> CallRec]
  BY CallOf DEF IInv, Cancel, At, Shape, Leaving
<1>2. \E k : /\ Moves(c, k) /\ k.at \in {"enter", "callbacks"}
             /\ \A b \in Made : Starts(call[c], b) => Starts(k, b)
  <2>1. CASE call[c].op = "update"
    <3>1. call[c].next \in Activity
      BY <1>1, <2>1 DEF Shape, Leaving, Made
    <3> DEFINE k == [call[c] EXCEPT !.at = "enter", !.next = None, !.act = call[c].next]
    <3>2. k \in CallRec /\ k.at = "enter" /\ k.act = call[c].next
      BY <1>1, <3>1 DEF CallRec, Places
    <3>3. call' = [call EXCEPT ![c] = k]
      BY <1>1, <2>1 DEF Cancel
    <3> HIDE DEF k
    <3>4. Moves(c, k)
      BY <1>1, <3>2, <3>3 DEF Moves
    <3>5. QED
      BY <1>1, <3>2, <3>4 DEF Starts
  <2>2. CASE call[c].op # "update"
    <3>1. call' = [call EXCEPT ![c].at = "callbacks", ![c].act = None]
      BY <2>2 DEF Cancel
    <3>2. Placed(call[c], "callbacks", None).at = "callbacks"
      BY <1>1, PlacedIs DEF Places
    <3>3. Moves(c, Placed(call[c], "callbacks", None))
      BY <1>1, <3>1, PlaceMoves DEF Places
    <3>4. \A b \in Made : ~Starts(call[c], b)
      BY <1>1, <2>2, RestStartsNot DEF Leaving
    <3>5. QED
      BY <3>2, <3>3, <3>4
  <2>3. QED
    BY <2>1, <2>2
<1>3. PICK k : /\ Moves(c, k) /\ k.at \in {"enter", "callbacks"}
               /\ \A b \in Made : Starts(call[c], b) => Starts(k, b)
  BY <1>2
<1> DEFINE a == call[c].act
           r == [acts[a] EXCEPT !.cancelled = TRUE, !.paused = TRUE]
<1>4. acts[a] \in ActRec /\ acts \in [Activity -> ActRec] /\ a \in Activity
  BY <1>1, MadeRec
<1>5. /\ r.made <=> acts[a].made
      /\ r.ready <=> acts[a].ready
      /\ r.busy <=> acts[a].busy
  BY <1>4 DEF ActRec
<1>6. acts' = [acts EXCEPT ![a] = r] /\ claims' = claims /\ holds' = holds
  BY DEF Cancel, idleVars
<1> HIDE DEF r, a
<1>7. acts'[a] = r /\ \A b \in Activity \ {a} : acts'[b] = acts[b]
  BY <1>4, <1>6
<1>8. Made' = Made
  BY <1>5, <1>7 DEF Made
<1>9. \A b \in Made : /\ acts[b].busy => acts'[b].busy
                      /\ acts[b].ready => acts'[b].ready
  BY <1>5, <1>7 DEF Made
<1>10. QED
  BY <1>1, <1>3, <1>6, <1>8, <1>9, MoveWaits

(* The callbacks, and a Stop that finds the session stopped.               *)
LEMMA RunCallbacksWaits ==
    ASSUME IInv, WInv, NEW c \in Caller, RunCallbacks(c)
    PROVE  WInv'
<1>1. /\ TypeOK /\ call[c] \in CallRec /\ call \in [Caller -> CallRec]
      /\ call[c].at = "callbacks" /\ call[c].at \in Rest
      /\ UNCHANGED agentVars /\ UNCHANGED idleVars
  BY CallOf DEF IInv, RunCallbacks, At, Rest, Places
<1>2. CASE call[c].op = "close"
  <2> DEFINE k == [call[c] EXCEPT !.at = "emit", !.callbacks = FALSE]
  <2>1. k \in CallRec /\ k.at = "emit"
    BY <1>1 DEF CallRec, Places
  <2>2. call' = [call EXCEPT ![c] = k]
    BY <1>2 DEF RunCallbacks
  <2> HIDE DEF k
  <2>3. Moves(c, k) /\ k.at \in Free
    BY <1>1, <2>1, <2>2 DEF Moves, Free, Rest, Places
  <2>4. QED
    BY <1>1, <2>3, FreeWaits
<1>3. CASE call[c].op # "close"
  BY <1>1, <1>3, ReturnWaits DEF RunCallbacks
<1>4. QED
  BY <1>2, <1>3

LEMMA StopIdleWaits ==
    ASSUME IInv, WInv, NEW c \in Caller, StopIdle(c)
    PROVE  WInv'
<1>1. /\ TypeOK /\ call[c] \in CallRec /\ call \in [Caller -> CallRec]
      /\ call[c].at \in Rest /\ UNCHANGED agentVars /\ UNCHANGED idleVars
  BY CallOf DEF IInv, StopIdle, At, Rest, Places
<1> DEFINE k == [call[c] EXCEPT !.at = "callbacks", !.act = None, !.callbacks = ~callbacksRan]
<1>2. k \in CallRec /\ k.at = "callbacks"
  BY <1>1 DEF CallRec, Places
<1>3. call'[c] = k /\ \A d \in Caller \ {c} : call'[d] = call[d]
  BY DEF StopIdle, TakeCallbacks
<1>4. call' = [d \in Caller |-> call'[d]]
  BY DEF StopIdle, TakeCallbacks
<1> HIDE DEF k
<1>5. Moves(c, k)
  <2>1. \A d \in Caller : call'[d] \in CallRec
    BY <1>1, <1>2, <1>3
  <2>2. QED
    BY <1>2, <1>3, <1>4, <2>1 DEF Moves
<1>6. k.at \in Free
  BY <1>2 DEF Free, Rest, Places
<1>7. QED
  BY <1>1, <1>5, <1>6, FreeWaits

(* Claims and holds come and go.                                           *)
LEMMA Counts ==
    /\ Cardinality(Claimants) \in Nat /\ Cardinality(Holders) \in Nat
    /\ Cardinality(Claimants) > 0 => \E d \in Caller : At(d, "claimed")
    /\ Cardinality(Holders) > 0 => \E d \in Caller : At(d, "held")
<1>1. IsFiniteSet(Claimants) /\ IsFiniteSet(Holders)
  BY SessionAssumption, FS_Subset DEF Claimants, Holders
<1>2. Cardinality(Claimants) \in Nat /\ Cardinality(Holders) \in Nat
  BY <1>1, FS_CardinalityType
<1>3. Cardinality(Claimants) > 0 => Claimants # {}
  BY <1>1, FS_EmptySet
<1>4. Cardinality(Holders) > 0 => Holders # {}
  BY <1>1, FS_EmptySet
<1>5. QED
  BY <1>2, <1>3, <1>4 DEF Claimants, Holders

LEMMA PartsWait ==
    ASSUME IInv, SpeechesLast, MadeStart, Made' = Made,
           \A a \in Made : acts[a].ready => acts'[a].ready,
           \A d \in Caller :
              /\ call'[d].at = "speeches" =>
                    /\ call'[d] = call[d]
                    /\ acts[call[d].act].busy => acts'[call[d].act].busy
              /\ \A a \in Made : Starts(call[d], a) => Starts(call'[d], a)
    PROVE  SpeechesLast' /\ MadeStart'
<1>1. SpeechesLast'
  BY DEF SpeechesLast, At
<1>2. MadeStart'
  <2> SUFFICES ASSUME NEW a \in Made, ~acts'[a].ready
               PROVE  \E d \in Caller : Starts(call'[d], a)
    BY DEF MadeStart, Starter, Starts
  <2>1. PICK d \in Caller : Starts(call[d], a)
    BY DEF MadeStart, Starter
  <2>2. QED
    BY <2>1
<1>3. QED
  BY <1>1, <1>2

LEMMA SameActsWait ==
    ASSUME IInv, SpeechesLast, MadeStart, UNCHANGED agentVars,
           \A d \in Caller :
              /\ call'[d].at = "speeches" => call'[d] = call[d]
              /\ \A a \in Made : Starts(call[d], a) => Starts(call'[d], a)
    PROVE  SpeechesLast' /\ MadeStart'
<1>1. acts' = acts /\ Made' = Made
  BY DEF agentVars, Made
<1>2. QED
  BY <1>1, PartsWait

LEMMA ClaimBeginWaits ==
    ASSUME IInv, WInv, NEW c \in Caller, ClaimBegin(c)
    PROVE  WInv'
<1>1. /\ TypeOK /\ IdleOK /\ call[c].at = "idle" /\ call \in [Caller -> CallRec]
      /\ Shape(call[c], Made)
  BY CallOf, TypeParts DEF IInv, ClaimBegin, At
<1>2. /\ claims' = claims + 1 /\ holds' = holds /\ UNCHANGED agentVars
      /\ call'[c].at = "claimed" /\ \A d \in Caller \ {c} : call'[d] = call[d]
  BY <1>1, IdleIs DEF ClaimBegin, CallRec
<1>3. Counted'
  BY <1>1, <1>2 DEF WInv, Counted, At, IdleOK
<1>4. \A a \in Made : ~Starts(call[c], a)
  BY <1>1, RestStartsNot DEF Rest, Places
<1>5. QED
  BY <1>2, <1>3, <1>4, SameActsWait DEF WInv

LEMMA HoldBeginWaits ==
    ASSUME IInv, WInv, NEW c \in Caller, HoldBegin(c)
    PROVE  WInv'
<1>1. /\ TypeOK /\ IdleOK /\ call[c].at = "hold" /\ call \in [Caller -> CallRec]
      /\ Shape(call[c], Made)
  BY CallOf, TypeParts DEF IInv, HoldBegin, At
<1>2. /\ holds' = holds + 1 /\ claims' = claims /\ UNCHANGED agentVars
      /\ call'[c].at = "held" /\ \A d \in Caller \ {c} : call'[d] = call[d]
  BY <1>1 DEF HoldBegin, CallRec
<1>3. Counted'
  BY <1>1, <1>2 DEF WInv, Counted, At, IdleOK
<1>4. \A a \in Made : ~Starts(call[c], a)
  BY <1>1, RestStartsNot DEF Rest, Places
<1>5. QED
  BY <1>2, <1>3, <1>4, SameActsWait DEF WInv

LEMMA ReleaseWaits ==
    ASSUME IInv, NEW c \in Caller, NEW n, NEW b \in {"onClaims", "onHolds"},
           call[c].at \in {"claimed", "held"}, Release(c, n, b)
    PROVE  \A d \in Caller :
              /\ call'[d].at \in {"onClaims", "onHolds", "speeches"} => call'[d] = call[d]
              /\ call'[d].at = b => n # 0
              /\ \A a \in Made : Starts(call[d], a) => Starts(call'[d], a)
<1> SUFFICES ASSUME NEW d \in Caller
             PROVE  /\ call'[d].at \in {"onClaims", "onHolds", "speeches"} => call'[d] = call[d]
                    /\ call'[d].at = b => n # 0
                    /\ \A a \in Made : Starts(call[d], a) => Starts(call'[d], a)
  OBVIOUS
<1>1. call[d] \in CallRec /\ Shape(call[d], Made)
  BY CallOf DEF IInv
<1>2. CASE d = c
  <2>1. call'[d].at = "idle"
    BY <1>2, IdleIs DEF Release
  <2>2. \A a \in Made : ~Starts(call[d], a)
    BY <1>1, <1>2, RestStartsNot
  <2>3. QED
    BY <2>1, <2>2
<1>3. CASE d # c /\ n = 0 /\ call[d].at = b
  <2>1. call'[d].at = "read"
    BY <1>1, <1>3 DEF Release, CallRec
  <2>2. call[d].at \in Rest
    BY <1>3 DEF Rest, Places
  <2>3. \A a \in Made : ~Starts(call[d], a)
    BY <1>1, <2>2, RestStartsNot
  <2>4. QED
    BY <2>1, <2>3
<1>4. CASE d # c /\ ~(n = 0 /\ call[d].at = b)
  <2>1. call'[d] = call[d]
    BY <1>4 DEF Release
  <2>2. QED
    BY <1>4, <2>1
<1>5. QED
  BY <1>2, <1>3, <1>4

LEMMA ClaimEndWaits ==
    ASSUME IInv, WInv, NEW c \in Caller, ClaimEnd(c)
    PROVE  WInv'
<1> DEFINE n == Less(claims)
<1>1. /\ IdleOK /\ call[c].at = "claimed" /\ claims' = n /\ holds' = holds
      /\ Release(c, n, "onClaims") /\ UNCHANGED agentVars /\ n \in Nat
  BY TypeParts DEF IInv, ClaimEnd, At, IdleOK, Less
<1>2. \A d \in Caller :
         /\ call'[d].at \in {"onClaims", "onHolds", "speeches"} => call'[d] = call[d]
         /\ call'[d].at = "onClaims" => n # 0
         /\ \A a \in Made : Starts(call[d], a) => Starts(call'[d], a)
  BY <1>1, ReleaseWaits
<1>3. Counted'
  BY <1>1, <1>2 DEF WInv, Counted, At
<1>4. QED
  BY <1>1, <1>2, <1>3, SameActsWait DEF WInv

LEMMA HoldEndWaits ==
    ASSUME IInv, WInv, NEW c \in Caller, HoldEnd(c)
    PROVE  WInv'
<1> DEFINE n == Less(holds)
<1>1. /\ IdleOK /\ call[c].at = "held" /\ holds' = n /\ claims' = claims
      /\ Release(c, n, "onHolds") /\ UNCHANGED agentVars /\ n \in Nat
  BY TypeParts DEF IInv, HoldEnd, At, IdleOK, Less
<1>2. \A d \in Caller :
         /\ call'[d].at \in {"onClaims", "onHolds", "speeches"} => call'[d] = call[d]
         /\ call'[d].at = "onHolds" => n # 0
         /\ \A a \in Made : Starts(call[d], a) => Starts(call'[d], a)
  BY <1>1, ReleaseWaits
<1>3. Counted'
  BY <1>1, <1>2 DEF WInv, Counted, At
<1>4. QED
  BY <1>1, <1>2, <1>3, SameActsWait DEF WInv

(* Stop drops them and wakes those who wait for them.                      *)
LEMMA StopBeginWaits ==
    ASSUME IInv, WInv, NEW c \in Caller, StopBegin(c)
    PROVE  WInv'
<1>1. /\ TypeOK /\ call \in [Caller -> CallRec] /\ acts \in [Activity -> ActRec]
      /\ call[c].at = "stopGate" /\ started /\ claims' = 0 /\ holds' = 0
  BY CallOf, TypeParts DEF IInv, StopBegin, At, ActsOK
<1>2. call'[c].at = "exit"
  BY <1>1 DEF StopBegin, TakeCallbacks, CallRec
<1>3. \A d \in Caller \ {c} :
         \/ call'[d] = call[d] /\ call[d].at \notin {"onClaims", "onHolds"}
         \/ call[d].at \in {"onClaims", "onHolds"} /\ call'[d].at = "read"
  BY <1>1 DEF StopBegin, TakeCallbacks, CallRec
<1>4. \A d \in Caller : /\ call'[d].at \in {"onClaims", "onHolds"} => FALSE
                        /\ call'[d].at = "speeches" => call'[d] = call[d]
                        /\ call'[d].at = "claimed" <=> call[d].at = "claimed"
                        /\ call'[d].at = "held" <=> call[d].at = "held"
  BY <1>1, <1>2, <1>3
<1>5. \A d \in Caller, a \in Made : Starts(call[d], a) => Starts(call'[d], a)
  <2> SUFFICES ASSUME NEW d \in Caller, NEW a \in Made, Starts(call[d], a)
               PROVE  Starts(call'[d], a)
    OBVIOUS
  <2>1. call[d].at \notin Rest
    BY RestStartsNot DEF IInv
  <2>2. call'[d] = call[d]
    BY <1>1, <1>3, <2>1 DEF Rest, Places
  <2>3. QED
    BY <2>2
<1>6. acts' = [a \in Activity |-> IF a \in Made THEN [acts[a] EXCEPT !.cancelled = TRUE]
                                               ELSE acts[a]]
  BY DEF StopBegin
<1>7. \A a \in Activity : /\ acts'[a].made <=> acts[a].made
                          /\ acts'[a].ready <=> acts[a].ready
                          /\ acts'[a].busy <=> acts[a].busy
  <2> SUFFICES ASSUME NEW a \in Activity
               PROVE  /\ acts'[a].made <=> acts[a].made
                      /\ acts'[a].ready <=> acts[a].ready
                      /\ acts'[a].busy <=> acts[a].busy
    OBVIOUS
  <2> DEFINE r == [acts[a] EXCEPT !.cancelled = TRUE]
  <2>1. acts[a] \in ActRec
    BY <1>1
  <2>2. /\ r.made <=> acts[a].made
        /\ r.ready <=> acts[a].ready
        /\ r.busy <=> acts[a].busy
    BY <2>1 DEF ActRec
  <2>3. acts'[a] = r \/ acts'[a] = acts[a]
    BY <1>6
  <2> HIDE DEF r
  <2>4. QED
    BY <2>2, <2>3
<1>8. Made' = Made
  BY <1>7 DEF Made
<1>9. SpeechesLast' /\ MadeStart'
  <2>1. \A d \in Caller : call'[d].at = "speeches" => call[d].act \in Made
    BY <1>4 DEF IInv, Shape
  <2>2. QED
    BY <1>4, <1>5, <1>7, <1>8, <2>1, PartsWait DEF WInv, Made
<1>10. Counted'
  BY <1>4 DEF Counted, At
<1>11. QED
  BY <1>9, <1>10 DEF WInv

(* The speeches that closeSoon waits for end, all at once.                 *)
LEMMA SpeechesEndWaits ==
    ASSUME IInv, WInv, NEW a \in Activity, SpeechesEnd(a)
    PROVE  WInv'
<1>1. /\ TypeOK /\ call \in [Caller -> CallRec] /\ acts \in [Activity -> ActRec]
      /\ claims' = claims /\ holds' = holds
  BY TypeParts DEF IInv, SpeechesEnd, idleVars, ActsOK, CallOK
<1> DEFINE r == [acts[a] EXCEPT !.busy = FALSE]
<1>2. acts[a] \in ActRec
  BY <1>1
<1>3. (r.made <=> acts[a].made) /\ (r.ready <=> acts[a].ready)
  BY <1>2 DEF ActRec
<1>4. acts'[a] = r /\ \A b \in Activity \ {a} : acts'[b] = acts[b]
  BY <1>1 DEF SpeechesEnd
<1> HIDE DEF r
<1>5. Made' = Made /\ \A b \in Made : acts[b].ready => acts'[b].ready
  BY <1>3, <1>4 DEF Made
<1>6. \A d \in Caller :
         \/ call'[d] = call[d] /\ ~(call[d].at = "speeches" /\ call[d].act = a)
         \/ call[d].at = "speeches" /\ call'[d].at = "stopGate"
  BY <1>1 DEF SpeechesEnd, At, CallRec
<1>7. \A d \in Caller :
         call'[d].at = "speeches" =>
            /\ call'[d] = call[d]
            /\ acts[call[d].act].busy => acts'[call[d].act].busy
  <2> SUFFICES ASSUME NEW d \in Caller, call'[d].at = "speeches"
               PROVE  call'[d] = call[d] /\ acts'[call[d].act] = acts[call[d].act]
    OBVIOUS
  <2>1. call'[d] = call[d] /\ call[d].act # a
    BY <1>6
  <2>2. call[d].act \in Activity
    BY <2>1 DEF IInv, Shape, Made
  <2>3. QED
    BY <1>4, <2>1, <2>2
<1>8. \A d \in Caller, b \in Made : Starts(call[d], b) => Starts(call'[d], b)
  <2> SUFFICES ASSUME NEW d \in Caller, NEW b \in Made, Starts(call[d], b)
               PROVE  Starts(call'[d], b)
    OBVIOUS
  <2>1. call[d].at \notin Rest
    BY RestStartsNot DEF IInv
  <2>2. call'[d] = call[d]
    BY <1>6, <2>1 DEF Rest, Places
  <2>3. QED
    BY <2>2
<1>9. SpeechesLast' /\ MadeStart'
  BY <1>5, <1>7, <1>8, PartsWait DEF WInv
<1>10. Counted'
  BY <1>1, <1>6 DEF WInv, Counted, At
<1>11. QED
  BY <1>9, <1>10 DEF WInv

(* A new activity has the call that made it to start it.                   *)
LEMMA NewWaits ==
    ASSUME IInv, WInv, NEW c \in Caller, NEW k, Moves(c, k), NEW a \in Activity,
           Starts(k, a), Made' = Made \cup {a}, claims' = claims, holds' = holds,
           call[c].at \in Rest, k.at \in {"enter", "exit"},
           \A b \in Made : /\ acts[b].busy => acts'[b].busy
                           /\ acts[b].ready => acts'[b].ready
    PROVE  WInv'
<1>1. \A b \in Made : ~Starts(call[c], b)
  BY RestStartsNot DEF IInv
<1>2. Counted'
  BY DEF WInv, Counted, At, Moves
<1>3. SpeechesLast'
  <2> SUFFICES ASSUME NEW d \in Caller, call'[d].at = "speeches"
               PROVE  acts'[call'[d].act].busy
    BY DEF SpeechesLast, At
  <2>1. call'[d] = call[d]
    BY DEF Moves
  <2>2. call[d].act \in Made
    BY <2>1 DEF IInv, Shape
  <2>3. acts[call[d].act].busy
    BY <2>1 DEF WInv, SpeechesLast, At
  <2>4. QED
    BY <2>1, <2>2, <2>3
<1>4. MadeStart'
  <2> SUFFICES ASSUME NEW b \in Made \cup {a}, ~acts'[b].ready
               PROVE  \E d \in Caller : Starts(call'[d], b)
    BY DEF MadeStart, Starter, Starts
  <2>1. CASE b = a
    BY <2>1 DEF Moves
  <2>2. CASE b \in Made
    <3>1. PICK d \in Caller : Starts(call[d], b)
      BY <2>2 DEF WInv, MadeStart, Starter
    <3>2. call'[d] = call[d]
      BY <1>1, <2>2, <3>1 DEF Moves
    <3>3. QED
      BY <3>1, <3>2
  <2>3. QED
    BY <2>1, <2>2
<1>5. QED
  BY <1>2, <1>3, <1>4 DEF WInv

LEMMA StartPublishWaits ==
    ASSUME IInv, WInv, NEW c \in Caller, StartPublish(c)
    PROVE  WInv'
<1>1. /\ TypeOK /\ call[c] \in CallRec /\ call \in [Caller -> CallRec]
      /\ call[c].at = "starting" /\ call[c].next \in Activity \ Made
      /\ acts \in [Activity -> ActRec]
  BY CallOf, TypeParts DEF IInv, StartPublish, At, Shape, ActsOK
<1> DEFINE a == call[c].next
           k == [call[c] EXCEPT !.at = "enter", !.act = a, !.next = None]
<1>2. k \in CallRec /\ k.at = "enter" /\ k.act = a
  BY <1>1 DEF CallRec, Places
<1>3. /\ call' = [call EXCEPT ![c] = k] /\ acts' = [acts EXCEPT ![a] = NewActivity]
      /\ claims' = claims /\ holds' = holds
  BY DEF StartPublish, idleVars
<1> HIDE DEF k, a
<1>4. Moves(c, k)
  BY <1>1, <1>2, <1>3 DEF Moves
<1>5. a \in Activity \ Made
  BY <1>1 DEF a
<1>6. acts'[a] = NewActivity /\ \A b \in Activity \ {a} : acts'[b] = acts[b]
  BY <1>1, <1>3, <1>5
<1>7. Made' = Made \cup {a} /\ \A b \in Made : acts'[b] = acts[b]
  BY <1>5, <1>6, NewIs DEF Made
<1>8. Starts(k, a) /\ call[c].at \in Rest
  BY <1>1, <1>2 DEF Starts, Rest, Places
<1>9. QED
  BY <1>2, <1>3, <1>4, <1>5, <1>7, <1>8, NewWaits

LEMMA UpdateBeginWaits ==
    ASSUME IInv, WInv, NEW c \in Caller, UpdateBegin(c)
    PROVE  WInv'
<1>1. PICK a \in Fresh : /\ acts' = [acts EXCEPT ![activity].paused = TRUE,
                                                 ![a] = NewActivity]
                         /\ Begin(c, "update", "exit", activity, a)
  BY DEF UpdateBegin
<1>2. /\ TypeOK /\ a \in Activity \ Made /\ acts \in [Activity -> ActRec] /\ started
      /\ claims' = claims /\ holds' = holds
  BY TypeParts DEF IInv, UpdateBegin, Fresh, Taken, ActsOK, idleVars
<1>3. activity \in Made /\ activity \in Activity /\ activity # a
  BY <1>2 DEF IInv, StartedInv, TypeOK, Made
<1> DEFINE k == Begun("update", "exit", activity, a)
           r == [acts[activity] EXCEPT !.paused = TRUE]
<1>4. call[c].at = "idle" /\ Moves(c, k) /\ k.at = "exit" /\ k.next = a
  <2>1. "update" \in AllOps /\ "exit" \in Places /\ a \in Activity
    BY <1>2 DEF AllOps, Places
  <2>2. call[c].at = "idle" /\ Moves(c, k)
    BY <1>1, <1>2, <1>3, <2>1, BeginMoves
  <2>3. k.at = "exit" /\ k.next = a
    BY <1>3, <2>1, BegunIs
  <2>4. QED
    BY <2>2, <2>3
<1>5. acts[activity] \in ActRec
  BY <1>2, <1>3
<1>6. /\ r.made <=> acts[activity].made
      /\ r.ready <=> acts[activity].ready
      /\ r.busy <=> acts[activity].busy
  BY <1>5 DEF ActRec
<1>7. acts' = [acts EXCEPT ![activity] = r, ![a] = NewActivity]
  BY <1>1
<1> HIDE DEF k, r
<1>8. /\ acts'[a] = NewActivity /\ acts'[activity] = r
      /\ \A b \in Activity \ {a, activity} : acts'[b] = acts[b]
  BY <1>2, <1>3, <1>7
<1>9. Made' = Made \cup {a}
  BY <1>2, <1>3, <1>6, <1>8, NewIs DEF Made
<1>10. \A b \in Made : /\ acts[b].busy => acts'[b].busy
                       /\ acts[b].ready => acts'[b].ready
  BY <1>2, <1>6, <1>8 DEF Made
<1>11. Starts(k, a) /\ call[c].at \in Rest
  BY <1>4 DEF Starts, Rest, Places
<1>12. QED
  BY <1>2, <1>4, <1>9, <1>10, <1>11, NewWaits

LEMMA WorksWait ==
    ASSUME IInv, WInv, NEW c \in Caller, Works(c)
    PROVE  WInv'
BY OutsideWaits, EnterWaits, EnteredWaits, ExitWaits, CancelWaits, RunCallbacksWaits,
   StartPublishWaits, ClaimEndWaits, HoldBeginWaits, HoldEndWaits DEF Works

LEMMA WaitStep == IInv /\ WInv /\ [Next]_vars => WInv'
<1> SUFFICES ASSUME IInv, WInv, [Next]_vars
             PROVE  WInv'
  OBVIOUS
<1>1. ASSUME NEW c \in Caller, Calls(c)
      PROVE  WInv'
  BY <1>1, CallsWait, UpdateBeginWaits, ClaimBeginWaits DEF Calls
<1>2. ASSUME NEW c \in Caller, Gate(c)
      PROVE  WInv'
  BY <1>2, CallsWait, StopIdleWaits, StopBeginWaits DEF Gate
<1>3. CASE UNCHANGED vars
  <2>1. call' = call /\ claims' = claims /\ holds' = holds /\ acts' = acts /\ Made' = Made
    BY <1>3 DEF vars, idleVars, agentVars, Made
  <2>2. QED
    BY <2>1 DEF WInv, Counted, SpeechesLast, MadeStart, Starter, Starts, At
<1>4. QED
  BY <1>1, <1>2, <1>3, WaitsWait, WorksWait, SpeechesEndWaits DEF Next

(* acquireLifecycle, WaitForInactive, Interrupt: nobody waits for the gate, *)
(* for a claim, a hold, a speech or a start that will not come.            *)
THEOREM NobodyWaitsInVain == Spec => []WaitsAnswered
<1>1. Init => WInv
  <2> SUFFICES ASSUME Init
               PROVE  WInv
    OBVIOUS
  <2>1. \A c \in Caller : call[c].at = "idle"
    BY IdleIs DEF Init
  <2>2. Made = {} /\ claims = 0 /\ holds = 0
    BY DEF Init, Made, NoActivity
  <2>3. QED
    BY <2>1, <2>2 DEF WInv, Counted, SpeechesLast, MadeStart, At
<1>2. IInv /\ WInv => WaitsAnswered
  <2> SUFFICES ASSUME IInv, WInv
               PROVE  WaitsAnswered
    OBVIOUS
  <2>1. gate # None => call[gate].at \in {"starting", "enter", "entering",
                                          "exit", "cancel", "callbacks"}
    <3>1. gate # None => gate \in Caller /\ HoldsGate(call[gate])
      BY DEF IInv, GateInv, TypeOK
    <3>2. QED
      BY <3>1 DEF HoldsGate, Leaving
  <2>2. ASSUME NEW c \in Caller
        PROVE  /\ At(c, "onClaims") => claims > 0 /\ \E d \in Caller : At(d, "claimed")
               /\ At(c, "onHolds") => holds > 0 /\ \E d \in Caller : At(d, "held")
               /\ At(c, "speeches") => acts[call[c].act].busy
    <3>1. claims \in Nat /\ holds \in Nat
      BY DEF IInv, TypeOK
    <3>2. /\ At(c, "onClaims") => claims > 0 /\ Cardinality(Claimants) > 0
          /\ At(c, "onHolds") => holds > 0 /\ Cardinality(Holders) > 0
      BY <3>1, Counts DEF IInv, CountInv, Claimants, Holders, WInv, Counted
    <3>3. QED
      BY <3>2, Counts DEF WInv, SpeechesLast
  <2>3. ASSUME NEW c \in Caller, At(c, "inactive"), AwaitsStart(call[c].act)
        PROVE  \E d \in Caller : Starts(call[d], call[c].act)
    <3>1. call[c].act \in Made /\ ~acts[call[c].act].ready
      BY <2>3 DEF IInv, Shape, At, AwaitsStart
    <3>2. QED
      BY <3>1 DEF WInv, MadeStart, Starter
  <2>4. QED
    BY <2>1, <2>2, <2>3 DEF WaitsAnswered
<1>3. QED
  BY <1>1, <1>2, WaitStep, Invariance, PTL DEF Spec
=============================================================================
