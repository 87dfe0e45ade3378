--------------------------- MODULE MCAgentSession ---------------------------
(* Small instances of AgentSession for TLC.                                *)
EXTENDS AgentSession, TLC

CONSTANTS c1, c2, c3

(* Who runs the session, who closes it or hands it over, who waits for it. *)
(* Two claim the user's turn and two hold the session idle: claims nest,   *)
(* holders overlap, and one that outlives a Stop meets newer ones.         *)
Roles == (c1 :> {"start", "stop", "fail", "claim"})
      @@ (c2 :> {"close", "update", "claim", "hold"})
      @@ (c3 :> {"update", "hold", "reply", "deadline"})
=============================================================================
