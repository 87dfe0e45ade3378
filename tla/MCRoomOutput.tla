---------------------------- MODULE MCRoomOutput ----------------------------
(* Small instances of RoomOutput for TLC.                                  *)
EXTENDS RoomOutput, TLC

CONSTANTS a, b

(* A pipeline agent whose replies overlap, and a realtime agent.           *)
Agents == {(a :> "pipeline") @@ (b :> "pipeline"), (a :> "realtime") @@ (b :> "events")}
Realtime == {(a :> "realtime")}
=============================================================================
