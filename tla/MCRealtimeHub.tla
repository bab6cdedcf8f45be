---------------------------- MODULE MCRealtimeHub ----------------------------
(***************************************************************************)
(* RealtimeHub for TLC: clients of two users.  An event without a user is  *)
(* for both.                                                               *)
(***************************************************************************)
EXTENDS RealtimeHub, TLC

CONSTANTS c1, c2, u1, u2

MCUserOf == c1 :> u1 @@ c2 :> u2
==============================================================================
