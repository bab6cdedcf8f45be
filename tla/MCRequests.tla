------------------------------ MODULE MCRequests ------------------------------
(***************************************************************************)
(* Requests for TLC, with the scopes the user had the role in at some      *)
(* moment while each request was handled.                                  *)
(***************************************************************************)
EXTENDS Requests

VARIABLE held

MCInit == Init /\ held = [r \in Requests |-> {}]

MCNext ==
  /\ Next
  /\ held' = [r \in Requests |->
                IF pc'[r] \in {"unsent", "answered"} THEN held[r]
                                                     ELSE held[r] \cup assigned']

MCSpec == MCInit /\ [][MCNext]_<<vars, held>> /\ Fairness

\* Nothing is carried out for a user who had no role for it at any moment
\* since the request arrived: no role in any scope, or, where the handler looks
\* at the scope, none in the row's, whatever was assigned and removed between
\* the two checks and the commit.
OnlyPermitted ==
  \A r \in Requests :
    committed[r] =>
      held[r] \cap (IF r \in Scoped THEN {"deployment", "here"} ELSE Scopes) # {}
==============================================================================
