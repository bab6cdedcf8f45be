----------------------------- MODULE UnitHolding -----------------------------
(***************************************************************************)
(* What sales and rentals both promise about a unit: one contract holds it *)
(* at a time, and a contract holds its unit once and never again.  The     *)
(* active sales contract of a unit holds it, and so does its active lease. *)
(***************************************************************************)
CONSTANTS Units, Contracts, Nil

VARIABLES
  holder,   \* the contract that holds each unit, Nil if it is free
  past      \* the contracts that will not hold a unit any more

Init == holder = [u \in Units |-> Nil] /\ past = {}

Holding == {holder[u] : u \in Units} \ {Nil}

Take(u, c) ==
  /\ holder[u] = Nil /\ c \notin past \cup Holding
  /\ holder' = [holder EXCEPT ![u] = c]
  /\ past' = past

Leave(u) ==
  /\ holder[u] # Nil
  /\ holder' = [holder EXCEPT ![u] = Nil]
  /\ past' = past \cup {holder[u]}

GiveUp(c) ==   \* before it ever held a unit
  /\ c \notin past \cup Holding
  /\ past' = past \cup {c}
  /\ holder' = holder

Next ==
  \/ \E u \in Units : Leave(u) \/ \E c \in Contracts : Take(u, c)
  \/ \E c \in Contracts : GiveUp(c)

Spec == Init /\ [][Next]_<<holder, past>>

-----------------------------------------------------------------------------
TypeInv == /\ holder \in [Units -> Contracts \cup {Nil}]
           /\ past \subseteq Contracts

\* No contract holds two units, and none that gave up its unit has one.
HeldByOne ==
  /\ \A u, v \in Units : holder[u] = holder[v] /\ holder[u] # Nil => u = v
  /\ \A u \in Units : holder[u] # Nil => holder[u] \notin past
==============================================================================
