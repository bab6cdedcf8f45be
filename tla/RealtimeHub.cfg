\* Two clients of two users, and three notifications.
SPECIFICATION Spec
CONSTANTS
  c1 = c1
  c2 = c2
  u1 = u1
  u2 = u2
  Conns = {c1, c2}
  Users = {u1, u2}
  UserOf <- MCUserOf
  MaxEvents = 3
  Nil = Nil
\* All notifications may be taken and all clients gone.
CHECK_DEADLOCK FALSE
INVARIANTS
  DeliversInOrder
PROPERTIES
  EventsTaken
