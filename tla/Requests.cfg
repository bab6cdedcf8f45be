\* More requests than connections, one of them to a handler that looks at the
\* scope and one to a handler that does not.
SPECIFICATION MCSpec
CONSTANTS
  r1 = r1
  r2 = r2
  Requests = {r1, r2}
  Scoped = {r1}
  MaxConns = 1
\* The process may have exited.
CHECK_DEADLOCK FALSE
INVARIANTS
  PoolNeverStuck
  OnlyPermitted
PROPERTIES
  AnswersAll
  ShutsDown
