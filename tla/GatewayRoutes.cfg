\* Every pair of requests, on every route, method, token and body, from one
\* client, and account requests from two clients, on two connections or by
\* either ingress, naming nobody, themselves or each other; limits of one, so
\* that the second may be refused.
CONSTANTS
  Requests = {r1, r2}
  Inputs <- AllInputs
  Addrs = {a1, a2}
  Ports = {p1, p2}
  Proxy = proxy
  AuthLimit = 1
  ApiLimit = 1
  FlagLimit = 1
  Window = 1
  MaxTime = 1
SPECIFICATION Spec
SYMMETRY Symmetry
INVARIANTS TypeOK AccountBudget RefusedTokenIsFree SuccessNeedsToken RefusalIsEarned
PROPERTIES ImplementsContract
CHECK_DEADLOCK FALSE
