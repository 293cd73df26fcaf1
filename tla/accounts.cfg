SPECIFICATION Spec
CONSTANTS
  Users = {u1, u2}
  Emails = {e1, e2}
  Requests = {r1, r2}
  Null = Null
  Interruptions = TRUE
  MaxCalls = 5
INVARIANTS
  TypeOK
  EmailsAreUnique
  SecretServesOnce
  SecretsStand
  ResetRevokes
  SingletonsStand
\* The calls are bounded: after the last one nothing happens any more.
CHECK_DEADLOCK FALSE
SYMMETRY Symmetry
