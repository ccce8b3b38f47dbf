\* Registrations of one login in two processes; one failure, lost reply or crash.
SPECIFICATION LiveSpec
CONSTANTS
  r1 = r1 r2 = r2 r3 = r3 l1 = l1 alice = alice bob = bob
  None = None
  Registrations = {r1, r2, r3}
  LoginCalls = {l1}
  Processes = {p1, p2}
  Logins = {alice, bob}
  Login <- MCLogin
  Password <- MCPassword
  TooLong = {r3}
  MaxFailures = 1
INVARIANTS
  TypeOK
  LostOnlyElsewhere
  TokensProvePassword
  RegistrationAnswers
  RegisteredCanLogin
PROPERTIES
  ImplementsRegistry
  RequestsEnd
CHECK_DEADLOCK FALSE
