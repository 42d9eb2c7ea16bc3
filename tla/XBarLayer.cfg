SPECIFICATION Spec
CONSTANTS
  Ports = {p1, p2, p3}
  NoPort = NoPort
INVARIANTS
  NoForgottenPort
  NoLostWakeup
  RetryIsExpected
