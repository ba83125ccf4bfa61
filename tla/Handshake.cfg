SPECIFICATION Spec
CONSTANTS
  Ids = {1, 2}
  MaxBuffered = 3
PROPERTIES PasswordGate TerminalGate IdentityFixed
CHECK_DEADLOCK FALSE
