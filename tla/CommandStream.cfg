SPECIFICATION Spec
CONSTANTS
  Values = {1, 12, 123}
  MaxNumber = 99
  Rates = {1}
  Refused = {12}
  Controls = {"START"}
  Queries = {"ARMED?", "RATES?"}
  Edges = {"RISING", "UP"}
  Room = 1
  MaxDigits = 3
  MaxLines = 2
  MaxClients = 2
  None = None
INVARIANTS
  ConfigAsSent
  RepliesMatch
PROPERTY
  Answered
CHECK_DEADLOCK FALSE
