CONSTANTS
  Settings = {"VLEN", "MAXINST"}
  Words <- MCWords
  NotANumber = NotANumber
  MaxLines = 4
SPECIFICATION Spec
INVARIANTS
  TypeOK
  LastLineWins
CHECK_DEADLOCK FALSE
