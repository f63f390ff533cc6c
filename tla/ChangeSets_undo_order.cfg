SPECIFICATION EditSpec
CONSTANTS
    EditRequests = {q1}
    FirstSize = 3
    SecondSize = 0
    MaxPosition = 0
    MaxEdits = 2
    MaxBuilds = 0
    MaxEditFails = 0
INVARIANTS
  UndoRestores
CHECK_DEADLOCK FALSE
