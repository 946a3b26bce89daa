SPECIFICATION ClipboardSpec
CONSTANT MaxRemote = 1
CONSTANT MaxUnits = 1
CONSTANT MaxCopies = 1
PROPERTY LocalCopySurvives
CHECK_DEADLOCK FALSE
