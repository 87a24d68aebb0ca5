SPECIFICATION Spec
CONSTANTS
  ann = ann eve = eve
  Identities = {ann}
  Strangers = {}
  Incomplete = Incomplete
  NoBody = NoBody
  MaxEffects = 1
  MaxEdits = 2
  MaxSaves = 2
\* The bounds end every run.
CHECK_DEADLOCK FALSE
PROPERTY EditWins
