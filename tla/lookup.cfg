SPECIFICATION Spec
CONSTANTS
  ann = ann eve = eve
  Identities = {ann, eve}
  Strangers = {eve}
  Incomplete = Incomplete
  NoBody = NoBody
  MaxEffects = 2
  MaxEdits = 1
  MaxSaves = 2
\* The bounds end every run.
CHECK_DEADLOCK FALSE
INVARIANTS LookupIsCurrent OneUnresolvedBody
PROPERTY DirtyChoiceKept
