SPECIFICATION Spec
CONSTANTS
  ann = ann pair = pair party = party noon = noon
  Identities = {ann}
  Strangers = {}
  Incomplete = Incomplete
  Keys = {pair, party}
  NoKey = NoKey
  Starts = {noon}
  NoStart = NoStart
  NoBody = NoBody
  MaxEffects = 3
  MaxRequests = 4
  MaxEdits = 1
  MaxSends = 2
\* The bounds end every run.
SYMMETRY PartySymmetry
CHECK_DEADLOCK FALSE
INVARIANTS SlotsAreCurrent OneUnresolvedBooking UnresolvedIsShown NewsletterIsChosen
PROPERTY EditWins
