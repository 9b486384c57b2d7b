SPECIFICATION Spec
CONSTANTS
  Ops <- AllOps
  ShortcutOps <- AllButReply
  StringWidths = {1, 3}
  DocWidths = {5, 6}
  MaxDocs = 2
  MaxSections = 2
INVARIANTS
  RoundTrip
  NoOverrun
  AcceptsWhole
  NothingDropped
CHECK_DEADLOCK FALSE
