\* Two Channels, two texts of which one is too long, two requests under way.
SPECIFICATION Spec
CONSTANTS
  c1 = c1
  c2 = c2
  t1 = t1
  t2 = t2
  None = None
  Channels = {c1, c2}
  Texts = {t1, t2}
  Oversize = {t2}
  s1 = s1
  s2 = s2
  Slots = {s1, s2}
  MaxChanges = 1
SYMMETRY Symmetry
INVARIANTS
  SelectedListed
PROPERTIES
  TransferAsConfirmed
