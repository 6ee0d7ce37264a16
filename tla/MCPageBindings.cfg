SPECIFICATION Spec
CONSTANTS
  Elements = {e1, e2}
  Fields = {title, body}
  None = None
  Threshold = 1
  MaxNews = 2
SYMMETRY MCSymmetry
INVARIANTS
  BindingsAreTrue
  InViewIsServed
CHECK_DEADLOCK FALSE
