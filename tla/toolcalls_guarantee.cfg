SPECIFICATION Spec
CONSTANTS
  Calls = {c1, c2}
  Capacity = 2
  MaxDispatch = 2
  Shared = Shared
  None = None
SYMMETRY MCSymmetry
INVARIANT FourShapesOutside
