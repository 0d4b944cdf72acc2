SPECIFICATION Spec
CONSTANTS
  x = x
  more = more
  Tools = {x, more}
  GetMoreTools = more
  GetMoreForm <- MCGetMoreForm
  Forms <- MCForms
  Setups <- MCSetups
  Lists = {1}
  Calls = {c1}
  MaxVersions = 2
  Wishes = 0
  None = None
CHECK_DEADLOCK FALSE
INVARIANT
  AnyInstanceServes
