SPECIFICATION FairSpec
CONSTANTS
  x = x
  more = more
  Tools = {x, more}
  GetMoreTools = more
  GetMoreForm <- MCGetMoreForm
  Forms <- MCForms
  Setups <- MCSetups
  Lists = {1}
  Calls = {c1}
  MaxVersions = 2
  Wishes = 1
  None = None
CHECK_DEADLOCK FALSE
INVARIANTS
  TypeOK
  EveryListCounts
  AdvertisedCallsAccepted
  HandlerSeesItsArguments
  CustomerRegistrationKept
PROPERTIES
  ListsSettle
