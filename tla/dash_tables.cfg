SPECIFICATION Spec
CONSTANTS
  Pages = {"home","rewards","goals","commands","timers","queue","users"}
  Users = {"u", "v"}
  Redeems = {1, 2}
  Saved <- MCUsed
  absent = absent
  null = null
  Limits <- MCLimits
  Typed <- MCTyped
  SlugOf <- MCSlugOf
  Texts <- MCTexts
  UserOf <- MCUserOf
  Price <- MCPrice
  Amounts = {1}
  NaN = NaN
  PageSizes = {1, 2}
  Sections = {"follow", "raid"}
  Languages = {"en"}
  Accounts = {"acc"}
  Edits = 2
  Inputs = 3
  Visits = 1
  Writes = 1
  Cuts = 1
  All = 5
CHECK_DEADLOCK FALSE
INVARIANTS TypeOK QuietCopyIsCurrent PushesFindUsers EveryRowHasAPage
PROPERTY OnlyTheEdit
