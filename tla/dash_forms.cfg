SPECIFICATION Spec
CONSTANTS
  Pages = {"home","setup","alerts","loyalty","server","twitch","ui"}
  Users = {"u", "v"}
  Redeems = {1, 2}
  Saved <- MCForms
  absent = absent
  null = null
  Limits <- MCLimits
  Typed <- MCTyped
  SlugOf <- MCSlugOf
  Texts <- MCTexts
  UserOf <- MCUserOf
  Price <- MCPrice
  Amounts = {1}
  NaN = NaN
  PageSizes = {1, 2}
  Sections = {"follow"}
  Languages = {"en"}
  Accounts = {"acc"}
  Edits = 3
  Inputs = 1
  Visits = 2
  Writes = 1
  Cuts = 1
  All = 3
CHECK_DEADLOCK FALSE
INVARIANTS QuietCopyIsCurrent FormsAreEnabled StoredStepExists
PROPERTY AgreesOnSetup
