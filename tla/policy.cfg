SPECIFICATION Spec
CONSTANTS
  NoText = NoText
  MaxTokens = 6
  Main = Main
  D1 = D1
  D2 = D2
  DirFiles = {D1, D2}
  Place <- Sorted
  Texts <- MCTexts
  Malformed = Malformed
  Absent = Absent
  NotCached = NotCached
  NoEnforcer = NoEnforcer
  Idle = Idle
  Names = {"a", "b"}
  MaxTime = 1
  MaxEdits = 3
  NoOne = NoOne
  Users = {"u1"}
  RoleLists <- MCRoleLists
  Catalogs <- MCCatalogs
  Grants <- MCGrants
  PlainRules <- MCPlainRules
  Targets <- MCTargets
  MaxContexts = 3
INVARIANTS ContextsTell ParsesTheLanguage StaleIsReread DirectoryOverMain
CHECK_DEADLOCK FALSE
