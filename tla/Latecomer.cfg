CONSTANTS
  Clients = {1, 2, 3}
  EXPECTED_PLAYERS = 2
  Names = {"ann", "bob", "cy"}
  Name <- Namesakes
  Lower <- ToLower
  Lead <- AsciiNames
  CharacterClass = {"Wizard"}
  DefaultJob = "Wizard"
  InitialHealth = 1
  HealAmount = 1
  HealRange = {1}
  AttackAmount = 1
  AttackRange = {1}
  MaxLines = 3
  MaxChats = 0
  MaxActions = 2
  MaxLosses = 1
  Overtaken = {}
  Seated = {1, 2}
SPECIFICATION SeatedSpec
INVARIANT HolderAlive
INVARIANT TurnTokensBounded
INVARIANT TurnRequestsHandled
PROPERTY NamesakeUntouched
CHECK_DEADLOCK FALSE
