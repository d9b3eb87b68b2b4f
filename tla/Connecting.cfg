CONSTANTS
  Clients = {1, 2}
  EXPECTED_PLAYERS = 2
  Names = {"ann", "bob", "cy"}
  Name <- Distinct
  Lower <- ToLower
  Lead <- AsciiNames
  CharacterClass = {"Wizard"}
  DefaultJob = "Wizard"
  InitialHealth = 2
  HealAmount = 1
  HealRange = {1}
  AttackAmount = 1
  AttackRange = {1}
  MaxLines = 2
  MaxChats = 0
  MaxActions = 0
  MaxLosses = 0
  Overtaken = {1, 2}
  Seated = {}
SPECIFICATION Spec
INVARIANT AcceptedMeansConnected
CHECK_DEADLOCK FALSE
