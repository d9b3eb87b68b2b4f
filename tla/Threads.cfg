CONSTANTS
  Clients = {1, 2}
  EXPECTED_PLAYERS = 2
  Names = {"Ann", "ann", "bob"}
  Name <- Capital
  Lower <- ToLower
  Lead <- AsciiNames
  CharacterClass = {"Wizard"}
  DefaultJob = "Wizard"
  InitialHealth = 1
  HealAmount = 1
  HealRange = {1}
  AttackAmount = 1
  AttackRange = {1, 2}
  MaxLines = 2
  MaxChats = 1
  MaxActions = 1
  MaxLosses = 0
  Overtaken = {1, 2}
  Seated = {}
SPECIFICATION Spec
INVARIANT TypeOK
INVARIANT TurnMatchesServer
INVARIANT RequestsFitPhase
PROPERTY PlaysTheTable
CHECK_DEADLOCK FALSE
