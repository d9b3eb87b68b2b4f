CONSTANTS
  Clients = {1, 2, 3}
  EXPECTED_PLAYERS = 3
  Names = {"ann", "bob", "cy"}
  Name <- Distinct
  Lower <- ToLower
  Lead <- AsciiNames
  CharacterClass = {"Wizard"}
  DefaultJob = "Wizard"
  InitialHealth = 2
  HealAmount = 1
  HealRange = {1}
  AttackAmount = 1
  AttackRange = {1, 2}
  MaxLines = 3
  MaxChats = 0
  MaxActions = 3
  MaxLosses = 1
  Overtaken = {}
  Seated = {1, 2, 3}
SPECIFICATION SeatedSpec
INVARIANT GameOverFinal
INVARIANT OnTurnUpToDate
INVARIANT ViewAgrees
INVARIANT DeathMatchesHealth
PROPERTY MovesOfTheTable
CHECK_DEADLOCK FALSE
