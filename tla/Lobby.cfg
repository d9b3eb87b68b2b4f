CONSTANTS
  Clients = {1, 2, 3}
  EXPECTED_PLAYERS = 2
  Names = {"ann", "bob", "cy"}
  Name <- Distinct
  Lower <- ToLower
  Lead <- AsciiNames
  CharacterClass = {"Wizard"}
  DefaultJob = "Wizard"
  InitialHealth = 2
  HealAmount = 1
  HealRange = {1}
  AttackAmount = 1
  AttackRange = {1}
  MaxLines = 2
  MaxChats = 0
  MaxActions = 0
  MaxLosses = 1
  Overtaken = {}
  Seated = {}
SPECIFICATION Spec
INVARIANT NoMissedStart
INVARIANT ReadyAgrees
INVARIANT KickNeedsALoss
CHECK_DEADLOCK FALSE
