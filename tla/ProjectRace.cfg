SPECIFICATION Spec
CONSTANTS
  Id <- MCId
  Port <- MCPort
  Name <- MCName
  Targets <- MCTargets
  FirstPort = 8100
  Production = "production"
  Author = {c1, c2}
  Reader = {}
  Path <- MCPath
  Projects <- MCFirst
  Additions <- MCServers
  Blueprints = {}
  Fleets = {}
  Edits = {}
  MaxCommands = 2
  MaxEdits = 0
  MaxKills = 0
  WritesFail = FALSE
INVARIANT NeverHoldsRejected
