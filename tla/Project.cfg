SPECIFICATION Spec
CONSTANTS
  Id <- MCId
  Port <- MCPort
  Name <- MCName
  Targets <- MCTargets
  FirstPort = 8100
  Production = "production"
  Author = {c1}
  Reader = {c2}
  Path <- MCPath
  Projects <- MCProjects
  Additions <- MCAdditions
  Blueprints <- MCBlueprints
  Fleets <- MCFleets
  Edits <- MCEdits
  MaxCommands = 2
  MaxEdits = 1
  MaxKills = 1
  WritesFail = TRUE
INVARIANTS TypeOK LookupsSucceed HostsAgree ImportsAreExplained
PROPERTY CommandsKeepProject
