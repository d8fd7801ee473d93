SPECIFICATION FairSpec
CONSTANTS
  Own = 1
  Fallback = 3
  NoApp = NoApp
  App = {1, 2}
  Mappings <- AllMappings
  Envs <- AllEnvs
  Components <- SomeComponents
  MaxRetries = 5
  MaxFlaps = 2
INVARIANTS TypeOK ServesWholeMapping AnnouncedReachAll ListensGuarded
PROPERTIES GivesUpAfterAllRetries StartEnds
