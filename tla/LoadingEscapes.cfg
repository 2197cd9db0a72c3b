\* A readable file of which an id is no identifier.
CONSTANTS
  Id <- FileIds
  BadIds <- NoIds
  Registry = {"extract"}
  Configs <- SomeConfigs
  Kinds = {"config"}
SPECIFICATION Spec
INVARIANT FailuresAreCaptured
