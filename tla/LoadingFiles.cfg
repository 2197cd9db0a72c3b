\* Files that change while they are loaded.
CONSTANTS
  Id <- FileIds
  BadIds <- NoIds
  Registry = {"extract"}
  Configs <- SomeConfigs
  Kinds = {"missing", "unreadable", "undecodable", "malformed", "config"}
SPECIFICATION Spec
INVARIANT AcceptsExactly
INVARIANT BuildsWhatIsDeclared
