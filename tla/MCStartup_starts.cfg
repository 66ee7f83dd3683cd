SPECIFICATION FairSpec
CONSTANTS
  UserSettings <- SomeSettings
  Builds = {"linux", "windows"}
  Faults = {"open", "full", "logdir", "register", "database", "table", "commit", "listen", "accept"}
  MaxTroubles = 4
INVARIANTS TypeOK ServesReady SilentOnlyIfTooMany
PROPERTIES UsableKept Heals StartDecides
