SPECIFICATION RegistrySpec
CONSTANTS
  Files = 2
  Text <- MCText
  Manifest <- MCManifest
  BuiltIn <- MCBuiltIn
  Blob <- MCBlob
  Task <- MCTask
  Reloader = {r1}
  Paths = {}
  UnusableKeys = {}
  NotToml = NotToml
  Absent = Absent
  Unreadable = Unreadable
  NoRegistry = NoRegistry
  NotAnObject = NotAnObject
  NoStart = NoStart
  NoCommand = NoCommand
  MaxEdits = 1
CHECK_DEADLOCK FALSE
INVARIANTS NothingIsHidden RegistryIsDirectory LaunchIsDeclared
