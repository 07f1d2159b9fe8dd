SPECIFICATION Spec
CONSTANTS
  Schema <- MCSchema
  Kind = "Widget"
  TypesDirs <- MCTypesDirs
  TypesFile = 0
  Controllers <- MCControllers
  Backend <- MCBackend
  OtherManifests <- MCOther
  Entries <- MCEntries
  Edits <- MCEdits
  Unchanged <- MCUnchanged
  MaxEntries = 2
INVARIANTS
  CleanManifestPasses
  FindingsAreReal
  CreditIsReal
  ParsedIsDeclared
PROPERTIES
  CreditIsKept
