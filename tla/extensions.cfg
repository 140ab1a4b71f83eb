SPECIFICATION ExtensionsSpec
CONSTANTS
  Tables <- MCTables
  MaxConnects = 2
  MaxStatements = 4
  Objects = {a, b, c}
  Domains <- MCDomains
  Keys <- MCKeys
  Unknown = Unknown
  None = None
INVARIANTS
  TypeOK
  SelectedRowsAreServed
  FetchedRowsAreNew
  InsertIdIsOfLast
  MemcacheTypeOK
  OwnClient
  DomainsKeepApart
CHECK_DEADLOCK FALSE
