SPECIFICATION Spec
CONSTANTS
  Name = {"users", "db_types", "long"}
  RowSize <- Sizes
  Schema <- Schemas
  MaxTables = 2
  Capacity = 12
  MaxPages = 7
  NoTable = NoTable
INVARIANTS CatalogTypeOK TablesResolve ColumnsNeverMixed FlushedTablesKeepTheirPages SelfDescribing CacheAgrees
PROPERTIES DurableNamesStable
CHECK_DEADLOCK FALSE
