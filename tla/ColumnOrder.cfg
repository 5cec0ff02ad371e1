SPECIFICATION CatalogSpec
CONSTANTS
  Name = {"users", "db_types", "long"}
  RowSize <- Sizes
  Schema <- Schemas
  MaxTables = 2
  Capacity = 12
  MaxPages = 7
  NoTable = NoTable
INVARIANT ColumnsInOrder
CHECK_DEADLOCK FALSE
