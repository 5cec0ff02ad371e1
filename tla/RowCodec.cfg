SPECIFICATION Spec
CONSTANTS
  Schemas <- TableSchemas
  Value <- Values
INVARIANTS RoundTrip TuplesFollowSchema RowsAreRecords
