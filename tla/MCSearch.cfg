SPECIFICATION SearchSpec
CONSTANTS
  TableNames <- MCSearchedTables
  FieldNames = {"f", "t"}
  NewName = "new"
  MaxSearched = 2
  SearchedStatements <- MCForms
INVARIANT RenamedEverywhere
CHECK_DEADLOCK FALSE
