------------------------------ MODULE MCSearch ------------------------------
EXTENDS SymbolSearch

MCForms ==
  {<<"DEFINE", "TABLE", "T", ";">>, <<"SELECT", "F", "FROM", "T", ";">>,
   <<"DEFINE", "FIELD", "F", "ON", "T", "TYPE", "RECORD", "<", "T", "|", "U", ">", ";">>}
MCSearchedTables == {"t", "u", "^t"}
=============================================================================
