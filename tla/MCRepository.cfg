\* The parts that share no state, one at a time.
INIT Init
NEXT Next
CONSTANTS
  \* The embedded engine: two files, two calls of apply_migrations that may
  \* overlap, two changes of a file.
  Path = {1, 2}
  FileText <- MCTexts
  FirstTexts <- MCFirstTexts
  Broken = Broken
  NoFile = NoFile
  Runs = {r1, r2}
  MaxSaves = 1
  \* The sort of the schema modules.
  MaxModules = 3
  MaxDependsOn = 2
  ModuleConfig <- MCModules
  \* The schema graph and its links.
  GraphFile <- MCFiles
  Definitions <- MCDefinitions
  OpenDocument <- MCFiles
  Scopes <- MCScopes
  Unscoped = Unscoped
  LinkedTable = {1, 2, 3}
  LinkSets <- MCLinkSets
  MaxHops = 3
  NodeCap = 7
  \* Recovery from statements that do not parse.
  Word = "word"
  Bad = "bad"
  MaxTokens = 5
  \* Statements.
  Statements <- MCStatements
  Arguments <- MCArguments
  MaxClauses = 6
  MaxRepeats = 2
  \* Expressions.
  Operands <- MCOperands
  Operators <- MCOperators
  \* Types.
  KindTexts <- MCKindTexts
  KindWords <- MCKindWords
  KindNames <- MCKindNames
  SpecialNames = {"a-b"}
  ObjectKeys <- MCObjectKeys
  MaxKindTokens = 9
  \* Idioms.
  IdiomStarts <- MCIdiomStarts
  PartTexts <- MCPartTexts
  MaxParts = 2
  \* The lexer and the formatter.
  WordPieces <- MCWordPieces
  NumeralPieces <- MCNumeralPieces
  MaxWord = 3
  MaxNumeral = 4
  MaxExponent = 2
  UnitSize <- MCUnitSize
  MaxDuration = 3000
  MaxInt = 10
  MaxTyped = 4
  DocumentPieces <- MCDocumentPieces
  FormatConfigs <- MCFormatConfigs
  \* Values.
  ValueTexts <- MCValueTexts
  ValueFrames <- MCValueFrames
  Hole = "hole"
  MaxFrames = 2
  BuiltinFunctions <- MCBuiltinFunctions
  BuiltinConstants <- MCBuiltinConstants
  \* The search for symbols, and the renaming of a table.
  TableNames <- MCTableNames
  FieldNames = {"t", "TYPE"}
  NewName = "new"
  MaxSearched = 2
  SearchedStatements <- MCSearchedStatements
  \* The files written for editors: two files, two tasks that may overlap, one
  \* change of a file.
  ProjectFile = {1, 2}
  ProjectText <- MCProjectTexts
  Absent = Absent
  Writer = {w1, w2}
  FirstProjects <- MCFirstProjects
  MaxUpdates = 1
SYMMETRY Sym
INVARIANTS
  NothingIsLost
  SortIsRight
  GraphIsComplete
  TraversalsAreComplete
  
  RoundTrip
  PrintedIsReadAgain
  ParsersOfOneTextAgree
  TokensAreKept
  FormattingIsSafe
  SymbolsAreFound
PROPERTIES
  AloneReplayIsExact
  SkipIsSafe
  DerivedIsExact
\* A text that was typed and a result that was computed stay.
CHECK_DEADLOCK FALSE
