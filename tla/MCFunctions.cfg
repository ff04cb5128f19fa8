CONSTANTS
  WordSize = 8
  Digits <- MCDigits
  RegVal = 4
  Mem <- MCMem
  TextLength = 4
  MaxSentence = 7
  MaxDiffering = 4
  Operators <- MCOperators
  Texts <- MCTexts
  Booleans = {"B"}
  Tristates = {"T"}
  Given <- MCGiven
  Bits = 4
  Operands <- MCOperands
  IntBits = 7
  LongLongBits = 8
  Characters <- MCCharacters
  Overflowed <- MCOverflowed
  Calls <- MCCalls
  Environment <- MCEnvironment
  FUNCTION_MAX_ARGS = 3
  MaxDepth = 1
  Scripts <- MCScripts
  NoChoice = NoChoice
  SymbolTables <- MCTables
  TypeOf <- MCTypes
  InOrder <- MCInOrder
  Configurations <- MCConfigurations
  Titles <- MCTitles
  NoMenu = NoMenu
  NoSymbol = NoSymbol
  SymbolNames = {"A", "B", "C", "fs", "Q"}
  Statements <- MCStatements
  Alphabetical <- MCAlphabetical
  Patterns <- MCPatterns
  JUMP_NB = 2
  MostAbove = 8
  PageLines = 6
SPECIFICATION Spec
INVARIANTS ExpressionsAreC ConditionsKeepTheirValue ArithmeticIsExact KlibIsC MacrosAreExpanded RecursionIsFound TextReadsBack TreeIsTheFile SearchLeadsToEntry
CHECK_DEADLOCK FALSE
