SPECIFICATION Spec
CONSTANTS
  Grammars <- MCGrammars
  Parses <- MCParses
  Expressions <- MCExpressions
  Symtab <- MCSymtab
  CacheSize = 3
  MaxDepth = 80
INVARIANTS TypeOK SameAsBuilt NothingLost ExpressionValue
PROPERTIES CacheSound EmptyOnlyWhenSaid ActionsWhenCommitted ErrorStopIsFinal Ends
