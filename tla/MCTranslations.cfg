SPECIFICATION TranslationsSpec
CONSTANTS
  None = None
  Failed = Failed
  RegexMeta <- MCRegexMeta
  Chars <- MCChars
  Patterns <- MCPatterns
  MaxName = 3
  MaxPatterns = 2
  Variables <- MCVariables
  MaxVariables = 4
INVARIANTS
  FilterExact
  
CHECK_DEADLOCK FALSE
