\* Each text function on each input, one call at a time.
SPECIFICATION Spec
CONSTANTS
  Globs <- MCGlobs
  Strings <- MCStrings
  SplitTexts <- MCSplitTexts
  Separators <- MCSeparators
  ArgLists <- MCArgLists
  Templates <- MCTemplates
  TemplateValue <- MCTemplateValue
  Directories <- MCDirectories
  Paths <- MCPaths
  ShortMax = 3
  Base = 2
  LLONG_MAX = 524287
  ULLONG_MAX = 1048575
  BufSize = 24
  Unwritten = 256
  Integers64 <- MCIntegers
  Scales <- MCScales
  Padding = {0, 3, 4, 23}
  Lengths <- MCLengths
  Fractions = {0, 1, 2, 3, 4, 8, 17, 18}
  Digits <- MCDigits
  Exponents <- MCExponents
INVARIANTS
  MatchRight
  PiecesRight
  ArgsRight
  NumbersRight
  LayoutRight
