SPECIFICATION Spec
CONSTANTS
  ValueChars = {"a", "b", "1", "1.5", "1.0000001", "true"}
  Others = {"#"}
  Odd = {"odd"}
  Keys <- MCKeys
  Values <- MCValues
  Texts <- MCTexts
  Reals <- MCReals
  Rounded <- MCRounded
  Domain = Domain
  Missing = Missing
  MaxExports = 1
INVARIANTS SettingsSurviveExport ParserReturns
PROPERTIES InsertIsAtomic
CHECK_DEADLOCK FALSE
