SPECIFICATION Spec
CONSTANTS
  IntOf <- MCIntOf
  Spelling <- MCSpelling
  LowerOf <- MCLowerOf
  SsidRoom = 3
  PassRoom = 3
  IntRoom = 4
  JsmnTokenMax = 7
  Keys <- MCKeys
  Values <- MCValues
  Bare <- MCBare
  TextKeys <- MCTextKeys
  TextValues <- MCTextValues
  TextBare <- MCTextBare
  MaxPairs = 2
INVARIANT JsonCredentialsOnly
CHECK_DEADLOCK FALSE
