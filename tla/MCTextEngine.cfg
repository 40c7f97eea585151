SPECIFICATION Spec
CHECK_DEADLOCK FALSE
CONSTANTS
  Words <- MCWords
  Lower <- MCLower
  Stem <- MCStem
  StopWords = {"was"}
  LongWords = {"xxl", "xxls"}
  StopLanguages = {"en"}
  WordsFrom <- MCWordsFrom
  Strings <- MCStrings
  Accepts <- MCAccepts
  JsonObjects <- MCJsonObjects
  Numbers <- MCNumbers
  Truths <- MCTruths
  Unquoted <- MCUnquoted
  Bits = 4
  TextNames = {"id", "content"}
  OtherNames = {"n"}
  TextChoices <- MCTextChoices
  NoTokenizer = "none"
  OtherTypes <- MCOtherTypes
  OtherOptions = {"INDEXED_STORED"}
  Terms <- MCTerms
  Docs <- MCDocs
  Analyzers <- MCAnalyzers
  Languages = {"en", "ar"}
  MaxFields = 2
  MaxDocs = 2
INVARIANTS
  DocumentsFitIndex
  CopiesAgree
  ValuesAreFound
  DeletionIsAQuery
  SearchFindsContent
  AnalyzersKeepOrder
