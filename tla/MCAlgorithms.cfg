\* Five bars of four shapes, sentences of five tokens.
CONSTANTS
  MaxBars = 5
  MaxTokens = 5
SPECIFICATION Spec
INVARIANT ParserMatchesGrammar
PROPERTIES
  IndicatorsAreFair
  OneMeaning
  
CHECK_DEADLOCK FALSE
