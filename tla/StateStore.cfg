CONSTANTS
  older = older
  newer = newer
  Records <- OlderAndNewer
  Nothing = Nothing
SPECIFICATION Spec
INVARIANT TypeOK
PROPERTY Implements
