SPECIFICATION Spec
CONSTANTS
  name = name
  count = count
  few = few
  many = many
  none = none
  Null = Null
  NoQuery = NoQuery
  Rows <- ThreeRows
  Columns <- TwoColumns
  Texts <- ThreeTexts
  Cell <- SomeCells
  Place <- Places
  Queries <- SomeQueries
  Contained <- Containing
  Renders <- AnyOrder
  MaxTimers = 3
INVARIANTS
  OneFilterRow
  ShownMatch
  ShownSorted
PROPERTIES
  InteractiveAgain
