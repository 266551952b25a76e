SPECIFICATION Spec
CONSTANTS
  Unit = 10
  NoBox = NoBox
  GridRows <- MCRows
  Sizes <- MCSizes
INVARIANTS
  CropInImage
  PlacesKeptOnPage
CHECK_DEADLOCK FALSE
