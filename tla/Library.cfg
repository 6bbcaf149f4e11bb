SPECIFICATION Spec
CONSTANTS
  Universe = {1, 2, 3, 4, 5}
  Dates <- MCDates
  RangeDates <- MCRangeDates
  Times <- MCTimes
  Widest = {8, 25, 70}
  Hours = {0, 50, 52, 53, 110}
  MostPhotos = 6
  MostRegions = 3
INVARIANTS TreeIsSet DatesMatch ListingsAreRight SearchFinds RowsAreShortest PhotosArePlaced
CHECK_DEADLOCK FALSE
