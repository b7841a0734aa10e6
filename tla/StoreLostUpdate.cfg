\* Two writers, no failing request.
CONSTANTS
  Ids = {t1, t2}
  Writers = {w1, w2}
  Readers = {}
  StoreFails = FALSE
SPECIFICATION Spec
SYMMETRY Symmetry
INVARIANT EverySavedListed
