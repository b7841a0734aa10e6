\* Two writers and a reader, any request may fail.
CONSTANTS
  Ids = {t1, t2}
  Writers = {w1, w2}
  Readers = {r1}
  StoreFails = TRUE
SPECIFICATION Spec
SYMMETRY Symmetry
INVARIANT TypeOK
INVARIANT IndexSound
INVARIANT ConfirmedIndexed
INVARIANT ListComplete
PROPERTY IndexNeverForgets
