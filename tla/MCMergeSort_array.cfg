\* Every array of five elements of up to three values: parts of even and uneven
\* length, three levels of threads.
SPECIFICATION FairSpec
CONSTANTS
  N = 5
  Values = {1, 2, 3}
INVARIANTS TypeOK SortedWhenDone PartsApart
PROPERTIES SortReturns
