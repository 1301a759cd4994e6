\* Every list of six elements, in three chunks, with equal elements in the same
\* and in different chunks.
SPECIFICATION FairSpec
CONSTANTS
  Length = 6
  chunk_size = 2
  Values = {1, 2, 3}
  None = None
INVARIANTS TypeOK EmitsInOrder AllDrained WaitsForItems
PROPERTIES SortEnds
