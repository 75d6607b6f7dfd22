CONSTANTS
  None = None
  p1 = p1  p2 = p2
  Pull <- TwoPulls
  Rev <- Revs
  Gguf <- Ggufs
  Part <- Parts
  Quant <- Quants
  DefaultQuant = "Q4_K_M"
  FileOf <- Downloads
  Named <- Containing
SPECIFICATION Spec
SYMMETRY Interchangeable
CHECK_DEADLOCK FALSE
INVARIANT FetchedIsPulled
