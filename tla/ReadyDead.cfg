CONSTANTS
  None = None
  b1 = b1  b2 = b2  b3 = b3
  p1 = p1  p2 = p2  p3 = p3
  llama = llama  web = web
  Instance <- Three
  Port <- TwoPorts
  Stranger <- Others
  Friendly <- Llamas
SYMMETRY Interchangeable
SPECIFICATION Spec
INVARIANT ReadyIsResident
