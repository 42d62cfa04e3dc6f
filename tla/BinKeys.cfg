\* MaxKeys = 5 writes every slot of the ring at least twice; FirstId exceeds
\* Window as 256 exceeds 128; Modulus is a multiple of Window.
CONSTANTS
  Key = {k1, k2, k3}
  NoKey = NoKey
  Window = 2
  FirstId = 3
  Modulus = 10
  MaxKeys = 5
  MaxItems = 2
  MaxDepth = 2
  MaxWire = 3
  UsesPadding = TRUE

SPECIFICATION Spec
SYMMETRY KeySymmetry

INVARIANTS
  TypeOK
  NamesAgree
  CaughtUp

PROPERTY
  Implements
