SPECIFICATION BitSetSpec
CONSTANTS
  a = a
  b = b
  x = x
  y = y
  BitSets = {a, b}
  Bits = {x, y}
  ByteBits = 2
  MaxSize = 2
  Sources <- MCSources
  Null = Null
SYMMETRY MCSymmetry
PROPERTY ImplementsBitArray
