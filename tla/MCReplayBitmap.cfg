SPECIFICATION Spec
CONSTANTS
  WORDS = 3
  BITS = 2
  Numbers <- MCNumbers
PROPERTY ImplementsFlatWindow
