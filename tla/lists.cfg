CONSTANTS
  Heads = {h1, h2}
  Nodes = {n1, n2, n3, n4}
  Wild = Wild
SPECIFICATION Spec
INVARIANT WalksAgree
PROPERTY OthersUntouched
