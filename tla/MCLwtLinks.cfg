SPECIFICATION LinksSpec
CONSTANTS
  ListHeads = {h1, h2}
  Nodes = {x1, x2, x3, x4}
INVARIANT WalksInverse
PROPERTY LinksImplementLists
