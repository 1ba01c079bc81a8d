SPECIFICATION Spec
CONSTANTS
  root = root
  leaf = leaf
  blob = blob
  Nodes = {root, leaf}
  Hashes = {blob}
  ChildrenOf <- MCChildrenOf
  BlobsOf <- MCBlobsOf
  Refs = {main}
  Clients = {c1, c2}
  NoNode = NoNode
  NoHash = NoHash
  Disciplined = TRUE
  Releases = FALSE
  Deletes = FALSE
  Faults = FALSE
  MaxToken = 3
  MaxObject = 2
  MaxVersion = 2
SYMMETRY Symmetry
INVARIANTS TypeOK RefsComplete OneFenceHolder
