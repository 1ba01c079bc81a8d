SPECIFICATION Spec
CONSTANTS
  root = root
  leaf = leaf
  blob = blob
  Nodes = {leaf}
  Hashes = {blob}
  ChildrenOf <- MCChildrenOf
  BlobsOf <- MCBlobsOf
  Refs = {main}
  Clients = {c1, c2}
  NoNode = NoNode
  NoHash = NoHash
  Disciplined = FALSE
  Releases = TRUE
  Deletes = TRUE
  Faults = TRUE
  MaxToken = 1
  MaxObject = 2
  MaxVersion = 2
SYMMETRY Symmetry
INVARIANT ManifestsHaveBodies
PROPERTY RefWritesAreCurrent
