SPECIFICATION Spec
CONSTANTS
  c1 = c1
  c2 = c2
  x1 = x1
  x2 = x2
  f1 = f1
  Clients = {c1, c2}
  Slaves = {x1, x2}
  Files = {f1}
  None = None
  Pipelining = FALSE
  Refusals = TRUE
  Uids = {1, 2}
INVARIANT TransfersAgree CommandsAgree NoGhostElement
PROPERTY CompleteFilesStay CompleteIsThere FreedUses
SYMMETRY Symmetry
