SPECIFICATION Spec
CONSTANTS
  s1 = s1
  s2 = s2
  c1 = c1
  c2 = c2
  f1 = f1
  f2 = f2
  Slaves = {s1}
  Cnx = {c1}
  Files = {f1, f2}
  NoSlave = NoSlave
  NoCnx = NoCnx
  SfvFiles = {}
  Unremovable = {}
  UseEncryption = FALSE
  UseCertificate = FALSE
  CrLf = TRUE
  Uids = {1, 2, 3}
  Environment = {"wipe", "lost"}
PROPERTY DeletelogKeptUntilDeleted
