SPECIFICATION FairSpec
CONSTANTS
  s1 = s1
  s2 = s2
  c1 = c1
  c2 = c2
  f1 = f1
  f2 = f2
  Slaves = {s1}
  Cnx = {c1}
  Files = {f1, f2}
  NoSlave = NoSlave
  NoCnx = NoCnx
  SfvFiles = {f1}
  Unremovable = {}
  UseEncryption = FALSE
  UseCertificate = FALSE
  CrLf = FALSE
  Uids = {1, 2, 3}
  Environment = {"wipe","stats","lost","slow","refuse","slave_fails","slave_gone","send_fails"}
PROPERTY HandshakeEnds DeleteArrives
