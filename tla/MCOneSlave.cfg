SPECIFICATION Spec
CONSTANTS
  s1 = s1
  s2 = s2
  c1 = c1
  c2 = c2
  f1 = f1
  f2 = f2
  Slaves = {s1}
  Cnx = {c1, c2}
  Files = {f1, f2}
  NoSlave = NoSlave
  NoCnx = NoCnx
  SfvFiles = {f2}
  Unremovable = {f2}
  UseEncryption = TRUE
  UseCertificate = TRUE
  CrLf = TRUE
  Uids = {1, 2}
  Environment = {"stats", "wipe", "lost", "slave_gone", "slow", "refuse", "crash", "dump"}
INVARIANT InOrder ListingExact
