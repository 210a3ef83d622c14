SPECIFICATION Spec
CONSTANTS
  s1 = s1
  s2 = s2
  c1 = c1
  c2 = c2
  f1 = f1
  f2 = f2
  Slaves = {s1, s2}
  Cnx = {c1, c2}
  Files = {f1}
  NoSlave = NoSlave
  NoCnx = NoCnx
  SfvFiles = {}
  Unremovable = {}
  UseEncryption = FALSE
  UseCertificate = FALSE
  CrLf = TRUE
  Uids = {1,2}
  Environment = {"wipe", "wipe_from", "lost", "slave_gone", "slave_new", "slave_delete", "crash", "send_fails", "slave_fails"}
INVARIANT IndexOK LinkOK OnlineXorOffline AckMeansGone
PROPERTY GhostsOnlyFromDeletedSlaves ImplementsAvailability
