SPECIFICATION FairSpec
CONSTANTS
  Controls = {"never", "always", "both", "implicit"}
  DataKinds = {"never", "always"}
  Network = {"wait", "again", "fatal"}
  Pipelining = FALSE
  MaxReplies = 2
INVARIANT ProtectionAgrees RepliesDoNotCross
PROPERTY ResumedUnchanged PromisesEnd
