SPECIFICATION FairSpec
CONSTANTS
  Users = {u1, u2}
  Fds = {d1, d2}
  Monitors = {m1, m2, m3}
  None = None
  Sizes = {1, 2}
INVARIANT MonitorsAgree
PROPERTY CallsAreCurrent EveryoneIsPolled
