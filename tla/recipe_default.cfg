\* Every platform, profiles over with_opus: the codecs commented as
\* temporarily disabled stay disabled by default.
CONSTANTS
  OSes <- MCOSes
  UserOpts <- MCOpusUser
SPECIFICATION Spec
INVARIANT TemporarilyDisabled
CHECK_DEADLOCK FALSE
