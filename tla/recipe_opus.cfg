\* Every platform, profiles that set with_opus.
CONSTANTS
  OSes <- MCOSes
  UserOpts <- MCOpusUser
SPECIFICATION Spec
INVARIANT RequiredMeansEnabled
CHECK_DEADLOCK FALSE
