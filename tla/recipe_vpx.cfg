\* Linux, profiles that set with_vpx and with_ffmpeg.
CONSTANTS
  OSes = {"Linux"}
  UserOpts <- MCVpxUser
SPECIFICATION Spec
INVARIANT EnabledMeansRequired
CHECK_DEADLOCK FALSE
