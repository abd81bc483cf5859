\* Android, profiles over with_sdl: SDL should be disabled on mobile.
CONSTANTS
  OSes <- MCAndroid
  UserOpts <- MCSdlUser
SPECIFICATION Spec
PROPERTY ConfigRefined
CHECK_DEADLOCK FALSE
