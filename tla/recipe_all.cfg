\* Every platform, every profile over seven options.
CONSTANTS
  OSes <- MCOSes
  UserOpts <- MCUserOpts
SPECIFICATION Spec
INVARIANT TypeOK NoDuplicatedRequirement LinuxAudioOnLinux MobileWithoutGStreamer VpxPinnedForFfmpeg
CHECK_DEADLOCK FALSE
