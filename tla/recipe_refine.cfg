\* Every platform but Android, every profile over seven options: the
\* phased recipe resolves its options as ConanConfig says.
CONSTANTS
  OSes <- MCPromiseOSes
  UserOpts <- MCUserOpts
SPECIFICATION Spec
PROPERTY ConfigRefined
CHECK_DEADLOCK FALSE
