--------------------------- MODULE ConanConfig ---------------------------
(***************************************************************************)
(* What the option handling of BaresipConan promises, stated without the  *)
(* order of Conan's calls: for a platform and a profile, the options the  *)
(* recipe's requirements and generate see are decided once, by the       *)
(* precedence profile value > platform value > default_options, and a     *)
(* shared build has no fPIC option.                                       *)
(***************************************************************************)
EXTENDS ConanOptions

CONSTANTS OSes, UserOpts

VARIABLES os, user, config

\* The platform's value of option o, as the comments of default_options
\* promise it: ALSA, PulseAudio, PipeWire and GTK "enabled on Linux",
\* PortAudio "enabled per platform" on the three desktop systems, and
\* GStreamer and SDL "disabled on mobile" (iOS and Android); every other
\* option keeps its default.
PlatformValue(o, s) ==
  IF o \in {"with_alsa", "with_pulseaudio", "with_pipewire", "with_gtk"}
    THEN s = "Linux"
  ELSE IF o = "with_portaudio" THEN s \in {"Linux", "Macos", "Windows"}
  ELSE IF o \in {"with_gstreamer", "with_sdl"} THEN s \notin {"iOS", "Android"}
  ELSE default_options[o]

\* The value of o: the profile's if it sets o, else the platform's.
Value(o, s, u) == IF o \in DOMAIN u THEN u[o] ELSE PlatformValue(o, s)

\* The options of the package: fPIC exists only for a static library.
Resolved(s, u) ==
  [o \in IF Value("shared", s, u) THEN OptNames \ {"fPIC"} ELSE OptNames
     |-> Value(o, s, u)]

\* No option decided yet (the empty function, comparable with Resolved).
Unresolved == [o \in {} |-> FALSE]

Init == os \in OSes /\ user \in UserOpts /\ config = Unresolved

Resolve ==
  /\ config = Unresolved
  /\ config' = Resolved(os, user)
  /\ UNCHANGED <<os, user>>

vars == <<os, user, config>>

Spec == Init /\ [][Resolve]_vars
=============================================================================
