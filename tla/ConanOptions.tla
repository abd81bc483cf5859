--------------------------- MODULE ConanOptions ---------------------------
(* The option table of BaresipConan (src/conanfile.py): the options it    *)
(* declares, their default values, and what an assignment                *)
(* "self.options.<name> = v" does to them.                                *)

\* The option names of the recipe's "options" table (lines 22-53).
OptNames ==
  {"shared", "fPIC", "static", "with_opus", "with_g722", "with_g711",
   "with_aac", "with_vpx", "with_av1", "with_ffmpeg", "with_alsa",
   "with_pulseaudio", "with_jack", "with_portaudio", "with_pipewire",
   "with_openssl", "with_gstreamer", "with_gtk", "with_sdl",
   "with_mosquitto", "with_png", "with_sndfile"}

\* default_options.
default_options ==
  [shared |-> FALSE, fPIC |-> TRUE, static |-> FALSE,
   with_opus |-> TRUE, with_g722 |-> TRUE, with_g711 |-> TRUE,
   with_aac |-> FALSE,
   with_vpx |-> FALSE, with_av1 |-> TRUE, with_ffmpeg |-> FALSE,
   with_alsa |-> FALSE, with_pulseaudio |-> FALSE, with_jack |-> FALSE,
   with_portaudio |-> FALSE, with_pipewire |-> FALSE,
   with_openssl |-> TRUE, with_gstreamer |-> TRUE, with_gtk |-> FALSE,
   with_sdl |-> TRUE, with_mosquitto |-> TRUE, with_png |-> TRUE,
   with_sndfile |-> TRUE]

\* "self.options.<name> = v" for every name of the partial assignment pv,
\* on the options that still exist.
Assign(o, pv) == [x \in DOMAIN o |-> IF x \in DOMAIN pv THEN pv[x] ELSE o[x]]

=============================================================================
