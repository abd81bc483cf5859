--------------------------- MODULE MCConanRecipe ---------------------------
(* Model values for ConanRecipe: every settings.os with a branch in        *)
(* config_options or package_info and one without (FreeBSD), and every    *)
(* assignment a profile may give to a few options.                        *)
EXTENDS ConanRecipe

MCOSes == {"Linux", "Macos", "Windows", "iOS", "Android", "FreeBSD"}

\* The platforms whose config_options branch keeps the promise of the
\* default_options comments (all but Android, see recipe_sdl).
MCPromiseOSes == MCOSes \ {"Android"}

\* The one platform whose branch breaks it.
MCAndroid == {"Android"}

\* Every partial assignment of the options the properties are about.
MCUserOpts ==
  UNION {[D -> BOOLEAN] : D \in SUBSET {"shared", "with_vpx", "with_ffmpeg",
                                         "with_pulseaudio", "with_pipewire",
                                         "with_gstreamer", "with_sdl"}}

\* Only the feature switches of one question.
MCOpusUser == UNION {[D -> BOOLEAN] : D \in SUBSET {"with_opus"}}

\* Only the SDL switch.
MCSdlUser == UNION {[D -> BOOLEAN] : D \in SUBSET {"with_sdl"}}

MCVpxUser == UNION {[D -> BOOLEAN] : D \in SUBSET {"with_vpx", "with_ffmpeg"}}
=============================================================================
