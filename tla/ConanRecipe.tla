---------------------------- MODULE ConanRecipe ----------------------------
(***************************************************************************)
(* The Conan recipe of baresip (src/conanfile.py, class BaresipConan) as   *)
(* Conan 2 runs it for one package: config_options, the user's option     *)
(* values, configure, requirements, build_requirements, generate and      *)
(* package_info, in that order.  The order, the application of the user's *)
(* options after config_options and the "Duplicated requirement" error of *)
(* self.requires are Conan's behaviour; every method body is the recipe's. *)
(* layout, build and package only touch the file system and are left out. *)
(***************************************************************************)
EXTENDS Naturals, Sequences, FiniteSets, ConanOptions

CONSTANTS
  OSes,      \* values of settings.os the run considers
  UserOpts   \* option assignments a profile or "-o" may give (partial functions)

ASSUME RecipeAssumption ==
  /\ OSes \subseteq STRING /\ OSes # {}
  /\ \A u \in UserOpts : /\ DOMAIN u \subseteq OptNames
                        /\ \A x \in DOMAIN u : u[x] \in BOOLEAN
  /\ UserOpts # {}

\* A mutant of the Linux branch of config_options: with_pipewire forgotten.
linux_options_nopipewire ==
  [with_alsa |-> TRUE, with_pulseaudio |-> TRUE, with_gtk |-> TRUE,
   with_portaudio |-> TRUE]

\* The Linux branch of config_options.
linux_options ==
  [with_alsa |-> TRUE, with_pulseaudio |-> TRUE, with_pipewire |-> TRUE,
   with_gtk |-> TRUE, with_portaudio |-> TRUE]

\* The Macos and the Windows branches (the same assignments).
desktop_options ==
  [with_portaudio |-> TRUE, with_alsa |-> FALSE, with_pulseaudio |-> FALSE,
   with_pipewire |-> FALSE, with_gtk |-> FALSE]

\* The iOS branch.
ios_options ==
  [with_alsa |-> FALSE, with_pulseaudio |-> FALSE, with_pipewire |-> FALSE,
   with_portaudio |-> FALSE, with_gtk |-> FALSE, with_gstreamer |-> FALSE,
   with_sdl |-> FALSE]

\* A mutant of the Android branch: with_gstreamer = False forgotten.
android_options_keepgst ==
  [with_alsa |-> FALSE, with_pulseaudio |-> FALSE, with_pipewire |-> FALSE,
   with_portaudio |-> FALSE, with_gtk |-> FALSE]

\* The Android branch.
android_options ==
  [with_alsa |-> FALSE, with_pulseaudio |-> FALSE, with_pipewire |-> FALSE,
   with_portaudio |-> FALSE, with_gtk |-> FALSE, with_gstreamer |-> FALSE]

\* config_options: the branch of settings.os; an OS with no branch
\* (FreeBSD, ...) keeps the defaults.
config_options(o, os) ==
  Assign(o, IF os = "Linux" THEN linux_options
            ELSE IF os \in {"Macos", "Windows"} THEN desktop_options
            ELSE IF os = "iOS" THEN ios_options
            ELSE IF os = "Android" THEN android_options
            ELSE [x \in {} |-> FALSE])

\* A mutant of configure: rm_safe given the wrong option name.
configure_rmshared(o) ==
  IF o["shared"] THEN [x \in DOMAIN o \ {"shared"} |-> o[x]] ELSE o

\* configure: rm_safe("fPIC") for a shared build.
configure(o) ==
  IF o["shared"] THEN [x \in DOMAIN o \ {"fPIC"} |-> o[x]] ELSE o

\* A requirement as self.requires records it.
R(n, v, ov) == [name |-> n, version |-> v, override |-> ov]

\* A mutant of the condition of line 153: the override without with_vpx.
vpx_override_noguard(o) == o["with_ffmpeg"]

\* Line 153: libvpx is pinned to FFmpeg's version when both are enabled.
vpx_override(o) == o["with_ffmpeg"] /\ o["with_vpx"]

\* A mutant of lines 163-168: libvpx/1.15.2 whatever with_ffmpeg says.
vpx_direct_always(o) == o["with_vpx"]

\* Lines 163-168: libvpx/1.15.2 for with_vpx without with_ffmpeg; with
\* FFmpeg the branch passes, relying on the override of line 154.
vpx_direct(o) == o["with_vpx"] /\ ~o["with_ffmpeg"]

\* requirements: its self.requires calls in order, each with the condition
\* under which the method reaches it.  The calls that change nothing
\* (alsa, jack, portaudio and gtk are left to CMake's Find modules) are
\* not listed.
requirements(o, os) ==
  <<[cond |-> TRUE, req |-> R("libre", "4.0.0", FALSE)],
    [cond |-> TRUE, req |-> R("opus", "1.4", FALSE)],
    [cond |-> vpx_override(o), req |-> R("libvpx", "1.14.1", TRUE)],
    [cond |-> o["with_openssl"], req |-> R("openssl", "[>=1.1 <4]", FALSE)],
    [cond |-> vpx_direct(o), req |-> R("libvpx", "1.15.2", FALSE)],
    [cond |-> o["with_av1"], req |-> R("libaom-av1", "3.6.1", FALSE)],
    [cond |-> o["with_ffmpeg"], req |-> R("ffmpeg", "6.1.1", FALSE)],
    [cond |-> o["with_pulseaudio"] /\ os = "Linux", req |-> R("pulseaudio", "17.0", FALSE)],
    [cond |-> o["with_gstreamer"], req |-> R("gstreamer", "1.24.7", FALSE)],
    [cond |-> o["with_sdl"], req |-> R("sdl", "2.30.8", FALSE)],
    [cond |-> o["with_mosquitto"], req |-> R("mosquitto", "2.0.21", FALSE)],
    [cond |-> o["with_png"], req |-> R("libpng", "[>=1.6 <2]", FALSE)],
    [cond |-> o["with_sndfile"], req |-> R("libsndfile", "[>=1.0 <2]", FALSE)]>>

\* Conan's self.requires: a second requirement of a package name already
\* required raises "Duplicated requirement".  DupAt is the set of calls
\* that raise; Made(c, k) the requirements recorded before call k.
DupAt(c) ==
  {k \in DOMAIN c : c[k].cond /\
     \E j \in DOMAIN c : j < k /\ c[j].cond /\ c[j].req.name = c[k].req.name}

Made(c, k) == {c[j].req : j \in {i \in DOMAIN c : i < k /\ c[i].cond}}

\* build_requirements.
build_requirements == {R("cmake", "[>=4.0]", FALSE)}

\* generate: the CMakeToolchain variables (CONAN_VPX_ENABLED is assigned
\* twice, at lines 226 and 239, with the same value).
generate(o) ==
  [BARESIP_USE_CONAN |-> TRUE,
   CONAN_OPUS_ENABLED |-> o["with_opus"], CONAN_VPX_ENABLED |-> o["with_vpx"],
   CONAN_AV1_ENABLED |-> o["with_av1"], CONAN_FFMPEG_ENABLED |-> o["with_ffmpeg"],
   CONAN_ALSA_ENABLED |-> o["with_alsa"],
   CONAN_PULSEAUDIO_ENABLED |-> o["with_pulseaudio"],
   CONAN_JACK_ENABLED |-> o["with_jack"],
   CONAN_PORTAUDIO_ENABLED |-> o["with_portaudio"],
   CONAN_PIPEWIRE_ENABLED |-> o["with_pipewire"],
   CONAN_OPENSSL_ENABLED |-> o["with_openssl"], CONAN_SDL_ENABLED |-> o["with_sdl"],
   CONAN_MOSQUITTO_ENABLED |-> o["with_mosquitto"],
   CONAN_PNG_ENABLED |-> o["with_png"], CONAN_SNDFILE_ENABLED |-> o["with_sndfile"]]

\* package_info: the system libraries and frameworks of settings.os.
package_info(os) ==
  IF os = "Linux" THEN [system_libs |-> {"dl", "m", "pthread", "rt"}, frameworks |-> {}]
  ELSE IF os = "Macos" THEN
    [system_libs |-> {"m", "pthread"},
     frameworks |-> {"CoreFoundation", "CoreAudio", "AudioToolbox", "AudioUnit", "Security"}]
  ELSE IF os = "Windows" THEN
    [system_libs |-> {"ws2_32", "iphlpapi", "ole32", "dxguid", "winmm"}, frameworks |-> {}]
  ELSE [system_libs |-> {}, frameworks |-> {}]
-----------------------------------------------------------------------------
VARIABLES
  phase,      \* the recipe method Conan calls next, "done" or "failed"
  os,         \* self.settings.os
  user,       \* the option values of the profile and the command line
  opts,       \* self.options
  requires,   \* the requirements self.requires recorded
  toolreqs,   \* the requirements self.tool_requires recorded
  cmake,      \* tc.variables as CMakeToolchain wrote them
  cppinfo     \* self.cpp_info's system_libs and frameworks

vars == <<phase, os, user, opts, requires, toolreqs, cmake, cppinfo>>

\* No option yet differs from default_options; nothing is required.
Init ==
  /\ phase = "config_options"
  /\ os \in OSes
  /\ user \in UserOpts
  /\ opts = default_options
  /\ requires = {}
  /\ toolreqs = {}
  /\ cmake = [x \in {} |-> FALSE]   \* no variable yet
  /\ cppinfo = [system_libs |-> {}, frameworks |-> {}]

\* Conan calls config_options before it applies the user's values.
ConfigOptions ==
  /\ phase = "config_options"
  /\ phase' = "user_options"
  /\ opts' = config_options(opts, os)
  /\ UNCHANGED <<os, user, requires, toolreqs, cmake, cppinfo>>

\* Conan applies the profile's and the command line's option values: they
\* override what default_options and config_options set.
UserOptions ==
  /\ phase = "user_options"
  /\ phase' = "configure"
  /\ opts' = Assign(opts, user)
  /\ UNCHANGED <<os, user, requires, toolreqs, cmake, cppinfo>>

Configure ==
  /\ phase = "configure"
  /\ phase' = "requirements"
  /\ opts' = configure(opts)
  /\ UNCHANGED <<os, user, requires, toolreqs, cmake, cppinfo>>

\* requirements runs its calls in order; a duplicated name raises and the
\* package fails with what the earlier calls recorded.
Requirements ==
  /\ phase = "requirements"
  /\ LET c == requirements(opts, os)
     IN  IF DupAt(c) = {}
         THEN /\ requires' = Made(c, Len(c) + 1)
              /\ phase' = "build_requirements"
         ELSE LET k == CHOOSE k \in DupAt(c) : \A j \in DupAt(c) : k <= j
              IN  /\ requires' = Made(c, k)
                  /\ phase' = "failed"
  /\ UNCHANGED <<os, user, opts, toolreqs, cmake, cppinfo>>

BuildRequirements ==
  /\ phase = "build_requirements"
  /\ phase' = "generate"
  /\ toolreqs' = build_requirements
  /\ UNCHANGED <<os, user, opts, requires, cmake, cppinfo>>

Generate ==
  /\ phase = "generate"
  /\ phase' = "package_info"
  /\ cmake' = generate(opts)
  /\ UNCHANGED <<os, user, opts, requires, toolreqs, cppinfo>>

PackageInfo ==
  /\ phase = "package_info"
  /\ phase' = "done"
  /\ cppinfo' = package_info(os)
  /\ UNCHANGED <<os, user, opts, requires, toolreqs, cmake>>

Next ==
  \/ ConfigOptions \/ UserOptions \/ Configure \/ Requirements
  \/ BuildRequirements \/ Generate \/ PackageInfo

Spec == Init /\ [][Next]_vars

-----------------------------------------------------------------------------
(* Properties.                                                             *)

Phases == {"config_options", "user_options", "configure", "requirements",
           "build_requirements", "generate", "package_info", "done", "failed"}

\* Phases in which requirements has returned, and generate has.
Required  == {"build_requirements", "generate", "package_info", "done"}
Generated == {"package_info", "done"}

\* The Conan Center package of each feature option the recipe can require,
\* and the CMake variable generate passes it to.
CenterPkg ==
  [with_opus |-> "opus", with_vpx |-> "libvpx", with_av1 |-> "libaom-av1",
   with_ffmpeg |-> "ffmpeg", with_pulseaudio |-> "pulseaudio",
   with_openssl |-> "openssl", with_sdl |-> "sdl",
   with_mosquitto |-> "mosquitto", with_png |-> "libpng",
   with_sndfile |-> "libsndfile"]

Switch ==
  [with_opus |-> "CONAN_OPUS_ENABLED", with_vpx |-> "CONAN_VPX_ENABLED",
   with_av1 |-> "CONAN_AV1_ENABLED", with_ffmpeg |-> "CONAN_FFMPEG_ENABLED",
   with_pulseaudio |-> "CONAN_PULSEAUDIO_ENABLED",
   with_alsa |-> "CONAN_ALSA_ENABLED", with_jack |-> "CONAN_JACK_ENABLED",
   with_portaudio |-> "CONAN_PORTAUDIO_ENABLED",
   with_pipewire |-> "CONAN_PIPEWIRE_ENABLED",
   with_openssl |-> "CONAN_OPENSSL_ENABLED", with_sdl |-> "CONAN_SDL_ENABLED",
   with_mosquitto |-> "CONAN_MOSQUITTO_ENABLED", with_png |-> "CONAN_PNG_ENABLED",
   with_sndfile |-> "CONAN_SNDFILE_ENABLED"]

Names(rs) == {r.name : r \in rs}

\* The variables generate writes; no variable before generate runs.
CMakeVars == DOMAIN generate(default_options)

NoCMake == [x \in {} |-> FALSE]

\* The package names and version ranges the recipe passes to self.requires
\* and self.tool_requires, and the system libraries and frameworks of
\* package_info.
PkgNames ==
  {"libre", "opus", "libvpx", "openssl", "libaom-av1", "ffmpeg",
   "pulseaudio", "gstreamer", "sdl", "mosquitto", "libpng", "libsndfile",
   "cmake"}
Versions ==
  {"4.0.0", "1.4", "1.14.1", "[>=1.1 <4]", "1.15.2", "3.6.1", "6.1.1",
   "17.0", "1.24.7", "2.30.8", "2.0.21", "[>=1.6 <2]", "[>=1.0 <2]",
   "[>=4.0]"}
SysLibs == {"dl", "m", "pthread", "rt", "ws2_32", "iphlpapi", "ole32",
            "dxguid", "winmm"}
Frameworks == {"CoreFoundation", "CoreAudio", "AudioToolbox", "AudioUnit",
               "Security"}

Req == [name: PkgNames, version: Versions, override: BOOLEAN]

TypeOK ==
  /\ phase \in Phases
  /\ os \in OSes
  /\ user \in UserOpts
  /\ opts \in [OptNames -> BOOLEAN] \cup [OptNames \ {"fPIC"} -> BOOLEAN]
  /\ requires \subseteq Req
  /\ toolreqs \subseteq Req
  /\ cmake \in {NoCMake} \cup [CMakeVars -> BOOLEAN]
  /\ cppinfo \in [system_libs: SUBSET SysLibs, frameworks: SUBSET Frameworks]

\* requirements never asks Conan for the same package twice, whatever the
\* platform and the options: the libvpx override of line 154 and the
\* libvpx requirement of line 168 exclude each other.
NoDuplicatedRequirement == phase # "failed"

\* The Linux audio systems (ALSA, PulseAudio, PipeWire) reach CMake enabled
\* exactly on Linux, unless the user set the option: config_options runs
\* before the user's values, and an OS without a branch keeps the defaults.
LinuxAudioOnLinux ==
  phase \in Generated =>
    \A f \in {"with_alsa", "with_pulseaudio", "with_pipewire"} :
      cmake[Switch[f]] = IF f \in DOMAIN user THEN user[f] ELSE os = "Linux"

\* On iOS and Android the GStreamer package, and on iOS the SDL package, is
\* not required unless the user enabled it.
MobileWithoutGStreamer ==
  phase \in Required =>
    /\ os \in {"iOS", "Android"} /\ "with_gstreamer" \notin DOMAIN user
         => "gstreamer" \notin Names(requires)
    /\ os = "iOS" /\ "with_sdl" \notin DOMAIN user
         => "sdl" \notin Names(requires)

\* libvpx is required exactly when with_vpx is set, pinned by the
\* override to FFmpeg's 1.14.1 when FFmpeg is required and at 1.15.2
\* otherwise.
VpxPinnedForFfmpeg ==
  phase \in Required =>
    /\ "libvpx" \in Names(requires) <=> opts["with_vpx"]
    /\ \A r \in requires :
         r.name = "libvpx" =>
           IF "ffmpeg" \in Names(requires)
           THEN r.version = "1.14.1" /\ r.override
           ELSE r.version = "1.15.2" /\ ~r.override

\* A feature package the recipe requires is one CMake is told is enabled
\* (with_opus = False should keep opus out of the build).
RequiredMeansEnabled ==
  phase \in Generated =>
    \A f \in DOMAIN CenterPkg : CenterPkg[f] \in Names(requires) => cmake[Switch[f]]

\* A feature CMake is told is enabled comes with a Conan requirement of its
\* package (an override=True reference only pins a version).
EnabledMeansRequired ==
  phase \in Generated =>
    \A f \in DOMAIN CenterPkg :
      cmake[Switch[f]] => \E r \in requires : r.name = CenterPkg[f] /\ ~r.override

\* The codecs the default_options comments call "Temporarily disabled"
\* (opus at line 61, libvpx at line 67) reach CMake disabled unless the
\* profile enables them.
TemporarilyDisabled ==
  phase \in Generated =>
    \A f \in {"with_opus", "with_vpx"} \ DOMAIN user : ~cmake[Switch[f]]

\* The option handling implements ConanConfig: before configure returns
\* the options are not yet the package's; from then on they are exactly
\* the profile value, else the platform value, else the default.
Config == INSTANCE ConanConfig WITH
  config <- IF phase \in {"config_options", "user_options", "configure"}
            THEN [o \in {} |-> FALSE] ELSE opts

ConfigRefined == Config!Spec
=============================================================================
