------------------------ MODULE ConanRecipeProofs ------------------------
(***************************************************************************)
(* Proofs about the Conan recipe: config_options, the profile and         *)
(* configure resolve the options as ConanConfig says on every platform    *)
(* but Android, what requirements, generate and package_info make of      *)
(* them, and that requirements never requires a package twice.            *)
(***************************************************************************)
EXTENDS ConanRecipe, TLAPS

\* The platform assignment config_options makes for settings.os = s.
PlatformOpts(s) ==
  IF s = "Linux" THEN linux_options
  ELSE IF s \in {"Macos", "Windows"} THEN desktop_options
  ELSE IF s = "iOS" THEN ios_options
  ELSE IF s = "Android" THEN android_options
  ELSE [x \in {} |-> FALSE]

\* The platform values config_options really sets: those ConanConfig
\* documents, except that the Android branch leaves with_sdl at its
\* default TRUE.
CodePlatformValue(x, s) ==
  IF x = "with_sdl" /\ s = "Android" THEN TRUE ELSE Config!PlatformValue(x, s)

\* The value of x after the profile: the profile's, else the platform's.
CodeValue(x, s, u) == IF x \in DOMAIN u THEN u[x] ELSE CodePlatformValue(x, s)

\* The options configure leaves: no fPIC in a shared build.
CodeResolved(s, u) ==
  [x \in IF CodeValue("shared", s, u) THEN OptNames \ {"fPIC"} ELSE OptNames
     |-> CodeValue(x, s, u)]

\* After config_options every option has its platform value.
LEMMA PlatformValues ==
  ASSUME NEW s \in STRING
  PROVE  /\ DOMAIN config_options(default_options, s) = OptNames
         /\ \A x \in OptNames :
              config_options(default_options, s)[x] = CodePlatformValue(x, s)
<1> DEFINE c == Assign(default_options, PlatformOpts(s))
<1>1. config_options(default_options, s) = c
  BY DEF config_options, PlatformOpts
<1>2. DOMAIN c = OptNames
  BY DEF Assign, default_options, OptNames
<1>3. \A x \in OptNames : c[x] = CodePlatformValue(x, s)
  <2> SUFFICES ASSUME NEW x \in OptNames
               PROVE  c[x] = CodePlatformValue(x, s)
    OBVIOUS
  <2>1. c[x] <=> CodePlatformValue(x, s)
    <3>1. CASE s = "Linux"
      BY <3>1 DEF PlatformOpts, linux_options, Assign, default_options, CodePlatformValue, Config!PlatformValue, Config!default_options, OptNames
    <3>2. CASE s \in {"Macos", "Windows"}
      BY <3>2 DEF PlatformOpts, desktop_options, Assign, default_options, CodePlatformValue, Config!PlatformValue, Config!default_options, OptNames
    <3>3. CASE s = "iOS"
      BY <3>3 DEF PlatformOpts, ios_options, Assign, default_options, CodePlatformValue, Config!PlatformValue, Config!default_options, OptNames
    <3>4. CASE s = "Android"
      BY <3>4 DEF PlatformOpts, android_options, Assign, default_options, CodePlatformValue, Config!PlatformValue, Config!default_options, OptNames
    <3>5. CASE s \notin {"Linux", "Macos", "Windows", "iOS", "Android"}
      BY <3>5 DEF PlatformOpts, Assign, default_options, CodePlatformValue, Config!PlatformValue, Config!default_options, OptNames
    <3>6. QED
      BY <3>1, <3>2, <3>3, <3>4, <3>5
  <2>2. c[x] = TRUE \/ c[x] = FALSE
    BY DEF Assign, PlatformOpts, linux_options, desktop_options, ios_options,
           android_options, default_options, OptNames
  <2>3. CodePlatformValue(x, s) = TRUE \/ CodePlatformValue(x, s) = FALSE
    BY DEF CodePlatformValue, Config!PlatformValue, Config!default_options, OptNames
  <2>4. CASE c[x] = TRUE
    BY <2>1, <2>3, <2>4
  <2>5. CASE c[x] = FALSE
    BY <2>1, <2>3, <2>5
  <2>6. QED
    BY <2>2, <2>4, <2>5
<1>4. QED
  BY <1>1, <1>2, <1>3

\* ConanConfig's option names are the recipe's.
LEMMA SameOptNames == Config!OptNames = OptNames
  BY DEF Config!OptNames, OptNames

\* A profile assignment: values for some of the recipe's options.
UserAssignment(u) ==
  /\ DOMAIN u \subseteq OptNames
  /\ \A x \in DOMAIN u : u[x] \in BOOLEAN

\* config_options, then the profile, then configure give exactly
\* CodeResolved: profile > the code's platform value > default, and no
\* fPIC in a shared build.
LEMMA ResolveCorrect ==
  ASSUME NEW s \in STRING, NEW u, UserAssignment(u)
  PROVE  configure(Assign(config_options(default_options, s), u))
           = CodeResolved(s, u)
<1> DEFINE p == config_options(default_options, s)
           a == Assign(p, u)
<1>1. /\ DOMAIN p = OptNames
      /\ \A x \in OptNames : p[x] = CodePlatformValue(x, s)
  BY PlatformValues
<1>2. DOMAIN a = OptNames
  BY <1>1 DEF Assign
<1>3. \A x \in OptNames : a[x] = CodeValue(x, s, u)
  BY <1>1 DEF Assign, CodeValue, UserAssignment
<1>4. CASE a["shared"]
  <2>1. configure(a) = [x \in OptNames \ {"fPIC"} |-> a[x]]
    BY <1>2, <1>4 DEF configure
  <2>2. CodeValue("shared", s, u)
    BY <1>3, <1>4 DEF OptNames
  <2>3. CodeResolved(s, u) = [x \in OptNames \ {"fPIC"} |-> CodeValue(x, s, u)]
    BY <2>2, SameOptNames, Zenon DEF CodeResolved
  <2>4. QED
    BY <1>3, <2>1, <2>3
<1>5. CASE ~a["shared"]
  <2>1. configure(a) = a
    BY <1>5 DEF configure
  <2>2. ~CodeValue("shared", s, u)
    BY <1>3, <1>5 DEF OptNames
  <2>3. CodeResolved(s, u) = [x \in OptNames |-> CodeValue(x, s, u)]
    BY <2>2, SameOptNames, Zenon DEF CodeResolved
  <2>4. a = [x \in OptNames |-> a[x]]
    BY <1>2 DEF Assign
  <2>5. QED
    BY <1>3, <2>1, <2>3, <2>4
<1>6. QED
  BY <1>4, <1>5


\* The phases before configure has returned, where ConanConfig has no
\* options yet.
Early == {"config_options", "user_options", "configure"}

\* The inductive invariant of the refinement: in each phase the options
\* are what the calls so far made of default_options.
RefInv ==
  /\ phase \in Phases /\ os \in OSes /\ user \in UserOpts
  /\ phase = "config_options" => opts = default_options
  /\ phase = "user_options" => opts = config_options(default_options, os)
  /\ phase = "configure" => opts = Assign(config_options(default_options, os), user)
  /\ phase \notin Early => opts = CodeResolved(os, user)


\* requirements moves to build_requirements, or to failed, and changes
\* neither the settings nor the options.
LEMMA RequirementsStep ==
  ASSUME Requirements
  PROVE  /\ phase = "requirements"
         /\ phase' \in {"build_requirements", "failed"}
         /\ UNCHANGED <<os, user, opts>>
  BY Zenon DEF Requirements

LEMMA RefInit == Init => RefInv
  BY DEF Init, RefInv, Phases, Early

LEMMA RefStep == RefInv /\ [Next]_vars => RefInv'
<1> SUFFICES ASSUME RefInv, [Next]_vars PROVE RefInv'
  OBVIOUS
<1>1. CASE ConfigOptions
  BY <1>1 DEF ConfigOptions, RefInv, Phases, Early
<1>2. CASE UserOptions
  BY <1>2 DEF UserOptions, RefInv, Phases, Early
<1>3. CASE Configure
  <2>1. UserAssignment(user)
    BY RecipeAssumption DEF RefInv, UserAssignment
  <2>2. os \in STRING
    BY RecipeAssumption DEF RefInv
  <2>3. opts' = CodeResolved(os, user)
    BY <1>3, <2>1, <2>2, ResolveCorrect DEF Configure, RefInv
  <2>4. QED
    BY <1>3, <2>3 DEF Configure, RefInv, Phases, Early
<1>4. CASE Requirements
  BY <1>4, RequirementsStep DEF RefInv, Phases, Early
<1>5. CASE BuildRequirements
  BY <1>5 DEF BuildRequirements, RefInv, Phases, Early
<1>6. CASE Generate
  BY <1>6 DEF Generate, RefInv, Phases, Early
<1>7. CASE PackageInfo
  BY <1>7 DEF PackageInfo, RefInv, Phases, Early
<1>8. CASE UNCHANGED vars
  BY <1>8 DEF vars, RefInv
<1>9. QED
  BY <1>1, <1>2, <1>3, <1>4, <1>5, <1>6, <1>7, <1>8 DEF Next


\* The recipe starts where ConanConfig starts: no options decided.
LEMMA RefInitMap == Init => Config!Init
  BY DEF Init, Config!Init, Config!Unresolved

\* Off Android, the options configure leaves are the ones ConanConfig
\* documents; on Android they differ in with_sdl alone.
LEMMA PromiseKept ==
  ASSUME NEW s, s # "Android", NEW u
  PROVE  CodeResolved(s, u) = Config!Resolved(s, u)
<1>1. \A x : CodeValue(x, s, u) = Config!Value(x, s, u)
  BY DEF CodeValue, CodePlatformValue, Config!Value
<1>2. QED
  BY <1>1, SameOptNames DEF CodeResolved, Config!Resolved

\* configure is the Resolve step of ConanConfig; every other recipe step
\* leaves the decided options as they are.
LEMMA RefNextMap ==
  ASSUME "Android" \notin OSes
  PROVE  RefInv /\ [Next]_vars => [Config!Resolve]_Config!vars
<1> SUFFICES ASSUME RefInv, [Next]_vars PROVE [Config!Resolve]_Config!vars
  OBVIOUS
<1>1. CASE Configure
  <2>1. UserAssignment(user)
    BY RecipeAssumption DEF RefInv, UserAssignment
  <2>2. os \in STRING
    BY RecipeAssumption DEF RefInv
  <2>3. opts' = CodeResolved(os, user)
    BY <1>1, <2>1, <2>2, ResolveCorrect DEF Configure, RefInv
  <2>4. os # "Android"
    BY DEF RefInv
  <2>5. opts' = Config!Resolved(os, user)
    BY <2>3, <2>4, PromiseKept
  <2>6. QED
    BY <1>1, <2>5 DEF Configure, Config!Resolve, Config!Unresolved
<1>2. CASE ConfigOptions \/ UserOptions
  BY <1>2 DEF ConfigOptions, UserOptions, Config!vars
<1>3. CASE Requirements
  BY <1>3, RequirementsStep DEF Config!vars
<1>4. CASE BuildRequirements \/ Generate \/ PackageInfo
  BY <1>4 DEF BuildRequirements, Generate, PackageInfo, Config!vars
<1>5. CASE UNCHANGED vars
  BY <1>5 DEF vars, Config!vars
<1>6. QED
  BY <1>1, <1>2, <1>3, <1>4, <1>5 DEF Next

\* On every set of platforms without Android, and for every profile, the
\* recipe's option handling implements ConanConfig: profile value, else
\* the platform value the default_options comments promise, else the
\* default, and no fPIC in a shared build (run recipe_refine checks the
\* same property on five platforms; on Android the Android branch of
\* config_options leaves SDL on, and run recipe_sdl shows the violation).
THEOREM Refinement ==
  ASSUME "Android" \notin OSes
  PROVE  Spec => ConfigRefined
<1>1. Init => RefInv /\ Config!Init
  BY RefInit, RefInitMap
<1>2. RefInv /\ [Next]_vars => RefInv' /\ [Config!Resolve]_Config!vars
  BY RefStep, RefNextMap
<1>3. QED
  BY <1>1, <1>2, PTL DEF Spec, ConfigRefined, Config!Spec


\* The package name of each self.requires call of requirements, in order.
ReqName == <<"libre", "opus", "libvpx", "openssl", "libvpx", "libaom-av1",
             "ffmpeg", "pulseaudio", "gstreamer", "sdl", "mosquitto",
             "libpng", "libsndfile">>

LEMMA ReqNames ==
  ASSUME NEW o, NEW s, NEW i \in 1..13
  PROVE  requirements(o, s)[i].req.name = ReqName[i]
<1>1. CASE i = 1
  BY <1>1 DEF requirements, R, ReqName
<1>2. CASE i = 2
  BY <1>2 DEF requirements, R, ReqName
<1>3. CASE i = 3
  BY <1>3 DEF requirements, R, ReqName
<1>4. CASE i = 4
  BY <1>4 DEF requirements, R, ReqName
<1>5. CASE i = 5
  BY <1>5 DEF requirements, R, ReqName
<1>6. CASE i = 6
  BY <1>6 DEF requirements, R, ReqName
<1>7. CASE i = 7
  BY <1>7 DEF requirements, R, ReqName
<1>8. CASE i = 8
  BY <1>8 DEF requirements, R, ReqName
<1>9. CASE i = 9
  BY <1>9 DEF requirements, R, ReqName
<1>10. CASE i = 10
  BY <1>10 DEF requirements, R, ReqName
<1>11. CASE i = 11
  BY <1>11 DEF requirements, R, ReqName
<1>12. CASE i = 12
  BY <1>12 DEF requirements, R, ReqName
<1>13. CASE i = 13
  BY <1>13 DEF requirements, R, ReqName
<1>14. QED
  BY <1>1, <1>2, <1>3, <1>4, <1>5, <1>6, <1>7, <1>8, <1>9, <1>10,
     <1>11, <1>12, <1>13

\* Only the libvpx override (line 154) and the libvpx requirement (line
\* 168) share a package name, and their conditions exclude each other:
\* no call of requirements raises "Duplicated requirement", whatever the
\* options and the platform.
LEMMA NoDupAt ==
  ASSUME NEW o, NEW s
  PROVE  DupAt(requirements(o, s)) = {}
<1> DEFINE c == requirements(o, s)
<1>1. DOMAIN c = 1..13
  BY DEF requirements
<1>2. SUFFICES ASSUME NEW k \in 1..13, NEW j \in 1..13, j < k,
                      c[j].cond, c[k].cond, c[j].req.name = c[k].req.name
               PROVE  FALSE
  BY <1>1 DEF DupAt
<1>3. j = 3 /\ k = 5
  BY <1>2, ReqNames DEF ReqName
<1>4. QED
  BY <1>2, <1>3 DEF requirements, vpx_override, vpx_direct


\* requirements always returns normally.
LEMMA RequirementsReturns ==
  ASSUME Requirements
  PROVE  phase' = "build_requirements"
<1>1. DupAt(requirements(opts, os)) = {}
  BY NoDupAt
<1>2. QED
  BY <1>1, Zenon DEF Requirements

\* No run of the recipe fails with "Duplicated requirement", on every
\* platform and for every profile (run recipe_all checks the same
\* invariant on the model's platforms and profiles).
THEOREM NoDuplicatedRequirementThm == Spec => []NoDuplicatedRequirement
<1>1. Init => NoDuplicatedRequirement
  BY DEF Init, NoDuplicatedRequirement
<1>2. NoDuplicatedRequirement /\ [Next]_vars => NoDuplicatedRequirement'
  <2> SUFFICES ASSUME NoDuplicatedRequirement, [Next]_vars
               PROVE  NoDuplicatedRequirement'
    OBVIOUS
  <2>1. CASE Requirements
    BY <2>1, RequirementsReturns DEF NoDuplicatedRequirement
  <2>2. CASE ~Requirements
    BY <2>2 DEF Next, vars, ConfigOptions, UserOptions, Configure,
                BuildRequirements, Generate, PackageInfo, NoDuplicatedRequirement
  <2>3. QED
    BY <2>1, <2>2
<1>3. QED
  BY <1>1, <1>2, PTL DEF Spec


\* The inductive invariant of the output properties: once requirements
\* has returned, requires holds what its calls recorded for the resolved
\* options, and once generate has returned, cmake is what it wrote.
OutInv ==
  /\ RefInv
  /\ phase \in Required => requires = Made(requirements(opts, os), 14)
  /\ phase \in Generated => cmake = generate(opts)


\* requirements records the requirement of every call whose condition
\* holds.
LEMMA RequirementsRecords ==
  ASSUME Requirements
  PROVE  requires' = Made(requirements(opts, os), 14)
<1>1. DupAt(requirements(opts, os)) = {}
  BY NoDupAt
<1>2. Len(requirements(opts, os)) = 13
  BY DEF requirements
<1>3. requires' = Made(requirements(opts, os), Len(requirements(opts, os)) + 1)
  BY <1>1, Zenon DEF Requirements
<1>4. QED
  BY <1>2, <1>3

LEMMA OutInit == Init => OutInv
  BY RefInit DEF Init, OutInv, Required, Generated

LEMMA OutStep == OutInv /\ [Next]_vars => OutInv'
<1> SUFFICES ASSUME OutInv, [Next]_vars PROVE OutInv'
  OBVIOUS
<1>1. RefInv'
  BY RefStep DEF OutInv
<1>2. CASE ConfigOptions \/ UserOptions \/ Configure
  BY <1>1, <1>2 DEF ConfigOptions, UserOptions, Configure, OutInv, Required, Generated
<1>3. CASE Requirements
  BY <1>1, <1>3, RequirementsStep, RequirementsRecords DEF OutInv, Required, Generated
<1>4. CASE BuildRequirements \/ PackageInfo
  BY <1>1, <1>4 DEF BuildRequirements, PackageInfo, OutInv, Required, Generated
<1>5. CASE Generate
  BY <1>1, <1>5 DEF Generate, OutInv, Required, Generated
<1>6. CASE UNCHANGED vars
  BY <1>1, <1>6 DEF vars, OutInv
<1>7. QED
  BY <1>2, <1>3, <1>4, <1>5, <1>6 DEF Next

LEMMA OutInvariant == Spec => []OutInv
  BY OutInit, OutStep, PTL DEF Spec


\* From configure on, an option that is not fPIC has its resolved value.
LEMMA ResolvedValue ==
  ASSUME NEW s, NEW u, NEW x \in OptNames \ {"fPIC"}
  PROVE  CodeResolved(s, u)[x] = CodeValue(x, s, u)
<1>1. CASE CodeValue("shared", s, u)
  BY <1>1, SameOptNames DEF CodeResolved
<1>2. CASE ~CodeValue("shared", s, u)
  BY <1>2, SameOptNames DEF CodeResolved
<1>3. QED
  BY <1>1, <1>2

\* CMake learns that ALSA, PulseAudio and PipeWire are enabled exactly on
\* Linux, unless the profile set them (run recipe_all checks the same
\* invariant on the model's platforms and profiles).
THEOREM LinuxAudioOnLinuxThm == Spec => []LinuxAudioOnLinux
<1>1. OutInv => LinuxAudioOnLinux
  <2> SUFFICES ASSUME OutInv, phase \in Generated,
                      NEW f \in {"with_alsa", "with_pulseaudio", "with_pipewire"}
               PROVE  cmake[Switch[f]] = IF f \in DOMAIN user THEN user[f] ELSE os = "Linux"
    BY DEF LinuxAudioOnLinux
  <2>1. opts = CodeResolved(os, user) /\ cmake = generate(opts)
    BY DEF OutInv, RefInv, Generated, Early
  <2>2. cmake[Switch[f]] = opts[f]
    BY <2>1 DEF Switch, generate
  <2>3. opts[f] = CodeValue(f, os, user)
    BY <2>1, ResolvedValue DEF OptNames
  <2>4. QED
    BY <2>2, <2>3 DEF CodeValue, CodePlatformValue, Config!PlatformValue
<1>2. QED
  BY <1>1, OutInvariant, PTL


\* requirements makes thirteen calls.
LEMMA ReqDomain ==
  ASSUME NEW o, NEW s
  PROVE  DOMAIN requirements(o, s) = 1..13
  BY DEF requirements

\* Made(c, k) holds the requirements of the calls before k whose
\* condition held.
LEMMA MadeCall ==
  ASSUME NEW c, NEW k, NEW r \in Made(c, k)
  PROVE  \E j \in DOMAIN c : j < k /\ c[j].cond /\ r = c[j].req
  BY DEF Made

\* A requirement recorded by requirements comes from a call whose
\* condition held.
LEMMA MadeFrom ==
  ASSUME NEW o, NEW s, NEW r \in Made(requirements(o, s), 14)
  PROVE  \E j \in 1..13 : requirements(o, s)[j].cond /\ r = requirements(o, s)[j].req
<1> DEFINE c == requirements(o, s)
<1>1. DOMAIN c = 1..13
  BY ReqDomain
<1>2. PICK j \in DOMAIN c : j < 14 /\ c[j].cond /\ r = c[j].req
  BY MadeCall
<1>3. j \in 1..13
  BY <1>1, <1>2
<1>4. QED
  BY <1>2, <1>3

\* A package name that requirements recorded is the name of a call whose
\* condition held.
LEMMA NameFrom ==
  ASSUME NEW o, NEW s, NEW n \in Names(Made(requirements(o, s), 14))
  PROVE  \E j \in 1..13 : requirements(o, s)[j].cond /\ ReqName[j] = n
<1>1. PICK r \in Made(requirements(o, s), 14) : r.name = n
  BY DEF Names
<1>2. PICK j \in 1..13 : requirements(o, s)[j].cond /\ r = requirements(o, s)[j].req
  BY MadeFrom
<1>3. QED
  BY <1>1, <1>2, ReqNames

\* On iOS and Android GStreamer, and on iOS SDL, is never required unless
\* the profile enables it (run recipe_all checks the same invariant on the
\* model's platforms and profiles).
THEOREM MobileWithoutGStreamerThm == Spec => []MobileWithoutGStreamer
<1>1. OutInv => MobileWithoutGStreamer
  <2> SUFFICES ASSUME OutInv, phase \in Required
               PROVE  /\ os \in {"iOS", "Android"} /\ "with_gstreamer" \notin DOMAIN user
                           => "gstreamer" \notin Names(requires)
                      /\ os = "iOS" /\ "with_sdl" \notin DOMAIN user
                           => "sdl" \notin Names(requires)
    BY DEF MobileWithoutGStreamer
  <2>1. opts = CodeResolved(os, user)
        /\ requires = Made(requirements(opts, os), 14)
    BY DEF OutInv, RefInv, Required, Early
  <2>2. ASSUME os \in {"iOS", "Android"}, "with_gstreamer" \notin DOMAIN user
        PROVE  "gstreamer" \notin Names(requires)
    <3>1. ~opts["with_gstreamer"]
      <4>1. opts["with_gstreamer"] = CodeValue("with_gstreamer", os, user)
        BY <2>1, ResolvedValue DEF OptNames
      <4>2. QED
        BY <2>2, <4>1 DEF CodeValue, CodePlatformValue, Config!PlatformValue
    <3>2. SUFFICES ASSUME "gstreamer" \in Names(requires) PROVE FALSE
      OBVIOUS
    <3>3. PICK j \in 1..13 : requirements(opts, os)[j].cond /\ ReqName[j] = "gstreamer"
      BY <2>1, <3>2, NameFrom
    <3>4. j = 9
      BY <3>3 DEF ReqName
    <3>5. QED
      BY <3>1, <3>3, <3>4 DEF requirements
  <2>3. ASSUME os = "iOS", "with_sdl" \notin DOMAIN user
        PROVE  "sdl" \notin Names(requires)
    <3>1. ~opts["with_sdl"]
      <4>1. opts["with_sdl"] = CodeValue("with_sdl", os, user)
        BY <2>1, ResolvedValue DEF OptNames
      <4>2. QED
        BY <2>3, <4>1 DEF CodeValue, CodePlatformValue, Config!PlatformValue
    <3>2. SUFFICES ASSUME "sdl" \in Names(requires) PROVE FALSE
      OBVIOUS
    <3>3. PICK j \in 1..13 : requirements(opts, os)[j].cond /\ ReqName[j] = "sdl"
      BY <2>1, <3>2, NameFrom
    <3>4. j = 10
      BY <3>3 DEF ReqName
    <3>5. QED
      BY <3>1, <3>3, <3>4 DEF requirements
  <2>4. QED
    BY <2>2, <2>3
<1>2. QED
  BY <1>1, OutInvariant, PTL


\* The calls of requirements that concern libvpx and FFmpeg.
LEMMA VpxCalls ==
  ASSUME NEW o, NEW s
  PROVE  /\ requirements(o, s)[3].req = R("libvpx", "1.14.1", TRUE)
         /\ requirements(o, s)[3].cond <=> vpx_override(o)
         /\ requirements(o, s)[5].req = R("libvpx", "1.15.2", FALSE)
         /\ requirements(o, s)[5].cond <=> vpx_direct(o)
         /\ requirements(o, s)[7].cond <=> o["with_ffmpeg"]
  BY DEF requirements

\* The requirement of a call whose condition held is recorded.
LEMMA NameIn ==
  ASSUME NEW o, NEW s, NEW j \in 1..13, requirements(o, s)[j].cond
  PROVE  ReqName[j] \in Names(Made(requirements(o, s), 14))
<1> DEFINE c == requirements(o, s)
<1>1. j \in DOMAIN c /\ j < 14
  BY ReqDomain
<1>2. c[j].req \in Made(c, 14)
  BY <1>1, Zenon DEF Made
<1>3. QED
  BY <1>2, ReqNames DEF Names

\* libvpx is required exactly when with_vpx is set: as the override to
\* FFmpeg's 1.14.1 when FFmpeg is required, as 1.15.2 otherwise (run
\* recipe_all checks the same invariant on the model's platforms and
\* profiles).
THEOREM VpxPinnedForFfmpegThm == Spec => []VpxPinnedForFfmpeg
<1>1. OutInv => VpxPinnedForFfmpeg
  <2> SUFFICES ASSUME OutInv, phase \in Required
               PROVE  /\ "libvpx" \in Names(requires) <=> opts["with_vpx"]
                      /\ \A r \in requires :
                           r.name = "libvpx" =>
                             IF "ffmpeg" \in Names(requires)
                             THEN r.version = "1.14.1" /\ r.override
                             ELSE r.version = "1.15.2" /\ ~r.override
    BY DEF VpxPinnedForFfmpeg
  <2> DEFINE c == requirements(opts, os)
  <2>1. requires = Made(c, 14)
    BY DEF OutInv, Required
  <2>2. "ffmpeg" \in Names(requires) <=> opts["with_ffmpeg"]
    <3>1. ASSUME opts["with_ffmpeg"] PROVE "ffmpeg" \in Names(requires)
      <4>1. c[7].cond
        BY <3>1, VpxCalls
      <4>2. ReqName[7] \in Names(Made(c, 14))
        BY <4>1, NameIn
      <4>3. QED
        BY <2>1, <4>2 DEF ReqName
    <3>2. ASSUME "ffmpeg" \in Names(requires) PROVE opts["with_ffmpeg"]
      <4>1. PICK j \in 1..13 : c[j].cond /\ ReqName[j] = "ffmpeg"
        BY <2>1, <3>2, NameFrom
      <4>2. j = 7
        BY <4>1 DEF ReqName
      <4>3. QED
        BY <4>1, <4>2, VpxCalls
    <3>3. QED
      BY <3>1, <3>2
  <2>3. "libvpx" \in Names(requires) <=> opts["with_vpx"]
    <3>1. ASSUME opts["with_vpx"], opts["with_ffmpeg"] PROVE "libvpx" \in Names(requires)
      <4>1. c[3].cond
        BY <3>1, VpxCalls DEF vpx_override
      <4>2. ReqName[3] \in Names(Made(c, 14))
        BY <4>1, NameIn
      <4>3. QED
        BY <2>1, <4>2 DEF ReqName
    <3>2. ASSUME opts["with_vpx"], ~opts["with_ffmpeg"] PROVE "libvpx" \in Names(requires)
      <4>1. c[5].cond
        BY <3>2, VpxCalls DEF vpx_direct
      <4>2. ReqName[5] \in Names(Made(c, 14))
        BY <4>1, NameIn
      <4>3. QED
        BY <2>1, <4>2 DEF ReqName
    <3>3. ASSUME "libvpx" \in Names(requires) PROVE opts["with_vpx"]
      <4>1. PICK j \in 1..13 : c[j].cond /\ ReqName[j] = "libvpx"
        BY <2>1, <3>3, NameFrom
      <4>2. j = 3 \/ j = 5
        BY <4>1 DEF ReqName
      <4>3. QED
        BY <4>1, <4>2, VpxCalls DEF vpx_override, vpx_direct
    <3>4. QED
      BY <3>1, <3>2, <3>3
  <2>4. ASSUME NEW r \in requires, r.name = "libvpx"
        PROVE  IF "ffmpeg" \in Names(requires)
               THEN r.version = "1.14.1" /\ r.override
               ELSE r.version = "1.15.2" /\ ~r.override
    <3>1. PICK j \in 1..13 : c[j].cond /\ r = c[j].req
      BY <2>1, MadeFrom
    <3>2. j = 3 \/ j = 5
      BY <2>4, <3>1, ReqNames DEF ReqName
    <3>3. CASE j = 3
      BY <2>2, <3>1, <3>3, VpxCalls DEF vpx_override, R
    <3>4. CASE j = 5
      BY <2>2, <3>1, <3>4, VpxCalls DEF vpx_direct, R
    <3>5. QED
      BY <3>2, <3>3, <3>4
  <2>5. QED
    BY <2>3, <2>4
<1>2. QED
  BY <1>1, OutInvariant, PTL

-----------------------------------------------------------------------------
(* Type correctness of the recipe.                                         *)

\* A value that is TRUE or FALSE is a Boolean.
LEMMA BoolOfDisj ==
  ASSUME NEW v, v = TRUE \/ v = FALSE
  PROVE  v \in BOOLEAN
  OBVIOUS

\* default_options gives every option a Boolean.
LEMMA DefaultsType == default_options \in [OptNames -> BOOLEAN]
<1>1. \A x \in OptNames : default_options[x] = TRUE \/ default_options[x] = FALSE
  BY DEF default_options, OptNames
<1>2. DOMAIN default_options = OptNames
  BY DEF default_options, OptNames
<1>3. default_options = [x \in OptNames |-> default_options[x]]
  BY <1>2 DEF default_options
<1>4. QED
  BY <1>1, <1>3, BoolOfDisj, Zenon

\* config_options leaves every option Boolean.
LEMMA PlatformType ==
  ASSUME NEW s \in STRING
  PROVE  config_options(default_options, s) \in [OptNames -> BOOLEAN]
<1> DEFINE p == config_options(default_options, s)
<1>1. \A x \in OptNames : p[x] \in BOOLEAN
  <2> SUFFICES ASSUME NEW x \in OptNames PROVE p[x] \in BOOLEAN
    OBVIOUS
  <2>1. CodePlatformValue(x, s) = TRUE \/ CodePlatformValue(x, s) = FALSE
    BY DEF CodePlatformValue, Config!PlatformValue, Config!default_options, OptNames
  <2>2. QED
    BY <2>1, PlatformValues, BoolOfDisj
<1>2. p = [x \in OptNames |-> p[x]]
  BY PlatformValues DEF config_options, Assign
<1>3. QED
  BY <1>1, <1>2, Zenon

\* Applying a profile keeps every option Boolean.
LEMMA AssignType ==
  ASSUME NEW o \in [OptNames -> BOOLEAN], NEW u, UserAssignment(u)
  PROVE  Assign(o, u) \in [OptNames -> BOOLEAN]
<1>1. \A x \in OptNames : Assign(o, u)[x] \in BOOLEAN
  BY DEF Assign, UserAssignment
<1>2. Assign(o, u) = [x \in OptNames |-> Assign(o, u)[x]]
  BY DEF Assign
<1>3. QED
  BY <1>1, <1>2, Zenon

\* configure removes at most fPIC and changes no value.
LEMMA ConfigureType ==
  ASSUME NEW a \in [OptNames -> BOOLEAN]
  PROVE  configure(a) \in [OptNames -> BOOLEAN] \cup [OptNames \ {"fPIC"} -> BOOLEAN]
<1>1. CASE a["shared"]
  <2>1. configure(a) = [x \in OptNames \ {"fPIC"} |-> a[x]]
    BY <1>1 DEF configure
  <2>2. QED
    BY <2>1
<1>2. CASE ~a["shared"]
  BY <1>2 DEF configure
<1>3. QED
  BY <1>1, <1>2


\* Every call of requirements names a package, a version and an override
\* flag.
LEMMA ReqType ==
  ASSUME NEW o, NEW s, NEW j \in 1..13
  PROVE  requirements(o, s)[j].req \in Req
<1>1. CASE j = 1
  BY <1>1 DEF requirements, R, Req, PkgNames, Versions
<1>2. CASE j = 2
  BY <1>2 DEF requirements, R, Req, PkgNames, Versions
<1>3. CASE j = 3
  BY <1>3 DEF requirements, R, Req, PkgNames, Versions
<1>4. CASE j = 4
  BY <1>4 DEF requirements, R, Req, PkgNames, Versions
<1>5. CASE j = 5
  BY <1>5 DEF requirements, R, Req, PkgNames, Versions
<1>6. CASE j = 6
  BY <1>6 DEF requirements, R, Req, PkgNames, Versions
<1>7. CASE j = 7
  BY <1>7 DEF requirements, R, Req, PkgNames, Versions
<1>8. CASE j = 8
  BY <1>8 DEF requirements, R, Req, PkgNames, Versions
<1>9. CASE j = 9
  BY <1>9 DEF requirements, R, Req, PkgNames, Versions
<1>10. CASE j = 10
  BY <1>10 DEF requirements, R, Req, PkgNames, Versions
<1>11. CASE j = 11
  BY <1>11 DEF requirements, R, Req, PkgNames, Versions
<1>12. CASE j = 12
  BY <1>12 DEF requirements, R, Req, PkgNames, Versions
<1>13. CASE j = 13
  BY <1>13 DEF requirements, R, Req, PkgNames, Versions
<1>14. QED
  BY <1>1, <1>2, <1>3, <1>4, <1>5, <1>6, <1>7, <1>8, <1>9, <1>10,
     <1>11, <1>12, <1>13

\* What requirements records is a set of requirements.
LEMMA MadeType ==
  ASSUME NEW o, NEW s
  PROVE  Made(requirements(o, s), 14) \subseteq Req
<1> SUFFICES ASSUME NEW r \in Made(requirements(o, s), 14) PROVE r \in Req
  OBVIOUS
<1>1. PICK j \in 1..13 : requirements(o, s)[j].cond /\ r = requirements(o, s)[j].req
  BY MadeFrom
<1>2. QED
  BY <1>1, ReqType

\* generate writes a Boolean to every CMake variable.
LEMMA GenerateType ==
  ASSUME NEW o \in [OptNames -> BOOLEAN] \cup [OptNames \ {"fPIC"} -> BOOLEAN]
  PROVE  generate(o) \in [CMakeVars -> BOOLEAN]
<1>1. \A x \in OptNames \ {"fPIC"} : o[x] \in BOOLEAN
  OBVIOUS
<1>2. DOMAIN generate(o) = CMakeVars
  BY DEF generate, CMakeVars
<1>3. \A x \in CMakeVars : generate(o)[x] \in BOOLEAN
  <2> SUFFICES ASSUME NEW x \in CMakeVars PROVE generate(o)[x] \in BOOLEAN
    OBVIOUS
  <2>1. x \in {"BARESIP_USE_CONAN", "CONAN_OPUS_ENABLED", "CONAN_VPX_ENABLED", "CONAN_AV1_ENABLED", "CONAN_FFMPEG_ENABLED", "CONAN_ALSA_ENABLED", "CONAN_PULSEAUDIO_ENABLED", "CONAN_JACK_ENABLED", "CONAN_PORTAUDIO_ENABLED", "CONAN_PIPEWIRE_ENABLED", "CONAN_OPENSSL_ENABLED", "CONAN_SDL_ENABLED", "CONAN_MOSQUITTO_ENABLED", "CONAN_PNG_ENABLED", "CONAN_SNDFILE_ENABLED"}
    BY DEF CMakeVars, generate
  <2>2. CASE x = "BARESIP_USE_CONAN"
    BY <2>2 DEF generate
  <2>3. CASE x = "CONAN_OPUS_ENABLED"
    <3>1. generate(o)[x] = o["with_opus"]
      BY <2>3 DEF generate
    <3>2. QED
      BY <1>1, <3>1 DEF OptNames
  <2>4. CASE x = "CONAN_VPX_ENABLED"
    <3>1. generate(o)[x] = o["with_vpx"]
      BY <2>4 DEF generate
    <3>2. QED
      BY <1>1, <3>1 DEF OptNames
  <2>5. CASE x = "CONAN_AV1_ENABLED"
    <3>1. generate(o)[x] = o["with_av1"]
      BY <2>5 DEF generate
    <3>2. QED
      BY <1>1, <3>1 DEF OptNames
  <2>6. CASE x = "CONAN_FFMPEG_ENABLED"
    <3>1. generate(o)[x] = o["with_ffmpeg"]
      BY <2>6 DEF generate
    <3>2. QED
      BY <1>1, <3>1 DEF OptNames
  <2>7. CASE x = "CONAN_ALSA_ENABLED"
    <3>1. generate(o)[x] = o["with_alsa"]
      BY <2>7 DEF generate
    <3>2. QED
      BY <1>1, <3>1 DEF OptNames
  <2>8. CASE x = "CONAN_PULSEAUDIO_ENABLED"
    <3>1. generate(o)[x] = o["with_pulseaudio"]
      BY <2>8 DEF generate
    <3>2. QED
      BY <1>1, <3>1 DEF OptNames
  <2>9. CASE x = "CONAN_JACK_ENABLED"
    <3>1. generate(o)[x] = o["with_jack"]
      BY <2>9 DEF generate
    <3>2. QED
      BY <1>1, <3>1 DEF OptNames
  <2>10. CASE x = "CONAN_PORTAUDIO_ENABLED"
    <3>1. generate(o)[x] = o["with_portaudio"]
      BY <2>10 DEF generate
    <3>2. QED
      BY <1>1, <3>1 DEF OptNames
  <2>11. CASE x = "CONAN_PIPEWIRE_ENABLED"
    <3>1. generate(o)[x] = o["with_pipewire"]
      BY <2>11 DEF generate
    <3>2. QED
      BY <1>1, <3>1 DEF OptNames
  <2>12. CASE x = "CONAN_OPENSSL_ENABLED"
    <3>1. generate(o)[x] = o["with_openssl"]
      BY <2>12 DEF generate
    <3>2. QED
      BY <1>1, <3>1 DEF OptNames
  <2>13. CASE x = "CONAN_SDL_ENABLED"
    <3>1. generate(o)[x] = o["with_sdl"]
      BY <2>13 DEF generate
    <3>2. QED
      BY <1>1, <3>1 DEF OptNames
  <2>14. CASE x = "CONAN_MOSQUITTO_ENABLED"
    <3>1. generate(o)[x] = o["with_mosquitto"]
      BY <2>14 DEF generate
    <3>2. QED
      BY <1>1, <3>1 DEF OptNames
  <2>15. CASE x = "CONAN_PNG_ENABLED"
    <3>1. generate(o)[x] = o["with_png"]
      BY <2>15 DEF generate
    <3>2. QED
      BY <1>1, <3>1 DEF OptNames
  <2>16. CASE x = "CONAN_SNDFILE_ENABLED"
    <3>1. generate(o)[x] = o["with_sndfile"]
      BY <2>16 DEF generate
    <3>2. QED
      BY <1>1, <3>1 DEF OptNames
  <2>17. QED
    BY <2>1, <2>2, <2>3, <2>4, <2>5, <2>6, <2>7, <2>8, <2>9, <2>10, <2>11, <2>12, <2>13, <2>14, <2>15, <2>16
<1>4. generate(o) = [x \in CMakeVars |-> generate(o)[x]]
  BY <1>2 DEF generate
<1>5. QED
  BY <1>3, <1>4, Zenon

\* package_info adds sets of library and framework names.
LEMMA PackageInfoType ==
  ASSUME NEW s
  PROVE  package_info(s) \in [system_libs: SUBSET SysLibs, frameworks: SUBSET Frameworks]
  BY DEF package_info, SysLibs, Frameworks


\* The options before configure are a full Boolean assignment.
LEMMA EarlyOptsType ==
  ASSUME NEW ph \in Early, NEW s \in STRING, NEW u, UserAssignment(u), NEW o,
         ph = "config_options" => o = default_options,
         ph = "user_options" => o = config_options(default_options, s),
         ph = "configure" => o = Assign(config_options(default_options, s), u)
  PROVE  o \in [OptNames -> BOOLEAN]
<1>1. CASE ph = "config_options"
  BY <1>1, DefaultsType
<1>2. CASE ph = "user_options"
  BY <1>2, PlatformType
<1>3. CASE ph = "configure"
  BY <1>3, PlatformType, AssignType
<1>4. QED
  BY <1>1, <1>2, <1>3 DEF Early

\* Every reachable state of the recipe is well typed (run recipe_all
\* checks the same invariant on the model's platforms and profiles).
THEOREM RecipeTypeCorrect == Spec => []TypeOK
<1>1. Init => TypeOK
  BY DefaultsType DEF Init, TypeOK, Phases, NoCMake
<1>2. TypeOK /\ OutInv /\ OutInv' /\ [Next]_vars => TypeOK'
  <2> SUFFICES ASSUME TypeOK, OutInv, OutInv', [Next]_vars PROVE TypeOK'
    OBVIOUS
  <2>1. phase' \in Phases /\ os' \in OSes /\ user' \in UserOpts
    BY DEF OutInv, RefInv
  <2>2. opts' \in [OptNames -> BOOLEAN] \cup [OptNames \ {"fPIC"} -> BOOLEAN]
    <3>1. CASE phase' \in Early
      <4>1. os' \in STRING /\ UserAssignment(user')
        BY RecipeAssumption DEF OutInv, RefInv, UserAssignment
      <4>2. QED
        BY <3>1, <4>1, EarlyOptsType DEF OutInv, RefInv
    <3>2. CASE phase' \notin Early
      <4>1. opts' = configure(Assign(config_options(default_options, os'), user'))
        <5>1. os' \in STRING /\ UserAssignment(user')
          BY RecipeAssumption DEF OutInv, RefInv, UserAssignment
        <5>2. QED
          BY <3>2, <5>1, ResolveCorrect DEF OutInv, RefInv
      <4>2. os' \in STRING /\ UserAssignment(user')
        BY RecipeAssumption DEF OutInv, RefInv, UserAssignment
      <4>3. QED
        BY <4>1, <4>2, PlatformType, AssignType, ConfigureType
    <3>3. QED
      BY <3>1, <3>2
  <2>3. requires' \subseteq Req
    <3>1. CASE Requirements
      BY <3>1, RequirementsRecords, MadeType
    <3>2. CASE ~Requirements
      BY <3>2 DEF TypeOK, Next, vars, ConfigOptions, UserOptions, Configure,
                  BuildRequirements, Generate, PackageInfo
    <3>3. QED
      BY <3>1, <3>2
  <2>4. toolreqs' \subseteq Req
    <3>1. CASE BuildRequirements
      BY <3>1 DEF BuildRequirements, build_requirements, R, Req, PkgNames, Versions
    <3>2. CASE ~BuildRequirements
      BY <3>2, RequirementsStep DEF TypeOK, Next, vars, ConfigOptions, UserOptions,
                  Configure, Requirements, Generate, PackageInfo
    <3>3. QED
      BY <3>1, <3>2
  <2>5. cmake' \in {NoCMake} \cup [CMakeVars -> BOOLEAN]
    <3>1. CASE Generate
      BY <3>1, GenerateType DEF TypeOK, Generate
    <3>2. CASE ~Generate
      BY <3>2 DEF TypeOK, Next, vars, ConfigOptions, UserOptions, Configure,
                  Requirements, BuildRequirements, PackageInfo
    <3>3. QED
      BY <3>1, <3>2
  <2>6. cppinfo' \in [system_libs: SUBSET SysLibs, frameworks: SUBSET Frameworks]
    <3>1. CASE PackageInfo
      BY <3>1, PackageInfoType DEF PackageInfo
    <3>2. CASE ~PackageInfo
      BY <3>2 DEF TypeOK, Next, vars, ConfigOptions, UserOptions, Configure,
                  Requirements, BuildRequirements, Generate
    <3>3. QED
      BY <3>1, <3>2
  <2>7. QED
    BY <2>1, <2>2, <2>3, <2>4, <2>5, <2>6 DEF TypeOK
<1>3. QED
  BY <1>1, <1>2, OutInvariant, PTL DEF Spec

=============================================================================
