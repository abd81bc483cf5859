# TLA+ models of ccheck (src/test/ccheck.py) and the Conan recipe (src/conanfile.py)

The repository has two source files:

- `src/test/ccheck.py` is `ccheck`, a line-oriented style checker that is run over the baresip tree as a quality gate;
- `src/conanfile.py` is a Conan packaging recipe for baresip.

This directory holds TLA+ models of the checker, TLC configurations that model-check them, and TLAPS proofs about them.

## 1. Inventory

### Components and how they interact

| Component | Code | State | Operations |
|---|---|---|---|
| Category Table | `ccheck.__init__` 44-99 | constant: `extensions`, `common_checks`, `funcmap`, `extmap`, `maxsize` | none |
| File Classifier | `parse_any_file` 331-339 | appends to `self.files[e]` | classify a path, then call `parse_file` |
| Traversal Engine | `rec_quasiglob`, `build_file_list` 342-360 | none of its own | walk, match patterns, filter by exclude substrings |
| Check Runner | `parse_file`, `process_line` and the ten `check_*` methods, 132-328 | `cur_lineno`, `empty_lines_count`, `cc_count`, `cur_filename` | read chunks; run every check of the category on each line |
| Diagnostic Reporter | `error` 109-112 | `errors` | print `file:line: msg`; add 1 to `errors` |
| Stats Aggregator | `print_stats` 118-126 | reads `files` and `errors` | print the counts |
| CLI driver | `main`, `usage` 368-431 | `quiet`, `exclude` | parse options; scan directories or check named files; exit with `errors != 0` |
| Conan recipe | `BaresipConan` in `src/conanfile.py` | options and settings | `config_options`, `configure`, `requirements`, `build_requirements`, `generate`, `package_info` (section 6) |

A run goes like this:

1. `main` calls `build_file_list` for each directory argument, and `parse_any_file` for each file argument.
2. For each category, `build_file_list` calls `rec_quasiglob` with that category's patterns. `rec_quasiglob` calls `parse_any_file` once for each pattern that matches a file and is not excluded.
3. `parse_any_file` picks the first category, in table order, whose patterns match the path. It records the file in `files` and calls `parse_file`.
4. `parse_file` reads the file with `readlines(100000)` in chunks of lines. It calls `process_line` on each line.
5. `process_line` runs the five common checks, then the checks of the category, then `check_xy_max`. Every check reports through `error`.

All checks of all files share the same object. `errors`, `cur_lineno`, `empty_lines_count` and `cc_count` are instance fields that outlive a file.

### What makes it hard

The program is single-threaded; there is no concurrency and nothing is persisted. What a unit test hardly reaches is the following:

- **Chunked reading.** `readlines(100000)` returns lines until their total length exceeds the hint. `cur_lineno = 0` is inside the read loop (line 325), so line numbers restart in every chunk. Both stateful checks reset when `cur_lineno == 1`, so they also restart mid-file. Only files over 100000 characters are affected.
- **State across files.** The counters are reset only by that line-1 test.
- **Text conversion.** `open()` uses universal newlines, so `check_file_unix` never sees `'\r'`.
- **Character edges:**
  - `line[index-1]` with `index == 0` (line 193);
  - the order of `/*` and `*/` on one line (lines 208-214).
- **Traversal:**
  - a file can be checked once per matching pattern where `fnmatch` ignores case (line 345);
  - an empty exclude string matches every path (line 350);
  - file arguments skip the exclude filter (line 420);
  - an exception on open or decode aborts the whole run (line 317).

PROJECT.json lists each of these under "hazards" at its line.

## 2. Modules

| Module | Models | Notes |
|---|---|---|
| `CategoryTable` | the tables of `__init__` | `ChecksOf(e)` is the set of checks `process_line` runs for category `e` |
| `CheckRunner` | `parse_file`, `process_line`, every check, `error` | the specification |
| `MCCheckRunner` | the model values for TLC | seven line bodies and the categories c, m4, py |
| `CheckRunnerProofs` | TLAPS proofs | `TypeCorrect`, `EmptyLinesSoundThm`, `BlockCommentSoundThm` and the lemmas they use |

### How CheckRunner corresponds to the code

A line is a record `[body, term]`:

- `term` is the terminator on disk: `"LF"`, `"CRLF"` or `"CR"`.
- `body` abstracts the text that `process_line` sees after `rstrip('\n')`. It records:
  - the length and the last character (space, tab, other, none);
  - whether the line contains `/*` and whether it contains `*/`;
  - the width after `expandtabs`;
  - `flags`, the set of diagnostics the regular-expression checks give this line (termination, hex, pre-increment, brackets, `//`, indentation).

`ReadText` models `open()`'s universal newlines: the body never ends in `"\r"`, whatever `term` is. `ReadLen` is the character count that `readlines` adds up: the body plus one newline. `Chunks(n)` is every list of lines that one call of `readlines(Hint)` can return. Every line but the last fits under the hint; the last may go over it.

| Action | Code |
|---|---|
| `StartFile(e)` | `parse_file(f, e)`: no counter is reset |
| `ReadChunk` | `lines = f.readlines(Hint)` followed by `cur_lineno = 0`. `eof` records that the chunk stayed under the hint, so the file has ended. |
| `ProcessLine` | one pass of `for line in lines`, all in one step: `cur_lineno += 1`, then `process_line`, which runs every check of the category in order, then `check_xy_max`. `errors` grows by the number of diagnostics. |
| `EndFile` | `readlines` returns `[]` and `parse_file` returns |

`check_whitespace` and `check_c_comments` are functions. Each takes the line body, the line number and its counter, and returns the diagnostics and the new counter, exactly as lines 143-152 and 203-214 do. The other checks return their share of the body's `flags`. `check_file_unix` tests for a final `"\r"` (line 279), which no body has.

There are three ghost variables. The code has no such state; they exist only so that properties can compare the code's counters with the truth.

- `lineIdx` is the real position of the line in its file.
- `gRun` is the real number of empty lines ending at the line.
- `gOpen` says that a `/*` line has come since the last `*/` line of the file.

## 3. Runs

All runs use `MCCheckRunner`.

- **Categories:** c, m4 and py. These are the three kinds of check list: only m4 runs `check_c_comments`, py uses space indentation, and c has `//`.
- **Line bodies:**
  - empty;
  - `x`;
  - `/*`;
  - `*/`;
  - `x ` (trailing space);
  - `//`;
  - an 80-column line.
- **Hint:** the size hint is scaled down from 100000 to a few characters, so that chunk boundaries fall inside small files.

| Run | Bounds | Checks | Expect |
|---|---|---|---|
| `runner_whole` | 2 files, up to 4 lines, each file in one chunk | `TypeOK`, `EmptyLinesExact`, `BlockCommentExact` | pass |
| `runner_chunked` | 1 file, up to 6 lines, every chunking (Hint 6) | `EmptyLinesSound`, `BlockCommentSound` | pass |
| `lineno_chunked` | 1 file, up to 5 lines, Hint 3 | `DiagLineNumber` | violation |
| `empty_chunked` | 1 file, up to 5 lines, Hint 3 | `EmptyLinesExact` | violation |
| `crlf` | 1 file, up to 2 lines, CRLF allowed | `CRLFFlagged` | violation |

**What the properties say:**

- `EmptyLinesExact` is the rule of spec §8 as an action property. The empty-line diagnostic fires on the 3rd, 6th, 9th... empty line of a run, and nowhere else.
- `BlockCommentExact` says that a `*/` line is reported exactly when an m4 file has an open `/*` at that point.
- In `runner_whole`, both are checked with two files, so a counter the first file leaves behind can reach the second file.
- The `Sound` versions keep only one direction: a diagnostic is always justified. They hold however readlines cuts the file.

**Why the bounds are enough:**

- Four lines give a run of three empty lines, and `/*` ... `*/` at any distance.
- Two files expose stale counters.
- In `runner_chunked`, six lines and Hint 6 let a chunk hold three empty lines, or an open and a close, on both sides of a boundary.

Every property of a passing run has a mutant in PROJECT.json: the same run fails when the reset at line 1, the zeroing on `*/` or the `> 2` threshold is changed.

**Deadlock checking.** `CHECK_DEADLOCK FALSE` is used because the program really does stop. After `NumFiles` files nothing is enabled, which corresponds to `main` returning.

**Fairness.** No liveness property is stated, because the runner is a plain loop over finite input, so no fairness is assumed.

### What the violations show (PROJECT.json "findings")

- **`lineno_chunked`** (line 325). A diagnostic on the first line of the second chunk is printed with line 1.
- **`empty_chunked`** (lines 325 and 143). A run of empty lines that crosses a chunk boundary is not reported at its third line.
- **`crlf`** (lines 279 and 317). A CRLF file is never reported, because universal newlines strip the `"\r"` before `check_file_unix` looks for it.

The first two affect only files over 100000 characters. Within one chunk, `runner_whole` shows that the code follows the spec.

## 4. Proofs (CheckRunnerProofs)

`tlapm CheckRunnerProofs.tla` checks every step. The constants are constrained only by the module's `ASSUME RunnerAssumption`:

- the categories are categories of the table;
- bodies are well formed;
- `Hint` is positive;
- `MaxLines` and `NumFiles` are natural numbers.

**`TypeCorrect`: `Spec => []TypeOK`.** It is proved by the lemmas `InitTypeOK` and `NextTypeOK`. The latter rests on three lemmas:

- `ProcessLineType`: `process_line` returns messages of `Msgs`, natural counters, and `"empty_lines"` only from `check_whitespace`. It uses `CheckResultsMsgs` and `ChecksOfNames`.
- `MsgsFinite`: the set of messages is finite, so the cardinality added to `errors` is a natural number.
- `ProcessLineInputs`.

**`EmptyLinesSoundThm`: `Spec => []EmptyLinesSound`,** for every hint, file length and file count. `EmptyLinesSound` on its own is not inductive: it says nothing about the counter it depends on. The proof goes through `EmptyInv`, which also states:

- within a chunk, `cur_lineno <= lineIdx`: the restart at each chunk only lowers the line number;
- after a file's first line, `empty_lines_count <= gRun`: the counter never exceeds the real run.

The argument for the `ProcessLine` step:

- If the new line number is 1, the counter restarts from 0.
- Otherwise `cur_lineno >= 1`, so `lineIdx >= 1`, so the old counter is at most the old run.
- Either way the new counter is at most the new run, and a firing needs a counter above 2.

TLC checked `EmptyInv` as an invariant on both `runner_whole` and `runner_chunked` before it was proved. The proof is split into `EmptyInit` and `EmptyStep`, because the next theorem builds on both.

**`BlockCommentSoundThm`: `Spec => BlockCommentSound`.** This is an action property: a `ProcessLine` step that reports an unopened `*/` happens only when the line's own `/*` ... `*/` bookkeeping says the comment was opened in the same file. It is stated for every hint, file length and file count. The step alone says nothing about `cc_count`, which `check_c_comments` carries from line to line, and from chunk to chunk, in one shared `CheckRunner`. The proof goes through `CommentInv == EmptyInv /\ CommentCounted`:

- `CommentCounted`: in a file whose category runs `check_c_comments`, after its first line, `cc_count > 0` implies `gOpen` (a `/*` of this file is still unclosed).
- It holds initially and at `StartFile` vacuously, because `lineIdx = 0`.
- At `ProcessLine`, lemma `StartCountOpen` covers the counter that `process_line` starts from:
  - at line number 1 the counter is reset to 0;
  - otherwise `lineIdx >= 1` by `EmptyInv`, and `CommentCounted` applies.
- `ProcessLineComment` then follows the line through `check_c_comments`:
  - a `/*` line sets both the counter and `gOpen`;
  - a `*/` line clears both;
  - any other line leaves both unchanged.

The invariant is needed because a stale counter from an earlier file or an earlier chunk is exactly what the property is about. The reset at line number 1 is what makes it hold. TLC checked `CommentInv` on `runner_whole` (823,290 states) and `runner_chunked` before it was proved.

**Left to TLC:**

- the `Exact` properties and everything about fixed bounds. They hold only when a file fits in one chunk, and whether it does is a sum over `PrefixLen`, a recursive definition;
- liveness and `ENABLED`;
- what a recursive definition computes for every input (for example `PrefixLen`), because induction over data is out of the provers' reach.

## 5. Not modelled yet, and the plan

1. **`Traversal`** will model:
   - `parse_any_file`, `rec_quasiglob`, `build_file_list` and the driver's file and directory arguments, over a small set of paths with model-value names;
   - the exclude filter, including the empty string;
   - per-pattern double processing when `fnmatch` is case-insensitive;
   - the `files` statistics;
   - the exit status;
   - an abort action for `open` and decode errors.

   It will compose with `CheckRunner`, with `StartFile` driven by classification.
2. **`LineChecks`** will model the character-level checks over a small alphabet as functions, checked against reference definitions. It will cover:
   - trailing whitespace;
   - indentation widths 4 to 16;
   - termination;
   - `line[index-1]` at index 0;
   - the order of `/*` and `*/`;
   - `expandtabs` width.

   A refinement will show that the `Bodies` abstraction of `CheckRunner` is what those functions compute.
3. **More theorems:**
   - a refinement of the runner to an abstract per-file checker (one diagnostic set per line, no chunks) for files within one chunk.

## 6. The Conan recipe (src/conanfile.py)

### Modules

| Module | Models |
|---|---|
| `ConanOptions` | the `options` table (`OptNames`), `default_options`, and `Assign(o, pv)`, which is what a series of `self.options.x = v` does |
| `ConanRecipe` | the recipe as Conan 2 runs it for one package |
| `ConanConfig` | the abstract specification: what the option handling promises, with the platform values the comments of `default_options` (lines 70-82) state |
| `MCConanRecipe` | platforms and profiles for TLC |
| `ConanRecipeProofs` | TLAPS proofs |

`ConanRecipe` has one action per recipe method, in the order Conan 2 calls them. Between `config_options` and `configure` it has `UserOptions`, where Conan applies the profile's and the command line's option values (`user`, a partial function). That order, and the "Duplicated requirement" error that `self.requires` raises for a second requirement of a package name, are Conan's behaviour. They are not code of this repository, and they are modelled as documented by Conan. `Assign`, `DupAt`, `Made` and `UserOptions` model Conan, so they have no entry in the map.

| Action | Code | Effect |
|---|---|---|
| `Init` | `default_options` 55-86 | |
| `ConfigOptions` | `config_options` 88-140 | one record per OS branch; an OS without a branch keeps the defaults |
| `Configure` | `configure` 142-145 | `rm_safe("fPIC")` when `shared` |
| `Requirements` | `requirements` 147-211 | its `self.requires` calls as a sequence of condition and requirement. The run fails at the first call whose package name was already required. The `pass` branches (alsa, jack, portaudio, gtk, and libvpx with FFmpeg) require nothing. |
| `BuildRequirements` | 213-214 | |
| `Generate` | 219-248 | `tc.variables`; CONAN_VPX_ENABLED is written twice with the same value |
| `PackageInfo` | 260-284 | the per-OS `system_libs` and `frameworks`; the constant `bindirs`, `libs` and properties are left out |

`layout`, `build` and `package` only call `cmake_layout`, `CMake` and `copy` on the file system. They are not modelled.

### Runs

All runs use `MCConanRecipe`:

- the platforms are Linux, Macos, Windows, iOS, Android and FreeBSD (an OS with no branch);
- `recipe_refine` leaves out Android, where the code breaks the promise, and `recipe_sdl` checks Android alone;
- in `recipe_all` and `recipe_refine`, the profiles are every partial assignment of `shared`, `with_vpx`, `with_ffmpeg`, `with_pulseaudio`, `with_pipewire`, `with_gstreamer` and `with_sdl`. These are the options some branch of the recipe tests.

| Run | Checks | Expect |
|---|---|---|
| `recipe_all` | `TypeOK`, `NoDuplicatedRequirement`, `LinuxAudioOnLinux`, `MobileWithoutGStreamer`, `VpxPinnedForFfmpeg` | pass (104,976 states) |
| `recipe_refine` | `ConfigRefined`: the recipe implements `ConanConfig`, on every platform but Android | pass |
| `recipe_sdl` | `ConfigRefined` on Android, profiles over `with_sdl` | violation |
| `recipe_default` | `TemporarilyDisabled`, profiles over `with_opus` | violation |
| `recipe_opus` | `RequiredMeansEnabled`, profiles setting `with_opus` | violation |
| `recipe_vpx` | `EnabledMeansRequired`, Linux, profiles over `with_vpx` and `with_ffmpeg` | violation |

`CHECK_DEADLOCK FALSE` is used because a Conan run ends: "done" after `package_info`, "failed" after a raising `requires`.

**Refinement.** `ConanConfig` has a single step, `Resolve`, which decides every option at once. Its precedence is profile value, then platform value, then default, and a shared build has no `fPIC`. Its platform values are not copied from `config_options`. They come from what the comments of `default_options` promise:

- ALSA, PulseAudio, PipeWire and GTK are "enabled on Linux";
- PortAudio is "enabled per platform" on the three desktop systems;
- GStreamer and SDL are "disabled on mobile", meaning iOS and Android.

 `ConanRecipe` maps onto it with `config` set as follows:

- the empty function until `configure` has returned;
- `opts` afterwards.

So `Configure` is the `Resolve` step and every other action is a stutter.

The mutants, in PROJECT.json, each change one recipe definition, and the run then fails:

- a forgotten branch assignment;
- a dropped `with_ffmpeg` test;
- `rm_safe` given the wrong option.

**Fairness.** No liveness is stated. The recipe is straight-line code with no loop or wait, and every phase has exactly one enabled successor. Termination would hold by the model's shape whatever the code did.

### Findings

- **`recipe_sdl`** (line 133). The Android branch of `config_options` sets `with_gstreamer` to False but leaves `with_sdl` True, so an Android build requires sdl. The comment on `with_sdl` (line 82) says "(disabled on mobile)". Line 80 uses the same words for GStreamer, which both mobile branches do disable.
- **`recipe_default`** (line 61). `with_opus` defaults to True, so CMake gets `CONAN_OPUS_ENABLED=True` from a bare profile. The comment on that line says "Temporarily disabled", as line 67 says of `with_vpx`, whose default is False. The header of the block (line 60, "Enable common codecs by default") agrees with the value, so the stale text may be the comment. The model reports the disagreement and leaves the choice to the maintainers.
- **`recipe_opus`** (line 152). `opus/1.4` is required even with `with_opus=False`, while CMake is told that opus is disabled.
- **`recipe_vpx`** (line 166). With `with_vpx` and `with_ffmpeg`, CMake gets `CONAN_VPX_ENABLED=True`, but the only libvpx reference is the `override=True` one of line 154. It pins a version and adds no dependency. This fits the line-67 comment about libvpx include problems.

### Proofs (ConanRecipeProofs)

These are proved from `RecipeAssumption` alone (platforms are strings; profile values are Booleans over `OptNames`), for every set of platforms and profiles.

- **`Refinement`: `ASSUME "Android" \notin OSes PROVE Spec => ConfigRefined`.** The hypothesis is needed, because the property is false on Android (run `recipe_sdl`). It rests on these lemmas:
  - `PlatformValues`: after `config_options`, each option has the value `CodePlatformValue`. That operator is `ConanConfig`'s documented platform value, except that `with_sdl` stays TRUE on Android. It is proved by a case split over the five branches.
  - `PromiseKept`: on any platform other than Android, the options `configure` leaves (`CodeResolved`) are exactly `ConanConfig`'s `Resolved`. Together with `PlatformValues`, this pins the divergence to one option on one platform.
  - `ResolveCorrect`: `configure(Assign(config_options(default_options, s), u))` equals `CodeResolved(s, u)`.
  - The inductive invariant `RefInv`. It gives `opts` in each phase as what the calls so far made of `default_options`. It is needed because the mapping only shows `opts` from `configure` on. TLC checked `RefInv` on the `recipe_all` instance before it was proved.
- **`NoDuplicatedRequirementThm`: `Spec => []NoDuplicatedRequirement`.** Lemma `NoDupAt` shows that, among the thirteen calls, only calls 3 and 5 share a name (libvpx). Their conditions, `with_ffmpeg /\ with_vpx` and `with_vpx /\ ~with_ffmpeg`, exclude each other. So `requirements` never raises, for any option values.

- **`OutInvariant`: `Spec => []OutInv`.** `OutInv` extends `RefInv` with what the later phases computed:
  - once `requirements` has run, `requires` is `Made(requirements(opts, os), 14)`, the references of the calls whose condition held;
  - once `generate` has run, `cmake` is `generate(opts)`.

  The property theorems below read their conclusions off this invariant. TLC checked `OutInv` on `recipe_all` before it was proved.
- **`LinuxAudioOnLinuxThm`: `Spec => []LinuxAudioOnLinux`.** The value of `with_alsa`, `with_pulseaudio` and `with_pipewire` is what `CodeResolved` gives (lemma `ResolvedValue`). On Linux the platform value is TRUE, and elsewhere it is the default FALSE, unless the profile sets it.
- **`MobileWithoutGStreamerThm`** and **`VpxPinnedForFfmpegThm`.** They read the required references off `Made`:
  - `MadeFrom` and `NameFrom` say a required name comes from a call whose condition held;
  - `VpxCalls` and `NameIn` go the other way, for libvpx.

  The iOS and Android branches set `with_gstreamer` (and, on iOS, `with_sdl`) to FALSE. Calls 3 and 5 give libvpx as the override 1.14.1 under FFmpeg and as 1.15.2 otherwise.
- **`RecipeTypeCorrect`: `Spec => []TypeOK`.** Each method keeps its outputs in the recipe's own vocabulary (lemmas `ConfigureType`, `ReqType`, `MadeType`, `GenerateType`, `PackageInfoType`). `TypeOK` names that vocabulary as finite sets of literals:
  - `PkgNames`, `Versions`, `SysLibs` and `Frameworks`;
  - not `STRING`, because the provers have no fact that a string literal is a member of `STRING`.

  The sets are also tighter, so TypeOK says more: no other name or version ever appears.

Every invariant of `recipe_all` is now proved. What stays with TLC:

- the four violation runs, which are counterexamples;
- the termination of a Conan run, which is not stated (see Fairness).
