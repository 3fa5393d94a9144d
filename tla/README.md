# TLA+ models of the Phytium FreeRTOS SDK build tools

This directory holds TLA+ models of the Python tooling in `src/`. Most of that
tooling wraps the C SDK. The part with real control logic is the AMP
(asymmetric multi-processing) image builder:

- `src/standalone/tools/build/py_tools/amp_parse_config.py` reads an AMP
  configuration, checks it, builds every core's image with `make`, packs the
  images into `packed.bin` files, and builds the final `packed_image`.
- `src/standalone/tools/build/py_tools/boot_memory_check.py` checks that the
  bootstrap image fits one of the board's available memory windows.

The other scripts are modelled too: the MISRA-C checker, the installer, the
example-config refresher, the clang-format driver and the IDE exporter. Each
model follows the control flow of its script line by line. The models look for
wrong images, wrong exit statuses, checks that come too late, verdicts that
hide findings, and state that survives from one run into the next.

## 1. Inventory

### Parts of the system and how they interact

| Part | Source | State it changes | Operations |
|---|---|---|---|
| BuildOrchestrator | `amp_parse_config.py` `__main__`, `load_check_update_kconfig`, `execute_make_commands` | each image directory's `sdkconfig`, `.elf` and `packed.bin`; the top-level `packed.bin`; the exit status | duplicate checks, `make clean` + `make load_kconfig` per image, per-group build loop, master build, pack, final `make` |
| ConfigValidator | `ConfigManager.compare_configs`, `configs_path_get`, `extract_config_values` | none (reads `sdkconfig`; may `exit(1)`) | required-key consistency across images |
| MemoryRegionChecker | `ConfigManager.check_overlap`; `check_memory_overlap.py` | none | pairwise `[load, load+len)` overlap |
| BootPlacementValidator | `boot_memory_check.py` | exit status | first-fit search over `AVAILABLE_SPACE_START/END_<n>` |
| ImagePacker | `pack_elf_files` | `packed.bin` | concatenate ELF files in list order |
| ConfigStore | `read_config_values`, `extract_config_values`, `read_config`, `remove_config_line`, `replace_config_values` | `sdkconfig` | line-prefix reads, line removal, value replacement |
| ReportFormatter | `format_comparison_result`, `format_overlap_result` | none | message text |
| ConfigRefresher | `src/tools/refresh_config.py` | each example's `configs/*.config` and `sdkconfig`; exit status | `make load_kconfig`, `update_menuconfig`, `backup_kconfig` per config, stop at the first failure |
| Installer | `src/install.py` | the `standalone/` git checkout, across runs | platform check, clone, sparse checkout, checkout, or the rev-parse version check |
| MisraCheck | `others/misrac_cppcheck/misrac_cppcheck.py` | the `cppcheck` clone, `.dump` files, the output file; exit status | argument check, clone, header-directory search, `cppcheck --dump` per path, `misra.py` per path, cleanup, root stripping, verdict grep |
| CodeFormatter | `others/format/code_format.py` | the formatted sources | part-name expansion, file search, three filter rules, `clang-format -i` per file |
| IdeExporter | `export_ide/gen_proj.py` | `example_ide/<example>`, across runs | template copy with renaming, linker scripts, `.mkfile`, `../common`, the example walk |
| YmodemFlash | `console/ymodem_flash.py` | the serial port | opens the port and hands the file to the external `ymodem` library |

A run of `amp_parse_config.py` goes through these steps in order:

1. It reads `amp_config.json`. `configs[AMP_CONFIG]` is a list of groups. Each
   group maps a name to `[path, core, master, config file]`.
2. It merges all groups into one dict, `combined_data`, keyed by name.
3. `load_check_update_kconfig` rejects duplicate paths and duplicate cores
   (core `-1` is excluded). It then runs `make clean` and
   `make load_kconfig` in every image directory.
4. `ConfigManager` compares the six required keys across the images. It checks
   that the load ranges are pairwise disjoint, then reads the execution state
   from the first image.
5. `execute_make_commands` runs for groups 1..n-1, then for group 0 (only when
   group 0 has more than one entry). Within a group it works as follows:
   - Each non-bootstrap image gets the aarch32 fixup: it removes
     `CONFIG_USE_AARCH64_L1_TO_AARCH32=y` and runs `make gen_kconfig`.
   - Each ordinary image is built with `make all`. Its `.elf` files are
     collected.
   - A master is checked (core must not be `-1`; at most one per group). Then
     all the group's images are packed into the master's `packed.bin`, and the
     master is built so that it embeds them.
6. The collected `.elf` files are packed into the top-level `packed.bin`.
7. The bootstrap's `CONFIG_MSDF` and `CONFIG_MSDF_CORE_ID` are checked. Then
   `make` builds the final image that embeds the top-level `packed.bin`.

### Hard behaviours

- Nothing runs concurrently. The process is sequential, but every `make` can
  fail. The process can stop at each of about fifteen exits, each with its own
  status.
- State from earlier runs persists. Old `sdkconfig` and `.elf` files remain in
  image directories that this run does not reload.
- Names collide across groups. The `dict.update` merge hides some entries from
  the pre-flight steps, but the build loop still builds them.
- Ordering matters: slaves before their master, and groups 1..n-1 before
  group 0. The master's output replaces `out_elf_path` rather than adding to
  it.
- Numeric boundaries matter: half-open overlap and inclusive window ends.

## 2. Modules

### `AmpBuild.tla`: BuildOrchestrator, ConfigValidator, ImagePacker and `check_overlap`

The model is one sequential process with a `pc` variable. The table below maps
its state to the code.

| Variable | Code |
|---|---|
| `groups`, `defcfg` | the chosen `AMP_CONFIG` entry and the `configs/*.config` files |
| `li` | loop index of `load_check_update_kconfig` |
| `cfgState` | `config_values["CONFIG_ARCH_EXECUTION_STATE"]` |
| `gi`, `ui`, `loc` | the group loop of `__main__`, the item loop of `execute_make_commands`, and its locals (`master_flag`, `bootstrap_flag`, `out_elf_path`, `master_path`, `result`) |
| `sdk[p]`, `elf[p]`, `packed[p]` | the files in image directory `p` |
| `buildElfs`, `top` | `build_elf_paths` and the top-level `packed.bin` |
| `makeAll` | every `make all`, in order |
| `final`, `exit` | `packed_image` and the process exit status |

There is one action per step of `__main__`: `CheckDuplicates`, `LoadKconfig`,
`CompareConfigs`, `CheckOverlap`, `MakeUnit`, `GroupFinish`, `PackImage`,
`BootstrapGate` and `FinalBuild`.

- Every `make` is chosen from `Outcomes = {0, ToolErr}`.
- A non-zero result exits with that code, as the code does.
- `sys.exit(result)` is modelled as `ExitOf(result)`. An unbound `result`
  raises `UnboundLocalError`, so the status is 1.

Data is abstracted as follows:

- An `sdkconfig` is a record of what the checks read: execution state, board,
  load address and length, the compat line, and the MSDF settings.
- A stale `sdkconfig` (`StaleCfg`) makes any later check give either result.
- An `.elf` is `[path, cfg, embeds]`. It records the configuration it was
  built from and the images packed into it, so a wrong order or a missing
  fixup shows up as an unequal value.

`MC_AmpBuild.tla` defines the instances:

- `TopologySet`: group 0 holds the bootstrap and at most one more image.
  Group 1 holds one or two images. Each image has a directory from P1..P3, a
  core from {-1, 1, 2} and a master flag, giving 5,700 topologies. This covers
  every master, core and path error and the group-0 rules.
- `ScenarioSet`: the spec's scenario of section 8, with two slaves and a
  master. The master is listed last or first, and one variant has no
  bootstrap.
- `MixedDefconfigs`: both execution states, two boards, every load range in
  0..3 with length 1..2, and the bootstrap's MSDF on, off, on the wrong core,
  or missing.
- `CollisionSet`: the name-reuse case.
- The constant `Cases` pairs a topology with its configurations:
  `BuildCases` is `TopologySet × GoodDefconfigs` together with
  `ScenarioSet × MixedDefconfigs`, so one run covers both without the
  product of all topologies and all configuration mixes.

### `BootMemoryCheck.tla`: BootPlacementValidator

The variables mirror the code:

- `boot` is the load address and length.
- `win` holds the windows `START_n..END_n`, n = 0..k-1.
- `i` and `flag` are the loop index and `available_flg`.

The actions are `Scan` (one loop iteration, with the `break`), `LoopEnd`,
`Decide` (the `exit(1)`) and `Done`. Header parsing is abstracted to the
integers it produces. A header's windows are non-empty (`START_n < END_n`).
The model keeps the code's comparison (`boot_load_end = start + len - 1`,
accepted when `<= END_n`). `PlacedHalfOpen` reads the windows and the image
the way spec sections 4.4 and 8 write them, as `[start, end)`.

### `MisraCheck.tla`: misrac_cppcheck.py

One process; `pc` walks `__main__`: `ParseArguments` (argparse's usage
error, exit 2, for a missing or empty list), `ClearOutput`, `CloneRepo`, `CheckPath`
(the first loop: header directories and `cppcheck --dump`), `CheckDone`,
`MisraPath` (the second loop), `Cleanup` (`cleanup_files` and
`remove_keywords`) and `Verdict` (the grep and `exit(1)`).

- A path is a sequence of tokens, so Python's `a in b` is `a \in SubSeqs(b)`,
  `startswith` is `IsPrefix`, and `str.replace` is the recursive `Strip`.
- `update_header_dirs` is the recursive `UpdateLoop`, statement for statement.
- `find_project_root` is the recursive `FindProjectRoot`, which walks
  `Dirname` up from `StartPath`. `Root` (`FILES_PATH_TO_RUN_CPP_CHECK`) is
  its result. `ProjectRootIsNearest` compares it with the nearest marked
  ancestor over five start directories, one of them with no marker at all.
- `tool` is the state of the `cppcheck` clone directory: absent, empty, holding
  a partial or foreign checkout (`junk`), or a real clone. A non-empty
  directory is never re-cloned, and a failed clone leaves it empty.
- What cppcheck and misra.py print is abstracted to one line per finding
  (path and rule), a warning line, and the error lines that name no rule.
- `ALL_MISRAC_RULE` is the code's own list: `RuleCounts` gives the rules per
  chapter, and chapter 21 is spelled out as the code has it, without 21.13,
  21.17 and 21.18 and with 21.12 twice. `RuleId` spells each one as tokens,
  and `AllRules` is the set the suppression list is taken from.
- `MC_MisraCheck` selects rules 1.1, 11.1 and 21.18, or none. 21.18 is
  missing from the code's rule list, so it is never suppressed. It has two paths, violation
  sets of up to two findings, and five header directories, one of them under
  an ignored root.

### `Installer.tla`: install.py

The script is run `MaxRuns` times on one machine. `tree` (whether
`standalone/` exists, what HEAD names, whether sparse checkout was applied) and
`history` (what each run printed last, and the HEAD it left) persist between
runs.

- The actions are `Start`, `CheckPlatform`, `Clone`, `SparseCheckout`,
  `Checkout`, `RevParseCheck` and `Interrupt`. `Interrupt` is a run cut short
  between any two steps.
- `git clone` may succeed, fail cleanly (then `os.chdir` raises), or be killed
  before the first checkout. The last case leaves a tree whose HEAD does not
  resolve; `git rev-parse` then echoes `HEAD`.
- `git checkout` may fail; its status is ignored.

### `RefreshConfig.tla`: refresh_config.py

- `pi`, `ci` and `mi` are the three nested loops: projects, sorted configs and
  commands.
- `RunCommand` is one `subprocess.call`. Its outcome is 0, a failure (2), or a
  signal (-2). A failing make may or may not have written its files.
- A file's content is abstracted to which config it came from and whether
  `update_menuconfig` refreshed it. A cross-config write therefore shows up as
  a wrong `from`.
- `ExitStatus(r) = r % 256` is the status the shell sees after
  `sys.exit(result)`.

### `RefreshSpec.tla`: what refresh_config.py promises

- It is the abstract specification of the script, with no makes. The config
  files are refreshed one at a time in a fixed `Order` (`Refresh`). A
  failure stops with a status in 1..255 and may or may not have refreshed the
  config it was on (`Fail`). Success is reported after the last config
  (`Succeed`). `WF_vars(Next)` makes it end.
- `RefreshConfig` defines `Abstract == INSTANCE RefreshSpec WITH ...`:
  - `Order` is `VisitOrder`, the project configs flattened in loop order;
  - `files` is the config files of those projects;
  - `k` is `Position`: the configs of earlier projects, plus `ci`, plus one
    once the config's `backup_kconfig` has returned 0;
  - `state` follows `pc`.
- The load and update makes of a config, `NextConfig` and `NextProject` are
  abstract stutter steps. A successful `backup_kconfig` is `Refresh`, and a
  failing make is `Fail`.

### `CodeFormat.tla`: code_format.py

- `Collect` covers the argument check, the `if '<part>' in target_dir` chain
  (exact list membership, each test seeing the list the previous one left)
  and `find_c_files`.
- `FormatFile` is one loop iteration: the three filter rules, then
  clang-format, which may succeed or fail, and the count.
- `filter_dir.json` is not in the repository, so its rules are constants.
- The instance has two filter files. One has a conditional exclude with no
  markers, which excludes every file holding its substring.
- The targets are part names, a part name with a trailing `/`, plain
  directories, and a wrong argument count.

### `GenProj.tla`: gen_proj.py

- The export directory is a map from path to content. It persists across
  `MaxRuns` runs, and the example may be edited between runs.
- `ReadSdkDir` is the module-level `os.path.abspath(os.getenv("SDK_DIR"))`.
  It raises when `SDK_DIR` is unset, before `main`'s `try`, so that run ends
  with a traceback and status 1.
- The actions follow `main`: `CopyTemplate` (`copy_template_proj` with its
  `rmtree`, the renaming of `.project`, `.cproject` and `*.launch`, and the
  linker scripts), `CopyMakefile` (the `../common` rewrite and `need_copy`;
  a missing makefile raises), `CopyCommon` and `CopyExample` (the walk with
  its skips).
- Content is a token sequence, so `str.replace` of a token is a map over the
  sequence.

### `ConfigStore.tla`: an sdkconfig at the line level

- `lines` is the file: assignments `KEY=VALUE`, `# KEY is not set` lines,
  section comments and blank lines. A line is a record; `Text` renders it as
  the token sequence the code's `startswith`, `split('=')` and `strip() ==`
  see. A key is a sequence of name parts, so one symbol's name can extend
  another's (`CONFIG_SOC_NAME`, `CONFIG_SOC_NAME_EXT`).
- The actions are `Load` (`make load_kconfig` copies a defconfig written by
  Kconfig), `RemoveLine` (`remove_config_line` with the aarch32 line) and
  `Replace` (`replace_config_values`, which `main` never calls).
- The readers are the operators `ExtractConfigValues` and `ReadConfig`.
  `View` is what the file means to Kconfig: the last assignment of each
  symbol, `Unset` otherwise.
- No abstract store is refined. `replace_config_values` has no caller in
  `src/`. The one live removal deletes a line that Kconfig writes on its own,
  so a refinement would hold by construction.
- `MC_ConfigStore` writes the four symbols in a fixed Kconfig order. Each
  symbol is absent, not set, or assigned. One value is a quoted string
  holding `=`. A file may open with a section header. That gives 162 files
  and 804 states.

## 3. Runs

| Run | Expect | What it shows |
|---|---|---|
| `amp_build` | pass | `TypeOK`, `FinalImageValid`, `AssemblyFaithful` hold over all 5,700 topologies × 2 execution states × every `make` outcome, and over every mix of boards, ranges and MSDF settings for the spec's scenario (`BuildCases`, 227k states, 17 s). |
| `misra_check` | pass | `VerdictCompleteWithTool`: with misra.py in place, a passing verdict means no selected rule is violated. `ProjectRootIsNearest`: `find_project_root` finds the nearest directory holding `.gitlab` (24k states, with empty argument lists among the inputs). |
| `refresh_config` | pass | `NoCrossWrite`: no `configs/<c>.config` ever holds another config's settings. `ExitMeansAllRefreshed`: success is reported only when every config passed all three makes. `Refinement`: the script implements `RefreshSpec` (no config skipped or refreshed twice, none refreshed out of order, each written back after `update_menuconfig` with its own settings; a swap of the last two makes breaks only this property). 101 states. |
| `config_store` | pass | `ReadersAgree`: `extract_config_values` and `read_config` read every symbol as the file means it, with a longer name sharing the prefix, "not set" lines and values holding `=` (544 states). |
| `code_format` | pass | `TypeOK`: only `.c` and `.h` files are collected, and the count never exceeds the number collected (116 states). |
| `gen_proj` | pass | `ExportIsFresh`: a finished export holds only files of this run's sources. `EclipseFilesNamed`: its `.project` and `.cproject` carry the example's name even when the example ships its own (680 states). |
| `amp_exit_zero` | violation | `ErrorNeverExitsZero`: a topology error exits with status 0. |
| `amp_preflight` | violation | `NoBuildOnInvalidTopology`: images are built before the topology checks reject the configuration. `TopologyValid` includes the spec's unique config names, and the inputs include two images sharing one (`PreflightCases`). |
| `amp_name_collision` | violation | `FinalImageValid`: a reused name lets an unchecked image into `packed_image`. |
| `misra_verdict_complete` | violation | `VerdictComplete`: a non-empty cppcheck directory without misra.py makes the check report compliance with violations present. |
| `boot_window` | violation | `PlacedHalfOpen`: with the spec's half-open windows, the script accepts a boot image whose last byte is `END_n` itself, one byte past the window (window `[0, 1)`, image `[0, 2)`). |
| `installer_success` | violation | `SuccessMeansPinned`: a first run whose `git checkout` of the pinned commit fails still prints both success messages, with HEAD at the master tip. |

The properties check the following:

- **`FinalImageValid`**: whenever `packed_image` is built, the topology and the
  configurations are valid. The topology is valid when each group has at most
  one master, no master is on core -1, and paths, config names and cores are unique. The
  configurations are valid when the required keys are consistent, the ranges
  are disjoint, a bootstrap exists, and the MSDF gate holds.
- **`AssemblyFaithful`**: the final image embeds groups 2..N and then group 1.
  Each group is its slaves followed by the master that embeds them. Every
  image is built from its fixed-up configuration.

Both properties need the whole run to go wrong. Every property of every passing
run has a mutant: a one-line change to the code that breaks it, listed in
`PROJECT.json`. Examples:
- `backup_kconfig` run first;
- `update_menuconfig` run after `backup_kconfig`;
- `result > 0` as the failure test;
- no `rmtree` before the template copy;
- no skip list in the example walk.

### Bounds

Each topology bound covers a specific case:

- Two groups and at most two images per group cover these cases: a master
  before or after its slaves, two masters, a master on core -1, group 0 with a
  second image, and group 0 built or skipped.
- Three directories and cores {-1, 1, 2} give every duplicate-path and
  duplicate-core case. They also allow a duplicate among several `-1` cores,
  which the code must allow.
- Three images are needed only for the spec's scenario, so that run uses fixed
  topologies.

The bounds of the script models:

- Installer: the violation needs one run. Three runs also reach a tree that a
  cut-short clone left behind and the later runs that find it.
- RefreshConfig: four directories (one without `sdkconfig.h`) and two configs
  per project give every position a failure can stop at.
- GenProj: three exports let an example lose a file between two exports.
- ConfigStore: four symbols are enough for a required name, a name that
  extends it, the aarch32 switch that gets removed, and a symbol that
  `replace_config_values` appends. Loads restart from any defconfig, so every
  sequence of edits is reached from every file.

Each content bound covers a specific case:

- Ranges in 0..3 with length 1..2 give disjoint, touching and overlapping
  pairs.
- Windows and addresses up to 4 give windows that touch and nest, and images
  that end inside a window, on its end, or past it.

### Fairness

Only `RefreshConfig` and its abstract `RefreshSpec` assume fairness:
`WF_vars(Next)`. The script is one process with no waits of its own. The
assumption is that every `make` returns: `subprocess.call` has no timeout, so
a hung make would stop the script. `Refinement` includes the abstract
specification's fairness. No separate termination property is checked: it
would follow from the finite loops and this assumption alone.

The other models are also finite and sequential, but they check no liveness
property. `CHECK_DEADLOCK` is left on everywhere. The terminal states stutter
through `Terminated` or `Done`.

## 4. Findings

The findings with a run are listed in `PROJECT.json`:

1. **Topology errors can exit with status 0.** This is a code bug at
   `amp_parse_config.py:288/292/345`. `sys.exit(result)` reuses the status of
   the last `make`.
2. **Topology checks come too late.** The master and core checks run after
   some images were already built with `make all`. Spec section 7 requires them
   before any build.
   The same run covers duplicate config names (`amp_parse_config.py:428`).
   `config_items` is collected, but only the lengths of the three lists are
   compared. Two images in different directories that load the same config
   name are therefore built. Spec section 4.5 makes this a fatal pre-flight
   error. From those inputs alone TLC reaches `make all`.
3. **A reused image name evades the checks.** The hidden entry is never loaded
   or checked, but it is still built, so the same directory can be built twice.
4. **The MISRA check can pass with violations present.**
   `clone_repo_at_commit` skips a non-empty `cppcheck` directory and ignores
   `git clone`'s status. Without `addons/misra.py` no finding is printed, and
   the script reports compliance.
5. **The boot window check is off by one against the spec.** This is a
   spec/code divergence at `boot_memory_check.py:66/76`. The code compares
   the image's last byte with `END_n` using `<=`. Spec sections 4.4 and 8
   write windows as `[start, end)`. Under that reading, an image ending on
   `END_n` is one byte too long, yet it is accepted.
6. **install.py reports success after a failed checkout.** This is a code
   bug at `install.py:62`. No `os.system` status is looked at. A run whose
   `git checkout` of `standalone_sdk_v` fails prints both success messages
   and leaves HEAD at the master tip. Every later run then stops with the
   version warning.

The models also reach the following. These are recorded as hazards in
`PROJECT.json`, with the model behaviour that shows each one:

- Selecting MISRA rule 1.1 fails the check on a 21.18 finding. The grep is a
  substring test, and 21.18 is missing from the rule list.
- `code_format.py` counts files clang-format failed on.
- `gen_proj.py` has three issues:
  - It exports the contents of `build/` subdirectories.
  - It exits 0 after printing "Failed to creating eclipse project!".
  - It rewrites `../common` to `./common` without copying common, unless the
    makefile uses `../common/inc` or `../common/*.c`.

Reading the code also found hazards that no model reaches; they too are
recorded in `PROJECT.json`:

- `gen_proj.py` run outside `example/` gets a `proj_path` with `..` in it
  (`gen_proj.py:106`). The path then names a directory outside
  `example_ide`, the working directory itself when that is inside the SDK.
  Once `example_ide` exists, `copy_template_proj` deletes that directory
  with `rmtree`.
- `ymodem_flash.py` ignores the result of `send`, so a failed transfer still
  exits with status 0.

## 5. Not modelled

- **`read_config_values` at the line level.** It stores a matched line
  under the required name, so a later symbol whose name extends that name is
  read in its place. `check_overlap` also unpacks `values()` in line order.
  Whether either bites depends on the Kconfig symbol names and order. Neither
  is in the repository, so no property states them. `AmpBuild` takes the
  function's result as a record field.
- **An abstract build specification.** `AmpBuild` is not refined from a
  separate abstract module. What the build promises is stated directly
  instead: `AssemblyFaithful` gives the image a valid configuration must
  produce (`ExpectedImage`, after spec 4.5), and `FinalImageValid` says when
  one may be produced at all.
- **`check_memory_overlap.py`.** Nothing in the repository calls it. It
  imports `check_memory_regions` from `memory_regions_checker`, which is not
  in the repository either. `ConfigManager.check_overlap` is the overlap
  check the build runs, and it is modelled.
- **The board header parser of `boot_memory_check.py`.** `BootMemoryCheck`
  takes windows `0..k-1` with both bounds, as the spec describes the
  generated header (spec section 6). A header with a gap or a missing bound makes
  the loop raise `KeyError`. That case is recorded as a hazard.
- **`ymodem_flash.py`.** The transfer protocol (packets, retries,
  timeouts) is in the external `ymodem` library. The script opens the serial
  port, resolves the file path after `os.chdir(sys.path[0])`, and calls
  `Modem.send`. `TaskProgressBar` keeps state only to draw the bar. The
  library decides when `show` is called and with what counts, so a model of
  the script would be a model of the library. Two issues are recorded as
  hazards instead:
  - `show` divides by zero when `total` is 0, and `ceil` shows 100% one
    packet early for files of more than 50 packets;
  - the result of `send` is ignored, so a failed transfer exits with status 0.
- **Left out of the script models:**
  - `diff_files` of `code_format.py`: it is never called.
  - The report formatting of `amp_parse_config.py`: it builds text only.
