------------------------------ MODULE AmpBuild ------------------------------
(***************************************************************************)
(* The AMP build orchestrator of                                           *)
(*   src/standalone/tools/build/py_tools/amp_parse_config.py               *)
(* run as one sequential process: the duplicate checks and per-image       *)
(* kconfig loading of load_check_update_kconfig, the ConfigManager checks  *)
(* (compare_configs, check_overlap, extract_config_values), one            *)
(* execute_make_commands per build group (groups 1..n-1, then group 0),    *)
(* the top-level pack, the bootstrap MSDF gate and the final build.        *)
(*                                                                         *)
(* Data is abstracted: an sdkconfig is a record of the values the checks   *)
(* read, an .elf is the record of the configuration it was built from and  *)
(* the images packed into it, and every external make either exits 0 or    *)
(* exits with the non-zero code ToolErr.                                   *)
(***************************************************************************)
EXTENDS Integers, Sequences, SequencesExt, FiniteSets

CONSTANTS
    Paths,        \* image source directories (model values)
    BuildPath,    \* the directory amp_parse_config.py runs in (cwd)
    Cases,        \* the inputs of one run: pairs of a value of
                  \* configs[AMP_CONFIG] (Seq of groups) and the contents
                  \* of the configs/<cfg>.config files
    StaleCfg,     \* an sdkconfig left over from an earlier run
    NoValue,      \* a variable or dict entry that holds nothing
    Unbound,      \* the local `result` before its first assignment
    ToolErr       \* the non-zero exit code of a failing make

ASSUME ToolErr \in Int \ {0}

(* The exit codes a make may return.                                       *)
Outcomes == {0, ToolErr}

VARIABLES
    groups,     \* the AMP_CONFIG entry: a sequence of groups of units
    defcfg,     \* defcfg[p]: what make load_kconfig writes to p/sdkconfig
    pc,         \* the step of main the process is at
    li,         \* loop index of load_check_update_kconfig
    cfgState,   \* config_values["CONFIG_ARCH_EXECUTION_STATE"]
    gi,         \* index into BuildOrder of the group being built
    ui,         \* loop index of execute_make_commands over the group
    loc,        \* the locals of the running execute_make_commands
    sdk,        \* sdk[p]: the contents of p/sdkconfig
    elf,        \* elf[p]: the .elf file in p
    packed,     \* packed[p]: the contents of p/packed.bin
    buildElfs,  \* build_elf_paths
    top,        \* the top-level packed.bin in BuildPath
    makeAll,    \* every `make all` invoked, in order
    final,      \* the packed_image built by the last make, or NoValue
    exit        \* the process exit status, or NoValue while running

vars == <<groups, defcfg, pc, li, cfgState, gi, ui, loc, sdk, elf, packed,
          buildElfs, top, makeAll, final, exit>>

-----------------------------------------------------------------------------
(* Data of the program.                                                    *)

(* combined_data.update(group) for every group in order: a name already   *)
(* present keeps its position and takes the later group's unit.            *)
RECURSIVE MergeInto(_, _)
MergeInto(acc, us) ==
    IF us = <<>> THEN acc
    ELSE LET u   == Head(us)
             dup == {k \in DOMAIN acc : acc[k].name = u.name}
         IN MergeInto(IF dup = {} THEN Append(acc, u)
                      ELSE [acc EXCEPT ![CHOOSE k \in dup : TRUE] = u],
                      Tail(us))

Combined == MergeInto(<<>>, FlattenSeq(groups))

(* Groups 1..n-1 in order, then group 0 unless it holds a single entry.   *)
BuildOrder ==
    [k \in 1..Len(groups) - 1 |-> k + 1]
      \o (IF Len(groups[1]) # 1 THEN <<1>> ELSE <<>>)

Group == groups[BuildOrder[gi]]

(* Items of a list occurring more than once, the ones excluded aside.     *)
Duplicated(s, excl) ==
    {s[i] : i \in {i \in DOMAIN s : \E j \in DOMAIN s : j # i /\ s[j] = s[i]}}
      \ excl

(* sys.exit(result): an unbound local raises UnboundLocalError (status 1). *)
ExitOf(res) == IF res = Unbound THEN 1 ELSE res

(* compare_configs: every pair of sdkconfigs agrees on the required keys.  *)
ConfigsMatch(cs) ==
    \A i, j \in DOMAIN cs :
        i < j => cs[i].state = cs[j].state /\ cs[i].board = cs[j].board

(* Mutant: ranges that share only their last address count as disjoint.  *)
RangesOverlapInclusiveEnd(a, b) ==
    ~(a.load + a.len - 1 <= b.load \/ b.load + b.len - 1 <= a.load)

(* check_overlap, one pair: [load, load+len) ranges intersect.             *)
RangesOverlap(a, b) ==
    ~(a.load + a.len <= b.load \/ b.load + b.len <= a.load)

(* check_overlap: the i < j loop over every pair of sdkconfigs.            *)
NoOverlap(cs) ==
    \A i, j \in DOMAIN cs : i < j => ~RangesOverlap(cs[i], cs[j])

(* Mutant: the file is opened for writing before it is read and loses    *)
(* every line.                                                             *)
RemoveCompatTruncated(c) == [compat |-> FALSE]

(* remove_config_line(path, "CONFIG_USE_AARCH64_L1_TO_AARCH32=y").         *)
RemoveCompat(c) == IF c = StaleCfg THEN c ELSE [c EXCEPT !.compat = FALSE]

(* Mutant: the value is compared without its quotes.                      *)
NeedsFixupUnquoted(st) == st = "aarch32"

(* The aarch32 fixup applies: the quoted value read from the sdkconfig.    *)
NeedsFixup(st) == st = "\"aarch32\""

(* Mutant: a second master is not counted.                                *)
MasterRejectedCoreOnly(u, flag) == u.core = -1

(* A master entry is rejected: it has no core, or is the group's second.   *)
MasterRejected(u, flag) == u.core = -1 \/ flag + 1 > 1

(* Mutant: out_elf_path is not cleared before the master's .elf is added. *)
MasterOutputNoClear(out, e) == Append(out, e)

(* After the master's make: out_elf_path is cleared and refilled with the *)
(* .elf files of the master's directory.                                   *)
MasterOutput(out, e) == <<e>>

(* Mutant: `result` starts as None instead of unbound.                     *)
NewLocNone == [masterFlag |-> 0, bootstrapFlag |-> 0, outElf |-> <<>>,
               master |-> NoValue, result |-> NoValue]

(* The locals of a fresh execute_make_commands call.                       *)
NewLoc == [masterFlag |-> 0, bootstrapFlag |-> 0, outElf |-> <<>>,
           master |-> NoValue, result |-> Unbound]

Exit(code) == /\ exit' = code
              /\ pc' = "exit"

-----------------------------------------------------------------------------
Init ==
    /\ \E c \in Cases : groups = c[1] /\ defcfg = c[2]
    /\ pc = "dups"
    /\ li = 1
    /\ cfgState = NoValue
    /\ gi = 1
    /\ ui = 1
    /\ loc = NewLoc
    /\ sdk = [p \in Paths |-> StaleCfg]
    /\ elf = [p \in Paths |-> [path |-> p, cfg |-> StaleCfg, embeds |-> <<>>]]
    /\ packed = [p \in Paths \cup {BuildPath} |-> <<>>]
    /\ buildElfs = <<>>
    /\ top = <<>>
    /\ makeAll = <<>>
    /\ final = NoValue
    /\ exit = NoValue

(* load_check_update_kconfig, first half: duplicate paths, or duplicate    *)
(* core ids other than -1, across the merged entries end the run.          *)
CheckDuplicates ==
    LET paths == [k \in DOMAIN Combined |-> Combined[k].path]
        cores == [k \in DOMAIN Combined |-> Combined[k].core]
    IN /\ pc = "dups"
       /\ IF Duplicated(paths, {}) # {} \/ Duplicated(cores, {-1}) # {}
          THEN Exit(1) /\ UNCHANGED li
          ELSE pc' = "kconfig" /\ li' = 1 /\ UNCHANGED exit
       /\ UNCHANGED <<groups, defcfg, cfgState, gi, ui, loc, sdk, elf, packed,
                      buildElfs, top, makeAll, final>>

(* One iteration: make clean, then make load_kconfig, in the image's path. *)
LoadKconfig ==
    LET p == Combined[li].path IN
    /\ pc = "kconfig"
    /\ li <= Len(Combined)
    /\ \E clean \in Outcomes, load \in Outcomes :
         \/ /\ clean # 0
            /\ Exit(clean)
            /\ UNCHANGED <<elf, sdk, li>>
         \/ /\ clean = 0
            /\ elf' = [elf EXCEPT ![p] = NoValue]
            /\ IF load # 0
               THEN Exit(load) /\ UNCHANGED <<sdk, li>>
               ELSE /\ sdk' = [sdk EXCEPT ![p] = defcfg[p]]
                    /\ li' = li + 1
                    /\ UNCHANGED <<pc, exit>>
    /\ UNCHANGED <<groups, defcfg, cfgState, gi, ui, loc, packed, buildElfs,
                   top, makeAll, final>>

(* ConfigManager.compare_configs over every merged entry's sdkconfig.      *)
CompareConfigs ==
    /\ pc = "kconfig"
    /\ li > Len(Combined)
    /\ IF ConfigsMatch([k \in DOMAIN Combined |-> sdk[Combined[k].path]])
       THEN pc' = "overlap" /\ UNCHANGED exit
       ELSE Exit(1)
    /\ UNCHANGED <<groups, defcfg, li, cfgState, gi, ui, loc, sdk, elf, packed,
                   buildElfs, top, makeAll, final>>

(* check_overlap, then configs_path_get and extract_config_values: the     *)
(* execution state is read from the first merged entry's sdkconfig.        *)
CheckOverlap ==
    /\ pc = "overlap"
    /\ IF NoOverlap([k \in DOMAIN Combined |-> sdk[Combined[k].path]])
       THEN /\ cfgState' = sdk[Combined[1].path].state
            /\ pc' = IF BuildOrder = <<>> THEN "pack" ELSE "group"
            /\ UNCHANGED exit
       ELSE Exit(1) /\ UNCHANGED cfgState
    /\ UNCHANGED <<groups, defcfg, li, gi, ui, loc, sdk, elf, packed,
                   buildElfs, top, makeAll, final>>

-----------------------------------------------------------------------------
(* execute_make_commands, one iteration of the loop over the group: the   *)
(* bootstrap entry is skipped; any other entry first gets the aarch32      *)
(* fixup (remove the compat line, make gen_kconfig), then a master is      *)
(* recorded (or rejected) and an ordinary image is built with make all.    *)
MakeUnit ==
    LET u   == Group[ui]
        fix == NeedsFixup(cfgState)
        res == IF fix THEN 0 ELSE loc.result
        cfg == IF fix THEN RemoveCompat(sdk[u.path]) ELSE sdk[u.path]
    IN
    /\ pc = "group"
    /\ ui <= Len(Group)
    /\ \/ /\ u.name = "bootstrap"
          /\ loc' = [loc EXCEPT !.bootstrapFlag = 1]
          /\ ui' = ui + 1
          /\ UNCHANGED <<sdk, elf, makeAll, pc, exit>>
       \/ /\ u.name # "bootstrap"
          /\ \E gen \in IF fix THEN Outcomes ELSE {0} :
               /\ sdk' = [sdk EXCEPT ![u.path] = cfg]
               /\ \/ /\ gen # 0
                     /\ Exit(gen)
                     /\ UNCHANGED <<loc, ui, elf, makeAll>>
                  \/ /\ gen = 0
                     /\ u.master = 1
                     /\ MasterRejected(u, loc.masterFlag)
                     /\ Exit(ExitOf(res))
                     /\ UNCHANGED <<loc, ui, elf, makeAll>>
                  \/ /\ gen = 0
                     /\ u.master = 1
                     /\ ~MasterRejected(u, loc.masterFlag)
                     /\ loc' = [loc EXCEPT !.masterFlag = @ + 1, !.master = u,
                                           !.result = res]
                     /\ ui' = ui + 1
                     /\ UNCHANGED <<elf, makeAll, pc, exit>>
                  \/ /\ gen = 0
                     /\ u.master # 1
                     /\ makeAll' = Append(makeAll, [path |-> u.path,
                                                    core |-> u.core])
                     /\ \E r \in Outcomes :
                          IF r # 0
                          THEN Exit(r) /\ UNCHANGED <<loc, ui, elf>>
                          ELSE LET e == [path |-> u.path, cfg |-> cfg,
                                         embeds |-> <<>>]
                               IN /\ elf' = [elf EXCEPT ![u.path] = e]
                                  /\ loc' = [loc EXCEPT !.result = 0,
                                               !.outElf = Append(@, e)]
                                  /\ ui' = ui + 1
                                  /\ UNCHANGED <<pc, exit>>
    /\ UNCHANGED <<groups, defcfg, li, cfgState, gi, packed, buildElfs, top,
                   final>>

(* Leave execute_make_commands with out_elf_path and go to the next group, *)
(* or to the top-level pack after the last one.                            *)
NextGroup(out) ==
    /\ buildElfs' = buildElfs \o out
    /\ gi' = gi + 1
    /\ ui' = 1
    /\ loc' = NewLoc
    /\ pc' = IF gi = Len(BuildOrder) THEN "pack" ELSE "group"
    /\ UNCHANGED exit

(* execute_make_commands after the loop: with one master, pack the group's *)
(* images into the master's packed.bin and build the master, whose .elf is *)
(* then the group's only output; without one, a group with no bootstrap    *)
(* entry must have every core assigned.                                    *)
GroupFinish ==
    LET m == loc.master IN
    /\ pc = "group"
    /\ ui > Len(Group)
    /\ \/ /\ loc.masterFlag = 1
          /\ packed' = [packed EXCEPT ![m.path] = loc.outElf]
          /\ makeAll' = Append(makeAll, [path |-> m.path, core |-> m.core])
          /\ \E r \in Outcomes :
               IF r # 0
               THEN Exit(r) /\ UNCHANGED <<elf, buildElfs, gi, ui, loc>>
               ELSE LET e == [path |-> m.path, cfg |-> sdk[m.path],
                              embeds |-> loc.outElf]
                    IN /\ elf' = [elf EXCEPT ![m.path] = e]
                       /\ NextGroup(MasterOutput(loc.outElf, e))
       \/ /\ loc.masterFlag # 1
          /\ UNCHANGED <<packed, makeAll, elf>>
          /\ IF loc.bootstrapFlag = 0 /\ \E k \in DOMAIN Group : Group[k].core = -1
             THEN Exit(ExitOf(loc.result)) /\ UNCHANGED <<buildElfs, gi, ui, loc>>
             ELSE NextGroup(loc.outElf)
    /\ UNCHANGED <<groups, defcfg, li, cfgState, sdk, top, final>>

-----------------------------------------------------------------------------
(* Remove the old packed.bin and pack build_elf_paths into a new one.      *)
PackImage ==
    /\ pc = "pack"
    /\ top' = buildElfs
    /\ pc' = "gate"
    /\ UNCHANGED <<groups, defcfg, li, cfgState, gi, ui, loc, sdk, elf, packed,
                   buildElfs, makeAll, final, exit>>

(* The bootstrap entry of group 0 and its sdkconfig. A stale file's MSDF   *)
(* settings are unknown: the gate may pass or fail on it.                  *)
Bootstraps == {k \in DOMAIN groups[1] : groups[1][k].name = "bootstrap"}
Bootstrap == groups[1][CHOOSE k \in Bootstraps : TRUE]

GateHolds(c, core) ==
    /\ c.msdf = TRUE
    /\ c.msdfCore # NoValue
    /\ c.msdfCore = core

(* Find the bootstrap entry and check CONFIG_USE_MSDF=y and                *)
(* CONFIG_MSDF_CORE_ID = its core (check_config_values); else exit 1.      *)
BootstrapGate ==
    /\ pc = "gate"
    /\ IF Bootstraps = {}
       THEN Exit(1)
       ELSE LET c == sdk[Bootstrap.path] IN
            \E ok \in IF c = StaleCfg THEN BOOLEAN
                      ELSE {GateHolds(c, Bootstrap.core)} :
               IF ok THEN pc' = "final" /\ UNCHANGED exit ELSE Exit(1)
    /\ UNCHANGED <<groups, defcfg, li, cfgState, gi, ui, loc, sdk, elf, packed,
                   buildElfs, top, makeAll, final>>

(* create_build_and_file, then make all for the bootstrap core in cwd,     *)
(* which embeds the top-level packed.bin into packed_image.                *)
FinalBuild ==
    /\ pc = "final"
    /\ makeAll' = Append(makeAll, [path |-> BuildPath, core |-> Bootstrap.core])
    /\ \E r \in Outcomes :
         IF r # 0
         THEN Exit(r) /\ UNCHANGED final
         ELSE /\ final' = [core |-> Bootstrap.core, embeds |-> top]
              /\ exit' = 0
              /\ pc' = "done"
    /\ UNCHANGED <<groups, defcfg, li, cfgState, gi, ui, loc, sdk, elf, packed,
                   buildElfs, top>>

(* The process has exited; nothing changes any more.                       *)
Terminated ==
    /\ pc \in {"exit", "done"}
    /\ UNCHANGED vars

Next ==
    \/ CheckDuplicates
    \/ LoadKconfig
    \/ CompareConfigs
    \/ CheckOverlap
    \/ MakeUnit
    \/ GroupFinish
    \/ PackImage
    \/ BootstrapGate
    \/ FinalBuild
    \/ Terminated

Spec == Init /\ [][Next]_vars

-----------------------------------------------------------------------------
(* Properties.                                                             *)

Snaps == [state : STRING, board : STRING, load : Nat, len : Nat,
          compat : BOOLEAN, msdf : BOOLEAN, msdfCore : Int \cup {NoValue}]

TypeOK ==
    /\ pc \in {"dups", "kconfig", "overlap", "group", "pack", "gate", "final",
               "done", "exit"}
    /\ \A p \in Paths : sdk[p] \in Snaps \cup {StaleCfg}
    /\ \A p \in Paths : elf[p] = NoValue \/ elf[p].path = p
    /\ li \in 1..Len(Combined) + 1
    /\ gi \in 1..Len(BuildOrder) + 1
    /\ loc.masterFlag \in Nat /\ loc.bootstrapFlag \in {0, 1}
    /\ loc.result \in {Unbound, 0}
    /\ \A k \in DOMAIN makeAll : makeAll[k].path \in Paths \cup {BuildPath}
    /\ exit \in {NoValue, 0, 1, ToolErr}
    /\ (exit = NoValue) <=> (pc \notin {"exit", "done"})

(* Every unit of every group, in the order the configuration lists them.   *)
Units == FlattenSeq(groups)

(* The group shape the spec requires (sections 3 and 4.5): at most one    *)
(* master per group and it has a core; a group with neither master nor    *)
(* bootstrap has every core assigned; source paths, config names and     *)
(* core ids other than -1 are unique across the whole configuration.      *)
TopologyValid ==
    /\ \A g \in Range(groups) :
         /\ Cardinality({k \in DOMAIN g : g[k].master = 1}) <= 1
         /\ \A k \in DOMAIN g : g[k].master = 1 => g[k].core # -1
         /\ (\A k \in DOMAIN g : g[k].master # 1 /\ g[k].name # "bootstrap")
              => \A k \in DOMAIN g : g[k].core # -1
    /\ \A i, j \in DOMAIN Units : i # j =>
         /\ Units[i].path # Units[j].path
         /\ Units[i].cfg # Units[j].cfg
         /\ Units[i].core = -1 \/ Units[i].core # Units[j].core

(* The configurations every image of the run is built from: loaded from   *)
(* configs/, agreeing on the board keys, with disjoint load ranges, and   *)
(* the bootstrap's MSDF core equal to its own core.                        *)
ConfigsValid ==
    /\ \A i, j \in DOMAIN Units : i # j =>
         LET a == defcfg[Units[i].path]
             b == defcfg[Units[j].path]
         IN  /\ a.state = b.state /\ a.board = b.board
             /\ (a.load + a.len <= b.load \/ b.load + b.len <= a.load)
    /\ Bootstraps # {}
    /\ GateHolds(defcfg[Bootstrap.path], Bootstrap.core)

(* End-to-end soundness of the checks: a packed_image is only ever built  *)
(* from a configuration set that is well formed and whose images agree on *)
(* the board and do not overlap in memory (the pre-flight duplicate       *)
(* checks, compare_configs, check_overlap, the master checks of           *)
(* execute_make_commands and check_config_values together).               *)
FinalImageValid == final # NoValue => TopologyValid /\ ConfigsValid

(* What make builds in a unit's directory: its loaded configuration with  *)
(* the compat line removed for an aarch32 build.                           *)
Fixed(c) == IF c.state = "\"aarch32\"" THEN [c EXCEPT !.compat = FALSE] ELSE c

Image(u, embeds) == [path |-> u.path, cfg |-> Fixed(defcfg[u.path]), embeds |-> embeds]

(* The images of a group built by make all directly: all but the master   *)
(* and the bootstrap, in the order they are listed.                        *)
Slaves(g) ==
    LET s == SelectSeq(g, LAMBDA u : u.master # 1 /\ u.name # "bootstrap")
    IN  [k \in DOMAIN s |-> Image(s[k], <<>>)]

(* A group's output (spec 4.5, steps 3 and 5): the master's image with    *)
(* its slaves embedded in order, or the slaves themselves.                 *)
GroupImage(g) ==
    LET ms == SelectSeq(g, LAMBDA u : u.master = 1)
    IN  IF ms # <<>> THEN <<Image(ms[1], Slaves(g))>> ELSE Slaves(g)

(* Spec 4.5 step 7: groups 1..n-1 in order, then group 0.                  *)
ExpectedImage ==
    FlattenSeq([k \in 1..Len(groups) |->
                  GroupImage(groups[IF k = Len(groups) THEN 1 ELSE k + 1])])

(* The packed_image embeds exactly the spec's assembly of the per-core    *)
(* images, each built in this run from its loaded configuration, no image *)
(* missing, repeated, stale or out of order (execute_make_commands and    *)
(* the top-level pack_elf_files).                                          *)
AssemblyFaithful == final # NoValue => final.embeds = ExpectedImage

(* A run that did not build the packed_image never exits with status 0    *)
(* (spec 6: validation errors exit with a failure code); the topology     *)
(* errors of execute_make_commands call sys.exit(result).                  *)
ErrorNeverExitsZero == exit = 0 => final # NoValue

(* No image is built by make all for a configuration whose topology is    *)
(* invalid (spec 7: pre-flight checks fail before any build tool runs).    *)
NoBuildOnInvalidTopology == makeAll # <<>> => TopologyValid

=============================================================================
