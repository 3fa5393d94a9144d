----------------------------- MODULE MisraCheck -----------------------------
(***************************************************************************)
(* The MISRA C wrapper of                                                  *)
(*   src/standalone/tools/others/misrac_cppcheck/misrac_cppcheck.py        *)
(* run as one sequential process: clear the output file, clone cppcheck   *)
(* (whose addons/misra.py does the rule check), run cppcheck --dump on     *)
(* every checked path with an include list built by update_header_dirs,  *)
(* run misra.py on each path's .dump files, delete the dumps, strip the    *)
(* project root from the output and grep it for the selected rules.       *)
(*                                                                         *)
(* Text is kept where the verdict reads it: a path, a rule id and an       *)
(* output line are sequences of tokens, a token being one character or a  *)
(* directory name, and Python's `a in b` on strings is a \in SubSeqs(b).  *)
(***************************************************************************)
EXTENDS Integers, Sequences, SequencesExt, FiniteSets

CONSTANTS
    StartPath,      \* start_path, the script's directory, as tokens
    Marked,         \* the directories that hold a .gitlab directory
    RuleChoices,    \* candidate values of --misra-rules (sets of rule ids)
    PathChoices,    \* candidate values of --files-path (sequences of paths)
    ViolationSets,  \* candidate sets of <<path, rule>> the sources violate
    HeaderDirs,     \* the directories of the tree that hold a .h file
    ToolStates,     \* what the cppcheck clone directory can hold at start
    NoValue

VARIABLES
    selected,   \* MISRAC_RULE
    paths,      \* FILES_PATH_TO_RUN_MISRAC_CHECK, relative to Root
    viol,       \* the rule violations present in the checked sources
    cppcheck,   \* whether the cppcheck binary is installed
    tool,       \* contents of CPPCHECK_CLONE_DIR
    pc,
    k,          \* loop index over paths
    incl,       \* incl[p]: the -I list cppcheck got for path p
    dumps,      \* the paths whose .dump files exist
    out,        \* misrac_check_output.txt, a sequence of lines
    exit

vars == <<selected, paths, viol, cppcheck, tool, pc, k, incl, dumps, out, exit>>

-----------------------------------------------------------------------------
(* Data of the program.                                                    *)

(* The tokens that stand for the fixed text around a finding: "F" a source *)
(* file name, "M" the "misra-c2012-" prefix of a misra.py finding, "W" a   *)
(* cppcheck style message, "N" the ".dump file not found" message, "E" the *)
(* python3 "can't open file" error. None of them holds a '.', so no rule   *)
(* id (which always does) can match inside or across one of them.         *)
Slash == <<"/">>

(* os.path.dirname; <<>> stands for the filesystem root os.sep.           *)
Dirname(p) == IF Len(p) <= 1 THEN <<>> ELSE SubSeq(p, 1, Len(p) - 2)

(* Mutant: the parent of the marked directory returned.                   *)
RECURSIVE FindProjectRootParent(_)
FindProjectRootParent(p) ==
    IF p = <<>> THEN NoValue
    ELSE IF p \in Marked THEN Dirname(p) ELSE FindProjectRootParent(Dirname(p))

(* find_project_root(start_path, '.gitlab'): walk up until a directory    *)
(* holding .gitlab; the filesystem root itself is never tested, and       *)
(* reaching it raises FileNotFoundError (NoValue).                         *)
RECURSIVE FindProjectRoot(_)
FindProjectRoot(p) ==
    IF p = <<>> THEN NoValue
    ELSE IF p \in Marked THEN p ELSE FindProjectRoot(Dirname(p))

(* ALL_MISRAC_RULE, as <<chapter, rule>>: chapters 1 to 20 and 22 list    *)
(* every rule from 1 up to the count below; chapter 21 stops at 21.12 and *)
(* goes on with 21.14-21.16, 21.19-21.21 and 21.12 again, so 21.13, 21.17 *)
(* and 21.18 are not listed.                                              *)
RuleCounts == <<4, 7, 2, 2, 9, 2, 4, 14, 5, 8, 9, 4, 6, 4, 7, 7, 8, 8, 2, 14>>

ALL_MISRAC_RULE ==
    FlattenSeq([c \in DOMAIN RuleCounts |-> [r \in 1..RuleCounts[c] |-> <<c, r>>]])
      \o [r \in 1..12 |-> <<21, r>>]
      \o <<<<21, 14>>, <<21, 15>>, <<21, 16>>, <<21, 19>>, <<21, 20>>, <<21, 21>>, <<21, 12>>>>
      \o [r \in 1..10 |-> <<22, r>>]

(* The decimal spelling of a number, one token per digit.                  *)
RECURSIVE Numeral(_)
Numeral(n) ==
    LET digit(d) == <<"0", "1", "2", "3", "4", "5", "6", "7", "8", "9">>[d + 1]
    IN  IF n < 10 THEN <<digit(n)>> ELSE Numeral(n \div 10) \o <<digit(n % 10)>>

(* The string '<chapter>.<rule>'.                                          *)
RuleId(cr) == Numeral(cr[1]) \o <<".">> \o Numeral(cr[2])

AllRules == {RuleId(cr) : cr \in ToSet(ALL_MISRAC_RULE)}

(* FILES_PATH_TO_RUN_CPP_CHECK                                              *)
Root == FindProjectRoot(StartPath)

Full(p) == Root \o Slash \o p

(* GET_HEADER_PATH_DIRECTORIES_TO_IGNORE: os.path.join(root, 'lib/') ...   *)
GetHeaderIgnore ==
    {Root \o <<"/", s, "/">> :
        s \in {"lib", "third-party", "tools", "doc", "scripts", "drivers", "example"}}

(* Mutant: the .h test dropped, so every visited directory counts.        *)
FindHeaderDirectoriesAnyDir(d, ignore) ==
    {d} \cup {h \in HeaderDirs : IsPrefix(d, h) /\ \A ig \in ignore : ig \notin SubSeqs(h)}

(* find_header_directories: every directory os.walk visits under d whose  *)
(* path contains none of the ignored strings and that holds a .h file.    *)
(* A visited path has no trailing '/', so 'root/lib/' skips the           *)
(* directories below lib but not lib itself.                               *)
FindHeaderDirectories(d, ignore) ==
    {h \in HeaderDirs :
        /\ IsPrefix(d, h)
        /\ h = d \/ h[Len(d) + 1] = "/"
        /\ \A ig \in ignore : ig \notin SubSeqs(h)}

(* update_header_dirs: the loop over new_dirs, in the set's order.        *)
RECURSIVE UpdateLoop(_, _, _, _)
UpdateLoop(hd, seen, rm, todo) ==
    IF todo = {} THEN (hd \ rm) \cup seen
    ELSE LET d == CHOOSE x \in todo : TRUE
         IN  IF d \in hd \/ d \in seen
             THEN UpdateLoop(hd, seen, rm \cup {d}, todo \ {d})
             ELSE UpdateLoop(hd, seen \cup {d}, rm, todo \ {d})

UpdateHeaderDirs(hd, new) == UpdateLoop(hd, {}, {}, new)

(* Mutant: every listed rule suppressed, the selection ignored.          *)
SuppressedRulesAll == AllRules

(* SUPPRESS_MISRAC_RULES: the listed rules that were not selected.         *)
SuppressedRules == {r \in AllRules : r \notin selected}

(* The lines misra.py prints for the dumps of path p: one per violation   *)
(* of a rule it was not told to suppress.                                  *)
FindingLine(p, r) == Full(p) \o <<"/", "F", ":", "M">> \o r

Findings(p) ==
    {FindingLine(p, v[2]) : v \in {v \in viol : v[1] = p /\ v[2] \notin SuppressedRules}}

(* remove_keywords: str.replace(kw, ''), leftmost occurrences first.       *)
RECURSIVE Strip(_, _)
Strip(kw, line) ==
    IF Len(line) < Len(kw) THEN line
    ELSE IF SubSeq(line, 1, Len(kw)) = kw
         THEN Strip(kw, SubSeq(line, Len(kw) + 1, Len(line)))
         ELSE <<Head(line)>> \o Strip(kw, Tail(line))

HasMisraPy(t) == t = "cloned"

(* Messages that name no rule.                                             *)
WarnLine(p) == Full(p) \o <<"/", "F", ":", "W">>
NotFoundLine(p) == <<"N">> \o Full(p)
NoMisraPyLine == <<"E">> \o Root \o <<"/", "tools">>

-----------------------------------------------------------------------------
(* The steps of __main__.                                                   *)

Init ==
    /\ selected \in RuleChoices
    /\ paths \in PathChoices
    /\ viol \in ViolationSets
    /\ cppcheck \in BOOLEAN
    /\ tool \in ToolStates
    /\ pc = "args"
    /\ k = 1
    /\ incl = [p \in ToSet(paths) |-> NoValue]
    /\ dumps = {}
    /\ out = <<>>
    /\ exit = NoValue

(* parse_arguments: argparse rejects a missing or empty --misra-rules or   *)
(* --files-path (nargs='+', required) and exits with status 2.            *)
ParseArguments ==
    /\ pc = "args"
    /\ IF selected = {} \/ paths = <<>>
       THEN exit' = 2 /\ pc' = "exit"
       ELSE pc' = "clear" /\ UNCHANGED exit
    /\ UNCHANGED <<selected, paths, viol, cppcheck, tool, k, incl, dumps, out>>

(* clear_output_file(OUTPUT_FILE)                                           *)
ClearOutput ==
    /\ pc = "clear"
    /\ out' = <<>>
    /\ pc' = "clone"
    /\ UNCHANGED <<selected, paths, viol, cppcheck, tool, k, incl, dumps, exit>>

(* clone_repo_at_commit: a directory that is not empty is kept as it is;   *)
(* otherwise git clone runs and its status is ignored, so a failed clone  *)
(* leaves the directory empty. The checkout that follows changes only     *)
(* which commit misra.py comes from.                                        *)
CloneRepo ==
    /\ pc = "clone"
    /\ \/ /\ tool \in {"cloned", "junk"}
          /\ UNCHANGED tool
       \/ /\ tool \in {"absent", "empty"}
          /\ tool' \in {"cloned", "empty"}
    /\ pc' = "check"
    /\ UNCHANGED <<selected, paths, viol, cppcheck, k, incl, dumps, out, exit>>

(* One iteration of the first loop: the include list from the headers of  *)
(* the whole tree and of the path, then cppcheck --dump appending to the  *)
(* output. A missing cppcheck binary raises FileNotFoundError.            *)
CheckPath ==
    /\ pc = "check"
    /\ k <= Len(paths)
    /\ LET p == paths[k]
           hd == UpdateHeaderDirs(FindHeaderDirectories(Root, GetHeaderIgnore),
                                  FindHeaderDirectories(Full(p), {}))
       IN  /\ incl' = [incl EXCEPT ![p] = hd]
           /\ IF cppcheck
              THEN /\ dumps' = dumps \cup {p}
                   /\ \E w \in {<<>>, <<WarnLine(p)>>} : out' = out \o w
                   /\ k' = k + 1
                   /\ UNCHANGED <<pc, exit>>
              ELSE /\ exit' = 1
                   /\ pc' = "exit"
                   /\ UNCHANGED <<dumps, out, k>>
    /\ UNCHANGED <<selected, paths, viol, cppcheck, tool>>

CheckDone ==
    /\ pc = "check"
    /\ k > Len(paths)
    /\ pc' = "misra"
    /\ k' = 1
    /\ UNCHANGED <<selected, paths, viol, cppcheck, tool, incl, dumps, out, exit>>

(* run_misra_check for one path.                                           *)
MisraPath ==
    /\ pc = "misra"
    /\ k <= Len(paths)
    /\ LET p == paths[k]
       IN  out' = out \o
             CASE p \notin dumps      -> <<NotFoundLine(p)>>
               [] ~HasMisraPy(tool)   -> <<NoMisraPyLine>>
               [] OTHER               -> SetToSeq(Findings(p))
    /\ k' = k + 1
    /\ UNCHANGED <<selected, paths, viol, cppcheck, tool, pc, incl, dumps, exit>>

(* cleanup_files, then remove_keywords(OUTPUT_FILE, [root + '/']).          *)
Cleanup ==
    /\ pc = "misra"
    /\ k > Len(paths)
    /\ dumps' = {}
    /\ out' = [i \in DOMAIN out |-> Strip(Root \o Slash, out[i])]
    /\ pc' = "verdict"
    /\ UNCHANGED <<selected, paths, viol, cppcheck, tool, k, incl, exit>>

(* A line naming any selected rule as a substring fails the check.        *)
Verdict ==
    /\ pc = "verdict"
    /\ exit' = IF \E i \in DOMAIN out, r \in selected : r \in SubSeqs(out[i])
               THEN 1 ELSE 0
    /\ pc' = "done"
    /\ UNCHANGED <<selected, paths, viol, cppcheck, tool, k, incl, dumps, out>>

Terminated ==
    /\ pc \in {"exit", "done"}
    /\ UNCHANGED vars

Next ==
    ParseArguments \/ ClearOutput \/ CloneRepo \/ CheckPath \/ CheckDone \/ MisraPath
      \/ Cleanup \/ Verdict \/ Terminated

Spec == Init /\ [][Next]_vars

-----------------------------------------------------------------------------
(* Properties.                                                             *)

TypeOK ==
    /\ pc \in {"args", "clear", "clone", "check", "misra", "verdict", "exit", "done"}
    /\ tool \in {"absent", "empty", "junk", "cloned"}
    /\ k \in 1..Len(paths) + 1
    /\ dumps \subseteq ToSet(paths)
    /\ incl \in [ToSet(paths) -> SUBSET HeaderDirs \cup {NoValue}]
    /\ out \in Seq(Seq(STRING))
    /\ exit \in {NoValue, 0, 1, 2}

(* The violations of a selected rule in the checked paths.                 *)
SelectedViolations == {v \in viol : v[1] \in ToSet(paths) /\ v[2] \in selected}

(* With misra.py in place, the check passes only when no checked path     *)
(* violates a selected rule: the suppression list, the dump lookup, the   *)
(* root stripping and the grep together never hide a finding.             *)
VerdictCompleteWithTool ==
    pc = "done" /\ HasMisraPy(tool) /\ exit = 0 => SelectedViolations = {}

(* The directories a path is below or is: p and its dirnames up to the   *)
(* filesystem root, which is not one of them.                              *)
AncestorsOf(p) == {SubSeq(p, 1, 2 * i - 1) : i \in 1..((Len(p) + 1) \div 2)}

(* When the script starts, before parse_arguments, find_project_root     *)
(* has returned the nearest enclosing directory that holds .gitlab, the  *)
(* directory itself included, or failed when there is none, whatever the *)
(* directory it starts from: FILES_PATH_TO_RUN_CPP_CHECK is where every   *)
(* path, include list and stripped prefix of the check is anchored.       *)
RootIsNearestMarked(probes) ==
    pc = "args" =>
        \A d \in probes :
            LET found == AncestorsOf(d) \cap Marked
            IN  FindProjectRoot(d) =
                    IF found = {} THEN NoValue
                    ELSE CHOOSE a \in found : \A b \in found : Len(b) <= Len(a)

(* The check passes only when no checked path violates a selected rule,   *)
(* as its message "The detection code complies with the specified         *)
(* misrac_2012 specification" says.                                       *)
VerdictComplete ==
    pc = "done" /\ exit = 0 => SelectedViolations = {}

====
