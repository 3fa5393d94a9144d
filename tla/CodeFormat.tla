----------------------------- MODULE CodeFormat -----------------------------
(***************************************************************************)
(* main() of src/standalone/tools/others/format/code_format.py: expand a  *)
(* part name into its directory list, collect every .c and .h file below  *)
(* the target directories, drop the files filter_dir.json excludes, run   *)
(* clang-format-15 -i on each remaining file and report how many were    *)
(* formatted.                                                              *)
(*                                                                         *)
(* A path is a sequence of tokens (a directory or file name, "/", ".",    *)
(* "c", "h") and Python's `a in b` is a \in SubSeqs(b), endswith is       *)
(* IsSuffix. The filter rules come from filter_dir.json, which is not part *)
(* of this repository: they are constants.                                 *)
(***************************************************************************)
EXTENDS Integers, Sequences, SequencesExt, FiniteSets

CONSTANTS
    Cwd,          \* os.getcwd(), the SDK root
    Tree,         \* every file below Cwd, as full paths
    Parts,        \* the part names main() expands, in the order it tests them
    PartDirs,     \* PartDirs[n]: the directory list part n expands to
    ArgChoices,   \* candidate sys.argv[1:]
    Filters,      \* candidate contents of filter_dir.json
    NoValue

VARIABLES
    argv,       \* sys.argv[1:]
    filter,     \* [suffixes, patterns, conditions] from filter_dir.json
    cfiles,     \* c_files
    i,          \* loop index over c_files
    ok,         \* the files clang-format rewrote
    failed,     \* the files clang-format could not format
    count,      \* format_files_cnt
    pc,
    exit

vars == <<argv, filter, cfiles, i, ok, failed, count, pc, exit>>

-----------------------------------------------------------------------------
(* Data of the program.                                                    *)

Slash == <<"/">>

(* The chain of `if '<part>' in target_dir: target_dir = [...]`: each test *)
(* sees the list the tests before it left.                                 *)
Expand(dirs) ==
    FoldLeft(LAMBDA t, n : IF n \in ToSet(t) THEN PartDirs[n] ELSE t, dirs, Parts)

(* os.walk(os.path.join(cwd, d)): the files below d, joined to the walked *)
(* directory names, so a trailing '/' of d does not show; nothing when d  *)
(* does not exist.                                                          *)
Below(d) ==
    LET top == IF d # <<>> /\ Last(d) = "/" THEN Front(d) ELSE d
    IN  {f \in Tree : IsPrefix(Cwd \o Slash \o top \o Slash, f)}

(* Mutant: `file.endswith('.c') or '.h'`, always true.                    *)
IsCSourceAlways(f) == IsSuffix(<<".", "c">>, f) \/ TRUE

IsCSource(f) == IsSuffix(<<".", "c">>, f) \/ IsSuffix(<<".", "h">>, f)

(* find_c_files: per directory, the sources below it, in walk order.      *)
FindCFiles(dirs) ==
    FoldLeft(LAMBDA acc, d : acc \o SetToSeq({f \in Below(d) : IsCSource(f)}), <<>>, dirs)

(* Rule 1 and rule 2.                                                      *)
ExcludedBySuffix(f) == \E s \in filter.suffixes : IsSuffix(s, f)
ExcludedByPattern(f) == \E p \in filter.patterns : p \in SubSeqs(f)

(* Rule 3: the first condition whose required substring is in the path    *)
(* and none of whose markers is, sets skip_file and breaks.               *)
SkipByCondition(f) ==
    \E k \in DOMAIN filter.conditions :
        /\ filter.conditions[k].req \in SubSeqs(f)
        /\ \A m \in filter.conditions[k].miss : m \notin SubSeqs(f)

(* run_clang_format: clang-format-15 -i rewrites the file or fails; its   *)
(* status and output are not looked at.                                    *)
RunClangFormat(f) ==
    \/ ok' = ok \cup {f} /\ UNCHANGED failed
    \/ failed' = failed \cup {f} /\ UNCHANGED ok

-----------------------------------------------------------------------------
(* The steps of main().                                                     *)

Init ==
    /\ argv \in ArgChoices
    /\ filter \in Filters
    /\ cfiles = <<>>
    /\ i = 1
    /\ ok = {}
    /\ failed = {}
    /\ count = 0
    /\ pc = "start"
    /\ exit = NoValue

(* The usage check, the part expansion and find_c_files.                   *)
Collect ==
    /\ pc = "start"
    /\ IF Len(argv) # 1
       THEN /\ exit' = 1
            /\ pc' = "done"
            /\ UNCHANGED cfiles
       ELSE /\ cfiles' = FindCFiles(Expand(<<argv[1]>>))
            /\ pc' = "loop"
            /\ UNCHANGED exit
    /\ UNCHANGED <<argv, filter, i, ok, failed, count>>

(* One file: skipped by a rule, or handed to clang-format, whose status   *)
(* is not looked at, and counted.                                          *)
FormatFile ==
    /\ pc = "loop"
    /\ i <= Len(cfiles)
    /\ LET f == cfiles[i]
       IN  IF ExcludedBySuffix(f) \/ ExcludedByPattern(f) \/ SkipByCondition(f)
           THEN UNCHANGED <<ok, failed, count>>
           ELSE /\ RunClangFormat(f)
                /\ count' = count + 1
    /\ i' = i + 1
    /\ UNCHANGED <<argv, filter, cfiles, pc, exit>>

(* "Formatted N C/C++ files." and a normal return.                         *)
Report ==
    /\ pc = "loop"
    /\ i > Len(cfiles)
    /\ exit' = 0
    /\ pc' = "done"
    /\ UNCHANGED <<argv, filter, cfiles, i, ok, failed, count>>

Terminated ==
    /\ pc = "done"
    /\ UNCHANGED vars

Next == Collect \/ FormatFile \/ Report \/ Terminated

Spec == Init /\ [][Next]_vars

-----------------------------------------------------------------------------
(* Properties.                                                             *)

TypeOK ==
    /\ cfiles \in Seq(Tree)
    /\ \A k \in DOMAIN cfiles : Len(cfiles[k]) > 1 /\ cfiles[k][Len(cfiles[k]) - 1] = "."
                                /\ Last(cfiles[k]) \in {"c", "h"}
    /\ i \in 1..Len(cfiles) + 1
    /\ ok \subseteq Tree /\ failed \subseteq Tree
    /\ count \in 0..Len(cfiles)
    /\ pc \in {"start", "loop", "done"}
    /\ exit \in {NoValue, 0, 1}

====
