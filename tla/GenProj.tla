------------------------------- MODULE GenProj -------------------------------
(***************************************************************************)
(* src/standalone/tools/export_ide/gen_proj.py, run from an example       *)
(* directory, again and again: it recreates example_ide/<example> from    *)
(* the template project, renames the template's Eclipse files, copies the *)
(* linker scripts, rewrites makefile into .mkfile, copies ../common when  *)
(* the makefile needs it, and copies the example's files.                  *)
(*                                                                         *)
(* A path is a sequence of names relative to its directory; a file's      *)
(* content is a sequence of tokens, where "../common" and "/inc" are      *)
(* single tokens, so str.replace of a token is a map over the sequence.   *)
(* The example and its ../common may change between runs.                 *)
(***************************************************************************)
EXTENDS Integers, Sequences, SequencesExt, FiniteSets

CONSTANTS
    MaxRuns,          \* the number of times the script is started
    TemplateFiles,    \* the template project: path -> content
    TemplateName,     \* os.path.basename(source): "template_proj"
    ProjName,         \* os.path.basename(target): the example's name
    LaunchNames,      \* the file names that end in ".launch"
    LdFiles,          \* the linker scripts present under tools/build/ld
    ExampleChoices,   \* candidate example directories: path -> content
    CommonChoices,    \* candidate ../common directories: path -> content
    NoCommon          \* ../common does not exist

VARIABLES
    proj,       \* example_ide/<example>: path -> content
    ex,         \* the example directory of the running script
    common,     \* ../common of the running script
    need,       \* need_copy
    pc,         \* the step of the running script, "idle" between runs
    history     \* one record per run: what it printed last and its status

vars == <<proj, ex, common, need, pc, history>>

Makefile == <<"makefile">>
Mkfile == <<".mkfile">>

(* Mutant: os.path.join(proj_path, 'makefile').                          *)
MkfileDestMakefile == Makefile

(* os.path.join(proj_path, '.mkfile')                                      *)
MkfileDest == Mkfile

(* The file names the walk of the example skips.                           *)
Skipped == {".project", ".cproject", "language.settings.xml"}

-----------------------------------------------------------------------------
(* Data of the program.                                                    *)

(* str.replace(old, new) of one token.                                     *)
ReplaceToken(c, old, new) == [k \in DOMAIN c |-> IF c[k] = old THEN new ELSE c[k]]

(* change_proj_name applies to .project, .cproject and *.launch.           *)
Renamed(n) == n \in {".project", ".cproject"} \/ n \in LaunchNames

(* copy_template_proj's copy of one file.                                  *)
TemplateCopy(p) ==
    IF Renamed(Last(p))
    THEN ReplaceToken(TemplateFiles[p], TemplateName, ProjName)
    ELSE TemplateFiles[p]

(* f overwritten, path by path, by g.                                      *)
Overlay(f, g) == [p \in DOMAIN f \cup DOMAIN g |-> IF p \in DOMAIN g THEN g[p] ELSE f[p]]

(* Mutant: `if not os.path.exists(target)` in place of the rmtree.         *)
TemplateTreeNoRmtree(old) == Overlay(old, [p \in DOMAIN TemplateFiles |-> TemplateCopy(p)])

(* rmtree of the old project, makedirs, and the template's files.          *)
TemplateTree(old) == [p \in DOMAIN TemplateFiles |-> TemplateCopy(p)]

(* copy_if_exists for the three linker scripts.                            *)
LdTree == [p \in {<<"linkscripts", n>> : n \in LdFiles} |-> <<p[2]>>]

(* copy_makefile: '../common/inc' or '../common/*.c' in the makefile.      *)
NeedsCommon(c) == <<"../common", "/inc">> \in SubSeqs(c) \/ <<"../common", "/*.c">> \in SubSeqs(c)

(* copy_folder_contents(../common, <proj>/common).                         *)
CommonTree(c) == [p \in {<<"common">> \o q : q \in DOMAIN c} |-> c[Tail(p)]]

(* Mutant: the skip names not tested.                                      *)
ExportedNoSkip(e) ==
    {p \in DOMAIN e : p # Makefile /\ ~(Len(p) = 2 /\ p[1] = "build")}

(* The example files the os.walk loop copies: the files directly in       *)
(* ./build, the three Eclipse files and the makefile are skipped.          *)
Exported(e) ==
    {p \in DOMAIN e : /\ ~(Len(p) = 2 /\ p[1] = "build")
                      /\ Last(p) \notin Skipped
                      /\ p # Makefile}

(* The run ends: what it printed last and the status the shell sees.       *)
EndRun(result, status) ==
    /\ pc' = "idle"
    /\ history' = Append(history, [result |-> result, exit |-> status])

-----------------------------------------------------------------------------
(* The steps of the script.                                                 *)

Init ==
    /\ proj = [p \in {} |-> <<>>]
    /\ ex \in ExampleChoices
    /\ common \in CommonChoices
    /\ need = FALSE
    /\ pc = "idle"
    /\ history = <<>>

(* The user runs the script in an example, maybe after editing it.         *)
Start ==
    /\ pc = "idle"
    /\ Len(history) < MaxRuns
    /\ ex' \in ExampleChoices
    /\ common' \in CommonChoices
    /\ need' = FALSE
    /\ pc' = "sdk"
    /\ UNCHANGED <<proj, history>>

(* Module level, before main's try: os.path.abspath(os.getenv("SDK_DIR")) *)
(* raises TypeError when SDK_DIR is not set, and the traceback ends the   *)
(* script with status 1.                                                   *)
ReadSdkDir ==
    /\ pc = "sdk"
    /\ \/ EndRun("traceback", 1)
       \/ pc' = "template" /\ UNCHANGED history
    /\ UNCHANGED <<proj, ex, common, need>>

(* copy_template_proj, then the three copy_if_exists.                      *)
CopyTemplate ==
    /\ pc = "template"
    /\ proj' = Overlay(TemplateTree(proj), LdTree)
    /\ pc' = "makefile"
    /\ UNCHANGED <<ex, common, need, history>>

(* copy_makefile: open() of a missing makefile raises, and the generic    *)
(* handler prints the failure and lets the script end with status 0.      *)
CopyMakefile ==
    /\ pc = "makefile"
    /\ IF Makefile \notin DOMAIN ex
       THEN /\ EndRun("failed", 0)
            /\ UNCHANGED <<proj, need>>
       ELSE /\ proj' = Overlay(proj, MkfileDest :> ReplaceToken(ex[Makefile], "../common", "./common"))
            /\ need' = NeedsCommon(ex[Makefile])
            /\ pc' = "common"
            /\ UNCHANGED history
    /\ UNCHANGED <<ex, common>>

(* `if need_copy: copy_folder_contents(...)`: a missing ../common prints a *)
(* message and returns.                                                    *)
CopyCommon ==
    /\ pc = "common"
    /\ proj' = IF need /\ common # NoCommon THEN Overlay(proj, CommonTree(common)) ELSE proj
    /\ pc' = "walk"
    /\ UNCHANGED <<ex, common, need, history>>

(* The os.walk loop over the example, then "Finished creating eclipse     *)
(* project".                                                               *)
CopyExample ==
    /\ pc = "walk"
    /\ proj' = Overlay(proj, [p \in Exported(ex) |-> ex[p]])
    /\ EndRun("finished", 0)
    /\ UNCHANGED <<ex, common, need>>

Done ==
    /\ pc = "idle"
    /\ Len(history) = MaxRuns
    /\ UNCHANGED vars

Next == Start \/ ReadSdkDir \/ CopyTemplate \/ CopyMakefile \/ CopyCommon \/ CopyExample \/ Done

Spec == Init /\ [][Next]_vars

-----------------------------------------------------------------------------
(* Properties.                                                             *)

TypeOK ==
    /\ \A p \in DOMAIN proj : p \in Seq(STRING) /\ proj[p] \in Seq(STRING)
    /\ ex \in ExampleChoices
    /\ common \in CommonChoices
    /\ need \in BOOLEAN
    /\ pc \in {"idle", "sdk", "template", "makefile", "common", "walk"}
    /\ pc \in {"common", "walk"} => Mkfile \in DOMAIN proj
    /\ history \in Seq([result : {"traceback", "failed", "finished"}, exit : {0, 1, 2}])
    /\ Len(history) <= MaxRuns

(* The last run printed "Finished creating eclipse project".               *)
Finished == pc = "idle" /\ history # <<>> /\ Last(history).result = "finished"

(* The files a run takes its export from: the template, the linker        *)
(* scripts, the makefile, ../common and the example.                       *)
Sources ==
    DOMAIN TemplateFiles \cup DOMAIN LdTree \cup {Mkfile} \cup DOMAIN ex
      \cup (IF common = NoCommon THEN {} ELSE {<<"common">> \o q : q \in DOMAIN common})

(* After a finished export, example_ide/<example> holds only files this   *)
(* run took from its sources: nothing survives from an earlier export of  *)
(* the example as it was before it was edited.                             *)
ExportIsFresh == Finished => DOMAIN proj \subseteq Sources

(* After a finished export, the .project and .cproject files carry the    *)
(* example's name and not the template's: the example's own copies of     *)
(* them, made for another project, do not overwrite them.                 *)
EclipseFilesNamed ==
    Finished =>
        \A p \in DOMAIN proj :
            Last(p) \in {".project", ".cproject"} =>
                TemplateName \notin ToSet(proj[p]) /\ ProjName \in ToSet(proj[p])

====
