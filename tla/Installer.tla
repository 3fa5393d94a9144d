------------------------------ MODULE Installer ------------------------------
(***************************************************************************)
(* src/install.py, run again and again on one machine. The standalone SDK *)
(* directory persists between runs; a run may be interrupted between any  *)
(* two of its steps (Ctrl-C, a closed terminal, a power cut), and every   *)
(* git command it starts through os.system may fail without the script    *)
(* noticing.                                                               *)
(*                                                                         *)
(* The standalone tree is abstracted to whether it exists, which commit   *)
(* HEAD names (none for a clone cut short before its first checkout, the  *)
(* master tip, the pinned standalone_sdk_v) and whether the sparse        *)
(* checkout patterns were applied.                                         *)
(***************************************************************************)
EXTENDS Integers, Sequences

CONSTANTS
    MaxRuns,      \* the number of times the script is started
    Pinned,       \* standalone_sdk_v
    Tip,          \* the commit the master branch points to
    NoHead        \* HEAD of a clone cut short before its first checkout

ASSUME Pinned # Tip

VARIABLES
    supported,  \* platform.system()/machine() is one the script knows
    tree,       \* the standalone directory
    pc,         \* the step of the running script, "idle" between runs
    fromHere,   \* curr_path == install_path for the running script
    history     \* one record per run: what it printed and how it ended

vars == <<supported, tree, pc, fromHere, history>>

Absent == [exists |-> FALSE, head |-> NoHead, sparse |-> FALSE]

(* The results a run can end with: the messages it prints last.           *)
Results == {"unsupported", "success", "warn", "silent", "traceback", "interrupted"}

-----------------------------------------------------------------------------
(* Data of the program.                                                    *)

(* os.popen('git rev-parse HEAD').read(): the hash and a newline; when    *)
(* HEAD does not resolve git echoes the argument "HEAD" instead.           *)
RevParse(t) == <<IF t.head = NoHead THEN "HEAD" ELSE t.head, "\n">>

(* .strip()                                                                *)
CurrentHash(t) == SelectSeq(RevParse(t), LAMBDA c : c # "\n")

(* current_hash != standalone_sdk_v, as strings.                           *)
Matches(t) == CurrentHash(t) = <<Pinned>>

(* The run ends: its result is recorded with the tree it leaves behind.    *)
EndRun(result, t) ==
    /\ pc' = "idle"
    /\ history' = Append(history, [result |-> result, head |-> t.head])

-----------------------------------------------------------------------------
(* The steps of the script.                                                 *)

Init ==
    /\ supported \in BOOLEAN
    /\ tree = Absent
    /\ pc = "idle"
    /\ fromHere = TRUE
    /\ history = <<>>

(* The user starts the script, from the SDK directory or from elsewhere.   *)
Start ==
    /\ pc = "idle"
    /\ Len(history) < MaxRuns
    /\ pc' = "platform"
    /\ fromHere' \in BOOLEAN
    /\ UNCHANGED <<supported, tree, history>>

(* STEP 1: an unknown platform prints a message and calls exit().          *)
CheckPlatform ==
    /\ pc = "platform"
    /\ IF ~supported
       THEN EndRun("unsupported", tree)
       ELSE /\ pc' = IF tree.exists THEN "revparse" ELSE "clone"
            /\ UNCHANGED history
    /\ UNCHANGED <<supported, tree, fromHere>>

(* git clone -b master: a failed clone removes what it created; a clone   *)
(* killed hard leaves a directory whose HEAD does not resolve. Then       *)
(* os.chdir(standalone_path), which raises when there is no directory.    *)
Clone ==
    /\ pc = "clone"
    /\ \/ /\ tree' = [exists |-> TRUE, head |-> Tip, sparse |-> FALSE]
          /\ pc' = "sparse"
          /\ UNCHANGED history
       \/ /\ tree' = Absent
          /\ EndRun("traceback", Absent)
       \/ /\ tree' = [exists |-> TRUE, head |-> NoHead, sparse |-> FALSE]
          /\ EndRun("interrupted", tree')
    /\ UNCHANGED <<supported, fromHere>>

(* git config core.sparsecheckout true, advice.detachedHead false,         *)
(* sparse-checkout init and sparse-checkout set: their statuses are       *)
(* ignored, so the patterns are applied or not.                            *)
SparseCheckout ==
    /\ pc = "sparse"
    /\ \E ok \in BOOLEAN : tree' = [tree EXCEPT !.sparse = ok]
    /\ pc' = "checkout"
    /\ UNCHANGED <<supported, fromHere, history>>

(* git checkout standalone_sdk_v, status ignored, then the success message.*)
Checkout ==
    /\ pc = "checkout"
    /\ \E h \in {Pinned, tree.head} :
          /\ tree' = [tree EXCEPT !.head = h]
          /\ EndRun("success", tree')
    /\ UNCHANGED <<supported, fromHere>>

(* An existing directory: its HEAD is compared with standalone_sdk_v; a   *)
(* mismatch prints the warnings and exit()s, a match exit()s silently    *)
(* when the script was started from another directory.                   *)
RevParseCheck ==
    /\ pc = "revparse"
    /\ CASE ~Matches(tree) -> EndRun("warn", tree)
         [] ~fromHere      -> EndRun("silent", tree)
         [] OTHER          -> EndRun("success", tree)
    /\ UNCHANGED <<supported, tree, fromHere>>

(* The run is killed between two steps; the tree stays as it is.           *)
Interrupt ==
    /\ pc \in {"platform", "clone", "sparse", "checkout", "revparse"}
    /\ EndRun("interrupted", tree)
    /\ UNCHANGED <<supported, tree, fromHere>>

Done ==
    /\ pc = "idle"
    /\ Len(history) = MaxRuns
    /\ UNCHANGED vars

Next ==
    Start \/ CheckPlatform \/ Clone \/ SparseCheckout \/ Checkout
      \/ RevParseCheck \/ Interrupt \/ Done

Spec == Init /\ [][Next]_vars

-----------------------------------------------------------------------------
(* Properties.                                                             *)

(* The messages a run ends with, "Standalone SDK download is succeed" and *)
(* "Success!!! Phytium FreeRTOS SDK is Install at ...", claim that the    *)
(* standalone SDK at standalone_sdk_v is in place: every run that prints  *)
(* them leaves HEAD at the pinned commit, whatever the git commands it    *)
(* started through os.system returned.                                     *)
SuccessMeansPinned ==
    \A n \in DOMAIN history :
        history[n].result = "success" => history[n].head = Pinned

====
