---------------------------- MODULE RefreshConfig ----------------------------
(***************************************************************************)
(* src/tools/refresh_config.py: for every example project (a directory    *)
(* with a configs/ subdirectory and an sdkconfig.h), for every            *)
(* configs/*.config in sorted order, run                                   *)
(*   make load_kconfig LOAD_CONFIG_NAME=<config>                           *)
(*   make update_menuconfig                                                *)
(*   make backup_kconfig                                                   *)
(* and stop the whole script with the status of the first make that fails.*)
(*                                                                         *)
(* A file's content is abstracted to the config it was loaded from and    *)
(* whether update_menuconfig has refreshed it: load_kconfig copies        *)
(* configs/<c>.config to the project's sdkconfig, update_menuconfig       *)
(* refreshes sdkconfig, backup_kconfig copies sdkconfig to                 *)
(* configs/<c>.config.                                                     *)
(***************************************************************************)
EXTENDS Integers, Sequences, SequencesExt

CONSTANTS
    Dirs,        \* the directories os.walk visits, in its order
    ConfigsOf,   \* ConfigsOf[d]: the .config files of d/configs, sorted
    Outcomes     \* the values subprocess.call may return

VARIABLES
    files,    \* files[c]: the content of configs/<c>.config
    sdk,      \* sdk[d]: the content of project d's sdkconfig
    pi,       \* index into the project list
    ci,       \* index into the project's configs
    mi,       \* index into the command list
    ok,       \* ok[c]: the makes for config c that returned 0
    pc,
    exit

vars == <<files, sdk, pi, ci, mi, ok, pc, exit>>

AllConfigs == UNION {ToSet(ConfigsOf[d]) : d \in ToSet(Dirs)}

(* The developer's own sdkconfig, from no config file.                     *)
Own == [from |-> "own", fresh |-> FALSE]

-----------------------------------------------------------------------------
(* Data of the program.                                                    *)

(* search_project_paths: the directories holding both configs/ and         *)
(* sdkconfig.h, in os.walk order.                                           *)
Projects == SelectSeq(Dirs, LAMBDA d : d.configs /\ d.header)

Project == Projects[pi]

ProjectConfigs == UNION {ToSet(ConfigsOf[d]) : d \in ToSet(Projects)}

Config == ConfigsOf[Project][ci]

(* Mutant: backup_kconfig run first.                                       *)
CommandsBackupFirst == <<"backup", "load", "update">>

(* Mutant: update_menuconfig run after backup_kconfig.                     *)
CommandsUpdateLast == <<"load", "backup", "update">>

(* The make command sequence, in order.                                    *)
Commands == <<"load", "update", "backup">>

(* Mutant: only a positive status counts as a failure.                     *)
FailedPositive(r) == r > 0

(* result != 0                                                             *)
Failed(r) == r # 0

(* sys.exit(result): the status the shell sees; a make killed by signal n *)
(* returns -n, which the shell sees as 256 - n.                            *)
ExitStatus(r) == r % 256

(* The effect of one successful make on the files.                         *)
Effect(cmd, d, c) ==
    CASE cmd = "load"   -> /\ sdk' = [sdk EXCEPT ![d] = files[c]]
                           /\ UNCHANGED files
      [] cmd = "update" -> /\ sdk' = [sdk EXCEPT ![d].fresh = TRUE]
                           /\ UNCHANGED files
      [] cmd = "backup" -> /\ files' = [files EXCEPT ![c] = sdk[d]]
                           /\ UNCHANGED sdk

-----------------------------------------------------------------------------
(* The steps of the script.                                                 *)

Init ==
    /\ files = [c \in AllConfigs |-> [from |-> c, fresh |-> FALSE]]
    /\ sdk = [d \in ToSet(Dirs) |-> Own]
    /\ pi = 1
    /\ ci = 1
    /\ mi = 1
    /\ ok = [c \in AllConfigs |-> {}]
    /\ pc = "run"
    /\ exit = 0

(* One subprocess.call: a failure prints the error and exits the script.  *)
(* A make that fails may have written its files or not.                    *)
RunCommand ==
    /\ pc = "run"
    /\ pi <= Len(Projects)
    /\ ci <= Len(ConfigsOf[Project])
    /\ mi <= Len(Commands)
    /\ \E r \in Outcomes :
         IF Failed(r)
         THEN /\ \/ Effect(Commands[mi], Project, Config)
                 \/ UNCHANGED <<files, sdk>>
              /\ exit' = ExitStatus(r)
              /\ pc' = "exit"
              /\ UNCHANGED <<mi, ok>>
         ELSE /\ Effect(Commands[mi], Project, Config)
              /\ mi' = mi + 1
              /\ ok' = [ok EXCEPT ![Config] = IF r = 0 THEN @ \cup {Commands[mi]} ELSE @]
              /\ UNCHANGED <<pc, exit>>
    /\ UNCHANGED <<pi, ci>>

(* The config's three makes done: on to the next config.                  *)
NextConfig ==
    /\ pc = "run"
    /\ pi <= Len(Projects)
    /\ ci <= Len(ConfigsOf[Project])
    /\ mi > Len(Commands)
    /\ ci' = ci + 1
    /\ mi' = 1
    /\ UNCHANGED <<files, sdk, pi, ok, pc, exit>>

(* The project's configs done: on to the next project.                    *)
NextProject ==
    /\ pc = "run"
    /\ pi <= Len(Projects)
    /\ ci > Len(ConfigsOf[Project])
    /\ pi' = pi + 1
    /\ ci' = 1
    /\ UNCHANGED <<files, sdk, mi, ok, pc, exit>>

(* Every project done: "Refresh Config Successfully", status 0.            *)
Finish ==
    /\ pc = "run"
    /\ pi > Len(Projects)
    /\ pc' = "done"
    /\ UNCHANGED <<files, sdk, pi, ci, mi, ok, exit>>

Terminated ==
    /\ pc \in {"exit", "done"}
    /\ UNCHANGED vars

Next ==
    RunCommand \/ NextConfig \/ NextProject \/ Finish \/ Terminated

(* The script is one process whose makes return: it never stops forever   *)
(* while it can take a step.                                               *)
Spec == Init /\ [][Next]_vars /\ WF_vars(Next)

-----------------------------------------------------------------------------
(* Properties.                                                             *)

(* configs/<c>.config only ever holds its own settings: backup_kconfig    *)
(* writes back the sdkconfig that load_kconfig took from that very file,   *)
(* even when a make in between fails and the script stops.                *)
NoCrossWrite == \A c \in AllConfigs : files[c].from = c

(* The script reports success only when every config of every project    *)
(* went through all three makes with status 0; otherwise it exits with a  *)
(* non-zero status.                                                        *)
ExitMeansAllRefreshed ==
    /\ pc = "done" => exit = 0 /\ \A c \in ProjectConfigs : ok[c] = ToSet(Commands)
    /\ pc = "exit" => exit # 0

-----------------------------------------------------------------------------
(* Refinement of RefreshSpec.                                              *)

(* The configs in the order the nested loops of main and                  *)
(* process_project_path_node visit them.                                  *)
VisitOrder == FlattenSeq([j \in 1..Len(Projects) |-> ConfigsOf[Projects[j]]])

(* The position in VisitOrder of the config the loops are at; a config    *)
(* whose backup_kconfig has returned 0 counts as done.                    *)
Position ==
    Len(FlattenSeq([j \in 1..(pi - 1) |-> ConfigsOf[Projects[j]]]))
      + (IF pi <= Len(Projects) THEN ci ELSE 1)
      + (IF mi > Len(Commands) THEN 1 ELSE 0)

Abstract == INSTANCE RefreshSpec
    WITH Order <- VisitOrder,
         files <- [c \in ToSet(VisitOrder) |-> files[c]],
         k <- Position,
         state <- CASE pc = "run" -> "running"
                    [] pc = "exit" -> "failed"
                    [] pc = "done" -> "ok",
         exit <- exit

(* The script implements RefreshSpec: the makes of one config together    *)
(* refresh that config file with its own settings, configs are refreshed  *)
(* in the order the loops visit them and none is skipped, a failing make  *)
(* stops everything with a non-zero status, and the script ends.          *)
Refinement == Abstract!Spec

====
