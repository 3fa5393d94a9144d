----------------------------- MODULE RefreshSpec -----------------------------
(***************************************************************************)
(* What src/tools/refresh_config.py promises, without its makes: the      *)
(* config files of the example projects are refreshed one at a time, in   *)
(* the order the script visits them, each with its own settings; the      *)
(* first failure stops the script with a non-zero status and may leave    *)
(* the config it was working on refreshed or not; success is reported     *)
(* only after the last config.                                             *)
(***************************************************************************)
EXTENDS Integers, Sequences, SequencesExt

CONSTANTS
    Order    \* the configs in the order the script refreshes them

VARIABLES
    files,   \* files[c]: the content of configs/<c>.config
    k,       \* the position in Order of the config being refreshed
    state,   \* "running", "failed" or "ok"
    exit     \* the status the shell sees

vars == <<files, k, state, exit>>

(* A config file as the refresh leaves it: its own settings, refreshed.    *)
Refreshed(c) == [from |-> c, fresh |-> TRUE]

Init ==
    /\ files = [c \in ToSet(Order) |-> [from |-> c, fresh |-> FALSE]]
    /\ k = 1
    /\ state = "running"
    /\ exit = 0

(* The three makes for Order[k] all succeed.                               *)
Refresh ==
    /\ state = "running"
    /\ k <= Len(Order)
    /\ files' = [files EXCEPT ![Order[k]] = Refreshed(Order[k])]
    /\ k' = k + 1
    /\ UNCHANGED <<state, exit>>

(* A make for Order[k] fails: the script stops with a non-zero status.    *)
Fail ==
    /\ state = "running"
    /\ k <= Len(Order)
    /\ \/ files' = [files EXCEPT ![Order[k]] = Refreshed(Order[k])]
       \/ UNCHANGED files
    /\ state' = "failed"
    /\ exit' \in 1..255
    /\ UNCHANGED k

(* Every config refreshed: the script reports success.                     *)
Succeed ==
    /\ state = "running"
    /\ k > Len(Order)
    /\ state' = "ok"
    /\ UNCHANGED <<files, k, exit>>

Next == Refresh \/ Fail \/ Succeed

(* The script ends.                                                         *)
Spec == Init /\ [][Next]_vars /\ WF_vars(Next)

====
