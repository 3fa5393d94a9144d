-------------------------- MODULE MC_RefreshConfig --------------------------
(***************************************************************************)
(* Four example directories in os.walk order: three projects with two    *)
(* configs each, and a directory with configs/ but no sdkconfig.h that   *)
(* the script skips. A make returns 0, fails with 2, or is killed by SIGINT   *)
(* (-2, which sys.exit turns into status 254).                            *)
(***************************************************************************)
EXTENDS RefreshConfig

CONSTANTS A1, A2, B1, B2, C1, D1, D2

DirA == [name |-> "a", configs |-> TRUE, header |-> TRUE]
DirB == [name |-> "b", configs |-> TRUE, header |-> TRUE]
DirC == [name |-> "c", configs |-> TRUE, header |-> FALSE]
DirD == [name |-> "d", configs |-> TRUE, header |-> TRUE]

MCDirs == <<DirA, DirC, DirB, DirD>>

MCConfigsOf ==
    (DirA :> <<A1, A2>>) @@ (DirB :> <<B1, B2>>) @@ (DirC :> <<C1>>) @@ (DirD :> <<D1, D2>>)

MCOutcomes == {0, 2, -2}
====
