--------------------------- MODULE MC_MisraCheck ---------------------------
(***************************************************************************)
(* Instances of MisraCheck. Rule ids are spelled out character by         *)
(* character: 1.1 and 11.1 are in ALL_MISRAC_RULE, 21.18 is one of the     *)
(* rules the list leaves out (with 21.13 and 21.17). The tree has header  *)
(* directories in arch (checked, not ignored by the tree walk), in lib    *)
(* and below it, and in drivers (checked, ignored by the tree walk).      *)
(***************************************************************************)
EXTENDS MisraCheck

R1_1 == <<"1", ".", "1">>
R11_1 == <<"1", "1", ".", "1">>
R21_18 == <<"2", "1", ".", "1", "8">>

Arch == <<"arch">>
Drivers == <<"drivers">>

MCRoot == <<"sdk">>

(* The script lives in sdk/tools/misrac; sdk and sdk/lib/x hold .gitlab. *)
MCStartPath == <<"sdk", "/", "tools", "/", "misrac">>
MCMarked == {MCRoot, <<"sdk", "/", "lib", "/", "x">>}

(* Start directories below sdk, below the nested marker, at a marker and *)
(* outside every marked tree.                                              *)
Probes ==
    {MCStartPath, MCRoot, <<"sdk", "/", "lib", "/", "x", "/", "y">>,
     <<"sdk", "/", "lib">>, <<"other", "/", "tools">>}

(* find_project_root against the nearest marked ancestor.                 *)
ProjectRootIsNearest == RootIsNearestMarked(Probes)

(* Every selection below, and none: an empty --misra-rules.               *)
MCRuleChoices == {{}, {R1_1}, {R11_1}, {R21_18}, {R1_1, R11_1}}

MCPathChoices == {<<>>, <<Arch>>, <<Drivers>>, <<Arch, Drivers>>}

(* Every mix of up to two violations among the checked directories.       *)
MCViolationSets ==
    {v \in SUBSET ({Arch, Drivers} \X {R1_1, R11_1, R21_18}) : Cardinality(v) <= 2}

Dir(segs) == MCRoot \o FlattenSeq([i \in DOMAIN segs |-> <<"/", segs[i]>>])

MCHeaderDirs ==
    {Dir(<<"arch">>), Dir(<<"arch", "gic">>), Dir(<<"lib">>), Dir(<<"lib", "libc">>),
     Dir(<<"drivers", "pin">>)}

(* The clone directory: missing, left empty by a failed clone, holding an *)
(* interrupted clone without misra.py, or holding a clone.                *)
MCToolStates == {"absent", "empty", "junk", "cloned"}
====
