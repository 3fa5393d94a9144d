---------------------------- MODULE MC_AmpBuild ----------------------------
(***************************************************************************)
(* Instances of AmpBuild for TLC. An AMP_CONFIG entry has group 0 (the     *)
(* bootstrap group) and one more group; units are drawn from three source  *)
(* directories, the core ids -1, 1, 2 and both master flags, so that every *)
(* topology error of the code and of the spec can occur.                   *)
(***************************************************************************)
EXTENDS AmpBuild

CONSTANTS P0, P1, P2, P3

Aarch32 == "\"aarch32\""
Aarch64 == "\"aarch64\""

(* One entry of a group: name -> [path, core, master, config file].        *)
Unit(n, p, c, m) ==
    [name |-> n, path |-> p, core |-> c, master |-> m, cfg |-> p]

(* The bootstrap entry of group 0 lives in P0 and runs on core 0.          *)
Boot == Unit("bootstrap", P0, 0, 0)

UnitsOf(n) == {Unit(n, p, c, m) : p \in {P1, P2, P3}, c \in {-1, 1, 2}, m \in {0, 1}}

(* Group 0: the bootstrap alone, or followed by one more image.           *)
Group0s == {<<Boot>>} \cup {<<Boot, u>> : u \in UnitsOf("c")}

(* Group 1: one or two images.                                             *)
Group1s == {<<u>> : u \in UnitsOf("a")}
             \cup {<<u, v>> : u \in UnitsOf("a"), v \in UnitsOf("b")}

TopologySet == {<<g0, g1>> : g0 \in Group0s, g1 \in Group1s}

(* A defconfig: the required board keys, load range, the compat line, and *)
(* the MSDF settings the bootstrap gate reads.                            *)
Snap(st, bd, ld, ln, ms, mc) ==
    [state |-> st, board |-> bd, load |-> ld, len |-> ln, compat |-> TRUE,
     msdf |-> ms, msdfCore |-> mc]

Slot == (P0 :> 0) @@ (P1 :> 1) @@ (P2 :> 2) @@ (P3 :> 3)

(* Consistent, non-overlapping configurations for either execution state. *)
GoodDefconfigs ==
    {[p \in Paths |-> Snap(st, "e2000", Slot[p], 1, TRUE, 0)] : st \in {Aarch32, Aarch64}}

MCPaths == {P0, P1, P2, P3}

(* The spec's end-to-end scenario (section 8): two ordinary images on     *)
(* cores 1 and 2 and a master on core 3 in one group, listed master last  *)
(* or master first; and a group 0 that lacks its bootstrap entry.          *)
Ordinary1 == Unit("a", P1, 1, 0)
Ordinary2 == Unit("b", P2, 2, 0)
Master3 == Unit("m", P3, 3, 1)

ScenarioSet ==
    { <<<<Boot>>, <<Ordinary1, Ordinary2, Master3>>>>,
      <<<<Boot>>, <<Master3, Ordinary1, Ordinary2>>>>,
      <<<<Unit("c", P0, 0, 0)>>, <<Ordinary1, Ordinary2, Master3>>>> }

(* Every load range of P1..P3 within 0..3, two boards for P2, both         *)
(* execution states, and the bootstrap's MSDF settings right, off, on the *)
(* wrong core or missing; the bootstrap image sits at 5.                  *)
Ranges == {[load |-> l, len |-> n] : l \in 0..2, n \in 1..2}

MixedDefconfigs ==
    { (P0 :> Snap(st, "e2000", 5, 1, ms[1], ms[2]))
        @@ (P1 :> Snap(st, "e2000", r1.load, r1.len, TRUE, 0))
        @@ (P2 :> Snap(st, b2, r2.load, r2.len, TRUE, 0))
        @@ (P3 :> Snap(st, "e2000", r3.load, r3.len, TRUE, 0)) :
      st \in {Aarch32, Aarch64}, b2 \in {"e2000", "d2000"},
      r1 \in Ranges, r2 \in Ranges, r3 \in Ranges,
      ms \in {<<TRUE, 0>>, <<FALSE, 0>>, <<TRUE, 1>>, <<TRUE, NoValue>>} }

(* The inputs of a run: each topology with consistent configurations, and *)
(* the end-to-end scenario with every mix of configurations.              *)
TopologyCases == TopologySet \X GoodDefconfigs
ScenarioCases == ScenarioSet \X MixedDefconfigs
BuildCases == TopologyCases \cup ScenarioCases

(* Group 0 reuses the name "a" of an image of group 1: combined_data keeps *)
(* one entry per name across groups.                                       *)
CollisionSet == {<<<<Boot, u>>, g1>> : u \in UnitsOf("a"), g1 \in Group1s}
CollisionCases == CollisionSet \X GoodDefconfigs

(* Two images in different directories that load the same configs/<name>  *)
(* .config: one of group 1 named like the bootstrap's config, or both     *)
(* images of group 1 sharing a name.                                       *)
SharedName == {<<<<Boot>>, <<[Ordinary1 EXCEPT !.cfg = P0]>>>>,
               <<<<Boot>>, <<Ordinary1, [Ordinary2 EXCEPT !.cfg = P1]>>>>}

(* The pre-flight question: every topology, and the shared config names.  *)
PreflightCases == TopologyCases \cup (SharedName \X GoodDefconfigs)

=============================================================================
