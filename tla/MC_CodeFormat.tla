---------------------------- MODULE MC_CodeFormat ----------------------------
(***************************************************************************)
(* A small SDK tree: driver sources (one generated, one header, one       *)
(* non-source file), example sources inside and outside src/, and a       *)
(* third-party source. Targets: no argument, a part name, the part name   *)
(* with a trailing '/', a plain directory with and without '/'.           *)
(***************************************************************************)
EXTENDS CodeFormat

Sdk == <<"sdk">>

P(segs, name, ext) ==
    Sdk \o FlattenSeq([k \in DOMAIN segs |-> <<"/", segs[k]>>]) \o <<"/">> \o name \o <<".", ext>>

MCTree ==
    { P(<<"drivers", "pin">>, <<"fpin">>, "c"),
      P(<<"drivers", "pin">>, <<"fpin", "_g">>, "c"),
      P(<<"drivers", "pin">>, <<"fpin">>, "h"),
      P(<<"drivers", "pin">>, <<"readme">>, "md"),
      P(<<"example", "i2c", "src">>, <<"main">>, "c"),
      P(<<"example", "i2c">>, <<"main">>, "c"),
      P(<<"example", "i2c", "inc">>, <<"cfg">>, "h"),
      P(<<"third-party", "lwip">>, <<"api">>, "c") }

Part1 == <<"drivers", "/", "part1">>

MCParts == <<Part1, <<"example", "/", "part1">>>>

MCPartDirs ==
    (Part1 :> <<<<"drivers", "/", "pin">>, <<"drivers", "/", "can">>>>)
      @@ (<<"example", "/", "part1">> :> <<<<"example", "/", "i2c">>>>)

MCArgChoices ==
    { <<>>, <<Part1>>, <<Part1 \o <<"/">>>>, <<<<"example", "/", "part1">>>>,
      <<<<"drivers">>>>, <<<<"example", "/">>>>, <<<<"third-party">>>> }

(* filter_dir.json: generated sources and third-party code excluded; an   *)
(* example file counts only inside src/ or inc/. The second variant adds  *)
(* a condition with no markers, which excludes every file holding its     *)
(* required substring.                                                     *)
Cond1 == [req |-> <<"example">>, miss |-> {<<"src">>, <<"inc">>}]

MCFilters ==
    { [suffixes |-> {<<"_g", ".", "c">>}, patterns |-> {<<"third-party">>},
       conditions |-> <<Cond1>>],
      [suffixes |-> {}, patterns |-> {},
       conditions |-> <<[req |-> <<"pin">>, miss |-> {}], Cond1>>] }
====
