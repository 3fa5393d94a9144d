--------------------------- MODULE MC_ConfigStore ---------------------------
(***************************************************************************)
(* Four symbols in the order Kconfig writes them: the execution state,    *)
(* the aarch32 L1 switch, and a name symbol followed by a symbol whose    *)
(* name extends it. The first two are absent, "not set" or assigned, the  *)
(* names absent, y or a quoted string holding '='; a file may open with a *)
(* section comment and a blank line.                                      *)
(***************************************************************************)
EXTENDS ConfigStore

State == <<"CONFIG_ARCH_EXECUTION_STATE">>
L1 == <<"CONFIG_USE_AARCH64_L1_TO_AARCH32">>
Soc == <<"CONFIG_SOC_NAME">>
SocExt == <<"CONFIG_SOC_NAME", "_EXT">>

Y == <<"y">>
Aarch32 == <<"\"", "aarch32", "\"">>
WithEq == <<"\"", "a", "=", "b", "\"">>

MCKeys == {State, L1, Soc, SocExt}
MCVals == {Y, Aarch32, WithEq}
MCRequired == {State, Soc}

(* The lines Kconfig writes for one symbol: none, "not set", or an       *)
(* assignment of one of vs.                                                *)
SymbolLines(k, vs, unset) ==
    {<<>>} \cup {<<Setting(k, v)>> : v \in vs}
      \cup (IF unset THEN {<<[kind |-> "unset", key |-> k, val |-> <<>>]>>} ELSE {})

Header == <<[kind |-> "comment", key |-> <<>>, val |-> <<>>],
            [kind |-> "blank", key |-> <<>>, val |-> <<>>]>>

MCFileChoices ==
    {h \o a \o b \o c \o d :
        h \in {<<>>, Header},
        a \in SymbolLines(State, {Aarch32}, TRUE),
        b \in SymbolLines(L1, {Y}, TRUE),
        c \in SymbolLines(Soc, {Y, WithEq}, FALSE),
        d \in SymbolLines(SocExt, {Y, WithEq}, FALSE)}

MCRemovals == {<<L1, Y>>}

MCDataChoices == {<<<<Soc, Y>>>>, <<<<State, Aarch32>>, <<L1, Y>>>>}
====
