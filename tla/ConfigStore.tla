----------------------------- MODULE ConfigStore -----------------------------
(***************************************************************************)
(* An image's sdkconfig as the text amp_parse_config.py edits and reads    *)
(* (src/standalone/tools/build/py_tools/amp_parse_config.py): a sequence  *)
(* of lines, each an assignment KEY=VALUE, a "# KEY is not set" line, a    *)
(* section comment or a blank line. The tools work on the text of a line  *)
(* (startswith, split('='), strip() ==), so a line is kept as a record and *)
(* Text renders it as a token sequence: a key is a sequence of name parts, *)
(* so one symbol's name can be a prefix of another's, and a quoted string *)
(* value may hold "=".                                                     *)
(*                                                                         *)
(* The operations that change the file: make load_kconfig (a defconfig    *)
(* written by Kconfig), remove_config_line and replace_config_values. The *)
(* readers: extract_config_values and read_config.                        *)
(***************************************************************************)
EXTENDS Integers, Sequences, SequencesExt, FiniteSets

CONSTANTS
    Keys,         \* the Kconfig symbols, as sequences of name parts
    Vals,         \* their values, as token sequences
    Unset,        \* a symbol with no value
    Required,     \* required_vars
    FileChoices,  \* the sdkconfig files make load_kconfig can produce
    Removals,     \* the settings <<key, value>> remove_config_line is given
    DataChoices   \* the config_data dicts of replace_config_values

VARIABLES
    lines   \* the lines of sdkconfig

vars == <<lines>>

-----------------------------------------------------------------------------
(* The text of a line.                                                      *)

Setting(k, v) == [kind |-> "set", key |-> k, val |-> v]

Text(l) ==
    CASE l.kind = "set"     -> l.key \o <<"=">> \o l.val
      [] l.kind = "unset"   -> <<"# ">> \o l.key \o <<" is not set">>
      [] l.kind = "comment" -> <<"#">>
      [] l.kind = "blank"   -> <<>>

(* line.split('=', 1): the text before the first '=' and after it.         *)
SplitOnce(t) ==
    LET i == SelectInSeq(t, LAMBDA x : x = "=")
    IN  <<SubSeq(t, 1, i - 1), SubSeq(t, i + 1, Len(t))>>

(* dict.get(key): Unset for a key the dict does not hold.                  *)
Get(f, k) == IF k \in DOMAIN f THEN f[k] ELSE Unset

NoDict == [k \in {} |-> Unset]

-----------------------------------------------------------------------------
(* The readers.                                                             *)

(* Mutant: values[var] = value, the matched name in place of the line's.  *)
ExtractConfigValuesByVar(ls, names) ==
    FoldLeft(LAMBDA acc, l :
                LET t == Text(l)
                IN  IF \E v \in names : IsPrefix(v, t)
                    THEN ((CHOOSE v \in names : IsPrefix(v, t)) :> SplitOnce(t)[2]) @@ acc
                    ELSE acc,
             NoDict, ls)

(* extract_config_values: every line that starts with a required name is  *)
(* split at its first '=' and stored under the key it names; a later line *)
(* overwrites an earlier one.                                              *)
ExtractConfigValues(ls, names) ==
    FoldLeft(LAMBDA acc, l :
                LET t == Text(l)
                IN  IF \E v \in names : IsPrefix(v, t)
                    THEN (SplitOnce(t)[1] :> SplitOnce(t)[2]) @@ acc
                    ELSE acc,
             NoDict, ls)

(* read_config: lines starting with '#' and blank lines skipped, every    *)
(* other line holding '=' split at its first '='; the last one wins.      *)
ReadConfig(ls) ==
    FoldLeft(LAMBDA acc, l :
                LET t == Text(l)
                IN  IF t = <<>> \/ t[1] \in {"#", "# "} \/ "=" \notin ToSet(t)
                    THEN acc
                    ELSE (SplitOnce(t)[1] :> SplitOnce(t)[2]) @@ acc,
             NoDict, ls)

-----------------------------------------------------------------------------
(* The writers.                                                             *)

(* remove_config_line: every line whose strip() equals the given text is  *)
(* dropped.                                                                *)
RemoveConfigLine(ls, t) == SelectSeq(ls, LAMBDA l : Text(l) # t)

(* The entries of config_data whose key + "=" starts the line.             *)
Matches(l, data) == {i \in DOMAIN data : IsPrefix(data[i][1] \o <<"=">>, Text(l))}

(* Mutant: a missing key appended as f"{value}", without its name.         *)
ReplaceConfigValuesNoKey(ls, data) ==
    LET first(l) == data[Min(Matches(l, data))]
        updated == [j \in DOMAIN ls |->
                       IF Matches(ls[j], data) = {} THEN ls[j]
                       ELSE Setting(first(ls[j])[1], first(ls[j])[2])]
        existing == {first(ls[j])[1] : j \in {j \in DOMAIN ls : Matches(ls[j], data) # {}}}
        missing == SelectSeq(data, LAMBDA p : p[1] \notin existing)
    IN  updated \o [i \in DOMAIN missing |-> Setting(<<>>, missing[i][2])]

(* replace_config_values: a line is rewritten with the first key of       *)
(* config_data that it starts with, and that key counts as existing; the  *)
(* keys no line matched are appended in config_data's order.              *)
ReplaceConfigValues(ls, data) ==
    LET first(l) == data[Min(Matches(l, data))]
        updated == [j \in DOMAIN ls |->
                       IF Matches(ls[j], data) = {} THEN ls[j]
                       ELSE Setting(first(ls[j])[1], first(ls[j])[2])]
        existing == {first(ls[j])[1] : j \in {j \in DOMAIN ls : Matches(ls[j], data) # {}}}
        missing == SelectSeq(data, LAMBDA p : p[1] \notin existing)
    IN  updated \o [i \in DOMAIN missing |-> Setting(missing[i][1], missing[i][2])]

-----------------------------------------------------------------------------
(* The operations.                                                          *)

Init == lines \in FileChoices

(* load_check_update_kconfig's make load_kconfig: the defconfig is copied *)
(* to sdkconfig.                                                           *)
Load == \E f \in FileChoices : lines' = f

(* execute_make_commands under aarch32: remove_config_line(path,          *)
(* "CONFIG_USE_AARCH64_L1_TO_AARCH32=y", "sdkconfig").                     *)
RemoveLine ==
    \E r \in Removals : lines' = RemoveConfigLine(lines, Text(Setting(r[1], r[2])))

(* replace_config_values(config_path, config_data).                        *)
Replace ==
    \E d \in DataChoices : lines' = ReplaceConfigValues(lines, d)

Next == Load \/ RemoveLine \/ Replace

Spec == Init /\ [][Next]_vars

-----------------------------------------------------------------------------
(* Properties.                                                             *)

Line ==
    {Setting(k, v) : k \in Keys, v \in Vals}
      \cup {[kind |-> "unset", key |-> k, val |-> <<>>] : k \in Keys}
      \cup {[kind |-> c, key |-> <<>>, val |-> <<>>] : c \in {"comment", "blank"}}

TypeOK == lines \in Seq(Line)

(* What the file means to make and Kconfig: the value of a symbol is that *)
(* of its last assignment line; a "not set" line or no line leaves it     *)
(* Unset.                                                                  *)
View(ls) ==
    [k \in Keys |->
        LET at == {i \in DOMAIN ls : ls[i].kind = "set" /\ ls[i].key = k}
        IN  IF at = {} THEN Unset ELSE ls[Max(at)].val]

(* extract_config_values, whose CONFIG_ARCH_EXECUTION_STATE decides the   *)
(* aarch32 fixup, and read_config, whose CONFIG_USE_MSDF and              *)
(* CONFIG_MSDF_CORE_ID gate the bootstrap, read every symbol as the file  *)
(* means it, even when another symbol's name starts with it, when it is   *)
(* "not set", and when its value holds '='.                               *)
ReadersAgree ==
    /\ \A k \in Keys : Get(ReadConfig(lines), k) = View(lines)[k]
    /\ \A r \in Required : Get(ExtractConfigValues(lines, Required), r) = View(lines)[r]

====
