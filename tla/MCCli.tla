------------------------------- MODULE MCCli -------------------------------
(***************************************************************************)
(* Every option alone and every combination of those that depend on one    *)
(* another, on every family; and every short line over an alphabet of      *)
(* words, on one family.                                                   *)
(***************************************************************************)
EXTENDS Cli, SequencesExt

Start(families, lines) == [family : families, argv : lines]

WordOf(o) == Long(o, FALSE, IF o \in Flags THEN NoText ELSE Number("", 5))
LineOf(options) ==
    LET order == <<"info", "dump_table">> \o Order
        chosen == SelectSeq(order, LAMBDA o : o \in options)
    IN  [k \in DOMAIN chosen |-> WordOf(chosen[k])]

Dependent == {"stapm_limit", "enable_oc", "oc_clk", "disable_oc", "power_saving",
              "max_performance", "info", "dump_table"}

Requests == {{o} : o \in Options} \cup (SUBSET Dependent \ {{}})

Words == {
    Long("info", FALSE, NoText), Long("info", TRUE, NoText),
    Long("stapm_limit", FALSE, NoText), Long("stapm_limit", FALSE, Number("", 5)),
    Long("stapm_limit", FALSE, Number("", 16)), Long("fast_limit", TRUE, NoText),
    Long("fast_limit", FALSE, NoText), Long("fast_limit", FALSE, Empty),
    Long("coall", FALSE, NoText), Long("coall", FALSE, Number("+", 15)),
    Long("help", FALSE, NoText),
    Short(<<"info", "stapm_limit">>, Number("", 3)), Short(<<"stapm_limit">>, NoText),
    Short(<<"info">>, Junk),
    Plain(Number("", 15)), Plain(Number("-", 1)), Plain(Junk), Dashes}

Lines(words) == UNION {[1 .. n -> words] : n \in 0 .. 3}

SomeStarts ==
    Start(Families \cup {"UNKNOWN"}, {LineOf(options) : options \in Requests})
    \cup Start({"CEZANNE"}, Lines(Words))

\* A value for an option that takes none.
FlagValueStarts ==
    Start({"CEZANNE"}, Lines(Words \cup {Long("info", FALSE, Number("", 5))}))

=============================================================================
