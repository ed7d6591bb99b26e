------------------------------ MODULE ArgParse ------------------------------
(***************************************************************************)
(* argparse_parse() of argparse.c on the options of main.c: one step per   *)
(* option that is read.  A word of the command line is a record: a long    *)
(* option, a cluster of short ones, "--", or any other text; a text counts *)
(* as a number or as nothing that strtoul() takes whole.                   *)
(***************************************************************************)
EXTENDS Messages, Integers

CONSTANT WordMax    \* UINT32_MAX, made smaller: the numbers that are near it matter

ASSUME WordAssumption == WordMax \in Nat \ {0}

Library == {"per_core_oc_clk", "test", "bios_if_ver", "table_ver", "table_addr",
            "transfer_table"}
Options == DOMAIN Operations \ Library
Enables == {"enable_oc", "disable_oc", "power_saving", "max_performance"}
Flags == Enables \cup {"info", "dump_table"}        \* OPT_BOOLEAN
CurveOptions == {"coall", "coper", "cogfx"}         \* OPT_CO32
WordOptions == Options \ (Enables \cup CurveOptions) \* OPT_U32
Known == Options \cup Flags \cup {"help"}

\* Texts that may be values.
Number(sign, mag) == [kind |-> "number", sign |-> sign, mag |-> mag]
Junk == [kind |-> "junk"]
Empty == [kind |-> "empty"]
NoText == [kind |-> "none"]

\* Words of a command line.
Long(name, no, value) == [kind |-> "long", name |-> name, no |-> no, value |-> value]
Short(names, rest) == [kind |-> "short", names |-> names, rest |-> rest]
Dashes == [kind |-> "dashes"]
Plain(text) == [kind |-> "plain", text |-> text]

\* Every text and every word that a command line can have.
AnyText == [kind : {"number"}, sign : {"", "+", "-"}, mag : Nat] \cup {Junk, Empty}
AnyWord ==
    [kind : {"long"}, name : STRING, no : BOOLEAN, value : AnyText \cup {NoText}]
    \cup [kind : {"short"}, names : Seq(STRING), rest : AnyText \cup {NoText}]
    \cup [kind : {"plain"}, text : AnyText] \cup {Dashes}

TextOf(word) == IF word.kind = "plain" THEN word.text ELSE Junk

\* What is left of a word after an option: more short options, then a text.
NoValue == [names |-> <<>>, text |-> NoText, at |-> 0]

ARG_UNSET == WordMax
CO_UNSET == -(WordMax + 1) * 2      \* INT64_MIN: no word, signed or not
Unset(o) == CASE o \in Flags -> 0
              [] o \in CurveOptions -> CO_UNSET
              [] OTHER -> ARG_UNSET

VARIABLES
    argv, at,       \* the command line and the word that is read
    optvalue,       \* what is left of a word: "current option value"
    arg,            \* the variables of main() that the options are stored to
    parsing,        \* "word" or "cluster", then "read", "refused" or "help"
    uses            \* history: which word each option was in, and its value

parser == <<argv, at, optvalue, arg, parsing, uses>>

ParserInit(lines) ==
    /\ argv \in lines /\ at = 1
    /\ optvalue = NoValue
    /\ arg = [o \in Options \cup Flags |-> Unset(o)]
    /\ parsing = "word"
    /\ uses = <<>>

Stop(how) == parsing' = how /\ UNCHANGED <<argv, at, optvalue, arg, uses>>

-----------------------------------------------------------------------------
Fits(text) == text.mag <= WordMax

\* The checks of a value: OPT_U32 takes no sign, OPT_CO32 takes either.
Valid(o, text) ==
    /\ text.kind = "number" /\ Fits(text)
    /\ o \notin CurveOptions => text.sign = ""

Value(text) == IF text.sign = "-" THEN -text.mag ELSE text.mag

\* Goes on after an option, which took the next words words for its value.
Continue(words) ==
    IF optvalue' # NoValue /\ argv[at].kind = "short"
      THEN parsing' = "cluster" /\ at' = at + words
      ELSE parsing' = "word" /\ at' = at + words + 1

\* An OPT_BOOLEAN counts; what is left of the word stays for others.
CountFlag(o, no, left) ==
    /\ arg' = [arg EXCEPT ![o] = IF ~no THEN @ + 1 ELSE IF @ > 0 THEN @ - 1 ELSE 0]
    /\ optvalue' = left
    /\ uses' = Append(uses, [opt |-> o, in |-> at, value |-> at, text |-> NoText])
    /\ Continue(0)

\* Mutant: the value is not cleared once it is taken.
Store_KeepsValue(o, text, from, words) ==
    /\ arg' = [arg EXCEPT ![o] = Value(text)]
    /\ optvalue' = IF from = at /\ argv[at].kind = "long"
                   THEN [names |-> <<>>, text |-> text, at |-> from] ELSE NoValue
    /\ uses' = Append(uses, [opt |-> o, in |-> at, value |-> from, text |-> text])
    /\ Continue(words)

Store(o, text, from, words) ==
    /\ arg' = [arg EXCEPT ![o] = Value(text)]
    /\ optvalue' = NoValue
    /\ uses' = Append(uses, [opt |-> o, in |-> at, value |-> from, text |-> text])
    /\ Continue(words)

\* Mutant: a bad value is passed over, and the rest of the line applied.
TakeValue_PassesOver(o, left) ==
    LET text == IF left # NoValue THEN IF left.names = <<>> THEN left.text ELSE Junk
                ELSE IF at < Len(argv) THEN TextOf(argv[at + 1])
                ELSE NoText
        words == IF left = NoValue /\ at < Len(argv) THEN 1 ELSE 0
    IN  IF Valid(o, text) THEN Store(o, text, IF words = 1 THEN at + 1 ELSE left.at, words)
        ELSE /\ optvalue' = NoValue /\ UNCHANGED <<arg, uses>>
             /\ parsing' = "word" /\ at' = at + words + 1

\* The others take what is left of the word, or else the next word, whatever it is.
TakeValue(o, left) ==
    LET text == IF left # NoValue THEN IF left.names = <<>> THEN left.text ELSE Junk
                ELSE IF at < Len(argv) THEN TextOf(argv[at + 1])
                ELSE NoText
        words == IF left = NoValue /\ at < Len(argv) THEN 1 ELSE 0
    IN  IF Valid(o, text) THEN Store(o, text, IF words = 1 THEN at + 1 ELSE left.at, words)
        ELSE Stop("refused")

\* argparse_getvalue()
GetValue(o, no, left) ==
    IF o = "help" THEN Stop("help")
    ELSE /\ IF o \in Flags THEN CountFlag(o, no, left) ELSE TakeValue(o, left)
         /\ UNCHANGED argv

-----------------------------------------------------------------------------
Reading == parsing = "word" /\ at <= Len(argv)

\* argparse_long_opt(): a value that comes with the option replaces what is left.
ReadLong ==
    /\ Reading /\ argv[at].kind = "long"
    /\ LET word == argv[at]
           left == IF word.value = NoText THEN optvalue
                   ELSE [names |-> <<>>, text |-> word.value, at |-> at]
       IN  IF word.name \in Known /\ (word.no => word.name \in Flags)
             THEN GetValue(word.name, word.no, left)
             ELSE Stop("refused")

\* argparse_short_opt() on the first letter of what is left of the word.
ReadLetter(left) ==
    IF left.names # <<>> /\ Head(left.names) \in Known
      THEN GetValue(Head(left.names), FALSE,
                    IF Len(left.names) = 1 /\ left.text = NoText THEN NoValue
                    ELSE [left EXCEPT !.names = Tail(@)])
      ELSE Stop("refused")

ReadShort ==
    /\ Reading /\ argv[at].kind = "short"
    /\ ReadLetter([names |-> argv[at].names, text |-> argv[at].rest, at |-> at])

ReadCluster ==
    /\ parsing = "cluster"
    /\ ReadLetter(optvalue)

\* main() has no use for words that are not options, nor for a line without any.
RefuseWord ==
    /\ \/ Reading /\ argv[at].kind = "plain"
       \/ argv = <<>> /\ parsing = "word"
    /\ Stop("refused")

EndOfOptions ==
    /\ parsing = "word" /\ argv # <<>>
    /\ at <= Len(argv) => argv[at].kind = "dashes"
    /\ Stop("read")

Parse == ReadLong \/ ReadShort \/ ReadCluster \/ RefuseWord \/ EndOfOptions

\* Mutant: -1 is taken for "not given", as in an option without a sign.
IsSet_Minus1(o) == arg[o] # Unset(o) /\ (o \in CurveOptions => arg[o] # -1)

\* Was the option given?
IsSet(o) == arg[o] # Unset(o)
given == {o \in Options : IsSet(o)}
info == arg["info"] > 0
dump_table == arg["dump_table"] > 0

-----------------------------------------------------------------------------
\* The type of every variable of the parser; while a cluster is read, what is left of
\* it is in optvalue.
ParserTypeOK ==
    /\ argv \in Seq(AnyWord) /\ at \in 1 .. Len(argv) + 1
    /\ optvalue = NoValue \/ optvalue \in [names : Seq(STRING), text : AnyText \cup {NoText},
                                          at : DOMAIN argv]
    /\ arg \in [Options \cup Flags -> Int] /\ \A o \in Flags : arg[o] \in Nat
    /\ \A o \in Options \ Flags : arg[o] \in (-WordMax .. WordMax) \cup {CO_UNSET}
    /\ parsing \in {"word", "cluster", "read", "refused", "help"}
    /\ parsing = "cluster" =>
           at <= Len(argv) /\ argv[at].kind = "short" /\ optvalue.at = at
    /\ uses \in Seq([opt : Options \cup Flags, in : DOMAIN argv, value : DOMAIN argv,
                     text : AnyText \cup {NoText}])

Valued == {k \in DOMAIN uses : uses[k].opt \notin Flags}

\* "current option value": the value of an option is in its own word or is the next
\* word, which is then not read as anything else (argparse.h:109, argparse.c:87-290).
OwnValue ==
    \A k \in Valued :
        \/ uses[k].value = uses[k].in
        \/ /\ uses[k].value = uses[k].in + 1
           /\ \A j \in DOMAIN uses : uses[j].in # uses[k].value

LastOf(o, k) == uses[k].opt = o /\ \A j \in DOMAIN uses : uses[j].opt = o => j <= k

\* The value that main() takes for "not given"; the Curve Optimiser's options have none.
Sentinel(o, text) == o \in WordOptions /\ text.mag = WordMax

\* A line that is accepted is heeded.  The words in front of "--" are those of its options
\* and their values, and the words behind it are nobody's; an option that takes a value
\* counts as given exactly if it has one and its last one is not UINT32_MAX, and it is
\* applied with that last one, -1 for the Curve Optimiser included (main.c:20-31, 60-75,
\* argparse.c:399-458).
Heeded ==
    parsing = "read" =>
        /\ \A w \in DOMAIN argv :
             w < at <=> \E k \in DOMAIN uses : w \in {uses[k].in, uses[k].value}
        /\ \A o \in Options \ Flags :
             o \in given <=> \E k \in Valued :
                 LastOf(o, k) /\ ~Sentinel(o, uses[k].text) /\ arg[o] = Value(uses[k].text)

-----------------------------------------------------------------------------
\* Command lines as the usage describes them, from the words alone.

\* The options of a word, of which only the last can have a value, and the text with it.
NamesIn(word) == IF word.kind = "long" THEN <<word.name>> ELSE word.names
LastName(word) == NamesIn(word)[Len(NamesIn(word))]
OwnText(word) == IF word.kind = "long" THEN word.value ELSE word.rest

IsOption(word) == word.kind \in {"long", "short"}
Lacks(word) == IsOption(word) /\ LastName(word) \notin Flags /\ OwnText(word) = NoText

\* A number that an option takes: 32 bits, and no sign but for the Curve Optimiser.
Proper(o, text) ==
    /\ text.kind = "number" /\ text.mag <= WordMax
    /\ text.sign = "" \/ o \in CurveOptions

\* Word w may stand where it does: it is what the option in front of it lacks, or
\* options that exist, with flags in front of the last one and a value if that takes one.
Fine(w) ==
    LET word == argv[w]
        names == NamesIn(word)
        last == LastName(word)
    IN  \/ word.kind = "plain" /\ w > 1 /\ Lacks(argv[w - 1])
        \/ /\ IsOption(word) /\ names # <<>>
           /\ \A n \in 1 .. Len(names) - 1 : names[n] \in Flags
           /\ \/ last \in Flags /\ (word.kind = "short" => word.rest = NoText)
              \/ /\ last \in Options \ Flags /\ (word.kind = "long" => ~word.no)
                 /\ IF Lacks(word)
                      THEN w < Len(argv) /\ Proper(last, TextOf(argv[w + 1]))
                      ELSE Proper(last, OwnText(word))

\* The words up to the first "--".
BeforeDashes == {w \in DOMAIN argv : \A v \in 1 .. w : argv[v] # Dashes}

=============================================================================
