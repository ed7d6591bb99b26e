--------------------------- MODULE ArgParseProofs ---------------------------
(***************************************************************************)
(* What one step of the parser preserves, for command lines of any length  *)
(* over all words.  CliProofs makes theorems about a run of it.            *)
(***************************************************************************)
EXTENDS ArgParse, SequenceTheorems, TLAPS

Taking == Options \ Flags       \* the options that take a value

Use == [opt : Options \cup Flags, in : DOMAIN argv, value : DOMAIN argv,
        text : AnyText \cup {NoText}]

\* What may be left of word w.
LeftOf(w) == [names : Seq(STRING), text : AnyText \cup {NoText}, at : {w}]
Left == {NoValue} \cup [names : Seq(STRING), text : AnyText \cup {NoText}, at : DOMAIN argv]

\* The kinds of step: the parser stops, counts a flag, or takes a value, which is in
\* the next word or is what is left of one.
Stops == \/ parsing' \in {"refused", "help"} /\ Stop(parsing')
         \/ parsing = "word" /\ Stop("read")

Counts(o, no, left) ==
    /\ CountFlag(o, no, left) /\ UNCHANGED argv
    /\ argv[at].kind = "short" => left \in {NoValue} \cup LeftOf(at)
    /\ argv[at].kind # "short" =>
           /\ argv[at].kind = "long" /\ argv[at].name = o
           /\ left = optvalue \/ argv[at].value # NoText
    /\ left = optvalue \/ left = NoValue \/ left.at = at

Takes(o, text, from, words) ==
    /\ Store(o, text, from, words) /\ UNCHANGED argv
    /\ Valid(o, text)
    /\ \/ words = 1 /\ from = at + 1
       \/ words = 0 /\ (from # at => argv[at].kind # "short" /\ from = optvalue.at)

Step ==
    \/ Stops
    \/ /\ at \in DOMAIN argv /\ parsing \in {"word", "cluster"}
       /\ \/ \E o \in Flags, no \in BOOLEAN, left \in Left : Counts(o, no, left)
          \/ \E o \in Taking, text \in AnyText, from \in DOMAIN argv, words \in {0, 1} :
                Takes(o, text, from, words)

LEMMA ArgvDomain == ParserTypeOK => DOMAIN argv = 1 .. Len(argv) /\ Len(argv) \in Nat
  BY DEF ParserTypeOK

\* Records with different fields, and other kinds, are different.
LEMMA TextKinds == NoText.kind = "none" /\ \A t \in AnyText : t.kind # "none" /\ t # NoText
  <1>1. \A t \in AnyText : t.kind # "none"
    <2>1. \A t \in [kind : {"number"}, sign : {"", "+", "-"}, mag : Nat] : t.kind = "number"
      OBVIOUS
    <2>2. Junk.kind = "junk" /\ Empty.kind = "empty"
      BY DEF Junk, Empty
    <2> QED BY <2>1, <2>2 DEF AnyText
  <1>2. NoText.kind = "none"
    BY DEF NoText
  <1> QED BY <1>1, <1>2

\* A word is of one kind.
LEMMA WordKinds ==
    ASSUME NEW word \in AnyWord
    PROVE  /\ word.kind = "long" => /\ word.no \in BOOLEAN
                                    /\ word.value \in AnyText \cup {NoText}
           /\ word.kind = "short" => /\ word.names \in Seq(STRING)
                                     /\ word.rest \in AnyText \cup {NoText}
           /\ word.kind = "plain" => word.text \in AnyText
  <1> DEFINE T == AnyText
  <1> HIDE DEF T
  <1> QED BY DEF AnyWord, Dashes

LEMMA TextsOfWords == \A word \in AnyWord : TextOf(word) \in AnyText
  BY WordKinds DEF AnyText, TextOf

-----------------------------------------------------------------------------
\* Every step of the parser is of one of these kinds.

LEMMA ValueStep ==
    ASSUME ParserTypeOK, at \in DOMAIN argv, parsing \in {"word", "cluster"},
           NEW o \in Taking, NEW left \in Left,
           argv[at].kind = "short" => left \in {NoValue} \cup LeftOf(at),
           left = optvalue \/ left = NoValue \/ left.at = at,
           TakeValue(o, left), UNCHANGED argv
    PROVE  Step
  <1> DEFINE next == left = NoValue /\ at < Len(argv)
             text == IF left # NoValue THEN IF left.names = <<>> THEN left.text ELSE Junk
                     ELSE IF at < Len(argv) THEN TextOf(argv[at + 1]) ELSE NoText
             words == IF next THEN 1 ELSE 0
             from == IF words = 1 THEN at + 1 ELSE left.at
  <1>1. CASE ~Valid(o, text)
    BY <1>1 DEF TakeValue, Step, Stops, Stop
  <1>2. CASE Valid(o, text)
    <2>1. Store(o, text, from, words)
      BY <1>2 DEF TakeValue
    <2>2. text.kind # "none"
      BY <1>2 DEF Valid
    <2>3. text \in AnyText /\ from \in DOMAIN argv
      <3>1. CASE left # NoValue
        <4>1. left.text \in AnyText \cup {NoText} /\ left.at \in DOMAIN argv
          BY <3>1 DEF Left
        <4>2. Junk \in AnyText
          BY DEF AnyText
        <4> QED BY <2>2, <3>1, <4>1, <4>2, TextKinds
      <3>2. CASE left = NoValue /\ at < Len(argv)
        <4>1. at + 1 \in DOMAIN argv /\ argv[at + 1] \in AnyWord
          BY <3>2, ArgvDomain, ElementOfSeq DEF ParserTypeOK
        <4> QED BY <3>2, <4>1, TextsOfWords
      <3>3. CASE left = NoValue /\ ~(at < Len(argv))
        BY <2>2, <3>3, TextKinds
      <3> QED BY <3>1, <3>2, <3>3
    <2>4. words \in {0, 1} /\ (words = 1 => from = at + 1)
      OBVIOUS
    <2>5. words = 0 /\ from # at => argv[at].kind # "short" /\ from = optvalue.at
      <3> SUFFICES ASSUME words = 0, from # at
                   PROVE  argv[at].kind # "short" /\ from = optvalue.at
        OBVIOUS
      <3>1. left # NoValue
        <4>1. ~next
          OBVIOUS
        <4>2. left = NoValue => text = NoText
          BY <4>1
        <4> QED BY <2>2, <4>2, TextKinds
      <3>2. from = left.at
        OBVIOUS
      <3> QED BY <3>1, <3>2 DEF LeftOf
    <2> HIDE DEF next, text, words, from
    <2>6. Takes(o, text, from, words)
      BY <1>2, <2>1, <2>4, <2>5 DEF Takes
    <2> QED BY <2>3, <2>4, <2>6 DEF Step
  <1> QED BY <1>1, <1>2

LEMMA OptionStep ==
    ASSUME ParserTypeOK, at \in DOMAIN argv, parsing \in {"word", "cluster"},
           NEW o \in Known, NEW no \in BOOLEAN, NEW left \in Left,
           argv[at].kind = "short" => left \in {NoValue} \cup LeftOf(at),
           left = optvalue \/ left = NoValue \/ left.at = at,
           argv[at].kind # "short" =>
               /\ argv[at].kind = "long" /\ argv[at].name = o
               /\ left = optvalue \/ argv[at].value # NoText,
           GetValue(o, no, left)
    PROVE  Step
  <1>1. CASE o = "help"
    BY <1>1 DEF GetValue, Step, Stops, Stop
  <1>2. CASE o # "help" /\ o \in Flags
    <2>1. Counts(o, no, left)
      BY <1>2 DEF GetValue, Counts
    <2> QED BY <1>2, <2>1 DEF Step
  <1>3. CASE o # "help" /\ o \notin Flags
    <2>1. o \in Taking
      BY <1>3 DEF Known, Taking
    <2> QED BY <1>3, <2>1, ValueStep DEF GetValue
  <1> QED BY <1>1, <1>2, <1>3

LEMMA LetterStep ==
    ASSUME ParserTypeOK, at \in DOMAIN argv, parsing \in {"word", "cluster"},
           argv[at].kind = "short", NEW left \in LeftOf(at), ReadLetter(left)
    PROVE  Step
  <1>1. CASE left.names # <<>> /\ Head(left.names) \in Known
    <2> DEFINE rest == IF Len(left.names) = 1 /\ left.text = NoText THEN NoValue
                       ELSE [left EXCEPT !.names = Tail(@)]
    <2>1. GetValue(Head(left.names), FALSE, rest)
      BY <1>1 DEF ReadLetter
    <2>2. Tail(left.names) \in Seq(STRING)
      BY <1>1, HeadTailProperties DEF LeftOf
    <2>3. [left EXCEPT !.names = Tail(@)] \in LeftOf(at)
      BY <2>2 DEF LeftOf
    <2>4. rest \in {NoValue} \cup LeftOf(at)
      BY <2>3
    <2>5. rest \in Left /\ (rest = NoValue \/ rest.at = at)
      BY <2>4 DEF Left, LeftOf
    <2> HIDE DEF rest
    <2> QED BY <1>1, <2>1, <2>4, <2>5, OptionStep
  <1>2. CASE ~(left.names # <<>> /\ Head(left.names) \in Known)
    BY <1>2 DEF ReadLetter, Step, Stops, Stop
  <1> QED BY <1>1, <1>2

LEMMA ParseStep == ParserTypeOK /\ Parse => Step
  <1> SUFFICES ASSUME ParserTypeOK, Parse PROVE Step
    OBVIOUS
  <1>1. Reading => at \in DOMAIN argv /\ parsing = "word" /\ argv[at] \in AnyWord
    BY ArgvDomain, ElementOfSeq DEF Reading, ParserTypeOK
  <1>2. CASE ReadLong
    <2> DEFINE word == argv[at]
               left == IF word.value = NoText THEN optvalue
                       ELSE [names |-> <<>>, text |-> word.value, at |-> at]
    <2>1. Reading /\ word.kind = "long" /\ word \in AnyWord
      BY <1>1, <1>2 DEF ReadLong
    <2>2. word.no \in BOOLEAN /\ word.value \in AnyText \cup {NoText}
      BY <2>1, WordKinds
    <2>3. left \in Left
      BY <1>1, <2>1, <2>2, EmptySeq DEF Left, ParserTypeOK
    <2>4. left = optvalue \/ (argv[at].value # NoText /\ left.at = at)
      OBVIOUS
    <2>5. \/ Stop("refused")
          \/ word.name \in Known /\ GetValue(word.name, word.no, left)
      BY <1>2 DEF ReadLong
    <2> HIDE DEF left
    <2>6. CASE Stop("refused")
      BY <2>6 DEF Step, Stops, Stop
    <2> QED BY <1>1, <2>1, <2>2, <2>3, <2>4, <2>5, <2>6, OptionStep
  <1>3. CASE ReadShort
    <2> DEFINE left == [names |-> argv[at].names, text |-> argv[at].rest, at |-> at]
    <2>1. Reading /\ argv[at].kind = "short" /\ ReadLetter(left)
      BY <1>3 DEF ReadShort
    <2>2. left \in LeftOf(at)
      BY <1>1, <2>1, WordKinds DEF LeftOf
    <2> HIDE DEF left
    <2> QED BY <1>1, <2>1, <2>2, LetterStep
  <1>4. CASE ReadCluster
    <2>1. /\ parsing = "cluster" /\ at \in DOMAIN argv /\ argv[at].kind = "short"
          /\ optvalue.at = at
      BY <1>4, ArgvDomain DEF ReadCluster, ParserTypeOK
    <2>2. optvalue # NoValue
      BY <2>1, ArgvDomain DEF NoValue
    <2>3. optvalue \in LeftOf(at)
      BY <2>1, <2>2 DEF LeftOf, ParserTypeOK
    <2> QED BY <1>4, <2>1, <2>3, LetterStep DEF ReadCluster
  <1>5. CASE RefuseWord \/ EndOfOptions
    BY <1>5 DEF RefuseWord, EndOfOptions, Step, Stops, Stop
  <1> QED BY <1>2, <1>3, <1>4, <1>5 DEF Parse

-----------------------------------------------------------------------------
\* What a step writes down.

LEMMA UsesMore ==
    ASSUME uses \in Seq(Use), NEW use \in Use, uses' = Append(uses, use)
    PROVE  /\ uses' \in Seq(Use)
           /\ Len(uses) \in Nat /\ DOMAIN uses = 1 .. Len(uses)
           /\ DOMAIN uses' = 1 .. Len(uses) + 1
           /\ \A k \in DOMAIN uses : uses'[k] = uses[k]
           /\ uses'[Len(uses) + 1] = use
  <1>1. /\ uses' \in Seq(Use) /\ Len(uses') = Len(uses) + 1
        /\ \A k \in 1 .. Len(uses) : uses'[k] = uses[k]
        /\ uses'[Len(uses) + 1] = use
    BY AppendProperties
  <1>2. Len(uses) \in Nat /\ DOMAIN uses = 1 .. Len(uses) /\ DOMAIN uses' = 1 .. Len(uses')
    BY <1>1, LenProperties
  <1> QED BY <1>1, <1>2

\* An option that was read: where it was, and where its value; the words up to there
\* are done, unless there are more options in the cluster.
Reads(o, from, text, words) ==
    /\ at \in DOMAIN argv /\ parsing \in {"word", "cluster"} /\ UNCHANGED argv
    /\ o \in Options \cup Flags /\ from \in DOMAIN argv /\ text \in AnyText \cup {NoText}
    /\ uses' = Append(uses, [opt |-> o, in |-> at, value |-> from, text |-> text])
    /\ \/ parsing' = "word" /\ at' = at + words + 1
       \/ parsing' = "cluster" /\ at' = at /\ o \in Flags
    /\ words \in {0, 1} /\ (words = 1 => from = at + 1)
    /\ words = 0 /\ from # at => argv[at].kind # "short" /\ from = optvalue.at
    /\ parsing' = "word" /\ optvalue' # NoValue =>
           /\ argv[at].kind = "long" /\ argv[at].name = o /\ o \in Flags
           /\ optvalue' = optvalue \/ argv[at].value # NoText
    /\ optvalue' = optvalue \/ optvalue' = NoValue \/ optvalue'.at = at
    /\ \/ o \in Flags /\ from = at /\ \E v \in Nat : arg' = [arg EXCEPT ![o] = v]
       \/ o \in Taking /\ Valid(o, text) /\ arg' = [arg EXCEPT ![o] = Value(text)]

LEMMA ReadsUse ==
    ASSUME NEW o, NEW from, NEW text, NEW words, Reads(o, from, text, words)
    PROVE  [opt |-> o, in |-> at, value |-> from, text |-> text] \in Use
  BY DEF Reads, Use

LEMMA OptionReads ==
    ASSUME ParserTypeOK, Parse, ~Stops
    PROVE  \E o, from, text, words : Reads(o, from, text, words)
  <1>1. at \in DOMAIN argv /\ parsing \in {"word", "cluster"} /\ at + 0 = at
    BY ParseStep, ArgvDomain DEF Step
  <1>2. ASSUME NEW o \in Flags, NEW no \in BOOLEAN, NEW left \in Left, Counts(o, no, left)
        PROVE  Reads(o, at, NoText, 0)
    <2>1. CountFlag(o, no, left) /\ UNCHANGED argv
      BY <1>2 DEF Counts
    <2>2. \E v \in Nat : arg' = [arg EXCEPT ![o] = v]
      <3>1. arg[o] \in Nat
        BY <1>2 DEF ParserTypeOK
      <3> DEFINE v == IF ~no THEN arg[o] + 1 ELSE IF arg[o] > 0 THEN arg[o] - 1 ELSE 0
      <3>2. v \in Nat
        BY <3>1
      <3>3. arg' = [arg EXCEPT ![o] = v]
        BY <2>1 DEF CountFlag
      <3> QED BY <3>2, <3>3
    <2>3. \/ parsing' = "word" /\ at' = at + 0 + 1
          \/ parsing' = "cluster" /\ at' = at + 0
      BY <2>1 DEF CountFlag, Continue
    <2>4. parsing' = "word" /\ optvalue' # NoValue =>
            /\ argv[at].kind = "long" /\ argv[at].name = o
            /\ optvalue' = optvalue \/ argv[at].value # NoText
      <3>1. optvalue' = left /\ (parsing' = "word" /\ left # NoValue => argv[at].kind # "short")
        BY <2>1 DEF CountFlag, Continue
      <3> QED BY <1>2, <3>1 DEF Counts
    <2>5. optvalue' = optvalue \/ optvalue' = NoValue \/ optvalue'.at = at
      BY <1>2, <2>1 DEF Counts, CountFlag
    <2> QED BY <1>1, <1>2, <2>1, <2>2, <2>3, <2>4, <2>5 DEF Reads, CountFlag
  <1>3. ASSUME NEW o \in Taking, NEW text \in AnyText, NEW from \in DOMAIN argv,
               NEW words \in {0, 1}, Takes(o, text, from, words)
        PROVE  Reads(o, from, text, words)
    <2>1. Store(o, text, from, words) /\ UNCHANGED argv /\ Valid(o, text)
      BY <1>3 DEF Takes
    <2>2. parsing' = "word" /\ at' = at + words + 1
      BY <2>1 DEF Store, Continue
    <2>3. words \in {0, 1} /\ (words = 1 => from = at + 1)
      BY <1>3 DEF Takes
    <2>4. words = 0 /\ from # at => argv[at].kind # "short" /\ from = optvalue.at
      BY <1>3 DEF Takes
    <2> QED BY <1>1, <1>3, <2>1, <2>2, <2>3, <2>4 DEF Reads, Store, Taking
  <1> QED BY <1>2, <1>3, ParseStep DEF Step

-----------------------------------------------------------------------------
\* The types of the parser's variables.

LEMMA ValuesFit ==
    ASSUME NEW o, NEW text \in AnyText, Valid(o, text)
    PROVE  /\ Value(text) \in -WordMax .. WordMax
           /\ o \notin CurveOptions => Value(text) = text.mag
  <1>1. text.mag \in Nat
    <2>1. text.kind = "number"
      BY DEF Valid
    <2>2. Junk.kind = "junk" /\ Empty.kind = "empty"
      BY DEF Junk, Empty
    <2>3. text \in [kind : {"number"}, sign : {"", "+", "-"}, mag : Nat]
      BY <2>1, <2>2 DEF AnyText
    <2> QED BY <2>3
  <1>2. text.mag <= WordMax /\ (o \notin CurveOptions => text.sign = "")
    BY DEF Valid, Fits
  <1>3. Value(text) = text.mag \/ Value(text) = -text.mag
    BY DEF Value
  <1>4. Value(text) \in -WordMax .. WordMax
    <2>1. \A m \in Nat : m <= WordMax => m \in -WordMax .. WordMax /\ -m \in -WordMax .. WordMax
      BY WordAssumption
    <2> QED BY <1>1, <1>2, <1>3, <2>1
  <1>5. text.sign = "" => Value(text) = text.mag
    BY DEF Value
  <1> QED BY <1>2, <1>4, <1>5

LEMMA TypeStep == ParserTypeOK /\ Parse => ParserTypeOK'
  <1> SUFFICES ASSUME ParserTypeOK, Parse PROVE ParserTypeOK'
    OBVIOUS
  <1> USE ArgvDomain
  <1>1. CASE Stops
    BY <1>1 DEF Stops, Stop, ParserTypeOK
  <1>2. CASE ~Stops
    <2>1. PICK o, from, text, words : Reads(o, from, text, words)
      BY <1>2, OptionReads
    <2>2. UNCHANGED argv /\ Len(argv) \in Nat /\ at \in 1 .. Len(argv)
      BY <2>1 DEF Reads
    <2>3. at' \in 1 .. Len(argv) + 1
      <3>1. from \in 1 .. Len(argv)
        BY <2>1 DEF Reads
      <3> QED BY <2>1, <2>2, <3>1 DEF Reads
    <2>4. uses' \in Seq(Use)
      <3>1. uses \in Seq(Use)
        BY DEF ParserTypeOK, Use
      <3> DEFINE use == [opt |-> o, in |-> at, value |-> from, text |-> text]
      <3>2. use \in Use /\ uses' = Append(uses, use)
        BY <2>1, ReadsUse DEF Reads
      <3> HIDE DEF use
      <3> QED BY <3>1, <3>2, UsesMore
    <2>5. /\ arg' \in [Options \cup Flags -> Int] /\ \A f \in Flags : arg'[f] \in Nat
          /\ \A p \in Options \ Flags : arg'[p] \in (-WordMax .. WordMax) \cup {CO_UNSET}
      <3>1. CASE \E v \in Nat : o \in Flags /\ arg' = [arg EXCEPT ![o] = v]
        BY <3>1 DEF ParserTypeOK
      <3>2. CASE o \in Taking /\ Valid(o, text) /\ arg' = [arg EXCEPT ![o] = Value(text)]
        <4>1. text \in AnyText
          BY <2>1, <3>2, TextKinds DEF Reads, Valid
        <4>2. Value(text) \in -WordMax .. WordMax /\ Value(text) \in Int
          BY <3>2, <4>1, ValuesFit, WordAssumption
        <4> QED BY <3>2, <4>2 DEF ParserTypeOK, Taking
      <3> QED BY <2>1, <3>1, <3>2 DEF Reads
    <2>6. /\ optvalue' \in Left /\ parsing' \in {"word", "cluster"}
          /\ parsing' = "cluster" => argv[at].kind = "short" /\ optvalue' \in LeftOf(at)
      <3>1. ASSUME NEW f, NEW no, NEW left \in Left, Counts(f, no, left)
            PROVE  /\ optvalue' = left
                   /\ parsing' \in {"word", "cluster"}
                   /\ parsing' = "cluster" => argv[at].kind = "short" /\ left \in LeftOf(at)
        BY <3>1 DEF Counts, CountFlag, Continue
      <3>2. ASSUME NEW p, NEW t, NEW g, NEW w, Takes(p, t, g, w)
            PROVE  optvalue' = NoValue /\ parsing' = "word"
        BY <3>2 DEF Takes, Store, Continue
      <3>3. Step
        BY ParseStep
      <3> QED BY <1>2, <3>1, <3>2, <3>3 DEF Step, Left
    <2>7. parsing' = "cluster" => at' = at
      BY <2>1 DEF Reads
    <2> QED BY <2>2, <2>3, <2>4, <2>5, <2>6, <2>7 DEF ParserTypeOK, Use, Left, LeftOf
  <1> QED BY <1>1, <1>2

-----------------------------------------------------------------------------
\* Invariants of the parser.

\* What it has taken for a value passed the checks of its option.
Checked == \A k \in Valued : Valid(uses[k].opt, uses[k].text)

\* The words before the one that is read are all accounted for, and that one as well
\* once an option in it was read.
Accounted ==
    \A w \in 1 .. at :
        (w < at /\ parsing \in {"word", "read"}) \/ parsing = "cluster" =>
            \E k \in DOMAIN uses : w \in {uses[k].in, uses[k].value}

\* Words that are not read yet belong to nobody.
Reached == IF parsing = "cluster" THEN at ELSE at - 1
NotAhead ==
    parsing \in {"word", "cluster", "read"} =>
        /\ optvalue.at <= Reached
        /\ \A k \in DOMAIN uses : uses[k].in <= Reached /\ uses[k].value <= Reached

\* The last value of an option is the one that is stored.
Latest ==
    \A o \in Taking :
        \/ arg[o] = Unset(o) /\ \A k \in DOMAIN uses : uses[k].opt # o
        \/ \E k \in DOMAIN uses : LastOf(o, k) /\ arg[o] = Value(uses[k].text)

HeedInv == Checked /\ Accounted /\ NotAhead /\ Latest

\* No flag comes with a value.
FlagsBare(line) ==
    \A w \in DOMAIN line :
        line[w].kind = "long" /\ line[w].name \in Flags => line[w].value = NoText

\* Then nothing is left of a word when the next one is read, and what was read lies
\* behind: options up to this word, values before it.
Behind ==
    /\ parsing = "word" => optvalue = NoValue
    /\ \A k \in DOMAIN uses : uses[k].in <= at /\ (parsing = "word" => uses[k].in < at)
    /\ \A k \in Valued : uses[k].value < at

OwnInv == Behind /\ OwnValue

LEMMA UseTypes == ParserTypeOK => \A k \in DOMAIN uses : uses[k] \in Use
  <1>1. ParserTypeOK => uses \in Seq(Use)
    BY DEF ParserTypeOK, Use
  <1> QED BY <1>1, ElementOfSeq, LenProperties

\* A step that reads an option adds one use behind those before it.
Adds(new, o, from, text) ==
    /\ new \notin DOMAIN uses /\ DOMAIN uses' = DOMAIN uses \cup {new}
    /\ \A k \in DOMAIN uses' : k <= new
    /\ \A k \in DOMAIN uses : uses'[k] = uses[k] /\ ~(new <= k)
    /\ uses'[new].opt = o /\ uses'[new].in = at
    /\ uses'[new].value = from /\ uses'[new].text = text

LEMMA OneUse ==
    ASSUME ParserTypeOK, NEW o, NEW from, NEW text, NEW words, Reads(o, from, text, words)
    PROVE  \E new : Adds(new, o, from, text)
  <1> DEFINE use == [opt |-> o, in |-> at, value |-> from, text |-> text]
             new == Len(uses) + 1
  <1>1. uses \in Seq(Use)
    BY DEF ParserTypeOK, Use
  <1>2. use \in Use /\ uses' = Append(uses, use)
    BY ReadsUse DEF Reads
  <1>3. use.opt = o /\ use.in = at /\ use.value = from /\ use.text = text
    OBVIOUS
  <1> HIDE DEF use
  <1>4. /\ Len(uses) \in Nat /\ DOMAIN uses = 1 .. Len(uses)
        /\ DOMAIN uses' = 1 .. Len(uses) + 1
        /\ \A k \in DOMAIN uses : uses'[k] = uses[k]
        /\ uses'[Len(uses) + 1] = use
    BY <1>1, <1>2, UsesMore
  <1>5. new \notin DOMAIN uses /\ DOMAIN uses' = DOMAIN uses \cup {new}
    BY <1>4
  <1>6. (\A k \in DOMAIN uses : ~(new <= k)) /\ \A k \in DOMAIN uses' : k <= new
    BY <1>4
  <1>7. uses'[new] = use
    BY <1>4
  <1> HIDE DEF new
  <1>8. Adds(new, o, from, text)
    BY <1>3, <1>4, <1>5, <1>6, <1>7 DEF Adds
  <1> QED BY <1>8

LEMMA HeedStep == ParserTypeOK /\ HeedInv /\ Parse => HeedInv'
  <1> SUFFICES ASSUME ParserTypeOK, HeedInv, Parse PROVE HeedInv'
    OBVIOUS
  <1>1. CASE Stops
    <2>1. UNCHANGED <<argv, at, optvalue, arg, uses>>
      BY <1>1 DEF Stops, Stop
    <2>2. parsing' # "cluster" /\ (parsing = "cluster" => parsing' \in {"refused", "help"})
      BY <1>1 DEF Stops, Stop
    <2>3. Checked' /\ Accounted'
      BY <1>1, <2>1, <2>2 DEF HeedInv, Checked, Valid, Fits, Valued, Accounted, Stops, Stop
    <2>4. NotAhead'
      BY <1>1, <2>1, <2>2 DEF HeedInv, NotAhead, Reached, Stops, Stop
    <2>5. Latest'
      BY <2>1 DEF HeedInv, Latest, LastOf, Value, Unset
    <2> QED BY <2>3, <2>4, <2>5 DEF HeedInv
  <1>2. CASE ~Stops
    <2>1. PICK o, from, text, words : Reads(o, from, text, words)
      BY <1>2, OptionReads
    <2>2. PICK new : Adds(new, o, from, text)
      BY <2>1, OneUse
    <2> USE DEF Adds
    <2>3. Valued' = Valued \cup IF o \in Flags THEN {} ELSE {new}
      BY <2>2 DEF Valued
    <2>4. Checked'
      <3>1. o \notin Flags => Valid(o, text)
        BY <2>1 DEF Reads
      <3> QED BY <2>2, <2>3, <3>1 DEF HeedInv, Checked, Valid, Fits, Valued
    <2>5. Accounted'
      <3>1. /\ at \in Nat /\ words \in {0, 1} /\ (words = 1 => from = at + 1)
            /\ \/ parsing' = "word" /\ at' = at + words + 1
               \/ parsing' = "cluster" /\ at' = at
        BY <2>1, ArgvDomain DEF Reads
      <3>2. ASSUME NEW w \in 1 .. at + words
            PROVE  \E k \in DOMAIN uses' : w \in {uses'[k].in, uses'[k].value}
        <4>1. w < at \/ w = at \/ w = from
          BY <3>1
        <4>2. CASE w < at
          <5>1. parsing \in {"word", "cluster"} /\ w \in 1 .. at
            BY <2>1, <3>1, <4>2 DEF Reads
          <5> QED BY <2>2, <4>2, <5>1 DEF HeedInv, Accounted
        <4> QED BY <2>2, <4>1, <4>2
      <3>3. ASSUME NEW w \in 1 .. at', w < at' \/ parsing' = "cluster" PROVE w \in 1 .. at + words
        BY <3>1, <3>3
      <3> QED BY <3>2, <3>3 DEF Accounted
    <2>6. NotAhead'
      <3>1. /\ at \in Nat /\ words \in {0, 1} /\ (words = 1 => from = at + 1)
            /\ from \in Nat /\ (words = 0 /\ from # at => from = optvalue.at)
            /\ \/ parsing' = "word" /\ at' = at + words + 1
               \/ parsing' = "cluster" /\ at' = at /\ from = at
        BY <2>1, ArgvDomain DEF Reads, Taking
      <3>2. Reached \in {at, at - 1} /\ Reached' = IF parsing' = "cluster" THEN at ELSE at + words
        BY <3>1 DEF Reached
      <3>3. optvalue.at \in Nat /\ optvalue.at <= at
        <4>1. optvalue.at \in Nat
          BY ArgvDomain DEF ParserTypeOK, NoValue
        <4> QED BY <2>1, <3>1, <3>2, <4>1 DEF Reads, HeedInv, NotAhead
      <3>4. optvalue'.at \in Nat /\ optvalue'.at <= at
        BY <2>1, <3>1, <3>3 DEF Reads, NoValue
      <3>5. \A k \in DOMAIN uses : /\ uses[k].in \in Nat /\ uses[k].value \in Nat
                                  /\ uses[k].in <= at /\ uses[k].value <= at
        BY <2>1, <3>1, <3>2, UseTypes, ArgvDomain DEF Reads, HeedInv, NotAhead, Use
      <3>6. Reached' \in Nat /\ at <= Reached' /\ from <= Reached'
        BY <3>1, <3>2, <3>3
      <3> QED BY <2>2, <3>1, <3>3, <3>4, <3>5, <3>6 DEF NotAhead
    <2>7. Latest'
      <3> SUFFICES ASSUME NEW p \in Taking
                   PROVE  \/ arg'[p] = Unset(p) /\ \A k \in DOMAIN uses' : uses'[k].opt # p
                          \/ \E k \in DOMAIN uses' :
                                LastOf(p, k)' /\ arg'[p] = Value(uses'[k].text)
        BY DEF Latest, Value, Unset
      <3>1. CASE p = o
        <4>1. arg' = [arg EXCEPT ![o] = Value(text)]
          BY <2>1, <3>1 DEF Reads, Taking
        <4>2. arg'[p] = Value(uses'[new].text)
          BY <2>2, <3>1, <4>1 DEF ParserTypeOK, Taking
        <4>3. LastOf(p, new)'
          BY <2>2, <3>1 DEF LastOf
        <4> QED BY <2>2, <4>2, <4>3
      <3>2. CASE p # o
        <4>1. arg'[p] = arg[p]
          <5>1. \E v : arg' = [arg EXCEPT ![o] = v]
            BY <2>1 DEF Reads
          <5> QED BY <3>2, <5>1 DEF ParserTypeOK, Taking
        <4>2. CASE arg[p] = Unset(p) /\ \A k \in DOMAIN uses : uses[k].opt # p
          BY <2>2, <3>2, <4>1, <4>2
        <4>3. CASE \E k \in DOMAIN uses : LastOf(p, k) /\ arg[p] = Value(uses[k].text)
          <5>1. PICK k \in DOMAIN uses : LastOf(p, k) /\ arg[p] = Value(uses[k].text)
            BY <4>3
          <5>2. k \in DOMAIN uses' /\ uses'[k] = uses[k]
            BY <2>2
          <5>3. LastOf(p, k)'
            BY <2>2, <3>2, <5>1, <5>2 DEF LastOf
          <5> QED BY <4>1, <5>1, <5>2, <5>3
        <4> QED BY <4>2, <4>3 DEF HeedInv, Latest
      <3> QED BY <3>1, <3>2
    <2> QED BY <2>4, <2>5, <2>6, <2>7 DEF HeedInv
  <1> QED BY <1>1, <1>2

LEMMA OwnStep == ParserTypeOK /\ FlagsBare(argv) /\ OwnInv /\ Parse => OwnInv'
  <1> SUFFICES ASSUME ParserTypeOK, FlagsBare(argv), OwnInv, Parse PROVE OwnInv'
    OBVIOUS
  <1>1. CASE Stops
    BY <1>1 DEF Stops, Stop, OwnInv, Behind, OwnValue, Valued
  <1>2. CASE ~Stops
    <2>1. PICK o, from, text, words : Reads(o, from, text, words)
      BY <1>2, OptionReads
    <2>2. PICK new : Adds(new, o, from, text)
      BY <2>1, OneUse
    <2> USE DEF Adds
    <2>3. Valued' = Valued \cup IF o \in Flags THEN {} ELSE {new}
      BY <2>2 DEF Valued
    <2>4. at \in DOMAIN argv /\ at \in Nat \ {0}
      BY <2>1, ArgvDomain DEF Reads
    <2>5. parsing = "word" => optvalue = NoValue
      BY DEF OwnInv, Behind
    \* A value is here or in the next word: nothing was left of an earlier one.
    <2>6. words = 0 => from = at
      <3> SUFFICES ASSUME words = 0, from # at PROVE FALSE
        OBVIOUS
      <3>1. argv[at].kind # "short" /\ from = optvalue.at
        BY <2>1 DEF Reads
      <3>2. optvalue = NoValue
        BY <2>1, <2>5, <3>1 DEF Reads, ParserTypeOK
      <3>3. from = 0
        BY <3>1, <3>2 DEF NoValue
      <3> QED BY <2>1, <3>3, ArgvDomain DEF Reads
    <2>7. parsing' = "word" => optvalue' = NoValue
      <3> SUFFICES ASSUME parsing' = "word", optvalue' # NoValue PROVE FALSE
        OBVIOUS
      <3>1. /\ argv[at].kind = "long" /\ argv[at].name = o /\ o \in Flags
            /\ optvalue' = optvalue \/ argv[at].value # NoText
        BY <2>1 DEF Reads
      <3>2. optvalue' = optvalue
        BY <2>4, <3>1 DEF FlagsBare
      <3>3. parsing = "word"
        BY <2>1, <3>1 DEF Reads, ParserTypeOK
      <3> QED BY <2>5, <3>2, <3>3
    <2>8. /\ words \in {0, 1} /\ from = at + words
          /\ \/ parsing' = "word" /\ at' = at + words + 1
             \/ parsing' = "cluster" /\ at' = at /\ o \in Flags
      BY <2>1, <2>4, <2>6 DEF Reads
    <2>9. \A k \in DOMAIN uses :
            /\ uses[k].in \in Nat /\ uses[k].value \in Nat /\ uses[k].in <= at
            /\ k \in Valued => uses[k].value < at
      BY UseTypes, ArgvDomain DEF OwnInv, Behind, Use
    <2>10. Behind'
      <3>1. ASSUME NEW k \in DOMAIN uses'
            PROVE  uses'[k].in <= at' /\ (parsing' = "word" => uses'[k].in < at')
        BY <2>2, <2>4, <2>8, <2>9
      <3>2. ASSUME NEW k \in Valued' PROVE uses'[k].value < at'
        <4>1. CASE k = new
          BY <2>2, <2>3, <2>4, <2>8, <4>1 DEF Valued
        <4>2. CASE k # new
          <5>1. k \in Valued /\ k \in DOMAIN uses
            BY <2>3, <4>2 DEF Valued
          <5> QED BY <2>2, <2>4, <2>8, <2>9, <5>1
        <4> QED BY <4>1, <4>2
      <3> QED BY <2>7, <3>1, <3>2 DEF Behind
    <2>11. OwnValue'
      <3> SUFFICES ASSUME NEW k \in Valued'
                   PROVE  \/ uses'[k].value = uses'[k].in
                          \/ /\ uses'[k].value = uses'[k].in + 1
                             /\ \A j \in DOMAIN uses' : uses'[j].in # uses'[k].value
        BY DEF OwnValue
      <3>1. CASE k = new
        BY <2>2, <2>4, <2>8, <2>9, <3>1
      <3>2. CASE k # new
        <4>1. k \in Valued /\ k \in DOMAIN uses /\ uses'[k] = uses[k]
          BY <2>2, <2>3, <3>2 DEF Valued
        <4>2. uses[k].value # at
          BY <2>4, <2>9, <4>1
        <4>3. \/ uses[k].value = uses[k].in
              \/ /\ uses[k].value = uses[k].in + 1
                 /\ \A j \in DOMAIN uses : uses[j].in # uses[k].value
          BY <4>1 DEF OwnInv, OwnValue
        <4> QED BY <2>2, <4>1, <4>2, <4>3
      <3> QED BY <3>1, <3>2
    <2> QED BY <2>10, <2>11 DEF OwnInv
  <1> QED BY <1>1, <1>2

-----------------------------------------------------------------------------
\* Words that were read are fine.

\* What is left of a cluster are its last letters; those in front of them were flags.
Rest(left, n) ==
    /\ Len(argv[at].names) = Len(left.names) + n
    /\ \A i \in 1 .. n : argv[at].names[i] \in Flags
    /\ \A i \in 1 .. Len(left.names) : left.names[i] = argv[at].names[n + i]
    /\ left.text = argv[at].rest

FineInv ==
    /\ parsing \in {"word", "cluster", "read"} => \A w \in 1 .. at - 1 : Fine(w)
    /\ parsing = "cluster" => \E n \in Nat : Rest(optvalue, n)

\* The word that is read ends with option o.
Ends(o) ==
    LET word == argv[at]
        names == NamesIn(word)
    IN  /\ IsOption(word) /\ names # <<>> /\ LastName(word) = o
        /\ \A n \in 1 .. Len(names) - 1 : names[n] \in Flags

\* A step that comes to the end of its words, which are fine.
EndsFine ==
    /\ parsing' = "word" /\ at' \in {at + 1, at + 2}
    /\ \A w \in at .. at' - 1 : Fine(w)

LEMMA FineStays == UNCHANGED argv => \A w : Fine(w)' <=> Fine(w)
  BY DEF Fine, Lacks, Proper, OwnText, LastName, NamesIn, IsOption, TextOf

LEMMA FlagFine ==
    ASSUME ParserTypeOK, at \in DOMAIN argv, NEW o \in Flags, Ends(o),
           argv[at].kind = "short" => argv[at].rest = NoText,
           parsing' = "word", at' = at + 1
    PROVE  EndsFine
  <1>1. Fine(at)
    BY DEF Ends, Fine
  <1>2. \A w \in at .. at' - 1 : w = at
    BY ArgvDomain
  <1> QED BY <1>1, <1>2 DEF EndsFine

LEMMA ValueFine ==
    ASSUME ParserTypeOK, at \in DOMAIN argv, NEW o \in Taking, NEW left,
           TakeValue(o, left),
           argv[at].kind = "long" => ~argv[at].no,
           left = NoValue => Ends(o) /\ OwnText(argv[at]) = NoText,
           left # NoValue /\ left.names = <<>> => Ends(o) /\ OwnText(argv[at]) = left.text
    PROVE  parsing' = "refused" \/ EndsFine
  <1> DEFINE next == left = NoValue /\ at < Len(argv)
             text == IF left # NoValue THEN IF left.names = <<>> THEN left.text ELSE Junk
                     ELSE IF at < Len(argv) THEN TextOf(argv[at + 1]) ELSE NoText
             words == IF next THEN 1 ELSE 0
             from == IF words = 1 THEN at + 1 ELSE left.at
  <1>1. CASE ~Valid(o, text)
    BY <1>1 DEF TakeValue, Stop
  <1>2. CASE Valid(o, text)
    <2>1. Store(o, text, from, words)
      BY <1>2 DEF TakeValue
    <2>2. parsing' = "word" /\ at' = at + words + 1
      BY <2>1 DEF Store, Continue
    <2>3. text.kind = "number" /\ Proper(o, text)
      BY <1>2 DEF Valid, Fits, Proper
    <2>4. Junk.kind = "junk" /\ NoText.kind = "none"
      BY DEF Junk, NoText
    <2>5. at \in Nat \ {0}
      BY ArgvDomain
    <2>6. CASE left # NoValue
      <3>1. left.names = <<>> /\ text = left.text
        BY <2>3, <2>4, <2>6
      <3>2. Ends(o) /\ OwnText(argv[at]) = text /\ text # NoText
        BY <2>3, <2>4, <2>6, <3>1
      <3>3. o \in Options \ Flags /\ ~Lacks(argv[at])
        BY <3>2 DEF Taking, Lacks
      <3> HIDE DEF text
      <3>4. Fine(at)
        BY <2>3, <3>2, <3>3 DEF Ends, Fine
      <3>5. at' = at + 1
        BY <2>2, <2>5, <2>6
      <3>6. \A w \in at .. at' - 1 : w = at
        BY <2>5, <3>5
      <3> QED BY <2>2, <3>4, <3>5, <3>6 DEF EndsFine
    <2>7. CASE left = NoValue
      <3>1. at < Len(argv) /\ text = TextOf(argv[at + 1]) /\ words = 1
        BY <2>3, <2>4, <2>7
      <3>2. argv[at + 1].kind = "plain"
        BY <2>3, <2>4, <3>1 DEF TextOf
      <3>3. Ends(o) /\ Lacks(argv[at]) /\ o \in Options \ Flags
        BY <2>7 DEF Ends, Lacks, Taking
      <3>4. Fine(at)
        BY <2>3, <3>1, <3>3 DEF Ends, Fine
      <3>5. at + 1 > 1 /\ (at + 1) - 1 = at
        BY <2>5
      <3>6. Fine(at + 1)
        BY <3>2, <3>3, <3>5 DEF Fine
      <3>7. at' = at + 2
        BY <2>2, <2>5, <3>1
      <3>8. \A w \in at .. at' - 1 : w = at \/ w = at + 1
        BY <2>5, <3>7
      <3> QED BY <2>2, <3>4, <3>6, <3>7, <3>8 DEF EndsFine
    <2> QED BY <2>6, <2>7
  <1> QED BY <1>1, <1>2

LEMMA LetterFine ==
    ASSUME ParserTypeOK, at \in DOMAIN argv, argv[at].kind = "short",
           NEW left \in LeftOf(at), NEW n \in Nat, Rest(left, n), ReadLetter(left)
    PROVE  /\ UNCHANGED argv
           /\ \/ parsing' \in {"refused", "help"} \/ EndsFine
              \/ /\ parsing' = "cluster" /\ at' = at
                 /\ \E m \in Nat : Rest(optvalue, m)'
  <1> DEFINE names == left.names
             o == Head(names)
             rest == IF Len(names) = 1 /\ left.text = NoText THEN NoValue
                     ELSE [left EXCEPT !.names = Tail(@)]
  <1>1. CASE ~(names # <<>> /\ o \in Known)
    BY <1>1 DEF ReadLetter, Stop
  <1>2. CASE names # <<>> /\ o \in Known
    <2>1. GetValue(o, FALSE, rest)
      BY <1>2 DEF ReadLetter
    <2>2. UNCHANGED argv
      BY <2>1 DEF GetValue, Stop
    <2>3. /\ names \in Seq(STRING) /\ Len(names) \in Nat \ {0} /\ o = names[1]
          /\ Tail(names) \in Seq(STRING) /\ Len(Tail(names)) = Len(names) - 1
          /\ \A i \in 1 .. Len(Tail(names)) : Tail(names)[i] = names[i + 1]
      BY <1>2, HeadTailProperties, EmptySeq DEF LeftOf
    <2>4. at \in Nat \ {0} /\ left.at = at
      BY ArgvDomain DEF LeftOf
    <2>5. /\ [left EXCEPT !.names = Tail(@)] # NoValue
          /\ [left EXCEPT !.names = Tail(@)].names = Tail(names)
          /\ [left EXCEPT !.names = Tail(@)].text = left.text
      BY <2>4 DEF LeftOf, NoValue
    <2> DEFINE all == argv[at].names
    <2>6. /\ Len(all) = Len(names) + n /\ \A i \in 1 .. n : all[i] \in Flags
          /\ \A i \in 1 .. Len(names) : names[i] = all[n + i]
          /\ left.text = argv[at].rest
      BY DEF Rest
    <2>7. all[n + 1] = o
      BY <2>3, <2>6
    <2>8. IsOption(argv[at]) /\ NamesIn(argv[at]) = all /\ OwnText(argv[at]) = left.text
      BY <2>6 DEF IsOption, NamesIn, OwnText
    <2>9. Len(names) = 1 => Ends(o)
      <3> SUFFICES ASSUME Len(names) = 1 PROVE Ends(o)
        OBVIOUS
      <3>1. Len(all) = n + 1 /\ all # <<>>
        BY <2>6, EmptySeq
      <3>2. \A i \in 1 .. Len(all) - 1 : all[i] \in Flags
        BY <2>6, <3>1
      <3>3. LastName(argv[at]) = o
        BY <2>7, <2>8, <3>1 DEF LastName
      <3> HIDE DEF o, all
      <3> QED BY <2>8, <3>1, <3>2, <3>3 DEF Ends
    <2>10. CASE o = "help"
      BY <2>1, <2>10 DEF GetValue, Stop
    <2>11. CASE o # "help" /\ o \in Flags
      <3>1. CountFlag(o, FALSE, rest)
        BY <2>1, <2>11 DEF GetValue
      <3>2. optvalue' = rest /\ Continue(0)
        BY <3>1 DEF CountFlag
      <3>3. CASE Len(names) = 1 /\ left.text = NoText
        <4>1. parsing' = "word" /\ at' = at + 1
          BY <2>4, <3>2, <3>3 DEF Continue
        <4> QED BY <2>2, <2>6, <2>9, <2>11, <3>3, <4>1, FlagFine
      <3>4. CASE ~(Len(names) = 1 /\ left.text = NoText)
        <4>1. optvalue' = [left EXCEPT !.names = Tail(@)]
          BY <3>2, <3>4
        <4>2. parsing' = "cluster" /\ at' = at
          BY <2>4, <2>5, <3>2, <4>1 DEF Continue
        <4>3. optvalue'.names = Tail(names) /\ optvalue'.text = left.text
          BY <2>5, <4>1
        <4>4. Len(all) = Len(Tail(names)) + (n + 1)
          <5>1. /\ Len(names) \in Nat /\ Len(Tail(names)) = Len(names) - 1
                /\ Len(all) = Len(names) + n
            BY <2>3, <2>6
          <5>2. \A a \in Nat : \A b, c : b = a - 1 /\ c = a + n => c = b + (n + 1)
            OBVIOUS
          <5> HIDE DEF names, all
          <5> QED BY <5>1, <5>2, Zenon
        <4>5. \A i \in 1 .. n + 1 : all[i] \in Flags
          BY <2>6, <2>7, <2>11
        <4>6. \A i \in 1 .. Len(Tail(names)) : Tail(names)[i] = all[(n + 1) + i]
          <5> SUFFICES ASSUME NEW i \in 1 .. Len(Tail(names))
                       PROVE  Tail(names)[i] = all[(n + 1) + i]
            OBVIOUS
          <5>1. i + 1 \in 1 .. Len(names) /\ n + (i + 1) = (n + 1) + i
            BY <2>3
          <5> QED BY <2>3, <2>6, <5>1
        <4>7. Rest(optvalue, n + 1)'
          BY <2>2, <2>6, <4>2, <4>3, <4>4, <4>5, <4>6 DEF Rest
        <4> QED BY <2>2, <4>2, <4>7
      <3> QED BY <3>3, <3>4
    <2>12. CASE o # "help" /\ o \notin Flags
      <3>1. TakeValue(o, rest) /\ o \in Taking
        BY <1>2, <2>1, <2>12 DEF GetValue, Known, Taking
      <3>2. rest = NoValue => Len(names) = 1 /\ left.text = NoText
        BY <2>5
      <3>3. rest # NoValue => rest.names = Tail(names) /\ rest.text = left.text
        BY <2>5
      <3>4. rest # NoValue /\ rest.names = <<>> => Len(names) = 1
        <4>1. Len(names) \in Nat /\ Len(Tail(names)) = Len(names) - 1
          BY <2>3
        <4>2. rest # NoValue /\ rest.names = <<>> => Len(Tail(names)) = 0
          BY <3>3, EmptySeq
        <4> HIDE DEF names
        <4> QED BY <4>1, <4>2
      <3> HIDE DEF o, rest
      <3> QED BY <2>2, <2>8, <2>9, <3>1, <3>2, <3>3, <3>4, ValueFine
    <2> QED BY <2>10, <2>11, <2>12
  <1> QED BY <1>1, <1>2

LEMMA LongFine ==
    ASSUME ParserTypeOK, FlagsBare(argv), Behind, ReadLong
    PROVE  UNCHANGED argv /\ (parsing' \in {"refused", "help"} \/ EndsFine)
  <1> DEFINE word == argv[at]
             o == word.name
             left == IF word.value = NoText THEN optvalue
                     ELSE [names |-> <<>>, text |-> word.value, at |-> at]
  <1>1. Reading /\ word.kind = "long" /\ at \in DOMAIN argv /\ optvalue = NoValue
    BY ArgvDomain DEF ReadLong, Reading, ParserTypeOK, Behind
  <1>2. /\ UNCHANGED argv
        /\ \/ parsing' \in {"refused", "help"}
           \/ o \in Flags /\ CountFlag(o, word.no, left)
           \/ o \in Taking /\ ~word.no /\ TakeValue(o, left)
    BY DEF ReadLong, GetValue, Stop, Known, Taking
  <1>3. Ends(o) /\ OwnText(word) = word.value
    <2>1. NamesIn(word) = <<o>> /\ IsOption(word) /\ OwnText(word) = word.value
      BY <1>1 DEF NamesIn, IsOption, OwnText
    <2>2. Len(<<o>>) = 1 /\ <<o>>[1] = o /\ <<o>> # <<>>
      OBVIOUS
    <2> QED BY <2>1, <2>2 DEF Ends, LastName
  <1>4. CASE o \in Flags /\ CountFlag(o, word.no, left)
    <2>1. optvalue' = NoValue
      BY <1>1, <1>4 DEF CountFlag, FlagsBare
    <2>2. parsing' = "word" /\ at' = at + 1
      BY <1>1, <1>4, <2>1, ArgvDomain DEF CountFlag, Continue
    <2> QED BY <1>1, <1>2, <1>3, <1>4, <2>2, FlagFine
  <1>5. CASE o \in Taking /\ ~word.no /\ TakeValue(o, left)
    <2>1. left = NoValue => word.value = NoText
      BY <1>1, ArgvDomain DEF NoValue
    <2>2. left # NoValue => word.value = left.text
      BY <1>1
    <2> HIDE DEF left
    <2> QED BY <1>1, <1>2, <1>3, <1>5, <2>1, <2>2, ValueFine
  <1> QED BY <1>2, <1>4, <1>5

LEMMA FineStep ==
    ParserTypeOK /\ FlagsBare(argv) /\ OwnInv /\ FineInv /\ Parse => FineInv'
  <1> SUFFICES ASSUME ParserTypeOK, FlagsBare(argv), OwnInv, FineInv, Parse PROVE FineInv'
    OBVIOUS
  <1>1. ASSUME UNCHANGED argv, EndsFine, parsing \in {"word", "cluster"} PROVE FineInv'
    <2>1. at \in Nat
      BY ArgvDomain DEF ParserTypeOK
    <2>2. at' \in {at + 1, at + 2}
      BY <1>1 DEF EndsFine
    <2>3. \A w \in 1 .. at' - 1 : w \in 1 .. at - 1 \/ w \in at .. at' - 1
      <3>1. ASSUME NEW next \in Nat, NEW w \in 1 .. next - 1
            PROVE  w \in 1 .. at - 1 \/ w \in at .. next - 1
        BY <2>1
      <3>2. at' \in Nat
        BY <2>1, <2>2
      <3> QED BY <3>1, <3>2
    <2> QED BY <1>1, <2>3, FineStays DEF EndsFine, FineInv
  <1>2. ASSUME parsing' \in {"refused", "help"} PROVE FineInv'
    BY <1>2 DEF FineInv
  <1>3. Reading => at \in DOMAIN argv /\ parsing = "word" /\ argv[at] \in AnyWord
    BY ArgvDomain, ElementOfSeq DEF Reading, ParserTypeOK
  <1>4. ASSUME NEW left \in LeftOf(at), NEW n \in Nat, Rest(left, n), ReadLetter(left),
               at \in DOMAIN argv, argv[at].kind = "short", parsing \in {"word", "cluster"}
        PROVE  FineInv'
    <2>1. /\ UNCHANGED argv
          /\ \/ parsing' \in {"refused", "help"} \/ EndsFine
             \/ /\ parsing' = "cluster" /\ at' = at
                /\ \E m \in Nat : Rest(optvalue, m)'
      BY <1>4, LetterFine
    <2>2. CASE parsing' = "cluster" /\ at' = at /\ \E m \in Nat : Rest(optvalue, m)'
      BY <1>4, <2>1, <2>2, FineStays DEF FineInv
    <2> QED BY <1>1, <1>2, <1>4, <2>1, <2>2
  <1>5. CASE ReadLong
    <2>1. parsing = "word"
      BY <1>5 DEF ReadLong, Reading
    <2> QED BY <1>1, <1>2, <1>5, <2>1, LongFine DEF OwnInv
  <1>6. CASE ReadShort
    <2> DEFINE left == [names |-> argv[at].names, text |-> argv[at].rest, at |-> at]
    <2>1. Reading /\ argv[at].kind = "short" /\ ReadLetter(left)
      BY <1>6 DEF ReadShort
    <2>2. left \in LeftOf(at) /\ argv[at].names \in Seq(STRING)
      BY <1>3, <2>1, WordKinds DEF LeftOf
    <2>3. Rest(left, 0)
      BY <2>2, LenProperties DEF Rest
    <2> HIDE DEF left
    <2> QED BY <1>3, <1>4, <2>1, <2>2, <2>3
  <1>7. CASE ReadCluster
    <2>1. /\ parsing = "cluster" /\ at \in DOMAIN argv /\ argv[at].kind = "short"
          /\ optvalue.at = at
      BY <1>7, ArgvDomain DEF ReadCluster, ParserTypeOK
    <2>2. optvalue # NoValue
      BY <2>1, ArgvDomain DEF NoValue
    <2>3. optvalue \in LeftOf(at)
      BY <2>1, <2>2 DEF LeftOf, ParserTypeOK
    <2>4. PICK n \in Nat : Rest(optvalue, n)
      BY <2>1 DEF FineInv
    <2> QED BY <1>4, <1>7, <2>1, <2>3, <2>4 DEF ReadCluster
  <1>8. CASE RefuseWord \/ EndOfOptions
    <2>1. UNCHANGED <<argv, at>> /\ parsing = "word" /\ parsing' \in {"refused", "read"}
      BY <1>8 DEF RefuseWord, EndOfOptions, Stop, Reading
    <2> QED BY <2>1, FineStays DEF FineInv
  <1> QED BY <1>5, <1>6, <1>7, <1>8 DEF Parse

-----------------------------------------------------------------------------
\* What the invariants say of an accepted line.

LEMMA HeedImplied == ParserTypeOK /\ HeedInv => Heeded
  <1> SUFFICES ASSUME ParserTypeOK, HeedInv, parsing = "read" PROVE Heeded
    BY DEF Heeded
  <1>1. \A w \in 1 .. at - 1 : \E k \in DOMAIN uses : w \in {uses[k].in, uses[k].value}
    <2> SUFFICES ASSUME NEW w \in 1 .. at - 1
                 PROVE  \E k \in DOMAIN uses : w \in {uses[k].in, uses[k].value}
      OBVIOUS
    <2>1. w \in 1 .. at /\ w < at
      BY ArgvDomain DEF ParserTypeOK
    <2> QED BY <2>1 DEF HeedInv, Accounted
  <1>2. ASSUME NEW w \in DOMAIN argv, NEW k \in DOMAIN uses, w \in {uses[k].in, uses[k].value}
        PROVE  w < at
    BY <1>2, ArgvDomain DEF HeedInv, NotAhead, Reached, ParserTypeOK
  <1>3. ASSUME NEW o \in Taking, NEW k \in DOMAIN uses, LastOf(o, k), arg[o] = Value(uses[k].text)
        PROVE  k \in Valued /\ (o \in given <=> ~Sentinel(o, uses[k].text))
    <2>1. uses[k].opt = o /\ k \in Valued
      BY <1>3 DEF LastOf, Valued, Taking
    <2>2. Valid(o, uses[k].text)
      BY <2>1 DEF HeedInv, Checked
    <2>3. uses[k].text \in AnyText
      BY <2>2, UseTypes, TextKinds DEF Use, Valid
    <2>4. Value(uses[k].text) \in -WordMax .. WordMax
      BY <2>2, <2>3, ValuesFit
    <2>5. CASE o \in CurveOptions
      <3>1. arg[o] # CO_UNSET
        BY <1>3, <2>4, WordAssumption DEF CO_UNSET
      <3> QED BY <2>1, <2>5, <3>1 DEF given, IsSet, Unset, Sentinel, WordOptions, Taking
    <2>6. CASE o \notin CurveOptions
      <3>1. arg[o] = uses[k].text.mag
        BY <1>3, <2>2, <2>3, <2>6, ValuesFit
      <3>2. o \in WordOptions
        BY <2>6 DEF WordOptions, Flags, Taking
      <3>3. arg[o] # WordMax <=> o \in given
        BY <2>6 DEF given, IsSet, Unset, ARG_UNSET, Taking
      <3> QED BY <2>1, <3>1, <3>2, <3>3 DEF Sentinel
    <2> QED BY <2>5, <2>6
  <1>4. ASSUME NEW o \in Taking
        PROVE  o \in given <=> \E k \in Valued :
                 LastOf(o, k) /\ ~Sentinel(o, uses[k].text) /\ arg[o] = Value(uses[k].text)
    <2>1. CASE arg[o] = Unset(o) /\ \A k \in DOMAIN uses : uses[k].opt # o
      BY <2>1 DEF given, IsSet, LastOf, Valued
    <2>2. CASE \E k \in DOMAIN uses : LastOf(o, k) /\ arg[o] = Value(uses[k].text)
      BY <1>3, <2>2 DEF Valued
    <2> QED BY <2>1, <2>2 DEF HeedInv, Latest
  <1>5. DOMAIN argv \subseteq Nat /\ \A w \in DOMAIN argv : w < at => w \in 1 .. at - 1
    BY ArgvDomain DEF ParserTypeOK
  <1> QED BY <1>1, <1>2, <1>4, <1>5 DEF Heeded, Taking

=============================================================================
