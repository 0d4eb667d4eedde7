--------------------------- MODULE ConfigParsers ---------------------------
(***************************************************************************)
(* How noray reads its environment (src/noray/src/config.parsers.mjs,      *)
(* config.mjs, and the log level of logger.mjs).                           *)
(*                                                                         *)
(* A text is a sequence of tokens: a run of digits is a natural number,    *)
(* any other character that matters is a constant.  A text with a unit is  *)
(* a record of its numeric part, whether there is a gap after it, and the  *)
(* letters.  The text of ports is a sequence of ranges: it is split at its *)
(* commas, and blanks around a range do not count.                         *)
(***************************************************************************)
EXTENDS Utils, TLC

CONSTANTS
    Dash, Plus, Dot, Comma, Letter,     \* characters
    NaN                                 \* the number that is none

Characters == {Dash, Plus, Dot, Comma, Letter}

Token == Nat \union Characters

ASSUME CharactersAssumption == Dash # Plus

\* What is no value is neither a number, nor a ratio, nor a text, nor a list.
ASSUME OutcomesAssumption ==
    /\ Undefined # Throws
    /\ {Undefined, Throws} \intersect
          (Int \union BOOLEAN \union [n : Int, d : Int] \union Seq(Token) \union Seq(Seq(Token)))
          = {}

IsDigits(token) == token \notin Characters

\* value ?? default.
Default(value, default) == IF value = Undefined THEN default ELSE value

-----------------------------------------------------------------------------
(* Single values                                                            *)

Boolean(value) == IF value = Undefined THEN Undefined ELSE value = "true"

Enumerated(value, values) == IF value \in values THEN value ELSE Undefined

\* integer: what parseInt finds at the beginning of the text.
Integer(text) ==
    CASE text # Undefined /\ Len(text) > 0 /\ IsDigits(text[1]) -> text[1]
      [] text # Undefined /\ Len(text) > 1 /\ text[1] = Plus /\ IsDigits(text[2]) -> text[2]
      [] text # Undefined /\ Len(text) > 1 /\ text[1] = Dash /\ IsDigits(text[2]) -> -text[2]
      [] OTHER -> Undefined

\* number: what parseFloat finds at the beginning of the text, a number without a
\* sign; it stops at a comma or at a second dot.  The digits after a dot are one token below 10 here.
Number(text) ==
    LET starts(pattern) ==
            text # Undefined /\ Len(text) >= Len(pattern) /\
            \A i \in DOMAIN pattern : IF pattern[i] = Dot THEN text[i] = Dot
                                                          ELSE IsDigits(text[i])
    IN  CASE starts(<< 0, Dot, 0 >>) -> Ratio(10 * text[1] + text[3], 10)
          [] starts(<< Dot, 0 >>)    -> Ratio(text[2], 10)
          [] starts(<< 0 >>)         -> Ratio(text[1], 1)
          [] OTHER                   -> Undefined

-----------------------------------------------------------------------------
(* Sizes and durations                                                      *)

\* extractUnit: letters count as the unit only right behind the number.  What
\* follows is ignored.
ExtractUnit(text) ==
    IF text.numeric = << >> THEN Throws
    ELSE [number |-> Number(text.numeric), unit |-> IF text.gap THEN "" ELSE text.unit]

\* undefined times a number is NaN.
Times(number, unit) ==
    IF number = Undefined THEN NaN ELSE Product(number, unit)

Postfixes == << "b", "kb", "mb", "gb", "tb", "pb", "eb", "zb", "yb" >>

\* toLowerCase, for a postfix as formatByteSize writes it.
LowerCase(unit) ==
    IF unit \in Range(SizeUnits)
    THEN Postfixes[CHOOSE i \in DOMAIN SizeUnits : SizeUnits[i] = unit] ELSE unit

\* Mutant: the postfix has to be in lower case.
SizeInCase(number, unit) ==
    LET postfix == IF unit = "" THEN "b" ELSE unit
    IN  IF postfix \notin Range(Postfixes) THEN Throws
        ELSE LET idx == CHOOSE i \in DOMAIN Postfixes : Postfixes[i] = postfix
             IN  Times(number, Ratio(KiloToThe[idx - 1], 1))

\* byteSize after extractUnit.
SizeIn(number, unit) ==
    LET postfix == IF unit = "" THEN "b" ELSE LowerCase(unit)
    IN  IF postfix \notin Range(Postfixes) THEN Throws
        ELSE LET idx == CHOOSE i \in DOMAIN Postfixes : Postfixes[i] = postfix
             IN  Times(number, Ratio(KiloToThe[idx - 1], 1))

ByteSize(text) ==
    CASE text = Undefined -> Undefined
      [] text # Undefined /\ ExtractUnit(text) = Throws -> Throws
      [] OTHER -> SizeIn(ExtractUnit(text).number, ExtractUnit(text).unit)

DurationUnits ==
    [u \in {"", "us", "ms", "s", "m", "h", "hr", "d", "w", "mo", "yr"} |->
        CASE u \in {"", "s"}  -> Ratio(1, 1)
          [] u = "us"         -> Ratio(1, 1000000)
          [] u = "ms"         -> Ratio(1, 1000)
          [] u = "m"          -> Ratio(60, 1)
          [] u \in {"h", "hr"}-> Ratio(3600, 1)
          [] u = "d"          -> Ratio(86400, 1)
          [] u = "w"          -> Ratio(604800, 1)
          [] u = "mo"         -> Ratio(2592000, 1)
          [] u = "yr"         -> Ratio(31536000, 1)]

\* Mutant: an unknown unit is taken for seconds.
DurationLenient(number, unit) ==
    Times(number, IF unit \in DOMAIN DurationUnits THEN DurationUnits[unit] ELSE Ratio(1, 1))

\* duration after extractUnit.
DurationIn(number, unit) ==
    IF unit \notin DOMAIN DurationUnits THEN Throws ELSE Times(number, DurationUnits[unit])

Duration(text) ==
    CASE text = Undefined -> Undefined
      [] text # Undefined /\ ExtractUnit(text) = Throws -> Throws
      [] OTHER -> DurationIn(ExtractUnit(text).number, LowerCase(ExtractUnit(text).unit))

-----------------------------------------------------------------------------
(* Port ranges                                                              *)

\* split, and integer for every piece.
Pieces(range, separator) ==
    LET ends == Sorted({i \in DOMAIN range : range[i] = separator}
                            \union {Len(range) + 1}, <)
    IN  [k \in DOMAIN ends |->
            Integer(SubSeq(range, IF k = 1 THEN 1 ELSE ends[k - 1] + 1, ends[k] - 1))]

Literals(value) ==
    {<< r[1], r[1] >> : r \in {r \in Range(value) : Len(r) = 1 /\ IsDigits(r[1]) /\ r[1] # 0}}

\* The ranges with a separator between numbers.  More than two numbers are let
\* through, and the first two are used.
Split(value, separator) ==
    {p \in {Pieces(r, separator) : r \in {r \in Range(value) : separator \in Range(r)}} :
        Undefined \notin Range(p)}

Absolutes(value) == {<< p[1], p[2] >> : p \in Split(value, Dash)}

\* Mutant: the offset of a relative range is taken for its end.
RelativesEnd(value) == {<< p[1], p[2] >> : p \in Split(value, Plus)}

Relatives(value) == {<< p[1], p[1] + p[2] >> : p \in Split(value, Plus)}

\* sort() without a comparison compares numbers as texts.
TextBefore(m, n) ==
    LET s == Decimal[IF m < 0 THEN -m ELSE m]
        t == Decimal[IF n < 0 THEN -n ELSE n]
    IN  IF m < 0 /\ n >= 0 THEN TRUE
        ELSE IF m >= 0 /\ n < 0 THEN FALSE
        ELSE \E i \in DOMAIN t :
                /\ i <= Len(s) + 1 /\ SubSeq(s, 1, i - 1) = SubSeq(t, 1, i - 1)
                /\ i > Len(s) \/ s[i] < t[i]

\* ports: all numbers of all ranges, sorted, each one once; undefined if there are
\* none.  An array of negative length throws.
Ports(value) ==
    IF value = Undefined THEN Undefined
    ELSE LET spans == Literals(value) \union Absolutes(value) \union Relatives(value)
             all == UNION {s[1]..s[2] : s \in spans}
         IN  IF \E s \in spans : s[2] - s[1] + 1 < 0 THEN Throws
             ELSE IF all = {} THEN Undefined
             ELSE Sorted(all, TextBefore)

-----------------------------------------------------------------------------
(* The configuration                                                        *)

LogLevels == {"silent", "trace", "debug", "info", "warn", "error", "fatal"}

GetLogLevel(env) == Default(Enumerated(env, LogLevels), "info")

Plain(n, unit) == [numeric |-> << n >>, gap |-> FALSE, unit |-> unit]

\* The alphabet that nanoid draws from, if it is given none.
UrlAlphabet == "useandom-26T198340PX75pxJACKVERYMINDBUSHWOLF_GQZbfghjklqvwyzrict"

\* Mutant: the variable of the global traffic is read.
MaxLifetimeTrafficOfGlobal(env) ==
    ByteSize(Default(env.maxGlobalTraffic, Plain(4, "gb")))

MaxLifetimeTraffic(env) == ByteSize(Default(env.maxLifetimeTraffic, Plain(4, "gb")))

\* Every setting, for an environment with the texts of the variables or Undefined.
\* The default ports are a parameter, as an instance has to sort them.
NorayConfig(env, defaultPorts) ==
    [oidLength            |-> Default(Integer(env.oidLength), 21),
     oidCharset           |-> Default(env.oidCharset, UrlAlphabet),
     wordsEnabled         |-> Default(Boolean(env.wordsEnabled), FALSE),
     wordsLength          |-> Default(Integer(env.wordsLength), 3),
     pidLength            |-> Default(Integer(env.pidLength), 128),
     pidCharset           |-> Default(env.pidCharset, UrlAlphabet),
     socketHost           |-> Default(env.socketHost, "0.0.0.0"),
     socketPort           |-> Default(Integer(env.socketPort), 8890),
     httpHost             |-> Default(env.httpHost, "0.0.0.0"),
     httpPort             |-> Default(Integer(env.httpPort), 8891),
     ports                |-> Ports(Default(env.ports, defaultPorts)),
     timeout              |-> Duration(Default(env.timeout, Plain(30, "s"))),
     cleanupInterval      |-> Duration(Default(env.cleanupInterval, Plain(30, "s"))),
     registrarPort        |-> Default(Number(env.registrarPort), Ratio(8809, 1)),
     maxIndividualTraffic |-> ByteSize(Default(env.maxIndividualTraffic, Plain(128, "kb"))),
     maxGlobalTraffic     |-> ByteSize(Default(env.maxGlobalTraffic, Plain(1, "gb"))),
     trafficInterval      |-> Duration(Default(env.trafficInterval, Plain(100, "ms"))),
     maxLifetimeDuration  |-> Duration(Default(env.maxLifetimeDuration, Plain(4, "hr"))),
     maxLifetimeTraffic   |-> MaxLifetimeTraffic(env),
     loglevel             |-> GetLogLevel(env.loglevel)]

\* The variables as .env.example sets them.
EnvExample(defaultPorts) ==
    [oidLength            |-> << 21 >>,
     oidCharset           |-> UrlAlphabet,
     wordsEnabled         |-> "false",
     wordsLength          |-> << 3 >>,
     pidLength            |-> << 128 >>,
     pidCharset           |-> UrlAlphabet,
     socketHost           |-> "0.0.0.0",
     socketPort           |-> << 8890 >>,
     httpHost             |-> "0.0.0.0",
     httpPort             |-> << 8891 >>,
     ports                |-> defaultPorts,
     timeout              |-> Plain(30, "s"),
     cleanupInterval      |-> Plain(30, "s"),
     registrarPort        |-> << 8809 >>,
     maxIndividualTraffic |-> Plain(128, "kb"),
     maxGlobalTraffic     |-> Plain(1, "Gb"),
     trafficInterval      |-> Plain(100, "ms"),
     maxLifetimeDuration  |-> Plain(4, "hr"),
     maxLifetimeTraffic   |-> Plain(4, "Gb"),
     loglevel             |-> "info"]

=============================================================================
