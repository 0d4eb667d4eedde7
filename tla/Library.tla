------------------------------ MODULE Library ------------------------------
(***************************************************************************)
(* The parts of noray that nothing else of it is needed for: one           *)
(* repository at work, or one call of a pure function, of those in Utils,  *)
(* ConfigParsers and NetAddress.                                           *)
(***************************************************************************)
EXTENDS Repository, ConfigParsers, NetAddress

CONSTANTS
    Calls,      \* calls of pure functions: a function's name and its arguments
    NoCall

CallsOf(function) == {c \in Calls : c.of = function}

\* The arguments are of the kinds that the functions are for.  What is combined
\* are arrays without repetition.
ASSUME CallsAssumption ==
    /\ \A c \in CallsOf("ports") : c.text \in Seq(Seq(Token))
    /\ \A c \in CallsOf("formatByteSize") : c.size \in Nat
    /\ \A c \in CallsOf("formatDuration") :
          c.seconds \in [n : Nat, d : Nat \ {0}] /\ Gcd[<< c.seconds.n, c.seconds.d >>] = 1
    /\ \A c \in CallsOf("chunks") :
          c.data \in Seq(Range(c.data)) /\ c.size \in Nat \ {0}
    /\ \A c \in CallsOf("combine") :
          /\ c.arrays \in Seq(Range(c.arrays))
          /\ \A a \in Range(c.arrays) : a \in Seq(Range(a)) /\ IsInjective(a)
    /\ \A c \in CallsOf("generateWordId") : c.length \in Nat
    /\ \A c \in CallsOf("addresses") :
          /\ c.ports \subseteq Nat
          /\ \A r \in {c.first, c.second} : r.address \in Seq(Range(r.address)) /\ r.port \in Nat

VARIABLE
    call        \* the call that is looked at

LibraryInit == RepositoryInit /\ call = NoCall

RepositoryStep == call = NoCall /\ RepositoryNext /\ UNCHANGED call

FunctionCall == items = << >> /\ call = NoCall /\ call' \in Calls /\ UNCHANGED items

LibraryNext == RepositoryStep \/ FunctionCall

LibrarySpec == LibraryInit /\ [][LibraryNext]_<<items, call>>

\* The call is one of this function.
Called(function) == call # NoCall /\ call.of = function

-----------------------------------------------------------------------------
(* Properties                                                               *)

\* A range of ports as the documentation of ports() has it.
IsRange(r) ==
    \/ Len(r) = 1 /\ IsDigits(r[1])
    \/ Len(r) = 3 /\ IsDigits(r[1]) /\ r[2] \in {Dash, Plus} /\ IsDigits(r[3])

\* The ports that it names.
Named(r) ==
    CASE Len(r) = 1   -> {r[1]} \ {0}
      [] Len(r) = 3   -> r[1]..(IF r[2] = Dash THEN r[3] ELSE r[1] + r[3])
      [] OTHER        -> {}

\* A list of ranges, overlapping or not, is read as the ports that its ranges name,
\* each of them once: a port that came twice would be bound twice.  A range that
\* runs backwards names no port or is refused.
PortsMeant ==
    Called("ports") /\ (\A r \in Range(call.text) : IsRange(r)) =>
        LET named == UNION {Named(r) : r \in Range(call.text)}
            result == Ports(call.text)
        IN  IF result = Throws
            THEN \E r \in Range(call.text) : Named(r) = {} /\ Len(r) = 3
            ELSE IF named = {} THEN result = Undefined
            ELSE Range(result) = named /\ Len(result) = Cardinality(named)

\* A size that noray shows, put back into the configuration, is read as the same
\* size; it is shown with a number between 1 and 1024, as far as there are units.
SizesRoundTrip ==
    Called("formatByteSize") =>
        LET shown == FormatByteSize(call.size)
            read == SizeIn(shown.number, shown.unit)
        IN  /\ read # Throws /\ read = Ratio(call.size, 1)
            /\ shown.unit # "Yb" => shown.number.n < Kilo * shown.number.d
            /\ shown.unit # "b" => shown.number.n >= shown.number.d

\* A duration that noray shows is either refused or read as the same duration: units
\* that look alike (m, mo, min) are not taken for each other.
DurationsAgree ==
    Called("formatDuration") =>
        LET shown == FormatDuration(call.seconds)
            read == DurationIn(shown.number, shown.unit)
        IN  read = Throws \/ read = call.seconds

\* Neither function on arrays loses or repeats an element: the chunks of an array
\* make up the array, and every combination of elements comes once.
NothingLost ==
    /\ Called("chunks") =>
          /\ FlattenSeq(Chunks(call.data, call.size)) = call.data
          /\ \A k \in DOMAIN Chunks(call.data, call.size) :
                Len(Chunks(call.data, call.size)[k]) \in 1..call.size
    /\ Called("combine") =>
          LET all == [DOMAIN call.arrays -> UNION {Range(a) : a \in Range(call.arrays)}]
              meant == {c \in all : \A d \in DOMAIN c : c[d] \in Range(call.arrays[d])}
              result == Combine(call.arrays)
          IN  Range(result) = meant /\ Len(result) = Cardinality(meant)

\* Names that are put together from parts tell apart what they name.  Nothing
\* separates the words of an open id, and words of the list are made of others: two
\* hosts have the same one only if the same words were drawn.  Relays share
\* counters, and senders a buffer, only if addresses and ports are the same.
NamesDistinct ==
    /\ Called("generateWordId") =>
          \A m \in 0..call.length : \A draw \in Draws(m), other \in Draws(call.length) :
              WordId(draw) = WordId(other) => draw = other
    /\ Called("addresses") =>
          LET a == FromRinfo(call.first)
              b == FromRinfo(call.second)
          IN  \A p, q \in call.ports :
                 /\ EntryId(a, p) = EntryId(b, q) <=> Equals(a, b) /\ p = q
                 /\ BufferKey(a, p) = BufferKey(b, q) <=> Equals(a, b) /\ p = q

\* Every setting is decided by its own variable and no other: whatever else is set,
\* the setting is as if its variable alone were changed in .env.example.  If the
\* variable is not set, the setting is what .env.example says.
SettingsApart ==
    Called("config") =>
        LET config == NorayConfig(call.env, call.defaultPorts)
            example == EnvExample(call.defaultPorts)
            ConfigWith(setting, value) ==
                NorayConfig([example EXCEPT ![setting] = value], call.defaultPorts)
        IN  \A setting \in DOMAIN config :
               LET value == IF call.env[setting] = Undefined THEN example[setting]
                                                            ELSE call.env[setting]
               IN  config[setting] = ConfigWith(setting, value)[setting]

=============================================================================
