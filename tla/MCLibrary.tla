----------------------------- MODULE MCLibrary -----------------------------
(* Instances of Library for TLC.                                            *)
EXTENDS Library

\* The syllables that start words.
MCCapital == {"Book", "Butter", "Fly", "Case", "C", "D"}

\* Words of the list of which one begins another or is made of two others.
MCWords ==
    {<< "Book" >>, << "Book", "case" >>, << "Case" >>, << "Butter" >>,
     << "Butter", "fly" >>, << "Fly" >>, << "C", "D" >>}

MCFields == [socket : {"s1", "s2"}, rinfo : {"a1", "a2"}]
MCUpdates == [socket : {"s2"}] \union [rinfo : {"a2"}] \union [socket : {"s1"}, rinfo : {"a1"}]

\* Ranges with numbers of one and two digits, backwards and forwards, and such that
\* are malformed or match several of the patterns.
SomeRanges ==
    {<< n >> : n \in {0, 2, 9, 10, 11}} \union
    {<< m, s, n >> : m \in {0, 2, 9, 11}, s \in {Dash, Plus}, n \in {0, 1, 3, 10}} \union
    {<< >>, << Dash, 2 >>, << 2, Dash >>, << 1, Dash, 2, Plus, 3 >>,
     << Dash, 1, Plus, 2 >>, << 3, Plus, Dash, 2 >>, << Letter, 3 >>, << 3, Letter, Dash, 4 >>}

SomePorts == {<< r >> : r \in SomeRanges} \union (SomeRanges \X SomeRanges)

SomeArrays == {<< >>, << 1 >>, << 1, 2 >>, << 3, 4, 5 >>}

SomeDurations ==
    {Ratio(n, d) : n \in 0..7, d \in {1, 1000, 1000000}} \union
    {Ratio(n * k, 1) : n \in {1, 2, 3, 7}, k \in {30, 60, 3600, 86400, 604800, 2592000, 31536000}}

SomeNumbers == {<< >>, << 0 >>, << 4 >>, << 1, Dot, 5 >>, << Dot >>, << Dot, 5 >>,
                << 1, Comma, 5 >>, << Comma >>, << 1, Dot >>}

SomeTexts == {Undefined} \union
    {[numeric |-> n, gap |-> g, unit |-> u] :
        n \in SomeNumbers, g \in BOOLEAN, u \in {"", "s", "ms", "min", "kb"}}

NothingSet == [variable \in DOMAIN EnvExample(Undefined) |-> Undefined]

\* What may be set: a word or a text that can be read, one that cannot, and zero.
SomeIntegers == {Undefined, << >>, << 0 >>, << 7, Letter >>, << Dash, 1 >>}
SomeSizes == {Undefined, Plain(64, "kb"), Plain(2, "Mb"), Plain(64, "xb")}

\* Variables set together: settings that are read alike, or that come one after the
\* other.
SomeEnvironments ==
    {[NothingSet EXCEPT !.oidLength = o, !.wordsLength = w, !.pidLength = p] :
        o, w, p \in SomeIntegers} \union
    {[NothingSet EXCEPT !.oidCharset = o, !.pidCharset = p, !.wordsEnabled = w, !.loglevel = l] :
        o, p \in {Undefined, "", "ab"}, w \in {Undefined, "true", "false"},
        l \in {Undefined, "debug", "loud"}} \union
    {[NothingSet EXCEPT !.socketHost = s, !.httpHost = h, !.socketPort = p, !.httpPort = q] :
        s, h \in {Undefined, "::1"}, p, q \in SomeIntegers} \union
    {[NothingSet EXCEPT !.timeout = t, !.cleanupInterval = c, !.trafficInterval = i] :
        t \in SomeTexts, c, i \in {Undefined, Plain(1, "ms"), Plain(1, "min")}} \union
    {[NothingSet EXCEPT !.maxIndividualTraffic = m, !.maxGlobalTraffic = g,
                        !.maxLifetimeTraffic = l, !.maxLifetimeDuration = d] :
        m, g, l \in SomeSizes, d \in {Undefined, Plain(0, ""), Plain(2, "yr")}} \union
    {[NothingSet EXCEPT !.ports = r, !.registrarPort = p] :
        r \in {Undefined, << << 3 >> >>, << << Letter >> >>},
        p \in {Undefined, << 7 >>, << 7, Dot, 5 >>, << Letter >>, << >>}}

\* Senders whose texts begin alike, with datagrams of two sizes.
SomeRinfos ==
    [address : {<< 1, Dot, 2 >>, << 1, Dot, 2, 1 >>, << 1, 2, Dot, 1 >>},
     port : {1, 2, 11, 12, 112}, size : {8, 9}]

MCCalls ==
    [of : {"addresses"}, first : SomeRinfos, second : SomeRinfos, ports : {{1, 2, 12, 21, 112}}] \union
    [of : {"ports"}, text : SomePorts] \union
    [of : {"formatByteSize"}, size : 0..1100] \union
    [of : {"formatDuration"}, seconds : SomeDurations] \union
    [of : {"chunks"}, data : SomeArrays \union {[i \in 1..5 |-> i]}, size : 1..4] \union
    [of : {"combine"}, arrays : UNION {[1..n -> SomeArrays] : n \in 0..3}] \union
    [of : {"generateWordId"}, length : 0..3] \union
    [of : {"config"}, env : SomeEnvironments, defaultPorts : {<< << 9, Plus, 2 >> >>}]
=============================================================================
