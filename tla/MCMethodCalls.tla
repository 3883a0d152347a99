---------------------------- MODULE MCMethodCalls ----------------------------
(***************************************************************************)
(* A small instance of MethodCalls for TLC.  Every request is a call in    *)
(* order with at most one member missing or replaced.                      *)
(***************************************************************************)
EXTENDS MethodCalls, TLC

AllPlatforms == {"android", "windows", "apple"}

Text(t)  == <<"text", t>>
Integer(n)   == <<"int", n>>
Bool(b)  == <<"bool", b>>
Bytes(s) == <<"bytes", s>>
Map(m)   == <<"map", m>>

Plain     == <<97>>
NonAscii  == <<195, 169>>
Empty     == <<>>
Blank     == <<32>>
NulInside == <<97, 0, 98>>
\* Overlong, surrogate, truncated, beyond U+10FFFF, no lead byte.
Malformed == {<<192, 128>>, <<237, 160, 128>>, <<195>>, <<244, 144, 128, 128>>, <<128>>}

Texts  == {Plain, NonAscii, Empty, Blank, NulInside} \union Malformed
Values == {Text(t) : t \in Texts} \union {Null, Integer(1), Bool(TRUE), Bytes(<<1>>),
                                        Map([k \in {} |-> Null])}

\* m itself, m without a member, and m with a member replaced.
Variants(m, keys, values) ==
  {m} \union {[k \in DOMAIN m \ {key} |-> m[k]] : key \in keys}
      \union {(key :> v) @@ m : key \in keys, v \in values}

Calls(methods, maps) ==
  {[method |-> n, arguments |-> Map(m)] : n \in methods, m \in maps}

StartCalls(method, source) ==
  Calls({method}, Variants([k \in {SourceKey(method), "destination"} |->
                              IF k = SourceKey(method) THEN source ELSE Text(Plain)],
                           {SourceKey(method), "destination", "displayName"},
                           Values \union {Bytes(<<>>)}))

Numbers == {Integer(n) : n \in {-9, -8, -1, 0, 1, 2, 3, 4, 7, 8, 17, 18}}
FullConfig == [maxTorrents |-> Integer(2), downloadRateLimit |-> Integer(0),
               uploadRateLimit |-> Integer(7), connectionsLimit |-> Integer(3),
               enableDht |-> Bool(FALSE), userAgent |-> Text(NonAscii)]
Configs == {[k \in {} |-> Null]}
             \union {("unknown" :> Null) @@ FullConfig, ("unknown" :> Bool(TRUE)) @@ FullConfig,
                     (NumberKey :> Bool(TRUE)) @@ FullConfig}
             \union Variants(FullConfig, NarrowFields \union RateFields, Numbers)
             \union Variants(FullConfig, DOMAIN FullConfig, Values)

SomeRequests ==
  StartCalls("start", Text(Plain))
    \union StartCalls("startFromData", Bytes(<<1>>))
    \union StartCalls("startFromFile", Text(Plain))
    \union Calls(ConfigMethods, Variants([config |-> Null], {"config"},
                  Values \union {Map(m) : m \in Configs}))
    \union Calls({"setTransfersSuspended"},
                 Variants([suspended |-> Bool(TRUE)], {"suspended"},
                          Values \union {Bool(FALSE)}))
    \union Calls(IdMethods, Variants([id |-> Integer(1)], {"id"}, Values \union Numbers))
    \union Calls({"areTransfersSuspended", "getActiveTorrentIds"}, {[k \in {} |-> Null]})
    \union {[method |-> n, arguments |-> a] :
              n \in ConfigMethods \union {"start", "pause", "setTransfersSuspended",
                                        "areTransfersSuspended"},
              a \in {Null, Text(Plain)}}

\* One that is well-formed, one that is not, one that is not before its NUL,
\* and one that is only before it.
SomeTexts == {Empty, NonAscii, <<195>>, <<128, 0, 97>>, <<97, 0, 128>>}

SomeIds == {<<>>, <<1>>, <<1, 2>>}
Agent   == <<115>>

\* The two definitions of UTF-8 agree on all texts of up to three of the
\* bytes at which the table changes its mind, and on the longest ones.
Boundaries == {1, 127, 128, 143, 144, 159, 160, 191, 192, 193, 194, 223, 224, 225,
               236, 237, 238, 239, 240, 241, 243, 244, 245, 255}
ShortTexts == UNION {[1..n -> Boundaries] : n \in 0..3}
LongTexts  == {<<b, c, d, e>> : b \in {239, 240, 241, 244, 245, 247}, c \in Boundaries,
                                d \in {127, 128, 191, 192}, e \in {127, 128, 191, 192}}
ASSUME DecodersAgree ==
  \A t \in ShortTexts \union LongTexts : IsUtf8(t) = WellFormed(t)
=============================================================================
