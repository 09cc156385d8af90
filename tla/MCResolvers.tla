---------------------------- MODULE MCResolvers ----------------------------
(***************************************************************************)
(* Resolvers on one host and one directory: spellings of two documents,    *)
(* references of every form against bases of every form, and documents     *)
(* with an anchor below items, under default, twice, and at the limits.    *)
(***************************************************************************)
EXTENDS Resolvers

H == <<"https://", "h", "/">>
F == <<"file://", "/", "root", "/">>

MCUris == {H \o <<"d", "/", "a">>, H \o <<"d", "/", ".", "/", "a", "#">>,
           H \o <<"d", "/", "a", "#", "x">>, F \o <<"a">>,
           F \o <<"/", "/", "d", "/", "..", "/", "a", "/">>}

MCBases == {H \o <<"d", "/", "a", "?", "q", "/", "r">>, H \o <<"d", "/", "b">>,
            F \o <<"d", "/", "b", "#", "x">>}

MCReferences ==
  {<<"a">>, <<"a", "#", "/", "items", "/", "0">>, <<".", "/", "a", "#", "/", "not">>,
   <<"..", "/", "..", "/", "..", "/", "d", "/", "a">>, <<"..", "/", "a", "#", "x">>,
   <<"/", "root", "/", "a", "#", "/", "not", "/", "allOf">>, <<"#", "x">>, <<"a", "/">>,
   <<"d", "/", "..", "/", "/", "a">>, <<"..", "/", "c", "#", "x">>, <<"..", "/", "e">>,
   <<"..", "/", "e", "#", "/", "0">>, <<"?", "q">>,
   H \o <<"e", "/", "..", "/", "d", "/", "a", "#", "x">>}

Node(k, text, keys, parts) == [kind |-> k, text |-> text, keys |-> keys, parts |-> parts]
Object(keys, parts) == Node("object", <<>>, [i \in 1 .. Len(keys) |-> <<keys[i]>>], parts)
Array(parts) == Node("array", <<>>, <<>>, parts)
Text(text) == Node("string", text, <<>>, <<>>)

(* {"default":{"$anchor":"x"},"items":[true,1]}                            *)
Annotation == <<Object(<<"default", "items">>, <<2, 4>>), Object(<<"$anchor">>, <<3>>),
                Text(<<"x">>), Array(<<5, 6>>), Node("true", <<>>, <<>>, <<>>),
                Node("number", <<"1">>, <<>>, <<>>)>>

(* {"$defs":{"x":{"$anchor":"x"}},"not":{"allOf":[{},{"$anchor":"x"}]}}    *)
Twice == <<Object(<<"$defs", "not">>, <<2, 5>>), Object(<<"x">>, <<3>>), Object(<<"$anchor">>, <<4>>),
           Text(<<"x">>), Object(<<"allOf">>, <<6>>), Array(<<7, 8>>), Object(<<>>, <<>>),
           Object(<<"$anchor">>, <<9>>), Text(<<"x">>)>>

(* A string of 20 bytes when the control character is taken for two.       *)
AtLimit == <<Array(<<2>>), Text([i \in 1 .. 14 |-> "x"] \o <<Quote, Control>>)>>

MCDocs == {Annotation, Twice}

MCBaseDir == <<<<"root">>>>

MCDisk == (<<<<"root">>, <<"a">>>> :> Annotation) @@ (<<<<"root">>, <<"c">>>> :> Twice)
            @@ (<<<<"root">>, <<"e">>>> :> AtLimit) @@ (<<<<"root">>, <<"d">>, <<"a">>>> :> NotJson)
            @@ (<<<<"d">>, <<"a">>>> :> Annotation)
=============================================================================
