---------------------------- MODULE MCAlgorithms -----------------------------
(***************************************************************************)
(* The inputs of Algorithms.  Field sets mix every size and fill the       *)
(* bitmap's 32 bits; AMF values cover every type, nested once; URLs every  *)
(* branch of the parser.                                                   *)
(***************************************************************************)
EXTENDS Algorithms

\* A set of fields from the number of fields of each type.
FieldSet(counts) == UNION {{[type |-> t, idx |-> i] : i \in 1..counts[t]} : t \in DOMAIN counts}
Mixed(refs) ==
    {FieldSet([ref |-> r, long |-> l, int |-> i, short |-> s, byte |-> b]) :
        r \in refs, l \in 0..1, i \in 0..1, s \in 0..1, b \in 0..2}
AllTypes == FieldSet([ref |-> 1, boolean |-> 1, byte |-> 1, char |-> 1, short |-> 1, int |-> 1,
                      float |-> 2, long |-> 1, double |-> 1])
MCShapes == <<Mixed({0, 1}) \union {AllTypes, FieldSet([ref |-> 3]), FieldSet([ref |-> 30, byte |-> 1])},
              Mixed({0, 2}),
              {FieldSet([ref |-> 1]), FieldSet([ref |-> 1, byte |-> 3, int |-> 2]), FieldSet([short |-> 2, long |-> 1])}>>

N1 == <<1, 2, 3, 4, 5, 6, 240, 63>>   \* bytes of a double, least significant first
N2 == <<9, 0, 0, 9, 0, 0, 0, 64>>     \* one whose bytes look like an end mark
A == <<97>>
B == <<98, 0>>
MCScalars(n) == {Prop(n, AMF.NUMBER, N1), Prop(n, AMF.BOOLEAN, <<1>>), Prop(n, AMF.BOOLEAN, <<0>>),
                 Prop(n, AMF.STRING, <<>>), Prop(n, AMF.STRING, <<0, 0, 9>>)}
Flat == {<<>>} \union {<<p>> : p \in MCScalars(A)} \union {<<p, q>> : p \in MCScalars(A), q \in MCScalars(B)}
MCObjects == Flat \union {<<Prop(A, AMF.OBJECT, o), q>> : o \in Flat, q \in MCScalars(B)}
MCEncodings == [obj : MCObjects, room : 0..45]
    \union {[obj |-> <<Prop(A, AMF.STRING, [i \in 1..n |-> 7])>>, room |-> 70000] : n \in {65535, 65536}}

Kinds(n) == {Prop(n, AMF.NUMBER, N2), Prop(n, AMF.BOOLEAN, <<1>>), Prop(n, AMF.STRING, <<0, 0, 9>>),
             Prop(n, AMF.LONG_STRING, <<5>>), Prop(n, AMF.DATE, N1 \o <<300>>), Prop(n, AMF.NULL, <<>>),
             Prop(n, AMF.UNDEFINED, <<>>), Prop(n, AMF.UNSUPPORTED, <<>>), Prop(n, AMF.REFERENCE, <<0, 1>>),
             Prop(n, AMF.XML_DOC, <<5, 5>>), Prop(n, AMF.MOVIECLIP, <<>>), Prop(n, AMF.RECORDSET, <<>>)}
Containers == {AMF.OBJECT, AMF.ECMA_ARRAY, AMF.STRICT_ARRAY}
\* The last value holds no bytes like an end mark: they would end the search for one early.
MCMessages == {Prop(<<>>, AMF.OBJECT, <<v, w>>) :
                   v \in Kinds(A) \union {Prop(A, c, <<u>>) : c \in Containers, u \in Kinds(B)},
                   w \in {w \in Kinds(B) : w.value \notin {N2, <<0, 0, 9>>}}}

MCAmf3Ints == [1..4 -> {0, 1, 127, 128, 191, 192, 255}]
Kinds3(n) == {Prop(n, t, <<>>) : t \in {AMF3.UNDEFINED, AMF3.NULL, AMF3.FALSE_, AMF3.TRUE_}}
             \union {Prop(n, AMF3.INTEGER, <<v>>) : v \in {0, 127, 128, 300000, 268435455, -1, -268435456}}
             \union {Prop(n, AMF3.DOUBLE, N1), Prop(n, AMF3.DATE, N1), Prop(n, AMF3.STRING, <<>>),
                     Prop(n, AMF3.STRING, <<1, 2>>)}
MCAmf3Objects == {Prop(<<>>, AMF3.OBJECT, <<v>>) : v \in Kinds3(A)}
    \union {Prop(<<>>, AMF3.OBJECT, <<v, w>>) : v \in Kinds3(A), w \in Kinds3(B)}

X == <<"x">>
Paths == {p \o X \o m \o e : p \in {<<>>, <<"mp4:">>, <<"mp3:">>}, m \in {<<>>, <<"%41", "x">>},
                           e \in {<<>>, <<".mp4">>, <<".f4v">>, <<".flv">>, <<".mp3">>}}
Url(scheme, port, app, path, query, slist) ==
    [scheme |-> scheme, host |-> <<"x", "x">>, port |-> port, app |-> app, path |-> path,
     query |-> query, slist |-> slist]
Queries == {<<>>, <<"?", "x">>}
MCUrls == {Url(s, p, <<X>>, <<>>, <<>>, FALSE) : s \in Protocols \union {"http"}, p \in {"none", "1935", "70000"}}
    \union {Url("rtmp", "1935", a, p, q, FALSE) : a \in {<<X>>, <<X, X>>, <<<<"ondemand">>>>}, p \in Paths, q \in Queries}
    \union {Url("rtmp", "none", <<X, X>>, <<"x", "/">> \o p, q, FALSE) : p \in Paths, q \in Queries}
    \union {Url("rtmpt", "none", a, p, <<>>, TRUE) : a \in {<<X>>, <<X, X>>}, p \in Paths}

\* Properties of conn: without a name, as members of an object with one.
ConnProp(type, name, value, props) == [type |-> type, name |-> name, value |-> value, props |-> props]
ConnLeaves(n) == {<<>>, <<ConnProp("S", n, "v", <<>>)>>, <<ConnProp("N", n, "1", <<>>), ConnProp("B", n, "1", <<>>)>>}
ConnTrees ==
    ConnLeaves("") \union {<<ConnProp("O", "", "", a), ConnProp("Z", "", "", <<>>)>> : a \in ConnLeaves("n")}
    \union {b \o <<ConnProp("O", "", "", <<ConnProp("O", "n", "", a)>> \o b)>> : a \in ConnLeaves("n"), b \in ConnLeaves("")}
Set(name, value) == [name |-> name, value |-> value]
Settings == {Set("app", <<"x", " ", "x">>), Set("app", <<>>), Set("tcUrl", <<"x">>), Set("playpath", <<"mp4:", "x">>),
             Set("live", <<"1">>), Set("LIVE", <<"yes">>), Set("live", <<"x">>), Set("buffer", <<"1935">>)}
MCOptionLists ==
    {[scheme |-> sc, set |-> st, conn |-> t, spaces |-> sp] :
        sc \in {"rtmp", "rtmpt", "rtmps"}, sp \in {1, 3}, t \in ConnTrees,
        st \in {<<>>} \union {<<a>> : a \in Settings} \union {<<a, b>> : a, b \in Settings}}
MCConnLists == UNION {[1..n -> {"O:1", "O:0", "S:v", "NS:n:v", "NO:n:1", "Q:v"}] : n \in 0..4}

\* Media: tags, packets that carry one, FLV packets that carry several, with their
\* times off by some amount and the last tag size right, wrong or missing.
Tag(type, time, n) == [type |-> type, time |-> time, body |-> [i \in 1..n |-> i]]
Packet(t) == [type |-> t.type, time |-> t.time, body |-> t.body, tags |-> <<t>>, av |-> {}, code |-> ""]
FlvPacket(tags, off, size) ==
    LET raw == FlvTags([i \in DOMAIN tags |-> [tags[i] EXCEPT !.time = @ + off]])
    IN [type |-> FLV, time |-> tags[1].time, tags |-> tags, av |-> {}, code |-> "",
        body |-> SubSeq(raw, 1, Len(raw) - 4)
                     \o (CASE size = "right" -> SubSeq(raw, Len(raw) - 3, Len(raw)) [] size = "wrong" -> <<0, 0, 0, 1>>
                            [] size = "missing" -> <<>>)]
Invoke(code) == [type |-> 20, time |-> 0, body |-> <<>>, tags |-> <<>>, av |-> {}, code |-> code]
Meta(av) == [Packet(Tag(META, 0, 3)) EXCEPT !.av = av]
Complete == <<Invoke("NetStream.Play.Complete")>>
AV(t) == {Packet(Tag(AUDIO, t, 2)), Packet(Tag(VIDEO, t, 6)), Packet(Tag(AUDIO, t, 1)), Packet(Tag(VIDEO, t, 5))}
Chunks(t) == {FlvPacket(<<Tag(VIDEO, t, 6), Tag(AUDIO, t + 3, 2)>>, off, size) : off \in {0, 16777216}, size \in {"right", "wrong", "missing"}}
             \union {FlvPacket(<<Tag(AUDIO, t, 4)>>, 7, "missing")}
Streams == {m \o <<p>> \o <<q>> \o e :
                m \in {<<>>, <<Meta({})>>, <<Meta({"audio"})>>}, e \in {<<>>, Complete},
                p \in AV(0) \union Chunks(0) \union AV(16777215), q \in AV(0) \union AV(16777216) \union Chunks(16777217)}
MCReads == [packets : Streams, sizes : {<<500>>, <<1>>, <<13, 4>>, <<20>>, <<17, 30>>}, live : BOOLEAN, stamp : {-1}]
    \union [packets : {<<p, q, Packet(Tag(VIDEO, 9, 6))>> : p \in AV(4) \union Chunks(4), q \in AV(5)}, sizes : {<<500>>, <<7>>},
            live : {TRUE}, stamp : {4, 5, 6}]
MCSeeks == [before : {<<Packet(Tag(VIDEO, 5, 6)), p>> : p \in AV(6) \union Chunks(6)}, sizes : {<<5>>, <<13, 4>>, <<20, 500>>},
            notify : {Invoke("NetStream.Seek.Notify")}, after : {<<p, q>> : p \in AV(0) \union Chunks(0), q \in AV(3)}]

\* The file: metadata, a frame, the key frame at 40, two more tags.
File(t) == <<Tag(META, 0, 3), Tag(VIDEO, 20, 7), Tag(VIDEO, 40, 8), Tag(AUDIO, 41, 2), Tag(VIDEO, t, 6)>>
AtZero(t) == [Packet(t) EXCEPT !.time = 0]
Early(f) == {<<>>, <<AtZero(f[1])>>, <<AtZero(f[2])>>, <<AtZero(f[1]), AtZero(f[2])>>, <<AtZero(f[2]), AtZero(f[4]), AtZero(f[2])>>,
             <<AtZero(Tag(META, 0, 4))>>}
Later(f) == [i \in 1..2 |-> [Packet(f[i + 3]) EXCEPT !.time = @ - 40]]
MCResumes ==
    {[file |-> f, at |-> 3, sizes |-> sz, early |-> Len(e), differs |-> e = <<AtZero(Tag(META, 0, 4))>>, chunked |-> FALSE,
      packets |-> e \o <<AtZero(f[3])>> \o c \o Later(f)] :
        f \in {File(60), File(16777300)}, sz \in {<<500>>, <<9>>, <<20, 3>>}, e \in Early(File(60)),
        c \in {<<>>, <<AtZero(Tag(VIDEO, 40, 8))>>, <<AtZero(Tag(AUDIO, 40, 4))>>}}
    \union {[file |-> File(60), at |-> 3, sizes |-> sz, early |-> 0, differs |-> FALSE, chunked |-> TRUE,
             packets |-> <<[FlvPacket(SubSeq(File(60), i, 5), 0, size) EXCEPT !.time = 0]>>] :
        sz \in {<<500>>, <<9>>}, i \in 1..3, size \in {"right", "wrong", "missing"}}

\* A file in pieces: after tag i or not, and inside the content of one tag.
Pieces(tags, ends, inside, n, header) ==
    LET bytes(i) == (IF i = 1 /\ header THEN flvHeader ELSE <<>>) \o FlvTags(<<tags[i]>>)
        cut(i) == IF i = inside THEN {Len(bytes(i)) - 4 - Len(tags[i].body) + n} ELSE {}
        before(i) == FoldLeft(LAMBDA x, y : x + y, 0, [j \in 1 .. i - 1 |-> Len(bytes(j))])
        cuts == UNION {{before(i) + c : c \in cut(i)} : i \in DOMAIN tags} \union {before(i + 1) : i \in ends \union {Len(tags)}}
        at == SetToSortSeq(cuts, LAMBDA x, y : x < y)
        all == FlattenSeq([i \in DOMAIN tags |-> bytes(i)])
    IN [k \in DOMAIN at |-> SubSeq(all, (IF k = 1 THEN 0 ELSE at[k - 1]) + 1, at[k])]
MCWrites ==
    {[tags |-> t, up |-> u, pieces |-> Pieces(t, e, i, n, h)] :
        t \in {<<Tag(META, 0, 3), Tag(VIDEO, 0, 6), Tag(AUDIO, 16777216, 4)>>, <<Tag(AUDIO, 5, 3), Tag(VIDEO, 6, 13), Tag(META, 7, 3)>>},
        u \in {1, 3}, e \in SUBSET {1, 2}, i \in 0..3, n \in {1, 2}, h \in BOOLEAN}
==============================================================================
