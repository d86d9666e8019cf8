----------------------------- MODULE Algorithms ------------------------------
(***************************************************************************)
(* The algorithms that keep no state between calls, checked against what   *)
(* they should compute: the layout of fields (a machine of its own), the   *)
(* AMF coding, the parsing of URLs and of the options after them, the      *)
(* reading and writing of FLV (one input at a time, in job).               *)
(***************************************************************************)
EXTENDS FieldLayout, RtmpFlv, RtmpOptions

CONSTANTS Encodings,  \* objects to encode, with the room there is
          Messages,   \* AMF0 objects a peer sends
          Amf3Ints,   \* four bytes that hold an AMF3 integer
          Amf3Objects,\* dynamic AMF3 objects a peer sends
          Urls,       \* the parts of URLs
          OptionLists,\* options after a URL: settings, conn properties, how many spaces
          ConnLists,  \* any sequences of arguments of conn
          Reads,      \* packets of a server and the sizes an application reads in
          Seeks,      \* packets before and after a seek
          Resumes,    \* a file cut off at a key frame and what a server sends then
          Writes      \* FLV tags and where the pieces of the file end

VARIABLE job   \* the input of a coding or parsing job, or Idle

Idle == [kind |-> "idle"]
Jobs == [kind : {"encode"}, input : Encodings] \union [kind : {"message"}, input : Messages]
        \union [kind : {"amf3 integer"}, input : Amf3Ints] \union [kind : {"amf3"}, input : Amf3Objects]
        \union [kind : {"url"}, input : Urls] \union [kind : {"options"}, input : OptionLists]
        \union [kind : {"conn"}, input : ConnLists] \union [kind : {"read"}, input : Reads]
        \union [kind : {"seek"}, input : Seeks] \union [kind : {"resume"}, input : Resumes]
        \union [kind : {"write"}, input : Writes]

Init == LayoutInit /\ job = Idle
Next == \/ job = Idle /\ LayoutNext /\ UNCHANGED job
        \/ job = Idle /\ super = Object /\ step = "idle" /\ job' \in Jobs /\ UNCHANGED vars
        \/ job # Idle /\ job' = Idle /\ UNCHANGED vars
Spec == Init /\ [][Next]_<<vars, job>>

-----------------------------------------------------------------------------
\* d is o with properties dropped at the end, at any depth.
RECURSIVE Truncated(_, _)
Truncated(d, o) ==
    /\ Len(d) <= Len(o)
    /\ \A i \in DOMAIN d : /\ d[i].name = o[i].name /\ d[i].type = o[i].type
                           /\ IF o[i].type = AMF.OBJECT THEN Truncated(d[i].value, o[i].value)
                              ELSE d[i].value = o[i].value

\* The bytes of a value by the AMF0 format, long strings and arrays included,
\* which the library reads and does not write.
U16(n) == <<n \div 256, n % 256>>
RECURSIVE Wire(_)
Wire(w) ==
    CASE w.type = AMF.NUMBER -> <<0>> \o Reverse(w.value)
      [] w.type = AMF.BOOLEAN -> <<1>> \o w.value
      [] w.type = AMF.STRING -> <<2>> \o U16(Len(w.value)) \o w.value
      [] w.type = AMF.LONG_STRING -> <<12, 0, 0>> \o U16(Len(w.value)) \o w.value
      [] w.type = AMF.XML_DOC -> <<15, 0, 0>> \o U16(Len(w.value)) \o w.value
      [] w.type = AMF.DATE -> <<11>> \o Reverse(SubSeq(w.value, 1, 8)) \o U16(w.value[9])
      [] w.type = AMF.REFERENCE -> <<7>> \o w.value
      [] w.type \in {AMF.OBJECT, AMF.ECMA_ARRAY} ->
            <<w.type>> \o (IF w.type = AMF.OBJECT THEN <<>> ELSE <<0, 0>> \o U16(Len(w.value)))
                \o FlattenSeq([i \in DOMAIN w.value |-> U16(Len(w.value[i].name)) \o w.value[i].name
                                                             \o Wire(w.value[i])])
                \o <<0, 0, 9>>
      [] w.type = AMF.STRICT_ARRAY ->
            <<10, 0, 0>> \o U16(Len(w.value)) \o FlattenSeq([i \in DOMAIN w.value |-> Wire(w.value[i])])
      [] OTHER -> <<w.type>>
Readable(type) == type \notin {AMF.REFERENCE, AMF.XML_DOC, AMF.MOVIECLIP, AMF.RECORDSET}
\* What a reader is to make of it: the arrays become objects, strings are strings,
\* the kinds of nothing are null; an object ends before a value that cannot be
\* read, an array that holds one cannot be read itself.
RECURSIVE Meaning(_)
Meaning(w) ==
    LET bad == SelectInSeq(w.value, LAMBDA v : ~Readable(v.type) \/ Meaning(v).type = AMF.INVALID)
        Upto(n) == [i \in 1..n |-> [Meaning(w.value[i]) EXCEPT !.name = w.value[i].name]]
    IN CASE w.type \in {AMF.OBJECT, AMF.ECMA_ARRAY} ->
                Prop(w.name, AMF.OBJECT, Upto(IF bad = 0 THEN Len(w.value) ELSE bad - 1))
         [] w.type = AMF.STRICT_ARRAY ->
                IF bad # 0 THEN AMFProp_Invalid
                ELSE Prop(w.name, AMF.OBJECT, [i \in DOMAIN w.value |-> [Upto(Len(w.value))[i] EXCEPT !.name = <<>>]])
         [] w.type \in {AMF.NULL, AMF.UNDEFINED, AMF.UNSUPPORTED} -> Prop(w.name, AMF.NULL, <<>>)
         [] w.type = AMF.LONG_STRING -> Prop(w.name, AMF.STRING, w.value)
         [] OTHER -> w

\* The AMF3 format of an integer (29 bits, from two's complement), of a string and
\* of a dynamic object without members of its own.
U29(n) == CASE n < 128 -> <<n>>
            [] n >= 128 /\ n < 16384 -> <<128 + n \div 128, n % 128>>
            [] n >= 16384 /\ n < 2097152 -> <<128 + n \div 16384, 128 + ((n \div 128) % 128), n % 128>>
            [] OTHER -> <<128 + n \div 4194304, 128 + ((n \div 32768) % 128), 128 + ((n \div 256) % 128), n % 256>>
Str3(s) == U29(2 * Len(s) + 1) \o s
RECURSIVE Wire3(_)
Wire3(w) ==
    <<w.type>> \o (CASE w.type = AMF3.INTEGER -> U29(IF w.value[1] < 0 THEN w.value[1] + 536870912 ELSE w.value[1])
                     [] w.type = AMF3.DOUBLE -> Reverse(w.value)
                     [] w.type = AMF3.DATE -> <<1>> \o Reverse(w.value)
                     [] w.type = AMF3.STRING -> Str3(w.value)
                     [] w.type = AMF3.OBJECT ->
                            <<11>> \o Str3(<<>>)
                                \o FlattenSeq([i \in DOMAIN w.value |-> Str3(w.value[i].name) \o Wire3(w.value[i])])
                                \o <<1>>
                     [] OTHER -> <<>>)
\* A property that reads w: the type AMF0 has for it, the value.
RECURSIVE Reads3(_, _)
Reads3(p, w) ==
    /\ p.name = w.name
    /\ CASE w.type \in {AMF3.UNDEFINED, AMF3.NULL} -> p.type = AMF.NULL
         [] w.type \in {AMF3.FALSE_, AMF3.TRUE_} ->
                p.type = AMF.BOOLEAN /\ p.value = (IF w.type = AMF3.TRUE_ THEN <<1>> ELSE <<0>>)
         [] w.type \in {AMF3.INTEGER, AMF3.DOUBLE, AMF3.DATE} -> p.type = AMF.NUMBER /\ p.value = w.value
         [] w.type = AMF3.STRING -> p.type = AMF.STRING /\ p.value = w.value
         [] OTHER -> LET named == SelectSeq(p.value, LAMBDA q : q.name # <<>>)
                     IN /\ p.type = AMF.OBJECT /\ Len(named) = Len(w.value)
                        /\ \A i \in DOMAIN named : Reads3(named[i], w.value[i])

\* The URL with these parts, and the stream name a playpath stands for: its
\* prefix if the extension calls for one, no extension then, escapes decoded.
Join(segments) == FlattenSeq([i \in DOMAIN segments |-> <<"/">> \o segments[i]])
UrlOf(u) == u.host \o (IF u.port = "none" THEN <<>> ELSE <<":", u.port>>) \o Join(u.app)
                \o (IF u.slist THEN <<"?", "slist=">> \o u.path \o <<"&", "x">>
                    ELSE (IF u.path = <<>> THEN <<>> ELSE <<"/">> \o u.path) \o u.query)
Decoded(s) == [i \in DOMAIN s |-> IF s[i] = "%41" THEN "x" ELSE s[i]]
StreamName(path, slist) ==
    LET ext == IF path = <<>> THEN "none" ELSE Last(path)
        prefix == CASE ext \in {".mp4", ".f4v"} -> <<"mp4:">> [] ext = ".mp3" -> <<"mp3:">> [] OTHER -> <<>>
    IN IF (prefix # <<>> /\ Head(path) = prefix[1]) \/ (ext = ".flv" /\ slist) \/ ext \notin Extensions
       THEN Decoded(path)
       ELSE prefix \o Decoded(SubSeq(path, 1, Len(path) - 1))

\* The options as text: a space in a value is escaped, a property of conn is an
\* option, an object one that opens it, its properties and one that closes it.
Setting(name, value) == <<name, "=">> \o [i \in DOMAIN value |-> IF value[i] = " " THEN "\\20" ELSE value[i]]
ConnToken(p) ==
    CHOOSE t \in {"B:1", "S:v", "N:1", "Z:", "O:1", "NB:n:1", "NS:n:v", "NN:n:1", "NO:n:1"} :
        ConnArg(t).type = p.type /\ ConnArg(t).name = p.name
RECURSIVE ConnSettings(_)
ConnSettings(props) ==
    FlattenSeq([i \in DOMAIN props |->
        <<Setting("conn", <<ConnToken(props[i])>>)>> \o ConnSettings(props[i].props)
            \o (IF props[i].type = "O" THEN <<Setting("conn", <<"O:0">>)>> ELSE <<>>)])
OptionText(o) ==
    LET all == [i \in DOMAIN o.set |-> Setting(o.set[i].name, o.set[i].value)] \o ConnSettings(o.conn)
    IN FlattenSeq([i \in DOMAIN all |-> [n \in 1 .. IF i = 1 THEN 1 ELSE o.spaces |-> " "] \o all[i]])
\* The last setting of a name, or what it is without one.
LastSet(o, name, otherwise) ==
    LET all == SelectSeq(o.set, LAMBDA x : x.name = name)
    IN IF all = <<>> THEN otherwise ELSE Last(all).value

\* The properties of an object and of those in it, each with its depth.
RECURSIVE Listing(_, _)
Listing(props, depth) ==
    FlattenSeq([i \in DOMAIN props |->
        <<[depth |-> depth, type |-> props[i].type, name |-> props[i].name]>> \o Listing(props[i].props, depth + 1)])

\* A session that starts to read these packets, and what an application gets that
\* reads with buffers of the given sizes in turn until the end: the bytes of each
\* call, the result of a further one.
Reader(packets, live) ==
    [incoming |-> packets, flags |-> {}, status |-> 0, dataType |-> {}, timestamp |-> 0, buf |-> <<>>,
     nResumeTS |-> 0, metaHeader |-> <<>>, initialFrame |-> <<>>, initialFrameType |-> VIDEO,
     nIgnoredFrameCounter |-> 0, nIgnoredFlvFrameCounter |-> 0, m_pausing |-> 0, m_mediaStamp |-> 0, live |-> live]
RECURSIVE ReadAll(_, _, _)
ReadAll(r, sizes, pieces) ==
    LET After(one) ==
            IF r.status < 0 THEN [pieces |-> pieces, ret |-> one.ret]
            ELSE ReadAll(one.r, Append(Tail(sizes), Head(sizes)), IF one.out = <<>> THEN pieces ELSE Append(pieces, one.out))
    IN After(RTMP_Read(r, Head(sizes)))

\* The FLV file with these tags.
FlvTags(tags) == FlattenSeq([i \in DOMAIN tags |-> FlvTag(tags[i].type, tags[i].time, tags[i].body)])
FlvFile(media, tags) == [flvHeader EXCEPT ![5] = DataType(media)] \o FlvTags(tags)
\* The tags packets carry (field tags, from which an FLV packet's bytes are made);
\* audio and video without content carry none.
HasContent(p) == Len(p.body) > (CASE p.type = VIDEO -> 5 [] p.type = AUDIO -> 1 [] OTHER -> 0)
TagsOf(packets) == FlattenSeq([i \in DOMAIN packets |-> IF HasContent(packets[i]) THEN packets[i].tags ELSE <<>>])
MediaSent(packets) ==
    UNION {packets[i].av \union MediaOf(packets[i].type) \union UNION {MediaOf(t.type) : t \in ToSet(packets[i].tags)} :
              i \in DOMAIN packets}

-----------------------------------------------------------------------------
\* e, the encoding of obj in this room, and back, what it is read as.
ReadsBack(obj, room, e, back) ==
    /\ e # NULL => /\ Len(e) <= room /\ back.res = Len(e)
                   /\ Truncated(back.prop.value, obj)
                   /\ \A i \in DOMAIN back.prop.value :
                          AMF_GetProp(back.prop.value, obj[i].name, -1) = back.prop.value[i]
    /\ room >= Len(Wire(Prop(<<>>, AMF.OBJECT, obj))) + 5 => e # NULL /\ back.prop.value = obj
\* An object the library encodes is never longer than the room and reads back
\* to its last byte as the object with properties dropped at the end, at some
\* depth, and as the whole object if there were five bytes to spare; each
\* property is found by its name (AMF_Encode goes on after one that does not fit).
AmfRoundTrip ==
    job.kind = "encode" =>
        LET With(e) == ReadsBack(job.input.obj, job.input.room, e, AMFProp_Decode(e, 0, FALSE))
        IN With(AMF_Encode(job.input.obj, job.input.room))

\* The three encoders amf.h calls "Shortcuts for AMFProp_Encode" write, for any
\* room, the bytes AMFProp_Encode writes, and fail when it does.
AmfShortcutsAgree ==
    job.kind = "encode" =>
        \A i \in DOMAIN job.input.obj :
            LET p == job.input.obj[i]
                room == job.input.room
            IN CASE p.type = AMF.NUMBER -> AMF_EncodeNamedNumber(room, p.name, p.value) = AMFProp_Encode(p, room)
                 [] p.type = AMF.BOOLEAN -> AMF_EncodeNamedBoolean(room, p.name, p.value[1]) = AMFProp_Encode(p, room)
                 [] p.type = AMF.STRING -> AMF_EncodeNamedString(room, p.name, p.value) = AMFProp_Encode(p, room)
                 [] OTHER -> TRUE

\* What the library writes it reads back, and its ways of writing agree.
AmfWritten == AmfRoundTrip /\ AmfShortcutsAgree

\* An object a peer sends is read to its last byte and means what was sent; one
\* with a value the library does not know means what stands before that value,
\* and reading still ends at its end mark ("try to at least find the end mark").
AmfMessagesRead ==
    job.kind = "message" =>
        AMFProp_Decode(Wire(job.input), 0, FALSE) = [res |-> Len(Wire(job.input)), prop |-> Meaning(job.input)]

\* An AMF3 integer of any length is its 29 bits in two's complement, and exactly
\* the bytes that hold it are taken.
Amf3IntegersExact ==
    job.kind = "amf3 integer" =>
        LET b == job.input
            v == AMF3ReadInteger(b, 0)
            n == CHOOSE n \in 1..4 : (n = 4 \/ b[n] < 128) /\ \A i \in 1 .. n - 1 : b[i] >= 128
            bits == CASE n = 1 -> b[1]
                      [] n = 2 -> (b[1] - 128) * 128 + b[2]
                      [] n = 3 -> (b[1] - 128) * 16384 + (b[2] - 128) * 128 + b[3]
                      [] n = 4 -> (b[1] - 128) * 4194304 + (b[2] - 128) * 32768 + (b[3] - 128) * 256 + b[4]
        IN v.len = n /\ v.val = (IF bits >= 268435456 THEN bits - 536870912 ELSE bits)

\* A dynamic AMF3 object in an AMF0 message, of values that are not objects, is
\* read to its last byte, and its named properties are the ones sent, in order.
Amf3ObjectsRead ==
    job.kind = "amf3" =>
        LET Read(bytes, back) == back.res = Len(bytes) /\ Reads3(back.prop, job.input)
            With(bytes) == Read(bytes, AMFProp_Decode(bytes, 0, FALSE))
        IN With(<<AMF.AVMPLUS>> \o Wire3(job.input))

\* What a peer sends in either version of AMF is understood.
AmfRead == AmfMessagesRead /\ Amf3IntegersExact /\ Amf3ObjectsRead

\* r: the link of a URL made of the parts u.
LinkHasParts(r, u) ==
    /\ r.ok /\ r.host = u.host
    /\ r.protocol = (IF u.scheme \in Protocols THEN u.scheme ELSE "rtmp")
    /\ r.port = (IF u.port = "1935" THEN 1935 ELSE 0)
    /\ r.app = (IF u.slist THEN Tail(SubSeq(UrlOf(u), Find(UrlOf(u), "/", 1), Len(UrlOf(u))))
                ELSE Tail(Join(u.app)))
    /\ r.playpath = StreamName(u.path, u.slist) \o (IF u.slist \/ u.path = <<>> THEN <<>> ELSE u.query)
\* A URL "rtmp://host[:port]/app[/appinstance][/...]" is taken apart into what it
\* was made of: the port unless it is too large, the application, and the stream
\* name in the format the comment of RTMP_ParsePlaypath gives.
UrlParts ==
    job.kind = "url" => LinkHasParts(RTMP_ParseURL(job.input.scheme, UrlOf(job.input)), job.input)

\* r: the link after the options o to url, whose application is x.
LinkHasOptions(r, o, url) ==
    LET app == LastSet(o, "app", <<"x">>)
    IN /\ r.ok /\ r.extras = o.conn /\ r.edepth = 0
       /\ r.str["app"] = app
       /\ \A n \in OPT_STR \ {"app", "tcUrl"} : r.str[n] = LastSet(o, n, <<>>)
       /\ r.str["tcUrl"] = LastSet(o, "tcUrl", IF LastSet(o, "app", <<>>) = <<>> THEN url
                                               ELSE <<"x", "x", ":", "0", "/">> \o app)
       /\ r.int["buffer"] = (IF LastSet(o, "buffer", <<>>) = <<>> THEN 30000 ELSE 1935)
       /\ ("live" \in r.flags) = \E i \in DOMAIN o.set :
              o.set[i].name \in {"live", "LIVE"} /\ o.set[i].value # <<"x">>
       /\ ("FTCU" \in r.flags) = (LastSet(o, "app", <<>>) # <<>> /\ LastSet(o, "tcUrl", <<>>) = <<>>)
       /\ r.port = (CASE o.scheme = "rtmps" -> 443 [] o.scheme = "rtmpt" -> 80 [] OTHER -> 1935)
\* Options after a URL, however spaced and escaped, set what they name, the last
\* one counting; the properties of conn end up in Link.extras as they were
\* nested; tcUrl and the port are filled in when nothing gives them.
OptionsSetLink ==
    job.kind = "options" =>
        LET url == <<"x", "x", "/", "x">>
        IN LinkHasOptions(RTMP_SetupURL(job.input.scheme, url \o OptionText(job.input)), job.input, url)

\* Whatever the arguments of conn, each property is a member of an object opened
\* before it and not closed, or of none when none is left open, and the first
\* argument that is unknown or names a property outside of objects ends it:
\* parseAMF never walks into a property that is no object.
ConnObjectsNest ==
    job.kind = "conn" =>
        LET args == [i \in DOMAIN job.input |-> ConnArg(job.input[i])]
            open[i \in 0..Len(args)] ==
                IF i = 0 THEN 0
                ELSE open[i - 1] + (CASE args[i].type = "O" -> 1 [] args[i].type = "close" -> -1 [] OTHER -> 0)
            bad == SelectInSeq([i \in DOMAIN args |-> args[i].type = "unknown" \/ (args[i].name # "" /\ open[i - 1] = 0)],
                               LAMBDA b : b)
            taken == SelectSeq([i \in 1 .. IF bad = 0 THEN Len(args) ELSE bad - 1 |->
                                    [depth |-> IF open[i - 1] > 0 THEN open[i - 1] ELSE 0,
                                     type |-> args[i].type, name |-> args[i].name]],
                               LAMBDA e : e.type # "close")
            r == FoldLeft(LAMBDA link, t : IF link.ok THEN parseAMF(link, t) ELSE link, RTMP_Init, job.input)
            all == Listing(r.extras, 0)
        IN /\ r.ok = (bad = 0) /\ all = taken
           /\ \A i \in 1 .. Len(all) - 1 : all[i + 1].depth > all[i].depth => all[i].type = "O"

\* RTMP_SetupURL leaves in the link what its argument says.
SetupExact == UrlParts /\ OptionsSetLink /\ ConnObjectsNest

\* all: what was read of the packets new (those not repeated), of which the first
\* known decide the file's header (0: nothing does).
FileRead(in, new, known, all) ==
    LET start == SubSeq(new, 1, IF known = 0 THEN Len(new) ELSE known)
        w == FoldLeft(LAMBDA v, piece : RTMP_Write(v, piece).w, [packet |-> [body |-> <<>>], sent |-> <<>>, up |-> 99],
                      all.pieces)
    IN /\ all.ret = 0
       /\ 13 + Len(FlvTags(TagsOf(start))) + 4 <= HEADERBUF =>
             /\ FlattenSeq(all.pieces) = IF known = 0 THEN <<>> ELSE FlvFile(MediaSent(start), TagsOf(new))
             /\ known # 0 /\ in.sizes = <<500>> /\ TagsOf(new) # <<>> => Len(w.sent) = Len(TagsOf(new))
       /\ \A i \in DOMAIN all.pieces : Len(all.pieces[i]) <= Max(ToSet(in.sizes))
\* Whatever the sizes an application reads in, it gets the FLV file with the tags
\* of the packets, repeated ones after a pause and those without content left
\* out, times and tag sizes of FLV packets put right, and a header that names the
\* media known once a packet has a time or both are (nothing if that never
\* happens), as long as the packets up to there fit into HEADERBUF.  Given to
\* RTMP_Write as it was read, the file is sent again tag by tag.
FlvReadExact ==
    job.kind = "read" =>
        LET in == job.input
            r == [Reader(in.packets, in.live) EXCEPT !.m_pausing = IF in.stamp < 0 THEN 0 ELSE 3, !.m_mediaStamp = in.stamp]
            first == SelectInSeq(in.packets, LAMBDA p : p.time > in.stamp)
            Known(new, n) == \/ MediaSent(SubSeq(new, 1, n)) = {"audio", "video"}
                             \/ HasContent(new[n]) /\ (IF in.live THEN new[n].time ELSE Last(new[n].tags).time) > 0
            With(new) == FileRead(in, new, SelectInSeq([n \in DOMAIN new |-> Known(new, n)], LAMBDA k : k),
                                  ReadAll(r, in.sizes, <<>>))
        IN With(IF in.stamp < 0 THEN in.packets ELSE SubSeq(in.packets, first, Len(in.packets)))

\* After RTMP_SendSeek nothing of what came before the server's notification is
\* read any more, neither the rest of a packet already taken nor packets on
\* their way, and what comes after it is read from the start of a tag.
SeekDropsOld ==
    job.kind = "seek" =>
        LET in == job.input
            Sought(r) == RTMP_SendSeek([r EXCEPT !.incoming = @ \o <<in.notify>> \o in.after])
            After(one) ==
                /\ one.r.status = 0 /\ IsPrefix(one.out, FlvFile(MediaSent(<<in.before[1]>>), TagsOf(in.before)))
                /\ FlattenSeq(ReadAll(Sought(one.r), in.sizes, <<>>).pieces) = FlvTags(TagsOf(in.after))
        IN After(RTMP_Read(Reader(in.before, FALSE), Head(in.sizes)))

\* A file cut off after a key frame and resumed goes on with the tag after it and
\* with the file's times, whatever copies of the start the server sends first,
\* unless the metadata differs or too many packets come before the key frame:
\* then nothing is written and the read fails.  (In FLV packets the times are
\* those of the packets, which start from zero.)
ResumeContinues ==
    job.kind = "resume" =>
        LET in == job.input
            rest == SubSeq(in.file, in.at + 1, Len(in.file))
            r == [Reader(in.packets, FALSE) EXCEPT
                     !.flags = {"RESUME"}, !.nResumeTS = in.file[in.at].time, !.initialFrame = in.file[in.at].body,
                     !.metaHeader = IF in.file[1].type = META THEN in.file[1].body ELSE <<>>]
            Continues(all) ==
                IF in.early > MAX_IGNORED_FRAMES \/ in.differs THEN all.pieces = <<>> /\ all.ret = -1
                ELSE /\ all.ret = 0
                     /\ FlattenSeq(all.pieces) =
                            FlvTags(IF ~in.chunked THEN rest
                                    ELSE [i \in DOMAIN rest |-> [rest[i] EXCEPT !.time = @ - rest[1].time]])
        IN Continues(ReadAll(r, in.sizes, <<>>))

\* Reading goes on at the right place, without repeating or losing a tag.
PlaceFound == SeekDropsOld /\ ResumeContinues

\* An FLV file written in pieces that end after a tag or inside the content of one
\* is sent as the packets it is made of, metadata as @setDataFrame, each call
\* taking all of its piece, until the connection fails.
FlvWritten ==
    job.kind = "write" =>
        LET in == job.input
            Step(v, piece) == LET one == RTMP_Write(v.w, piece)
                              IN IF v.ok THEN [w |-> one.w, ok |-> one.ret = Len(piece), failed |-> one.ret = -1] ELSE v
            end == FoldLeft(Step, [w |-> [packet |-> [body |-> <<>>], sent |-> <<>>, up |-> in.up], ok |-> TRUE, failed |-> FALSE],
                            in.pieces)
            count == IF in.up < Len(in.tags) THEN in.up ELSE Len(in.tags)
        IN /\ end.ok = (in.up >= Len(in.tags)) /\ end.failed = ~end.ok
           /\ Len(end.w.sent) = count
           /\ \A i \in 1..count :
                 LET p == end.w.sent[i]
                     t == in.tags[i]
                 IN /\ p.type = t.type /\ p.time = t.time /\ Len(p.body) = p.size
                    /\ p.body = (IF t.type = META THEN <<2, 0, 13>> \o av_setDataFrame ELSE <<>>) \o t.body
                    /\ p.large = (t.type = META \/ (t.type \in {AUDIO, VIDEO} /\ t.time = 0))
==============================================================================
