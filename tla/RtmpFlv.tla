------------------------------- MODULE RtmpFlv -------------------------------
(***************************************************************************)
(* rtmp.c: RTMP_Read, which gives an application the media packets of a    *)
(* session as an FLV file in pieces of any size, and RTMP_Write, which     *)
(* takes such a file.  r is the part of the session they use (m_read, the  *)
(* pause state and the packets still to come); r.buf holds the bytes that  *)
(* did not fit into the application's buffer.  A packet has a type, a      *)
(* time, its bytes (times stay below 2^31) and av, the kinds of media its  *)
(* metadata announces; an invocation has a status code (code).             *)
(***************************************************************************)
EXTENDS Amf

CONSTANTS HEADERBUF,          \* bytes set aside for the start of the file
          MAX_IGNORED_FRAMES  \* packets skipped while looking for the frame to resume at

AUDIO == 8
VIDEO == 9
META == 18
FLV == 22
RTMP_READ == [IGNORE |-> 0, EOF |-> -1, ERROR |-> -2, COMPLETE |-> -3]

MediaOf(type) == CASE type = AUDIO -> {"audio"} [] type = VIDEO -> {"video"} [] OTHER -> {}
DataType(media) == (IF "audio" \in media THEN 4 ELSE 0) + (IF "video" \in media THEN 1 ELSE 0)

\* The bytes of s from one position to another, or to its end.
Part(s, from, to) == SubSeq(s, from, IF to > Len(s) THEN Len(s) ELSE to)

\* The tag at offset pos of the bytes of FLV tags: its size, its time.
DataSize(b, pos) == AMF_DecodeInt24(b, pos + 1)
TagTime(b, pos) == AMF_DecodeInt24(b, pos + 4) + b[pos + 8] * 16777216
TimeBytes(t) == AMF_EncodeInt24(3, t) \o <<(t \div 16777216) % 256>>

-----------------------------------------------------------------------------
\* What RTMP_Close leaves of the reader; timestamp and m_pausing stay.
Closed(r) == [r EXCEPT !.incoming = <<>>, !.dataType = {}, !.flags = {}, !.status = 0, !.nResumeTS = 0,
                       !.nIgnoredFrameCounter = 0, !.nIgnoredFlvFrameCounter = 0]

\* The time of the last audio or video tag among FLV tags, or t.
RECURSIVE LastMediaTime(_, _, _)
LastMediaTime(b, pos, t) ==
    IF pos + 11 >= Len(b) \/ pos + 11 + DataSize(b, pos) + 4 > Len(b) THEN t
    ELSE LastMediaTime(b, pos + 15 + DataSize(b, pos),
                       IF b[pos + 1] \in {AUDIO, VIDEO} THEN TagTime(b, pos) ELSE t)

\* A packet of the server: what it changes.
RTMP_ClientPacket(r, p) ==
    CASE p.code = "NetStream.Play.Complete" -> Closed(r)
      [] p.code = "NetStream.Seek.Notify" -> [r EXCEPT !.flags = @ \ {"SEEKING"}]
      [] p.type = META -> [r EXCEPT !.dataType = @ \union p.av]
      [] OTHER -> [r EXCEPT !.dataType = @ \union p.av,
                            !.m_mediaStamp = CASE r.m_pausing # 0 -> @
                                               [] p.type = FLV -> LastMediaTime(p.body, 0, p.time)
                                               [] OTHER -> p.time]

\* After a pause the server repeats packets that have been delivered.
Repeated(r, p) == r.m_pausing = 3 /\ p.time <= r.m_mediaStamp

\* The next media packet: has is 0 if there is none, 2 if the stream is complete.
RECURSIVE RTMP_GetNextMediaPacket(_)
RTMP_GetNextMediaPacket(r) ==
    IF r.incoming = <<>> THEN [has |-> 0, packet |-> <<>>, r |-> Closed(r)]
    ELSE LET p == Head(r.incoming)
             s == RTMP_ClientPacket([r EXCEPT !.incoming = Tail(@)], p)
         IN IF p.code = "NetStream.Seek.Notify" \/ Repeated(s, p) THEN RTMP_GetNextMediaPacket(s)
            ELSE [has |-> IF p.code = "NetStream.Play.Complete" THEN 2 ELSE 1, packet |-> p,
                  r |-> [s EXCEPT !.m_pausing = IF @ = 3 THEN 0 ELSE @]]

-----------------------------------------------------------------------------
\* Among FLV tags, the frame the file ended with: whether it is there, and how
\* many bytes lead up to and over it (none if the tag does not end in the packet).
RECURSIVE KeyframeSearch(_, _, _)
KeyframeSearch(r, b, pos) ==
    LET end == pos + 11 + DataSize(b, pos) IN
    IF pos + 11 >= Len(b) THEN [got |-> FALSE, skip |-> 0]
    ELSE IF b[pos + 1] = r.initialFrameType /\ TagTime(b, pos) = r.nResumeTS
         THEN [got |-> Part(b, pos + 12, end) = r.initialFrame,
               skip |-> IF Part(b, pos + 12, end) = r.initialFrame /\ end + 4 <= Len(b) THEN end + 4 ELSE 0]
    ELSE IF b[pos + 1] = r.initialFrameType /\ r.nResumeTS < TagTime(b, pos) THEN [got |-> FALSE, skip |-> 0]
    ELSE KeyframeSearch(r, b, end + 4)

Ignored(r) == [ret |-> RTMP_READ.IGNORE, r |-> r, body |-> <<>>]
\* A packet skipped because the frame to resume at has not come yet.
Skipped(r, counter) ==
    [ret |-> IF r[counter] >= MAX_IGNORED_FRAMES THEN RTMP_READ.ERROR ELSE RTMP_READ.IGNORE,
     r |-> [r EXCEPT ![counter] = @ + 1], body |-> <<>>]

\* Mutant: the frames at time zero are kept, the first keyframe's copies included.
ResumeKeepsZero(r, p) ==
    IF p.time = 0 /\ p.type = r.initialFrameType /\ p.body = r.initialFrame
    THEN Ignored([r EXCEPT !.flags = @ \union {"GOTKF"}])
    ELSE IF "GOTKF" \notin r.flags THEN Skipped(r, "nIgnoredFrameCounter")
    ELSE [ret |-> 1, r |-> r, body |-> p.body]
\* A file is being resumed: everything up to the frame it ended with, and the
\* copies of it at time zero, must not be written again.  ret 1: the packet is
\* wanted, as far as body goes.
Resume(r, p) ==
    LET start == p.time = 0 /\ r.initialFrame # <<>>
        search == start /\ p.type = FLV
        found == KeyframeSearch(r, p.body, 0)
        got == r.flags \union (IF search /\ found.got THEN {"GOTFLVK"} ELSE {})
        flags == IF p.time > 0 /\ got \intersect {"GOTKF", "GOTFLVK"} # {} THEN got \union {"GOTKF", "GOTFLVK"} ELSE got
        s == [r EXCEPT !.flags = flags]
    IN IF p.time = 0 /\ p.type = META /\ r.metaHeader # <<>> /\ p.body # r.metaHeader
       THEN [ret |-> RTMP_READ.ERROR, r |-> r, body |-> <<>>]
       ELSE IF start /\ p.type = r.initialFrameType /\ p.body = r.initialFrame
       THEN Ignored([r EXCEPT !.flags = @ \union {"GOTKF"}])
       ELSE IF search /\ "GOTFLVK" \notin got THEN Ignored(r)
       ELSE IF p.type # FLV /\ "GOTKF" \notin flags THEN Skipped(s, "nIgnoredFrameCounter")
       ELSE IF p.type = FLV /\ "GOTFLVK" \notin flags THEN Skipped(s, "nIgnoredFlvFrameCounter")
       ELSE IF p.type # FLV /\ "NO_IGNORE" \notin flags /\ p.time = 0 THEN Ignored(s)
       ELSE [ret |-> 1,
             r |-> IF p.type # FLV THEN [s EXCEPT !.flags = @ \union {"NO_IGNORE"}] ELSE s,
             body |-> IF search THEN SubSeq(p.body, found.skip + 1, Len(p.body)) ELSE p.body]

-----------------------------------------------------------------------------
\* A tag of the file: header, bytes, size of the tag.
FlvTag(type, time, body) ==
    <<type>> \o AMF_EncodeInt24(3, Len(body)) \o TimeBytes(time) \o <<0, 0, 0>> \o body
        \o AMF_EncodeInt32(4, 11 + Len(body))

\* Mutant: a last tag size that is missing is not added.
FixTagSizesOnly(rest, d) == IF Len(rest) < 4 THEN rest ELSE AMF_EncodeInt32(4, 11 + d)
\* The tag size after a tag of d bytes, as it should be; if it is missing it is
\* added.  (Of one that is cut, the bytes that are there are not counted off.)
FixTagSize(rest, d) ==
    AMF_EncodeInt32(4, 11 + d) \o (IF Len(rest) < 4 THEN [i \in DOMAIN rest |-> 0] ELSE <<>>)

\* FLV tags with their times moved by delta and their sizes put right; a tag
\* that goes on past the end is left as it is.  time: that of the last tag.
RECURSIVE FixTags(_, _, _)
FixTags(b, delta, time) ==
    IF Len(b) <= 11 THEN [bytes |-> b, time |-> time, media |-> {}]
    ELSE LET d == DataSize(b, 0)
             t == TagTime(b, 0) + delta
             head == SubSeq(b, 1, 4) \o TimeBytes(t) \o SubSeq(b, 9, 11)
             rest == SubSeq(b, 12 + d, Len(b))
             next == FixTags(SubSeq(b, 16 + d, Len(b)), delta, t)
         IN IF 11 + d > Len(b)
            THEN [bytes |-> head \o SubSeq(b, 12, Len(b)), time |-> t, media |-> MediaOf(b[1])]
            ELSE [bytes |-> head \o SubSeq(b, 12, 11 + d) \o FixTagSize(rest, d) \o next.bytes,
                  time |-> next.time, media |-> MediaOf(b[1]) \union next.media]

Tags(r, p, body) ==
    IF p.type # FLV THEN [bytes |-> FlvTag(p.type, r.nResumeTS + p.time, body), time |-> r.nResumeTS + p.time, media |-> {}]
    ELSE FixTags(body, IF Len(body) <= 11 THEN 0 ELSE p.time - TagTime(body, 0), p.time)

\* Whether a packet is written, and how much of it: not one that is small, comes
\* before a seek has been notified, or precedes the place to resume at.
Wanted(r, p) ==
    IF Len(p.body) <= (CASE p.type = VIDEO -> 5 [] p.type = AUDIO -> 1 [] OTHER -> -1) \/ "SEEKING" \in r.flags
    THEN Ignored(r)
    ELSE IF "RESUME" \in r.flags THEN Resume(r, p)
    ELSE [ret |-> 1, r |-> r, body |-> p.body]

Ends(r, ret) == [ret |-> ret, r |-> r, out |-> <<>>, recopy |-> FALSE]
\* The tags into a buffer of buflen bytes; what does not fit is kept, in a buffer
\* of its own (recopy), whose size is computed without looking at the tags.
Copied(r, p, tags, recopy, buflen) ==
    [ret |-> Len(tags.bytes), out |-> Part(tags.bytes, 1, buflen), recopy |-> recopy,
     r |-> [r EXCEPT !.dataType = @ \union tags.media,
                     !.timestamp = IF r.live THEN p.time ELSE tags.time,
                     !.buf = IF recopy THEN SubSeq(tags.bytes, buflen + 1, Len(tags.bytes)) ELSE @]]
Written(p, v, buflen) ==
    IF v.ret <= 0 THEN Ends(v.r, v.ret)
    ELSE Copied(v.r, p, Tags(v.r, p, v.body), Len(v.body) + (IF p.type = FLV THEN 0 ELSE 15) + 4 > buflen, buflen)
Received(n, buflen) ==
    CASE n.has = 0 -> Ends(n.r, RTMP_READ.EOF)
      [] n.has = 2 -> Ends(n.r, RTMP_READ.COMPLETE)
      [] n.has = 1 -> Written(n.packet,
                              Wanted([n.r EXCEPT !.dataType = @ \union MediaOf(n.packet.type)], n.packet), buflen)
\* One packet into a buffer of buflen bytes: ret is its size in the file or one
\* of RTMP_READ.
Read_1_Packet(r, buflen) == Received(RTMP_GetNextMediaPacket(r), buflen)

-----------------------------------------------------------------------------
flvHeader == <<70, 76, 86, 1, 0, 0, 0, 0, 9, 0, 0, 0, 0>>

\* The start of the file is put together: bytes with the kinds of media known.
StartDone(r, bytes) ==
    [ret |-> 0, r |-> [r EXCEPT !.buf = [bytes EXCEPT ![5] = DataType(r.dataType)], !.flags = @ \union {"HEADER"}]]
\* The start of the file: packets until one has a time or both kinds of media
\* have come.  The first that does not fit ends it, and overwrites the last
\* thirteen bytes there are.  n: the next packet, got: the bytes so far.
RECURSIVE ReadStart(_, _)
StartWith(got, n) ==
    IF n.ret < 0 THEN [ret |-> n.ret, r |-> [n.r EXCEPT !.buf = <<>>, !.status = n.ret]]
    ELSE IF n.recopy THEN StartDone(n.r, SubSeq(flvHeader \o got, 1, Len(got)) \o n.out \o n.r.buf)
    ELSE IF n.r.dataType = {"audio", "video"} THEN StartDone(n.r, flvHeader \o got \o n.out)
    ELSE ReadStart(n.r, got \o n.out)
ReadStart(r, got) ==
    IF r.timestamp # 0 THEN StartDone(r, flvHeader \o got)
    ELSE StartWith(got, Read_1_Packet(r, HEADERBUF - 13 - Len(got)))

\* Packets into the rest of the buffer until one is not ignored.
RECURSIVE ReadLoop(_, _)
LoopWith(size, n) ==
    IF n.ret < 0 THEN [r |-> [n.r EXCEPT !.status = n.ret], out |-> <<>>]
    ELSE IF n.ret = 0 THEN ReadLoop(n.r, size)
    ELSE [r |-> n.r, out |-> n.out]
ReadLoop(r, size) ==
    IF size = 0 THEN [r |-> r, out |-> <<>>] ELSE LoopWith(size, Read_1_Packet(r, size))

\* Mutant: a seek leaves the rest of the last packet to be read.
KeepWhatIsLeft(r) == r
\* A seek drops what is left of the last packet.
DropWhatIsLeft(r) == IF "SEEKING" \in r.flags THEN [r EXCEPT !.buf = <<>>] ELSE r

\* The bytes of one call, ret -1 for an error: what is left of the last packet,
\* then more packets if there is room.
ReadStops(r) == [r |-> r, out |-> <<>>, ret |-> IF r.status = RTMP_READ.ERROR THEN -1 ELSE 0]
ReadMore(left, more) == [r |-> more.r, out |-> left \o more.out, ret |-> Len(left) + Len(more.out)]
ReadFrom(r, size) ==
    ReadMore(Part(r.buf, 1, size),
             ReadLoop([r EXCEPT !.buf = SubSeq(@, size + 1, Len(@))], size - Len(Part(r.buf, 1, size))))
ReadAfter(start, size) ==
    IF start.ret < 0 THEN ReadStops(start.r) ELSE ReadFrom(DropWhatIsLeft(start.r), size)
RTMP_Read(r, size) ==
    IF r.status < 0 THEN ReadStops(r)
    ELSE ReadAfter(IF r.flags \intersect {"HEADER", "RESUME"} = {} THEN ReadStart(r, <<>>)
                   ELSE [ret |-> 0, r |-> [r EXCEPT !.flags = @ \union {"HEADER"}]], size)

\* The effect on the reader of RTMP_SendSeek.
RTMP_SendSeek(r) == [r EXCEPT !.flags = @ \union {"SEEKING"}, !.nResumeTS = 0]

-----------------------------------------------------------------------------
av_setDataFrame == [i \in 1..13 |-> 64 + i]

\* Mutant: the byte above the 24 bits of the time is left out.
WriteTimeShort(b, at) == AMF_DecodeInt24(b, at + 4)
WriteTime(b, at) == AMF_DecodeInt24(b, at + 4) + b[at + 8] * 16777216

\* The packet a tag header starts; metadata is sent as @setDataFrame.
StartPacket(b, at) ==
    [type |-> b[at + 1], time |-> WriteTime(b, at),
     size |-> AMF_DecodeInt24(b, at + 1) + (IF b[at + 1] = META THEN 16 ELSE 0),
     large |-> (b[at + 1] \in {AUDIO, VIDEO} /\ WriteTime(b, at) = 0) \/ b[at + 1] = META,
     body |-> IF b[at + 1] = META THEN AMF_EncodeString(18, av_setDataFrame) ELSE <<>>]

\* w: the packet being put together (m_write), those sent, and how many more can
\* be sent before the connection fails.  at: bytes of the buffer used.
RECURSIVE WriteLoop(_, _, _)
WriteLoop(w, buf, at) ==
    LET tag == IF Part(buf, at + 1, at + 3) = <<70, 76, 86>> THEN at + 13 ELSE at
        new == w.packet.body = <<>>
        p == IF new THEN StartPacket(buf, tag) ELSE w.packet
        from == IF new THEN tag + 11 ELSE at
        to == IF p.size - Len(p.body) > Len(buf) - from THEN Len(buf) ELSE from + p.size - Len(p.body)
        full == [p EXCEPT !.body = @ \o SubSeq(buf, from + 1, to)]
        sent == [w EXCEPT !.packet.body = <<>>, !.sent = Append(@, full), !.up = @ - 1]
    IN IF at = Len(buf) THEN [w |-> w, ret |-> Len(buf)]
       ELSE IF new /\ Len(buf) < 11 THEN [w |-> w, ret |-> 0]
       ELSE IF Len(full.body) < p.size THEN WriteLoop([w EXCEPT !.packet = full], buf, to)
       ELSE IF w.up = 0 THEN [w |-> [w EXCEPT !.packet.body = <<>>], ret |-> -1]
       ELSE IF to + 4 > Len(buf) THEN [w |-> sent, ret |-> 2 * Len(buf) - to - 4]
       ELSE WriteLoop(sent, buf, to + 4)
RTMP_Write(w, buf) == WriteLoop(w, buf, 0)
==============================================================================
