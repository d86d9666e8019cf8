------------------------------ MODULE RtmpChunk ------------------------------
(***************************************************************************)
(* The chunk layer of librtmp, both ends of one connection: the sender     *)
(* runs RTMP_SendPacket, the receiver RTMP_ReadPacket.  A packet becomes   *)
(* one chunk with a header of 12, 8, 4 or 1 bytes and as many 1-byte       *)
(* continuation chunks as its body needs; whatever a short header leaves   *)
(* out is taken from the packet before it on the same channel.             *)
(*                                                                         *)
(* Time stamps are 32 bits with a 24-bit field and an extension; here they *)
(* are modulo TsMod with the marker value TsExt in place of 0xffffff.      *)
(***************************************************************************)
EXTENDS Integers, Sequences

CONSTANTS
    Channel,        \* chunk stream ids
    Type,           \* packet types
    MaxSize,        \* bound: largest body
    Info,           \* stream ids (m_nInfoField2)
    ChunkSize,      \* m_outChunkSize of one end, m_inChunkSize of the other
    TsMod, TsExt,   \* see above
    MaxWire,        \* bound: packets in flight
    Null            \* no packet stored

ASSUME ChunkAssumption ==
    /\ MaxSize \in Nat /\ MaxWire \in Nat
    /\ ChunkSize \in Nat \ {0}
    /\ TsMod \in Nat /\ TsExt \in 1..(TsMod - 1)
    /\ 0 \in Info

LARGE == 0
MEDIUM == 1
SMALL == 2
MINIMUM == 3

Time == 0..(TsMod - 1)

VARIABLES
    channelsOut,        \* m_vecChannelsOut: per channel, the packet sent last
    wire,               \* chunks written and not yet read
    channelsIn,         \* m_vecChannelsIn: per channel, the packet being read, or the last one
    channelTimestamp,   \* m_channelTimestamp
    pending,            \* history: the packets in flight, as sent
    got,                \* history: how the packet read last compares with what was sent
    streamId,           \* history: per channel, the stream id of the last full header
    field,              \* history: per channel, the time of the last explicit header
    drift               \* history: per channel, did a 1-byte header start a packet
                        \* after a non-zero field, with no full header since?

vars == <<channelsOut, wire, channelsIn, channelTimestamp, pending, got,
          streamId, field, drift>>

Packets == [ch: Channel, type: Type, size: 0..MaxSize, ts: Time, info: Info]

\* What the receiver stores of a channel: the packet, its progress, is its time
\* absolute; and that structure as the callers clear it.
Stored == [type: Type \cup {Null}, size: 0..MaxSize, ts: Time, info: Info, read: 0..MaxSize, abs: BOOLEAN]
Blank == [type |-> Null, size |-> 0, ts |-> 0, info |-> 0, read |-> 0, abs |-> FALSE]

\* A null pointer is no packet.
ASSUME NullAssumption == Null \notin Packets \cup Stored

Init == /\ channelsOut = [c \in Channel |-> Null]
        /\ wire = <<>>
        /\ channelsIn = [c \in Channel |-> Null]
        /\ channelTimestamp = [c \in Channel |-> 0]
        /\ pending = <<>>
        /\ got = [framing |-> TRUE, time |-> TRUE, exact |-> TRUE]
        /\ streamId = [c \in Channel |-> 0]
        /\ field = [c \in Channel |-> 0]
        /\ drift = [c \in Channel |-> FALSE]

-----------------------------------------------------------------------------
\* HeaderType that compares the size only.
HeaderType_SizeOnly(prev, p, h) ==
    IF prev = Null \/ h = LARGE THEN h
    ELSE LET h1 == IF prev.size = p.size THEN SMALL ELSE h
         IN  IF prev.ts = p.ts /\ h1 = SMALL THEN MINIMUM ELSE h1

\* The header the packet is sent with: a MEDIUM one shrinks when it repeats the
\* size and type of the packet before it, and once more when it repeats its time.
HeaderType(prev, p, h) ==
    IF prev = Null \/ h = LARGE THEN h
    ELSE LET h1 == IF prev.size = p.size /\ prev.type = p.type THEN SMALL ELSE h
         IN  IF prev.ts = p.ts /\ h1 = SMALL THEN MINIMUM ELSE h1

\* Delta that is always relative.
Delta_Relative(prev, p, h) == LET last == IF prev = Null THEN 0 ELSE prev.ts
                              IN  (p.ts - last + TsMod) % TsMod

\* Delta in signed arithmetic.
Delta_Signed(prev, p, h) == p.ts - (IF prev = Null \/ h = LARGE THEN 0 ELSE prev.ts)

\* The time a header carries: relative to the packet before unless LARGE.
Delta(prev, p, h) == LET last == IF prev = Null \/ h = LARGE THEN 0 ELSE prev.ts
                     IN  (p.ts - last + TsMod) % TsMod

\* The marker is written for a time at or above it, and the whole time after it.
TimeField(t) == [short |-> IF t > TsExt THEN TsExt ELSE t,
                 ext   |-> IF t >= TsExt THEN t ELSE Null]

\* Bytes of body in the i-th chunk of a packet.
ChunkLen(size, i) == LET left == size - (i - 1) * ChunkSize
                     IN  IF left < ChunkSize THEN left ELSE ChunkSize

Chunks(size) == IF size = 0 THEN 1 ELSE (size + ChunkSize - 1) \div ChunkSize

\* Everything written for packet p with header type h.
Encode(p, h, t) ==
    [i \in 1..Chunks(p.size) |->
        [fmt  |-> IF i = 1 THEN h ELSE MINIMUM,
         ch   |-> p.ch,
         time |-> TimeField(t),
         size |-> p.size, type |-> p.type, info |-> p.info,
         len  |-> ChunkLen(p.size, i)]]

\* RTMP_SendPacket of p with the header type h its caller asked for.
RTMP_SendPacket(p, h) ==
    LET prev == channelsOut[p.ch]
        h1   == HeaderType(prev, p, h)
        t    == Delta(prev, p, h1)
        id   == IF h1 = LARGE THEN p.info ELSE streamId[p.ch]
        off  == CASE h1 = LARGE -> FALSE
                  [] h1 = MINIMUM -> drift[p.ch] \/ field[p.ch] # 0
                  [] OTHER -> drift[p.ch]
    IN  /\ Len(pending) < MaxWire
        /\ wire' = wire \o Encode(p, h1, t)
        /\ channelsOut' = [channelsOut EXCEPT ![p.ch] = p]
        /\ field' = [field EXCEPT ![p.ch] = IF h1 = MINIMUM THEN @ ELSE t]
        /\ drift' = [drift EXCEPT ![p.ch] = off]
        /\ streamId' = [streamId EXCEPT ![p.ch] = id]
        /\ pending' = Append(pending, [packet |-> [p EXCEPT !.info = id], exact |-> ~off])
        /\ UNCHANGED <<channelsIn, channelTimestamp, got>>

-----------------------------------------------------------------------------
\* What the receiver knows of the packet once it has parsed the header of c.
Parsed(c) ==
    LET stored == channelsIn[c.ch]
        base == CASE c.fmt = LARGE -> [Blank EXCEPT !.abs = TRUE]
                  [] c.fmt # LARGE /\ stored = Null -> Blank
                  [] OTHER -> stored
        timed == IF c.fmt = MINIMUM THEN base
                 ELSE [base EXCEPT !.ts = IF c.time.short = TsExt THEN c.time.ext
                                                                  ELSE c.time.short]
        sized == IF c.fmt \in {SMALL, MINIMUM} THEN timed
                 ELSE [timed EXCEPT !.size = c.size, !.type = c.type, !.read = 0]
    IN  IF c.fmt = LARGE THEN [sized EXCEPT !.info = c.info] ELSE sized

\* Wanted without the limit of the last chunk.
Wanted_FullChunk(p) == IF p.size = 0 THEN 0 ELSE ChunkSize

\* Body bytes the receiver takes off the wire.
Wanted(p) == IF p.size - p.read < ChunkSize THEN p.size - p.read ELSE ChunkSize

\* RTMP_ReadPacket: one chunk; the packet is complete when all of it was read.
RTMP_ReadPacket ==
    /\ wire # <<>>
    /\ LET c == Head(wire)
           parsed == Parsed(c)
           p == [parsed EXCEPT !.read = @ + Wanted(parsed)]
           ready == p.read = p.size
           ts == IF p.abs THEN p.ts ELSE (p.ts + channelTimestamp[c.ch]) % TsMod
       IN  /\ channelsIn' = [channelsIn EXCEPT ![c.ch] =
                                IF ready THEN [p EXCEPT !.read = 0, !.abs = FALSE] ELSE p]
           /\ IF ready
              THEN /\ channelTimestamp' = [channelTimestamp EXCEPT ![c.ch] = ts]
                   /\ got' = LET sent == Head(pending).packet
                             IN  [framing |-> /\ sent.ch = c.ch /\ sent.type = p.type
                                              /\ sent.size = p.size /\ sent.info = p.info,
                                  time    |-> sent.ts = ts,
                                  exact   |-> Head(pending).exact]
                   /\ pending' = Tail(pending)
              ELSE UNCHANGED <<channelTimestamp, got, pending>>
    /\ wire' = Tail(wire)
    /\ UNCHANGED <<channelsOut, streamId, field, drift>>

-----------------------------------------------------------------------------
\* Types: both ends' memory per channel, the wire, what is pending and what was got.
TypeOK ==
    /\ channelsOut \in [Channel -> Packets \cup {Null}]
    /\ channelsIn \in [Channel -> Stored \cup {Null}]
    /\ \A c \in Channel : channelsIn[c] # Null => channelsIn[c].read <= channelsIn[c].size
    /\ channelTimestamp \in [Channel -> Time]
    /\ pending \in Seq([packet: Packets, exact: BOOLEAN])
    /\ field \in [Channel -> Time] /\ drift \in [Channel -> BOOLEAN]

\* The receiver takes exactly the bytes each chunk holds: it never runs into
\* the next header or stops short of it, however headers were shortened.
InSync == wire # <<>> => Wanted(Parsed(Head(wire))) = Head(wire).len

\* Packets arrive complete, in order, with the channel, type and size they were
\* sent with and the stream id of the channel's last full header; both ends stay
\* well formed and in step.
FramingExact == TypeOK /\ InSync /\ got.framing

\* The time stamp arrives as sent, on either side of the extension marker and
\* across wrap-around, unless a 1-byte header that repeats a non-zero field has
\* started a packet since the last full header.
TimestampUnlessDrift == got.exact => got.time
=============================================================================
