---------------------------- MODULE RtmpChunkProofs ----------------------------
(***************************************************************************)
(* Proofs about RtmpChunk and RtmpAppStream, for any chunk size, packet    *)
(* sizes, time stamps and number of packets in flight: what is sent        *)
(* arrives as it was sent.                                                 *)
(***************************************************************************)
EXTENDS RtmpAppStream, SequenceTheorems, TLAPS

-----------------------------------------------------------------------------
\* The inductive invariant.  Between the ends the channels pass through one
\* state per packet in flight: v[0] is what the receiver has, v[i] what it will
\* have after the i-th pending packet, the last what the sender counts on.

\* What a channel remembers: the packet before, the time field of the last
\* explicit header, and whether the time is still the sender's.
Memory == [size : 0..MaxSize, type : Type \union {Null}, info : Info, field : Time, time : Time, exact : BOOLEAN]

\* The memory after packet p, whose header is d.h with time field d.t.
After(u, p, d) ==
    [size |-> p.size, type |-> p.type, info |-> p.info,
     field |-> IF d.h = MINIMUM THEN u.field ELSE d.t,
     time |-> p.ts,
     exact |-> IF d.h = LARGE THEN TRUE ELSE u.exact /\ (d.h = MINIMUM => u.field = 0)]

\* The header d says of p what the memory u does not.
Fits(u, p, d) ==
    /\ d.h = LARGE => d.t = p.ts
    /\ d.h # LARGE => p.info = u.info /\ d.t = (p.ts - u.time + TsMod) % TsMod
    /\ d.h \in {SMALL, MINIMUM} => p.size = u.size /\ p.type = u.type
    /\ d.h = MINIMUM => p.ts = u.time

\* The chunk c is the k-th of packet p.
IsChunk(c, p, d, k) ==
    /\ c.fmt = (IF k = 1 THEN d.h ELSE MINIMUM)
    /\ c.ch = p.ch /\ c.time = TimeField(d.t) /\ c.size = p.size /\ c.type = p.type
    /\ c.len = ChunkLen(p.size, k)
    /\ c.fmt = LARGE => c.info = p.info

Chunk == [fmt : 0..3, ch : Channel, time : [short : Time, ext : Time \union {Null}],
          size : 0..MaxSize, type : Type, info : Info, len : Int]

Types ==
    /\ channelsOut \in [Channel -> Packets \cup {Null}]
    /\ channelsIn \in [Channel -> Stored \union {Null}]
    /\ \A c \in Channel : channelsIn[c] # Null => channelsIn[c].read <= channelsIn[c].size
    /\ channelTimestamp \in [Channel -> Time]
    /\ pending \in Seq([packet : Packets, exact : BOOLEAN])
    /\ streamId \in [Channel -> Info] /\ field \in [Channel -> Time] /\ drift \in [Channel -> BOOLEAN]
    /\ wire \in Seq(Chunk)

\* The witnesses: headers hd, the place at[i] of the first chunk of packet i on
\* the wire (before its start when some were read), memories v.
Witness(n, hd, at, v) ==
    /\ hd \in [1..n -> [h : 0..3, t : Time]]
    /\ at \in [1..n + 1 -> Int]
    /\ v \in [0..n -> [Channel -> Memory]]

Laid(n, at) ==
    /\ at[1] <= 1 /\ (n = 0 => at[1] = 1)
    /\ at[n + 1] = Len(wire) + 1
    /\ \A i \in 1..n : at[i + 1] = at[i] + Chunks(pending[i].packet.size) /\ at[i + 1] >= 2

Carried(n, hd, at) ==
    \A i \in 1..n : \A k \in 1..Chunks(pending[i].packet.size) :
        at[i] + k - 1 >= 1 => /\ at[i] + k - 1 <= Len(wire)
                              /\ IsChunk(wire[at[i] + k - 1], pending[i].packet, hd[i], k)

Step(e, d, u, w) == /\ Fits(u[e.packet.ch], e.packet, d)
                    /\ w = [u EXCEPT ![e.packet.ch] = After(u[e.packet.ch], e.packet, d)]
                    /\ e.exact = w[e.packet.ch].exact

Chained(n, hd, v) == \A i \in 1..n : Step(pending[i], hd[i], v[i - 1], v[i])

Sender(u) ==
    \A c \in Channel :
        /\ streamId[c] = u[c].info /\ field[c] = u[c].field /\ drift[c] = ~u[c].exact
        /\ channelsOut[c] = Null => u[c].time = 0
        /\ channelsOut[c] # Null => /\ channelsOut[c].size = u[c].size /\ channelsOut[c].type = u[c].type
                                    /\ channelsOut[c].ts = u[c].time

\* What the receiver has of a channel that is between packets, and of a packet
\* of which k chunks were read.
Rest(x, u) == (IF x = Null THEN Blank ELSE x)
    = [type |-> u.type, size |-> u.size, ts |-> u.field, info |-> u.info, read |-> 0, abs |-> FALSE]
Partial(u, p, d, k) == [type |-> p.type, size |-> p.size, ts |-> After(u, p, d).field, info |-> p.info,
                        read |-> k * ChunkSize, abs |-> d.h = LARGE]

Receiver(n, hd, at, u) ==
    /\ \A c \in Channel : u[c].exact => channelTimestamp[c] = u[c].time
    /\ \A c \in Channel : at[1] = 1 \/ c # pending[1].packet.ch => Rest(channelsIn[c], u[c])
    /\ at[1] < 1 => LET p == pending[1].packet
                    IN  channelsIn[p.ch] = Partial(u[p.ch], p, hd[1], 1 - at[1])

Good(n, hd, at, v) == /\ Witness(n, hd, at, v) /\ Laid(n, at) /\ Carried(n, hd, at)
                      /\ Chained(n, hd, v) /\ Sender(v[n]) /\ Receiver(n, hd, at, v[0])

Inv == /\ Types /\ got.framing /\ (got.exact => got.time)
       /\ \E hd, at, v : Good(Len(pending), hd, at, v)

-----------------------------------------------------------------------------
\* Arithmetic of chunks and times.

LEMMA ChunksIs ==
    ASSUME NEW size \in Nat
    PROVE  /\ Chunks(size) \in Nat /\ Chunks(size) >= 1
           /\ \A k \in 1..Chunks(size) :
                 /\ (k - 1) * ChunkSize \in Nat /\ (k - 1) * ChunkSize <= size
                 /\ ChunkLen(size, k) \in Nat
                 /\ k < Chunks(size) => ChunkLen(size, k) = ChunkSize /\ k * ChunkSize < size
                 /\ (k - 1) * ChunkSize + ChunkLen(size, k) = size <=> k = Chunks(size)
<1> DEFINE q == (size + ChunkSize - 1) \div ChunkSize
<1>1. ChunkSize \in Nat /\ ChunkSize > 0
  BY ChunkAssumption
<1>2. q \in Nat /\ ChunkSize * q <= size + ChunkSize - 1 /\ size + ChunkSize - 1 < ChunkSize * q + ChunkSize
  BY <1>1
<1>3. Chunks(size) = IF size = 0 THEN 1 ELSE q
  BY DEF Chunks
<1> HIDE DEF q
<1>4. size # 0 => q >= 1
  <2>1. q = 0 => ChunkSize * q = 0
    BY <1>1
  <2>2. QED BY <1>1, <1>2, <2>1
<1>5. Chunks(size) \in Nat /\ Chunks(size) >= 1
  BY <1>2, <1>3, <1>4
<1>6. ASSUME NEW k \in 1..Chunks(size)
      PROVE  /\ (k - 1) * ChunkSize \in Nat /\ (k - 1) * ChunkSize <= size
             /\ ChunkLen(size, k) \in Nat
             /\ k < Chunks(size) => ChunkLen(size, k) = ChunkSize /\ k * ChunkSize < size
             /\ (k - 1) * ChunkSize + ChunkLen(size, k) = size <=> k = Chunks(size)
  <2>1. k \in Nat /\ k >= 1 /\ k <= Chunks(size)
    BY <1>5
  <2>2. PICK m : m \in Nat /\ m = (k - 1) * ChunkSize /\ k * ChunkSize = m + ChunkSize
    BY <1>1, <2>1
  <2>3. CASE size = 0
    <3>1. k = 1 /\ Chunks(size) = 1
      BY <1>3, <2>1, <2>3
    <3>2. m = 0
      BY <1>1, <2>2, <3>1
    <3>3. ChunkLen(size, k) = 0
      BY <1>1, <2>2, <2>3, <3>2 DEF ChunkLen
    <3>4. QED BY <2>2, <2>3, <3>1, <3>2, <3>3
  <2>4. CASE size # 0
    <3>1. k <= q
      BY <1>3, <2>1, <2>4
    <3>2. k < q => m + ChunkSize + ChunkSize <= ChunkSize * q
      BY <1>1, <1>2, <2>1, <2>2
    <3>3. k = q => m + ChunkSize = ChunkSize * q
      BY <1>1, <1>2, <2>1, <2>2
    <3>4. ChunkLen(size, k) = IF size - m < ChunkSize THEN size - m ELSE ChunkSize
      BY <2>2 DEF ChunkLen
    <3>5. CASE k < q
      <4>1. m + ChunkSize < size
        BY <1>1, <1>2, <2>2, <3>2, <3>5
      <4>2. QED BY <1>1, <1>3, <2>2, <2>4, <3>4, <3>5, <4>1
    <3>6. CASE k = q
      <4>1. m < size /\ size <= m + ChunkSize
        BY <1>1, <1>2, <2>2, <3>3, <3>6
      <4>2. QED BY <1>1, <1>3, <2>2, <2>4, <3>4, <3>6, <4>1
    <3>7. QED BY <1>2, <2>1, <3>1, <3>5, <3>6
  <2>5. QED BY <2>3, <2>4
<1>7. QED BY <1>5, <1>6

LEMMA TimesAre ==
    ASSUME NEW a \in Time, NEW b \in Time
    PROVE  /\ (a - b + TsMod) % TsMod \in Time
           /\ (((a - b + TsMod) % TsMod) + b) % TsMod = a
           /\ (0 + a) % TsMod = a /\ (a + b) % TsMod \in Time
           /\ (a - 0 + TsMod) % TsMod = a
<1>1. TsMod \in Nat /\ TsMod > 0 /\ a \in 0..TsMod - 1 /\ b \in 0..TsMod - 1
  BY ChunkAssumption DEF Time
<1>2. (a - b + TsMod) % TsMod \in 0..TsMod - 1 /\ (((a - b + TsMod) % TsMod) + b) % TsMod = a
  BY <1>1
<1>3. (0 + a) % TsMod = a /\ (a + b) % TsMod \in 0..TsMod - 1 /\ (a - 0 + TsMod) % TsMod = a
  BY <1>1
<1>4. QED BY <1>2, <1>3 DEF Time

\* What the reader makes of the time field.
LEMMA FieldRead ==
    ASSUME NEW t \in Time
    PROVE  /\ TimeField(t) \in [short : Time, ext : Time \union {Null}]
           /\ (IF TimeField(t).short = TsExt THEN TimeField(t).ext ELSE TimeField(t).short) = t
BY ChunkAssumption DEF TimeField, Time

-----------------------------------------------------------------------------
\* The start.

LEMMA InvInit == Init => Inv
<1> SUFFICES ASSUME Init PROVE Inv
  OBVIOUS
<1>1. 0 \in Info /\ 0 \in Time /\ 0 \in 0..MaxSize
  BY ChunkAssumption DEF Time
<1>2. Types /\ got.framing /\ got.exact /\ got.time
  BY <1>1 DEF Init, Types
<1> DEFINE none == [c \in Channel |-> [size |-> 0, type |-> Null, info |-> 0, field |-> 0, time |-> 0, exact |-> TRUE]]
           hd == [i \in 1..0 |-> [h |-> 0, t |-> 0]]
           at == [i \in 1..0 + 1 |-> 1]
           v == [i \in 0..0 |-> none]
<1>3. none \in [Channel -> Memory]
  BY <1>1 DEF Memory
<1> HIDE DEF none
<1>4. Witness(0, hd, at, v)
  BY <1>3 DEF Witness
<1>5. pending = <<>> /\ Len(pending) = 0 /\ wire = <<>> /\ Len(wire) = 0 /\ at[1] = 1 /\ v[0] = none
  BY DEF Init
<1>6. Laid(0, at) /\ Carried(0, hd, at) /\ Chained(0, hd, v)
  BY <1>5 DEF Laid, Carried, Chained
<1>7. Sender(none)
  BY DEF Init, Sender, none
<1>8. Receiver(0, hd, at, none)
  <2>1. at[1] = 1
    OBVIOUS
  <2> HIDE DEF hd, at
  <2>2. \A c \in Channel : none[c] = [size |-> 0, type |-> Null, info |-> 0, field |-> 0, time |-> 0, exact |-> TRUE]
    BY DEF none
  <2>3. \A c \in Channel : channelsIn[c] = Null /\ channelTimestamp[c] = 0
    BY DEF Init
  <2>4. ASSUME NEW c \in Channel PROVE none[c].time = channelTimestamp[c] /\ Rest(channelsIn[c], none[c])
    <3>1. PICK u : u = none[c] /\ u = [size |-> 0, type |-> Null, info |-> 0, field |-> 0, time |-> 0, exact |-> TRUE]
      BY <2>2
    <3>2. u.size = 0 /\ u.type = Null /\ u.info = 0 /\ u.field = 0 /\ u.time = 0
      BY <3>1
    <3>3. Rest(Null, u)
      BY <3>2 DEF Rest, Blank
    <3>4. QED BY <2>3, <3>1, <3>2, <3>3
  <2>5. QED BY <2>1, <2>4 DEF Receiver
<1> HIDE DEF hd, at, v
<1>9. Good(Len(pending), hd, at, v)
  BY <1>4, <1>5, <1>6, <1>7, <1>8 DEF Good
<1>10. QED BY <1>2, <1>9 DEF Inv

-----------------------------------------------------------------------------
\* A packet is sent.

\* The header is right for the channel's memory, and leaves it as the sender says.
LEMMA Headed ==
    ASSUME Types, NEW u \in [Channel -> Memory], Sender(u), NEW p \in Packets, NEW h \in {LARGE, MEDIUM}
    PROVE  LET prev == channelsOut[p.ch]
               h1 == HeaderType(prev, p, h)
               d == [h |-> h1, t |-> Delta(prev, p, h1)]
               id == IF h1 = LARGE THEN p.info ELSE streamId[p.ch]
               off == CASE h1 = LARGE -> FALSE
                        [] h1 = MINIMUM -> drift[p.ch] \/ field[p.ch] # 0
                        [] OTHER -> drift[p.ch]
               q == [p EXCEPT !.info = id]
               w == After(u[p.ch], q, d)
           IN  /\ d \in [h : 0..3, t : Time] /\ q \in Packets /\ off \in BOOLEAN /\ w \in Memory
               /\ Fits(u[p.ch], q, d)
               /\ w = [size |-> p.size, type |-> p.type, info |-> id,
                       field |-> IF h1 = MINIMUM THEN field[p.ch] ELSE d.t, time |-> p.ts, exact |-> ~off]
<1> DEFINE prev == channelsOut[p.ch]
           h1 == HeaderType(prev, p, h)
           t == Delta(prev, p, h1)
           d == [h |-> h1, t |-> t]
           id == IF h1 = LARGE THEN p.info ELSE streamId[p.ch]
           off == CASE h1 = LARGE -> FALSE
                    [] h1 = MINIMUM -> drift[p.ch] \/ field[p.ch] # 0
                    [] OTHER -> drift[p.ch]
           q == [p EXCEPT !.info = id]
           m == u[p.ch]
           w == After(m, q, d)
<1>1. p.ch \in Channel /\ p.size \in 0..MaxSize /\ p.type \in Type /\ p.ts \in Time /\ p.info \in Info
      /\ p = [ch |-> p.ch, type |-> p.type, size |-> p.size, ts |-> p.ts, info |-> p.info]
  BY DEF Packets
<1>2. m \in Memory /\ m.info = streamId[p.ch] /\ m.field = field[p.ch] /\ drift[p.ch] = ~m.exact
      /\ (prev = Null => m.time = 0)
      /\ (prev # Null => prev.size = m.size /\ prev.type = m.type /\ prev.ts = m.time)
  BY <1>1 DEF Sender
<1>3. m.time \in Time /\ m.field \in Time /\ m.info \in Info /\ m.exact \in BOOLEAN
  BY <1>2 DEF Memory
<1>4. h1 \in {LARGE, MEDIUM, SMALL, MINIMUM} /\ (prev = Null => h1 = h)
  BY DEF HeaderType, LARGE, MEDIUM, SMALL, MINIMUM
<1>5. /\ h1 \in {SMALL, MINIMUM} => prev # Null /\ prev.size = p.size /\ prev.type = p.type
      /\ h1 = MINIMUM => prev # Null /\ prev.ts = p.ts
      /\ h1 = LARGE <=> h = LARGE
  BY DEF HeaderType, LARGE, MEDIUM, SMALL, MINIMUM
<1>6. t = IF h1 = LARGE THEN (p.ts - 0 + TsMod) % TsMod ELSE (p.ts - m.time + TsMod) % TsMod
  BY <1>2 DEF Delta
<1>7. t \in Time /\ (h1 = LARGE => t = p.ts)
  <2>1. (p.ts - 0 + TsMod) % TsMod = p.ts /\ (p.ts - m.time + TsMod) % TsMod \in Time
    BY <1>1, <1>3, TimesAre
  <2> HIDE DEF t, m
  <2>2. QED BY <1>1, <1>6, <2>1
<1> HIDE DEF prev, h1, t
<1>8. id \in Info /\ (h1 # LARGE => id = m.info)
  BY <1>1, <1>2, <1>3
<1> HIDE DEF id
<1>9. off \in BOOLEAN /\ (~off <=> (h1 = LARGE \/ (m.exact /\ (h1 = MINIMUM => m.field = 0))))
  <2>1. drift[p.ch] \in BOOLEAN /\ (drift[p.ch] <=> ~m.exact) /\ field[p.ch] = m.field
    BY <1>2, <1>3
  <2> HIDE DEF m
  <2>2. CASE h1 = LARGE
    BY <2>2 DEF LARGE, MINIMUM
  <2>3. CASE h1 = MINIMUM
    <3>1. off = (drift[p.ch] \/ field[p.ch] # 0)
      BY <2>3 DEF LARGE, MINIMUM
    <3>2. QED BY <2>1, <2>3, <3>1 DEF LARGE, MINIMUM
  <2>4. CASE h1 # LARGE /\ h1 # MINIMUM
    <3>1. off = drift[p.ch]
      BY <2>4
    <3>2. QED BY <2>1, <2>4, <3>1
  <2>5. QED BY <2>2, <2>3, <2>4
<1> HIDE DEF off
<1>10. d \in [h : 0..3, t : Time]
  BY <1>4, <1>7 DEF LARGE, MEDIUM, SMALL, MINIMUM
<1>11. q = [ch |-> p.ch, type |-> p.type, size |-> p.size, ts |-> p.ts, info |-> id]
  BY <1>1
<1>12. q \in Packets /\ q.ch = p.ch /\ q.type = p.type /\ q.size = p.size /\ q.ts = p.ts /\ q.info = id
  BY <1>1, <1>8, <1>11 DEF Packets
<1> HIDE DEF q
<1>13. Fits(m, q, d)
  BY <1>2, <1>5, <1>6, <1>7, <1>8, <1>12 DEF Fits
<1>14. (IF h1 = LARGE THEN TRUE ELSE m.exact /\ (h1 = MINIMUM => m.field = 0)) = ~off
  BY <1>3, <1>9
<1>15. w = [size |-> p.size, type |-> p.type, info |-> id,
            field |-> IF h1 = MINIMUM THEN field[p.ch] ELSE t, time |-> p.ts, exact |-> ~off]
  BY <1>2, <1>12, <1>14 DEF After
<1>16. w \in Memory
  <2> HIDE DEF w
  <2>1. (IF h1 = MINIMUM THEN field[p.ch] ELSE t) \in Time /\ (~off) \in BOOLEAN
    BY <1>2, <1>3, <1>7, <1>9
  <2>2. QED BY <1>1, <1>8, <1>15, <2>1 DEF Memory
<1>17. QED BY <1>9, <1>10, <1>12, <1>13, <1>15, <1>16 DEF prev, h1, t, id, off, q

\* What is written are the chunks of the packet.
LEMMA Encoded ==
    ASSUME NEW p \in Packets, NEW h \in 0..3, NEW t \in Time, NEW id, h = LARGE => id = p.info
    PROVE  /\ Encode(p, h, t) \in Seq(Chunk) /\ Len(Encode(p, h, t)) = Chunks(p.size)
           /\ \A k \in 1..Chunks(p.size) :
                 IsChunk(Encode(p, h, t)[k], [p EXCEPT !.info = id], [h |-> h, t |-> t], k)
<1>1. p.ch \in Channel /\ p.size \in 0..MaxSize /\ p.size \in Nat /\ p.type \in Type /\ p.info \in Info
  BY ChunkAssumption DEF Packets
<1>2. Chunks(p.size) \in Nat /\ \A k \in 1..Chunks(p.size) : ChunkLen(p.size, k) \in Nat
  BY <1>1, ChunksIs
<1> DEFINE chunk(k) == [fmt |-> IF k = 1 THEN h ELSE MINIMUM, ch |-> p.ch, time |-> TimeField(t),
                        size |-> p.size, type |-> p.type, info |-> p.info, len |-> ChunkLen(p.size, k)]
<1>3. Encode(p, h, t) = [k \in 1..Chunks(p.size) |-> chunk(k)]
  BY DEF Encode
<1>4. \A k \in 1..Chunks(p.size) : chunk(k) \in Chunk
  BY <1>1, <1>2, FieldRead DEF Chunk, MINIMUM
<1>5. \A k \in 1..Chunks(p.size) : IsChunk(chunk(k), [p EXCEPT !.info = id], [h |-> h, t |-> t], k)
  BY DEF IsChunk, Packets, LARGE, MINIMUM
<1> HIDE DEF chunk
<1>6. Encode(p, h, t) \in Seq(Chunk) /\ Len(Encode(p, h, t)) = Chunks(p.size)
  BY <1>2, <1>3, <1>4
<1>7. QED BY <1>3, <1>5, <1>6

LEMMA InvSend == ASSUME Inv, NEW p \in Packets, NEW h \in {LARGE, MEDIUM}, RTMP_SendPacket(p, h) PROVE Inv'
<1>1. PICK hd, at, v : Good(Len(pending), hd, at, v)
  BY DEF Inv
<1>2. PICK n : n = Len(pending) /\ n \in Nat
  BY DEF Inv, Types
<1>3. /\ Witness(n, hd, at, v) /\ Laid(n, at) /\ Carried(n, hd, at)
      /\ Chained(n, hd, v) /\ Sender(v[n]) /\ Receiver(n, hd, at, v[0])
  BY <1>1, <1>2 DEF Good
<1>4. PICK u : u = v[n] /\ u \in [Channel -> Memory] /\ Sender(u)
  BY <1>2, <1>3 DEF Witness
<1>5. p.ch \in Channel /\ p.size \in Nat /\ p.size \in 0..MaxSize
  BY ChunkAssumption DEF Packets
\* What the packet and the memory become.
<1> DEFINE h1 == HeaderType(channelsOut[p.ch], p, h)
           t == Delta(channelsOut[p.ch], p, h1)
           id == IF h1 = LARGE THEN p.info ELSE streamId[p.ch]
           off == CASE h1 = LARGE -> FALSE
                    [] h1 = MINIMUM -> drift[p.ch] \/ field[p.ch] # 0
                    [] OTHER -> drift[p.ch]
           q == [p EXCEPT !.info = id]
           d == [h |-> h1, t |-> t]
           w == After(u[p.ch], q, d)
<1>6. /\ h1 = HeaderType(channelsOut[p.ch], p, h) /\ t = Delta(channelsOut[p.ch], p, h1)
      /\ id = (IF h1 = LARGE THEN p.info ELSE streamId[p.ch])
      /\ off = (CASE h1 = LARGE -> FALSE
                  [] h1 = MINIMUM -> drift[p.ch] \/ field[p.ch] # 0
                  [] OTHER -> drift[p.ch])
      /\ q = [p EXCEPT !.info = id] /\ d = [h |-> h1, t |-> t] /\ w = After(u[p.ch], q, d)
  OBVIOUS
<1>7. /\ d \in [h : 0..3, t : Time] /\ q \in Packets /\ off \in BOOLEAN /\ w \in Memory
      /\ Fits(u[p.ch], q, d)
      /\ w = [size |-> p.size, type |-> p.type, info |-> id,
              field |-> IF h1 = MINIMUM THEN field[p.ch] ELSE d.t, time |-> p.ts, exact |-> ~off]
  <2>1. Types /\ u \in [Channel -> Memory] /\ Sender(u)
    BY <1>4 DEF Inv
  <2>2. QED BY <2>1, Headed
<1> HIDE DEF h1, t, id, off, q, d, w
<1>8. h1 \in 0..3 /\ t \in Time /\ q.ch = p.ch /\ q.size = p.size /\ q.type = p.type /\ q.ts = p.ts /\ q.info = id
      /\ d.h = h1 /\ d.t = t
  BY <1>6, <1>7 DEF Packets
<1>9. /\ wire' = wire \o Encode(p, h1, t)
      /\ channelsOut' = [channelsOut EXCEPT ![p.ch] = p]
      /\ field' = [field EXCEPT ![p.ch] = IF h1 = MINIMUM THEN @ ELSE t]
      /\ drift' = [drift EXCEPT ![p.ch] = off]
      /\ streamId' = [streamId EXCEPT ![p.ch] = id]
      /\ pending' = Append(pending, [packet |-> q, exact |-> ~off])
      /\ UNCHANGED <<channelsIn, channelTimestamp, got>>
  BY <1>6 DEF RTMP_SendPacket
<1>10. /\ Encode(p, h1, t) \in Seq(Chunk) /\ Len(Encode(p, h1, t)) = Chunks(p.size)
       /\ \A k \in 1..Chunks(p.size) : IsChunk(Encode(p, h1, t)[k], q, d, k)
  <2>1. h1 = LARGE => id = p.info
    BY <1>6
  <2>2. QED BY <1>6, <1>8, <2>1, Encoded
<1>11. Chunks(p.size) \in Nat /\ Chunks(p.size) >= 1
  BY <1>5, ChunksIs
<1>12. PICK e : e = [packet |-> q, exact |-> ~off] /\ e.packet = q /\ e.exact = (~off) /\ e \in [packet : Packets, exact : BOOLEAN]
  <2>1. (~off) \in BOOLEAN
    BY <1>7
  <2>2. PICK x : x = (~off) /\ x \in BOOLEAN
    BY <2>1
  <2>3. [packet |-> q, exact |-> x] \in [packet : Packets, exact : BOOLEAN]
        /\ [packet |-> q, exact |-> x].packet = q /\ [packet |-> q, exact |-> x].exact = x
    BY <1>7, <2>2
  <2>4. QED BY <2>2, <2>3
<1>13. /\ pending \in Seq([packet : Packets, exact : BOOLEAN]) /\ wire \in Seq(Chunk)
       /\ pending' = Append(pending, e)
  BY <1>9, <1>12 DEF Inv, Types
<1>14. /\ Len(pending') = n + 1 /\ pending'[n + 1] = e /\ \A i \in 1..n : pending'[i] = pending[i]
       /\ pending' \in Seq([packet : Packets, exact : BOOLEAN])
  BY <1>2, <1>12, <1>13
<1>15. /\ Len(wire') = Len(wire) + Chunks(p.size) /\ wire' \in Seq(Chunk) /\ Len(wire) \in Nat
       /\ \A j \in 1..Len(wire) : wire'[j] = wire[j]
       /\ \A k \in 1..Chunks(p.size) : wire'[Len(wire) + k] = Encode(p, h1, t)[k]
  <2>1. PICK f : f = Encode(p, h1, t) /\ f \in Seq(Chunk) /\ Len(f) = Chunks(p.size) /\ wire' = wire \o f
    BY <1>9, <1>10
  <2>2. QED BY <1>11, <1>13, <2>1
<1>16. Types'
  <2>1. channelsOut' \in [Channel -> Packets \cup {Null}]
    BY <1>5, <1>9 DEF Inv, Types
  <2>2. t \in Time /\ id \in Info
    BY <1>8, <1>7 DEF Packets
  <2>3. streamId' \in [Channel -> Info] /\ field' \in [Channel -> Time] /\ drift' \in [Channel -> BOOLEAN]
    <3>1. streamId' \in [Channel -> Info]
      BY <1>9, <2>2 DEF Inv, Types
    <3>2. field' \in [Channel -> Time]
      BY <1>5, <1>9, <2>2 DEF Inv, Types
    <3>3. drift' \in [Channel -> BOOLEAN]
      BY <1>7, <1>9 DEF Inv, Types
    <3>4. QED BY <3>1, <3>2, <3>3
  <2>4. QED BY <1>9, <1>14, <1>15, <2>1, <2>3 DEF Inv, Types
\* The new witnesses.
<1>17. PICK H : H = [i \in 1..n + 1 |-> IF i = n + 1 THEN d ELSE hd[i]]
  OBVIOUS
<1>18. PICK A : A = [i \in 1..(n + 1) + 1 |-> IF i = n + 2 THEN at[n + 1] + Chunks(p.size) ELSE at[i]]
  OBVIOUS
<1>19. PICK V : V = [i \in 0..n + 1 |-> IF i = n + 1 THEN [u EXCEPT ![p.ch] = w] ELSE v[i]]
  OBVIOUS
<1>20. H[n + 1] = d /\ \A i \in 1..n : H[i] = hd[i]
  BY <1>2, <1>17
<1>21. A[n + 2] = at[n + 1] + Chunks(p.size) /\ \A i \in 1..n + 1 : A[i] = at[i]
  BY <1>2, <1>18
<1>22. V[n + 1] = [u EXCEPT ![p.ch] = w] /\ V[n] = u /\ V[0] = v[0] /\ \A i \in 0..n : V[i] = v[i]
  BY <1>2, <1>4, <1>19
<1>23. at[1] \in Int /\ at[1] <= 1 /\ at[n + 1] = Len(wire) + 1
       /\ \A i \in 1..n : at[i] \in Int
  <2>1. at \in [1..n + 1 -> Int] /\ 1 \in 1..n + 1
    BY <1>2, <1>3 DEF Witness
  <2>2. at[1] <= 1 /\ at[n + 1] = Len(wire) + 1
    BY <1>3 DEF Laid
  <2>3. \A i \in 1..n : i \in 1..n + 1
    BY <1>2
  <2>4. QED BY <2>1, <2>2, <2>3
<1>24. Witness(n + 1, H, A, V)
  <2>1. H \in [1..n + 1 -> [h : 0..3, t : Time]]
    BY <1>2, <1>3, <1>7, <1>17 DEF Witness
  <2>2. A \in [1..(n + 1) + 1 -> Int]
    BY <1>2, <1>3, <1>11, <1>18 DEF Witness
  <2>3. [u EXCEPT ![p.ch] = w] \in [Channel -> Memory]
    BY <1>4, <1>5, <1>7
  <2>4. V \in [0..n + 1 -> [Channel -> Memory]]
    BY <1>2, <1>3, <1>19, <2>3 DEF Witness
  <2>5. QED BY <2>1, <2>2, <2>4 DEF Witness
<1>25. Laid(n + 1, A)'
  <2>1. A[1] <= 1 /\ A[(n + 1) + 1] = Len(wire') + 1
    <3>1. A[1] = at[1] /\ (n + 1) + 1 = n + 2
      BY <1>2, <1>21
    <3>2. A[n + 2] = Len(wire) + 1 + Chunks(p.size)
      BY <1>21, <1>23
    <3>3. QED BY <1>11, <1>15, <1>23, <3>1, <3>2
  <2>2. ASSUME NEW i \in 1..n + 1
        PROVE  A[i + 1] = A[i] + Chunks(pending'[i].packet.size) /\ A[i + 1] >= 2
    <3>1. CASE i = n + 1
      BY <1>2, <1>8, <1>11, <1>12, <1>14, <1>15, <1>21, <1>23, <3>1
    <3>2. CASE i # n + 1
      <4>1. i \in 1..n /\ i + 1 \in 1..n + 1
        BY <1>2, <3>2
      <4>2. QED BY <1>3, <1>14, <1>21, <4>1 DEF Laid
    <3>3. QED BY <3>1, <3>2
  <2>3. n + 1 # 0
    BY <1>2
  <2>4. QED BY <2>1, <2>2, <2>3 DEF Laid
<1>26. Carried(n + 1, H, A)'
  <2>1. SUFFICES ASSUME NEW i \in 1..n + 1, NEW k \in 1..Chunks(pending'[i].packet.size), A[i] + k - 1 >= 1
                 PROVE  /\ A[i] + k - 1 <= Len(wire')
                        /\ IsChunk(wire'[A[i] + k - 1], pending'[i].packet, H[i], k)
    BY DEF Carried
  <2>2. CASE i = n + 1
    <3>1. k \in 1..Chunks(p.size) /\ pending'[i].packet = q /\ H[i] = d
      BY <1>8, <1>12, <1>14, <1>20, <2>2
    <3>2. A[i] + k - 1 = Len(wire) + k
      <4>1. n + 1 \in 1..n + 1
        BY <1>2
      <4>2. A[i] = Len(wire) + 1
        BY <1>21, <1>23, <2>2, <4>1
      <4>3. QED BY <1>11, <1>15, <3>1, <4>2
    <3>3. A[i] + k - 1 <= Len(wire') /\ wire'[A[i] + k - 1] = Encode(p, h1, t)[k]
      BY <1>11, <1>15, <3>1, <3>2
    <3>4. QED BY <1>10, <3>1, <3>3
  <2>3. CASE i # n + 1
    <3>1. i \in 1..n /\ i \in 1..n + 1
      BY <1>2, <2>3
    <3>2. pending'[i] = pending[i] /\ H[i] = hd[i] /\ A[i] = at[i] /\ at[i] \in Int
      BY <1>14, <1>20, <1>21, <1>23, <3>1
    <3>3. k \in 1..Chunks(pending[i].packet.size) /\ at[i] + k - 1 >= 1
      BY <2>1, <3>2
    <3>4. at[i] + k - 1 <= Len(wire) /\ IsChunk(wire[at[i] + k - 1], pending[i].packet, hd[i], k)
      BY <1>3, <3>1, <3>3 DEF Carried
    <3>5. at[i] + k - 1 \in 1..Len(wire)
      BY <1>15, <3>2, <3>3, <3>4
    <3>6. QED BY <1>11, <1>15, <3>2, <3>4, <3>5
  <2>4. QED BY <2>2, <2>3
<1>27. Chained(n + 1, H, V)'
  <2>1. SUFFICES ASSUME NEW i \in 1..n + 1 PROVE Step(pending'[i], H[i], V[i - 1], V[i])
    BY DEF Chained, Step
  <2>2. CASE i = n + 1
    <3>1. pending'[i] = e /\ H[i] = d /\ V[i - 1] = u /\ V[i] = [u EXCEPT ![p.ch] = w]
      BY <1>2, <1>14, <1>20, <1>22, <2>2
    <3>2. ([u EXCEPT ![p.ch] = w])[p.ch] = w /\ w.exact = (~off)
      BY <1>4, <1>5, <1>7
    <3>3. Step(e, d, u, [u EXCEPT ![p.ch] = w])
      BY <1>6, <1>7, <1>8, <1>12, <3>2 DEF Step
    <3>4. QED BY <3>1, <3>3
  <2>3. CASE i # n + 1
    <3>1. i \in 1..n /\ i \in 0..n /\ i - 1 \in 0..n
      BY <1>2, <2>3
    <3>2. Step(pending[i], hd[i], v[i - 1], v[i])
      BY <1>3, <3>1 DEF Chained
    <3>3. QED BY <1>14, <1>20, <1>22, <3>1, <3>2
  <2>4. QED BY <2>2, <2>3
<1>28. Sender(V[n + 1])'
  <2> DEFINE U == [u EXCEPT ![p.ch] = w]
  <2>1. U[p.ch] = w /\ \A c \in Channel : c # p.ch => U[c] = u[c]
    BY <1>4, <1>5
  <2>2. ASSUME NEW c \in Channel
        PROVE  /\ streamId'[c] = U[c].info /\ field'[c] = U[c].field /\ drift'[c] = ~U[c].exact
               /\ channelsOut'[c] = Null => U[c].time = 0
               /\ channelsOut'[c] # Null => /\ channelsOut'[c].size = U[c].size /\ channelsOut'[c].type = U[c].type
                                            /\ channelsOut'[c].ts = U[c].time
    <3>1. CASE c = p.ch
      <4>1. streamId'[c] = id /\ field'[c] = (IF h1 = MINIMUM THEN field[c] ELSE t) /\ drift'[c] = off
            /\ channelsOut'[c] = p
        BY <1>5, <1>9, <3>1 DEF Inv, Types
      <4>2. w.info = id /\ w.field = (IF h1 = MINIMUM THEN field[c] ELSE t) /\ off = (~w.exact)
            /\ w.size = p.size /\ w.type = p.type /\ w.time = p.ts
        BY <1>7, <1>8, <3>1
      <4>3. p # Null
        BY NullAssumption
      <4> HIDE DEF U
      <4>4. QED BY <2>1, <3>1, <4>1, <4>2, <4>3
    <3>2. CASE c # p.ch
      <4>1. streamId'[c] = streamId[c] /\ field'[c] = field[c] /\ drift'[c] = drift[c]
            /\ channelsOut'[c] = channelsOut[c] /\ U[c] = u[c]
        BY <1>5, <1>9, <2>1, <3>2 DEF Inv, Types
      <4> HIDE DEF U
      <4>2. QED BY <1>4, <4>1 DEF Sender
    <3>3. QED BY <3>1, <3>2
  <2> HIDE DEF U
  <2>3. V[n + 1] = U
    BY <1>22 DEF U
  <2>4. QED BY <2>2, <2>3 DEF Sender
<1>29. Receiver(n + 1, H, A, V[0])'
  <2>1. A[1] = at[1]
    BY <1>2, <1>21
  <2>2. CASE n = 0
    <3>1. at[1] = 1
      BY <1>3, <2>2 DEF Laid
    <3>2. QED BY <1>3, <1>9, <1>22, <2>1, <3>1 DEF Receiver
  <2>3. CASE n # 0
    <3>1. pending'[1] = pending[1] /\ H[1] = hd[1]
      BY <1>2, <1>14, <1>20, <2>3
    <3>2. QED BY <1>3, <1>9, <1>22, <2>1, <3>1 DEF Receiver
  <2>4. QED BY <2>2, <2>3
<1>30. Good(n + 1, H, A, V)'
  BY <1>24, <1>25, <1>26, <1>27, <1>28, <1>29 DEF Good, Witness
<1>31. QED
  <2>1. got' = got
    BY <1>9
  <2>2. QED BY <1>14, <1>16, <1>30, <2>1 DEF Inv

-----------------------------------------------------------------------------
\* A chunk is read.

\* The chunk at the front is the next one of the first packet in flight.
LEMMA FrontIs ==
    ASSUME Types, NEW hd, NEW at, NEW v, NEW n, n = Len(pending), Good(n, hd, at, v), wire # <<>>
    PROVE  /\ n \in Nat /\ n >= 1 /\ at[1] \in Int /\ at[1] <= 1
           /\ pending[1].packet \in Packets /\ hd[1] \in [h : 0..3, t : Time]
           /\ v[0] \in [Channel -> Memory] /\ v[1] \in [Channel -> Memory]
           /\ at[2] = at[1] + Chunks(pending[1].packet.size)
           /\ 2 - at[1] \in 1..Chunks(pending[1].packet.size)
           /\ IsChunk(Head(wire), pending[1].packet, hd[1], 2 - at[1])
           /\ Step(pending[1], hd[1], v[0], v[1])
<1>1. n \in Nat /\ pending \in Seq([packet : Packets, exact : BOOLEAN]) /\ wire \in Seq(Chunk)
  BY DEF Types
<1>2. Witness(n, hd, at, v) /\ Laid(n, at) /\ Carried(n, hd, at) /\ Chained(n, hd, v)
  BY DEF Good
<1>3. Len(wire) >= 1 /\ Head(wire) = wire[1] /\ Len(wire) \in Nat
  BY <1>1
<1>4. n >= 1
  <2>1. n = 0 => at[0 + 1] = 1 /\ at[0 + 1] = Len(wire) + 1
    BY <1>2 DEF Laid
  <2>2. QED BY <1>1, <1>3, <2>1
<1>5. 1 \in 1..n /\ 1 \in 1..n + 1 /\ 0 \in 0..n /\ 1 \in 0..n
  BY <1>1, <1>4
<1>6. at[1] \in Int /\ hd[1] \in [h : 0..3, t : Time] /\ v[0] \in [Channel -> Memory] /\ v[1] \in [Channel -> Memory]
  BY <1>2, <1>5 DEF Witness
<1>7. pending[1].packet \in Packets /\ pending[1].packet.size \in Nat
  <2>1. pending[1] \in [packet : Packets, exact : BOOLEAN]
    BY <1>1, <1>5, ElementOfSeq
  <2>2. \A p \in Packets : p.size \in Nat
    BY ChunkAssumption DEF Packets
  <2>3. QED BY <2>1, <2>2
<1>8. at[1] <= 1 /\ at[1 + 1] = at[1] + Chunks(pending[1].packet.size) /\ at[1 + 1] >= 2
  BY <1>2, <1>5 DEF Laid
<1>9. at[2] = at[1] + Chunks(pending[1].packet.size) /\ at[2] >= 2
  BY <1>8
<1>10. Chunks(pending[1].packet.size) \in Nat
  BY <1>7, ChunksIs
<1>11. 2 - at[1] \in 1..Chunks(pending[1].packet.size) /\ at[1] + (2 - at[1]) - 1 = 1
  BY <1>6, <1>8, <1>9, <1>10
<1>12. IsChunk(wire[1], pending[1].packet, hd[1], 2 - at[1])
  BY <1>2, <1>5, <1>11 DEF Carried
<1>13. Step(pending[1], hd[1], v[1 - 1], v[1])
  BY <1>2, <1>5 DEF Chained
<1>14. QED BY <1>1, <1>3, <1>4, <1>6, <1>7, <1>8, <1>9, <1>11, <1>12, <1>13

\* What the header of a packet's k-th chunk makes of what was stored.
LEMMA ParsedIs ==
    ASSUME NEW p \in Packets, NEW d \in [h : 0..3, t : Time], NEW m \in Memory, Fits(m, p, d),
           NEW k \in Nat, k >= 1, NEW c, IsChunk(c, p, d, k),
           k = 1 => Rest(channelsIn[p.ch], m),
           k > 1 => channelsIn[p.ch] # Null /\ channelsIn[p.ch] = Partial(m, p, d, k - 1)
    PROVE  Parsed(c) = Partial(m, p, d, k - 1)
<1>1. /\ c.ch = p.ch /\ c.fmt = (IF k = 1 THEN d.h ELSE MINIMUM)
      /\ c.size = p.size /\ c.type = p.type /\ c.time = TimeField(d.t) /\ (c.fmt = LARGE => c.info = p.info)
  BY DEF IsChunk
<1>2. d.h \in 0..3 /\ d.t \in Time
  OBVIOUS
<1>3. (IF c.time.short = TsExt THEN c.time.ext ELSE c.time.short) = d.t
  BY <1>1, <1>2, FieldRead
<1>4. CASE k > 1
  <2>1. c.fmt = MINIMUM /\ channelsIn[c.ch] # Null /\ channelsIn[c.ch] = Partial(m, p, d, k - 1)
    BY <1>1, <1>4
  <2>2. QED BY <2>1 DEF Parsed, LARGE, SMALL, MINIMUM
<1>5. CASE k = 1
  <2>1. c.fmt = d.h /\ Rest(channelsIn[c.ch], m)
    BY <1>1, <1>5
  <2>2. (k - 1) * ChunkSize = 0
    BY <1>5, ChunkAssumption
  <2>3. \A b : b = (d.h = LARGE) =>
           Partial(m, p, d, k - 1) = [type |-> p.type, size |-> p.size,
                                      ts |-> IF d.h = MINIMUM THEN m.field ELSE d.t,
                                      info |-> p.info, read |-> 0, abs |-> b]
    BY <2>2 DEF Partial, After
  <2> DEFINE known == IF channelsIn[c.ch] = Null THEN Blank ELSE channelsIn[c.ch]
  <2>4. known = [type |-> m.type, size |-> m.size, ts |-> m.field, info |-> m.info, read |-> 0, abs |-> FALSE]
    BY <2>1 DEF Rest
  <2>5. CASE d.h = LARGE
    <3>1. Partial(m, p, d, k - 1) = [type |-> p.type, size |-> p.size, ts |-> d.t,
                                     info |-> p.info, read |-> 0, abs |-> TRUE]
      <4>1. TRUE = (d.h = LARGE)
        BY <2>5
      <4>2. d.h # MINIMUM
        BY <2>5 DEF LARGE, MINIMUM
      <4>3. QED BY <2>3, <4>1, <4>2
    <3>2. Parsed(c) = LET timed == [[Blank EXCEPT !.abs = TRUE] EXCEPT !.ts = d.t]
                          sized == [timed EXCEPT !.size = c.size, !.type = c.type, !.read = 0]
                      IN  [sized EXCEPT !.info = c.info]
      <4>1. c.fmt = LARGE /\ c.fmt # MINIMUM /\ c.fmt \notin {SMALL, MINIMUM}
        BY <2>1, <2>5 DEF LARGE, SMALL, MINIMUM
      <4>2. QED BY <1>3, <4>1 DEF Parsed
    <3>3. Parsed(c) = [type |-> c.type, size |-> c.size, ts |-> d.t, info |-> c.info, read |-> 0, abs |-> TRUE]
      BY <3>2 DEF Blank
    <3>4. QED BY <1>1, <2>1, <2>5, <3>1, <3>3
  <2>6. CASE d.h # LARGE
    <3>1. Parsed(c) = LET timed == IF c.fmt = MINIMUM THEN known ELSE [known EXCEPT !.ts = d.t]
                      IN  IF c.fmt \in {SMALL, MINIMUM} THEN timed
                          ELSE [timed EXCEPT !.size = c.size, !.type = c.type, !.read = 0]
      BY <1>3, <2>1, <2>6 DEF Parsed
    <3> HIDE DEF known
    <3>2. p.info = m.info /\ (d.h \in {SMALL, MINIMUM} => p.size = m.size /\ p.type = m.type)
      BY <2>6 DEF Fits
    <3>3. Partial(m, p, d, k - 1) = [type |-> p.type, size |-> p.size,
                                     ts |-> IF d.h = MINIMUM THEN m.field ELSE d.t,
                                     info |-> p.info, read |-> 0, abs |-> FALSE]
      <4>1. FALSE = (d.h = LARGE)
        BY <2>6
      <4>2. QED BY <2>3, <4>1
    <3>4. CASE d.h = MINIMUM
      <4>1. Parsed(c) = known
        BY <2>1, <3>1, <3>4
      <4>2. QED BY <2>4, <3>2, <3>3, <3>4, <4>1
    <3>5. CASE d.h = SMALL
      <4>1. Parsed(c) = [known EXCEPT !.ts = d.t]
        BY <2>1, <3>1, <3>5 DEF SMALL, MINIMUM
      <4>2. Parsed(c) = [type |-> m.type, size |-> m.size, ts |-> d.t, info |-> m.info, read |-> 0, abs |-> FALSE]
        BY <2>4, <4>1
      <4>3. p.size = m.size /\ p.type = m.type /\ p.info = m.info /\ d.h # MINIMUM
        BY <3>2, <3>5 DEF SMALL, MINIMUM
      <4>4. QED BY <3>3, <4>2, <4>3
    <3>6. CASE d.h \notin {SMALL, MINIMUM}
      <4>1. Parsed(c) = [[known EXCEPT !.ts = d.t] EXCEPT !.size = c.size, !.type = c.type, !.read = 0]
        BY <2>1, <3>1, <3>6
      <4>2. Parsed(c) = [type |-> c.type, size |-> c.size, ts |-> d.t, info |-> m.info, read |-> 0, abs |-> FALSE]
        BY <2>4, <4>1
      <4>3. QED BY <1>1, <3>2, <3>3, <3>6, <4>2
    <3>7. QED BY <3>4, <3>5, <3>6
  <2>7. QED BY <2>5, <2>6
<1>6. QED BY <1>4, <1>5

\* The time of a packet: the sum of its field and the time before it is the one
\* it was sent with, unless the memory was off or a non-zero field is repeated.
LEMMA TimeIs ==
    ASSUME NEW p \in Packets, NEW d \in [h : 0..3, t : Time], NEW m \in Memory, Fits(m, p, d), NEW last \in Time,
           m.exact => last = m.time
    PROVE  LET ts == IF d.h = LARGE THEN After(m, p, d).field ELSE (After(m, p, d).field + last) % TsMod
           IN  ts \in Time /\ (After(m, p, d).exact => ts = p.ts)
<1> DEFINE f == After(m, p, d).field
           x == After(m, p, d).exact
<1>1. p.ts \in Time /\ d.h \in 0..3 /\ d.t \in Time /\ m.field \in Time /\ m.time \in Time
  BY DEF Packets, Memory
<1>2. f = (IF d.h = MINIMUM THEN m.field ELSE d.t)
      /\ (x => d.h = LARGE \/ (m.exact /\ (d.h = MINIMUM => m.field = 0)))
  BY DEF After
<1>3. f \in Time
  BY <1>1, <1>2
<1> HIDE DEF f, x
<1>4. (f + last) % TsMod \in Time
  BY <1>3, TimesAre
<1>5. CASE d.h = LARGE
  BY <1>2, <1>3, <1>5 DEF Fits, LARGE, MINIMUM, f, x
<1>6. CASE d.h # LARGE
  <2>1. x => m.exact /\ last = m.time
    BY <1>2, <1>6
  <2>2. CASE d.h = MINIMUM
    <3>1. p.ts = m.time
      BY <2>2 DEF Fits
    <3>2. x => f = 0 /\ last = p.ts
      BY <1>2, <1>6, <2>1, <2>2, <3>1
    <3>3. (0 + p.ts) % TsMod = p.ts
      BY <1>1, TimesAre
    <3>4. x => (f + last) % TsMod = p.ts
      BY <3>2, <3>3
    <3>5. QED BY <1>4, <1>6, <3>4 DEF f, x
  <2>3. CASE d.h # MINIMUM
    <3>1. f = (p.ts - m.time + TsMod) % TsMod
      BY <1>2, <1>6, <2>3 DEF Fits
    <3>2. (((p.ts - m.time + TsMod) % TsMod) + m.time) % TsMod = p.ts
      BY <1>1, TimesAre
    <3>3. x => (f + last) % TsMod = p.ts
      BY <2>1, <3>1, <3>2
    <3>4. QED BY <1>4, <1>6, <3>3 DEF f, x
  <2>4. QED BY <2>2, <2>3
<1>7. QED BY <1>5, <1>6

\* A packet partly read is something stored, and what is wanted next is what
\* its next chunk holds.
LEMMA PartialIs ==
    ASSUME NEW p \in Packets, NEW d \in [h : 0..3, t : Time], NEW m \in Memory, NEW k \in 1..Chunks(p.size)
    PROVE  /\ Partial(m, p, d, k - 1) \in Stored /\ Partial(m, p, d, k - 1) # Null
           /\ Wanted(Partial(m, p, d, k - 1)) = ChunkLen(p.size, k)
           /\ Partial(m, p, d, k - 1).read <= p.size
<1>1. /\ p.size \in 0..MaxSize /\ p.size \in Nat /\ MaxSize \in Nat /\ p.type \in Type /\ p.info \in Info
      /\ m.field \in Time /\ d.t \in Time
  BY ChunkAssumption DEF Packets, Memory
<1>2. (k - 1) * ChunkSize \in Nat /\ (k - 1) * ChunkSize <= p.size
  BY <1>1, ChunksIs
<1>3. After(m, p, d).field \in Time
  BY <1>1 DEF After
<1>4. Partial(m, p, d, k - 1) \in Stored /\ Partial(m, p, d, k - 1).read <= p.size
  BY <1>1, <1>2, <1>3 DEF Stored, Partial
<1>5. Wanted(Partial(m, p, d, k - 1)) = ChunkLen(p.size, k)
  BY DEF Wanted, ChunkLen, Partial
<1>6. QED BY <1>4, <1>5, NullAssumption

\* The packet after one more chunk.
Advanced(x, l) == [x EXCEPT !.read = @ + l]

LEMMA PartialNext ==
    ASSUME NEW p \in Packets, NEW d \in [h : 0..3, t : Time], NEW m \in Memory, NEW k \in 1..Chunks(p.size),
           NEW y, y = Advanced(Partial(m, p, d, k - 1), ChunkLen(p.size, k))
    PROVE  /\ y.type = p.type /\ y.size = p.size /\ y.info = p.info /\ y.ts = After(m, p, d).field
           /\ y.abs <=> d.h = LARGE
           /\ y.read = y.size <=> k = Chunks(p.size)
           /\ k < Chunks(p.size) => y = Partial(m, p, d, k) /\ y \in Stored /\ y # Null /\ y.read <= y.size
<1>1. /\ p.size \in 0..MaxSize /\ p.size \in Nat /\ MaxSize \in Nat /\ p.type \in Type /\ p.info \in Info
      /\ m.field \in Time /\ d.t \in Time /\ ChunkSize \in Nat
  BY ChunkAssumption DEF Packets, Memory
<1>2. /\ Chunks(p.size) \in Nat /\ k \in Nat /\ k >= 1
      /\ (k - 1) * ChunkSize \in Nat /\ ChunkLen(p.size, k) \in Nat
      /\ (k < Chunks(p.size) => ChunkLen(p.size, k) = ChunkSize /\ k * ChunkSize < p.size)
      /\ ((k - 1) * ChunkSize + ChunkLen(p.size, k) = p.size <=> k = Chunks(p.size))
  <2>1. Chunks(p.size) \in Nat
    BY <1>1, ChunksIs
  <2>2. k \in Nat /\ k >= 1
    BY <2>1
  <2>3. PICK z : z = p.size /\ z \in Nat
    BY <1>1
  <2>4. k \in 1..Chunks(z)
    BY <2>3
  <2>5. /\ (k - 1) * ChunkSize \in Nat /\ ChunkLen(z, k) \in Nat
        /\ (k < Chunks(z) => ChunkLen(z, k) = ChunkSize /\ k * ChunkSize < z)
        /\ ((k - 1) * ChunkSize + ChunkLen(z, k) = z <=> k = Chunks(z))
    BY ONLY <2>3, <2>4, ChunksIs
  <2>6. QED BY <2>1, <2>2, <2>3, <2>5
<1>3. PICK f : f = After(m, p, d).field /\ f \in Time
  BY <1>1 DEF After
<1>4. PICK b : b = (d.h = LARGE)
  OBVIOUS
<1>5. PICK r, l : r = (k - 1) * ChunkSize /\ l = ChunkLen(p.size, k)
  OBVIOUS
<1>6. Partial(m, p, d, k - 1) = [type |-> p.type, size |-> p.size, ts |-> f, info |-> p.info, read |-> r, abs |-> b]
  BY <1>3, <1>4, <1>5 DEF Partial
<1>7. y = [type |-> p.type, size |-> p.size, ts |-> f, info |-> p.info, read |-> r + l, abs |-> b]
  BY <1>5, <1>6 DEF Advanced
<1>8. y.type = p.type /\ y.size = p.size /\ y.info = p.info /\ y.ts = f /\ y.abs = b /\ y.read = r + l
  BY <1>7
<1>9. y.read = y.size <=> k = Chunks(p.size)
  BY <1>2, <1>5, <1>8
<1>10. ASSUME k < Chunks(p.size) PROVE y = Partial(m, p, d, k) /\ y \in Stored /\ y.read <= y.size
  <2>1. k * ChunkSize = (k - 1) * ChunkSize + ChunkSize
    BY <1>1, <1>2
  <2>2. r + l = k * ChunkSize /\ r + l \in Nat
    BY <1>1, <1>2, <1>5, <1>10, <2>1
  <2>3. y = Partial(m, p, d, k)
    BY <1>3, <1>4, <1>7, <2>2 DEF Partial
  <2>4. r + l \in 0..MaxSize /\ r + l <= p.size
    BY <1>1, <1>2, <1>10, <2>2
  <2>5. b \in BOOLEAN
    BY <1>4
  <2>6. y \in Stored
    BY <1>1, <1>3, <1>7, <2>4, <2>5 DEF Stored
  <2>7. QED BY <1>8, <2>3, <2>4, <2>6
<1>11. \A s \in Stored : s # Null
  BY NullAssumption
<1>12. y.abs <=> d.h = LARGE
  BY <1>4, <1>8
<1>13. QED BY <1>3, <1>8, <1>9, <1>10, <1>11, <1>12

\* A packet read to the end, kept with its progress cleared.
LEMMA Cleared ==
    ASSUME NEW y, NEW a, NEW b, NEW c, NEW e, NEW r, NEW f,
           y = [type |-> a, size |-> b, ts |-> c, info |-> e, read |-> r, abs |-> f],
           NEW z, z = [y EXCEPT !.read = 0, !.abs = FALSE]
    PROVE  z = [type |-> a, size |-> b, ts |-> c, info |-> e, read |-> 0, abs |-> FALSE]
<1>1. /\ y = [type |-> a, size |-> b, ts |-> c, info |-> e, read |-> r, abs |-> f]
      /\ z = [y EXCEPT !.read = 0, !.abs = FALSE]
  OBVIOUS
<1>2. z.type = a /\ z.size = b /\ z.ts = c /\ z.info = e /\ z.read = 0 /\ z.abs = FALSE
  BY <1>1
<1>3. QED BY <1>1, <1>2

LEMMA ClearedStored ==
    ASSUME NEW p \in Packets, NEW f \in Time, NEW z,
           z = [type |-> p.type, size |-> p.size, ts |-> f, info |-> p.info, read |-> 0, abs |-> FALSE]
    PROVE  z \in Stored /\ z # Null /\ z.read <= z.size
<1>1. p.size \in 0..MaxSize /\ 0 \in 0..MaxSize /\ 0 <= p.size /\ p.type \in Type /\ p.info \in Info
  BY ChunkAssumption DEF Packets
<1>2. z \in Stored
  BY <1>1 DEF Stored
<1>3. z.read <= z.size
  BY <1>1
<1>4. QED BY <1>2, <1>3, NullAssumption

\* The receiver is in step: what it parses of the chunk at the front.
LEMMA ParsedFront ==
    ASSUME Types, NEW hd, NEW at, NEW v, NEW n, n = Len(pending), Good(n, hd, at, v), wire # <<>>
    PROVE  LET p == pending[1].packet
           IN  Parsed(Head(wire)) = Partial(v[0][p.ch], p, hd[1], (2 - at[1]) - 1)
<1> DEFINE p == pending[1].packet
           m == v[0][p.ch]
           d == hd[1]
           k == 2 - at[1]
<1>1. /\ at[1] \in Int /\ at[1] <= 1 /\ p \in Packets /\ d \in [h : 0..3, t : Time]
      /\ v[0] \in [Channel -> Memory] /\ k \in 1..Chunks(p.size)
      /\ IsChunk(Head(wire), p, d, k) /\ Step(pending[1], d, v[0], v[1])
  BY FrontIs
<1>2. p.ch \in Channel /\ m \in Memory
  BY <1>1 DEF Packets
<1>3. Fits(m, p, d)
  BY <1>1 DEF Step
<1>4. Receiver(n, hd, at, v[0])
  BY DEF Good
<1>5. k \in Nat /\ k >= 1
  BY <1>1
<1>6. k = 1 => Rest(channelsIn[p.ch], m)
  <2>1. k = 1 => at[1] = 1
    BY <1>1
  <2>2. QED BY <1>2, <1>4, <2>1 DEF Receiver
<1>7. k > 1 => channelsIn[p.ch] = Partial(m, p, d, k - 1)
  <2>1. k > 1 => at[1] < 1 /\ k - 1 = 1 - at[1]
    BY <1>1
  <2>2. QED BY <1>4, <2>1 DEF Receiver
<1> HIDE DEF p, m, d, k
<1>8. Partial(m, p, d, k - 1) # Null
  BY <1>1, <1>2, PartialIs
<1>9. Parsed(Head(wire)) = Partial(m, p, d, k - 1)
  BY <1>1, <1>2, <1>3, <1>5, <1>6, <1>7, <1>8, ParsedIs
<1>10. QED BY <1>9 DEF p, m, d, k

\* One chunk read: what the receiver makes of it, in the middle of a packet and
\* at its end.
LEMMA ReadIs ==
    ASSUME Types, NEW hd, NEW at, NEW v, NEW n, n = Len(pending), Good(n, hd, at, v), RTMP_ReadPacket,
           NEW p, p = pending[1].packet, NEW d, d = hd[1], NEW m, m = v[0][p.ch], NEW k, k = 2 - at[1]
    PROVE  /\ k < Chunks(p.size) =>
                 /\ channelsIn' = [channelsIn EXCEPT ![p.ch] = Partial(m, p, d, k)]
                 /\ Partial(m, p, d, k) \in Stored /\ Partial(m, p, d, k).read <= Partial(m, p, d, k).size
                 /\ UNCHANGED <<channelTimestamp, got, pending>>
           /\ k = Chunks(p.size) => \E z, ts :
                 /\ z = [type |-> p.type, size |-> p.size, ts |-> After(m, p, d).field, info |-> p.info,
                         read |-> 0, abs |-> FALSE]
                 /\ channelsIn' = [channelsIn EXCEPT ![p.ch] = z]
                 /\ ts = IF d.h = LARGE THEN After(m, p, d).field
                         ELSE (After(m, p, d).field + channelTimestamp[p.ch]) % TsMod
                 /\ channelTimestamp' = [channelTimestamp EXCEPT ![p.ch] = ts]
                 /\ got'.framing /\ got'.time = (p.ts = ts) /\ got'.exact = pending[1].exact
                 /\ pending' = Tail(pending)
<1> DEFINE parsed == Parsed(Head(wire))
           y == [parsed EXCEPT !.read = @ + Wanted(parsed)]
           ready == y.read = y.size
           ts == IF y.abs THEN y.ts ELSE (y.ts + channelTimestamp[Head(wire).ch]) % TsMod
           sent == Head(pending).packet
<1>1. /\ wire # <<>>
      /\ channelsIn' = [channelsIn EXCEPT ![Head(wire).ch] =
                           IF ready THEN [y EXCEPT !.read = 0, !.abs = FALSE] ELSE y]
      /\ ready => /\ channelTimestamp' = [channelTimestamp EXCEPT ![Head(wire).ch] = ts]
                  /\ got' = [framing |-> /\ sent.ch = Head(wire).ch /\ sent.type = y.type
                                         /\ sent.size = y.size /\ sent.info = y.info,
                             time |-> sent.ts = ts, exact |-> Head(pending).exact]
                  /\ pending' = Tail(pending)
      /\ ~ready => UNCHANGED <<channelTimestamp, got, pending>>
  BY DEF RTMP_ReadPacket
<1>2. /\ n \in Nat /\ n >= 1 /\ p \in Packets /\ d \in [h : 0..3, t : Time] /\ v[0] \in [Channel -> Memory]
      /\ k \in 1..Chunks(p.size) /\ IsChunk(Head(wire), p, d, k)
  BY <1>1, FrontIs
<1>3. p.ch \in Channel /\ m \in Memory /\ Head(wire).ch = p.ch
  BY <1>2 DEF Packets, IsChunk
<1>4. parsed = Partial(m, p, d, k - 1)
  BY <1>1, ParsedFront
<1>5. Wanted(parsed) = ChunkLen(p.size, k)
  BY <1>2, <1>3, <1>4, PartialIs
<1>6. y = Advanced(Partial(m, p, d, k - 1), ChunkLen(p.size, k))
  BY <1>4, <1>5 DEF Advanced
<1> HIDE DEF parsed, y
<1>7. /\ y.type = p.type /\ y.size = p.size /\ y.info = p.info /\ y.ts = After(m, p, d).field
      /\ y.abs <=> d.h = LARGE
      /\ y.read = y.size <=> k = Chunks(p.size)
      /\ k < Chunks(p.size) => y = Partial(m, p, d, k) /\ y \in Stored /\ y # Null /\ y.read <= y.size
  BY <1>2, <1>3, <1>6, PartialNext
<1>8. ASSUME k < Chunks(p.size)
      PROVE  /\ channelsIn' = [channelsIn EXCEPT ![p.ch] = Partial(m, p, d, k)]
             /\ Partial(m, p, d, k) \in Stored /\ Partial(m, p, d, k).read <= Partial(m, p, d, k).size
             /\ UNCHANGED <<channelTimestamp, got, pending>>
  <2>1. ~ready
    BY <1>2, <1>7, <1>8
  <2> HIDE DEF ready
  <2>2. channelsIn' = [channelsIn EXCEPT ![p.ch] = y] /\ UNCHANGED <<channelTimestamp, got, pending>>
    BY <1>1, <1>3, <2>1
  <2>3. QED BY <1>7, <1>8, <2>2
<1>9. ASSUME k = Chunks(p.size)
      PROVE  \E z, s :
                 /\ z = [type |-> p.type, size |-> p.size, ts |-> After(m, p, d).field, info |-> p.info,
                         read |-> 0, abs |-> FALSE]
                 /\ channelsIn' = [channelsIn EXCEPT ![p.ch] = z]
                 /\ s = IF d.h = LARGE THEN After(m, p, d).field
                        ELSE (After(m, p, d).field + channelTimestamp[p.ch]) % TsMod
                 /\ channelTimestamp' = [channelTimestamp EXCEPT ![p.ch] = s]
                 /\ got'.framing /\ got'.time = (p.ts = s) /\ got'.exact = pending[1].exact
                 /\ pending' = Tail(pending)
  <2>1. ready
    BY <1>7, <1>9
  <2> HIDE DEF ready
  <2>2. PICK z : z = [y EXCEPT !.read = 0, !.abs = FALSE] /\ channelsIn' = [channelsIn EXCEPT ![p.ch] = z]
    BY <1>1, <1>3, <2>1
  <2>3. z = [type |-> p.type, size |-> p.size, ts |-> After(m, p, d).field, info |-> p.info,
             read |-> 0, abs |-> FALSE]
    <3>1. PICK f, b, r : f = After(m, p, d).field /\ b = (d.h = LARGE) /\ r = (k - 1) * ChunkSize + ChunkLen(p.size, k)
      OBVIOUS
    <3>2. Partial(m, p, d, k - 1) = [type |-> p.type, size |-> p.size, ts |-> f, info |-> p.info,
                                     read |-> (k - 1) * ChunkSize, abs |-> b]
      BY <3>1 DEF Partial
    <3>3. y = [type |-> p.type, size |-> p.size, ts |-> f, info |-> p.info, read |-> r, abs |-> b]
      BY <1>6, <3>1, <3>2 DEF Advanced
    <3>4. z = [type |-> p.type, size |-> p.size, ts |-> f, info |-> p.info, read |-> 0, abs |-> FALSE]
      BY <2>2, <3>3, Cleared
    <3>5. QED BY <3>1, <3>4
  <2>4. PICK s : s = ts
    OBVIOUS
  <2>5. s = IF d.h = LARGE THEN After(m, p, d).field ELSE (After(m, p, d).field + channelTimestamp[p.ch]) % TsMod
    BY <1>3, <1>7, <2>4
  <2>6. channelTimestamp' = [channelTimestamp EXCEPT ![p.ch] = s] /\ pending' = Tail(pending)
    BY <1>1, <1>3, <2>1, <2>4
  <2>7. Head(pending) = pending[1]
    BY <1>2 DEF Types
  <2>8. got'.framing /\ got'.time = (p.ts = s) /\ got'.exact = pending[1].exact
    <3>1. PICK a, b, c : /\ a = (/\ sent.ch = Head(wire).ch /\ sent.type = y.type
                                  /\ sent.size = y.size /\ sent.info = y.info)
                         /\ b = (sent.ts = ts) /\ c = Head(pending).exact
      OBVIOUS
    <3>2. got' = [framing |-> a, time |-> b, exact |-> c]
      BY <1>1, <2>1, <3>1
    <3>3. got'.framing = a /\ got'.time = b /\ got'.exact = c
      BY <3>2
    <3>4. sent = p
      BY <2>7
    <3> HIDE DEF sent, ts
    <3>5. a
      BY <1>3, <1>7, <3>1, <3>4
    <3>6. b = (p.ts = s) /\ c = pending[1].exact
      BY <2>4, <2>7, <3>1, <3>4
    <3>7. QED BY <3>3, <3>5, <3>6
  <2>9. QED BY <2>2, <2>3, <2>5, <2>6, <2>8
<1>10. QED BY <1>8, <1>9

\* In the middle of a packet: the witnesses stay, the chunks move up by one.
LEMMA InvReadPart ==
    ASSUME Inv, NEW hd, NEW at, NEW v, NEW n, n = Len(pending), Good(n, hd, at, v), RTMP_ReadPacket,
           2 - at[1] < Chunks(pending[1].packet.size)
    PROVE  Inv'
<1>1. PICK p, d, m, k : p = pending[1].packet /\ d = hd[1] /\ m = v[0][p.ch] /\ k = 2 - at[1]
  OBVIOUS
<1>2. Types /\ wire # <<>>
  BY DEF Inv, RTMP_ReadPacket
<1>3. /\ n \in Nat /\ n >= 1 /\ at[1] \in Int /\ at[1] <= 1 /\ p \in Packets
      /\ v[0] \in [Channel -> Memory] /\ at[2] = at[1] + Chunks(p.size) /\ p.ch \in Channel
  <2>1. /\ n \in Nat /\ n >= 1 /\ at[1] \in Int /\ at[1] <= 1 /\ p \in Packets
        /\ v[0] \in [Channel -> Memory] /\ at[2] = at[1] + Chunks(p.size)
    BY <1>1, <1>2, FrontIs
  <2>2. QED BY <2>1 DEF Packets
<1>4. /\ channelsIn' = [channelsIn EXCEPT ![p.ch] = Partial(m, p, d, k)]
      /\ Partial(m, p, d, k) \in Stored /\ Partial(m, p, d, k).read <= Partial(m, p, d, k).size
      /\ UNCHANGED <<channelTimestamp, got, pending>>
  <2>1. k < Chunks(p.size)
    BY <1>1
  <2>2. QED BY <1>1, <1>2, <2>1, ReadIs
<1>5. wire' = Tail(wire) /\ UNCHANGED <<channelsOut, streamId, field, drift>>
  BY DEF RTMP_ReadPacket
<1>6. /\ Witness(n, hd, at, v) /\ Laid(n, at) /\ Carried(n, hd, at)
      /\ Chained(n, hd, v) /\ Sender(v[n]) /\ Receiver(n, hd, at, v[0])
  BY DEF Good
<1>7. /\ wire' \in Seq(Chunk) /\ Len(wire) \in Nat /\ Len(wire) >= 1 /\ Len(wire') = Len(wire) - 1
      /\ \A j \in 1..Len(wire) - 1 : wire'[j] = wire[j + 1]
  BY <1>2, <1>5 DEF Types
<1>8. Types'
  <2>1. channelsIn' \in [Channel -> Stored \union {Null}]
        /\ \A c \in Channel : channelsIn'[c] # Null => channelsIn'[c].read <= channelsIn'[c].size
    <3> DEFINE y == Partial(m, p, d, k)
    <3>1. channelsIn' = [channelsIn EXCEPT ![p.ch] = y] /\ y \in Stored /\ y.read <= y.size
      BY <1>4
    <3> HIDE DEF y
    <3>2. QED BY <1>2, <1>3, <3>1 DEF Types
  <2>2. QED BY <1>2, <1>4, <1>5, <1>7, <2>1 DEF Types
<1>9. PICK A : A = [i \in 1..n + 1 |-> at[i] - 1]
  OBVIOUS
<1>10. \A i \in 1..n + 1 : at[i] \in Int /\ A[i] = at[i] - 1
  BY <1>6, <1>9 DEF Witness
<1>11. 1 \in 1..n /\ 1 \in 1..n + 1 /\ n + 1 \in 1..n + 1 /\ \A i \in 1..n : i \in 1..n + 1 /\ i + 1 \in 1..n + 1
  BY <1>3
<1>12. Witness(n, hd, A, v)
  <2>1. A \in [1..n + 1 -> Int]
    BY <1>9, <1>10
  <2>2. QED BY <1>6, <2>1 DEF Witness
<1>13. \A i \in 1..n : /\ at[i + 1] = at[i] + Chunks(pending[i].packet.size) /\ at[i + 1] >= 2
                       /\ Chunks(pending[i].packet.size) \in Nat /\ Chunks(pending[i].packet.size) >= 1
  <2>1. SUFFICES ASSUME NEW i \in 1..n
                 PROVE  Chunks(pending[i].packet.size) \in Nat /\ Chunks(pending[i].packet.size) >= 1
    BY <1>6 DEF Laid
  <2>2. pending[i] \in [packet : Packets, exact : BOOLEAN]
    <3>1. pending \in Seq([packet : Packets, exact : BOOLEAN]) /\ i \in 1..Len(pending)
      BY <1>2 DEF Types
    <3>2. QED BY <3>1, ElementOfSeq
  <2>3. pending[i].packet.size \in Nat
    BY <2>2, ChunkAssumption DEF Packets
  <2>4. QED BY <2>3, ChunksIs
<1>14. Laid(n, A)'
  <2>1. A[1] <= 1 /\ A[n + 1] = Len(wire') + 1
    <3>1. at[n + 1] = Len(wire) + 1
      BY <1>6 DEF Laid
    <3>2. QED BY <1>3, <1>7, <1>10, <1>11, <3>1
  <2>2. ASSUME NEW i \in 1..n
        PROVE  A[i + 1] = A[i] + Chunks(pending[i].packet.size) /\ A[i + 1] >= 2
    <3>1. A[i + 1] = at[i + 1] - 1 /\ A[i] = at[i] - 1 /\ at[i] \in Int /\ at[i + 1] \in Int
      BY <1>10, <1>11
    <3>2. at[i + 1] >= 3
      <4>1. CASE i = 1
        BY <1>1, <1>3, <1>13, <4>1
      <4>2. CASE i # 1
        <5>1. i - 1 \in 1..n /\ (i - 1) + 1 = i
          BY <1>3, <4>2
        <5>2. at[i] >= 2
          BY <1>13, <5>1
        <5>3. QED BY <1>13, <3>1, <5>2
      <4>3. QED BY <4>1, <4>2
    <3>3. QED BY <1>13, <3>1, <3>2
  <2>3. n # 0
    BY <1>3
  <2>4. QED BY <1>4, <2>1, <2>2, <2>3 DEF Laid
<1>15. Carried(n, hd, A)'
  <2>1. SUFFICES ASSUME NEW i \in 1..n, NEW j \in 1..Chunks(pending[i].packet.size), A[i] + j - 1 >= 1
                 PROVE  /\ A[i] + j - 1 <= Len(wire')
                        /\ IsChunk(wire'[A[i] + j - 1], pending[i].packet, hd[i], j)
    BY <1>4 DEF Carried
  <2>2. PICK x : x = A[i] + j - 1 /\ x \in Int /\ x >= 1 /\ at[i] + j - 1 = x + 1
    BY <1>10, <1>11, <1>13, <2>1
  <2>3. x + 1 <= Len(wire) /\ IsChunk(wire[x + 1], pending[i].packet, hd[i], j)
    <3>1. at[i] + j - 1 >= 1
      BY <2>2
    <3>2. at[i] + j - 1 <= Len(wire) /\ IsChunk(wire[at[i] + j - 1], pending[i].packet, hd[i], j)
      BY <1>6, <3>1 DEF Carried
    <3>3. QED BY <2>2, <3>2
  <2>4. x \in 1..Len(wire) - 1 /\ x <= Len(wire')
    BY <1>7, <2>2, <2>3
  <2>5. QED BY <1>7, <2>2, <2>3, <2>4
<1>16. Chained(n, hd, v)'
  BY <1>4, <1>6 DEF Chained, Step
<1>17. Sender(v[n])'
  BY <1>5, <1>6 DEF Sender
<1>18. Receiver(n, hd, A, v[0])'
  <2>1. A[1] = at[1] - 1 /\ A[1] < 1 /\ 1 - A[1] = k
    BY <1>1, <1>3, <1>10, <1>11
  <2>2. \A c \in Channel : v[0][c].exact => channelTimestamp'[c] = v[0][c].time
    BY <1>4, <1>6 DEF Receiver
  <2>3. ASSUME NEW c \in Channel, c # p.ch
        PROVE  Rest(channelsIn'[c], v[0][c])
    <3>1. channelsIn'[c] = channelsIn[c]
      BY <1>2, <1>4, <2>3 DEF Types
    <3>2. Rest(channelsIn[c], v[0][c])
      BY <1>1, <1>6, <2>3 DEF Receiver
    <3>3. QED BY <3>1, <3>2
  <2>4. channelsIn'[p.ch] = Partial(m, p, d, 1 - A[1])
    BY <1>2, <1>3, <1>4, <2>1 DEF Types
  <2>5. pending'[1].packet = p
    BY <1>1, <1>4
  <2>6. A[1] # 1
    BY <1>3, <2>1
  <2>7. QED BY <1>1, <2>1, <2>2, <2>3, <2>4, <2>5, <2>6 DEF Receiver
<1>19. Good(n, hd, A, v)'
  BY <1>12, <1>14, <1>15, <1>16, <1>17, <1>18 DEF Good, Witness
<1>20. n = Len(pending')
  BY <1>4
<1>21. QED BY <1>4, <1>8, <1>19, <1>20 DEF Inv

\* At the end of a packet: the first witness of each kind goes.
LEMMA InvReadLast ==
    ASSUME Inv, NEW hd, NEW at, NEW v, NEW n, n = Len(pending), Good(n, hd, at, v), RTMP_ReadPacket,
           2 - at[1] = Chunks(pending[1].packet.size)
    PROVE  Inv'
<1>1. PICK p, d, m, k : p = pending[1].packet /\ d = hd[1] /\ m = v[0][p.ch] /\ k = 2 - at[1]
  OBVIOUS
<1>2. Types /\ wire # <<>>
  BY DEF Inv, RTMP_ReadPacket
<1>3. /\ n \in Nat /\ n >= 1 /\ at[1] \in Int /\ at[1] <= 1 /\ p \in Packets /\ d \in [h : 0..3, t : Time]
      /\ v[0] \in [Channel -> Memory] /\ v[1] \in [Channel -> Memory] /\ at[2] = at[1] + Chunks(p.size)
      /\ p.ch \in Channel /\ m \in Memory /\ Step(pending[1], d, v[0], v[1])
  <2>1. /\ n \in Nat /\ n >= 1 /\ at[1] \in Int /\ at[1] <= 1 /\ p \in Packets /\ d \in [h : 0..3, t : Time]
        /\ v[0] \in [Channel -> Memory] /\ v[1] \in [Channel -> Memory] /\ at[2] = at[1] + Chunks(p.size)
        /\ Step(pending[1], d, v[0], v[1])
    BY <1>1, <1>2, FrontIs
  <2>2. p.ch \in Channel
    BY <2>1 DEF Packets
  <2>3. QED BY <1>1, <2>1, <2>2
<1>4. PICK z, ts :
         /\ z = [type |-> p.type, size |-> p.size, ts |-> After(m, p, d).field, info |-> p.info,
                 read |-> 0, abs |-> FALSE]
         /\ channelsIn' = [channelsIn EXCEPT ![p.ch] = z]
         /\ ts = IF d.h = LARGE THEN After(m, p, d).field
                 ELSE (After(m, p, d).field + channelTimestamp[p.ch]) % TsMod
         /\ channelTimestamp' = [channelTimestamp EXCEPT ![p.ch] = ts]
         /\ got'.framing /\ got'.time = (p.ts = ts) /\ got'.exact = pending[1].exact
         /\ pending' = Tail(pending)
  <2>1. k = Chunks(p.size)
    BY <1>1
  <2>2. QED BY <1>1, <1>2, <2>1, ReadIs
<1>5. wire' = Tail(wire) /\ UNCHANGED <<channelsOut, streamId, field, drift>>
  BY DEF RTMP_ReadPacket
<1>6. /\ Witness(n, hd, at, v) /\ Laid(n, at) /\ Carried(n, hd, at)
      /\ Chained(n, hd, v) /\ Sender(v[n]) /\ Receiver(n, hd, at, v[0])
  BY DEF Good
<1>7. /\ wire' \in Seq(Chunk) /\ Len(wire) \in Nat /\ Len(wire) >= 1 /\ Len(wire') = Len(wire) - 1
      /\ \A j \in 1..Len(wire) - 1 : wire'[j] = wire[j + 1]
  BY <1>2, <1>5 DEF Types
<1>8. /\ pending' \in Seq([packet : Packets, exact : BOOLEAN]) /\ Len(pending') = n - 1
      /\ \A i \in 1..n - 1 : pending'[i] = pending[i + 1]
  BY <1>2, <1>3, <1>4 DEF Types
\* The memory of the channel, and its time.
<1>9. /\ v[1] = [v[0] EXCEPT ![p.ch] = After(m, p, d)] /\ Fits(m, p, d)
      /\ pending[1].exact = v[1][p.ch].exact
  BY <1>1, <1>3 DEF Step
<1>10. v[1][p.ch] = After(m, p, d) /\ \A c \in Channel : c # p.ch => v[1][c] = v[0][c]
  BY <1>3, <1>9
<1>11. ts \in Time /\ (After(m, p, d).exact => ts = p.ts)
  <2>1. PICK last : last = channelTimestamp[p.ch] /\ last \in Time /\ (m.exact => last = m.time)
    BY <1>1, <1>2, <1>3, <1>6 DEF Types, Receiver
  <2>2. QED BY <1>3, <1>4, <1>9, <2>1, TimeIs
<1>12. After(m, p, d).field \in Time
  <2>1. m.field \in Time /\ d.t \in Time
    BY <1>3 DEF Memory
  <2>2. QED BY <2>1 DEF After
<1>13. z \in Stored /\ z # Null /\ z.read <= z.size
  BY <1>3, <1>4, <1>12, ClearedStored
<1>14. Types'
  <2>1. channelsIn' = [channelsIn EXCEPT ![p.ch] = z] /\ channelTimestamp' = [channelTimestamp EXCEPT ![p.ch] = ts]
    BY <1>4
  <2>2. channelsIn' \in [Channel -> Stored \union {Null}]
        /\ \A c \in Channel : channelsIn'[c] # Null => channelsIn'[c].read <= channelsIn'[c].size
    BY ONLY <1>2, <1>3, <1>13, <2>1 DEF Types
  <2>3. channelTimestamp' \in [Channel -> Time]
    BY ONLY <1>2, <1>3, <1>11, <2>1 DEF Types
  <2>4. QED BY <1>2, <1>5, <1>7, <1>8, <2>2, <2>3 DEF Types
<1>15. got'.framing /\ (got'.exact => got'.time)
  <2>1. got'.exact = After(m, p, d).exact
    BY <1>4, <1>9, <1>10
  <2>2. QED BY <1>4, <1>11, <2>1
\* The new witnesses.
<1>16. PICK H : H = [i \in 1..n - 1 |-> hd[i + 1]]
  OBVIOUS
<1>17. PICK A : A = [i \in 1..(n - 1) + 1 |-> at[i + 1] - 1]
  OBVIOUS
<1>18. PICK V : V = [i \in 0..n - 1 |-> v[i + 1]]
  OBVIOUS
<1>19. \A i \in 1..n : at[i + 1] \in Int /\ A[i] = at[i + 1] - 1
  <2>1. \A i \in 1..n : i \in 1..(n - 1) + 1 /\ i + 1 \in 1..n + 1
    BY <1>3
  <2>2. QED BY <1>6, <1>17, <2>1 DEF Witness
<1>20. at[2] = 2 /\ A[1] = 1 /\ 1 \in 1..n
  <2>1. at[2] = 2
    BY <1>1, <1>3
  <2>2. 1 \in 1..n
    BY <1>3
  <2>3. QED BY <1>19, <2>1, <2>2
<1>21. V[0] = v[1] /\ V[n - 1] = v[n] /\ \A i \in 0..n - 1 : V[i] = v[i + 1]
  BY <1>3, <1>18
<1>22. Witness(n - 1, H, A, V)
  <2>1. H \in [1..n - 1 -> [h : 0..3, t : Time]]
    <3>1. \A i \in 1..n - 1 : i + 1 \in 1..n
      BY <1>3
    <3>2. QED BY <1>6, <1>16, <3>1 DEF Witness
  <2>2. A \in [1..(n - 1) + 1 -> Int]
    <3>1. \A i \in 1..(n - 1) + 1 : i \in 1..n
      BY <1>3
    <3>2. QED BY <1>17, <1>19, <3>1
  <2>3. V \in [0..n - 1 -> [Channel -> Memory]]
    <3>1. \A i \in 0..n - 1 : i + 1 \in 0..n
      BY <1>3
    <3>2. QED BY <1>6, <1>18, <3>1 DEF Witness
  <2>4. QED BY <2>1, <2>2, <2>3 DEF Witness
<1>23. \A i \in 1..n - 1 :
          /\ i + 1 \in 1..n /\ H[i] = hd[i + 1]
          /\ at[(i + 1) + 1] = at[i + 1] + Chunks(pending'[i].packet.size) /\ at[(i + 1) + 1] >= 2
          /\ at[i + 1] >= 2
          /\ Chunks(pending'[i].packet.size) \in Nat /\ Chunks(pending'[i].packet.size) >= 1
  <2>1. SUFFICES ASSUME NEW i \in 1..n - 1
                 PROVE  /\ i + 1 \in 1..n /\ i \in 1..n /\ H[i] = hd[i + 1]
                        /\ pending'[i] = pending[i + 1]
                        /\ Chunks(pending'[i].packet.size) \in Nat /\ Chunks(pending'[i].packet.size) >= 1
    BY <1>6 DEF Laid
  <2>2. i + 1 \in 1..n /\ i \in 1..n /\ H[i] = hd[i + 1] /\ pending'[i] = pending[i + 1]
    BY <1>3, <1>8, <1>16
  <2>3. pending'[i] \in [packet : Packets, exact : BOOLEAN]
    <3>1. i \in 1..Len(pending')
      BY <1>8
    <3>2. QED BY <1>8, <3>1, ElementOfSeq
  <2>4. pending'[i].packet.size \in Nat
    BY <2>3, ChunkAssumption DEF Packets
  <2>5. QED BY <2>2, <2>4, ChunksIs
<1>24. Laid(n - 1, A)'
  <2>1. A[1] <= 1 /\ A[1] = 1
    BY <1>20
  <2>2. A[(n - 1) + 1] = Len(wire') + 1
    <3>1. (n - 1) + 1 = n /\ n \in 1..n
      BY <1>3
    <3>2. at[n + 1] = Len(wire) + 1
      BY <1>6 DEF Laid
    <3>3. A[n] = at[n + 1] - 1
      BY <1>19, <3>1
    <3>4. QED BY <1>7, <3>1, <3>2, <3>3
  <2>3. ASSUME NEW i \in 1..n - 1
        PROVE  A[i + 1] = A[i] + Chunks(pending'[i].packet.size) /\ A[i + 1] >= 2
    <3>1. i \in 1..n /\ i + 1 \in 1..n
      BY <1>3
    <3>2. A[i] = at[i + 1] - 1 /\ A[i + 1] = at[(i + 1) + 1] - 1 /\ at[i + 1] \in Int /\ at[(i + 1) + 1] \in Int
      BY <1>19, <3>1
    <3>3. QED BY <1>23, <3>2
  <2>4. QED BY <2>1, <2>2, <2>3 DEF Laid
<1>25. Carried(n - 1, H, A)'
  <2>1. SUFFICES ASSUME NEW i \in 1..n - 1, NEW j \in 1..Chunks(pending'[i].packet.size), A[i] + j - 1 >= 1
                 PROVE  /\ A[i] + j - 1 <= Len(wire')
                        /\ IsChunk(wire'[A[i] + j - 1], pending'[i].packet, H[i], j)
    BY DEF Carried
  <2>2. i + 1 \in 1..n /\ i \in 1..n /\ H[i] = hd[i + 1] /\ pending'[i] = pending[i + 1]
    BY <1>3, <1>8, <1>23
  <2>3. PICK x : x = A[i] + j - 1 /\ x \in Int /\ x >= 1 /\ at[i + 1] + j - 1 = x + 1
    <3>1. j \in Nat /\ j >= 1
      BY <1>23
    <3>2. at[i + 1] \in Int /\ A[i] = at[i + 1] - 1
      BY <1>19, <2>2
    <3>3. QED BY <2>1, <3>1, <3>2
  <2>4. x + 1 <= Len(wire) /\ IsChunk(wire[x + 1], pending[i + 1].packet, hd[i + 1], j)
    <3>1. at[i + 1] + j - 1 >= 1 /\ j \in 1..Chunks(pending[i + 1].packet.size)
      BY <2>2, <2>3
    <3>2. at[i + 1] + j - 1 <= Len(wire) /\ IsChunk(wire[at[i + 1] + j - 1], pending[i + 1].packet, hd[i + 1], j)
      BY <1>6, <2>2, <3>1 DEF Carried
    <3>3. QED BY <2>3, <3>2
  <2>5. x \in 1..Len(wire) - 1 /\ x <= Len(wire')
    BY <1>7, <2>3, <2>4
  <2>6. QED BY <1>7, <2>2, <2>3, <2>4, <2>5
<1>26. Chained(n - 1, H, V)'
  <2>1. SUFFICES ASSUME NEW i \in 1..n - 1 PROVE Step(pending'[i], H[i], V[i - 1], V[i])
    BY DEF Chained, Step
  <2>2. i + 1 \in 1..n /\ i \in 0..n - 1 /\ i - 1 \in 0..n - 1 /\ (i - 1) + 1 = i /\ (i + 1) - 1 = i
    BY <1>3
  <2>3. Step(pending[i + 1], hd[i + 1], v[(i + 1) - 1], v[i + 1])
    BY <1>6, <2>2 DEF Chained
  <2>4. V[i] = v[i + 1] /\ V[i - 1] = v[i] /\ H[i] = hd[i + 1] /\ pending'[i] = pending[i + 1]
    BY <1>8, <1>21, <1>23, <2>2
  <2>5. QED BY <2>2, <2>3, <2>4
<1>27. Sender(V[n - 1])'
  BY <1>5, <1>6, <1>21 DEF Sender
<1>28. Receiver(n - 1, H, A, V[0])'
  <2>1. ASSUME NEW c \in Channel
        PROVE  (v[1][c].exact => channelTimestamp'[c] = v[1][c].time) /\ Rest(channelsIn'[c], v[1][c])
    <3>1. CASE c = p.ch
      <4>1. channelTimestamp'[c] = ts /\ channelsIn'[c] = z
        BY <1>2, <1>3, <1>4, <3>1 DEF Types
      <4>2. PICK u : u = After(m, p, d) /\ u = v[1][c]
        BY <1>10, <3>1
      <4>3. u.time = p.ts /\ u.type = p.type /\ u.size = p.size /\ u.info = p.info
        BY <4>2 DEF After
      <4>4. u.exact => ts = u.time
        BY <1>11, <4>2, <4>3
      <4>5. z = [type |-> u.type, size |-> u.size, ts |-> u.field, info |-> u.info, read |-> 0, abs |-> FALSE]
        BY <1>4, <4>2, <4>3
      <4>6. Rest(z, u)
        BY <1>13, <4>5 DEF Rest
      <4>7. QED BY <4>1, <4>2, <4>4, <4>6
    <3>2. CASE c # p.ch
      <4>1. channelTimestamp'[c] = channelTimestamp[c] /\ channelsIn'[c] = channelsIn[c] /\ v[1][c] = v[0][c]
        BY <1>2, <1>4, <1>10, <3>2 DEF Types
      <4>2. Rest(channelsIn[c], v[0][c]) /\ (v[0][c].exact => channelTimestamp[c] = v[0][c].time)
        BY <1>1, <1>6, <3>2 DEF Receiver
      <4>3. QED BY <4>1, <4>2
    <3>3. QED BY <3>1, <3>2
  <2>2. ~(A[1] < 1)
    BY <1>20
  <2>3. QED BY <1>20, <1>21, <2>1, <2>2 DEF Receiver
<1>29. Good(n - 1, H, A, V)'
  BY <1>22, <1>24, <1>25, <1>26, <1>27, <1>28 DEF Good, Witness
<1>30. QED BY <1>8, <1>14, <1>15, <1>29 DEF Inv

LEMMA InvRead == ASSUME Inv, RTMP_ReadPacket PROVE Inv'
<1>1. PICK hd, at, v, n : n = Len(pending) /\ Good(n, hd, at, v)
  BY DEF Inv
<1>2. Types /\ wire # <<>>
  BY DEF Inv, RTMP_ReadPacket
<1>3. 2 - at[1] \in 1..Chunks(pending[1].packet.size) /\ at[1] \in Int /\ pending[1].packet \in Packets
  BY <1>1, <1>2, FrontIs
<1>4. Chunks(pending[1].packet.size) \in Nat
  <2>1. pending[1].packet.size \in Nat
    BY <1>3, ChunkAssumption DEF Packets
  <2>2. QED BY <2>1, ChunksIs
<1>5. CASE 2 - at[1] < Chunks(pending[1].packet.size)
  BY <1>1, <1>5, InvReadPart
<1>6. CASE 2 - at[1] = Chunks(pending[1].packet.size)
  BY <1>1, <1>6, InvReadLast
<1>7. QED BY <1>3, <1>4, <1>5, <1>6

-----------------------------------------------------------------------------
\* The connection.

LEMMA InvStutter == ASSUME Inv, UNCHANGED vars PROVE Inv'
<1>1. PICK hd, at, v : Good(Len(pending), hd, at, v)
  BY DEF Inv
<1>2. /\ channelsOut' = channelsOut /\ wire' = wire /\ channelsIn' = channelsIn
      /\ channelTimestamp' = channelTimestamp /\ pending' = pending /\ got' = got
      /\ streamId' = streamId /\ field' = field /\ drift' = drift
  BY DEF vars
<1>3. Good(Len(pending), hd, at, v)'
  BY <1>1, <1>2 DEF Good, Witness, Laid, Carried, Chained, Step, Sender, Receiver
<1>4. Types' /\ got'.framing /\ (got'.exact => got'.time)
  BY <1>2 DEF Inv, Types
<1>5. QED BY <1>2, <1>3, <1>4 DEF Inv

\* What the app sends is a packet.
LEMMA AppPackets ==
    ASSUME NEW c \in {Video, Audio}, NEW n \in 0..MaxSize, NEW ts \in Time
    PROVE  /\ AppPacket(c, n, ts) \in Packets /\ AppPacket(c, n, ts).ch = c /\ AppPacket(c, n, ts).ts = ts
           /\ c \in Channel
BY AppAssumption DEF AppPacket, Packets

LEMMA ZeroTime == 0 \in Time
BY ChunkAssumption DEF Time

LEMMA InvNext ==
    ASSUME Inv, clock \in Time, [AppNext]_appVars
    PROVE  Inv' /\ clock' \in Time
<1>1. CASE UNCHANGED appVars
  BY <1>1, InvStutter DEF appVars
<1>2. CASE Tick
  <2>1. clock' \in Time
    BY <1>2, ChunkAssumption DEF Tick, Time
  <2>2. QED BY <1>2, <2>1, InvStutter DEF Tick
<1>3. CASE encodeData
  BY <1>3, InvStutter DEF encodeData
<1>4. CASE queueSPSAndPPSPacket
  <2>1. PICK n \in 0..MaxSize : RTMP_SendPacket(AppPacket(Video, n, 0), MEDIUM)
    BY <1>4 DEF queueSPSAndPPSPacket
  <2>2. AppPacket(Video, n, 0) \in Packets
    BY AppPackets, ZeroTime
  <2>3. QED BY <1>4, <2>1, <2>2, InvSend DEF queueSPSAndPPSPacket
<1>5. CASE queueFramePacket
  <2>1. PICK n \in 0..MaxSize : RTMP_SendPacket(AppPacket(Video, n, clock), LARGE)
    BY <1>5 DEF queueFramePacket
  <2>2. AppPacket(Video, n, clock) \in Packets
    BY AppPackets
  <2>3. QED BY <1>5, <2>1, <2>2, InvSend DEF queueFramePacket
<1>6. CASE queueAacData
  <2>1. PICK n \in 0..MaxSize : RTMP_SendPacket(AppPacket(Audio, n, clock), LARGE)
    BY <1>6 DEF queueAacData
  <2>2. AppPacket(Audio, n, clock) \in Packets
    BY AppPackets
  <2>3. QED BY <1>6, <2>1, <2>2, InvSend DEF queueAacData
<1>7. CASE queueAccDataHeader
  <2>1. PICK n \in 0..MaxSize : RTMP_SendPacket(AppPacket(Audio, n, 0), MEDIUM)
    BY <1>7 DEF queueAccDataHeader
  <2>2. AppPacket(Audio, n, 0) \in Packets
    BY AppPackets, ZeroTime
  <2>3. QED BY <1>7, <2>1, <2>2, InvSend DEF queueAccDataHeader
<1>8. CASE SendAny
  <2>1. PICK p \in Packets, h \in {LARGE, MEDIUM} : RTMP_SendPacket(p, h)
    BY <1>8 DEF SendAny
  <2>2. QED BY <1>8, <2>1, InvSend DEF SendAny
<1>9. CASE RTMP_ReadPacket /\ UNCHANGED <<clock, todoVideo, headerSent>>
  BY <1>9, InvRead
<1>10. QED
  BY <1>1, <1>2, <1>3, <1>4, <1>5, <1>6, <1>7, <1>8, <1>9 DEF AppNext

LEMMA InvAlways == AppSpec => [](Inv /\ clock \in Time)
<1>1. AppInit => Inv /\ clock \in Time
  BY InvInit, ZeroTime DEF AppInit
<1>2. (Inv /\ clock \in Time) /\ [AppNext]_appVars => (Inv /\ clock \in Time)'
  BY InvNext
<1>3. QED BY <1>1, <1>2, PTL DEF AppSpec

\* What a client of librtmp sends arrives complete, in order and with the
\* channel, type, size and stream id it was sent with, and the receiver never
\* runs into the next header or stops short of it: for any sequence of packets
\* and headers, any chunk size, any time stamps, any number in flight.
THEOREM FramingExactAlways == AppSpec => []FramingExact
<1>1. Inv => FramingExact
  <2>1. SUFFICES ASSUME Inv PROVE TypeOK /\ InSync /\ got.framing
    BY DEF FramingExact
  <2>2. PICK hd, at, v, n : n = Len(pending) /\ Good(n, hd, at, v)
    BY <2>1 DEF Inv
  <2>3. TypeOK
    BY <2>1 DEF Inv, Types, TypeOK
  <2>4. ASSUME wire # <<>> PROVE Wanted(Parsed(Head(wire))) = Head(wire).len
    <3>1. PICK p, m, d, k : p = pending[1].packet /\ m = v[0][p.ch] /\ d = hd[1] /\ k = 2 - at[1]
      OBVIOUS
    <3>2. Types
      BY <2>1 DEF Inv
    <3>3. /\ p \in Packets /\ d \in [h : 0..3, t : Time] /\ v[0] \in [Channel -> Memory]
          /\ k \in 1..Chunks(p.size) /\ IsChunk(Head(wire), p, d, k)
      BY <2>2, <2>4, <3>1, <3>2, FrontIs
    <3>4. m \in Memory
      BY <3>1, <3>3 DEF Packets
    <3>5. Parsed(Head(wire)) = Partial(m, p, d, k - 1)
      BY <2>2, <2>4, <3>1, <3>2, ParsedFront
    <3>6. Wanted(Partial(m, p, d, k - 1)) = ChunkLen(p.size, k)
      BY <3>3, <3>4, PartialIs
    <3>7. QED BY <3>3, <3>5, <3>6 DEF IsChunk
  <2>5. QED BY <2>1, <2>3, <2>4 DEF Inv, InSync
<1>2. QED BY <1>1, InvAlways, PTL

\* A time stamp arrives as it was sent, on either side of the extension marker
\* and across wrap-around, unless a 1-byte header repeated a non-zero field.
THEOREM TimestampUnlessDriftAlways == AppSpec => []TimestampUnlessDrift
<1>1. Inv => TimestampUnlessDrift
  BY DEF Inv, TimestampUnlessDrift
<1>2. QED BY <1>1, InvAlways, PTL

-----------------------------------------------------------------------------
\* The app's own stream never repeats a non-zero field: before a config packet,
\* and before the AAC header, the channel carried nothing but full headers.

FullOnly(c) == channelsOut[c] # Null => field[c] = channelsOut[c].ts

NoDrift == /\ \A c \in Channel : ~drift[c]
           /\ \A i \in 1..Len(pending) : pending[i].exact
           /\ got.exact
           /\ todoVideo \in {<<>>, <<"frame">>, <<"config", "frame">>}
           /\ todoVideo = <<"frame">> \/ FullOnly(Video)
           /\ headerSent \/ FullOnly(Audio)

\* A packet with a full header, or with time 0 after full headers, starts no drift.
LEMMA SendExact ==
    ASSUME Types, NEW p \in Packets, NEW h \in {LARGE, MEDIUM}, RTMP_SendPacket(p, h), ~drift[p.ch],
           h = LARGE \/ (p.ts = 0 /\ FullOnly(p.ch)),
           \A i \in 1..Len(pending) : pending[i].exact, \A c \in Channel : ~drift[c]
    PROVE  /\ \A i \in 1..Len(pending') : pending'[i].exact
           /\ \A c \in Channel : ~drift'[c]
           /\ h = LARGE => FullOnly(p.ch)'
           /\ \A c \in Channel : c # p.ch /\ FullOnly(c) => FullOnly(c)'
           /\ got' = got
<1> DEFINE prev == channelsOut[p.ch]
           h1 == HeaderType(prev, p, h)
           t == Delta(prev, p, h1)
           id == IF h1 = LARGE THEN p.info ELSE streamId[p.ch]
           off == CASE h1 = LARGE -> FALSE
                    [] h1 = MINIMUM -> drift[p.ch] \/ field[p.ch] # 0
                    [] OTHER -> drift[p.ch]
<1>1. /\ channelsOut' = [channelsOut EXCEPT ![p.ch] = p]
      /\ field' = [field EXCEPT ![p.ch] = IF h1 = MINIMUM THEN @ ELSE t]
      /\ drift' = [drift EXCEPT ![p.ch] = off]
      /\ pending' = Append(pending, [packet |-> [p EXCEPT !.info = id], exact |-> ~off])
      /\ got' = got
  BY DEF RTMP_SendPacket
<1>2. p.ch \in Channel /\ p.ts \in Time /\ p # Null
  BY NullAssumption DEF Packets
<1>3. /\ h1 \in {LARGE, MEDIUM, SMALL, MINIMUM}
      /\ h1 = MINIMUM => prev # Null /\ prev.ts = p.ts
      /\ h1 = LARGE <=> h = LARGE
  BY DEF HeaderType, LARGE, MEDIUM, SMALL, MINIMUM
<1>4. h1 = LARGE => t = p.ts
  <2>1. (p.ts - 0 + TsMod) % TsMod = p.ts
    BY <1>2, TimesAre
  <2>2. QED BY <2>1 DEF Delta
<1> HIDE DEF h1, t
<1>5. h1 = MINIMUM => field[p.ch] = 0
  BY <1>3 DEF FullOnly, LARGE, MINIMUM
<1> HIDE DEF prev
<1>6. ~off
  <2>1. CASE h1 = LARGE
    BY <2>1 DEF LARGE, MINIMUM
  <2>2. CASE h1 # LARGE /\ h1 = MINIMUM
    <3>1. off = (drift[p.ch] \/ field[p.ch] # 0)
      BY <2>2
    <3>2. QED BY <1>5, <2>2, <3>1
  <2>3. CASE h1 # LARGE /\ h1 # MINIMUM
    <3>1. off = drift[p.ch]
      BY <2>3
    <3>2. QED BY <3>1
  <2>4. QED BY <2>1, <2>2, <2>3
<1> HIDE DEF off, id
<1>7. \A c \in Channel : ~drift'[c]
  BY <1>1, <1>2, <1>6 DEF Types
<1>8. PICK e : e = [packet |-> [p EXCEPT !.info = id], exact |-> ~off] /\ e.exact = ~off /\ pending' = Append(pending, e)
  BY <1>1
<1>9. \A i \in 1..Len(pending') : pending'[i].exact
  <2>1. Len(pending') = Len(pending) + 1 /\ pending'[Len(pending) + 1] = e
        /\ \A i \in 1..Len(pending) : pending'[i] = pending[i]
    BY ONLY Types, <1>8 DEF Types
  <2>2. Len(pending) \in Nat
    BY DEF Types
  <2>3. SUFFICES ASSUME NEW i \in 1..Len(pending') PROVE pending'[i].exact
    OBVIOUS
  <2>4. i \in 1..Len(pending) \/ i = Len(pending) + 1
    BY <2>1, <2>2
  <2>5. QED BY <1>6, <1>8, <2>1, <2>4
<1>10. h = LARGE => FullOnly(p.ch)'
  <2>1. h = LARGE => field'[p.ch] = p.ts /\ channelsOut'[p.ch] = p
    BY <1>1, <1>2, <1>3, <1>4 DEF Types, LARGE, MINIMUM
  <2>2. QED BY <2>1 DEF FullOnly
<1>11. ASSUME NEW c \in Channel, c # p.ch, FullOnly(c) PROVE FullOnly(c)'
  <2>1. field'[c] = field[c] /\ channelsOut'[c] = channelsOut[c]
    BY <1>1, <1>2, <1>11 DEF Types
  <2>2. QED BY <1>11, <2>1 DEF FullOnly
<1>12. QED BY <1>1, <1>7, <1>9, <1>10, <1>11

\* What is read is exact if what is in flight is.
LEMMA ReadExact ==
    ASSUME Inv, RTMP_ReadPacket, \A i \in 1..Len(pending) : pending[i].exact, got.exact
    PROVE  (\A i \in 1..Len(pending') : pending'[i].exact) /\ got'.exact
<1>1. PICK hd, at, v, n : n = Len(pending) /\ Good(n, hd, at, v)
  BY DEF Inv
<1>2. PICK p, d, m, k : p = pending[1].packet /\ d = hd[1] /\ m = v[0][p.ch] /\ k = 2 - at[1]
  OBVIOUS
<1>3. Types /\ wire # <<>>
  BY DEF Inv, RTMP_ReadPacket
<1>4. n \in Nat /\ n >= 1 /\ k \in 1..Chunks(p.size) /\ p \in Packets
  BY <1>1, <1>2, <1>3, FrontIs
<1>5. Chunks(p.size) \in Nat
  <2>1. p.size \in Nat
    BY <1>4, ChunkAssumption DEF Packets
  <2>2. QED BY <2>1, ChunksIs
<1>6. CASE k < Chunks(p.size)
  <2>1. got' = got /\ pending' = pending
    BY <1>1, <1>2, <1>3, <1>6, ReadIs
  <2>2. QED BY <2>1
<1>7. CASE k = Chunks(p.size)
  <2>1. got'.exact = pending[1].exact /\ pending' = Tail(pending)
    BY <1>1, <1>2, <1>3, <1>7, ReadIs
  <2>2. Len(pending') = n - 1 /\ \A i \in 1..n - 1 : pending'[i] = pending[i + 1]
    BY <1>1, <1>3, <1>4, <2>1 DEF Types
  <2>3. 1 \in 1..n /\ \A i \in 1..n - 1 : i + 1 \in 1..n
    BY <1>4
  <2>4. QED BY <1>1, <2>1, <2>2, <2>3
<1>8. QED BY <1>4, <1>5, <1>6, <1>7

LEMMA NoDriftNext ==
    ASSUME Inv, clock \in Time, app, NoDrift, [AppNext]_appVars
    PROVE  NoDrift'
<1>1. Types /\ Video \in Channel /\ Audio \in Channel /\ Video # Audio
  BY AppAssumption DEF Inv
<1>2. ASSUME UNCHANGED vars, todoVideo' \in {<<>>, <<"frame">>, <<"config", "frame">>},
             todoVideo' = <<"frame">> \/ todoVideo' = todoVideo \/ todoVideo = <<>>, headerSent' = headerSent
      PROVE  NoDrift'
  <2>1. <<>> # <<"frame">>
    OBVIOUS
  <2>2. channelsOut' = channelsOut /\ field' = field /\ drift' = drift /\ pending' = pending /\ got' = got
    BY <1>2 DEF vars
  <2>3. \A c : FullOnly(c) => FullOnly(c)'
    BY <2>2 DEF FullOnly
  <2>4. todoVideo' = <<"frame">> \/ FullOnly(Video)'
    BY <1>2, <2>1, <2>3 DEF NoDrift
  <2>5. QED BY <1>2, <2>2, <2>3, <2>4 DEF NoDrift
<1>3. CASE UNCHANGED appVars
  BY <1>2, <1>3 DEF appVars, NoDrift
<1>4. CASE Tick
  BY <1>2, <1>4 DEF Tick, NoDrift
<1>5. CASE encodeData
  BY <1>2, <1>5 DEF encodeData
<1>6. CASE queueSPSAndPPSPacket
  <2>1. PICK n \in 0..MaxSize : RTMP_SendPacket(AppPacket(Video, n, 0), MEDIUM)
    BY <1>6 DEF queueSPSAndPPSPacket
  <2>2. AppPacket(Video, n, 0) \in Packets /\ AppPacket(Video, n, 0).ch = Video /\ AppPacket(Video, n, 0).ts = 0
    BY AppPackets, ZeroTime
  <2>3. todoVideo # <<>> /\ Head(todoVideo) = "config" /\ todoVideo' = Tail(todoVideo) /\ headerSent' = headerSent
    BY <1>6 DEF queueSPSAndPPSPacket
  <2>4. todoVideo = <<"config", "frame">>
    BY <2>3 DEF NoDrift
  <2>5. todoVideo' = <<"frame">>
    BY <2>3, <2>4
  <2>6. todoVideo # <<"frame">>
    BY <2>3
  <2>7. FullOnly(Video)
    BY <2>6 DEF NoDrift
  <2>8. /\ \A i \in 1..Len(pending') : pending'[i].exact
        /\ \A c \in Channel : ~drift'[c]
        /\ \A c \in Channel : c # Video /\ FullOnly(c) => FullOnly(c)'
        /\ got' = got
    BY <1>1, <2>1, <2>2, <2>7, SendExact DEF NoDrift
  <2>9. QED BY <1>1, <2>3, <2>5, <2>8 DEF NoDrift
<1>7. CASE queueFramePacket
  <2>1. PICK n \in 0..MaxSize : RTMP_SendPacket(AppPacket(Video, n, clock), LARGE)
    BY <1>7 DEF queueFramePacket
  <2>2. AppPacket(Video, n, clock) \in Packets /\ AppPacket(Video, n, clock).ch = Video
    BY AppPackets
  <2>3. todoVideo # <<>> /\ Head(todoVideo) = "frame" /\ todoVideo' = Tail(todoVideo) /\ headerSent' = headerSent
    BY <1>7 DEF queueFramePacket
  <2>4. todoVideo = <<"frame">>
    BY <2>3 DEF NoDrift
  <2>5. todoVideo' = <<>>
    BY <2>3, <2>4
  <2>6. /\ \A i \in 1..Len(pending') : pending'[i].exact
        /\ \A c \in Channel : ~drift'[c]
        /\ FullOnly(Video)'
        /\ \A c \in Channel : c # Video /\ FullOnly(c) => FullOnly(c)'
        /\ got' = got
    BY <1>1, <2>1, <2>2, SendExact DEF NoDrift
  <2>7. QED BY <1>1, <2>3, <2>5, <2>6 DEF NoDrift
<1>8. CASE queueAacData
  <2>1. PICK n \in 0..MaxSize : RTMP_SendPacket(AppPacket(Audio, n, clock), LARGE)
    BY <1>8 DEF queueAacData
  <2>2. AppPacket(Audio, n, clock) \in Packets /\ AppPacket(Audio, n, clock).ch = Audio
    BY AppPackets
  <2>3. /\ \A i \in 1..Len(pending') : pending'[i].exact
        /\ \A c \in Channel : ~drift'[c]
        /\ FullOnly(Audio)'
        /\ \A c \in Channel : c # Audio /\ FullOnly(c) => FullOnly(c)'
        /\ got' = got
    BY <1>1, <2>1, <2>2, SendExact DEF NoDrift
  <2>4. todoVideo' = todoVideo /\ headerSent' = headerSent
    BY <1>8 DEF queueAacData
  <2>5. QED BY <1>1, <2>3, <2>4 DEF NoDrift
<1>9. CASE queueAccDataHeader
  <2>1. PICK n \in 0..MaxSize : RTMP_SendPacket(AppPacket(Audio, n, 0), MEDIUM)
    BY <1>9 DEF queueAccDataHeader
  <2>2. AppPacket(Audio, n, 0) \in Packets /\ AppPacket(Audio, n, 0).ch = Audio /\ AppPacket(Audio, n, 0).ts = 0
    BY AppPackets, ZeroTime
  <2>3. ~headerSent /\ headerSent' /\ todoVideo' = todoVideo
    BY <1>9 DEF queueAccDataHeader
  <2>4. FullOnly(Audio)
    BY <2>3 DEF NoDrift
  <2>5. /\ \A i \in 1..Len(pending') : pending'[i].exact
        /\ \A c \in Channel : ~drift'[c]
        /\ \A c \in Channel : c # Audio /\ FullOnly(c) => FullOnly(c)'
        /\ got' = got
    BY <1>1, <2>1, <2>2, <2>4, SendExact DEF NoDrift
  <2>6. QED BY <1>1, <2>3, <2>5 DEF NoDrift
<1>10. CASE RTMP_ReadPacket /\ UNCHANGED <<clock, todoVideo, headerSent>>
  <2>1. (\A i \in 1..Len(pending') : pending'[i].exact) /\ got'.exact
    BY <1>10, ReadExact DEF NoDrift
  <2>2. channelsOut' = channelsOut /\ field' = field /\ drift' = drift
        /\ todoVideo' = todoVideo /\ headerSent' = headerSent
    BY <1>10 DEF RTMP_ReadPacket
  <2>3. \A c : FullOnly(c) => FullOnly(c)'
    BY <2>2 DEF FullOnly
  <2>4. QED BY <2>1, <2>2, <2>3 DEF NoDrift
<1>11. QED
  BY <1>3, <1>4, <1>5, <1>6, <1>7, <1>8, <1>9, <1>10 DEF AppNext

\* Every time stamp the app sends arrives as it was sent.
THEOREM TimestampExactAlways == AppSpec => []TimestampExact
<1>1. AppInit => NoDrift
  <2>1. SUFFICES ASSUME AppInit PROVE NoDrift
    OBVIOUS
  <2>2. Len(pending) = 0 /\ got.exact /\ todoVideo = <<>>
    BY <2>1 DEF AppInit, Init
  <2>3. \A c \in Channel : ~drift[c] /\ channelsOut[c] = Null
    BY <2>1 DEF AppInit, Init
  <2>4. FullOnly(Video) /\ FullOnly(Audio)
    BY <2>3, AppAssumption DEF FullOnly
  <2>5. QED BY <2>2, <2>3, <2>4 DEF NoDrift
<1>2. (Inv /\ clock \in Time) /\ (app => NoDrift) /\ [AppNext]_appVars => (app => NoDrift)'
  <2>1. [AppNext]_appVars => app' = app
    BY DEF AppNext, appVars
  <2>2. QED BY <2>1, NoDriftNext
<1>3. Inv /\ (app => NoDrift) => TimestampExact
  BY DEF Inv, NoDrift, TimestampExact
<1>4. QED BY <1>1, <1>2, <1>3, InvAlways, PTL DEF AppSpec

==============================================================================
