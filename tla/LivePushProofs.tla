---------------------------- MODULE LivePushProofs ----------------------------
(***************************************************************************)
(* Proofs about LivePush: types, and that a release that finds everything  *)
(* at rest is safe, for any number of openings of the camera; and that in  *)
(* one session no packet is lost or sent after the stop, and a release     *)
(* that finds everything at rest leaves nothing allocated.                 *)
(***************************************************************************)
EXTENDS LivePush, FiniteSetTheorems, SequenceTheorems, TLAPS

CamPlaces  == {"off", "starting", "idle", "java", "encode", "check", "make", "push"}
MicPlaces  == {"off", "posted", "loop", "read", "java", "encode", "check", "make", "push"}
PushPlaces == {"off", "alloc", "connect", "connecting", "connectStream", "streaming",
               "setRtmpVideo", "setRtmpAudio", "ready", "setWork", "setQueueVideo",
               "setQueueAudio", "header", "check", "make", "push", "loop", "pop", "asleep",
               "popped", "send", "sending", "sent", "release", "exit", "close", "free"}

\* Where the UI thread is after nativeStop, the encoders still there or not.
Closing  == {"closeRtmp", "freeRtmp", "closeVideo"}
Deleting == {"stopQueue", "clearQueue", "freeVideo"}
Ending   == {"deleteAudio", "freeAudio", "flags"}
UIPlaces == {"idle", "newRecorder", "rtmpstart", "stop"} \cup Closing \cup Deleting \cup Ending

Record == [live: BOOLEAN, opened: BOOLEAN, started: BOOLEAN,
           queue: {Null, Wild, "set"}, rtmp: {Null, Wild} \cup Sessions]

\* The UI thread and the globals.
TypesUI ==
    /\ ui \in UIPlaces /\ opens \in 0..MaxOpens /\ open \in BOOLEAN /\ calm \in BOOLEAN
    /\ x264VideoEncode \in {Null} \cup Encoders
    /\ faacAudioEncode \in {Null} \cup Encoders
    /\ alreadyTryConnect \in BOOLEAN /\ readPushing \in BOOLEAN /\ work \in BOOLEAN
    /\ fault \in {"none", "nullPointer", "useAfterFree", "doubleFree",
                  "nullCallback", "wildPointer"}

\* The threads.
TypesPc ==
    /\ pc \in [Actors -> CamPlaces \cup MicPlaces \cup PushPlaces]
    /\ \A a \in Actors : /\ a[1] = "cam" => pc[a] \in CamPlaces
                         /\ a[1] = "mic" => pc[a] \in MicPlaces
                         /\ a[1] = "push" => pc[a] \in PushPlaces

\* The encoders and the connections.
TypesEnc == enc \in [Encoders -> Record]
TypesConn ==
    /\ rtmp \in {Null} \cup Sessions
    /\ conn \in [Sessions -> {"none", "init", "connected", "closed", "freed"}]

\* The calls into them.
TypesCall ==
    /\ obj \in [Actors -> {Null} \cup Encoders]
    /\ \A a \in Actors : pc[a] \in {"encode", "check", "make", "push"} => obj[a] \in Encoders
    /\ chan \in [Sessions -> {Null} \cup Sessions]
    /\ \A s \in Sessions : pc[P(s)] \in {"connecting", "streaming", "sending"} => chan[s] \in Sessions

\* The packets.
TypesPacket ==
    /\ made \in Nat
    /\ videoPacket \in {Null} \cup 1..made
    /\ heap \in SUBSET (1..made)
    /\ q \in Seq(1..made)
    /\ hand \in [Actors -> {Null} \cup 1..made]
    /\ \A a \in Actors : pc[a] = "push" => hand[a] \in 1..made

\* What the encoders have still to queue.
TypesTodo ==
    /\ accepted \in SUBSET Kinds
    /\ todo \in [Actors -> Seq(Kinds)]
    /\ \A a \in Actors : pc[a] \in {"check", "make", "push"} => todo[a] # <<>>

TypesAudio == record \in [Sessions -> {"null", "recording"}]

Types == /\ TypesUI /\ TypesPc /\ TypesEnc /\ TypesConn /\ TypesCall
         /\ TypesPacket /\ TypesTodo /\ TypesAudio

\* A session begins with its threads off; its encoder is there until it is deleted.
Session ==
    /\ ui \in {"newRecorder", "rtmpstart"} => open
    /\ ui \notin {"idle", "newRecorder", "rtmpstart"} => ~open
    /\ open \/ ui # "idle" => opens \in Sessions
    /\ \A a \in Actors : a[2] > opens => pc[a] = "off"
    /\ ui \in {"newRecorder", "rtmpstart"} => \A a \in Actors : a[2] = opens => pc[a] = "off"
    /\ open \/ ui \in {"stop"} \cup Closing \cup Deleting => x264VideoEncode = <<"video", opens>>
    /\ ui = "freeAudio" => faacAudioEncode \in Encoders

\* The global rtmp never leads to a connection that was freed.
Connection == rtmp # Null => conn[rtmp] # "freed"

\* A packet in the global videoPacket is in the hands of a push thread.
Holding == {"popped", "send", "sending", "sent", "release"}
Held == videoPacket # Null => \E s \in Sessions : pc[P(s)] \in Holding

\* Once a push thread is past setQueue, the encoder of its session has its queue.
WiredPlaces == {"setQueueAudio", "header", "check", "make", "push", "loop", "pop", "asleep",
                "popped", "send", "sending", "sent"}
Wired == (open \/ ui = "stop") /\ pc[P(opens)] \in WiredPlaces
            => enc[<<"video", opens>>].queue = "set"

\* A release that found everything at rest.
Calm ==
    calm => /\ fault = "none" /\ ~open /\ opens \in Sessions
            /\ ui \in {"idle"} \cup Closing \cup Deleting \cup Ending
            /\ ~alreadyTryConnect /\ ~readPushing
            /\ q = <<>> /\ videoPacket = Null
            /\ \A a \in Actors :
                  /\ a[1] = "cam" => pc[a] \in {"off", "idle", "java"}
                  /\ a[1] = "mic" => /\ pc[a] \in {"off", "loop", "read", "java"}
                                     /\ pc[a] = "read" => record[a[2]] = "recording"
                  /\ a[1] = "push" => pc[a] \in {"off"} \cup
                        IF a[2] = opens THEN {"asleep", "pop", "popped", "release", "exit"} ELSE {}
            /\ ui \in Closing \cup {"stopQueue"} => enc[<<"video", opens>>].queue = "set"

Inv == Types /\ Session /\ Connection /\ Held /\ Wired /\ Calm

-----------------------------------------------------------------------------
LEMMA ThreadsOf ==
    ASSUME NEW s \in Sessions
    PROVE  /\ <<"cam", s>> \in Actors /\ <<"mic", s>> \in Actors /\ <<"push", s>> \in Actors
           /\ <<"video", s>> \in Encoders /\ <<"audio", s>> \in Encoders
BY DEF Actors, Encoders

LEMMA TailIs ==
    ASSUME NEW S, NEW t \in Seq(S), t # <<>>
    PROVE  /\ Tail(t) \in Seq(S) /\ Head(t) \in S
           /\ Len(t) \in Nat \ {0} /\ (Len(t) # 1 => Tail(t) # <<>>)
<1>1. Tail(t) \in Seq(S) /\ Head(t) \in S /\ Len(t) \in Nat \ {0} /\ Len(Tail(t)) = Len(t) - 1
  OBVIOUS
<1>2. Len(<<>>) = 0
  OBVIOUS
<1>3. QED BY <1>1, <1>2

LEMMA ShortSeqs ==
    ASSUME NEW S, NEW x \in S, NEW y \in S, NEW z \in S
    PROVE  <<>> \in Seq(S) /\ <<x>> \in Seq(S) /\ <<x, y>> \in Seq(S) /\ <<x, y, z>> \in Seq(S)
OBVIOUS

LEMMA SetEnc ==
    ASSUME NEW f \in [Encoders -> Record], NEW e, NEW r \in Record
    PROVE  [f EXCEPT ![e] = r] \in [Encoders -> Record]
OBVIOUS

LEMMA SetFields ==
    ASSUME NEW r \in Record
    PROVE  /\ \A b \in BOOLEAN : /\ [r EXCEPT !.live = b] \in Record
                                 /\ [r EXCEPT !.opened = b] \in Record
                                 /\ [r EXCEPT !.started = b] \in Record
           /\ \A p \in {Null, Wild, "set"} : [r EXCEPT !.queue = p] \in Record
           /\ \A p \in {Null, Wild} \cup Sessions : [r EXCEPT !.rtmp = p] \in Record
BY DEF Record

\* The process dies where it may: everything else stays.
LEMMA Crashes ==
    ASSUME Inv, ~calm, UNCHANGED <<globals, queue, objects, threads, app>>,
           fault' \in {"nullPointer", "useAfterFree", "doubleFree", "nullCallback", "wildPointer"}
    PROVE  Inv'
<1> USE DEF globals, queue, objects, threads, app
<1>1. TypesUI' /\ TypesPc' /\ TypesEnc' /\ TypesConn' /\ TypesAudio' /\ Session' /\ Connection' /\ Calm'
  BY DEF Inv, Types, TypesUI, TypesPc, TypesEnc, TypesConn, TypesAudio, Session, Connection, Calm
<1>2. TypesCall' /\ TypesPacket' /\ TypesTodo' /\ Held' /\ Wired'
  BY DEF Inv, Types, TypesCall, TypesPacket, TypesTodo, Held, Wired
<1>3. QED BY <1>1, <1>2 DEF Inv, Types

\* openCamera.
LEMMA Opens == ASSUME Inv, fault = "none", OpenCamera PROVE Inv'
<1> USE DEF OpenCamera, globals, queue, objects, threads, app
<1>1. /\ nativeX264EncodeInit => opens + 1 \in Sessions
      /\ newAudioRecorderTool \/ nativeRtmpstart => opens \in Sessions
      /\ opens \in Nat /\ \A a \in Actors : a[2] \in Nat
  <2>1. opens \in Nat /\ \A a \in Actors : a[2] \in Nat
    BY BoundAssumption DEF Inv, Types, TypesUI, Actors, Sessions
  <2>2. nativeX264EncodeInit => opens + 1 \in Sessions
    <3>1. nativeX264EncodeInit => opens < MaxOpens
      BY DEF nativeX264EncodeInit
    <3>2. QED BY <2>1, <3>1, BoundAssumption DEF Sessions
  <2>3. newAudioRecorderTool \/ nativeRtmpstart => opens \in Sessions
    BY DEF Inv, Session, newAudioRecorderTool, nativeRtmpstart
  <2>4. QED BY <2>1, <2>2, <2>3
<1>2. /\ nativeRtmpstart => \A a \in Actors : \/ pc'[a] = pc[a]
                                              \/ a[1] = "cam" /\ a[2] = opens /\ pc'[a] = "starting"
                                              \/ a[1] = "push" /\ a[2] = opens /\ pc'[a] = "alloc"
      /\ nativeRtmpstart => pc' \in [Actors -> CamPlaces \cup MicPlaces \cup PushPlaces]
      /\ nativeRtmpstart => \A a \in Actors : a[2] = opens => pc[a] = "off"
      /\ ~nativeRtmpstart => pc' = pc
  <2>1. CASE nativeRtmpstart
    <3>1. PICK c \in Actors : c = <<"cam", opens>> /\ c[1] = "cam" /\ c[2] = opens
      BY <1>1, <2>1, ThreadsOf
    <3>2. PICK p \in Actors : p = <<"push", opens>> /\ p[1] = "push" /\ p[2] = opens
      BY <1>1, <2>1, ThreadsOf
    <3>3. pc' = [pc EXCEPT ![c] = IF BackCamera THEN "starting" ELSE @, ![p] = IF alreadyTryConnect THEN @ ELSE "alloc"]
      BY <2>1, <3>1, <3>2 DEF nativeRtmpstart
    <3>4. pc \in [Actors -> CamPlaces \cup MicPlaces \cup PushPlaces]
      BY DEF Inv, Types, TypesPc
    <3>5. "starting" \in CamPlaces /\ "alloc" \in PushPlaces
      BY DEF CamPlaces, PushPlaces
    <3>6. \A a \in Actors : a[2] = opens => pc[a] = "off"
      BY <2>1 DEF Inv, Session, nativeRtmpstart
    <3>7. \A a \in Actors : pc'[a] = IF a = p THEN (IF alreadyTryConnect THEN pc[a] ELSE "alloc")
                                     ELSE IF a = c THEN (IF BackCamera THEN "starting" ELSE pc[a]) ELSE pc[a]
      BY <3>1, <3>2, <3>3, <3>4
    <3>8. pc' \in [Actors -> CamPlaces \cup MicPlaces \cup PushPlaces]
      BY <3>3, <3>4, <3>5
    <3>9. QED BY <2>1, <3>1, <3>2, <3>6, <3>7, <3>8
  <2>2. CASE ~nativeRtmpstart
    BY <2>2 DEF nativeX264EncodeInit, newAudioRecorderTool
  <2>3. QED BY <2>1, <2>2
<1>3. TypesUI'
  <2>1. CASE nativeX264EncodeInit
    <3>1. <<"video", opens + 1>> \in Encoders
      BY <1>1, <2>1, ThreadsOf
    <3>2. opens + 1 \in 0..MaxOpens
      BY <1>1, <2>1, BoundAssumption DEF Sessions
    <3>3. QED BY <2>1, <3>1, <3>2 DEF Inv, Types, TypesUI, UIPlaces, nativeX264EncodeInit
  <2>2. CASE newAudioRecorderTool
    <3>1. <<"audio", opens>> \in Encoders
      BY <1>1, <2>2, ThreadsOf
    <3>2. QED BY <2>2, <3>1 DEF Inv, Types, TypesUI, UIPlaces, newAudioRecorderTool
  <2>3. CASE nativeRtmpstart
    BY <2>3 DEF Inv, Types, TypesUI, UIPlaces, nativeRtmpstart
  <2>4. QED BY <2>1, <2>2, <2>3
<1>4. TypesPc'
  <2>1. "starting" \in CamPlaces /\ "alloc" \in PushPlaces
    BY DEF CamPlaces, PushPlaces
  <2>2. QED BY <1>2, <2>1 DEF Inv, Types, TypesPc
<1>5. TypesEnc'
  <2>1. enc \in [Encoders -> Record] /\ NoEncoder \in Record
    BY DEF Inv, Types, TypesEnc, NoEncoder, Record
  <2>2. CASE nativeX264EncodeInit
    <3>1. PICK qp \in {Null, Wild}, rp \in {Null, Wild} : enc' = [enc EXCEPT ![<<"video", opens + 1>>] =
                     [NoEncoder EXCEPT !.live = TRUE, !.queue = qp, !.rtmp = rp]]
      BY <2>2, BoundAssumption DEF nativeX264EncodeInit
    <3>2. [NoEncoder EXCEPT !.live = TRUE, !.queue = qp, !.rtmp = rp] \in Record
      BY DEF NoEncoder, Record
    <3>3. QED BY <2>1, <3>1, <3>2, SetEnc DEF TypesEnc
  <2>3. CASE newAudioRecorderTool
    <3>1. PICK qp \in {Null, Wild} : enc' = [enc EXCEPT ![<<"audio", opens>>] =
                     [NoEncoder EXCEPT !.live = TRUE, !.opened = TRUE, !.queue = qp]]
      BY <2>3, BoundAssumption DEF newAudioRecorderTool
    <3>2. [NoEncoder EXCEPT !.live = TRUE, !.opened = TRUE, !.queue = qp] \in Record
      BY DEF NoEncoder, Record
    <3>3. QED BY <2>1, <3>1, <3>2, SetEnc DEF TypesEnc
  <2>4. CASE nativeRtmpstart
    BY <2>4 DEF Inv, Types, TypesEnc, nativeRtmpstart
  <2>5. QED BY <2>2, <2>3, <2>4
<1>6. TypesConn' /\ TypesAudio' /\ Connection'
  BY DEF Inv, Types, TypesConn, TypesAudio, Connection, nativeX264EncodeInit, newAudioRecorderTool, nativeRtmpstart
<1>7. UNCHANGED <<obj, chan, made, videoPacket, heap, q, hand, accepted, todo>>
  BY DEF nativeX264EncodeInit, newAudioRecorderTool, nativeRtmpstart
<1>8. /\ \A a \in Actors : pc'[a] \in {"encode", "check", "make", "push"} => pc'[a] = pc[a]
      /\ \A s \in Sessions : pc'[P(s)] \in {"connecting", "streaming", "sending"} => pc'[P(s)] = pc[P(s)]
      /\ \A s \in Sessions : pc[P(s)] \in Holding => pc'[P(s)] = pc[P(s)]
  <2>1. \A s \in Sessions : P(s) \in Actors
    BY ThreadsOf DEF P
  <2>2. \A a \in Actors : pc'[a] = pc[a] \/ (pc[a] = "off" /\ pc'[a] \in {"starting", "alloc"})
    <3>1. CASE nativeRtmpstart
      BY <1>2, <3>1
    <3>2. CASE ~nativeRtmpstart
      BY <1>2, <3>2
    <3>3. QED BY <3>1, <3>2
  <2>3. QED BY <2>1, <2>2 DEF Holding
<1>9. TypesCall' /\ TypesPacket' /\ TypesTodo'
  <2>1. TypesCall'
    BY <1>7, <1>8 DEF Inv, Types, TypesCall
  <2>2. TypesPacket'
    BY <1>7, <1>8 DEF Inv, Types, TypesPacket
  <2>3. TypesTodo'
    BY <1>7, <1>8 DEF Inv, Types, TypesTodo
  <2>4. QED BY <2>1, <2>2, <2>3
<1>10. Held'
  BY <1>7, <1>8 DEF Inv, Held
<1>11. Session'
  <2>1. CASE nativeX264EncodeInit
    <3>1. /\ ui' = "newRecorder" /\ open' /\ opens' = opens + 1 /\ pc' = pc
          /\ x264VideoEncode' = <<"video", opens + 1>>
      BY <2>1 DEF nativeX264EncodeInit
    <3>2. \A a \in Actors : a[2] >= opens + 1 => pc[a] = "off"
      BY <1>1 DEF Inv, Session
    <3>3. QED BY <1>1, <2>1, <3>1, <3>2 DEF Session
  <2>2. CASE newAudioRecorderTool
    BY <1>1, <2>2 DEF Inv, Session, newAudioRecorderTool, Closing, Deleting
  <2>3. CASE nativeRtmpstart
    <3>1. \A a \in Actors : a[2] > opens => pc'[a] = "off"
      BY <1>1, <1>2, <2>3 DEF Inv, Session
    <3>2. QED BY <1>1, <2>3, <3>1 DEF Inv, Session, nativeRtmpstart, Closing, Deleting
  <2>4. QED BY <2>1, <2>2, <2>3
<1>12. Wired'
  <2>1. CASE nativeX264EncodeInit \/ newAudioRecorderTool
    <3>1. opens' \in Sessions /\ ui' \in {"newRecorder", "rtmpstart"}
      BY <1>1, <2>1 DEF nativeX264EncodeInit, newAudioRecorderTool
    <3>2. pc'[P(opens')] = "off"
      <4>1. PICK p \in Actors : p = P(opens') /\ p[2] = opens'
        BY <3>1, ThreadsOf DEF P
      <4>2. QED BY <1>11, <3>1, <4>1 DEF Session
    <3>3. QED BY <3>2 DEF Wired, WiredPlaces
  <2>2. CASE nativeRtmpstart
    <3>1. PICK p \in Actors : p = P(opens) /\ p[2] = opens
      BY <1>1, <2>2, ThreadsOf DEF P
    <3>2. pc'[p] \in {"off", "starting", "alloc"}
      BY <1>2, <2>2, <3>1
    <3>3. opens' = opens
      BY <2>2 DEF nativeRtmpstart
    <3>4. QED BY <3>1, <3>2, <3>3 DEF Wired, WiredPlaces
  <2>3. QED BY <2>1, <2>2
<1>13. Calm'
  BY DEF Inv, Calm, nativeX264EncodeInit, newAudioRecorderTool, nativeRtmpstart, Closing, Deleting, Ending
<1>14. QED BY <1>3, <1>4, <1>5, <1>6, <1>9, <1>10, <1>11, <1>12, <1>13 DEF Inv, Types

\* release up to the native calls, and nativeStop.
LEMMA Stops == ASSUME Inv, fault = "none", release \/ nativeStop PROVE Inv'
<1> USE DEF globals, queue, objects, threads, app
<1>1. /\ opens \in Sessions /\ opens' = opens /\ x264VideoEncode' = x264VideoEncode
      /\ x264VideoEncode = <<"video", opens>>
      /\ UNCHANGED <<obj, chan, made, videoPacket, heap, q, hand, accepted, todo, enc>>
  BY DEF release, nativeStop, Inv, Session
<1>2. /\ pc' \in [Actors -> CamPlaces \cup MicPlaces \cup PushPlaces]
      /\ \A a \in Actors : \/ pc'[a] = pc[a]
                           \/ a[1] = "cam" /\ pc[a] = "starting" /\ pc'[a] = "off"
      /\ nativeStop => pc' = pc
  <2>1. CASE release
    <3>1. PICK c \in Actors : c = <<"cam", opens>> /\ c[1] = "cam"
      BY <1>1, ThreadsOf
    <3>2. pc' = [pc EXCEPT ![c] = IF @ = "starting" THEN "off" ELSE @] /\ ~nativeStop
      BY <2>1, <3>1 DEF release, nativeStop
    <3>3. pc \in [Actors -> CamPlaces \cup MicPlaces \cup PushPlaces] /\ "off" \in CamPlaces
      BY DEF Inv, Types, TypesPc, CamPlaces
    <3>4. QED BY <3>1, <3>2, <3>3
  <2>2. CASE nativeStop
    BY <2>2 DEF nativeStop, Inv, Types, TypesPc
  <2>3. QED BY <2>1, <2>2
<1>3. \A s \in Sessions : pc'[P(s)] = pc[P(s)]
  <2>1. \A s \in Sessions : P(s) \in Actors /\ P(s)[1] = "push"
    BY ThreadsOf DEF P
  <2>2. QED BY <1>2, <2>1
<1>4. TypesUI'
  BY DEF Inv, Types, TypesUI, UIPlaces, Closing, release, nativeStop, Quiescent
<1>5. TypesPc'
  BY <1>2 DEF Inv, Types, TypesPc, CamPlaces
<1>6. TypesEnc' /\ TypesConn' /\ TypesAudio' /\ Connection'
  BY DEF Inv, Types, TypesEnc, TypesConn, TypesAudio, Connection, release, nativeStop
<1>7. TypesCall'
  BY <1>1, <1>2, <1>3 DEF Inv, Types, TypesCall
<1>8. TypesPacket'
  BY <1>1, <1>2 DEF Inv, Types, TypesPacket
<1>9. TypesTodo'
  BY <1>1, <1>2 DEF Inv, Types, TypesTodo
<1>10. Held'
  BY <1>1, <1>3 DEF Inv, Held
<1>11. Session'
  <2>1. \A a \in Actors : a[2] > opens => pc'[a] = "off"
    BY <1>2 DEF Inv, Session
  <2>2. ui' \in {"stop", "closeRtmp"} /\ ~open'
    BY DEF release, nativeStop, Inv, Session
  <2>3. QED BY <1>1, <2>1, <2>2 DEF Session
<1>12. Wired'
  <2>1. CASE release
    BY <1>1, <1>3, <2>1 DEF Inv, Wired, release
  <2>2. CASE nativeStop
    BY <2>2 DEF Wired, nativeStop, Inv, Session
  <2>3. QED BY <2>1, <2>2
<1>13. Calm'
  <2>1. CASE release
    BY <2>1 DEF release, Inv, Calm
  <2>2. ASSUME nativeStop, calm' PROVE Calm'
    <3>1. /\ ui' = "closeRtmp" /\ ~open' /\ ~alreadyTryConnect' /\ ~readPushing' /\ fault' = "none"
          /\ Quiescent /\ pc' = pc
      BY <2>2 DEF nativeStop, Inv, Session
    <3>2. PICK p \in Actors : p = P(opens) /\ p[1] = "push" /\ p[2] = opens
      BY <1>1, ThreadsOf DEF P
    <3>3. /\ q = <<>> /\ pc[p] = "asleep"
          /\ \A a \in Actors : \/ a = p
                               \/ a[1] = "push" /\ pc[a] = "off"
                               \/ a[1] # "push" /\ pc[a] \in {"off", "idle", "loop", "java"}
      BY <3>1, <3>2 DEF Quiescent, P
    <3>4. \A a \in Actors : /\ a[1] = "cam" => pc[a] \in {"off", "idle", "java"}
                            /\ a[1] = "mic" => pc[a] \in {"off", "loop", "java"}
                            /\ a[1] = "push" => pc[a] = "off" \/ (a[2] = opens /\ pc[a] = "asleep")
      BY <3>2, <3>3 DEF Inv, Types, TypesPc, CamPlaces, MicPlaces
    <3>5. videoPacket = Null
      <4>1. \A s \in Sessions : P(s) \in Actors /\ P(s)[1] = "push"
        BY ThreadsOf DEF P
      <4>2. \A s \in Sessions : pc[P(s)] \in {"off", "asleep"}
        BY <3>4, <4>1
      <4>3. QED BY <4>2 DEF Inv, Held, Holding
    <3>6. enc[<<"video", opens>>].queue = "set"
      BY <2>2, <3>2, <3>3 DEF nativeStop, Inv, Wired, WiredPlaces
    <3>7. QED BY <1>1, <3>1, <3>3, <3>4, <3>5, <3>6 DEF Calm, Closing
  <2>3. QED BY <2>1, <2>2 DEF Calm
<1>14. QED BY <1>4, <1>5, <1>6, <1>7, <1>8, <1>9, <1>10, <1>11, <1>12, <1>13 DEF Inv, Types

\* nativeRelease.
LEMMA Releases == ASSUME Inv, fault = "none", Release PROVE Inv'
<1> USE DEF globals, queue, objects, threads, app, Crash
<1>1. TypesUI'
  BY DEF Inv, Types, TypesUI, Sessions, Encoders, Session, UIPlaces, Closing, Deleting, Ending,
     Release, releaseCloseRtmp, releaseFreeRtmp, deleteVideoStart, deleteVideoStopQueue, deleteVideoClear,
     deleteVideoEnd, deleteAudioStart, deleteAudioEnd, releaseFlags, RTMP_Close, RTMP_Free
<1>2. /\ pc' \in [Actors -> CamPlaces \cup MicPlaces \cup PushPlaces]
      /\ \A a \in Actors : pc'[a] = pc[a] \/ (a[1] = "push" /\ pc[a] = "asleep" /\ pc'[a] = "pop")
      /\ ~deleteVideoStopQueue => pc' = pc
  <2>1. "pop" \in PushPlaces /\ "asleep" \notin CamPlaces /\ "asleep" \notin MicPlaces
    BY DEF PushPlaces, CamPlaces, MicPlaces
  <2>2. CASE deleteVideoStopQueue
    BY <2>1, <2>2 DEF Inv, Types, TypesPc, Actors, deleteVideoStopQueue, Signal, Sleepers
  <2>3. CASE ~deleteVideoStopQueue
    BY <2>3 DEF Inv, Types, TypesPc, Release, releaseCloseRtmp, releaseFreeRtmp, deleteVideoStart, deleteVideoClear,
       deleteVideoEnd, deleteAudioStart, deleteAudioEnd, releaseFlags
  <2>4. QED BY <2>2, <2>3
<1>3. /\ UNCHANGED <<opens, open, obj, chan, made, videoPacket, heap, q, hand, accepted, todo, record>>
      /\ ui' \in Closing \cup Deleting \cup Ending \cup {"idle"}
      /\ ui \in Closing \cup Deleting \cup Ending
  BY DEF Closing, Deleting, Ending,
     Release, releaseCloseRtmp, releaseFreeRtmp, deleteVideoStart, deleteVideoStopQueue, deleteVideoClear,
     deleteVideoEnd, deleteAudioStart, deleteAudioEnd, releaseFlags, RTMP_Close, RTMP_Free
<1>4. \A s \in Sessions : pc'[P(s)] = pc[P(s)] \/ (pc[P(s)] = "asleep" /\ pc'[P(s)] = "pop")
  <2>1. \A s \in Sessions : P(s) \in Actors
    BY ThreadsOf DEF P
  <2>2. QED BY <1>2, <2>1
<1>5. TypesPc'
  <2>1. "pop" \in PushPlaces
    BY DEF PushPlaces
  <2>2. QED BY <1>2, <2>1 DEF Inv, Types, TypesPc
<1>6. TypesEnc'
  <2>1. enc \in [Encoders -> Record] /\ NoEncoder \in Record /\ [NoEncoder EXCEPT !.live = TRUE] \in Record
    BY DEF Inv, Types, TypesEnc, NoEncoder, Record
  <2>2. /\ deleteVideoClear \/ deleteVideoEnd \/ (deleteVideoStart /\ x264VideoEncode # Null) => x264VideoEncode \in Encoders
        /\ deleteAudioEnd => faacAudioEncode \in Encoders
    BY <1>3, ThreadsOf DEF deleteVideoClear, deleteVideoEnd, deleteVideoStart, deleteAudioEnd, Inv, Types, TypesUI, Session, Deleting
  <2>3. CASE deleteVideoStart
    <3>1. CASE x264VideoEncode = Null
      BY <2>1, <2>3, <3>1 DEF deleteVideoStart, TypesEnc
    <3>2. CASE x264VideoEncode # Null
      <4>1. PICK x \in Encoders : x = x264VideoEncode
        BY <2>2, <2>3, <3>2
      <4>2. enc[x] \in Record
        BY <2>1
      <4>3. enc' = [enc EXCEPT ![x].opened = FALSE, ![x].rtmp = Null]
        BY <2>3, <3>2, <4>1 DEF deleteVideoStart
      <4>4. PICK r : r = [enc[x] EXCEPT !.opened = FALSE]
        OBVIOUS
      <4>5. r \in Record /\ [r EXCEPT !.rtmp = Null] \in Record
        BY <4>2, <4>4 DEF Record
      <4>6. enc' = [enc EXCEPT ![x] = [r EXCEPT !.rtmp = Null]]
        BY <2>1, <4>3, <4>4
      <4>7. QED BY <2>1, <4>5, <4>6, SetEnc DEF TypesEnc
    <3>3. QED BY <3>1, <3>2
  <2>4. CASE deleteVideoClear
    <3>1. CASE UNCHANGED enc
      BY <2>1, <3>1 DEF TypesEnc
    <3>2. CASE enc' = [enc EXCEPT ![x264VideoEncode].queue = Null]
      <4>1. PICK x \in Encoders : x = x264VideoEncode
        BY <2>2, <2>4
      <4>2. enc[x] \in Record /\ enc' = [enc EXCEPT ![x] = [enc[x] EXCEPT !.queue = Null]]
        BY <2>1, <3>2, <4>1
      <4>3. QED BY <2>1, <4>2, SetEnc, SetFields DEF TypesEnc
    <3>3. QED BY <2>4, <3>1, <3>2 DEF deleteVideoClear
  <2>5. CASE deleteVideoEnd
    <3>1. PICK x \in Encoders : x = x264VideoEncode
      BY <2>2, <2>5
    <3>2. enc[x] \in Record /\ enc' = [enc EXCEPT ![x] = [enc[x] EXCEPT !.live = FALSE]]
      BY <2>1, <2>5, <3>1 DEF deleteVideoEnd
    <3>3. QED BY <2>1, <3>2, SetEnc, SetFields DEF TypesEnc
  <2>6. CASE deleteAudioStart
    <3>1. enc' = enc \/ enc' = [enc EXCEPT ![faacAudioEncode] = [NoEncoder EXCEPT !.live = TRUE]]
      BY <2>6 DEF deleteAudioStart
    <3>2. QED BY <2>1, <3>1, SetEnc DEF TypesEnc
  <2>7. CASE deleteAudioEnd
    <3>1. PICK x \in Encoders : x = faacAudioEncode
      BY <2>2, <2>7
    <3>2. enc[x] \in Record /\ enc' = [enc EXCEPT ![x] = [enc[x] EXCEPT !.live = FALSE]]
      BY <2>1, <2>7, <3>1 DEF deleteAudioEnd
    <3>3. QED BY <2>1, <3>2, SetEnc, SetFields DEF TypesEnc
  <2>8. CASE releaseCloseRtmp \/ releaseFreeRtmp \/ deleteVideoStopQueue \/ releaseFlags
    BY <2>1, <2>8 DEF TypesEnc, releaseCloseRtmp, releaseFreeRtmp, deleteVideoStopQueue, releaseFlags
  <2>9. QED BY <2>3, <2>4, <2>5, <2>6, <2>7, <2>8 DEF Release
<1>7. TypesConn' /\ Connection'
  BY DEF Inv, Types, TypesConn, Connection,
     Release, releaseCloseRtmp, releaseFreeRtmp, deleteVideoStart, deleteVideoStopQueue, deleteVideoClear,
     deleteVideoEnd, deleteAudioStart, deleteAudioEnd, releaseFlags, RTMP_Close, RTMP_Free
<1>8. TypesCall'
  BY <1>2, <1>3, <1>4 DEF Inv, Types, TypesCall
<1>9. TypesPacket'
  BY <1>2, <1>3 DEF Inv, Types, TypesPacket
<1>10. TypesTodo' /\ TypesAudio'
  BY <1>2, <1>3 DEF Inv, Types, TypesTodo, TypesAudio
<1>11. Session'
  BY DEF Inv, Types, Session, TypesUI, TypesPc, Sessions, Actors, Encoders, UIPlaces, Closing, Deleting, Ending,
     Release, releaseCloseRtmp, releaseFreeRtmp, deleteVideoStart, deleteVideoStopQueue, deleteVideoClear,
     deleteVideoEnd, deleteAudioStart, deleteAudioEnd, releaseFlags, RTMP_Close, RTMP_Free, Signal, Sleepers
<1>12. Held'
  BY <1>3, <1>4 DEF Inv, Held, Holding
<1>13. Wired'
  BY <1>3 DEF Wired, Inv, Session, Closing, Deleting, Ending
<1>14. Calm'
  <2> SUFFICES ASSUME calm' PROVE Calm'
    BY DEF Calm
  <2>1. calm
    BY DEF Release, releaseCloseRtmp, releaseFreeRtmp, deleteVideoStart, deleteVideoStopQueue, deleteVideoClear,
       deleteVideoEnd, deleteAudioStart, deleteAudioEnd, releaseFlags
  <2>2. /\ ~open /\ opens \in Sessions /\ ~alreadyTryConnect /\ ~readPushing /\ q = <<>> /\ videoPacket = Null
        /\ ui \in Closing \cup {"stopQueue"} => enc[<<"video", opens>>].queue = "set"
    BY <2>1 DEF Inv, Calm
  <2>3. ~alreadyTryConnect' /\ ~readPushing'
    <3>1. CASE releaseFlags
      BY <3>1 DEF releaseFlags
    <3>2. CASE ~releaseFlags
      <4>1. UNCHANGED <<alreadyTryConnect, readPushing>>
        BY <3>2 DEF Release, releaseCloseRtmp, releaseFreeRtmp, deleteVideoStart, deleteVideoStopQueue,
           deleteVideoClear, deleteVideoEnd, deleteAudioStart, deleteAudioEnd
      <4>2. QED BY <2>2, <4>1
    <3>3. QED BY <3>1, <3>2
  <2>4. \A a \in Actors :
                  /\ a[1] = "cam" => pc'[a] \in {"off", "idle", "java"}
                  /\ a[1] = "mic" => /\ pc'[a] \in {"off", "loop", "read", "java"}
                                     /\ pc'[a] = "read" => record[a[2]] = "recording"
                  /\ a[1] = "push" => pc'[a] \in {"off"} \cup
                        IF a[2] = opens THEN {"asleep", "pop", "popped", "release", "exit"} ELSE {}
    <3>1. \A a \in Actors :
                  /\ a[1] = "cam" => pc[a] \in {"off", "idle", "java"}
                  /\ a[1] = "mic" => /\ pc[a] \in {"off", "loop", "read", "java"}
                                     /\ pc[a] = "read" => record[a[2]] = "recording"
                  /\ a[1] = "push" => pc[a] \in {"off"} \cup
                        IF a[2] = opens THEN {"asleep", "pop", "popped", "release", "exit"} ELSE {}
      BY <2>1 DEF Inv, Calm
    <3>2. QED BY <1>2, <3>1
  <2>5. ui \in Closing \cup Deleting => x264VideoEncode = <<"video", opens>>
    BY DEF Inv, Session
  <2>6. fault' = "none"
    <3>1. CASE releaseCloseRtmp \/ releaseFreeRtmp
      BY <3>1 DEF releaseCloseRtmp, releaseFreeRtmp, RTMP_Close, RTMP_Free, Inv, Connection
    <3>2. CASE deleteVideoStopQueue
      <4>1. enc[x264VideoEncode].queue = "set" /\ Wild # "set"
        BY <2>2, <2>5, <3>2, PointerAssumption DEF deleteVideoStopQueue, Deleting
      <4>2. QED BY <3>2, <4>1 DEF deleteVideoStopQueue
    <3>3. CASE deleteVideoClear
      BY <2>2, <3>3 DEF deleteVideoClear
    <3>4. CASE deleteVideoStart \/ deleteVideoEnd \/ deleteAudioStart \/ deleteAudioEnd \/ releaseFlags
      BY <3>4 DEF deleteVideoStart, deleteVideoEnd, deleteAudioStart, deleteAudioEnd, releaseFlags
    <3>5. QED BY <3>1, <3>2, <3>3, <3>4 DEF Release
  <2>7. ui' \in Closing \cup {"stopQueue"} => enc'[<<"video", opens>>].queue = "set"
    <3>1. CASE releaseCloseRtmp \/ releaseFreeRtmp
      BY <2>2, <3>1 DEF releaseCloseRtmp, releaseFreeRtmp, Closing
    <3>2. CASE deleteVideoStart
      <4>1. enc[<<"video", opens>>].queue = "set" /\ x264VideoEncode = <<"video", opens>>
        BY <2>2, <2>5, <3>2 DEF deleteVideoStart, Closing
      <4>2. PICK x \in Encoders : x = <<"video", opens>>
        BY <2>2, ThreadsOf
      <4>3. enc' = enc \/ enc' = [enc EXCEPT ![x].opened = FALSE, ![x].rtmp = Null]
        BY <3>2, <4>1, <4>2 DEF deleteVideoStart
      <4>4. enc \in [Encoders -> Record]
        BY DEF Inv, Types, TypesEnc
      <4>5. enc'[x].queue = "set"
        BY <4>1, <4>2, <4>3, <4>4 DEF Record
      <4>6. QED BY <4>2, <4>5
    <3>3. CASE /\ ~releaseCloseRtmp /\ ~releaseFreeRtmp /\ ~deleteVideoStart
      <4>1. ui' \notin Closing \cup {"stopQueue"} \/ fault' # "none"
        BY <3>3 DEF Release, deleteVideoStopQueue, deleteVideoClear, deleteVideoEnd, deleteAudioStart, deleteAudioEnd,
           releaseFlags, Closing
      <4>2. QED BY <2>6, <4>1
    <3>4. QED BY <3>1, <3>2, <3>3
  <2>8. QED BY <1>3, <2>2, <2>3, <2>4, <2>6, <2>7 DEF Calm
<1>15. QED BY <1>1, <1>5, <1>6, <1>7, <1>8, <1>9, <1>10, <1>11, <1>12, <1>13, <1>14 DEF Inv, Types

\* The camera and the microphone, up to the encoder.
LEMMA Captures == ASSUME Inv, fault = "none", NEW s \in Sessions, Camera(s) \/ Microphone(s) PROVE Inv'
<1> USE DEF globals, queue, objects, threads, app, Crash, Goto
<1>1. PICK c \in Actors, m \in Actors : /\ c = <<"cam", s>> /\ c[1] = "cam" /\ c[2] = s
                                        /\ m = <<"mic", s>> /\ m[1] = "mic" /\ m[2] = s
  BY ThreadsOf
<1>2. CASE startPreview(s)
  <2>1. /\ pc[c] = "starting" /\ ui = "idle" /\ s = opens
        /\ pc' = [pc EXCEPT ![c] = "idle", ![m] = "posted"]
        /\ enc' = IF Rotated /\ x264VideoEncode # Null
                  THEN [enc EXCEPT ![x264VideoEncode].opened = TRUE] ELSE enc
        /\ UNCHANGED <<globals, queue, conn, made, heap, obj, todo, hand, chan, record, budget, app, fault>>
    BY <1>1, <1>2 DEF startPreview
  <2>2. /\ pc' \in [Actors -> CamPlaces \cup MicPlaces \cup PushPlaces]
        /\ \A a \in Actors : \/ pc'[a] = pc[a]
                             \/ a = c /\ pc'[a] = "idle"
                             \/ a = m /\ pc'[a] = "posted"
    <3>1. pc \in [Actors -> CamPlaces \cup MicPlaces \cup PushPlaces] /\ "idle" \in CamPlaces /\ "posted" \in MicPlaces
      BY DEF Inv, Types, TypesPc, CamPlaces, MicPlaces
    <3>2. QED BY <2>1, <3>1
  <2>3. \A t \in Sessions : pc'[P(t)] = pc[P(t)]
    <3>1. \A t \in Sessions : P(t) \in Actors /\ P(t)[1] = "push"
      BY ThreadsOf DEF P
    <3>2. QED BY <1>1, <2>2, <3>1
  <2>4. TypesUI' /\ TypesConn' /\ TypesAudio' /\ Connection'
    BY <2>1 DEF Inv, Types, TypesUI, TypesConn, TypesAudio, Connection
  <2>5. TypesPc'
    <3>1. "idle" \in CamPlaces /\ "posted" \in MicPlaces
      BY DEF CamPlaces, MicPlaces
    <3>2. QED BY <1>1, <2>2, <3>1 DEF Inv, Types, TypesPc
  <2>6. enc \in [Encoders -> Record] /\ \A e \in Encoders : enc'[e].queue = enc[e].queue
    <3>1. enc \in [Encoders -> Record]
      BY DEF Inv, Types, TypesEnc
    <3>2. QED BY <2>1, <3>1 DEF Record
  <2>7. TypesEnc'
    <3>1. CASE enc' = enc
      BY <2>6, <3>1 DEF TypesEnc
    <3>2. CASE x264VideoEncode # Null /\ enc' = [enc EXCEPT ![x264VideoEncode].opened = TRUE]
      <4>1. PICK x \in Encoders : x = x264VideoEncode
        BY <3>2 DEF Inv, Types, TypesUI
      <4>2. enc[x] \in Record /\ enc' = [enc EXCEPT ![x] = [enc[x] EXCEPT !.opened = TRUE]]
        BY <2>6, <3>2, <4>1
      <4>3. QED BY <2>6, <4>2, SetEnc, SetFields DEF TypesEnc
    <3>3. QED BY <2>1, <3>1, <3>2
  <2>8. TypesCall'
    BY <2>1, <2>2, <2>3 DEF Inv, Types, TypesCall
  <2>9. TypesPacket'
    BY <2>1, <2>2 DEF Inv, Types, TypesPacket
  <2>10. TypesTodo'
    BY <2>1, <2>2 DEF Inv, Types, TypesTodo
  <2>11. Held'
    BY <2>1, <2>3 DEF Inv, Held
  <2>12. Session'
    <3>1. opens \in Nat
      BY <1>1, <2>1, BoundAssumption DEF Sessions
    <3>2. \A a \in Actors : a[2] > opens => pc'[a] = "off"
      BY <1>1, <2>1, <2>2, <3>1 DEF Inv, Session
    <3>3. QED BY <2>1, <3>2 DEF Inv, Session, Closing, Deleting
  <2>13. Wired'
    <3>1. <<"video", opens>> \in Encoders
      BY <2>1, ThreadsOf
    <3>2. QED BY <2>1, <2>3, <2>6, <3>1 DEF Inv, Wired
  <2>14. Calm'
    <3>1. "starting" \notin {"off", "idle", "java"}
      OBVIOUS
    <3>2. QED BY <1>1, <2>1, <3>1 DEF Inv, Calm
  <2>15. QED BY <2>4, <2>5, <2>7, <2>8, <2>9, <2>10, <2>11, <2>12, <2>13, <2>14 DEF Inv, Types
<1>3. ASSUME NEW a \in {c, m}, NEW l, pc' = [pc EXCEPT ![a] = l], pc[a] # "off",
             a = c => l \in {"java", "idle", "encode"},
             a = m => l \in {"loop", "off", "read", "java", "encode"},
             l = "encode" => readPushing /\ obj'[a] \in Encoders,
             l = "read" => record'[s] = "recording",
             pc[a] = "read" => record' = record,
             obj' \in [Actors -> {Null} \cup Encoders],
             \A b \in Actors : b # a => obj'[b] = obj[b],
             record' \in [Sessions -> {"null", "recording"}],
             \A t \in Sessions : record'[t] = record[t] \/ record'[t] = "recording",
             calm => pc[a] # "posted",
             UNCHANGED <<globals, queue, objects, todo, hand, chan, app, fault>>
      PROVE  Inv'
  <2>1. /\ pc' \in [Actors -> CamPlaces \cup MicPlaces \cup PushPlaces]
        /\ \A b \in Actors : pc'[b] = IF b = a THEN l ELSE pc[b]
    <3>1. pc \in [Actors -> CamPlaces \cup MicPlaces \cup PushPlaces] /\ l \in CamPlaces \cup MicPlaces
      BY <1>1, <1>3 DEF Inv, Types, TypesPc, CamPlaces, MicPlaces
    <3>2. QED BY <1>1, <1>3, <3>1
  <2>2. \A t \in Sessions : pc'[P(t)] = pc[P(t)]
    <3>1. \A t \in Sessions : P(t) \in Actors /\ P(t)[1] = "push"
      BY ThreadsOf DEF P
    <3>2. QED BY <1>1, <1>3, <2>1, <3>1
  <2>3. TypesUI' /\ TypesEnc' /\ TypesConn' /\ TypesAudio' /\ Connection'
    BY <1>3 DEF Inv, Types, TypesUI, TypesEnc, TypesConn, TypesAudio, Connection
  <2>4. TypesPc'
    <3>1. /\ a = c => l \in CamPlaces
          /\ a = m => l \in MicPlaces
      BY <1>3 DEF CamPlaces, MicPlaces
    <3>2. QED BY <1>1, <2>1, <3>1 DEF Inv, Types, TypesPc
  <2>5. TypesCall'
    BY <1>1, <1>3, <2>1, <2>2 DEF Inv, Types, TypesCall
  <2>6. TypesPacket'
    BY <1>3, <2>1 DEF Inv, Types, TypesPacket
  <2>7. TypesTodo'
    BY <1>3, <2>1 DEF Inv, Types, TypesTodo
  <2>8. Held'
    BY <1>3, <2>2 DEF Inv, Held
  <2>9. Session'
    <3>1. \A b \in Actors : b[2] > opens => pc'[b] = "off"
      BY <1>1, <1>3, <2>1 DEF Inv, Session
    <3>2. ui \in {"newRecorder", "rtmpstart"} => \A b \in Actors : b[2] = opens => pc'[b] = "off"
      BY <1>1, <1>3, <2>1 DEF Inv, Session
    <3>3. QED BY <1>3, <3>1, <3>2 DEF Inv, Session, Closing, Deleting
  <2>10. Wired'
    <3>1. opens \in Sessions \/ ~(open \/ ui = "stop")
      BY DEF Inv, Session
    <3>2. QED BY <1>3, <2>2, <3>1 DEF Inv, Wired
  <2>11. Calm'
    <3> SUFFICES ASSUME calm PROVE Calm'
      BY <1>3 DEF Calm
    <3>1. \A b \in Actors :
                  /\ b[1] = "cam" => pc[b] \in {"off", "idle", "java"}
                  /\ b[1] = "mic" => /\ pc[b] \in {"off", "loop", "read", "java"}
                                     /\ pc[b] = "read" => record[b[2]] = "recording"
                  /\ b[1] = "push" => pc[b] \in {"off"} \cup
                        IF b[2] = opens THEN {"asleep", "pop", "popped", "release", "exit"} ELSE {}
      BY DEF Inv, Calm
    <3>2. l # "encode"
      BY <1>3 DEF Inv, Calm
    <3>3. \A b \in Actors : b[2] \in Sessions
      BY DEF Actors
    <3>4. \A b \in Actors :
                  /\ b[1] = "cam" => pc'[b] \in {"off", "idle", "java"}
                  /\ b[1] = "mic" => /\ pc'[b] \in {"off", "loop", "read", "java"}
                                     /\ pc'[b] = "read" => record'[b[2]] = "recording"
                  /\ b[1] = "push" => pc'[b] \in {"off"} \cup
                        IF b[2] = opens THEN {"asleep", "pop", "popped", "release", "exit"} ELSE {}
      BY <1>1, <1>3, <2>1, <3>1, <3>2, <3>3
    <3>5. QED BY <1>3, <3>4 DEF Inv, Calm
  <2>12. QED BY <2>3, <2>4, <2>5, <2>6, <2>7, <2>8, <2>9, <2>10, <2>11 DEF Inv, Types
<1>4. /\ obj \in [Actors -> {Null} \cup Encoders]
      /\ record \in [Sessions -> {"null", "recording"}]
      /\ x264VideoEncode \in {Null} \cup Encoders /\ faacAudioEncode \in {Null} \cup Encoders
  BY DEF Inv, Types, TypesCall, TypesAudio, TypesUI
<1>5. CASE onImageAvailable(s)
  <2>1. /\ pc[c] = "idle" /\ pc' = [pc EXCEPT ![c] = "java"]
        /\ UNCHANGED <<globals, queue, objects, obj, todo, hand, chan, record, app, fault>>
    BY <1>1, <1>5 DEF onImageAvailable
  <2>2. QED BY <1>1, <1>3, <1>4, <2>1
<1>6. CASE recordStart(s)
  <2>1. /\ pc[m] = "posted" /\ pc' = [pc EXCEPT ![m] = "loop"] /\ record' = [record EXCEPT ![s] = "recording"]
        /\ UNCHANGED <<globals, queue, objects, obj, todo, hand, chan, app, fault>>
    BY <1>1, <1>6 DEF recordStart
  <2>2. ~calm
    BY <1>1, <2>1 DEF Inv, Calm
  <2>3. /\ record' \in [Sessions -> {"null", "recording"}]
        /\ \A t \in Sessions : record'[t] = record[t] \/ record'[t] = "recording"
    BY <1>4, <2>1
  <2>4. QED BY <1>1, <1>3, <1>4, <2>1, <2>2, <2>3
<1>7. CASE recordLoop(s)
  <2>1. /\ pc[m] = "loop"
        /\ UNCHANGED <<globals, queue, objects, obj, todo, hand, chan, record, app, fault>>
        /\ \/ pc' = [pc EXCEPT ![m] = "read"] /\ record[s] = "recording"
           \/ pc' = [pc EXCEPT ![m] = "off"]
    BY <1>1, <1>7 DEF recordLoop
  <2>2. QED BY <1>1, <1>3, <1>4, <2>1
<1>8. CASE recordRead(s)
  <2>1. CASE record[s] = "null"
    <3>1. ~calm
      BY <1>1, <1>8, <2>1 DEF recordRead, Inv, Calm
    <3>2. UNCHANGED <<globals, queue, objects, threads, app>> /\ fault' = "nullPointer"
      BY <1>8, <2>1 DEF recordRead
    <3>3. QED BY <3>1, <3>2, Crashes
  <2>2. CASE record[s] # "null"
    <3>1. /\ pc[m] = "read" /\ pc' = [pc EXCEPT ![m] = "java"]
          /\ UNCHANGED <<globals, queue, objects, obj, todo, hand, chan, record, app, fault>>
      BY <1>1, <1>8, <2>2 DEF recordRead
    <3>2. QED BY <1>1, <1>3, <1>4, <3>1
  <2>3. QED BY <2>1, <2>2
<1>9. ASSUME NEW a \in {c, m}, NEW e \in {Null} \cup Encoders, Send(a, e) PROVE Inv'
  <2>1. CASE readPushing /\ e # Null
    <3>1. /\ pc[a] = "java" /\ pc' = [pc EXCEPT ![a] = "encode"] /\ obj' = [obj EXCEPT ![a] = e] /\ e \in Encoders
          /\ UNCHANGED <<globals, queue, objects, todo, hand, chan, record, app, fault>>
      BY <1>9, <2>1 DEF Send
    <3>2. /\ obj' \in [Actors -> {Null} \cup Encoders] /\ obj'[a] \in Encoders
          /\ \A b \in Actors : b # a => obj'[b] = obj[b]
      BY <1>4, <3>1
    <3>3. QED BY <1>1, <1>3, <1>4, <2>1, <3>1, <3>2
  <2>2. CASE ~(readPushing /\ e # Null)
    <3>1. /\ pc[a] = "java" /\ pc' = [pc EXCEPT ![a] = Rest(a)]
          /\ UNCHANGED <<globals, queue, objects, obj, todo, hand, chan, record, app, fault>>
      BY <1>9, <2>2 DEF Send
    <3>2. /\ a = c => Rest(a) = "idle"
          /\ a = m => Rest(a) = "loop"
      BY <1>1 DEF Rest
    <3>3. PICK l : l = Rest(a)
      OBVIOUS
    <3>4. QED BY <1>1, <1>3, <1>4, <3>1, <3>2, <3>3
  <2>3. QED BY <2>1, <2>2
<1>10. CASE nativeSendPreviewData(s) \/ sendAudioPcmData(s)
  BY <1>1, <1>4, <1>9, <1>10 DEF nativeSendPreviewData, sendAudioPcmData
<1>11. QED BY <1>2, <1>5, <1>6, <1>7, <1>8, <1>10 DEF Camera, Microphone

\* A call into an encoder, whoever makes it: what moving on disturbs.
LEMMA Moves ==
    ASSUME Inv, ~calm, NEW a \in Actors, pc[a] \in {"encode", "check", "make", "push"},
           pc' \in [Actors -> CamPlaces \cup MicPlaces \cup PushPlaces],
           pc'[a] \in {Rest(a), "check", "make", "push"},
           \A b \in Actors : b # a => \/ pc'[b] = pc[b]
                                      \/ b[1] = "push" /\ pc[b] = "asleep" /\ pc'[b] = "pop",
           \A e \in Encoders : enc'[e].queue = enc[e].queue,
           TypesEnc', TypesPacket', TypesTodo',
           UNCHANGED <<globals, work, conn, obj, chan, record, app, fault>>
    PROVE  Inv'
<1> USE DEF globals, app
<1>1. /\ a[1] = "cam" \/ a[1] = "mic" \/ a[1] = "push"
      /\ a[1] = "cam" => Rest(a) = "idle"
      /\ a[1] \in {"mic", "push"} => Rest(a) = "loop"
      /\ \A s \in Sessions : P(s) \in Actors
  BY ThreadsOf DEF Actors, Rest, P
<1>2. TypesUI' /\ TypesConn' /\ TypesAudio' /\ Connection'
  BY DEF Inv, Types, TypesUI, TypesConn, TypesAudio, Connection
<1>3. TypesPc'
  <2>1. /\ {"idle", "check", "make", "push"} \subseteq CamPlaces /\ {"loop", "check", "make", "push"} \subseteq MicPlaces
        /\ {"loop", "check", "make", "push", "pop"} \subseteq PushPlaces
    BY DEF CamPlaces, MicPlaces, PushPlaces
  <2>2. QED BY <1>1, <2>1 DEF Inv, Types, TypesPc
<1>4. TypesCall'
  <2>1. \A b \in Actors : pc'[b] \in {"encode", "check", "make", "push"} => pc[b] \in {"encode", "check", "make", "push"}
    OBVIOUS
  <2>2. \A s \in Sessions : pc'[P(s)] \in {"connecting", "streaming", "sending"} => pc[P(s)] = pc'[P(s)]
    BY <1>1
  <2>3. QED BY <2>1, <2>2 DEF Inv, Types, TypesCall
<1>5. Session'
  <2>1. \A b \in Actors : pc[b] = "off" => pc'[b] = "off"
    OBVIOUS
  <2>2. QED BY <2>1 DEF Inv, Session, Closing, Deleting
<1>6. Held'
  <2>1. \A s \in Sessions : pc[P(s)] \in Holding => pc'[P(s)] = pc[P(s)]
    BY <1>1 DEF Holding
  <2>2. QED BY <2>1 DEF Inv, Held
<1>7. Wired'
  <2>1. ASSUME open \/ ui = "stop" PROVE opens \in Sessions /\ P(opens) \in Actors /\ <<"video", opens>> \in Encoders
    BY <1>1, <2>1, ThreadsOf DEF Inv, Session
  <2>2. ASSUME NEW p \in Actors, p[1] = "push", pc'[p] \in WiredPlaces PROVE pc[p] \in WiredPlaces
    <3>1. CASE p = a
      BY <2>2, <3>1 DEF WiredPlaces, PushPlaces, Inv, Types, TypesPc
    <3>2. CASE p # a
      BY <2>2, <3>2 DEF WiredPlaces
    <3>3. QED BY <3>1, <3>2
  <2>3. P(opens)[1] = "push"
    BY DEF P
  <2>4. QED BY <2>1, <2>2, <2>3 DEF Inv, Wired
<1>8. Calm'
  BY DEF Calm
<1>9. QED BY <1>2, <1>3, <1>4, <1>5, <1>6, <1>7, <1>8 DEF Inv, Types

\* The encoders and what they queue.
LEMMA Produces == ASSUME Inv, fault = "none", NEW a \in Actors, Produce(a) PROVE Inv'
<1> USE DEF globals, queue, objects, threads, app, Crash, Goto
<1>1. pc[a] \in {"encode", "check", "make", "push"}
  BY DEF Produce, Encode, QueueCheck, QueueMake, QueuePush
<1>2. ~calm
  <2>1. a[1] = "cam" \/ a[1] = "mic" \/ a[1] = "push"
    BY DEF Actors
  <2>2. QED BY <1>1, <2>1 DEF Inv, Calm
<1>3. /\ pc \in [Actors -> CamPlaces \cup MicPlaces \cup PushPlaces]
      /\ {"idle", "loop", "check", "make", "push", "pop"} \subseteq CamPlaces \cup MicPlaces \cup PushPlaces
      /\ Rest(a) \in {"idle", "loop"}
      /\ \A b \in Actors : pc[b] = "asleep" => b[1] = "push"
  <2>1. pc \in [Actors -> CamPlaces \cup MicPlaces \cup PushPlaces]
    BY DEF Inv, Types, TypesPc
  <2>2. {"idle", "loop", "check", "make", "push", "pop"} \subseteq CamPlaces \cup MicPlaces \cup PushPlaces
    BY DEF CamPlaces, MicPlaces, PushPlaces
  <2>3. Rest(a) \in {"idle", "loop"}
    BY DEF Rest, Actors
  <2>4. \A b \in Actors : pc[b] = "asleep" => b[1] = "push"
    <3>1. \A b \in Actors : b[1] = "cam" \/ b[1] = "mic" \/ b[1] = "push"
      BY DEF Actors
    <3>2. "asleep" \notin CamPlaces /\ "asleep" \notin MicPlaces
      BY DEF CamPlaces, MicPlaces
    <3>3. QED BY <3>1, <3>2 DEF Inv, Types, TypesPc
  <2>5. QED BY <2>1, <2>2, <2>3, <2>4
<1>4. /\ enc \in [Encoders -> Record] /\ obj[a] \in Encoders
      /\ todo \in [Actors -> Seq(Kinds)] /\ accepted \in SUBSET Kinds
      /\ made \in Nat /\ hand \in [Actors -> {Null} \cup 1..made] /\ q \in Seq(1..made)
  BY <1>1 DEF Inv, Types, TypesEnc, TypesCall, TypesTodo, TypesPacket
<1>5. \A b \in Actors : pc[b] \in {"check", "make", "push"} => todo[b] # <<>>
  BY DEF Inv, Types, TypesTodo
<1>6. CASE fault' # "none" /\ UNCHANGED <<globals, queue, objects, threads, app>>
  <2>1. fault' \in {"nullPointer", "useAfterFree", "doubleFree", "nullCallback", "wildPointer"}
    BY <1>6 DEF Produce, Encode, QueueCheck, QueueMake, QueuePush
  <2>2. QED BY <1>2, <1>6, <2>1, Crashes
\* The other branches of the four steps.
<1>7. ASSUME NEW l \in {Rest(a), "check"}, pc' = [pc EXCEPT ![a] = l], enc' = [enc EXCEPT ![obj[a]].started = TRUE] \/ enc' = enc,
             NEW t \in Seq(Kinds), todo' = [todo EXCEPT ![a] = t], l = "check" => t # <<>>,
             UNCHANGED <<globals, queue, conn, made, heap, obj, hand, chan, record, app, fault>>
      PROVE  Inv'
  <2>1. /\ pc' \in [Actors -> CamPlaces \cup MicPlaces \cup PushPlaces] /\ pc'[a] = l
        /\ \A b \in Actors : b # a => pc'[b] = pc[b]
    BY <1>3, <1>7
  <2>2. /\ todo' \in [Actors -> Seq(Kinds)] /\ todo'[a] = t
        /\ \A b \in Actors : b # a => todo'[b] = todo[b]
    BY <1>4, <1>7
  <2>3. TypesEnc' /\ \A e \in Encoders : enc'[e].queue = enc[e].queue
    <3>1. CASE enc' = enc
      BY <1>4, <3>1 DEF TypesEnc
    <3>2. CASE enc' = [enc EXCEPT ![obj[a]].started = TRUE]
      <4>1. PICK x \in Encoders : x = obj[a]
        BY <1>4
      <4>2. enc[x] \in Record /\ enc' = [enc EXCEPT ![x] = [enc[x] EXCEPT !.started = TRUE]]
        BY <1>4, <3>2, <4>1
      <4>3. TypesEnc'
        BY <1>4, <4>2, SetEnc, SetFields DEF TypesEnc
      <4>4. \A e \in Encoders : enc'[e].queue = enc[e].queue
        BY <1>4, <4>2 DEF Record
      <4>5. QED BY <4>3, <4>4
    <3>3. QED BY <1>7, <3>1, <3>2
  <2>4. TypesPacket'
    <3>1. \A b \in Actors : pc'[b] = "push" => pc[b] = "push"
      BY <1>3, <1>7, <2>1
    <3>2. QED BY <1>7, <3>1 DEF Inv, Types, TypesPacket
  <2>5. TypesTodo'
    <3>1. \A b \in Actors : pc'[b] \in {"check", "make", "push"} => todo'[b] # <<>>
      BY <1>3, <1>5, <1>7, <2>1, <2>2
    <3>2. QED BY <1>4, <1>7, <2>2, <3>1 DEF TypesTodo
  <2>6. QED BY <1>1, <1>2, <1>7, <2>1, <2>3, <2>4, <2>5, Moves
<1>8. CASE Encode(a) /\ fault' = "none"
  <2>1. CASE pc' = [pc EXCEPT ![a] = Rest(a)] /\ UNCHANGED <<globals, queue, objects, obj, todo, hand, chan, record, app, fault>>
    <3>1. todo[a] \in Seq(Kinds) /\ todo' = [todo EXCEPT ![a] = todo[a]]
      BY <1>4, <2>1
    <3>2. Rest(a) # "check"
      BY <1>3
    <3>3. PICK l : l = Rest(a)
      OBVIOUS
    <3>4. PICK t : t = todo[a]
      OBVIOUS
    <3>5. QED BY <1>7, <2>1, <3>1, <3>2, <3>3, <3>4
  <2>2. ASSUME NEW out \in Output(a), todo' = [todo EXCEPT ![a] = out],
               pc' = [pc EXCEPT ![a] = IF out = <<>> THEN Rest(a) ELSE "check"],
               enc' = [enc EXCEPT ![obj[a]].started = TRUE],
               UNCHANGED <<globals, queue, conn, made, heap, obj, hand, chan, record, app, fault>>
        PROVE  Inv'
    <3>1. out \in Seq(Kinds)
      <4>1. out \in {<<"inter">>, <<"config", "key">>, <<"config", "sei", "key">>, <<>>, <<"aac">>}
        BY DEF Output
      <4>2. "inter" \in Kinds /\ "config" \in Kinds /\ "key" \in Kinds /\ "sei" \in Kinds /\ "aac" \in Kinds
        BY DEF Kinds
      <4>3. QED BY <4>1, <4>2, ShortSeqs
    <3>2. PICK l : l = IF out = <<>> THEN Rest(a) ELSE "check"
      OBVIOUS
    <3>3. l \in {Rest(a), "check"} /\ (l = "check" => out # <<>>)
      BY <1>3, <3>2
    <3>4. QED BY <1>7, <2>2, <3>1, <3>2, <3>3
  <2>3. QED BY <1>8, <2>1, <2>2 DEF Encode
<1>9. /\ pc[a] \in {"check", "make", "push"} => Tail(todo[a]) \in Seq(Kinds) /\ Len(todo[a]) \in Nat \ {0}
                                                 /\ (Len(todo[a]) # 1 => Tail(todo[a]) # <<>>)
                                                 /\ Head(todo[a]) \in Kinds
  <2> SUFFICES ASSUME pc[a] \in {"check", "make", "push"}
      PROVE  /\ Tail(todo[a]) \in Seq(Kinds) /\ Len(todo[a]) \in Nat \ {0}
             /\ (Len(todo[a]) # 1 => Tail(todo[a]) # <<>>) /\ Head(todo[a]) \in Kinds
    OBVIOUS
  <2>1. PICK t \in Seq(Kinds) : t = todo[a] /\ t # <<>>
    BY <1>4, <1>5
  <2>2. QED BY <2>1, TailIs
<1>10. CASE QueueCheck(a) /\ fault' = "none"
  <2>1. CASE Proceed(a) /\ UNCHANGED <<globals, queue, objects, obj, hand, chan, record, app, fault>>
    <3>1. PICK t \in Seq(Kinds) : t = Tail(todo[a]) /\ todo' = [todo EXCEPT ![a] = t]
      BY <1>4, <1>9, <1>10, <2>1 DEF Proceed, QueueCheck
    <3>2. PICK l \in {Rest(a), "check"} : /\ pc' = [pc EXCEPT ![a] = l]
                                          /\ l = IF Len(todo[a]) = 1 THEN Rest(a) ELSE "check"
      BY <2>1 DEF Proceed
    <3>3. l = "check" => t # <<>>
      BY <1>3, <1>9, <1>10, <3>1, <3>2 DEF QueueCheck
    <3>4. QED BY <1>7, <2>1, <3>1, <3>2, <3>3
  <2>2. CASE pc' = [pc EXCEPT ![a] = "make"] /\ UNCHANGED <<globals, queue, objects, obj, todo, hand, chan, record, app, fault>>
    <3>1. /\ pc' \in [Actors -> CamPlaces \cup MicPlaces \cup PushPlaces] /\ pc'[a] = "make"
          /\ \A b \in Actors : b # a => pc'[b] = pc[b]
      BY <1>3, <2>2
    <3>2. pc[a] = "check"
      BY <1>10 DEF QueueCheck
    <3>3. TypesEnc' /\ TypesPacket' /\ TypesTodo'
      <4>1. TypesEnc'
        BY <2>2 DEF Inv, Types, TypesEnc
      <4>2. TypesPacket'
        BY <2>2, <3>1 DEF Inv, Types, TypesPacket
      <4>3. TypesTodo'
        BY <2>2, <3>1, <3>2 DEF Inv, Types, TypesTodo
      <4>4. QED BY <4>1, <4>2, <4>3
    <3>4. QED BY <1>1, <1>2, <2>2, <3>1, <3>3, Moves
  <2>3. QED BY <1>10, <2>1, <2>2 DEF QueueCheck
<1>11. CASE QueueMake(a) /\ fault' = "none"
  <2>1. /\ pc[a] = "make" /\ made' = made + 1 /\ heap' = heap \cup {made + 1} /\ hand' = [hand EXCEPT ![a] = made + 1]
        /\ pc' = [pc EXCEPT ![a] = "push"]
        /\ UNCHANGED <<globals, queue, enc, conn, obj, todo, chan, record, app, fault>>
    BY <1>11 DEF QueueMake
  <2>2. /\ pc' \in [Actors -> CamPlaces \cup MicPlaces \cup PushPlaces] /\ pc'[a] = "push"
        /\ \A b \in Actors : b # a => pc'[b] = pc[b]
    BY <1>3, <2>1
  <2>3. 1..made \subseteq 1..made' /\ made' \in Nat /\ made + 1 \in 1..made'
    BY <1>4, <2>1
  <2>4. TypesPacket'
    <3>1. q' \in Seq(1..made')
      BY <1>4, <2>1, <2>3
    <3>2. /\ hand' \in [Actors -> {Null} \cup 1..made']
          /\ \A b \in Actors : pc'[b] = "push" => hand'[b] \in 1..made'
      BY <1>4, <2>1, <2>2, <2>3 DEF Inv, Types, TypesPacket
    <3>3. heap' \in SUBSET (1..made') /\ videoPacket' \in {Null} \cup 1..made'
      BY <2>1, <2>3 DEF Inv, Types, TypesPacket
    <3>4. QED BY <2>3, <3>1, <3>2, <3>3 DEF TypesPacket
  <2>5. TypesTodo'
    BY <2>1, <2>2 DEF Inv, Types, TypesTodo
  <2>6. TypesEnc'
    BY <2>1 DEF Inv, Types, TypesEnc
  <2>7. QED BY <1>1, <1>2, <2>1, <2>2, <2>4, <2>5, <2>6, Moves
<1>12. CASE QueuePush(a) /\ fault' = "none"
  <2>1. /\ pc[a] = "push" /\ q' = Append(q, hand[a]) /\ accepted' = accepted \cup {Head(todo[a])}
        /\ hand' = [hand EXCEPT ![a] = Null] /\ todo' = [todo EXCEPT ![a] = Tail(@)]
        /\ Signal([pc EXCEPT ![a] = IF Len(todo[a]) = 1 THEN Rest(a) ELSE "check"])
        /\ UNCHANGED <<globals, work, objects, obj, chan, record, app, fault>>
    BY <1>12 DEF QueuePush
  <2>2. PICK l \in {Rest(a), "check"} : l = IF Len(todo[a]) = 1 THEN Rest(a) ELSE "check"
    OBVIOUS
  <2>3. PICK mid : mid = [pc EXCEPT ![a] = l]
    OBVIOUS
  <2>4. pc' = mid \/ \E b \in Actors : pc[b] = "asleep" /\ pc' = [mid EXCEPT ![b] = "pop"]
    BY <2>1, <2>2, <2>3 DEF Signal, Sleepers
  <2>5. /\ mid \in [Actors -> CamPlaces \cup MicPlaces \cup PushPlaces] /\ mid[a] = l
        /\ \A b \in Actors : b # a => mid[b] = pc[b]
    BY <1>3, <2>3
  <2>6. /\ pc' \in [Actors -> CamPlaces \cup MicPlaces \cup PushPlaces] /\ pc'[a] = l
        /\ \A b \in Actors : b # a => pc'[b] = pc[b] \/ (b[1] = "push" /\ pc[b] = "asleep" /\ pc'[b] = "pop")
    BY <1>3, <2>1, <2>4, <2>5
  <2>7. hand[a] \in 1..made
    BY <2>1 DEF Inv, Types, TypesPacket
  <2>8. TypesPacket'
    <3>1. q' \in Seq(1..made')
      BY <1>4, <2>1, <2>7
    <3>2. \A b \in Actors : pc'[b] = "push" => b # a /\ pc[b] = "push"
      BY <1>3, <2>2, <2>6
    <3>3. /\ hand' \in [Actors -> {Null} \cup 1..made']
          /\ \A b \in Actors : pc'[b] = "push" => hand'[b] \in 1..made'
      BY <1>4, <2>1, <3>2 DEF Inv, Types, TypesPacket
    <3>4. QED BY <2>1, <3>1, <3>3 DEF Inv, Types, TypesPacket
  <2>9. TypesTodo'
    <3>1. PICK t \in Seq(Kinds) : t = Tail(todo[a]) /\ todo' = [todo EXCEPT ![a] = t] /\ (l = "check" => t # <<>>)
      BY <1>3, <1>4, <1>9, <2>1, <2>2
    <3>2. todo' \in [Actors -> Seq(Kinds)] /\ todo'[a] = t /\ \A b \in Actors : b # a => todo'[b] = todo[b]
      BY <1>4, <3>1
    <3>3. \A b \in Actors : pc'[b] \in {"check", "make", "push"} => todo'[b] # <<>>
      BY <1>3, <1>5, <2>6, <3>1, <3>2
    <3>4. accepted' \in SUBSET Kinds
      BY <1>4, <1>9, <2>1
    <3>5. QED BY <3>2, <3>3, <3>4 DEF TypesTodo
  <2>10. TypesEnc'
    BY <2>1 DEF Inv, Types, TypesEnc
  <2>11. QED BY <1>1, <1>2, <2>1, <2>2, <2>6, <2>8, <2>9, <2>10, Moves
<1>13. fault' # "none" => UNCHANGED <<globals, queue, objects, threads, app>>
  BY DEF Produce, Encode, QueueCheck, QueueMake, QueuePush
<1>14. QED BY <1>6, <1>8, <1>10, <1>11, <1>12, <1>13 DEF Produce

\* Up to the start of the push loop: connect, and hand the queue and the
\* connection to the encoders.
LEMMA Sets ==
    ASSUME Inv, fault = "none", NEW s \in Sessions,
           \/ rtmpAlloc(s) \/ rtmpConnect(s) \/ setRtmp(s) \/ pushReady(s)
           \/ pushSetWork(s) \/ setQueue(s) \/ queueAccDataHeader(s)
    PROVE  Inv'
<1> USE DEF rtmpAlloc, rtmpConnect, Enter, Connected, setRtmp, Setter, pushReady, pushSetWork, setQueue,
            queueAccDataHeader, Signal, Sleepers, globals, queue, objects, threads, app, Goto, Crash, P
<1>0. pc[P(s)] \in {"alloc", "connect", "connecting", "connectStream", "streaming", "setRtmpVideo", "setRtmpAudio",
                    "ready", "setWork", "setQueueVideo", "setQueueAudio", "header"}
  OBVIOUS
<1>1. TypesUI'
  <2>1. UNCHANGED <<ui, opens, open, calm, x264VideoEncode, faacAudioEncode, alreadyTryConnect>>
    OBVIOUS
  <2>2. /\ readPushing' \in {readPushing, TRUE} /\ work' \in {work, TRUE}
        /\ fault' \in {"none", "nullPointer", "useAfterFree"}
    OBVIOUS
  <2>3. QED BY <2>1, <2>2 DEF Inv, Types, TypesUI
<1>2. TypesPc'
  BY DEF Inv, Types, TypesPc, Actors, CamPlaces, MicPlaces, PushPlaces
<1>3. TypesEnc'
  BY DEF Inv, Types, TypesEnc, TypesConn, TypesCall, TypesUI, Session, Encoders, Record, NoEncoder
<1>4. TypesConn'
  BY DEF Inv, Types, TypesConn, TypesCall
<1>5. TypesCall'
  <2>1. /\ obj \in [Actors -> {Null} \cup Encoders] /\ faacAudioEncode \in {Null} \cup Encoders
        /\ chan \in [Sessions -> {Null} \cup Sessions] /\ rtmp \in {Null} \cup Sessions
    BY DEF Inv, Types, TypesCall, TypesConn, TypesUI
  <2>2. \/ obj' = obj
        \/ /\ obj' = [obj EXCEPT ![P(s)] = faacAudioEncode]
           /\ faacAudioEncode # Null /\ pc' = [pc EXCEPT ![P(s)] = "check"]
    OBVIOUS
  <2>3. obj' \in [Actors -> {Null} \cup Encoders]
    BY <2>1, <2>2
  <2>4. ASSUME NEW a \in Actors, pc'[a] \in {"encode", "check", "make", "push"} PROVE obj'[a] \in Encoders
    <3>1. pc \in [Actors -> CamPlaces \cup MicPlaces \cup PushPlaces]
      BY DEF Inv, Types, TypesPc
    <3>2. a # P(s) => pc'[a] = pc[a] \/ pc'[a] = "pop"
      BY <3>1
    <3>3. pc[a] \in {"encode", "check", "make", "push"} => obj[a] \in Encoders
      BY DEF Inv, Types, TypesCall
    <3>4. CASE a # P(s)
      BY <2>1, <2>2, <2>4, <3>2, <3>3, <3>4
    <3>5. CASE a = P(s) /\ obj' = obj
      BY <1>0, <2>1, <2>4, <3>1, <3>3, <3>5
    <3>6. CASE a = P(s) /\ obj' # obj
      BY <2>1, <2>2, <2>4, <3>6
    <3>7. QED BY <3>4, <3>5, <3>6
  <2>5. \/ chan' = chan
        \/ chan' = [chan EXCEPT ![s] = rtmp] /\ rtmp # Null
        \/ chan' = [chan EXCEPT ![s] = Null]
    OBVIOUS
  <2>6. chan' \in [Sessions -> {Null} \cup Sessions]
    BY <2>1, <2>5
  <2>7. ASSUME NEW t \in Sessions, pc'[P(t)] \in {"connecting", "streaming", "sending"} PROVE chan'[t] \in Sessions
    BY <2>1, <2>7 DEF Inv, Types, TypesCall, TypesPc, Actors, CamPlaces, MicPlaces, PushPlaces
  <2>8. QED BY <2>3, <2>4, <2>6, <2>7 DEF TypesCall
<1>6. TypesPacket'
  BY DEF Inv, Types, TypesPacket, TypesPc, Actors, CamPlaces, MicPlaces, PushPlaces
<1>7. TypesTodo'
  <2>1. P(s) \in Actors /\ todo \in [Actors -> Seq(Kinds)] /\ accepted' = accepted /\ accepted \in SUBSET Kinds
    BY ThreadsOf DEF Inv, Types, TypesTodo
  <2>2. \/ todo' = todo
        \/ todo' = [todo EXCEPT ![P(s)] = <<"aacHeader">>]
    OBVIOUS
  <2>3. <<"aacHeader">> \in Seq(Kinds) /\ <<"aacHeader">> # <<>>
    <3>1. "aacHeader" \in Kinds
      BY DEF Kinds
    <3>2. \A S : \A x \in S : <<x>> \in Seq(S) /\ <<x>> # <<>>
      OBVIOUS
    <3>3. QED BY <3>1, <3>2
  <2>4. \A b \in Actors : pc'[b] \in {"check", "make", "push"} =>
                             pc[b] = pc'[b] \/ (b = P(s) /\ todo' = [todo EXCEPT ![P(s)] = <<"aacHeader">>])
    BY DEF Inv, Types, TypesPc
  <2>5. QED BY <2>1, <2>2, <2>3, <2>4 DEF Inv, Types, TypesTodo
<1>8. TypesAudio'
  BY DEF Inv, Types, TypesAudio
<1>9. Session'
  BY DEF Inv, Types, Session, TypesUI, TypesPc, Sessions, Actors, Encoders, UIPlaces, Closing, Deleting, Ending
<1>10. Connection'
  BY DEF Inv, Types, Connection, TypesConn, TypesCall
<1>11. Held'
  BY DEF Inv, Types, Held, Holding, TypesPc, TypesPacket, Actors, CamPlaces, MicPlaces, PushPlaces
<1>12. Wired'
  <2> SUFFICES ASSUME open' \/ ui' = "stop", pc'[P(opens')] \in WiredPlaces
               PROVE  enc'[<<"video", opens'>>].queue = "set"
    BY DEF Wired
  <2>1. (open \/ ui = "stop") /\ opens' = opens /\ opens \in Sessions /\ x264VideoEncode = <<"video", opens>>
    BY DEF Inv, Session
  <2>2. PICK x \in Encoders, p \in Actors : x = <<"video", opens>> /\ p = P(opens)
    BY <2>1, ThreadsOf
  <2>3. enc \in [Encoders -> Record] /\ pc \in [Actors -> CamPlaces \cup MicPlaces \cup PushPlaces]
    BY DEF Inv, Types, TypesEnc, TypesPc
  <2>4. pc[p] \in WiredPlaces => enc[x].queue = "set"
    BY <2>1, <2>2 DEF Inv, Wired
  <2>5. CASE setQueue(s)
    <3>1. CASE pc[P(s)] = "setQueueVideo" /\ x264VideoEncode # Null
      <4>1. enc' = [enc EXCEPT ![x].queue = "set"]
        BY <2>1, <2>2, <2>5, <3>1
      <4>2. enc'[x].queue = "set"
        BY <2>3, <4>1 DEF Record
      <4>3. QED BY <2>1, <2>2, <4>2
    <3>2. CASE pc[P(s)] = "setQueueAudio" /\ faacAudioEncode # Null
      <4>1. enc' = [enc EXCEPT ![faacAudioEncode].queue = "set"] /\ pc' = [pc EXCEPT ![P(s)] = "header"]
        BY <2>5, <3>2
      <4>2. pc[p] \in WiredPlaces
        BY <2>1, <2>2, <2>3, <3>2, <4>1 DEF WiredPlaces
      <4>3. enc'[x].queue = "set"
        BY <2>3, <2>4, <4>1, <4>2 DEF Record
      <4>4. QED BY <2>1, <2>2, <4>3
    <3>3. CASE /\ ~(pc[P(s)] = "setQueueVideo" /\ x264VideoEncode # Null)
               /\ ~(pc[P(s)] = "setQueueAudio" /\ faacAudioEncode # Null)
      <4>1. enc' = enc /\ pc' = pc
        BY <2>5, <3>3
      <4>2. QED BY <2>1, <2>2, <2>4, <4>1
    <3>4. QED BY <3>1, <3>2, <3>3
  <2>6. CASE setRtmp(s)
    <3>1. CASE UNCHANGED <<enc, pc>>
      BY <2>1, <2>2, <2>4, <3>1
    <3>2. CASE enc' = [enc EXCEPT ![x264VideoEncode].rtmp = rtmp] /\ pc' = [pc EXCEPT ![P(s)] = "setRtmpAudio"]
      <4>1. pc[p] \in WiredPlaces
        BY <2>1, <2>2, <2>3, <3>2 DEF WiredPlaces
      <4>2. enc'[x].queue = "set"
        BY <2>3, <2>4, <3>2, <4>1 DEF Record
      <4>3. QED BY <2>1, <2>2, <4>2
    <3>3. CASE enc' = [enc EXCEPT ![faacAudioEncode].rtmp = rtmp] /\ pc' = [pc EXCEPT ![P(s)] = "ready"]
      <4>1. pc[p] \in WiredPlaces
        BY <2>1, <2>2, <2>3, <3>3 DEF WiredPlaces
      <4>2. enc'[x].queue = "set"
        BY <2>3, <2>4, <3>3, <4>1 DEF Record
      <4>3. QED BY <2>1, <2>2, <4>2
    <3>4. QED BY <2>6, <3>1, <3>2, <3>3
  <2>7. CASE pushSetWork(s)
    <3>1. pc[p] \in WiredPlaces
      BY <2>1, <2>2, <2>3, <2>7 DEF WiredPlaces
    <3>2. QED BY <2>1, <2>2, <2>4, <2>7, <3>1
  <2>8. CASE rtmpAlloc(s) \/ rtmpConnect(s) \/ pushReady(s) \/ queueAccDataHeader(s)
    <3>1. pc[p] \in WiredPlaces
      BY <2>1, <2>2, <2>3, <2>8 DEF WiredPlaces
    <3>2. QED BY <2>1, <2>2, <2>4, <2>8, <3>1
  <2>9. QED BY <2>5, <2>6, <2>7, <2>8
<1>13. Calm'
  <2>1. ~calm
    <3>1. P(s) \in Actors /\ P(s)[1] = "push"
      BY ThreadsOf
    <3>2. QED BY <1>0, <3>1 DEF Inv, Calm
  <2>2. QED BY <2>1 DEF Calm
<1>14. QED BY <1>1, <1>2, <1>3, <1>4, <1>5, <1>6, <1>7, <1>8, <1>9, <1>10, <1>11, <1>12, <1>13 DEF Inv, Types

\* The push loop.
LEMMA Pushes ==
    ASSUME Inv, fault = "none", NEW s \in Sessions,
           \/ pushLoop(s) \/ pushPop(s) \/ SpuriousWake(s) \/ pushCheck(s)
           \/ sendStart(s) \/ sendEnd(s) \/ releasePacket(s)
    PROVE  Inv'
<1> USE DEF pushLoop, pushPop, SpuriousWake, pushCheck, sendStart, sendEnd, releasePacket,
            globals, queue, objects, threads, app, Goto, Crash, P
<1>0. P(s) \in Actors /\ P(s)[1] = "push" /\ P(s)[2] = s
  BY ThreadsOf
<1>1. TypesUI'
  BY DEF Inv, Types, TypesUI
<1>2. TypesPc'
  BY DEF Inv, Types, TypesPc, Actors, CamPlaces, MicPlaces, PushPlaces
<1>3. TypesEnc' /\ TypesAudio'
  BY DEF Inv, Types, TypesEnc, TypesAudio
<1>4. TypesConn'
  BY DEF Inv, Types, TypesConn, TypesCall
<1>5. TypesCall'
  BY DEF Inv, Types, TypesCall, TypesPc, TypesConn, TypesUI, Actors, CamPlaces, MicPlaces, PushPlaces
<1>6. TypesPacket'
  <2>1. /\ made \in Nat /\ made' = made /\ videoPacket \in {Null} \cup 1..made /\ heap \in SUBSET (1..made)
        /\ q \in Seq(1..made) /\ hand \in [Actors -> {Null} \cup 1..made]
    BY DEF Inv, Types, TypesPacket
  <2>2. q' \in Seq(1..made) /\ videoPacket' \in {Null} \cup 1..made
    <3>1. CASE UNCHANGED <<q, videoPacket>>
      BY <2>1, <3>1
    <3>2. CASE q # <<>> /\ q' = Tail(q) /\ videoPacket' = Head(q)
      <4>1. PICK S, t : S = 1..made /\ t \in Seq(S) /\ t = q /\ t # <<>>
        BY <2>1, <3>2
      <4>2. Tail(t) \in Seq(S) /\ Head(t) \in S
        BY <4>1, TailIs
      <4>3. QED BY <2>1, <3>2, <4>1, <4>2
    <3>3. CASE q' = q /\ videoPacket' = Null
      BY <2>1, <3>3
    <3>4. QED BY <3>1, <3>2, <3>3
  <2>3. heap' \in SUBSET (1..made)
    BY <2>1
  <2>4. hand' \in [Actors -> {Null} \cup 1..made]
    BY <2>1
  <2>5. \A b \in Actors : pc'[b] = "push" => pc[b] = "push" /\ hand'[b] = hand[b]
    BY <1>0, <2>1 DEF Inv, Types, TypesPc
  <2>6. QED BY <2>1, <2>2, <2>3, <2>4, <2>5 DEF Inv, Types, TypesPacket
<1>7. TypesTodo'
  <2>1. todo' = todo /\ accepted' = accepted
    OBVIOUS
  <2>2. \A b \in Actors : pc'[b] \in {"check", "make", "push"} => pc[b] = pc'[b]
    BY <1>0 DEF Inv, Types, TypesPc
  <2>3. QED BY <2>1, <2>2 DEF Inv, Types, TypesTodo
<1>8. Session'
  BY DEF Inv, Types, Session, TypesUI, TypesPc, Sessions, Actors, Encoders, UIPlaces, Closing, Deleting, Ending
<1>9. Connection'
  BY DEF Inv, Types, Connection, TypesConn, TypesCall
<1>10. Held'
  BY DEF Inv, Types, Held, Holding, TypesPc, TypesPacket, Actors, CamPlaces, MicPlaces, PushPlaces
<1>11. Wired'
  <2>1. UNCHANGED <<ui, open, opens, enc>>
    OBVIOUS
  <2>2. pc[P(s)] \in WiredPlaces \/ (pc[P(s)] = "release" /\ pc'[P(s)] \notin WiredPlaces) \/ UNCHANGED pc
    BY <1>0 DEF Inv, Types, TypesPc, WiredPlaces
  <2>3. \A b \in Actors : b # P(s) => pc'[b] = pc[b]
    BY <1>0 DEF Inv, Types, TypesPc
  <2>4. open \/ ui = "stop" => P(opens) \in Actors
    BY ThreadsOf DEF Inv, Session
  <2>5. QED BY <2>1, <2>2, <2>3, <2>4 DEF Inv, Wired
<1>12. Calm'
  <2> SUFFICES ASSUME calm PROVE Calm'
    BY DEF Calm
  <2>1. /\ fault = "none" /\ ~open /\ opens \in Sessions
        /\ ui \in {"idle"} \cup Closing \cup Deleting \cup Ending
        /\ ~alreadyTryConnect /\ ~readPushing /\ q = <<>> /\ videoPacket = Null
        /\ ui \in Closing \cup {"stopQueue"} => enc[<<"video", opens>>].queue = "set"
    BY DEF Inv, Calm
  <2>2. \A b \in Actors :
                  /\ b[1] = "cam" => pc[b] \in {"off", "idle", "java"}
                  /\ b[1] = "mic" => /\ pc[b] \in {"off", "loop", "read", "java"}
                                     /\ pc[b] = "read" => record[b[2]] = "recording"
                  /\ b[1] = "push" => pc[b] \in {"off"} \cup
                        IF b[2] = opens THEN {"asleep", "pop", "popped", "release", "exit"} ELSE {}
    BY DEF Inv, Calm
  <2>3. PICK p \in Actors : p = P(s) /\ p[1] = "push" /\ p[2] = s
    BY <1>0
  <2>4. pc[p] \in {"asleep", "pop", "popped", "release"} /\ s = opens
    BY <2>2, <2>3
  <2>5. PICK l \in {"asleep", "pop", "popped", "release", "exit"} : pc' = [pc EXCEPT ![p] = l]
    <3>1. CASE SpuriousWake(s)
      BY <2>3, <3>1
    <3>2. CASE pushPop(s)
      BY <2>3, <3>2
    <3>3. CASE pushCheck(s)
      BY <2>1, <2>3, <3>3
    <3>4. CASE releasePacket(s)
      BY <2>1, <2>3, <2>4, <3>4
    <3>5. QED BY <2>3, <2>4, <3>1, <3>2, <3>3, <3>4
  <2>6. /\ UNCHANGED <<ui, opens, open, calm, record, enc, alreadyTryConnect, readPushing>>
        /\ q' = <<>> /\ videoPacket' = Null /\ fault' = "none"
    <3>1. CASE SpuriousWake(s) \/ pushCheck(s)
      BY <2>1, <3>1
    <3>2. CASE pushPop(s)
      BY <2>1, <3>2
    <3>3. CASE releasePacket(s)
      BY <2>1, <3>3
    <3>4. QED BY <2>3, <2>4, <3>1, <3>2, <3>3
  <2>7. \A b \in Actors :
                  /\ b[1] = "cam" => pc'[b] \in {"off", "idle", "java"}
                  /\ b[1] = "mic" => /\ pc'[b] \in {"off", "loop", "read", "java"}
                                     /\ pc'[b] = "read" => record[b[2]] = "recording"
                  /\ b[1] = "push" => pc'[b] \in {"off"} \cup
                        IF b[2] = opens THEN {"asleep", "pop", "popped", "release", "exit"} ELSE {}
    <3>1. pc \in [Actors -> CamPlaces \cup MicPlaces \cup PushPlaces]
      BY DEF Inv, Types, TypesPc
    <3>2. \A b \in Actors : pc'[b] = IF b = p THEN l ELSE pc[b]
      BY <2>5, <3>1
    <3>3. QED BY <2>2, <2>3, <2>4, <3>2
  <2>8. QED BY <2>1, <2>6, <2>7 DEF Calm
<1>13. QED BY <1>1, <1>2, <1>3, <1>4, <1>5, <1>6, <1>7, <1>8, <1>9, <1>10, <1>11, <1>12 DEF Inv, Types

\* The end of the push thread.
LEMMA Exits ==
    ASSUME Inv, fault = "none", NEW s \in Sessions, pushExit(s) \/ pushClose(s) \/ pushFree(s)
    PROVE  Inv'
<1> USE DEF pushExit, pushClose, pushFree, RTMP_Close, RTMP_Free,
            globals, queue, objects, threads, app, Goto, Crash, P
<1>0. PICK p \in Actors : p = P(s) /\ p[1] = "push" /\ p[2] = s
  BY ThreadsOf
<1>1. TypesUI' /\ TypesEnc' /\ TypesAudio'
  BY DEF Inv, Types, TypesUI, TypesEnc, TypesAudio
<1>2. TypesPc'
  BY DEF Inv, Types, TypesPc, Actors, CamPlaces, MicPlaces, PushPlaces
<1>3. TypesConn'
  BY DEF Inv, Types, TypesConn, TypesCall
<1>4. TypesCall'
  BY DEF Inv, Types, TypesCall, TypesPc, TypesConn, TypesUI, Actors, CamPlaces, MicPlaces, PushPlaces
<1>5. TypesPacket'
  BY DEF Inv, Types, TypesPacket, TypesPc, Actors, CamPlaces, MicPlaces, PushPlaces
<1>6. TypesTodo'
  BY DEF Inv, Types, TypesTodo, TypesPc, Actors, CamPlaces, MicPlaces, PushPlaces
<1>7. Session'
  BY DEF Inv, Types, Session, TypesUI, TypesPc, Sessions, Actors, Encoders, UIPlaces, Closing, Deleting, Ending
<1>8. Connection'
  BY DEF Inv, Types, Connection, TypesConn, TypesCall
<1>9. Held'
  BY DEF Inv, Types, Held, Holding, TypesPc, TypesPacket, Actors, CamPlaces, MicPlaces, PushPlaces
<1>10. Wired'
  BY DEF Inv, Types, Wired, WiredPlaces, TypesPc, TypesEnc, Session, Actors, Sessions
<1>11. Calm'
  <2> SUFFICES ASSUME calm PROVE Calm'
    BY DEF Calm
  <2>1. pc[p] = "exit" /\ ~alreadyTryConnect /\ \A b \in Actors : b[1] = "push" => pc[b] \notin {"close", "free"}
    BY <1>0 DEF Inv, Calm
  <2>2. pc' = [pc EXCEPT ![p] = "off"] /\ UNCHANGED <<globals, queue, objects, record, app, fault>>
    BY <1>0, <2>1
  <2>3. pc \in [Actors -> CamPlaces \cup MicPlaces \cup PushPlaces]
    BY DEF Inv, Types, TypesPc
  <2>4. \A b \in Actors : pc'[b] \in {pc[b], "off"}
    BY <2>2, <2>3
  <2>5. QED BY <2>2, <2>4 DEF Inv, Calm
<1>12. QED BY <1>1, <1>2, <1>3, <1>4, <1>5, <1>6, <1>7, <1>8, <1>9, <1>10, <1>11 DEF Inv, Types

\* What every behaviour keeps.
LEMMA InvInit == Init => Inv
<1> SUFFICES ASSUME Init PROVE Inv
  OBVIOUS
<1> USE DEF Init
<1>1. TypesUI /\ TypesPc /\ TypesEnc /\ TypesConn /\ TypesAudio
  <2>1. TypesUI
    <3>1. opens \in 0..MaxOpens /\ ui \in UIPlaces
      BY BoundAssumption DEF UIPlaces
    <3>2. QED BY <3>1 DEF TypesUI
  <2>2. TypesPc
    BY DEF TypesPc, CamPlaces, MicPlaces, PushPlaces
  <2>3. TypesEnc /\ TypesConn /\ TypesAudio
    BY DEF TypesEnc, TypesConn, TypesAudio, NoEncoder, Record
  <2>4. QED BY <2>1, <2>2, <2>3
<1>2. TypesCall /\ TypesPacket /\ TypesTodo
  <2>1. \A s \in Sessions : P(s) \in Actors
    BY ThreadsOf DEF P
  <2>2. TypesCall
    BY <2>1 DEF TypesCall
  <2>3. TypesPacket
    BY DEF TypesPacket
  <2>4. TypesTodo
    BY DEF TypesTodo
  <2>5. QED BY <2>2, <2>3, <2>4
<1>3. Session /\ Connection /\ Held /\ Wired /\ Calm
  BY DEF Session, Connection, Held, Wired, Calm, Closing, Deleting
<1>4. QED BY <1>1, <1>2, <1>3 DEF Inv, Types

LEMMA InvNext == ASSUME Inv, [Next]_vars PROVE Inv'
<1>1. CASE Next
  <2>1. fault = "none"
    BY <1>1 DEF Next
  <2>2. CASE OpenCamera
    BY <2>1, <2>2, Opens
  <2>3. CASE release \/ nativeStop
    BY <2>1, <2>3, Stops
  <2>4. CASE Release
    BY <2>1, <2>4, Releases
  <2>5. ASSUME NEW s \in Sessions, Camera(s) \/ Microphone(s) PROVE Inv'
    BY <2>1, <2>5, Captures
  <2>6. ASSUME NEW s \in Sessions, threadRun(s) \/ SpuriousWake(s) PROVE Inv'
    BY <2>1, <2>6, Sets, Pushes, Exits DEF threadRun
  <2>7. ASSUME NEW a \in Actors, Produce(a) PROVE Inv'
    BY <2>1, <2>7, Produces
  <2>8. QED BY <1>1, <2>2, <2>3, <2>4, <2>5, <2>6, <2>7 DEF Next
<1>2. CASE UNCHANGED vars
  <2> USE <1>2 DEF vars, globals, queue, objects, threads, app
  <2>1. Types'
    <3>1. TypesUI' /\ TypesPc' /\ TypesEnc' /\ TypesConn' /\ TypesCall'
      BY DEF Inv, Types, TypesUI, TypesPc, TypesEnc, TypesConn, TypesCall
    <3>2. TypesPacket' /\ TypesTodo' /\ TypesAudio'
      BY DEF Inv, Types, TypesPacket, TypesTodo, TypesAudio
    <3>3. QED BY <3>1, <3>2 DEF Types
  <2>2. Session' /\ Connection' /\ Held' /\ Wired' /\ Calm'
    BY DEF Inv, Session, Connection, Held, Wired, Calm
  <2>3. QED BY <2>1, <2>2 DEF Inv
<1>3. QED BY <1>1, <1>2

\* The inductive invariant: every behaviour of the app keeps the types, the wiring of
\* encoders, queue and connection, and what a calm release relies on.
THEOREM InvAlways == Spec => []Inv
<1>1. Init => Inv
  BY InvInit
<1>2. Inv /\ [Next]_vars => Inv'
  BY InvNext
<1>3. QED BY <1>1, <1>2, PTL DEF Spec

\* Every global, object and packet keeps its type, in any number of sessions.
THEOREM TypeCorrect == Spec => []TypeOK
<1>1. Inv => TypeOK
  BY DEF Inv, Types, TypesUI, TypesConn, TypesPacket, TypesTodo, TypeOK
<1>2. QED BY <1>1, InvAlways, PTL

\* A release that finds every thread at rest ends without a fault, in whatever order
\* the waking push thread and the UI thread take their steps, in any session.
THEOREM CalmReleaseIsSafeAlways == Spec => []CalmReleaseIsSafe
<1>1. Inv => CalmReleaseIsSafe
  BY DEF Inv, Calm, CalmReleaseIsSafe
<1>2. QED BY <1>1, InvAlways, PTL

-----------------------------------------------------------------------------
(* One session. *)

Elements(t) == {t[i] : i \in DOMAIN t}
Distinct(t) == \A i, j \in DOMAIN t : t[i] = t[j] => i = j

Queued == Elements(q)

\* Every allocated packet has exactly one owner: the queue, the actor that is
\* about to queue it, or the global videoPacket, which the push thread sends.
Owned ==
    /\ heap = Queued \cup ({hand[a] : a \in Actors} \ {Null}) \cup ({videoPacket} \ {Null})
    /\ Distinct(q)
    /\ videoPacket \notin Queued
    /\ \A a \in Actors : hand[a] # Null <=> pc[a] \in {"push", "sending"}
    /\ \A a \in Actors : pc[a] = "push" => /\ hand[a] \notin Queued /\ hand[a] # videoPacket
                                           /\ \A b \in Actors : b # a => hand[b] # hand[a]
    /\ \A s \in Sessions : pc[P(s)] = "sending" => hand[P(s)] = videoPacket

\* The microphone thread has nothing to do before the camera is configured.
Starting == \A s \in Sessions : pc[<<"cam", s>>] = "starting" => pc[<<"mic", s>>] = "off"

\* A push thread that popped after nativeStop is on its way out, and nothing
\* starts another session.
Outgoing ==
    /\ stale \subseteq Sessions
    /\ \A s \in stale : /\ ~alreadyTryConnect /\ opens = MaxOpens /\ ui \notin {"newRecorder", "rtmpstart"}
                        /\ pc[P(s)] \notin {"send", "sending"}

\* The connection is the one rtmp leads to, from its allocation until it is freed.
Linked ==
    /\ \A s \in Sessions : conn[s] \in {"none", "freed"} \/ rtmp = s
    /\ \A s \in Sessions : rtmp = s \/ chan[s] # Null => conn[s] # "none"
    /\ opens = 0 \/ ui \in {"newRecorder", "rtmpstart"} => \A s \in Sessions : conn[s] = "none"
    /\ \A s \in Sessions : pc[P(s)] = "alloc" => conn[s] = "none"
    /\ calm /\ ui \notin {"closeRtmp", "freeRtmp"} => rtmp = Null

\* The encoder globals lead to the encoders that are not deleted.
Reached ==
    /\ \A e \in Encoders : enc[e].live => e \in {x264VideoEncode, faacAudioEncode}
    /\ opens = 0 => x264VideoEncode = Null /\ faacAudioEncode = Null
    /\ ui = "newRecorder" => faacAudioEncode = Null
    /\ x264VideoEncode \in {Null} \cup {<<"video", s>> : s \in Sessions}
    /\ faacAudioEncode \in {Null} \cup {<<"audio", s>> : s \in Sessions}
    /\ ~open /\ ui \in {"idle"} \cup Ending => x264VideoEncode = Null
    /\ ~open /\ ui \in {"idle", "flags"} => faacAudioEncode = Null

OneInv == Starting /\ Owned /\ Outgoing /\ Linked /\ Reached

-----------------------------------------------------------------------------
LEMMA AppendElements ==
    ASSUME NEW S, NEW t \in Seq(S), NEW x \in S, Distinct(t), x \notin Elements(t)
    PROVE  Elements(Append(t, x)) = Elements(t) \cup {x} /\ Distinct(Append(t, x))
<1>1. /\ Append(t, x) \in Seq(S) /\ DOMAIN Append(t, x) = 1..(Len(t) + 1) /\ DOMAIN t = 1..Len(t) /\ Len(t) \in Nat
      /\ \A i \in 1..Len(t) : Append(t, x)[i] = t[i]
      /\ Append(t, x)[Len(t) + 1] = x
  OBVIOUS
<1>2. PICK u, n : u = Append(t, x) /\ n = Len(t) /\ n \in Nat
  BY <1>1
<1>3. /\ DOMAIN u = 1..(n + 1) /\ DOMAIN t = 1..n /\ \A i \in 1..n : u[i] = t[i]
      /\ u[n + 1] = x
  BY <1>1, <1>2
<1>4. \A i \in 1..(n + 1) : i \in 1..n \/ i = n + 1
  BY <1>2
<1>5. 1..n \subseteq 1..(n + 1) /\ n + 1 \in 1..(n + 1) /\ n + 1 \notin 1..n
  BY <1>2
<1>6. Elements(u) = Elements(t) \cup {x}
  BY <1>3, <1>4, <1>5 DEF Elements
<1>7. Distinct(u)
  BY <1>3, <1>4, <1>5 DEF Elements, Distinct
<1>8. QED BY <1>2, <1>6, <1>7

LEMMA TailElements ==
    ASSUME NEW S, NEW t \in Seq(S), t # <<>>, Distinct(t)
    PROVE  /\ Elements(t) = Elements(Tail(t)) \cup {Head(t)} /\ Head(t) \notin Elements(Tail(t))
           /\ Distinct(Tail(t))
<1>1. /\ Len(t) \in Nat \ {0} /\ DOMAIN t = 1..Len(t) /\ Tail(t) \in Seq(S) /\ Len(Tail(t)) = Len(t) - 1
      /\ \A i \in 1..(Len(t) - 1) : Tail(t)[i] = t[i + 1]
      /\ Head(t) = t[1] /\ DOMAIN Tail(t) = 1..(Len(t) - 1)
  OBVIOUS
<1>2. PICK u, n, h : u = Tail(t) /\ n = Len(t) /\ h = Head(t) /\ n \in Nat \ {0}
  BY <1>1
<1>3. /\ DOMAIN t = 1..n /\ DOMAIN u = 1..(n - 1) /\ \A i \in 1..(n - 1) : u[i] = t[i + 1]
      /\ h = t[1]
  BY <1>1, <1>2
<1>4. \A i \in 1..n : i = 1 \/ (i - 1 \in 1..(n - 1) /\ (i - 1) + 1 = i)
  BY <1>2
<1>5. \A i \in 1..(n - 1) : i + 1 \in 1..n /\ i + 1 # 1
  BY <1>2
<1>6. 1 \in 1..n
  BY <1>2
<1>7. \A i \in 2..n : u[i - 1] = t[i] /\ i - 1 \in 1..(n - 1)
  BY <1>2, <1>3, <1>4
<1>8. Elements(t) = Elements(u) \cup {h}
  <2>1. ASSUME NEW i \in 1..n PROVE t[i] \in Elements(u) \cup {h}
    <3>1. CASE i = 1
      BY <1>3, <3>1
    <3>2. CASE i # 1
      <4>1. i \in 2..n
        BY <3>2
      <4>2. QED BY <1>3, <1>7, <4>1 DEF Elements
    <3>3. QED BY <3>1, <3>2
  <2>2. ASSUME NEW i \in 1..(n - 1) PROVE u[i] \in Elements(t)
    BY <1>3, <1>5 DEF Elements
  <2>3. h \in Elements(t)
    BY <1>3, <1>6 DEF Elements
  <2>4. QED BY <1>3, <2>1, <2>2, <2>3 DEF Elements
<1>9. h \notin Elements(u)
  BY <1>3, <1>5, <1>6 DEF Elements, Distinct
<1>10. Distinct(u)
  <2> SUFFICES ASSUME NEW i \in 1..(n - 1), NEW j \in 1..(n - 1), u[i] = u[j] PROVE i = j
    BY <1>3 DEF Distinct
  <2>1. t[i + 1] = t[j + 1] /\ i + 1 \in DOMAIN t /\ j + 1 \in DOMAIN t
    BY <1>3, <1>5
  <2>2. i + 1 = j + 1
    BY <2>1 DEF Distinct
  <2>3. QED BY <2>2
<1>11. QED BY <1>2, <1>8, <1>9, <1>10

\* In one session there is one push thread.
LEMMA OneSession ==
    ASSUME MaxOpens = 1
    PROVE  /\ Sessions = {1} /\ \A s \in Sessions : P(s) \in Actors
           /\ \A a \in Actors : a[1] = "push" => a = P(1)
           /\ \A a \in Actors : a[1] \in {"cam", "mic", "push"} /\ a[2] = 1
<1>1. Sessions = {1}
  BY DEF Sessions
<1>2. QED BY <1>1 DEF P, Actors

\* A packet has one owner, whoever takes a step.
LEMMA OwnedKept == ASSUME MaxOpens = 1, Inv, Starting, Owned, Next PROVE Owned'
<1> DEFINE Still == /\ UNCHANGED <<q, heap, hand, videoPacket>>
                    /\ \A a \in Actors : \/ pc'[a] = pc[a]
                                         \/ pc[a] \notin {"push", "sending"} /\ pc'[a] \notin {"push", "sending"}
<1>1. ASSUME Still PROVE Owned'
  <2>1. UNCHANGED <<q, heap, hand, videoPacket>>
    BY <1>1
  <2>2. \A a \in Actors : /\ pc'[a] \in {"push", "sending"} <=> pc[a] \in {"push", "sending"}
                          /\ pc'[a] \in {"push", "sending"} => pc'[a] = pc[a]
    BY <1>1
  <2>3. \A s \in Sessions : P(s) \in Actors
    BY OneSession
  <2>4. QED BY <2>1, <2>2, <2>3 DEF Owned, Queued
<1>2. /\ fault = "none" /\ made \in Nat /\ videoPacket \in {Null} \cup 1..made /\ heap \in SUBSET (1..made)
      /\ q \in Seq(1..made) /\ hand \in [Actors -> {Null} \cup 1..made]
      /\ pc \in [Actors -> CamPlaces \cup MicPlaces \cup PushPlaces]
      /\ Null \notin Nat
  BY PointerAssumption DEF Next, Inv, Types, TypesPacket, TypesPc
<1>3. \A a \in Actors : pc[a] = "asleep" \/ pc[a] = "sending" => a = P(1)
  <2>1. \A a \in Actors : a[1] = "cam" \/ a[1] = "mic" \/ a = P(1)
    BY OneSession
  <2>2. \A x \in {"asleep", "sending"} : x \notin CamPlaces /\ x \notin MicPlaces
    BY DEF CamPlaces, MicPlaces
  <2>3. QED BY <2>1, <2>2 DEF Inv, Types, TypesPc
<1>4. videoPacket # Null => pc[P(1)] \in Holding
  BY OneSession DEF Inv, Held
<1>5. Elements(q) \subseteq 1..made
  <2>1. \A i \in DOMAIN q : q[i] \in 1..made
    BY <1>2
  <2>2. QED BY <2>1 DEF Elements
<1> USE DEF globals, queue, objects, threads, app, Crash, Goto
<1>6. CASE OpenCamera \/ release \/ nativeStop
  <2>1. UNCHANGED <<q, heap, hand, videoPacket>>
    BY <1>6 DEF OpenCamera, nativeX264EncodeInit, newAudioRecorderTool, nativeRtmpstart, release, nativeStop
  <2>2. nativeRtmpstart => \A a \in Actors : pc[a] = "off"
    BY OneSession DEF nativeRtmpstart, Inv, Session
  <2>3. \A a \in Actors : \/ pc'[a] = pc[a]
                          \/ pc[a] \notin {"push", "sending"} /\ pc'[a] \notin {"push", "sending"}
    BY <1>2, <1>6, <2>2 DEF OpenCamera, nativeX264EncodeInit, newAudioRecorderTool, nativeRtmpstart, release, nativeStop
  <2>4. QED BY <1>1, <2>1, <2>3
<1>7. CASE Release
  <2>1. UNCHANGED <<q, heap, hand, videoPacket>>
    BY <1>7 DEF Release, releaseCloseRtmp, releaseFreeRtmp, deleteVideoStart, deleteVideoStopQueue, deleteVideoClear,
       deleteVideoEnd, deleteAudioStart, deleteAudioEnd, releaseFlags, RTMP_Close, RTMP_Free
  <2>2. pc' = pc \/ \E b \in Actors : pc[b] = "asleep" /\ pc' = [pc EXCEPT ![b] = "pop"]
    BY <1>7 DEF Release, releaseCloseRtmp, releaseFreeRtmp, deleteVideoStart, deleteVideoStopQueue, deleteVideoClear,
       deleteVideoEnd, deleteAudioStart, deleteAudioEnd, releaseFlags, RTMP_Close, RTMP_Free, Signal, Sleepers
  <2>3. QED BY <1>1, <1>2, <2>1, <2>2
<1>8. ASSUME NEW s \in Sessions, Camera(s) \/ Microphone(s) PROVE Owned'
  <2>1. UNCHANGED <<q, heap, hand, videoPacket>>
    BY <1>8 DEF Camera, Microphone, startPreview, onImageAvailable, recordStart, recordLoop, recordRead,
       nativeSendPreviewData, sendAudioPcmData, Send
  <2>2. PICK c \in Actors, m \in Actors : c = <<"cam", s>> /\ m = <<"mic", s>> /\ Rest(c) = "idle" /\ Rest(m) = "loop"
    BY ThreadsOf DEF Rest
  <2>3. \/ UNCHANGED pc
        \/ pc[c] = "starting" /\ pc' = [pc EXCEPT ![c] = "idle", ![m] = "posted"]
        \/ pc[c] \in {"idle", "java"} /\ \E l \in {"java", "encode", "idle"} : pc' = [pc EXCEPT ![c] = l]
        \/ pc[m] \in {"posted", "loop", "read", "java"} /\ \E l \in {"loop", "read", "off", "java", "encode"} : pc' = [pc EXCEPT ![m] = l]
    BY <1>8, <2>2 DEF Camera, Microphone, startPreview, onImageAvailable, recordStart, recordLoop, recordRead,
       nativeSendPreviewData, sendAudioPcmData, Send
  <2>4. pc[c] = "starting" => pc[m] = "off"
    BY <2>2 DEF Starting
  <2>5. \A a \in Actors : \/ pc'[a] = pc[a]
                          \/ pc[a] \notin {"push", "sending"} /\ pc'[a] \notin {"push", "sending"}
    BY <1>2, <2>2, <2>3, <2>4
  <2>6. QED BY <1>1, <2>1, <2>5
<1>9. ASSUME NEW s \in Sessions,
             \/ rtmpAlloc(s) \/ rtmpConnect(s) \/ setRtmp(s) \/ pushReady(s)
             \/ pushSetWork(s) \/ setQueue(s) \/ queueAccDataHeader(s)
      PROVE Owned'
  <2>1. UNCHANGED <<q, heap, hand, videoPacket>>
    BY <1>9 DEF rtmpAlloc, rtmpConnect, Enter, Connected, setRtmp, Setter, pushReady, pushSetWork, setQueue, queueAccDataHeader
  <2>2. CASE pushSetWork(s)
    <3>1. PICK mid : mid = [pc EXCEPT ![P(s)] = "setQueueVideo"]
      OBVIOUS
    <3>2. pc[P(s)] = "setWork" /\ (pc' = mid \/ \E b \in Actors : pc[b] = "asleep" /\ pc' = [mid EXCEPT ![b] = "pop"])
      BY <2>2, <3>1 DEF pushSetWork, Signal, Sleepers
    <3>3. QED BY <1>1, <1>2, <2>1, <3>1, <3>2
  <2>3. CASE ~pushSetWork(s)
    <3>1. \A a \in Actors : \/ pc'[a] = pc[a]
                            \/ pc[a] \notin {"push", "sending"} /\ pc'[a] \notin {"push", "sending"}
      BY <1>2, <1>9, <2>3 DEF rtmpAlloc, rtmpConnect, Enter, Connected, setRtmp, Setter, pushReady, setQueue, queueAccDataHeader
    <3>2. QED BY <1>1, <2>1, <3>1
  <2>4. QED BY <2>2, <2>3
<1>10. ASSUME NEW s \in Sessions,
              \/ pushLoop(s) \/ SpuriousWake(s) \/ pushCheck(s)
              \/ pushExit(s) \/ pushClose(s) \/ pushFree(s)
       PROVE Owned'
  <2>1. UNCHANGED <<q, heap, hand, videoPacket>>
    BY <1>10 DEF pushLoop, SpuriousWake, pushCheck, pushExit, pushClose, pushFree, RTMP_Close, RTMP_Free
  <2>2. \A a \in Actors : \/ pc'[a] = pc[a]
                          \/ pc[a] \notin {"push", "sending"} /\ pc'[a] \notin {"push", "sending"}
    BY <1>2, <1>10 DEF pushLoop, SpuriousWake, pushCheck, pushExit, pushClose, pushFree
  <2>3. QED BY <1>1, <2>1, <2>2
<1>11. ASSUME NEW s \in Sessions, pushPop(s) \/ sendStart(s) \/ sendEnd(s) \/ releasePacket(s) PROVE Owned'
  <2>1. PICK p \in Actors : p = P(s) /\ p = P(1) /\ s = 1
    BY OneSession
  <2>2. CASE \/ UNCHANGED <<q, heap, hand, videoPacket, pc>>
             \/ UNCHANGED <<q, heap, hand, videoPacket>> /\ pc[p] = "pop" /\ \E l \in {"asleep", "popped"} : pc' = [pc EXCEPT ![p] = l]
    BY <1>1, <1>2, <2>2
  <2>3. CASE /\ pc[p] = "pop" /\ q # <<>> /\ q' = Tail(q) /\ videoPacket' = Head(q) /\ pc' = [pc EXCEPT ![p] = "popped"]
             /\ UNCHANGED <<heap, hand>>
    <3>1. videoPacket = Null
      BY <1>4, <2>1, <2>3 DEF Holding
    <3>2. /\ Elements(q) = Elements(q') \cup {videoPacket'} /\ videoPacket' \notin Elements(q') /\ Distinct(q')
      <4>1. PICK S, t : S = 1..made /\ t = q /\ t \in Seq(S) /\ t # <<>>
        BY <1>2, <2>3
      <4>2. Distinct(t)
        BY <4>1 DEF Owned
      <4>3. QED BY <2>3, <4>1, <4>2, TailElements
    <3>3. videoPacket' \in Elements(q) /\ videoPacket' # Null
      BY <1>2, <1>5, <3>2
    <3>4. \A a \in Actors : /\ pc'[a] \in {"push", "sending"} <=> pc[a] \in {"push", "sending"}
                            /\ pc'[a] \in {"push", "sending"} => pc'[a] = pc[a]
      BY <1>2, <2>3
    <3>5. \A t \in Sessions : pc'[P(t)] # "sending"
      BY <1>2, <2>1, <2>3, OneSession
    <3>6. QED BY <2>3, <3>1, <3>2, <3>3, <3>4, <3>5 DEF Owned, Queued
  <2>4. CASE /\ pc[p] = "send" /\ videoPacket # Null /\ hand' = [hand EXCEPT ![p] = videoPacket]
             /\ pc' = [pc EXCEPT ![p] = "sending"] /\ UNCHANGED <<q, heap, videoPacket>>
    <3>1. hand[p] = Null
      BY <2>4 DEF Owned
    <3>2. \A a \in Actors : hand'[a] = IF a = p THEN videoPacket ELSE hand[a]
      BY <1>2, <2>4
    <3>3. \A a \in Actors : pc'[a] = IF a = p THEN "sending" ELSE pc[a]
      BY <1>2, <2>4
    <3>4. {hand'[a] : a \in Actors} \ {Null} = ({hand[a] : a \in Actors} \ {Null}) \cup ({videoPacket} \ {Null})
      BY <2>4, <3>1, <3>2
    <3>5. QED BY <2>1, <2>4, <3>1, <3>2, <3>3, <3>4, OneSession DEF Owned, Queued
  <2>5. CASE /\ pc[p] = "sending" /\ hand' = [hand EXCEPT ![p] = Null]
             /\ pc' = [pc EXCEPT ![p] = "sent"] /\ UNCHANGED <<q, heap, videoPacket>>
    <3>1. hand[p] = videoPacket /\ videoPacket # Null
      BY <2>1, <2>5 DEF Owned
    <3>2. \A a \in Actors : hand'[a] = IF a = p THEN Null ELSE hand[a]
      BY <1>2, <2>5
    <3>3. \A a \in Actors : pc'[a] = IF a = p THEN "sent" ELSE pc[a]
      BY <1>2, <2>5
    <3>4. ({hand'[a] : a \in Actors} \ {Null}) \cup ({videoPacket} \ {Null}) = ({hand[a] : a \in Actors} \ {Null}) \cup ({videoPacket} \ {Null})
      BY <3>1, <3>2
    <3>5. \A a \in Actors : hand'[a] # Null <=> pc'[a] \in {"push", "sending"}
      BY <3>2, <3>3 DEF Owned
    <3>6. \A a \in Actors : pc'[a] = "push" => /\ hand'[a] \notin Queued' /\ hand'[a] # videoPacket'
                                               /\ \A b \in Actors : b # a => hand'[b] # hand'[a]
      <4>1. \A a \in Actors : pc'[a] = "push" => a # p /\ pc[a] = "push" /\ hand'[a] = hand[a] /\ hand[a] # Null
        BY <3>2, <3>3 DEF Owned
      <4>2. QED BY <2>5, <3>2, <4>1 DEF Owned, Queued
    <3>7. \A t \in Sessions : pc'[P(t)] # "sending"
      BY <2>1, <3>3, OneSession
    <3>8. QED BY <2>5, <3>4, <3>5, <3>6, <3>7 DEF Owned, Queued
  <2>6. CASE /\ pc[p] \in {"sent", "release"} /\ heap' = heap \ {videoPacket} /\ videoPacket' = Null
             /\ UNCHANGED <<q, hand>> /\ \E l \in {"loop", "exit"} : pc' = [pc EXCEPT ![p] = l]
    <3>1. \A a \in Actors : /\ pc'[a] \in {"push", "sending"} <=> pc[a] \in {"push", "sending"}
                            /\ pc'[a] \in {"push", "sending"} => pc'[a] = pc[a]
                            /\ pc[a] # "sending"
      BY <1>2, <1>3, <2>1, <2>6
    <3>2. Null \notin Elements(q)
      BY <1>2, <1>5
    <3>3. \A a \in Actors : hand[a] # Null => pc[a] = "push" /\ hand[a] # videoPacket
      BY <3>1 DEF Owned
    <3>4. heap' = Queued \cup ({hand[a] : a \in Actors} \ {Null})
      BY <2>6, <3>2, <3>3 DEF Owned, Queued
    <3>5. \A t \in Sessions : pc'[P(t)] # "sending"
      BY <3>1, OneSession
    <3>6. \A a \in Actors : pc'[a] = "push" => hand[a] # Null
      BY <3>1 DEF Owned
    <3>7. QED BY <2>6, <3>1, <3>2, <3>4, <3>5, <3>6 DEF Owned, Queued
  <2>7. QED
    <3>1. CASE pushPop(s)
      BY <2>1, <2>2, <2>3, <3>1 DEF pushPop
    <3>2. CASE sendStart(s)
      BY <2>1, <2>2, <2>4, <3>2 DEF sendStart
    <3>3. CASE sendEnd(s)
      BY <2>1, <2>2, <2>5, <3>3 DEF sendEnd
    <3>4. CASE releasePacket(s)
      BY <2>1, <2>2, <2>6, <3>4 DEF releasePacket
    <3>5. QED BY <1>11, <3>1, <3>2, <3>3, <3>4
<1>12. ASSUME NEW a \in Actors, Produce(a) PROVE Owned'
  <2>1. Rest(a) \in {"idle", "loop"}
    BY OneSession DEF Rest
  <2>2. CASE UNCHANGED <<q, heap, hand, videoPacket>> /\ (UNCHANGED pc \/ (pc[a] # "push" /\ Encode(a)) \/ (pc[a] # "push" /\ QueueCheck(a)))
    <3>1. UNCHANGED pc \/ (pc[a] \in {"encode", "check"} /\ \E l \in {"idle", "loop", "check", "make"} : pc' = [pc EXCEPT ![a] = l])
      BY <2>1, <2>2 DEF Encode, QueueCheck, Proceed
    <3>2. QED BY <1>1, <1>2, <2>2, <3>1
  <2>3. CASE /\ pc[a] = "make" /\ made' = made + 1 /\ heap' = heap \cup {made + 1} /\ hand' = [hand EXCEPT ![a] = made + 1]
             /\ pc' = [pc EXCEPT ![a] = "push"] /\ UNCHANGED <<q, videoPacket>>
    <3>1. PICK x \in Nat : x = made + 1 /\ x \notin 1..made /\ x # Null
      BY <1>2
    <3>2. /\ \A b \in Actors : hand'[b] = IF b = a THEN x ELSE hand[b]
          /\ \A b \in Actors : pc'[b] = IF b = a THEN "push" ELSE pc[b]
          /\ hand[a] = Null
      BY <1>2, <2>3, <3>1 DEF Owned
    <3>3. /\ x \notin Elements(q) /\ x # videoPacket /\ \A b \in Actors : hand[b] # x
      BY <1>2, <1>5, <3>1
    <3>4. {hand'[b] : b \in Actors} \ {Null} = ({hand[b] : b \in Actors} \ {Null}) \cup {x}
      BY <3>1, <3>2
    <3>5. heap' = heap \cup {x}
      BY <2>3, <3>1
    <3>6. \A b \in Actors : hand'[b] # Null <=> pc'[b] \in {"push", "sending"}
      BY <3>1, <3>2 DEF Owned
    <3>7. \A b \in Actors : pc'[b] = "push" => /\ hand'[b] \notin Queued' /\ hand'[b] # videoPacket'
                                               /\ \A d \in Actors : d # b => hand'[d] # hand'[b]
      BY <2>3, <3>2, <3>3 DEF Owned, Queued
    <3>8. \A t \in Sessions : pc'[P(t)] = "sending" => hand'[P(t)] = videoPacket'
      BY <2>3, <3>2, OneSession DEF Owned
    <3>9. QED BY <2>3, <3>4, <3>5, <3>6, <3>7, <3>8 DEF Owned, Queued
  <2>4. CASE /\ pc[a] = "push" /\ q' = Append(q, hand[a]) /\ hand' = [hand EXCEPT ![a] = Null]
             /\ UNCHANGED <<heap, videoPacket>>
             /\ \E l \in {"idle", "loop", "check"} : Signal([pc EXCEPT ![a] = l])
    <3>1. hand[a] \in 1..made /\ hand[a] # Null /\ hand[a] \notin Elements(q) /\ hand[a] # videoPacket
      BY <1>2, <2>4 DEF Owned, Queued
    <3>2. Elements(q') = Elements(q) \cup {hand[a]} /\ Distinct(q')
      <4>1. PICK S, t, x : S = 1..made /\ t = q /\ x = hand[a]
        OBVIOUS
      <4>2. t \in Seq(S) /\ x \in S /\ Distinct(t) /\ x \notin Elements(t)
        BY <1>2, <3>1, <4>1 DEF Owned
      <4>3. Elements(Append(t, x)) = Elements(t) \cup {x} /\ Distinct(Append(t, x))
        BY <4>2, AppendElements
      <4>4. q' = Append(t, x)
        BY <2>4, <4>1
      <4>5. QED BY <4>1, <4>3, <4>4
    <3>3. PICK l, mid : l \in {"idle", "loop", "check"} /\ mid = [pc EXCEPT ![a] = l] /\ Signal(mid)
      BY <2>4
    <3>4. pc' = mid \/ \E b \in Actors : pc[b] = "asleep" /\ pc' = [mid EXCEPT ![b] = "pop"]
      BY <3>3 DEF Signal, Sleepers
    <3>5. \A b \in Actors : /\ pc'[b] \in {"push", "sending"} <=> (b # a /\ pc[b] \in {"push", "sending"})
                            /\ pc'[b] \in {"push", "sending"} => pc'[b] = pc[b]
      BY <1>2, <2>4, <3>3, <3>4
    <3>6. \A b \in Actors : hand'[b] = IF b = a THEN Null ELSE hand[b]
      BY <1>2, <2>4
    <3>7. heap' = Elements(q') \cup ({hand'[b] : b \in Actors} \ {Null}) \cup ({videoPacket'} \ {Null})
      <4>1. ({hand[b] : b \in Actors} \ {Null}) = ({hand'[b] : b \in Actors} \ {Null}) \cup {hand[a]}
        BY <3>1, <3>6
      <4>2. QED BY <2>4, <3>2, <4>1 DEF Owned, Queued
    <3>8. \A b \in Actors : hand'[b] # Null <=> pc'[b] \in {"push", "sending"}
      BY <3>5, <3>6 DEF Owned
    <3>9. \A b \in Actors : pc'[b] = "push" => /\ hand'[b] \notin Elements(q') /\ hand'[b] # videoPacket'
                                               /\ \A d \in Actors : d # b => hand'[d] # hand'[b]
      <4>1. \A b \in Actors : pc'[b] = "push" => b # a /\ pc[b] = "push" /\ hand'[b] = hand[b] /\ hand[b] # Null
        BY <3>5, <3>6 DEF Owned
      <4>2. QED BY <2>4, <3>2, <3>6, <4>1 DEF Owned, Queued
    <3>10. \A t \in Sessions : pc'[P(t)] = "sending" => hand'[P(t)] = videoPacket'
      BY <2>4, <3>5, <3>6, OneSession DEF Owned
    <3>11. QED BY <2>4, <3>1, <3>2, <3>7, <3>8, <3>9, <3>10 DEF Owned, Queued
  <2>5. QED
    <3>1. CASE Encode(a) \/ QueueCheck(a)
      BY <2>2, <3>1 DEF Encode, QueueCheck
    <3>2. CASE QueueMake(a)
      BY <2>2, <2>3, <3>2 DEF QueueMake
    <3>3. CASE QueuePush(a)
      BY <2>1, <2>2, <2>4, <3>3 DEF QueuePush
    <3>4. QED BY <1>12, <3>1, <3>2, <3>3 DEF Produce
<1>13. QED BY <1>6, <1>7, <1>8, <1>9, <1>10, <1>11, <1>12 DEF Next, threadRun

\* Where a call into an encoder may take a thread.
LEMMA ProduceMoves ==
    ASSUME NEW a \in Actors, Produce(a), NEW b \in Actors,
           pc \in [Actors -> CamPlaces \cup MicPlaces \cup PushPlaces]
    PROVE  pc'[b] \in {pc[b], "idle", "loop", "check", "make", "push", "pop"}
<1> USE DEF Crash, Goto
<1>1. Rest(a) \in {"idle", "loop"}
  BY DEF Rest, Actors
<1>2. pc' = pc \/ \E l \in {"idle", "loop", "check", "make", "push"}, d \in Actors :
         \/ pc' = [pc EXCEPT ![a] = l]
         \/ pc' = [[pc EXCEPT ![a] = l] EXCEPT ![d] = "pop"]
  <2>1. CASE QueuePush(a)
    <3>1. pc' = pc \/ \E l \in {"idle", "loop", "check"} : Signal([pc EXCEPT ![a] = l])
      BY <1>1, <2>1 DEF QueuePush, threads
    <3>2. QED BY <3>1 DEF Signal, Sleepers
  <2>2. CASE ~QueuePush(a)
    BY <1>1, <2>2 DEF Produce, Encode, QueueCheck, QueueMake, Proceed, threads
  <2>3. QED BY <2>1, <2>2
<1>3. QED BY <1>2

LEMMA StartingKept == ASSUME MaxOpens = 1, Inv, Starting, Next PROVE Starting'
<1>1. PICK c \in Actors, m \in Actors : c = <<"cam", 1>> /\ m = <<"mic", 1>> /\ c # m /\ m # P(1) /\ c # P(1)
                                        /\ Sessions = {1} /\ Rest(m) = "loop" /\ Rest(c) = "idle"
  BY OneSession, ThreadsOf DEF Rest, P
<1>2. pc \in [Actors -> CamPlaces \cup MicPlaces \cup PushPlaces] /\ \A a \in Actors : pc[a] = "asleep" => a = P(1)
  <2>1. \A a \in Actors : a[1] = "cam" \/ a[1] = "mic" \/ a = P(1)
    BY OneSession
  <2>2. "asleep" \notin CamPlaces /\ "asleep" \notin MicPlaces
    BY DEF CamPlaces, MicPlaces
  <2>3. QED BY <2>1, <2>2 DEF Inv, Types, TypesPc
<1>3. pc[c] = "starting" => pc[m] = "off"
  BY <1>1 DEF Starting
<1> SUFFICES ASSUME pc'[c] = "starting" PROVE pc'[m] = "off"
  BY <1>1 DEF Starting
<1> USE DEF globals, queue, objects, threads, app, Crash, Goto
<1>4. CASE OpenCamera \/ release \/ nativeStop
  <2>1. nativeRtmpstart => pc[m] = "off"
    BY OneSession DEF nativeRtmpstart, Inv, Session
  <2>2. nativeRtmpstart \/ release => opens = 1
    BY <1>1 DEF nativeRtmpstart, release, Inv, Session
  <2>3. QED BY <1>1, <1>2, <1>3, <1>4, <2>1, <2>2 DEF OpenCamera, nativeX264EncodeInit, newAudioRecorderTool, nativeRtmpstart, release, nativeStop, P
<1>5. CASE Release
  <2>1. pc' = pc \/ \E b \in Actors : pc[b] = "asleep" /\ pc' = [pc EXCEPT ![b] = "pop"]
    BY <1>5 DEF Release, releaseCloseRtmp, releaseFreeRtmp, deleteVideoStart, deleteVideoStopQueue, deleteVideoClear,
       deleteVideoEnd, deleteAudioStart, deleteAudioEnd, releaseFlags, RTMP_Close, RTMP_Free, Signal, Sleepers
  <2>2. QED BY <1>1, <1>2, <1>3, <2>1
<1>6. ASSUME NEW s \in Sessions, Camera(s) \/ Microphone(s) PROVE pc'[m] = "off"
  <2>1. \/ UNCHANGED pc
        \/ pc[c] = "starting" /\ pc' = [pc EXCEPT ![c] = "idle", ![m] = "posted"]
        \/ \E l \in {"java", "encode", "idle"} : pc' = [pc EXCEPT ![c] = l]
        \/ pc[m] # "off" /\ \E l \in {"loop", "read", "off", "java", "encode"} : pc' = [pc EXCEPT ![m] = l]
    BY <1>1, <1>6 DEF Camera, Microphone, startPreview, onImageAvailable, recordStart, recordLoop, recordRead,
       nativeSendPreviewData, sendAudioPcmData, Send
  <2>2. QED BY <1>1, <1>2, <1>3, <2>1
<1>7. ASSUME NEW s \in Sessions, threadRun(s) \/ SpuriousWake(s) PROVE pc'[m] = "off"
  <2>1. pc'[c] = pc[c] /\ pc'[m] = pc[m]
    <3>1. CASE pushSetWork(s)
      <4>1. PICK mid : mid = [pc EXCEPT ![P(1)] = "setQueueVideo"]
        OBVIOUS
      <4>2. pc' = mid \/ \E b \in Actors : pc[b] = "asleep" /\ pc' = [mid EXCEPT ![b] = "pop"]
        BY <1>1, <3>1, <4>1 DEF pushSetWork, Signal, Sleepers
      <4>3. QED BY <1>1, <1>2, <4>1, <4>2
    <3>2. CASE ~pushSetWork(s)
      <4>1. UNCHANGED pc \/ \E l : pc' = [pc EXCEPT ![P(1)] = l]
        BY <1>1, <1>7, <3>2 DEF threadRun, rtmpAlloc, rtmpConnect, Enter, Connected, setRtmp, Setter, pushReady, setQueue,
           queueAccDataHeader, pushLoop, pushPop, SpuriousWake, pushCheck, sendStart, sendEnd, releasePacket,
           pushExit, pushClose, pushFree
      <4>2. QED BY <1>1, <1>2, <4>1
    <3>3. QED BY <3>1, <3>2
  <2>2. QED BY <1>3, <2>1
<1>8. ASSUME NEW a \in Actors, Produce(a) PROVE pc'[m] = "off"
  <2>1. pc[a] # "off" /\ pc[a] # "starting" /\ Rest(a) \in {"idle", "loop"}
    BY <1>8, OneSession DEF Produce, Encode, QueueCheck, QueueMake, QueuePush, Rest
  <2>2. UNCHANGED pc \/ \E l \in {"idle", "loop", "check", "make", "push"}, b \in Actors :
           \/ pc' = [pc EXCEPT ![a] = l]
           \/ pc[b] = "asleep" /\ pc' = [[pc EXCEPT ![a] = l] EXCEPT ![b] = "pop"]
    <3>1. CASE QueuePush(a)
      <4>1. UNCHANGED pc \/ \E l \in {"idle", "loop", "check"} : Signal([pc EXCEPT ![a] = l])
        BY <2>1, <3>1 DEF QueuePush
      <4>2. QED BY <4>1 DEF Signal, Sleepers
    <3>2. CASE ~QueuePush(a)
      BY <1>8, <2>1, <3>2 DEF Produce, Encode, QueueCheck, QueueMake, Proceed
    <3>3. QED BY <3>1, <3>2
  <2>3. QED BY <1>1, <1>2, <1>3, <2>1, <2>2
<1>9. QED BY <1>4, <1>5, <1>6, <1>7, <1>8 DEF Next

\* Who popped after nativeStop does not send.
LEMMA OutgoingKept == ASSUME MaxOpens = 1, Inv, Outgoing, Next PROVE Outgoing'
<1>1. Sessions = {1} /\ P(1) \in Actors /\ opens \in 0..1 /\ pc \in [Actors -> CamPlaces \cup MicPlaces \cup PushPlaces]
      /\ (pc[P(1)] # "off" => opens = 1 /\ ui \notin {"newRecorder", "rtmpstart"})
  BY OneSession DEF Inv, Types, TypesUI, TypesPc, Session, P
<1> USE DEF globals, queue, objects, threads, app, Crash, Goto
<1>2. CASE OpenCamera \/ release \/ nativeStop
  <2>1. stale' = stale
    BY <1>2 DEF OpenCamera, nativeX264EncodeInit, newAudioRecorderTool, nativeRtmpstart, release, nativeStop
  <2>2. CASE nativeX264EncodeInit
    <3>1. opens # MaxOpens
      BY <1>1, <2>2 DEF nativeX264EncodeInit
    <3>2. QED BY <2>1, <3>1 DEF Outgoing
  <2>3. CASE newAudioRecorderTool \/ nativeRtmpstart
    BY <2>1, <2>3 DEF Outgoing, newAudioRecorderTool, nativeRtmpstart
  <2>4. CASE release \/ nativeStop
    <3>1. pc'[P(1)] = pc[P(1)] /\ opens' = opens /\ ui' \in {"stop", "closeRtmp"} /\ (alreadyTryConnect' => alreadyTryConnect)
      BY <1>1, <2>4 DEF release, nativeStop, P
    <3>2. QED BY <1>1, <2>1, <3>1 DEF Outgoing
  <2>5. QED BY <1>2, <2>2, <2>3, <2>4 DEF OpenCamera
<1>3. CASE Release
  <2>1. UNCHANGED <<stale, opens>> /\ (alreadyTryConnect' => alreadyTryConnect)
        /\ ui' \notin {"newRecorder", "rtmpstart"}
    BY <1>3 DEF Release, releaseCloseRtmp, releaseFreeRtmp, deleteVideoStart, deleteVideoStopQueue, deleteVideoClear,
       deleteVideoEnd, deleteAudioStart, deleteAudioEnd, releaseFlags, RTMP_Close, RTMP_Free
  <2>2. pc' = pc \/ \E b \in Actors : pc' = [pc EXCEPT ![b] = "pop"]
    BY <1>3 DEF Release, releaseCloseRtmp, releaseFreeRtmp, deleteVideoStart, deleteVideoStopQueue, deleteVideoClear,
       deleteVideoEnd, deleteAudioStart, deleteAudioEnd, releaseFlags, RTMP_Close, RTMP_Free, Signal, Sleepers
  <2>3. pc'[P(1)] \in {pc[P(1)], "pop"}
    BY <1>1, <2>2
  <2>4. QED BY <1>1, <2>1, <2>3 DEF Outgoing
<1>4. ASSUME NEW s \in Sessions, Camera(s) \/ Microphone(s) PROVE Outgoing'
  <2>1. UNCHANGED <<stale, opens, alreadyTryConnect, ui>>
    BY <1>4 DEF Camera, Microphone, startPreview, onImageAvailable, recordStart, recordLoop, recordRead,
       nativeSendPreviewData, sendAudioPcmData, Send
  <2>2. pc'[P(1)] = pc[P(1)]
    BY <1>1, <1>4 DEF Camera, Microphone, startPreview, onImageAvailable, recordStart, recordLoop, recordRead,
       nativeSendPreviewData, sendAudioPcmData, Send, P
  <2>3. QED BY <1>1, <2>1, <2>2 DEF Outgoing
<1>5. ASSUME NEW s \in Sessions, threadRun(s) \/ SpuriousWake(s) PROVE Outgoing'
  <2>1. CASE pushSetWork(s)
    <3>1. UNCHANGED <<stale, opens, alreadyTryConnect, ui>>
      BY <2>1 DEF pushSetWork
    <3>2. pc'[P(1)] \in {"setQueueVideo", "pop"}
      <4>1. PICK mid : mid = [pc EXCEPT ![P(1)] = "setQueueVideo"]
        OBVIOUS
      <4>2. pc' = mid \/ \E b \in Actors : pc' = [mid EXCEPT ![b] = "pop"]
        BY <1>1, <2>1, <4>1 DEF pushSetWork, Signal, Sleepers
      <4>3. QED BY <1>1, <4>1, <4>2
    <3>3. QED BY <1>1, <3>1, <3>2 DEF Outgoing
  <2>2. CASE pushPop(s)
    <3>1. pc'[P(1)] \in {"asleep", "popped"} /\ UNCHANGED <<ui, opens, alreadyTryConnect>>
      BY <1>1, <2>2 DEF pushPop
    <3>2. \/ stale' = stale
          \/ alreadyTryConnect /\ stale' = stale \ {1}
          \/ ~alreadyTryConnect /\ stale' = stale \cup {1}
      BY <1>1, <2>2 DEF pushPop
    <3>3. opens = MaxOpens /\ ui \notin {"newRecorder", "rtmpstart"}
      BY <1>1, <2>2 DEF pushPop
    <3>4. QED BY <1>1, <3>1, <3>2, <3>3 DEF Outgoing
  <2>3. CASE pushCheck(s)
    BY <1>1, <2>3 DEF pushCheck, Outgoing
  <2>4. CASE sendStart(s)
    BY <1>1, <2>4 DEF sendStart, Outgoing
  <2>5. CASE \/ rtmpAlloc(s) \/ rtmpConnect(s) \/ setRtmp(s) \/ pushReady(s) \/ setQueue(s) \/ queueAccDataHeader(s)
             \/ pushLoop(s) \/ SpuriousWake(s) \/ sendEnd(s) \/ releasePacket(s) \/ pushExit(s) \/ pushClose(s) \/ pushFree(s)
    <3>1. UNCHANGED <<stale, opens, alreadyTryConnect, ui>>
      BY <2>5 DEF rtmpAlloc, rtmpConnect, Enter, Connected, setRtmp, Setter, pushReady, setQueue, queueAccDataHeader,
         pushLoop, SpuriousWake, sendEnd, releasePacket, pushExit, pushClose, pushFree
    <3>2. pc'[P(1)] \notin {"send", "sending"} \/ pc'[P(1)] = pc[P(1)]
      BY <1>1, <2>5 DEF rtmpAlloc, rtmpConnect, Enter, Connected, setRtmp, Setter, pushReady, setQueue, queueAccDataHeader,
         pushLoop, SpuriousWake, sendEnd, releasePacket, pushExit, pushClose, pushFree
    <3>3. QED BY <1>1, <3>1, <3>2 DEF Outgoing
  <2>6. QED BY <1>5, <2>1, <2>2, <2>3, <2>4, <2>5 DEF threadRun
<1>6. ASSUME NEW a \in Actors, Produce(a) PROVE Outgoing'
  <2>1. UNCHANGED <<stale, opens, alreadyTryConnect, ui>>
    BY <1>6 DEF Produce, Encode, QueueCheck, QueueMake, QueuePush
  <2>2. pc'[P(1)] \notin {"send", "sending"} \/ pc'[P(1)] = pc[P(1)]
    BY <1>1, <1>6, ProduceMoves
  <2>3. QED BY <1>1, <2>1, <2>2 DEF Outgoing
<1>7. QED BY <1>2, <1>3, <1>4, <1>5, <1>6 DEF Next

\* The connection of the session is reached through rtmp until it is freed.
LEMMA LinkedKept == ASSUME MaxOpens = 1, Inv, Linked, Next PROVE Linked'
<1>1. /\ Sessions = {1} /\ P(1) \in Actors /\ opens \in 0..1
      /\ pc \in [Actors -> CamPlaces \cup MicPlaces \cup PushPlaces]
      /\ (pc[P(1)] # "off" => opens = 1 /\ ui \notin {"newRecorder", "rtmpstart"})
      /\ (pc[P(1)] \in {"connecting", "streaming", "sending"} => chan[1] = 1)
      /\ rtmp \in {Null, 1} /\ Null # 1 /\ (rtmp = 1 => conn[1] # "freed")
      /\ conn \in [Sessions -> {"none", "init", "connected", "closed", "freed"}] /\ chan \in [Sessions -> {Null, 1}]
  BY OneSession, PointerAssumption DEF Inv, Types, TypesUI, TypesPc, TypesConn, TypesCall, Session, Connection, P
<1>2. /\ conn[1] \in {"none", "freed"} \/ rtmp = 1
      /\ rtmp = 1 \/ chan[1] # Null => conn[1] # "none"
      /\ opens = 0 \/ ui \in {"newRecorder", "rtmpstart"} => conn[1] = "none"
      /\ pc[P(1)] = "alloc" => conn[1] = "none"
      /\ calm /\ ui \notin {"closeRtmp", "freeRtmp"} => rtmp = Null
  BY <1>1 DEF Linked
<1>3. ASSUME conn'[1] \in {"none", "freed"} \/ rtmp' = 1,
             rtmp' = 1 \/ chan'[1] # Null => conn'[1] # "none",
             opens' = 0 \/ ui' \in {"newRecorder", "rtmpstart"} => conn'[1] = "none",
             pc'[P(1)] = "alloc" => conn'[1] = "none",
             calm' /\ ui' \notin {"closeRtmp", "freeRtmp"} => rtmp' = Null
      PROVE  Linked'
  BY <1>1, <1>3 DEF Linked
<1>4. ASSUME UNCHANGED <<conn, rtmp, chan, opens, ui, calm>>, pc'[P(1)] = "alloc" => pc[P(1)] = "alloc" PROVE Linked'
  BY <1>1, <1>2, <1>4 DEF Linked
<1> USE DEF globals, queue, objects, threads, app, Crash, Goto
<1>5. CASE OpenCamera
  <2>1. UNCHANGED <<conn, rtmp, chan>> /\ conn[1] = "none" /\ opens' # 0
    <3>1. nativeX264EncodeInit => opens = 0 /\ opens' = opens + 1
      BY <1>1 DEF nativeX264EncodeInit
    <3>2. newAudioRecorderTool \/ nativeRtmpstart => opens = 1 /\ opens' = opens /\ ui \in {"newRecorder", "rtmpstart"}
      BY <1>1 DEF newAudioRecorderTool, nativeRtmpstart, Inv, Session
    <3>3. UNCHANGED <<conn, rtmp, chan>>
      BY <1>5 DEF OpenCamera, nativeX264EncodeInit, newAudioRecorderTool, nativeRtmpstart
    <3>4. QED BY <1>2, <1>5, <3>1, <3>2, <3>3 DEF OpenCamera
  <2>2. ~calm'
    BY <1>5 DEF OpenCamera, nativeX264EncodeInit, newAudioRecorderTool, nativeRtmpstart, Inv, Calm, Closing, Deleting, Ending
  <2>3. QED BY <1>2, <1>3, <2>1, <2>2
<1>6. CASE release \/ nativeStop
  <2>1. /\ UNCHANGED <<conn, rtmp, chan, opens>> /\ pc'[P(1)] = pc[P(1)] /\ opens = 1
        /\ ui' \in {"stop", "closeRtmp"}
    BY <1>1, <1>6 DEF release, nativeStop, P, Inv, Session
  <2>2. release => ~calm'
    BY <1>6 DEF release, Inv, Calm
  <2>3. nativeStop => ui' = "closeRtmp"
    BY DEF nativeStop
  <2>4. QED BY <1>1, <1>2, <1>3, <1>6, <2>1, <2>2, <2>3
<1>7. CASE Release
  <2>1. UNCHANGED <<chan, opens, calm>> /\ ui' \notin {"newRecorder", "rtmpstart"} /\ opens = 1
    BY <1>1, <1>7 DEF Release, releaseCloseRtmp, releaseFreeRtmp, deleteVideoStart, deleteVideoStopQueue, deleteVideoClear,
       deleteVideoEnd, deleteAudioStart, deleteAudioEnd, releaseFlags, RTMP_Close, RTMP_Free, Inv, Session
  <2>2. pc' = pc \/ \E b \in Actors : pc' = [pc EXCEPT ![b] = "pop"]
    BY <1>7 DEF Release, releaseCloseRtmp, releaseFreeRtmp, deleteVideoStart, deleteVideoStopQueue, deleteVideoClear,
       deleteVideoEnd, deleteAudioStart, deleteAudioEnd, releaseFlags, RTMP_Close, RTMP_Free, Signal, Sleepers
  <2>3. pc'[P(1)] \in {pc[P(1)], "pop"}
    BY <1>1, <2>2
  <2>4. CASE releaseCloseRtmp
    BY <1>1, <1>2, <1>3, <2>1, <2>3, <2>4 DEF releaseCloseRtmp, RTMP_Close
  <2>5. CASE releaseFreeRtmp
    <3>1. pc' = pc /\ rtmp' = Null
      BY <2>5 DEF releaseFreeRtmp
    <3>2. \/ rtmp = Null /\ conn' = conn
          \/ rtmp = 1 /\ conn'[1] = "freed"
      BY <1>1, <2>5 DEF releaseFreeRtmp, RTMP_Free
    <3>3. QED BY <1>1, <1>2, <1>3, <2>1, <3>1, <3>2
  <2>6. CASE ~releaseCloseRtmp /\ ~releaseFreeRtmp
    <3>1. UNCHANGED <<conn, rtmp>> /\ (ui \notin {"closeRtmp", "freeRtmp"})
      BY <1>7, <2>6 DEF Release, deleteVideoStart, deleteVideoStopQueue, deleteVideoClear,
         deleteVideoEnd, deleteAudioStart, deleteAudioEnd, releaseFlags
    <3>2. QED BY <1>1, <1>2, <1>3, <2>1, <2>3, <3>1
  <2>7. QED BY <2>4, <2>5, <2>6
<1>8. ASSUME NEW s \in Sessions, Camera(s) \/ Microphone(s) PROVE Linked'
  <2>1. UNCHANGED <<conn, rtmp, chan, opens, ui, calm>>
    BY <1>8 DEF Camera, Microphone, startPreview, onImageAvailable, recordStart, recordLoop, recordRead,
       nativeSendPreviewData, sendAudioPcmData, Send
  <2>2. pc'[P(1)] = pc[P(1)]
    BY <1>1, <1>8 DEF Camera, Microphone, startPreview, onImageAvailable, recordStart, recordLoop, recordRead,
       nativeSendPreviewData, sendAudioPcmData, Send, P
  <2>3. QED BY <1>4, <2>1, <2>2
<1>9. ASSUME NEW s \in Sessions, threadRun(s) \/ SpuriousWake(s) PROVE Linked'
  <2>1. s = 1 /\ (pc[P(1)] \notin {"asleep", "pop", "popped", "release", "exit", "off"} => ~calm)
    <3>1. P(1)[1] = "push"
      BY DEF P
    <3>2. QED BY <1>1, <3>1 DEF Inv, Calm
  <2>2. opens = 1 /\ ui \notin {"newRecorder", "rtmpstart"}
    <3>1. pc[P(1)] # "off"
      BY <1>9, <2>1 DEF threadRun, rtmpAlloc, rtmpConnect, Enter, Connected, setRtmp, Setter, pushReady, pushSetWork, setQueue,
           queueAccDataHeader, pushLoop, pushPop, SpuriousWake, pushCheck, sendStart, sendEnd, releasePacket,
           pushExit, pushClose, pushFree
    <3>2. QED BY <1>1, <3>1
  <2>3. CASE rtmpAlloc(s)
    <3>1. /\ pc'[P(1)] \in {"connect", "exit"} /\ UNCHANGED <<chan, opens, ui, calm>> /\ pc[P(1)] = "alloc"
          /\ \/ rtmp' = 1 /\ conn'[1] = "init"
             \/ rtmp' = Null /\ conn' = conn
      BY <1>1, <2>1, <2>3 DEF rtmpAlloc
    <3>2. QED BY <1>1, <1>2, <1>3, <2>1, <2>2, <3>1
  <2>4. CASE rtmpConnect(s) \/ sendStart(s) \/ sendEnd(s)
    <3>1. /\ pc'[P(1)] # "alloc" /\ UNCHANGED <<rtmp, opens, ui, calm>>
          /\ pc[P(1)] \in {"connect", "connecting", "connectStream", "streaming", "send", "sending"}
      BY <1>1, <2>1, <2>4 DEF rtmpConnect, Enter, Connected, sendStart, sendEnd
    <3>2. \/ conn' = conn /\ chan'[1] \in {chan[1], Null}
          \/ conn' = conn /\ chan'[1] = rtmp
          \/ conn[1] # "freed" /\ chan[1] = 1 /\ chan'[1] = Null /\ conn'[1] # "none"
      BY <1>1, <2>1, <2>4 DEF rtmpConnect, Enter, Connected, sendStart, sendEnd
    <3>3. QED BY <1>1, <1>2, <1>3, <2>1, <2>2, <3>1, <3>2
  <2>5. CASE pushClose(s)
    <3>1. pc'[P(1)] # "alloc" /\ UNCHANGED <<rtmp, chan, opens, ui, calm>> /\ pc[P(1)] = "close"
      BY <1>1, <2>1, <2>5 DEF pushClose
    <3>2. conn' = conn \/ (rtmp = 1 /\ conn'[1] = "closed")
      BY <1>1, <2>1, <2>5 DEF pushClose, RTMP_Close
    <3>3. QED BY <1>1, <1>2, <1>3, <2>1, <2>2, <3>1, <3>2
  <2>6. CASE pushFree(s)
    <3>1. pc'[P(1)] # "alloc" /\ UNCHANGED <<chan, opens, ui, calm>> /\ pc[P(1)] = "free" /\ rtmp' = Null
      BY <1>1, <2>1, <2>6 DEF pushFree
    <3>2. (rtmp = Null /\ conn' = conn) \/ (rtmp = 1 /\ conn'[1] = "freed")
      BY <1>1, <2>1, <2>6 DEF pushFree, RTMP_Free
    <3>3. QED BY <1>1, <1>2, <1>3, <2>1, <2>2, <3>1, <3>2
  <2>7. CASE \/ setRtmp(s) \/ pushReady(s) \/ setQueue(s) \/ queueAccDataHeader(s)
             \/ pushLoop(s) \/ pushPop(s) \/ SpuriousWake(s) \/ pushCheck(s) \/ releasePacket(s) \/ pushExit(s)
    <3>1. UNCHANGED <<conn, rtmp, chan, opens, ui, calm>>
      BY <2>7 DEF setRtmp, Setter, pushReady, setQueue, queueAccDataHeader,
         pushLoop, pushPop, SpuriousWake, pushCheck, releasePacket, pushExit
    <3>2. pc'[P(1)] # "alloc"
      BY <1>1, <2>1, <2>7 DEF setRtmp, Setter, pushReady, setQueue, queueAccDataHeader,
         pushLoop, pushPop, SpuriousWake, pushCheck, releasePacket, pushExit
    <3>3. QED BY <1>4, <3>1, <3>2
  <2>8. CASE pushSetWork(s)
    <3>1. UNCHANGED <<conn, rtmp, chan, opens, ui, calm>>
      BY <2>8 DEF pushSetWork
    <3>2. pc'[P(1)] \in {"setQueueVideo", "pop"}
      <4>1. PICK mid : mid = [pc EXCEPT ![P(1)] = "setQueueVideo"]
        OBVIOUS
      <4>2. pc' = mid \/ \E b \in Actors : pc' = [mid EXCEPT ![b] = "pop"]
        BY <2>1, <2>8, <4>1 DEF pushSetWork, Signal, Sleepers
      <4>3. QED BY <1>1, <4>1, <4>2
    <3>3. QED BY <1>4, <3>1, <3>2
  <2>9. QED BY <1>9, <2>3, <2>4, <2>5, <2>6, <2>7, <2>8 DEF threadRun
<1>10. ASSUME NEW a \in Actors, Produce(a) PROVE Linked'
  <2>1. UNCHANGED <<conn, rtmp, chan, opens, ui, calm>>
    BY <1>10 DEF Produce, Encode, QueueCheck, QueueMake, QueuePush
  <2>2. pc'[P(1)] # "alloc" \/ pc'[P(1)] = pc[P(1)]
    BY <1>1, <1>10, ProduceMoves
  <2>3. QED BY <1>4, <2>1, <2>2
<1>11. QED BY <1>5, <1>6, <1>7, <1>8, <1>9, <1>10 DEF Next

\* The encoders that are not deleted are reached through the globals.
LEMMA ReachedKept == ASSUME MaxOpens = 1, Inv, Reached, Next PROVE Reached'
<1>1. Sessions = {1} /\ opens \in 0..1 /\ enc \in [Encoders -> Record]
      /\ <<"video", 1>> \in Encoders /\ <<"audio", 1>> \in Encoders
      /\ <<"video", 1>> # Null /\ <<"audio", 1>> # Null
  BY OneSession, ThreadsOf, PointerAssumption DEF Inv, Types, TypesUI, TypesEnc
<1>2. ASSUME UNCHANGED <<opens, open, ui, x264VideoEncode, faacAudioEncode>>, \A e \in Encoders : enc'[e].live = enc[e].live
      PROVE  Reached'
  BY <1>2 DEF Reached
<1> USE DEF globals, queue, objects, threads, app, Crash, Goto
<1>3. CASE OpenCamera \/ release \/ nativeStop
  <2>1. CASE nativeX264EncodeInit
    <3>1. /\ opens = 0 /\ opens' = 1 /\ open' /\ ui' = "newRecorder" /\ x264VideoEncode' = <<"video", 1>>
          /\ faacAudioEncode' = faacAudioEncode /\ faacAudioEncode = Null
      BY <1>1, <2>1 DEF nativeX264EncodeInit, Reached
    <3>2. \A e \in Encoders : enc'[e].live => e = <<"video", 1>>
      <4>1. \A e \in Encoders : ~enc[e].live
        BY <1>1, <3>1, PointerAssumption DEF Reached
      <4>2. \A e \in Encoders : e # <<"video", 1>> => enc'[e] = enc[e]
        BY <1>1, <2>1, <3>1 DEF nativeX264EncodeInit
      <4>3. QED BY <4>1, <4>2
    <3>3. QED BY <1>1, <3>1, <3>2 DEF Reached
  <2>2. CASE newAudioRecorderTool
    <3>1. /\ opens = 1 /\ opens' = 1 /\ open' /\ ui' = "rtmpstart" /\ x264VideoEncode' = x264VideoEncode
          /\ faacAudioEncode' = <<"audio", 1>> /\ faacAudioEncode = Null
      BY <1>1, <2>2 DEF newAudioRecorderTool, Reached, Inv, Session
    <3>2. \A e \in Encoders : e # <<"audio", 1>> => enc'[e] = enc[e]
      BY <1>1, <2>2, <3>1 DEF newAudioRecorderTool
    <3>3. \A e \in Encoders : enc[e].live => e = x264VideoEncode
      BY <3>1, PointerAssumption DEF Reached
    <3>4. QED BY <1>1, <3>1, <3>2, <3>3 DEF Reached
  <2>3. CASE nativeRtmpstart \/ release \/ nativeStop
    <3>1. UNCHANGED <<opens, x264VideoEncode, faacAudioEncode, enc>> /\ opens = 1
      BY <1>1, <2>3 DEF nativeRtmpstart, release, nativeStop, Inv, Session
    <3>2. (ui' = "idle" /\ open') \/ ui' \in {"stop", "closeRtmp"}
      BY <2>3 DEF nativeRtmpstart, release, nativeStop, Inv, Session
    <3>3. QED BY <1>1, <3>1, <3>2 DEF Reached, Ending
  <2>4. QED BY <1>3, <2>1, <2>2, <2>3 DEF OpenCamera
<1>4. CASE Release
  <2>1. /\ UNCHANGED <<opens, open>> /\ opens = 1 /\ ~open
    BY <1>1, <1>4 DEF Release, releaseCloseRtmp, releaseFreeRtmp, deleteVideoStart, deleteVideoStopQueue, deleteVideoClear,
       deleteVideoEnd, deleteAudioStart, deleteAudioEnd, releaseFlags, RTMP_Close, RTMP_Free, Inv, Session
  <2>2. CASE releaseCloseRtmp \/ releaseFreeRtmp \/ deleteVideoStopQueue
    <3>1. UNCHANGED <<x264VideoEncode, faacAudioEncode, enc>> /\ ui' \in Closing \cup Deleting
      BY <2>2 DEF releaseCloseRtmp, releaseFreeRtmp, deleteVideoStopQueue, RTMP_Close, RTMP_Free, Closing, Deleting
    <3>2. QED BY <2>1, <3>1 DEF Reached, Closing, Deleting, Ending
  <2>3. CASE deleteVideoStart
    <3>1. UNCHANGED <<x264VideoEncode, faacAudioEncode>> /\ (ui' = "stopQueue" \/ (ui' = "deleteAudio" /\ x264VideoEncode = Null))
      BY <2>3 DEF deleteVideoStart
    <3>2. \A e \in Encoders : enc'[e].live = enc[e].live
      <4>1. CASE x264VideoEncode = Null
        BY <2>3, <4>1 DEF deleteVideoStart
      <4>2. CASE x264VideoEncode # Null
        <5>1. enc' = [enc EXCEPT ![x264VideoEncode].opened = FALSE, ![x264VideoEncode].rtmp = Null]
          BY <2>3, <4>2 DEF deleteVideoStart
        <5>2. QED BY <1>1, <5>1 DEF Record
      <4>3. QED BY <4>1, <4>2
    <3>3. QED BY <2>1, <3>1, <3>2 DEF Reached, Ending
  <2>4. CASE deleteVideoClear
    <3>1. UNCHANGED <<x264VideoEncode, faacAudioEncode>> /\ ui' \in {"clearQueue", "freeVideo"}
      BY <2>4 DEF deleteVideoClear
    <3>2. \A e \in Encoders : enc'[e].live = enc[e].live
      <4>1. enc' = enc \/ enc' = [enc EXCEPT ![x264VideoEncode].queue = Null]
        BY <2>4 DEF deleteVideoClear
      <4>2. QED BY <1>1, <4>1 DEF Record
    <3>3. QED BY <2>1, <3>1, <3>2 DEF Reached, Ending
  <2>5. CASE deleteVideoEnd
    <3>1. x264VideoEncode' = Null /\ faacAudioEncode' = faacAudioEncode /\ ui' = "deleteAudio"
          /\ enc' = [enc EXCEPT ![x264VideoEncode].live = FALSE]
      BY <2>5 DEF deleteVideoEnd
    <3>2. \A e \in Encoders : enc'[e].live => enc[e].live /\ e # x264VideoEncode
      BY <1>1, <3>1 DEF Record
    <3>3. QED BY <2>1, <3>1, <3>2 DEF Reached
  <2>6. CASE deleteAudioStart
    <3>1. UNCHANGED <<x264VideoEncode, faacAudioEncode>> /\ (ui' = "freeAudio" \/ (ui' = "flags" /\ faacAudioEncode = Null))
          /\ x264VideoEncode = Null
      BY <2>1, <2>6 DEF deleteAudioStart, Reached, Ending
    <3>2. enc' = enc \/ \E r : enc' = [enc EXCEPT ![faacAudioEncode] = r]
      BY <2>6 DEF deleteAudioStart
    <3>3. \A e \in Encoders : enc'[e].live => enc[e].live \/ e = faacAudioEncode
      BY <1>1, <3>2
    <3>4. QED BY <2>1, <3>1, <3>3 DEF Reached
  <2>7. CASE deleteAudioEnd
    <3>1. faacAudioEncode' = Null /\ x264VideoEncode' = x264VideoEncode /\ x264VideoEncode = Null /\ ui' = "flags"
          /\ enc' = [enc EXCEPT ![faacAudioEncode].live = FALSE]
      BY <2>1, <2>7 DEF deleteAudioEnd, Reached, Ending
    <3>2. \A e \in Encoders : enc'[e].live => enc[e].live /\ e # faacAudioEncode
      BY <1>1, <3>1 DEF Record
    <3>3. QED BY <2>1, <3>1, <3>2 DEF Reached
  <2>8. CASE releaseFlags
    <3>1. UNCHANGED <<x264VideoEncode, faacAudioEncode, enc>> /\ ui = "flags" /\ ui' = "idle"
      BY <2>8 DEF releaseFlags
    <3>2. QED BY <2>1, <3>1 DEF Reached, Ending
  <2>9. QED BY <1>4, <2>2, <2>3, <2>4, <2>5, <2>6, <2>7, <2>8 DEF Release
<1>5. ASSUME NEW s \in Sessions, Camera(s) \/ Microphone(s) PROVE Reached'
  <2>1. UNCHANGED <<opens, open, ui, x264VideoEncode, faacAudioEncode>>
    BY <1>5 DEF Camera, Microphone, startPreview, onImageAvailable, recordStart, recordLoop, recordRead,
       nativeSendPreviewData, sendAudioPcmData, Send
  <2>2. enc' = enc \/ enc' = [enc EXCEPT ![x264VideoEncode].opened = TRUE]
    BY <1>5 DEF Camera, Microphone, startPreview, onImageAvailable, recordStart, recordLoop, recordRead,
       nativeSendPreviewData, sendAudioPcmData, Send
  <2>3. \A e \in Encoders : enc'[e].live = enc[e].live
    BY <1>1, <2>2 DEF Record
  <2>4. QED BY <1>2, <2>1, <2>3
<1>6. ASSUME NEW s \in Sessions, threadRun(s) \/ SpuriousWake(s) PROVE Reached'
  <2>1. UNCHANGED <<opens, open, ui, x264VideoEncode, faacAudioEncode>>
    BY <1>6 DEF threadRun, rtmpAlloc, rtmpConnect, Enter, Connected, setRtmp, Setter, pushReady, pushSetWork, setQueue,
           queueAccDataHeader, pushLoop, pushPop, SpuriousWake, pushCheck, sendStart, sendEnd, releasePacket,
           pushExit, pushClose, pushFree
  <2>2. enc' = enc \/ \E x : \/ enc' = [enc EXCEPT ![x].rtmp = rtmp]
                             \/ enc' = [enc EXCEPT ![x].queue = "set"]
    <3>1. CASE setRtmp(s)
      BY <3>1 DEF setRtmp, Setter
    <3>2. CASE setQueue(s)
      BY <3>2 DEF setQueue, Setter
    <3>3. CASE ~setRtmp(s) /\ ~setQueue(s)
      BY <1>6, <3>3 DEF threadRun, rtmpAlloc, rtmpConnect, Enter, Connected, pushReady, pushSetWork,
           queueAccDataHeader, pushLoop, pushPop, SpuriousWake, pushCheck, sendStart, sendEnd, releasePacket,
           pushExit, pushClose, pushFree
    <3>4. QED BY <3>1, <3>2, <3>3
  <2>3. \A e \in Encoders : enc'[e].live = enc[e].live
    BY <1>1, <2>2 DEF Record
  <2>4. QED BY <1>2, <2>1, <2>3
<1>7. ASSUME NEW a \in Actors, Produce(a) PROVE Reached'
  <2>1. UNCHANGED <<opens, open, ui, x264VideoEncode, faacAudioEncode>>
    BY <1>7 DEF Produce, Encode, QueueCheck, QueueMake, QueuePush
  <2>2. enc' = enc \/ enc' = [enc EXCEPT ![obj[a]].started = TRUE]
    BY <1>7 DEF Produce, Encode, QueueCheck, QueueMake, QueuePush
  <2>3. \A e \in Encoders : enc'[e].live = enc[e].live
    BY <1>1, <2>2 DEF Record
  <2>4. QED BY <1>2, <2>1, <2>3
<1>8. QED BY <1>3, <1>4, <1>5, <1>6, <1>7 DEF Next

\* In one session, every behaviour keeps the owners of the packets, the links to the
\* connection and to the encoders, and the way out of a push thread that was stopped.
THEOREM OneInvAlways == ASSUME MaxOpens = 1 PROVE Spec => [](Inv /\ OneInv)
<1>1. Init => Inv /\ OneInv
  <2> SUFFICES ASSUME Init PROVE Inv /\ OneInv
    OBVIOUS
  <2>1. Inv
    BY InvInit
  <2>2. Starting
    BY DEF Init, Starting, Actors
  <2>3. Owned
    <3>1. Elements(q) = {} /\ Distinct(q)
      BY DEF Init, Elements, Distinct
    <3>2. \A s \in Sessions : P(s) \in Actors
      BY OneSession
    <3>3. QED BY <3>1, <3>2 DEF Init, Owned, Queued
  <2>4. Outgoing /\ Linked
    BY OneSession, PointerAssumption DEF Init, Outgoing, Linked
  <2>5. Reached
    BY DEF Init, Reached, NoEncoder
  <2>6. QED BY <2>1, <2>2, <2>3, <2>4, <2>5 DEF OneInv
<1>2. (Inv /\ OneInv) /\ [Next]_vars => (Inv /\ OneInv)'
  <2> SUFFICES ASSUME Inv, OneInv, [Next]_vars PROVE Inv' /\ OneInv'
    OBVIOUS
  <2>1. Inv'
    BY InvNext
  <2>2. CASE Next
    BY <2>1, <2>2, StartingKept, OwnedKept, OutgoingKept, LinkedKept, ReachedKept DEF OneInv
  <2>3. CASE UNCHANGED vars
    <3> USE <2>3 DEF vars, globals, queue, objects, threads, app
    <3>1. Starting' /\ Owned'
      BY DEF OneInv, Starting, Owned, Queued
    <3>2. Outgoing' /\ Linked' /\ Reached'
      BY DEF OneInv, Outgoing, Linked, Reached
    <3>3. QED BY <2>1, <3>1, <3>2 DEF OneInv
  <2>4. QED BY <2>1, <2>2, <2>3
<1>3. QED BY <1>1, <1>2, PTL DEF Spec

\* No packet of a session is lost or freed early: the allocated ones are those in the
\* queue, in the hands of an encoder, or in the push thread's videoPacket.
THEOREM PacketsAccountedAlways == ASSUME MaxOpens = 1 PROVE Spec => []PacketsAccounted
<1>1. Inv /\ OneInv => PacketsAccounted
  <2> SUFFICES ASSUME Inv, OneInv PROVE PacketsAccounted
    OBVIOUS
  <2>1. TypeOK
    BY DEF Inv, Types, TypesUI, TypesConn, TypesPacket, TypesTodo, TypeOK
  <2>2. (\A s \in Sessions : pc[P(s)] \in {"off", "exit", "close", "free"}) => videoPacket = Null
    BY DEF Inv, Held, Holding
  <2>3. QED BY <2>1, <2>2 DEF OneInv, Owned, Queued, Elements, PacketsAccounted
<1>2. QED BY <1>1, OneInvAlways, PTL

\* A packet popped after nativeStop is released unsent.
THEOREM StaleNotSentAlways == ASSUME MaxOpens = 1 PROVE Spec => []StaleNotSent
<1>1. Inv /\ OneInv => StaleNotSent
  BY DEF OneInv, Outgoing, StaleNotSent
<1>2. QED BY <1>1, OneInvAlways, PTL

\* A release that found everything at rest leaves no packet, connection or encoder once
\* it is over and the push thread has ended.
THEOREM CalmReleaseFreesAllAlways == ASSUME MaxOpens = 1 PROVE Spec => []CalmReleaseFreesAll
<1>1. Inv /\ OneInv => CalmReleaseFreesAll
  <2> SUFFICES ASSUME Inv, OneInv, calm, ui = "idle", \A s \in Sessions : pc[P(s)] = "off"
               PROVE  /\ heap = {}
                      /\ \A s \in Sessions : conn[s] \in {"none", "freed"}
                      /\ \A e \in Encoders : ~enc[e].live
    BY DEF CalmReleaseFreesAll
  <2>1. heap = {}
    <3>1. q = <<>> /\ videoPacket = Null /\ \A a \in Actors : a[1] \in {"cam", "mic"} => pc[a] \notin {"push", "sending"}
      BY DEF Inv, Calm
    <3>2. \A a \in Actors : hand[a] = Null
      <4>1. \A a \in Actors : a[1] \in {"cam", "mic"} \/ (a = P(1) /\ 1 \in Sessions)
        BY OneSession
      <4>2. QED BY <3>1, <4>1 DEF OneInv, Owned
    <3>3. QED BY <3>1, <3>2 DEF OneInv, Owned, Queued, Elements
  <2>2. \A s \in Sessions : conn[s] \in {"none", "freed"}
    <3>1. rtmp = Null
      BY DEF OneInv, Linked
    <3>2. \A s \in Sessions : s # Null
      BY PointerAssumption DEF Sessions
    <3>3. QED BY <3>1, <3>2 DEF OneInv, Linked
  <2>3. \A e \in Encoders : ~enc[e].live
    <3>1. x264VideoEncode = Null /\ faacAudioEncode = Null
      BY DEF OneInv, Reached, Inv, Calm
    <3>2. QED BY <3>1, PointerAssumption DEF OneInv, Reached
  <2>4. QED BY <2>1, <2>2, <2>3
<1>2. QED BY <1>1, OneInvAlways, PTL

==============================================================================
