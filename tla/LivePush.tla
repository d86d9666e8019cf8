------------------------------ MODULE LivePush ------------------------------
(***************************************************************************)
(* The software live push of the app: Camera2Tool and AudioRecorderTool on *)
(* the Java side, the globals and threads of Camera2ToolNative.cpp, and    *)
(* the two encoders that put packets into the queue.  For every opening of *)
(* the camera there is a camera thread, a microphone thread and, when      *)
(* nativeRtmpstart starts one, a push thread; openCamera and release run   *)
(* on the UI thread.  None of the globals is protected by a lock, so every *)
(* access that another thread can come between is a step of its own.       *)
(*                                                                         *)
(* The first undefined behaviour or uncaught exception is recorded in      *)
(* fault and ends the behaviour: the process is gone.                      *)
(***************************************************************************)
EXTENDS Naturals, Sequences, FiniteSets

CONSTANTS
    MaxOpens,       \* bound: how often the camera is opened
    MaxFrames,      \* bound: preview images per camera thread
    MaxAudio,       \* bound: PCM buffers per microphone thread
    BackCamera,     \* does the phone have a camera on its back?
    Rotated,        \* is the sensor orientation 90 degrees?
    Null,           \* the null pointer
    Wild,           \* what an uninitialised, non-null pointer holds
    Garbage         \* what an uninitialised pointer may hold

ASSUME BoundAssumption == /\ MaxOpens \in Nat /\ MaxFrames \in Nat /\ MaxAudio \in Nat
                          /\ Rotated \in BOOLEAN /\ BackCamera \in BOOLEAN
                          /\ Null # Wild /\ Garbage \subseteq {Null, Wild}

Sessions == 1..MaxOpens
Actors   == {"cam", "mic", "push"} \X Sessions
Encoders == {"video", "audio"} \X Sessions

\* No object lies at the null pointer, none at the address a wild pointer holds.
ASSUME PointerAssumption ==
    \A p \in {Null, Wild} : p \notin Nat /\ p \notin Encoders /\ p # "set"

Kinds    == {"config", "sei", "key", "inter", "aacHeader", "aac"}

VARIABLES
    ui,             \* where the UI thread is
    opens,          \* how often the camera was opened
    open,           \* the tool has been opened and not released since
    x264VideoEncode, faacAudioEncode, rtmp, videoPacket,
    alreadyTryConnect, readPushing,         \* the globals, by name
    enc,            \* the encoder objects
    conn,           \* the RTMP objects: the one push thread s allocates is s
    q, work,        \* packetQueue
    made, heap,     \* packets ever allocated, packets now allocated
    pc, obj, todo,  \* per actor: its position, its encoder, the packets it has to queue
    hand,           \* per actor: the packet it is building or sending
    chan,           \* per push thread: the RTMP object of the call it is in
    record,         \* per session: audioRecord is "null" or "recording"
    budget,         \* per camera and microphone: inputs it may still deliver
    fault,
    accepted,       \* history: kinds of packet the queue has accepted
    calm,           \* history: was everything at rest at the last nativeStop?
    stale           \* history: push threads that popped after nativeStop

globals == <<x264VideoEncode, faacAudioEncode, rtmp, videoPacket,
             alreadyTryConnect, readPushing>>
queue   == <<q, work, accepted>>
objects == <<enc, conn, made, heap>>
threads == <<pc, obj, todo, hand, chan, record, budget>>
app     == <<ui, opens, open, calm>>
vars    == <<globals, queue, objects, threads, app, fault, stale>>

NoEncoder == [live |-> FALSE, opened |-> FALSE, started |-> FALSE,
              queue |-> Null, rtmp |-> Null]

Init == /\ ui = "idle" /\ opens = 0 /\ open = FALSE /\ calm = FALSE
        /\ x264VideoEncode = Null /\ faacAudioEncode = Null /\ rtmp = Null
        /\ videoPacket = Null
        /\ alreadyTryConnect = FALSE /\ readPushing = FALSE
        /\ enc = [e \in Encoders |-> NoEncoder]
        /\ conn = [s \in Sessions |-> "none"]
        /\ q = <<>> /\ work = FALSE /\ accepted = {}
        /\ made = 0 /\ heap = {}
        /\ pc = [a \in Actors |-> "off"]
        /\ obj = [a \in Actors |-> Null]
        /\ todo = [a \in Actors |-> <<>>]
        /\ hand = [a \in Actors |-> Null]
        /\ chan = [s \in Sessions |-> Null]
        /\ record = [s \in Sessions |-> "null"]
        /\ budget = [a \in Actors |-> IF a[1] = "cam" THEN MaxFrames ELSE MaxAudio]
        /\ fault = "none" /\ stale = {}

\* The process dies: nothing but fault changes.
Crash(why) == /\ fault' = why
              /\ UNCHANGED <<globals, queue, objects, threads, app, stale>>

Goto(a, l) == pc' = [pc EXCEPT ![a] = l]

-----------------------------------------------------------------------------
(* UI thread: openCamera. *)

\* new X264VideoEncode leaves packetQueue and rtmp uninitialised.
nativeX264EncodeInit ==
    /\ ui = "idle" /\ opens < MaxOpens
    /\ opens' = opens + 1 /\ open' = TRUE /\ calm' = FALSE
    /\ x264VideoEncode' = <<"video", opens + 1>>
    /\ \E qp, rp \in Garbage :
          enc' = [enc EXCEPT ![<<"video", opens + 1>>] =
                     [NoEncoder EXCEPT !.live = TRUE, !.queue = qp, !.rtmp = rp]]
    /\ ui' = "newRecorder"
    /\ UNCHANGED <<faacAudioEncode, rtmp, videoPacket, alreadyTryConnect, readPushing,
                   conn, made, heap, queue, threads, fault, stale>>

\* The AudioRecorderTool constructor: nativeFaacEncodeInit and
\* nativeFaacEncodeOpen; only packetQueue is left uninitialised.
newAudioRecorderTool ==
    /\ ui = "newRecorder"
    /\ faacAudioEncode' = <<"audio", opens>>
    /\ \E qp \in Garbage :
          enc' = [enc EXCEPT ![<<"audio", opens>>] =
                     [NoEncoder EXCEPT !.live = TRUE, !.opened = TRUE, !.queue = qp]]
    /\ ui' = "rtmpstart"
    /\ UNCHANGED <<x264VideoEncode, rtmp, videoPacket, alreadyTryConnect, readPushing,
                   conn, made, heap, queue, threads, opens, open, calm, fault, stale>>

\* Starts a push thread unless one was started before; then the camera is
\* opened, if there is one on the back.
nativeRtmpstart ==
    /\ ui = "rtmpstart"
    /\ alreadyTryConnect' = TRUE
    /\ pc' = [pc EXCEPT ![<<"cam", opens>>] = IF BackCamera THEN "starting" ELSE @,
                        ![<<"push", opens>>] = IF alreadyTryConnect THEN @ ELSE "alloc"]
    /\ ui' = "idle"
    /\ UNCHANGED <<x264VideoEncode, faacAudioEncode, rtmp, videoPacket, readPushing,
                   queue, objects, obj, todo, hand, chan, record, budget,
                   opens, open, calm, fault, stale>>

-----------------------------------------------------------------------------
(* UI thread: release, the Java part, nativeStop, nativeRelease. *)

\* The camera stops delivering images and the recorder is stopped; neither
\* quitSafely nor stop waits for what the other threads are in the middle of.
release ==
    /\ ui = "idle" /\ open
    /\ open' = FALSE
    /\ budget' = [budget EXCEPT ![<<"cam", opens>>] = 0]
    /\ pc' = [pc EXCEPT ![<<"cam", opens>>] = IF @ = "starting" THEN "off" ELSE @]
    /\ record' = [record EXCEPT ![opens] = "null"]
    /\ ui' = "stop"
    /\ UNCHANGED <<globals, queue, objects, obj, todo, hand, chan,
                   opens, calm, fault, stale>>

\* Everything at rest: one push thread, wired to the current encoders and asleep
\* in pop on an empty queue, no other thread inside native code.
Quiescent ==
    LET s == opens
    IN  /\ q = <<>>
        /\ pc[<<"push", s>>] = "asleep"
        /\ \A a \in Actors : \/ a = <<"push", s>>
                             \/ a[1] = "push" /\ pc[a] = "off"
                             \/ a[1] # "push" /\ pc[a] \in {"off", "idle", "loop", "java"}

\* nativeStop that leaves the encoders' gate open.
nativeStop_KeepsPushing ==
    /\ ui = "stop"
    /\ alreadyTryConnect' = FALSE
    /\ calm' = Quiescent
    /\ ui' = "closeRtmp"
    /\ UNCHANGED <<x264VideoEncode, faacAudioEncode, rtmp, videoPacket, readPushing,
                   queue, objects, threads, opens, open, fault, stale>>

nativeStop ==
    /\ ui = "stop"
    /\ alreadyTryConnect' = FALSE
    /\ readPushing' = FALSE
    /\ calm' = Quiescent
    /\ ui' = "closeRtmp"
    /\ UNCHANGED <<x264VideoEncode, faacAudioEncode, rtmp, videoPacket,
                   queue, objects, threads, opens, open, fault, stale>>

\* RTMP_Close and RTMP_Free of the object r, by whichever thread.
RTMP_Close(r) == IF conn[r] = "freed" THEN fault' = "useAfterFree" /\ UNCHANGED conn
                                      ELSE conn' = [conn EXCEPT ![r] = "closed"] /\ UNCHANGED fault

RTMP_Free(r) == IF conn[r] = "freed" THEN fault' = "doubleFree" /\ UNCHANGED conn
                                     ELSE conn' = [conn EXCEPT ![r] = "freed"] /\ UNCHANGED fault

releaseCloseRtmp ==
    /\ ui = "closeRtmp"
    /\ \/ rtmp = Null /\ ui' = "closeVideo" /\ UNCHANGED <<conn, fault>>
       \/ rtmp # Null /\ ui' = "freeRtmp" /\ RTMP_Close(rtmp)
    /\ UNCHANGED <<globals, queue, enc, made, heap, threads, opens, open, calm, stale>>

\* free(NULL) is harmless, so a push thread that was faster leaves no trace here.
releaseFreeRtmp ==
    /\ ui = "freeRtmp"
    /\ IF rtmp = Null THEN UNCHANGED <<conn, fault>> ELSE RTMP_Free(rtmp)
    /\ rtmp' = Null
    /\ ui' = "closeVideo"
    /\ UNCHANGED <<x264VideoEncode, faacAudioEncode, videoPacket, alreadyTryConnect,
                   readPushing, queue, enc, made, heap, threads, opens, open, calm, stale>>

\* ~X264VideoEncode, first half: the codec is closed, rtmp is cleared.
deleteVideoStart ==
    /\ ui = "closeVideo"
    /\ IF x264VideoEncode = Null
       THEN ui' = "deleteAudio" /\ UNCHANGED enc
       ELSE /\ enc' = [enc EXCEPT ![x264VideoEncode].opened = FALSE,
                                  ![x264VideoEncode].rtmp = Null]
            /\ ui' = "stopQueue"
    /\ UNCHANGED <<globals, queue, conn, made, heap, threads, opens, open, calm, fault, stale>>

\* pthread_cond_signal: one sleeping push thread goes back to the mutex.
Sleepers == {a \in Actors : pc[a] = "asleep"}

Signal(pcs) == IF Sleepers = {} THEN pc' = pcs
                                ELSE \E a \in Sleepers : pc' = [pcs EXCEPT ![a] = "pop"]

\* The destructor that forgets packetQueue->setWork(0).
deleteVideoStopQueue_NoSetWork ==
    /\ ui = "stopQueue"
    /\ ui' = IF enc[x264VideoEncode].queue = Null THEN "freeVideo" ELSE "clearQueue"
    /\ UNCHANGED <<globals, queue, objects, threads, opens, open, calm, fault, stale>>

\* packetQueue->setWork(0), if the encoder has a queue.
deleteVideoStopQueue ==
    /\ ui = "stopQueue"
    /\ \/ /\ enc[x264VideoEncode].queue = Wild
          /\ Crash("wildPointer")
       \/ /\ enc[x264VideoEncode].queue = Null
          /\ ui' = "freeVideo"
          /\ UNCHANGED <<globals, queue, objects, threads, opens, open, calm, fault, stale>>
       \/ /\ enc[x264VideoEncode].queue = "set"
          /\ work' = FALSE
          /\ Signal(pc)
          /\ ui' = "clearQueue"
          /\ UNCHANGED <<globals, q, accepted, objects, obj, todo, hand, chan, record, budget,
                         opens, open, calm, fault, stale>>

\* packetQueue->clear(): no release callback is ever installed, so a packet
\* left in the queue is handed to a null function pointer.
deleteVideoClear ==
    /\ ui = "clearQueue"
    /\ \/ q # <<>> /\ Crash("nullCallback")
       \/ /\ q = <<>>
          /\ enc' = [enc EXCEPT ![x264VideoEncode].queue = Null]
          /\ ui' = "freeVideo"
          /\ UNCHANGED <<globals, queue, conn, made, heap, threads, opens, open, calm, fault, stale>>

\* The object is freed and the global cleared.
deleteVideoEnd ==
    /\ ui = "freeVideo"
    /\ enc' = [enc EXCEPT ![x264VideoEncode].live = FALSE]
    /\ x264VideoEncode' = Null
    /\ ui' = "deleteAudio"
    /\ UNCHANGED <<faacAudioEncode, rtmp, videoPacket, alreadyTryConnect, readPushing,
                   queue, conn, made, heap, threads, opens, open, calm, fault, stale>>

\* ~FAACAudioEncode leaves the queue alone.
deleteAudioStart ==
    /\ ui = "deleteAudio"
    /\ IF faacAudioEncode = Null
       THEN ui' = "flags" /\ UNCHANGED enc
       ELSE /\ enc' = [enc EXCEPT ![faacAudioEncode] = [NoEncoder EXCEPT !.live = TRUE]]
            /\ ui' = "freeAudio"
    /\ UNCHANGED <<globals, queue, conn, made, heap, threads, opens, open, calm, fault, stale>>

\* nativeRelease that clears the pointer and forgets to delete the encoder.
deleteAudioEnd_NoDelete ==
    /\ ui = "freeAudio"
    /\ faacAudioEncode' = Null
    /\ ui' = "flags"
    /\ UNCHANGED <<x264VideoEncode, rtmp, videoPacket, alreadyTryConnect, readPushing,
                   queue, objects, threads, opens, open, calm, fault, stale>>

deleteAudioEnd ==
    /\ ui = "freeAudio"
    /\ enc' = [enc EXCEPT ![faacAudioEncode].live = FALSE]
    /\ faacAudioEncode' = Null
    /\ ui' = "flags"
    /\ UNCHANGED <<x264VideoEncode, rtmp, videoPacket, alreadyTryConnect, readPushing,
                   queue, conn, made, heap, threads, opens, open, calm, fault, stale>>

releaseFlags ==
    /\ ui = "flags"
    /\ alreadyTryConnect' = FALSE /\ readPushing' = FALSE
    /\ ui' = "idle"
    /\ UNCHANGED <<x264VideoEncode, faacAudioEncode, rtmp, videoPacket,
                   queue, objects, threads, opens, open, calm, fault, stale>>

Release == \/ releaseCloseRtmp \/ releaseFreeRtmp
           \/ deleteVideoStart \/ deleteVideoStopQueue \/ deleteVideoClear \/ deleteVideoEnd
           \/ deleteAudioStart \/ deleteAudioEnd \/ releaseFlags

-----------------------------------------------------------------------------
(* Camera and microphone threads. *)

\* onConfigured: the encoder is opened (only for an upright sensor), and the
\* recording loop is posted to the microphone thread.
startPreview(s) ==
    /\ pc[<<"cam", s>>] = "starting" /\ ui = "idle" /\ s = opens
    /\ enc' = IF Rotated /\ x264VideoEncode # Null
              THEN [enc EXCEPT ![x264VideoEncode].opened = TRUE] ELSE enc
    /\ pc' = [pc EXCEPT ![<<"cam", s>>] = "idle", ![<<"mic", s>>] = "posted"]
    /\ UNCHANGED <<globals, queue, conn, made, heap, obj, todo, hand, chan, record, budget,
                   app, fault, stale>>

\* An image arrives; the planes are packed and rotated in Java.
onImageAvailable(s) ==
    /\ pc[<<"cam", s>>] = "idle" /\ budget[<<"cam", s>>] > 0
    /\ budget' = [budget EXCEPT ![<<"cam", s>>] = @ - 1]
    /\ Goto(<<"cam", s>>, "java")
    /\ UNCHANGED <<globals, queue, objects, obj, todo, hand, chan, record, app, fault, stale>>

\* startRecording's runnable begins.
recordStart(s) ==
    /\ pc[<<"mic", s>>] = "posted"
    /\ record' = [record EXCEPT ![s] = "recording"]
    /\ Goto(<<"mic", s>>, "loop")
    /\ UNCHANGED <<globals, queue, objects, obj, todo, hand, chan, budget, app, fault, stale>>

\* The loop condition reads audioRecord once, the body reads it again.
recordLoop(s) ==
    /\ pc[<<"mic", s>>] = "loop"
    /\ Goto(<<"mic", s>>, IF record[s] = "recording" /\ budget[<<"mic", s>>] > 0
                          THEN "read" ELSE "off")
    /\ UNCHANGED <<globals, queue, objects, obj, todo, hand, chan, record, budget,
                   app, fault, stale>>

recordRead(s) ==
    /\ pc[<<"mic", s>>] = "read"
    /\ \/ record[s] = "null" /\ Crash("nullPointer")
       \/ /\ record[s] = "recording"
          /\ budget' = [budget EXCEPT ![<<"mic", s>>] = @ - 1]
          /\ Goto(<<"mic", s>>, "java")
          /\ UNCHANGED <<globals, queue, objects, obj, todo, hand, chan, record,
                         app, fault, stale>>

\* Where a producer goes when its call is over.
Rest(a) == CASE a[1] = "cam" -> "idle" [] a[1] = "mic" -> "loop" [] a[1] = "push" -> "loop"

\* nativeSendPreviewData and sendAudioPcmData: not ready, or into the encoder.
Send(a, e) ==
    /\ pc[a] = "java"
    /\ IF readPushing /\ e # Null
       THEN /\ obj' = [obj EXCEPT ![a] = e]
            /\ Goto(a, "encode")
       ELSE Goto(a, Rest(a)) /\ UNCHANGED obj
    /\ UNCHANGED <<globals, queue, objects, todo, hand, chan, record, budget, app, fault, stale>>

nativeSendPreviewData(s) == Send(<<"cam", s>>, x264VideoEncode)
sendAudioPcmData(s)      == Send(<<"mic", s>>, faacAudioEncode)

\* What one encoder call may yield: x264 starts with SPS, PPS, SEI and an IDR
\* frame, and repeats SPS and PPS before each later one; faac may yield nothing.
Output(a) ==
    IF a[1] = "cam"
    THEN IF enc[obj[a]].started THEN {<<"inter">>, <<"config", "key">>}
                                ELSE {<<"config", "sei", "key">>}
    ELSE {<<>>, <<"aac">>}

\* encodeData and encode, up to the first queue... call.
Encode(a) ==
    /\ pc[a] = "encode"
    /\ \/ /\ ~enc[obj[a]].live
          /\ Crash("useAfterFree")
       \/ /\ enc[obj[a]].live /\ ~enc[obj[a]].opened /\ a[1] = "cam"
          /\ Crash("nullPointer")
       \/ /\ enc[obj[a]].live /\ ~enc[obj[a]].opened /\ a[1] = "mic"
          /\ Goto(a, Rest(a))
          /\ UNCHANGED <<globals, queue, objects, obj, todo, hand, chan, record, budget,
                         app, fault, stale>>
       \/ /\ enc[obj[a]].live /\ enc[obj[a]].opened
          /\ \E out \in Output(a) :
                /\ todo' = [todo EXCEPT ![a] = out]
                /\ Goto(a, IF out = <<>> THEN Rest(a) ELSE "check")
          /\ enc' = [enc EXCEPT ![obj[a]].started = TRUE]
          /\ UNCHANGED <<globals, queue, conn, made, heap, obj, hand, chan, record, budget,
                         app, fault, stale>>

-----------------------------------------------------------------------------
(* queueSPSAndPPSPacket, queueFramePacket, queueAacData, queueAccDataHeader. *)

\* The next packet of the call, or the end of it.
Proceed(a) == /\ todo' = [todo EXCEPT ![a] = Tail(@)]
              /\ pc' = [pc EXCEPT ![a] = IF Len(todo[a]) = 1 THEN Rest(a) ELSE "check"]

\* if (packetQueue && rtmp); the header also needs an open codec.
QueueCheck(a) ==
    LET e == enc[obj[a]]
    IN  /\ pc[a] = "check"
        /\ \/ ~e.live /\ Crash("useAfterFree")
           \/ /\ e.live
              /\ IF e.queue # Null /\ e.rtmp # Null /\ (e.opened \/ a[1] # "push")
                 THEN Goto(a, "make") /\ UNCHANGED todo
                 ELSE Proceed(a)
              /\ UNCHANGED <<globals, queue, objects, obj, hand, chan, record, budget,
                             app, fault, stale>>

\* The packet is allocated and stamped with rtmp->m_stream_id.
QueueMake(a) ==
    LET e == enc[obj[a]]
    IN  /\ pc[a] = "make"
        /\ \/ ~e.live /\ Crash("useAfterFree")
           \/ e.live /\ e.rtmp = Null /\ Crash("nullPointer")
           \/ e.live /\ e.rtmp = Wild /\ Crash("wildPointer")
           \/ e.live /\ e.rtmp \in Sessions /\ conn[e.rtmp] = "freed" /\ Crash("useAfterFree")
           \/ /\ e.live /\ e.rtmp \in Sessions /\ conn[e.rtmp] # "freed"
              /\ made' = made + 1
              /\ heap' = heap \cup {made + 1}
              /\ hand' = [hand EXCEPT ![a] = made + 1]
              /\ Goto(a, "push")
              /\ UNCHANGED <<globals, queue, enc, conn, obj, todo, chan, record, budget,
                             app, fault, stale>>

\* push of the pointer after it was reset.
QueuePush_AfterReset(a) ==
    /\ pc[a] = "push" /\ enc[obj[a]].live /\ enc[obj[a]].queue = "set" /\ work
    /\ hand' = [hand EXCEPT ![a] = Null]
    /\ q' = Append(q, hand'[a])
    /\ accepted' = accepted \cup {Head(todo[a])}
    /\ todo' = [todo EXCEPT ![a] = Tail(@)]
    /\ Signal([pc EXCEPT ![a] = IF Len(todo[a]) = 1 THEN Rest(a) ELSE "check"])
    /\ UNCHANGED <<globals, work, objects, obj, chan, record, budget, app, fault, stale>>

\* packetQueue->push: a stopped queue calls the callback nobody installed.
QueuePush(a) ==
    LET e == enc[obj[a]]
    IN  /\ pc[a] = "push"
        /\ \/ ~e.live /\ Crash("useAfterFree")
           \/ e.live /\ e.queue = Null /\ Crash("nullPointer")
           \/ e.live /\ e.queue = Wild /\ Crash("wildPointer")
           \/ e.live /\ e.queue = "set" /\ ~work /\ Crash("nullCallback")
           \/ /\ e.live /\ e.queue = "set" /\ work
              /\ q' = Append(q, hand[a])
              /\ accepted' = accepted \cup {Head(todo[a])}
              /\ hand' = [hand EXCEPT ![a] = Null]
              /\ todo' = [todo EXCEPT ![a] = Tail(@)]
              /\ Signal([pc EXCEPT ![a] = IF Len(todo[a]) = 1 THEN Rest(a) ELSE "check"])
              /\ UNCHANGED <<globals, work, objects, obj, chan, record, budget,
                             app, fault, stale>>

Produce(a) == Encode(a) \/ QueueCheck(a) \/ QueueMake(a) \/ QueuePush(a)

-----------------------------------------------------------------------------
(* threadRun. *)

P(s) == <<"push", s>>

\* RTMP_Alloc, RTMP_Init, RTMP_SetupURL; either allocation or the URL may fail.
rtmpAlloc(s) ==
    /\ pc[P(s)] = "alloc"
    /\ \/ /\ rtmp' = s /\ conn' = [conn EXCEPT ![s] = "init"]
          /\ Goto(P(s), "connect") \/ Goto(P(s), "exit")
       \/ rtmp' = Null /\ UNCHANGED conn /\ Goto(P(s), "exit")
    /\ UNCHANGED <<x264VideoEncode, faacAudioEncode, videoPacket, alreadyTryConnect,
                   readPushing, queue, enc, made, heap, obj, todo, hand, chan, record, budget,
                   app, fault, stale>>

\* A librtmp call reads the global once, and may then block for a long time.
Enter(s, from, to) ==
    /\ pc[P(s)] = from
    /\ \/ rtmp = Null /\ Crash("nullPointer")
       \/ /\ rtmp # Null
          /\ chan' = [chan EXCEPT ![s] = rtmp]
          /\ Goto(P(s), to)
          /\ UNCHANGED <<globals, queue, objects, obj, todo, hand, record, budget,
                         app, fault, stale>>

\* RTMP_Connect and RTMP_ConnectStream return; a failure leaves it closed.
Connected(s, from, to) ==
    /\ pc[P(s)] = from
    /\ \/ conn[chan[s]] = "freed" /\ Crash("useAfterFree")
       \/ /\ conn[chan[s]] # "freed"
          /\ \/ /\ conn[chan[s]] # "closed"
                /\ conn' = [conn EXCEPT ![chan[s]] = "connected"]
                /\ Goto(P(s), to)
             \/ /\ conn' = [conn EXCEPT ![chan[s]] = "closed"]
                /\ Goto(P(s), "exit")
          /\ chan' = [chan EXCEPT ![s] = Null]
          /\ UNCHANGED <<globals, queue, enc, made, heap, obj, todo, hand, record, budget,
                         app, fault, stale>>

rtmpConnect(s) == \/ Enter(s, "connect", "connecting")
                  \/ Connected(s, "connecting", "connectStream")
                  \/ Enter(s, "connectStream", "streaming")
                  \/ Connected(s, "streaming", "setRtmpVideo")

\* A setter called through one of the encoder globals; new is the object after it.
Setter(s, from, to, e, new(_)) ==
    /\ pc[P(s)] = from
    /\ \/ e = Null /\ Crash("nullPointer")
       \/ /\ e # Null
          /\ enc' = [enc EXCEPT ![e] = new(@)]
          /\ Goto(P(s), to)
          /\ UNCHANGED <<globals, queue, conn, made, heap, obj, todo, hand, chan, record, budget,
                         app, fault, stale>>

setRtmp(s) ==
    LET new(o) == [o EXCEPT !.rtmp = rtmp]
    IN  \/ Setter(s, "setRtmpVideo", "setRtmpAudio", x264VideoEncode, new)
        \/ Setter(s, "setRtmpAudio", "ready", faacAudioEncode, new)

setQueue(s) ==
    LET new(o) == [o EXCEPT !.queue = "set"]
    IN  \/ Setter(s, "setQueueVideo", "setQueueAudio", x264VideoEncode, new)
        \/ Setter(s, "setQueueAudio", "header", faacAudioEncode, new)

\* readPushing = true, before the encoders have their queue.
pushReady(s) ==
    /\ pc[P(s)] = "ready"
    /\ readPushing' = TRUE
    /\ Goto(P(s), "setWork")
    /\ UNCHANGED <<x264VideoEncode, faacAudioEncode, rtmp, videoPacket, alreadyTryConnect,
                   queue, objects, obj, todo, hand, chan, record, budget, app, fault, stale>>

pushSetWork(s) ==
    /\ pc[P(s)] = "setWork"
    /\ work' = TRUE
    /\ Signal([pc EXCEPT ![P(s)] = "setQueueVideo"])
    /\ UNCHANGED <<globals, q, accepted, objects, obj, todo, hand, chan, record, budget,
                   app, fault, stale>>

queueAccDataHeader(s) ==
    /\ pc[P(s)] = "header"
    /\ \/ faacAudioEncode = Null /\ Crash("nullPointer")
       \/ /\ faacAudioEncode # Null
          /\ obj' = [obj EXCEPT ![P(s)] = faacAudioEncode]
          /\ todo' = [todo EXCEPT ![P(s)] = <<"aacHeader">>]
          /\ Goto(P(s), "check")
          /\ UNCHANGED <<globals, queue, objects, hand, chan, record, budget, app, fault, stale>>

\* while (alreadyTryConnect)
pushLoop(s) ==
    /\ pc[P(s)] = "loop"
    /\ Goto(P(s), IF alreadyTryConnect THEN "pop" ELSE "release")
    /\ UNCHANGED <<globals, queue, objects, obj, todo, hand, chan, record, budget,
                   app, fault, stale>>

\* packetQueue.pop(videoPacket): sleep, or return with or without a packet.
pushPop(s) ==
    /\ pc[P(s)] = "pop"
    /\ IF work /\ q = <<>>
       THEN Goto(P(s), "asleep") /\ UNCHANGED <<q, videoPacket, stale>>
       ELSE /\ Goto(P(s), "popped")
            /\ IF q = <<>> THEN UNCHANGED <<q, videoPacket>>
                           ELSE q' = Tail(q) /\ videoPacket' = Head(q)
            /\ stale' = IF alreadyTryConnect THEN stale \ {s} ELSE stale \cup {s}
    /\ UNCHANGED <<x264VideoEncode, faacAudioEncode, rtmp, alreadyTryConnect, readPushing,
                   work, accepted, objects, obj, todo, hand, chan, record, budget, app, fault>>

SpuriousWake(s) ==
    /\ pc[P(s)] = "asleep"
    /\ Goto(P(s), "pop")
    /\ UNCHANGED <<globals, queue, objects, obj, todo, hand, chan, record, budget,
                   app, fault, stale>>

\* pop followed by the packet test only.
pushCheck_PacketOnly(s) ==
    /\ pc[P(s)] = "popped"
    /\ Goto(P(s), IF videoPacket # Null THEN "send" ELSE "release")
    /\ UNCHANGED <<globals, queue, objects, obj, todo, hand, chan, record, budget,
                   app, fault, stale>>

\* A push thread that trusts pop to have delivered something.
pushCheck_TrustsPop(s) ==
    /\ pc[P(s)] = "popped"
    /\ Goto(P(s), "send")
    /\ UNCHANGED <<globals, queue, objects, obj, todo, hand, chan, record, budget,
                   app, fault, stale>>

pushCheck(s) ==
    /\ pc[P(s)] = "popped"
    /\ Goto(P(s), IF alreadyTryConnect /\ videoPacket # Null THEN "send" ELSE "release")
    /\ UNCHANGED <<globals, queue, objects, obj, todo, hand, chan, record, budget,
                   app, fault, stale>>

\* RTMP_SendPacket(rtmp, videoPacket, 1): both globals are read at the call.
sendStart(s) ==
    /\ pc[P(s)] = "send"
    /\ \/ (rtmp = Null \/ videoPacket = Null) /\ Crash("nullPointer")
       \/ /\ rtmp # Null /\ videoPacket # Null
          /\ chan' = [chan EXCEPT ![s] = rtmp]
          /\ hand' = [hand EXCEPT ![P(s)] = videoPacket]
          /\ Goto(P(s), "sending")
          /\ UNCHANGED <<globals, queue, objects, obj, todo, record, budget, app, fault, stale>>

\* The result is only logged; a write error has closed the connection.
sendEnd(s) ==
    /\ pc[P(s)] = "sending"
    /\ \/ (conn[chan[s]] = "freed" \/ hand[P(s)] \notin heap) /\ Crash("useAfterFree")
       \/ /\ conn[chan[s]] # "freed" /\ hand[P(s)] \in heap
          /\ \/ conn[chan[s]] # "closed" /\ UNCHANGED conn
             \/ conn' = [conn EXCEPT ![chan[s]] = "closed"]
          /\ chan' = [chan EXCEPT ![s] = Null]
          /\ hand' = [hand EXCEPT ![P(s)] = Null]
          /\ Goto(P(s), "sent")
          /\ UNCHANGED <<globals, queue, enc, made, heap, obj, todo, record, budget,
                         app, fault, stale>>

\* After the loop the last packet is not released.
releasePacket_InLoopOnly(s) ==
    /\ pc[P(s)] \in {"sent", "release"}
    /\ IF pc[P(s)] = "sent"
       THEN /\ videoPacket' = Null /\ heap' = heap \ {videoPacket}
            /\ Goto(P(s), "loop")
       ELSE Goto(P(s), "exit") /\ UNCHANGED <<videoPacket, heap>>
    /\ UNCHANGED <<x264VideoEncode, faacAudioEncode, rtmp, alreadyTryConnect, readPushing,
                   queue, enc, conn, made, obj, todo, hand, chan, record, budget,
                   app, fault, stale>>

\* releasePacket(videoPacket), after a send and after the loop.
releasePacket(s) ==
    /\ pc[P(s)] \in {"sent", "release"}
    /\ \/ videoPacket # Null /\ videoPacket \notin heap /\ Crash("doubleFree")
       \/ /\ videoPacket = Null \/ videoPacket \in heap
          /\ heap' = heap \ {videoPacket}
          /\ videoPacket' = Null
          /\ Goto(P(s), IF pc[P(s)] = "sent" THEN "loop" ELSE "exit")
          /\ UNCHANGED <<x264VideoEncode, faacAudioEncode, rtmp, alreadyTryConnect,
                         readPushing, queue, enc, conn, made, obj, todo, hand, chan, record,
                         budget, app, fault, stale>>

\* The end of the thread: it frees rtmp itself unless nativeStop came first.
pushExit(s) ==
    /\ pc[P(s)] = "exit"
    /\ Goto(P(s), IF rtmp # Null /\ alreadyTryConnect THEN "close" ELSE "off")
    /\ UNCHANGED <<globals, queue, objects, obj, todo, hand, chan, record, budget,
                   app, fault, stale>>

pushClose(s) ==
    /\ pc[P(s)] = "close"
    /\ \/ rtmp = Null /\ Crash("nullPointer")
       \/ /\ rtmp # Null
          /\ RTMP_Close(rtmp)
          /\ Goto(P(s), "free")
          /\ UNCHANGED <<globals, queue, enc, made, heap, obj, todo, hand, chan, record, budget,
                         app, stale>>

pushFree(s) ==
    /\ pc[P(s)] = "free"
    /\ IF rtmp = Null THEN UNCHANGED <<conn, fault>> ELSE RTMP_Free(rtmp)
    /\ rtmp' = Null
    /\ Goto(P(s), "off")
    /\ UNCHANGED <<x264VideoEncode, faacAudioEncode, videoPacket, alreadyTryConnect, readPushing,
                   queue, enc, made, heap, obj, todo, hand, chan, record, budget, app, stale>>

threadRun(s) == \/ rtmpAlloc(s) \/ rtmpConnect(s) \/ setRtmp(s) \/ pushReady(s)
                \/ pushSetWork(s) \/ setQueue(s) \/ queueAccDataHeader(s)
                \/ pushLoop(s) \/ pushPop(s) \/ pushCheck(s)
                \/ sendStart(s) \/ sendEnd(s) \/ releasePacket(s)
                \/ pushExit(s) \/ pushClose(s) \/ pushFree(s)

-----------------------------------------------------------------------------
OpenCamera == nativeX264EncodeInit \/ newAudioRecorderTool \/ nativeRtmpstart

Camera(s) == startPreview(s) \/ onImageAvailable(s) \/ nativeSendPreviewData(s)

Microphone(s) == recordStart(s) \/ recordLoop(s) \/ recordRead(s) \/ sendAudioPcmData(s)

Next == /\ fault = "none"
        /\ \/ OpenCamera \/ release \/ nativeStop \/ Release
           \/ \E s \in Sessions : \/ Camera(s) \/ Microphone(s)
                                  \/ threadRun(s) \/ SpuriousWake(s)
           \/ \E a \in Actors : Produce(a)

Spec == Init /\ [][Next]_vars

(***************************************************************************)
(* Threads that are not blocked run on, and librtmp's calls return: the    *)
(* socket has a receive timeout.  Nobody has to open or release the camera,*)
(* and the camera and the microphone need not deliver anything.            *)
(***************************************************************************)
Fairness == /\ WF_vars(fault = "none" /\ (nativeStop \/ Release))
            /\ \A s \in Sessions :
                  WF_vars(fault = "none" /\ (threadRun(s) \/ Produce(P(s))))

LiveSpec == Spec /\ Fairness

-----------------------------------------------------------------------------
\* Types of the globals, the objects and every thread's position.
TypeOK ==
    /\ opens \in 0..MaxOpens
    /\ x264VideoEncode \in {Null} \cup Encoders
    /\ faacAudioEncode \in {Null} \cup Encoders
    /\ rtmp \in {Null} \cup Sessions
    /\ videoPacket \in {Null} \cup 1..made
    /\ heap \in SUBSET (1..made)
    /\ q \in Seq(1..made)
    /\ alreadyTryConnect \in BOOLEAN /\ readPushing \in BOOLEAN /\ work \in BOOLEAN
    /\ conn \in [Sessions -> {"none", "init", "connected", "closed", "freed"}]
    /\ accepted \in SUBSET Kinds
    /\ fault \in {"none", "nullPointer", "useAfterFree", "doubleFree",
                  "nullCallback", "wildPointer"}

\* A release that finds everything at rest is safe: whatever the threads do
\* while nativeRelease tears the session down, none of them touches it.
CalmReleaseIsSafe == calm => fault = "none"

\* ... and complete: when it is over and the push thread has ended, no packet,
\* connection or encoder is left.
CalmReleaseFreesAll ==
    calm /\ ui = "idle" /\ (\A s \in Sessions : pc[P(s)] = "off") =>
        /\ heap = {}
        /\ \A s \in Sessions : conn[s] \in {"none", "freed"}
        /\ \A e \in Encoders : ~enc[e].live

\* In one session no packet is lost or freed early: the allocated packets are
\* the queued ones, the ones being built, and the one the push thread holds, and
\* no pointer leads to one that was never made.
PacketsAccounted == TypeOK /\
    heap = {q[i] : i \in DOMAIN q}
           \cup ({hand[a] : a \in Actors} \ {Null})
           \cup IF \E s \in Sessions : pc[P(s)] \notin {"off", "exit", "close", "free"}
                THEN {videoPacket} \ {Null} ELSE {}

\* In one session a packet that leaves the queue after nativeStop is not sent.
StaleNotSent == \A s \in Sessions : pc[P(s)] = "sending" => s \notin stale

\* In one session the push thread ends after nativeStop, wherever it was.
StopEndsPusher ==
    (ui = "stop") ~> (fault # "none" \/ \A s \in Sessions : pc[P(s)] = "off")

\* Each medium starts with its configuration: an IDR frame is queued only once
\* SPS and PPS have been, AAC data only once the AAC header has been.
ConfigurationFirst == /\ "key" \in accepted => "config" \in accepted
                      /\ "aac" \in accepted => "aacHeader" \in accepted

\* There is never more than one push thread.
OnePusher == Cardinality({s \in Sessions : pc[P(s)] # "off"}) <= 1
=============================================================================
