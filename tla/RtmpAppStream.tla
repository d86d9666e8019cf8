---------------------------- MODULE RtmpAppStream ----------------------------
(***************************************************************************)
(* What the app itself puts on the chunk layer: on the video channel       *)
(* frames with full headers and, before an IDR frame, SPS and PPS with a   *)
(* MEDIUM header and time 0; on the audio channel AAC data with full       *)
(* headers and one AAC header with a MEDIUM header and time 0.             *)
(* A connection of any other client of librtmp is checked beside it, with  *)
(* packets and headers of every kind on one channel.                       *)
(***************************************************************************)
EXTENDS RtmpChunk

CONSTANTS
    Video, Audio,   \* channels 10 and 11
    Stream          \* m_stream_id

ASSUME AppAssumption == /\ {Video, Audio} \subseteq Channel
                        /\ {Video, Audio} \subseteq Type
                        /\ Video # Audio
                        /\ Stream \in Info

VARIABLES
    app,            \* is this the app's connection?
    clock,          \* RTMP_GetTime() - startTime
    todoVideo,      \* packets encodeData has still to queue
    headerSent      \* has queueAccDataHeader run?

appVars == <<vars, app, clock, todoVideo, headerSent>>

AppInit == Init /\ app \in BOOLEAN /\ clock = 0 /\ todoVideo = <<>> /\ headerSent = FALSE

\* m_packetType and m_nChannel go together: video 9 on 10, audio 8 on 11.
AppPacket(c, size, ts) == [ch |-> c, type |-> c, size |-> size, ts |-> ts, info |-> Stream]

\* Time passes, and wraps around in 32 bits.
Tick == /\ clock' = (clock + 1) % TsMod
        /\ UNCHANGED <<vars, todoVideo, headerSent>>

\* encodeData yields an inter frame, or SPS and PPS followed by a frame.
encodeData == /\ todoVideo = <<>>
              /\ \E out \in {<<"frame">>, <<"config", "frame">>} : todoVideo' = out
              /\ UNCHANGED <<vars, clock, headerSent>>

queueSPSAndPPSPacket ==
    /\ todoVideo # <<>> /\ Head(todoVideo) = "config"
    /\ \E n \in 0..MaxSize : RTMP_SendPacket(AppPacket(Video, n, 0), MEDIUM)
    /\ todoVideo' = Tail(todoVideo)
    /\ UNCHANGED <<clock, headerSent>>

\* queueFramePacket that asks for the short header.
queueFramePacket_Medium ==
    /\ todoVideo # <<>> /\ Head(todoVideo) = "frame"
    /\ \E n \in 0..MaxSize : RTMP_SendPacket(AppPacket(Video, n, clock), MEDIUM)
    /\ todoVideo' = Tail(todoVideo)
    /\ UNCHANGED <<clock, headerSent>>

queueFramePacket ==
    /\ todoVideo # <<>> /\ Head(todoVideo) = "frame"
    /\ \E n \in 0..MaxSize : RTMP_SendPacket(AppPacket(Video, n, clock), LARGE)
    /\ todoVideo' = Tail(todoVideo)
    /\ UNCHANGED <<clock, headerSent>>

\* The data may overtake the header: both threads push.
queueAacData ==
    /\ \E n \in 0..MaxSize : RTMP_SendPacket(AppPacket(Audio, n, clock), LARGE)
    /\ UNCHANGED <<clock, todoVideo, headerSent>>

queueAccDataHeader ==
    /\ ~headerSent
    /\ headerSent' = TRUE
    /\ \E n \in 0..MaxSize : RTMP_SendPacket(AppPacket(Audio, n, 0), MEDIUM)
    /\ UNCHANGED <<clock, todoVideo>>

\* Another client: any packet, with the header its caller asks for.
SendAny == /\ \E p \in Packets, h \in {LARGE, MEDIUM} : p.ch = Video /\ RTMP_SendPacket(p, h)
           /\ UNCHANGED <<clock, todoVideo, headerSent>>

AppNext == /\ \/ app /\ (Tick \/ encodeData \/ queueSPSAndPPSPacket \/ queueFramePacket
                          \/ queueAacData \/ queueAccDataHeader)
              \/ ~app /\ SendAny
              \/ RTMP_ReadPacket /\ UNCHANGED <<clock, todoVideo, headerSent>>
           /\ UNCHANGED app

AppSpec == AppInit /\ [][AppNext]_appVars

-----------------------------------------------------------------------------
\* Every time stamp the app sends arrives as it was sent: its mix of full and
\* medium headers, SPS/PPS and the AAC header with time 0 among them, never
\* starts a packet with a 1-byte header after a non-zero field.
TimestampExact == app => got.time
=============================================================================
