----------------------------- MODULE RtmpSession -----------------------------
(***************************************************************************)
(* One RTMP publishing session as threadRun drives it: RTMP_Connect,       *)
(* RTMP_ConnectStream, media packets, RTMP_Close, RTMP_Free.  The server   *)
(* and the network are external: the server answers every call once at    *)
(* most, sends what it likes in between, and the connection may end or     *)
(* break between any two steps.                                            *)
(*                                                                         *)
(* The client is one thread.  What it still has to do before control is    *)
(* back in RTMP_Connect, RTMP_ConnectStream or threadRun is the sequence   *)
(* todo: a failed write puts RTMP_Close in front of what its caller would  *)
(* do next, just as WriteN calls it below the caller's frame.              *)
(***************************************************************************)
EXTENDS Integers, Sequences, SequencesExt, FiniteSets

CONSTANTS
    MaxNoise,       \* bound: messages the server sends on its own account
    MaxInbox,       \* bound: messages sent and not yet read
    MaxNest         \* bound: RTMP_Close frames that fit on the stack

ASSUME SessionAssumption == /\ MaxNoise \in Nat /\ MaxInbox \in Nat
                            /\ MaxNest \in Nat \ {0}

Invokes  == {"connect", "releaseStream", "FCPublish", "createStream", "publish",
             "FCUnpublish", "deleteStream", "_checkbw"}   \* carry ++m_numInvokes
Queued   == {"connect", "createStream", "publish"}        \* sent with queue = TRUE
Answered == {"connect", "releaseStream", "FCPublish", "createStream", "publish"}
Status   == {"publishStart", "failed", "stopped"}         \* codes of onStatus
Ctrl     == {"ping", "other"}                             \* control and media messages
Noise    == {"onBWDone", "_onbwcheck", "close", "failed", "stopped", "ping", "other"}

VARIABLES
    at,             \* where threadRun is
    todo,           \* see above
    connected,      \* sb_socket # -1
    streamId,       \* m_stream_id
    playing,        \* m_bPlaying
    methodCalls,    \* m_methodCalls
    numInvokes,     \* m_numInvokes
    bwCheckCounter, \* m_nBWCheckCounter
    link,           \* the connection: "none", "up", "eof" (the server left), "dead"
    inbox,          \* messages the server sent and the client has not read
    calls,          \* server: calls it has not answered
    stream,         \* server: "none", "published", "deleted"; "refused" once it reported failure
    noise,          \* server: what is left of MaxNoise
    fault           \* "none" or "overflow": the stack is exhausted

client == <<connected, streamId, playing, methodCalls, numInvokes, bwCheckCounter>>
server == <<calls, stream, noise>>
vars   == <<at, todo, client, link, inbox, server, fault>>

\* RTMP_Alloc, RTMP_Init and RTMP_SetupURL have been called.
Init == /\ at = "connect" /\ todo = <<>>
        /\ connected = FALSE /\ streamId = 0 /\ playing = FALSE
        /\ methodCalls = <<>> /\ numInvokes = 0 /\ bwCheckCounter = 0
        /\ link = "none" /\ inbox = <<>>
        /\ calls = {} /\ stream = "none" /\ noise = MaxNoise
        /\ fault = "none"

-----------------------------------------------------------------------------
(* Sending: RTMP_SendPacket and the Send functions above it. *)

\* SendInvoke with createStream reusing the number of the call before it.
SendInvoke_Reuses(name) ==
    numInvokes' = numInvokes + (IF name \in Invokes \ {"createStream"} THEN 1 ELSE 0)

\* The transaction number is taken when the call is encoded, sent or not.
SendInvoke(name) == numInvokes' = numInvokes + (IF name \in Invokes THEN 1 ELSE 0)

\* AV_queue at the end of RTMP_SendPacket.
AV_queue(name) ==
    methodCalls' = IF name \in Queued
                   THEN Append(methodCalls, [name |-> name, num |-> numInvokes'])
                   ELSE methodCalls

\* The server takes note of a call; one that has left takes note of nothing.
Receive(name) ==
    /\ calls' = IF link = "up" /\ name \in Answered
                THEN calls \cup {[name |-> name, num |-> numInvokes']} ELSE calls
    /\ stream' = IF link # "up" \/ stream = "refused" THEN stream
                 ELSE CASE name = "publish" -> "published"
                        [] name = "deleteStream" -> "deleted"
                        [] OTHER -> stream
    /\ UNCHANGED noise

\* WriteN: a write to a connection that broke, or was closed, fails and closes it.
WriteOk == connected /\ link # "dead"

\* The next packet of todo; deleteStream is the second send of RTMP_Close,
\* which has cleared m_stream_id by then.
RTMP_SendPacket ==
    /\ fault = "none" /\ todo # <<>> /\ Head(todo) \notin {"RTMP_Close", "teardown"}
    /\ SendInvoke(Head(todo))
    /\ streamId' = IF Head(todo) = "deleteStream" THEN 0 ELSE streamId
    /\ \/ /\ WriteOk
          /\ AV_queue(Head(todo)) /\ Receive(Head(todo))
          /\ todo' = Tail(todo)
       \/ /\ ~WriteOk
          /\ todo' = <<"RTMP_Close">> \o Tail(todo)
          /\ UNCHANGED <<methodCalls, server>>
    /\ UNCHANGED <<at, connected, playing, bwCheckCounter, link, inbox, fault>>

-----------------------------------------------------------------------------
(* RTMP_Close *)

\* Frames of RTMP_Close on the stack.
Nesting == Cardinality({i \in DOMAIN todo : todo[i] = "teardown"})

\* RTMP_Close that says goodbye only to a stream it publishes on.
RTMP_CloseBegin_Playing ==
    /\ fault = "none" /\ todo # <<>> /\ Head(todo) = "RTMP_Close"
    /\ \/ /\ Nesting < MaxNest
          /\ todo' = (IF connected /\ playing
                      THEN <<"FCUnpublish", "deleteStream", "teardown">>
                      ELSE <<"teardown">>) \o Tail(todo)
          /\ UNCHANGED fault
       \/ /\ Nesting = MaxNest
          /\ fault' = "overflow"
          /\ UNCHANGED todo
    /\ UNCHANGED <<at, client, link, inbox, server>>

\* Its first half: FCUnpublish goes out before m_stream_id is cleared.
RTMP_CloseBegin ==
    /\ fault = "none" /\ todo # <<>> /\ Head(todo) = "RTMP_Close"
    /\ \/ /\ Nesting < MaxNest
          /\ todo' = (IF connected /\ streamId > 0
                      THEN <<"FCUnpublish", "deleteStream", "teardown">>
                      ELSE <<"teardown">>) \o Tail(todo)
          /\ UNCHANGED fault
       \/ /\ Nesting = MaxNest
          /\ fault' = "overflow"
          /\ UNCHANGED todo
    /\ UNCHANGED <<at, client, link, inbox, server>>

\* Its second half without the reset of m_bPlaying.
RTMP_CloseEnd_StillPlaying ==
    /\ fault = "none" /\ todo # <<>> /\ Head(todo) = "teardown"
    /\ todo' = Tail(todo)
    /\ connected' = FALSE /\ streamId' = -1
    /\ methodCalls' = <<>> /\ numInvokes' = 0 /\ bwCheckCounter' = 0
    /\ UNCHANGED <<at, playing, link, inbox, server, fault>>

\* Its second half with the calls left in place.
RTMP_CloseEnd_KeepsCalls ==
    /\ fault = "none" /\ todo # <<>> /\ Head(todo) = "teardown"
    /\ todo' = Tail(todo)
    /\ connected' = FALSE /\ streamId' = -1 /\ playing' = FALSE
    /\ numInvokes' = 0 /\ bwCheckCounter' = 0
    /\ UNCHANGED <<at, methodCalls, link, inbox, server, fault>>

\* Its second half: the socket is closed and the session state reset.
RTMP_CloseEnd ==
    /\ fault = "none" /\ todo # <<>> /\ Head(todo) = "teardown"
    /\ todo' = Tail(todo)
    /\ connected' = FALSE /\ streamId' = -1 /\ playing' = FALSE
    /\ methodCalls' = <<>> /\ numInvokes' = 0 /\ bwCheckCounter' = 0
    /\ UNCHANGED <<at, link, inbox, server, fault>>

-----------------------------------------------------------------------------
(* RTMP_Connect *)

Idle(where) == fault = "none" /\ at = where /\ todo = <<>>

\* RTMP_Connect0 and the handshake of RTMP_Connect1: the host is unknown, the
\* connection or the handshake fails, or SendConnectPacket is next.
RTMP_Connect ==
    /\ Idle("connect")
    /\ \/ /\ at' = "closing" /\ todo' = <<"RTMP_Close">>
          /\ UNCHANGED <<connected, link>>
       \/ /\ connected' = TRUE /\ link' \in {"none", "up", "eof", "dead"}
          /\ at' = "closing" /\ todo' = <<"RTMP_Close", "RTMP_Close">>
       \/ /\ connected' = TRUE /\ link' = "up"
          /\ at' = "connected" /\ todo' = <<"connect">>
    /\ UNCHANGED <<streamId, playing, methodCalls, numInvokes, bwCheckCounter,
                   inbox, server, fault>>

\* SendConnectPacket has returned: RTMP_Connect closes again if it failed, and
\* so does threadRun.
SendConnectPacket ==
    /\ Idle("connected")
    /\ \/ /\ connected /\ at' = "stream" /\ UNCHANGED todo
       \/ /\ ~connected /\ at' = "closing" /\ todo' = <<"RTMP_Close", "RTMP_Close">>
    /\ UNCHANGED <<client, link, inbox, server, fault>>

-----------------------------------------------------------------------------
(* RTMP_ConnectStream: the loop over RTMP_ReadPacket and RTMP_ClientPacket. *)

Reading == Idle("stream") /\ ~playing /\ connected

\* The calls without the one at place i.
AV_erase(i) == methodCalls' = RemoveAt(methodCalls, i)

\* AV_erase of the first call of that name, if there is one.
EraseCall(name) ==
    LET named == {i \in 1..Len(methodCalls) : methodCalls[i].name = name}
    IN  \/ named = {} /\ UNCHANGED methodCalls
        \/ \E i \in named : (\A j \in named : i <= j) /\ AV_erase(i)

\* HandleInvoke of a _result: the call with its number decides what is next;
\* a result without a call is ignored.
HandleResult(m) ==
    LET found == {i \in 1..Len(methodCalls) : methodCalls[i].num = m.num}
    IN  /\ UNCHANGED bwCheckCounter
        /\ \/ found = {} /\ UNCHANGED <<methodCalls, streamId, playing, todo>>
           \/ \E i \in found :
                 LET name == methodCalls[i].name
                 IN  /\ \A j \in found : i <= j
                     /\ AV_erase(i)
                     /\ todo' = CASE name = "connect" ->
                                       <<"releaseStream", "FCPublish", "createStream">>
                                  [] name = "createStream" -> <<"publish">>
                                  [] OTHER -> todo
                     /\ streamId' = IF name = "createStream" THEN 1 ELSE streamId
                     /\ playing' = (playing \/ name = "publish")

\* HandleInvoke of onStatus: only a start and the failures it knows matter.
HandleStatus(m) ==
    /\ playing' = (playing \/ m.kind = "publishStart")
    /\ IF m.kind = "publishStart" THEN EraseCall("publish") ELSE UNCHANGED methodCalls
    /\ streamId' = IF m.kind = "failed" THEN -1 ELSE streamId
    /\ todo' = IF m.kind \in {"failed", "stopped"} THEN <<"RTMP_Close">> ELSE todo
    /\ UNCHANGED bwCheckCounter

\* HandleInvoke of every other method; an _error is only logged.
HandleInvoke(m) ==
    /\ todo' = CASE m.kind = "close" -> <<"RTMP_Close">>
                 [] m.kind = "onBWDone" /\ bwCheckCounter = 0 -> <<"_checkbw">>
                 [] m.kind = "_onbwcheck" -> <<"_result">>
                 [] OTHER -> todo
    /\ bwCheckCounter' = bwCheckCounter + (IF m.kind = "_onbwcheck" THEN 1 ELSE 0)
    /\ UNCHANGED <<methodCalls, streamId, playing>>

\* HandleCtrl: a ping is answered, the rest is only logged.
HandleCtrl(m) == /\ todo' = IF m.kind = "ping" THEN <<"pong">> ELSE todo
                 /\ UNCHANGED <<methodCalls, streamId, playing, bwCheckCounter>>

\* RTMP_ReadPacket yields a message and RTMP_ClientPacket handles it.
RTMP_ClientPacket ==
    /\ Reading /\ inbox # <<>>
    /\ LET m == Head(inbox)
       IN  \/ m.kind = "_result" /\ HandleResult(m)
           \/ m.kind \in Status /\ HandleStatus(m)
           \/ m.kind \in Ctrl /\ HandleCtrl(m)
           \/ m.kind \notin {"_result"} \cup Status \cup Ctrl /\ HandleInvoke(m)
    /\ inbox' = Tail(inbox)
    /\ UNCHANGED <<at, connected, numInvokes, link, server, fault>>

\* ReadN that waits again when nothing came in time.
ReadN_Again ==
    /\ Reading /\ inbox = <<>>
    /\ \/ /\ link = "up" /\ UNCHANGED <<at, todo>>
       \/ /\ link # "up" /\ at' = "closing" /\ todo' = <<"RTMP_Close", "RTMP_Close">>
    /\ UNCHANGED <<client, link, inbox, server, fault>>

\* ReadN: nothing to read within Link.timeout ends RTMP_ConnectStream and leaves
\* the connection open; the end of the connection closes it.  Either way
\* threadRun closes, too.
ReadN ==
    /\ Reading /\ inbox = <<>> /\ at' = "closing"
    /\ \/ link = "up" /\ todo' = <<"RTMP_Close">>
       \/ link # "up" /\ todo' = <<"RTMP_Close", "RTMP_Close">>
    /\ UNCHANGED <<client, link, inbox, server, fault>>

\* The loop ends: playing, or no longer connected.
RTMP_ConnectStream ==
    /\ Idle("stream")
    /\ \/ playing /\ at' = "pushing" /\ UNCHANGED todo
       \/ ~playing /\ ~connected /\ at' = "closing" /\ todo' = <<"RTMP_Close">>
    /\ UNCHANGED <<client, link, inbox, server, fault>>

-----------------------------------------------------------------------------
(* threadRun: push packets, then close. *)

\* The result of RTMP_SendPacket is only logged.
pushPacket == /\ Idle("pushing") /\ todo' = <<"media">>
              /\ UNCHANGED <<at, client, link, inbox, server, fault>>

stopPushing == /\ Idle("pushing") /\ at' = "closing" /\ todo' = <<"RTMP_Close">>
               /\ UNCHANGED <<client, link, inbox, server, fault>>

RTMP_Free == /\ Idle("closing") /\ at' = "freed"
             /\ UNCHANGED <<todo, client, link, inbox, server, fault>>

-----------------------------------------------------------------------------
(* The server and the network (external). *)

Deliver(m) == Len(inbox) < MaxInbox /\ inbox' = Append(inbox, m)

\* _result or _error for a call; a publish may be confirmed by its status before.
Answer == /\ link = "up"
          /\ \E c \in calls :
                /\ \/ \E kind \in {"_result", "_error"} :
                         /\ Deliver([kind |-> kind, num |-> c.num, for |-> c.name])
                         /\ calls' = calls \ {c}
                   \/ /\ c.name = "publish" /\ UNCHANGED calls
                      /\ ~ \E i \in 1..Len(inbox) : inbox[i].kind = "publishStart"
                      /\ Deliver([kind |-> "publishStart", num |-> 0, for |-> "none"])
          /\ UNCHANGED <<at, todo, client, link, stream, noise, fault>>

Unsolicited == /\ link = "up" /\ noise > 0 /\ noise' = noise - 1
               /\ \E kind \in Noise :
                     /\ Deliver([kind |-> kind, num |-> 0, for |-> "none"])
                     /\ stream' = IF kind = "failed" THEN "refused" ELSE stream
               /\ UNCHANGED <<at, todo, client, link, calls, fault>>

\* The server closes its end; or the connection breaks, at the latest when
\* something is written to a server that has left.
Disconnect == /\ \/ link = "up" /\ link' \in {"eof", "dead"}
                 \/ link = "eof" /\ link' = "dead"
              /\ UNCHANGED <<at, todo, client, inbox, server, fault>>

-----------------------------------------------------------------------------
Run == \/ RTMP_SendPacket \/ RTMP_CloseBegin \/ RTMP_CloseEnd
       \/ RTMP_Connect \/ SendConnectPacket
       \/ RTMP_ClientPacket \/ ReadN \/ RTMP_ConnectStream
       \/ pushPacket \/ stopPushing \/ RTMP_Free

\* What the server sends after RTMP_ConnectStream has returned is never read.
Network == /\ at # "freed" /\ fault = "none"
           /\ \/ at \in {"connected", "stream"} /\ (Answer \/ Unsolicited)
              \/ Disconnect

Next == Run \/ Network

Spec == Init /\ [][Next]_vars

\* The thread that runs threadRun is scheduled; the network owes it nothing.
LiveSpec == Spec /\ WF_vars(Run)

-----------------------------------------------------------------------------
\* Types: the function that has control, its remaining work, the calls and messages under way.
TypeOK ==
    /\ at \in {"connect", "connected", "stream", "pushing", "closing", "freed"}
    /\ connected \in BOOLEAN /\ playing \in BOOLEAN /\ streamId \in {-1, 0, 1}
    /\ methodCalls \in Seq([name: Queued, num: Nat \ {0}])
    /\ \A i \in 1..Len(methodCalls) : methodCalls[i].num <= numInvokes
    /\ link \in {"none", "up", "eof", "dead"}
    /\ stream \in {"none", "published", "deleted", "refused"}
    /\ Nesting <= MaxNest

\* While m_bPlaying is set there is a socket and a stream id, and the server,
\* if it listened that long, has been told to publish and not to delete; so
\* threadRun never pushes into a session that was only half set up.
PlayingMeansPublishing ==
    playing /\ todo = <<>> => /\ connected /\ streamId > 0
                              /\ link = "up" => stream \in {"published", "refused"}

\* No _result is ever taken for the answer to another call than the server
\* answered, whatever was encoded, sent or closed in between; no call on the
\* list has a number that was not given out since the last close.
ResultMeetsItsCall == TypeOK /\
    \A i \in 1..Len(inbox), j \in 1..Len(methodCalls) :
        inbox[i].kind = "_result" /\ inbox[i].num = methodCalls[j].num
            => inbox[i].for = methodCalls[j].name

\* A stream that was published is deleted before the session is freed, unless
\* the server left, the connection broke or the server itself reported failure.
NoStreamLeftBehind ==
    ~ (at = "freed" /\ link = "up" /\ stream = "published")

\* HandleInvoke returns: RTMP_Close never calls itself without end.
HandleInvokeReturns == fault = "none"

\* RTMP_ConnectStream returns once the server has said all it had to say: by
\* playing, by a close or by the read timeout, or not at all on overflow.
ConnectStreamReturns == (at = "stream") ~> (at # "stream" \/ fault = "overflow")
=============================================================================
