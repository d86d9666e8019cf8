----------------------------- MODULE RtmpOptions -----------------------------
(***************************************************************************)
(* RTMP_SetupURL: the URL and the options "name=value" that may follow it, *)
(* separated by spaces.  The text is a sequence of tokens as in ParseUrl;  *)
(* "\\20" is an escape (a space), "\\2" one cut off by the end of a value. *)
(* The argument of conn, one AMF property, is a single token.              *)
(***************************************************************************)
EXTENDS ParseUrl

OPT_STR == {"socks", "app", "tcUrl", "pageUrl", "swfUrl", "flashver", "playpath", "subscribe", "token"}
OPT_INT == {"swfAge", "start", "stop", "buffer", "timeout"}
OPT_BOOL == {"playlist", "live", "swfVfy"}
truth == {<<"1">>, <<"on">>, <<"yes">>, <<"true">>}
Lower(t) == IF t = "LIVE" THEN "live" ELSE t

\* The session's link as RTMP_Init leaves it.  appInUrl: Link.app points into the
\* URL itself.
RTMP_Init ==
    [ok |-> TRUE, host |-> <<>>, port |-> 0, appInUrl |-> TRUE, flags |-> {},
     str |-> [o \in OPT_STR |-> <<>>],
     int |-> [o \in OPT_INT |-> CASE o = "buffer" -> 30000 [] o \in {"swfAge", "timeout"} -> 30 [] OTHER -> 0],
     extras |-> <<>>, edepth |-> 0]

-----------------------------------------------------------------------------
\* conn: "T:value", or "NT:name:value" inside an object; O:1 and NO open an
\* object, O:0 closes one.
ConnArg(t) ==
    LET arg(type, name, value) == [type |-> type, name |-> name, value |-> value] IN
    CASE t = "B:1" -> arg("B", "", "1") [] t = "S:v" -> arg("S", "", "v") [] t = "N:1" -> arg("N", "", "1")
      [] t = "Z:" -> arg("Z", "", "") [] t = "O:1" -> arg("O", "", "") [] t = "O:0" -> arg("close", "", "")
      [] t = "NB:n:1" -> arg("B", "n", "1") [] t = "NS:n:v" -> arg("S", "n", "v")
      [] t = "NN:n:1" -> arg("N", "n", "1") [] t = "NO:n:1" -> arg("O", "n", "")
      [] OTHER -> arg("unknown", "", "")

\* Mutant: the walk goes through the first property of each object.
RECURSIVE AddPropFirst(_, _, _)
AddPropFirst(obj, depth, prop) ==
    IF depth <= 0 THEN Append(obj, prop)
    ELSE [obj EXCEPT ![1].props = AddPropFirst(@, depth - 1, prop)]
\* Down through the last property of each of the open objects.
RECURSIVE AddProp(_, _, _)
AddProp(obj, depth, prop) ==
    IF depth <= 0 THEN Append(obj, prop)
    ELSE [obj EXCEPT ![Len(obj)].props = AddProp(@, depth - 1, prop)]

parseAMF(link, t) ==
    LET a == ConnArg(t)
        prop == [type |-> a.type, name |-> a.name, value |-> a.value, props |-> <<>>]
    IN IF a.type = "unknown" \/ (a.name # "" /\ link.edepth = 0) THEN [link EXCEPT !.ok = FALSE]
       ELSE IF a.type = "close" THEN [link EXCEPT !.edepth = @ - 1]
       ELSE [link EXCEPT !.extras = AddProp(@, link.edepth, prop),
                         !.edepth = IF a.type = "O" THEN @ + 1 ELSE @]

-----------------------------------------------------------------------------
RTMP_SetOpt(link, opt, arg) ==
    LET o == IF Len(opt) = 1 THEN Lower(opt[1]) ELSE "unknown" IN
    CASE o \in OPT_STR -> [link EXCEPT !.str[o] = arg, !.appInUrl = @ /\ o # "app"]
      [] o \in OPT_INT -> [link EXCEPT !.int[o] = IF arg = <<>> THEN 0 ELSE Atoi(arg[1])]
      [] o \in OPT_BOOL -> [link EXCEPT !.flags = IF arg \in truth THEN @ \union {o} ELSE @]
      [] o = "conn" -> parseAMF(link, arg[1])
      [] OTHER -> [link EXCEPT !.ok = FALSE]

Unescape(arg) == [i \in DOMAIN arg |-> IF arg[i] = "\\20" THEN " " ELSE arg[i]]

\* Mutant: one space separates two options.
AfterOneSpace(s, space) == space + 1
\* Repeated spaces after a value are skipped.
AfterSpaces(s, space) ==
    CHOOSE q \in space + 1 .. Len(s) + 1 :
        /\ q > Len(s) \/ s[q] # " "
        /\ \A i \in space .. q - 1 : s[i] = " "

\* The options from position p on; without a further '=' the rest is ignored.
RECURSIVE SetOptions(_, _, _)
SetOptions(link, s, p) ==
    LET eq == Find(s, "=", p)
        space == Find(s, " ", eq + 1)
        arg == SubSeq(s, eq + 1, IF space = 0 THEN Len(s) ELSE space - 1)
        set == RTMP_SetOpt(link, SubSeq(s, p, eq - 1), Unescape(arg))
    IN IF eq = 0 THEN link
       ELSE IF \E i \in DOMAIN arg : arg[i] = "\\2" THEN [link EXCEPT !.ok = FALSE]
       ELSE IF set.ok /\ space # 0 THEN SetOptions(set, s, AfterSpaces(s, space))
       ELSE set

\* tcUrl unless given: the URL up to the end of its own application, or put
\* together with the application given (before a missing port is filled in).
TcUrl(link, url) ==
    LET app == link.str["app"]
        port == IF link.port = 0 THEN "0" ELSE "1935"
    IN IF app = <<>> THEN url
       ELSE IF link.appInUrl THEN SubSeq(url, 1, Find(url, "/", 1) + Len(app))
       ELSE link.host \o <<":", port, "/">> \o app

DefaultPort(protocol) ==
    CASE protocol \in {"rtmps", "rtmpts"} -> 443 [] protocol \in {"rtmpt", "rtmpte"} -> 80 [] OTHER -> 1935

\* The link with its options set, completed from the URL and the protocol.
Completed(link, url, protocol) ==
    LET own == link.str["tcUrl"] = <<>>
    IN IF ~link.ok THEN link
       ELSE [link EXCEPT
                !.str["tcUrl"] = IF own THEN TcUrl(link, url) ELSE @,
                !.flags = IF own /\ link.str["app"] # <<>> /\ ~link.appInUrl THEN @ \union {"FTCU"} ELSE @,
                !.port = IF @ = 0 THEN DefaultPort(protocol) ELSE @]

\* u: the parts of the URL; the options follow the first space, if there is one.
LinkOf(u, s, space) ==
    LET start == [RTMP_Init EXCEPT !.host = u.host, !.port = u.port,
                                   !.str["app"] = u.app, !.str["playpath"] = u.playpath]
    IN IF space = 0 THEN start ELSE SetOptions(start, s, space + 1)

SetupWith(u, url, s, space) ==
    IF u.ok THEN Completed(LinkOf(u, s, space), url, u.protocol) ELSE [RTMP_Init EXCEPT !.ok = FALSE]
RTMP_SetupURL(scheme, s) ==
    LET space == Find(s, " ", 1)
        url == IF space = 0 THEN s ELSE SubSeq(s, 1, space - 1)
    IN SetupWith(RTMP_ParseURL(scheme, url), url, s, space)
==============================================================================
