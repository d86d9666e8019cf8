------------------------------ MODULE ParseUrl -------------------------------
(***************************************************************************)
(* parseurl.c: what an RTMP URL says.  A URL is its scheme and, after      *)
(* "://", a sequence of tokens: the separators, the words the parser looks *)
(* for, escapes, numbers, and "x" for any other character.  A position is  *)
(* the index of a token; lengths are in characters.                        *)
(***************************************************************************)
EXTENDS Integers, Sequences, SequencesExt

Extensions == {".f4v", ".mp4", ".flv", ".mp3"}
Width(t) == CASE t \in Extensions \union {"mp4:", "mp3:", "1935"} -> 4
              [] t = "slist=" -> 6 [] t = "ondemand" -> 8 [] t = "%41" -> 3 [] t = "70000" -> 5
              [] OTHER -> 1
Widths(s) == FoldLeft(LAMBDA n, t : n + Width(t), 0, s)
Atoi(t) == CASE t = "1935" -> 1935 [] t = "70000" -> 70000 [] OTHER -> 0

\* strchr and strstr: the first t at or after position from, 0 if there is none.
Find(s, t, from) == SelectInSubSeq(s, from, Len(s), LAMBDA u : u = t)

Protocols == {"rtmp", "rtmpt", "rtmps", "rtmpe", "rtmfp", "rtmpte", "rtmpts"}

\* The stream name of the playpath that begins at position at: an mp4 or mp3 name
\* gets its prefix and loses its extension unless it has the prefix already, an
\* flv name outside slist= loses its extension, escapes are decoded.
ExtensionAt(s, first, last) ==
    LET q == Find(s, "?", first) IN IF q > 0 THEN q - 1 ELSE last
RTMP_ParsePlaypath(s, at) ==
    LET slist == IF s[at] = "?" THEN Find(s, "slist=", at) ELSE 0
        first == IF slist > 0 THEN slist + 1 ELSE at
        amp == IF slist > 0 THEN Find(s, "&", first) ELSE 0
        last == IF amp > 0 THEN amp - 1 ELSE Len(s)
        pp == SubSeq(s, first, last)
        ext == ExtensionAt(s, first, last)
        kind == IF Widths(pp) >= 4 /\ ext > 0 THEN s[ext] ELSE "none"
        prefix == CASE kind \in {".f4v", ".mp4"} -> "mp4:" [] kind = ".mp3" -> "mp3:" [] OTHER -> "none"
        add == prefix # "none" /\ Head(pp) # prefix
        cut == add \/ (kind = ".flv" /\ slist = 0)
        kept == SelectSeq([i \in 1..Len(pp) |-> IF cut /\ first + i - 1 = ext THEN "none" ELSE pp[i]],
                          LAMBDA t : t # "none")
    IN (IF add THEN <<prefix>> ELSE <<>>) \o [i \in 1..Len(kept) |-> IF kept[i] = "%41" THEN "x" ELSE kept[i]]

\* Where the application ends and where the playpath is looked for: with a list
\* in the query the whole rest is the application, of "ondemand" only the word,
\* else it is app or app/instance.
AppEndsAtSlash(s, p) == LET e == Find(s, "/", p) IN IF e > 0 THEN <<e, e>> ELSE <<Len(s) + 1, Len(s) + 1>>
AppEnds(s, p) ==
    LET slash2 == Find(s, "/", p)
        slash3 == IF slash2 > 0 THEN Find(s, "/", slash2 + 1) ELSE 0
        end == Len(s) + 1
    IN IF Find(s, "?", 1) > 0 /\ Find(s, "slist=", p) > 0 THEN <<end, Find(s, "?", 1)>>
       ELSE IF p < Len(s) /\ s[p] = "ondemand" /\ s[p + 1] = "/" THEN <<p + 1, p + 1>>
       ELSE IF slash3 > 0 THEN <<slash3, slash3>>
       ELSE IF slash2 > 0 THEN <<slash2, slash2>> ELSE <<end, end>>

NoUrl == [ok |-> FALSE, protocol |-> "rtmp", host |-> <<>>, port |-> 0, app |-> <<>>,
          playpath |-> <<>>]

RTMP_ParseURL(scheme, s) ==
    LET slash == Find(s, "/", 1)
        col == Find(s, ":", 1)
        hostEnd == IF slash > 0 THEN slash ELSE Len(s) + 1
        portAt == IF col > 0 /\ col < hostEnd THEN col ELSE hostEnd
        host == SubSeq(s, 1, portAt - 1)
        port == IF portAt < Len(s) /\ s[portAt] = ":" THEN Atoi(s[portAt + 1]) ELSE 0
        ends == AppEnds(s, slash + 1)
        rest == IF ends[2] <= Len(s) /\ s[ends[2]] = "/" THEN ends[2] + 1 ELSE ends[2]
        authority == [NoUrl EXCEPT !.ok = TRUE,
                                   !.protocol = IF scheme \in Protocols THEN scheme ELSE "rtmp",
                                   !.host = IF Widths(host) < 256 THEN host ELSE <<>>,
                                   !.port = IF port > 65535 THEN 0 ELSE port]
    IN IF s = <<>> THEN NoUrl
       ELSE IF slash = 0 THEN authority
       ELSE [authority EXCEPT !.app = SubSeq(s, slash + 1, ends[1] - 1),
                              !.playpath = IF rest <= Len(s) THEN RTMP_ParsePlaypath(s, rest) ELSE @]
==============================================================================
