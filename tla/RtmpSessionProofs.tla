-------------------------- MODULE RtmpSessionProofs --------------------------
(***************************************************************************)
(* Proofs about RtmpSession, for any bounds on what the server sends and   *)
(* on the nesting of RTMP_Close: types, a session that plays is set up,    *)
(* every _result meets the call it answers, and a published stream is      *)
(* deleted when the connection lasts.                                      *)
(***************************************************************************)
EXTENDS RtmpSession, FiniteSetTheorems, SequenceTheorems, TLAPS

Ops == Invokes \union {"_result", "pong", "media", "RTMP_Close", "teardown"}
Goodbye == {"FCUnpublish", "deleteStream", "teardown"}
Kinds == {"_result", "_error", "publishStart"} \union Noise
Calls == [name: Answered, num: Nat \ {0}]
Messages == [kind: Kinds, num: Nat, for: Answered \union {"none"}]

\* RTMP_Close is called, or has still to close the socket.
Closing == \E i \in 1..Len(todo) : todo[i] \in {"RTMP_Close", "teardown"}
\* The session as it is being set up, before anything went wrong.
Open == connected /\ ~Closing

\* Types, the work that is left and the messages under way included.
Types ==
    /\ at \in {"connect", "connected", "stream", "pushing", "closing", "freed"}
    /\ connected \in BOOLEAN /\ playing \in BOOLEAN /\ streamId \in {-1, 0, 1}
    /\ todo \in Seq(Ops)
    /\ methodCalls \in Seq([name: Queued, num: Nat \ {0}])
    /\ numInvokes \in Nat
    /\ link \in {"none", "up", "eof", "dead"}
    /\ inbox \in Seq(Messages)
    /\ calls \subseteq Calls
    /\ stream \in {"none", "published", "deleted", "refused"}

\* The two halves of RTMP_Close and what it sends between them stay together;
\* while the connection is up they are not interrupted.
Shape ==
    /\ \A i \in 1..Len(todo) :
          /\ todo[i] = "FCUnpublish" => i < Len(todo) /\ todo[i + 1] = "deleteStream"
          /\ todo[i] = "deleteStream" => i < Len(todo) /\ todo[i + 1] = "teardown"
          /\ todo[i] = "publish" => Len(todo) = 1
    /\ link = "up" /\ connected =>
          \A i \in 1..Len(todo) : todo[i] \in Goodbye => todo[1] \in Goodbye

\* Where threadRun is says whether there is a socket.
Places ==
    /\ at = "connect" => /\ todo = <<>> /\ ~connected /\ streamId = 0 /\ stream = "none"
                         /\ calls = {} /\ inbox = <<>>
    /\ at = "closing" => ~connected \/ Closing
    /\ at = "freed" => ~connected /\ todo = <<>>
    /\ ~connected => methodCalls = <<>> /\ ~playing

\* What is known of the stream once the server has been told to publish.
Told == streamId = 1 /\ (link = "up" => stream \in {"published", "refused"})
Publishing ==
    /\ Open =>
          /\ playing => Told
          /\ \A i \in 1..Len(methodCalls) : methodCalls[i].name = "publish" => Told
          /\ \A c \in calls : c.name = "publish" => Told
          /\ \A i \in 1..Len(inbox) : inbox[i].kind = "publishStart" => Told
          /\ \A i \in 1..Len(todo) : todo[i] = "publish" => streamId = 1
          /\ stream # "deleted"
    /\ \A i \in 1..Len(inbox) : inbox[i].kind = "failed" => stream = "refused"
    /\ link = "up" /\ stream = "published" =>
          connected /\ streamId = 1 /\ (todo # <<>> => todo[1] # "teardown")

\* The numbers given out since the socket was opened: no two calls share one.
Numbers ==
    /\ \A i \in 1..Len(methodCalls) : methodCalls[i].num <= numInvokes
    /\ connected =>
          /\ \A c \in calls : c.num <= numInvokes
          /\ \A i \in 1..Len(inbox) : inbox[i].kind = "_result" => inbox[i].num <= numInvokes
          /\ \A c, d \in calls : c.num = d.num => c = d
          /\ \A i \in 1..Len(inbox) : inbox[i].kind = "_result" =>
                /\ \A c \in calls : inbox[i].num # c.num
                /\ \A j \in 1..Len(methodCalls) :
                      inbox[i].num = methodCalls[j].num => inbox[i].for = methodCalls[j].name
          /\ \A c \in calls : \A j \in 1..Len(methodCalls) :
                c.num = methodCalls[j].num => c.name = methodCalls[j].name

NestingOK == Nesting <= MaxNest
Inv == Types /\ Shape /\ Places /\ Publishing /\ Numbers /\ NestingOK

-----------------------------------------------------------------------------
\* What the moves of todo do to its elements.

LEMMA ElementsAre ==
    ASSUME NEW S, NEW s \in Seq(S)
    PROVE  \A i \in 1..Len(s) : s[i] \in S
OBVIOUS

LEMMA TailIs ==
    ASSUME NEW S, NEW s \in Seq(S), s # <<>>
    PROVE  /\ Tail(s) \in Seq(S) /\ Len(Tail(s)) = Len(s) - 1 /\ Len(s) \in Nat \ {0}
           /\ Head(s) = s[1] /\ s[1] \in S
           /\ \A i \in 1..Len(Tail(s)) : Tail(s)[i] = s[i + 1] /\ i + 1 \in 1..Len(s)
OBVIOUS

LEMMA PutHead ==
    ASSUME NEW S, NEW s \in Seq(S), s # <<>>, NEW x \in S, NEW r, r = <<x>> \o Tail(s)
    PROVE  /\ r \in Seq(S) /\ Len(r) = Len(s) /\ r[1] = x /\ r # <<>>
           /\ \A i \in 2..Len(s) : r[i] = s[i]
<1>1. <<x>> \in Seq(S) /\ Tail(s) \in Seq(S) /\ Len(Tail(s)) = Len(s) - 1 /\ Len(s) \in Nat \ {0}
  OBVIOUS
<1>2. QED BY <1>1

LEMMA PutThree ==
    ASSUME NEW S, NEW s \in Seq(S), s # <<>>, NEW x \in S, NEW y \in S, NEW z \in S,
           NEW r, r = <<x, y, z>> \o Tail(s)
    PROVE  /\ r \in Seq(S) /\ Len(r) = Len(s) + 2 /\ r[1] = x /\ r[2] = y /\ r[3] = z
           /\ \A i \in 4..Len(r) : r[i] = s[i - 2] /\ i - 2 \in 2..Len(s)
<1>1. /\ <<x, y, z>> \in Seq(S) /\ Len(<<x, y, z>>) = 3
      /\ Tail(s) \in Seq(S) /\ Len(Tail(s)) = Len(s) - 1 /\ Len(s) \in Nat \ {0}
  OBVIOUS
<1>2. r \in Seq(S) /\ Len(r) = Len(s) + 2 /\ r[1] = x /\ r[2] = y /\ r[3] = z
  BY <1>1
<1>3. \A i \in 4..Len(r) : r[i] = Tail(s)[i - 3] /\ i - 3 \in 1..Len(Tail(s))
  BY <1>1, <1>2
<1>4. \A j \in 1..Len(Tail(s)) : Tail(s)[j] = s[j + 1]
  BY <1>1
<1>5. \A i \in 4..Len(r) : i - 3 + 1 = i - 2 /\ i - 2 \in 2..Len(s)
  BY <1>1, <1>2
<1>6. QED BY <1>2, <1>3, <1>4, <1>5

\* A sequence without the element at i holds nothing new.
LEMMA Removed ==
    ASSUME NEW S, NEW s \in Seq(S), NEW i \in 1..Len(s), NEW r, r = RemoveAt(s, i)
    PROVE  /\ r \in Seq(S)
           /\ \A j \in 1..Len(r) : \E h \in 1..Len(s) : r[j] = s[h]
<1> DEFINE a == SubSeq(s, 1, i - 1)
           b == SubSeq(s, i + 1, Len(s))
<1>1. /\ a \in Seq(S) /\ Len(a) = i - 1 /\ \A j \in 1..Len(a) : a[j] = s[j] /\ j \in 1..Len(s)
      /\ b \in Seq(S) /\ Len(b) = Len(s) - i /\ \A j \in 1..Len(b) : b[j] = s[j + i] /\ j + i \in 1..Len(s)
  OBVIOUS
<1>2. r = a \o b
  BY DEF RemoveAt
<1> HIDE DEF a, b
<1>3. r \in Seq(S) /\ Len(r) = Len(a) + Len(b)
  BY <1>1, <1>2, ConcatProperties
<1>4. \A j \in 1..Len(r) : r[j] = IF j <= Len(a) THEN a[j] ELSE b[j - Len(a)]
  BY <1>1, <1>2
<1>5. ASSUME NEW j \in 1..Len(r) PROVE \E h \in 1..Len(s) : r[j] = s[h]
  <2>1. CASE j <= Len(a)
    BY <1>1, <1>4, <2>1
  <2>2. CASE ~(j <= Len(a))
    <3>1. j - Len(a) \in 1..Len(b)
      BY <1>1, <1>3, <2>2
    <3>2. r[j] = b[j - Len(a)]
      BY <1>4, <2>2
    <3>3. QED BY <1>1, <3>1, <3>2
  <2>3. QED BY <2>1, <2>2
<1>6. QED BY <1>3, <1>5

\* The frames of RTMP_Close in a sequence of operations.
Frames(s) == {i \in DOMAIN s : s[i] = "teardown"}
Nest(s) == Cardinality(Frames(s))

LEMMA NestNone ==
    ASSUME NEW S, NEW s \in Seq(S), \A i \in 1..Len(s) : s[i] # "teardown"
    PROVE  Nest(s) = 0
<1>1. Frames(s) = {}
  BY DEF Frames
<1>2. QED BY <1>1, FS_EmptySet DEF Nest

LEMMA NestType ==
    ASSUME NEW S, NEW s \in Seq(S)
    PROVE  IsFiniteSet(Frames(s)) /\ Nest(s) \in Nat
<1>1. DOMAIN s = 1..Len(s) /\ IsFiniteSet(1..Len(s))
  BY FS_Interval
<1>2. Frames(s) \in SUBSET (1..Len(s))
  BY <1>1 DEF Frames
<1>3. IsFiniteSet(Frames(s))
  BY <1>1, <1>2, FS_Subset
<1>4. QED BY <1>3, FS_CardinalityType DEF Nest

\* Frames that map into those of another sequence, each to its own, are no more.
LEMMA NestMaps ==
    ASSUME NEW S, NEW s \in Seq(S), NEW F, NEW d \in Int, F \subseteq Int,
           \A i \in F : i + d \in 1..Len(s) /\ s[i + d] = "teardown"
    PROVE  IsFiniteSet(F) /\ Cardinality(F) <= Nest(s)
<1> DEFINE f == [i \in F |-> i + d]
<1>1. f \in Injection(F, Frames(s))
  <2>1. DOMAIN s = 1..Len(s)
    OBVIOUS
  <2>2. f \in [F -> Frames(s)]
    BY <2>1 DEF Frames
  <2>3. \A i, j \in F : f[i] = f[j] => i = j
    OBVIOUS
  <2>4. QED BY <2>2, <2>3 DEF Injection, IsInjective
<1>2. IsFiniteSet(Frames(s))
  BY NestType
<1>3. QED BY <1>1, <1>2, FS_Injection DEF Nest

LEMMA NestTail ==
    ASSUME NEW S, NEW s \in Seq(S), s # <<>>
    PROVE  Nest(Tail(s)) <= Nest(s)
<1>1. /\ Tail(s) \in Seq(S) /\ DOMAIN Tail(s) = 1..Len(Tail(s))
      /\ \A i \in 1..Len(Tail(s)) : Tail(s)[i] = s[i + 1] /\ i + 1 \in 1..Len(s)
  BY TailIs
<1>2. PICK d \in Int : d = 1
  OBVIOUS
<1>3. PICK F : F = Frames(Tail(s))
  OBVIOUS
<1>4. F \subseteq Int /\ \A i \in F : i + d \in 1..Len(s) /\ s[i + d] = "teardown"
  BY <1>1, <1>2, <1>3 DEF Frames
<1>5. Cardinality(F) <= Nest(s)
  BY <1>4, NestMaps
<1>6. QED BY <1>3, <1>5 DEF Nest

LEMMA NestPutHead ==
    ASSUME NEW S, NEW s \in Seq(S), s # <<>>, NEW x \in S
    PROVE  /\ x # "teardown" => Nest(<<x>> \o Tail(s)) <= Nest(s)
           /\ Nest(<<x>> \o Tail(s)) <= Nest(s) + 1
<1> DEFINE r == <<x>> \o Tail(s)
<1>1. /\ r \in Seq(S) /\ DOMAIN r = 1..Len(r) /\ Len(r) = Len(s) /\ r[1] = x
      /\ \A i \in 2..Len(s) : r[i] = s[i]
  BY PutHead
<1> HIDE DEF r
<1> DEFINE F == Frames(r) \ {1}
<1>2. PICK d \in Int : d = 0
  OBVIOUS
<1>3. IsFiniteSet(F) /\ Cardinality(F) <= Nest(s) /\ IsFiniteSet(Frames(r)) /\ Nest(s) \in Nat
      /\ Nest(r) \in Nat
  <2>1. F \subseteq Int /\ \A i \in F : i + d \in 1..Len(s) /\ s[i + d] = "teardown"
    BY <1>1, <1>2 DEF Frames
  <2> HIDE DEF F
  <2>2. QED BY <1>1, <2>1, NestMaps, NestType
<1>4. Cardinality(F) = IF 1 \in Frames(r) THEN Nest(r) - 1 ELSE Nest(r)
  BY <1>3, FS_RemoveElement DEF Nest
<1>5. x # "teardown" => 1 \notin Frames(r)
  BY <1>1 DEF Frames
<1>6. Nest(r) <= Nest(s) + 1 /\ (x # "teardown" => Nest(r) <= Nest(s))
  BY <1>3, <1>4, <1>5
<1>7. QED BY <1>6 DEF r

LEMMA NestPutThree ==
    ASSUME NEW S, NEW s \in Seq(S), s # <<>>, NEW x \in S, NEW y \in S, NEW z \in S,
           x # "teardown", y # "teardown"
    PROVE  Nest(<<x, y, z>> \o Tail(s)) <= Nest(s) + 1
<1>1. PICK r : r = <<x, y, z>> \o Tail(s)
  OBVIOUS
<1>2. /\ r \in Seq(S) /\ DOMAIN r = 1..Len(r) /\ Len(r) = Len(s) + 2 /\ r[1] = x /\ r[2] = y
      /\ \A i \in 4..Len(r) : r[i] = s[i - 2] /\ i - 2 \in 2..Len(s)
  BY <1>1, PutThree
<1> DEFINE F == Frames(r) \ {3}
<1>3. \A i \in F : i \in 4..Len(r)
  BY <1>2 DEF Frames
<1>4. -2 \in Int /\ F \subseteq Int /\ \A i \in F : i + -2 \in 1..Len(s) /\ s[i + -2] = "teardown"
  BY <1>2, <1>3 DEF Frames
<1>5. IsFiniteSet(F) /\ Cardinality(F) <= Nest(s) /\ IsFiniteSet(Frames(r)) /\ Nest(s) \in Nat
      /\ Nest(r) \in Nat
  BY <1>2, <1>4, NestMaps, NestType
<1>6. Cardinality(F) = IF 3 \in Frames(r) THEN Nest(r) - 1 ELSE Nest(r)
  BY <1>5, FS_RemoveElement DEF Nest
<1>7. QED BY <1>1, <1>5, <1>6

-----------------------------------------------------------------------------
\* Inv holds initially, and every step keeps it.

LEMMA InvInit == Init => Inv
<1> SUFFICES ASSUME Init PROVE Inv
  OBVIOUS
<1> USE DEF Init
<1>1. Types
  <2>1. /\ <<>> \in Seq(Ops) /\ <<>> \in Seq([name: Queued, num: Nat \ {0}]) /\ <<>> \in Seq(Messages)
        /\ {} \subseteq Calls
    OBVIOUS
  <2>2. QED BY <2>1 DEF Types
<1>2. Shape /\ Places /\ Publishing /\ Numbers
  BY DEF Shape, Places, Publishing, Numbers, Told, Open
<1>3. NestingOK
  <2>1. todo \in Seq(Ops) /\ \A i \in 1..Len(todo) : todo[i] # "teardown"
    BY <1>1 DEF Types
  <2>2. Nest(todo) = 0
    BY <2>1, NestNone
  <2>3. QED BY <2>2, SessionAssumption DEF NestingOK, Nesting, Nest, Frames
<1>4. QED BY <1>1, <1>2, <1>3 DEF Inv

\* The head of todo, as Shape has it.
LEMMA HeadShape ==
    ASSUME Types, Shape, todo # <<>>
    PROVE  /\ todo[1] = "FCUnpublish" => 2 \in 1..Len(todo) /\ todo[2] = "deleteStream"
           /\ todo[1] = "deleteStream" => 2 \in 1..Len(todo) /\ todo[2] = "teardown"
           /\ todo[1] = "publish" => Len(todo) = 1
<1>1. Len(todo) \in Nat \ {0}
  <2>1. todo \in Seq(Ops)
    BY DEF Types
  <2>2. QED BY <2>1, TailIs
<1>2. PICK i \in 1..Len(todo) : i = 1
  BY <1>1
<1>3. PICK j : j = i + 1
  OBVIOUS
<1>4. /\ todo[i] = "FCUnpublish" => i < Len(todo) /\ todo[j] = "deleteStream"
      /\ todo[i] = "deleteStream" => i < Len(todo) /\ todo[j] = "teardown"
      /\ todo[i] = "publish" => Len(todo) = 1
  BY <1>3 DEF Shape
<1>5. j = 2
  BY <1>2, <1>3
<1>6. QED BY <1>1, <1>2, <1>4, <1>5

\* The numbers of the calls and of the messages are numbers.
LEMMA NumTypes ==
    ASSUME Types
    PROVE  /\ \A i \in 1..Len(methodCalls) : methodCalls[i].num \in Nat \ {0} /\ methodCalls[i].name \in Queued
           /\ \A i \in 1..Len(inbox) : inbox[i] \in Messages /\ inbox[i].num \in Nat
           /\ \A c \in calls : c.num \in Nat \ {0} /\ c.name \in Answered
<1>1. \A i \in 1..Len(methodCalls) : methodCalls[i] \in [name: Queued, num: Nat \ {0}]
  <2>1. methodCalls \in Seq([name: Queued, num: Nat \ {0}])
    BY DEF Types
  <2>2. QED BY <2>1, ElementsAre
<1>2. \A i \in 1..Len(inbox) : inbox[i] \in Messages
  BY DEF Types
<1>3. \A c \in calls : c \in [name: Answered, num: Nat \ {0}]
  BY DEF Types, Calls
<1>4. \A i \in 1..Len(inbox) : inbox[i].num \in Nat
  BY <1>2 DEF Messages
<1>5. QED BY <1>1, <1>2, <1>3, <1>4

\* Nesting, for the lemmas on sequences.
LEMMA NestingIs == Nesting = Nest(todo)
BY DEF Nesting, Nest, Frames

\* A packet that cannot be written: RTMP_Close is called.
LEMMA SendFails ==
    ASSUME Inv, todo # <<>>, Head(todo) \notin {"RTMP_Close", "teardown"}, SendInvoke(Head(todo)),
           streamId' = IF Head(todo) = "deleteStream" THEN 0 ELSE streamId,
           ~WriteOk, todo' = <<"RTMP_Close">> \o Tail(todo),
           UNCHANGED <<methodCalls, server, at, connected, playing, link, inbox>>
    PROVE  Inv'
<1>1. Types
  BY DEF Inv
<1>2. /\ todo \in Seq(Ops) /\ "RTMP_Close" \in Ops /\ Len(todo) \in Nat \ {0}
      /\ todo' \in Seq(Ops) /\ Len(todo') = Len(todo) /\ todo'[1] = "RTMP_Close" /\ todo' # <<>>
      /\ \A i \in 2..Len(todo) : todo'[i] = todo[i]
  <2>1. todo \in Seq(Ops) /\ "RTMP_Close" \in Ops
    BY <1>1 DEF Types, Ops
  <2>2. QED BY <2>1, PutHead
<1>3. numInvokes' \in Nat /\ numInvokes' >= numInvokes /\ numInvokes \in Nat
  BY <1>1 DEF Types, SendInvoke
<1>4. Types'
  BY <1>1, <1>2, <1>3 DEF Types, server
<1>5. Closing'
  BY <1>2 DEF Closing
<1>6. Shape'
  <2>1. ASSUME NEW i \in 1..Len(todo')
        PROVE /\ todo'[i] = "FCUnpublish" => i < Len(todo') /\ todo'[i + 1] = "deleteStream"
              /\ todo'[i] = "deleteStream" => i < Len(todo') /\ todo'[i + 1] = "teardown"
              /\ todo'[i] = "publish" => Len(todo') = 1
    <3>1. CASE i = 1
      BY <1>2, <3>1
    <3>2. CASE i # 1
      <4>1. i \in 2..Len(todo) /\ todo'[i] = todo[i] /\ (i < Len(todo) => todo'[i + 1] = todo[i + 1])
        BY <1>2, <3>2
      <4>2. QED BY <4>1, <1>2 DEF Inv, Shape
    <3>3. QED BY <3>1, <3>2
  <2>2. ~(link' = "up" /\ connected')
    BY DEF WriteOk
  <2>3. QED BY <2>1, <2>2 DEF Shape
<1>7. Places'
  BY <1>2, <1>5 DEF Inv, Places, server
<1>8. Publishing'
  BY <1>5 DEF Inv, Publishing, Open, WriteOk, server
<1>9. Numbers'
  <2>1. \A n \in Nat : n <= numInvokes => n <= numInvokes'
    BY <1>3
  <2>2. /\ \A i \in 1..Len(methodCalls) : methodCalls[i].num \in Nat
        /\ \A i \in 1..Len(inbox) : inbox[i].num \in Nat
        /\ \A c \in calls : c.num \in Nat
    BY <1>1, NumTypes
  <2>3. QED BY <2>1, <2>2 DEF Inv, Numbers, server
<1>10. NestingOK'
  <2>1. Nest(todo') <= Nest(todo)
    <3>1. PICK x \in Ops : x = "RTMP_Close"
      BY <1>2
    <3>2. Nest(<<x>> \o Tail(todo)) <= Nest(todo)
      BY <1>2, <3>1, NestPutHead
    <3>3. QED BY <3>1, <3>2
  <2>2. Nest(todo) \in Nat /\ Nest(todo') \in Nat
    BY <1>2, NestType
  <2>3. Nest(todo) <= MaxNest
    BY NestingIs DEF Inv, NestingOK
  <2>4. Nest(todo') <= MaxNest
    BY <2>1, <2>2, <2>3, SessionAssumption
  <2>5. QED BY <2>4 DEF NestingOK, Nesting, Nest, Frames
<1>11. QED BY <1>4, <1>6, <1>7, <1>8, <1>9, <1>10 DEF Inv

\* A packet that is written.
LEMMA SendWorks ==
    ASSUME Inv, todo # <<>>, Head(todo) \notin {"RTMP_Close", "teardown"}, SendInvoke(Head(todo)),
           streamId' = IF Head(todo) = "deleteStream" THEN 0 ELSE streamId,
           WriteOk, AV_queue(Head(todo)), Receive(Head(todo)), todo' = Tail(todo),
           UNCHANGED <<at, connected, playing, link, inbox>>
    PROVE  Inv'
<1>1. Types
  BY DEF Inv
<1>2. PICK h : h = Head(todo)
  OBVIOUS
<1>3. /\ todo \in Seq(Ops) /\ Len(todo) \in Nat \ {0} /\ todo' \in Seq(Ops) /\ Len(todo') = Len(todo) - 1
      /\ h = todo[1] /\ h \in Ops /\ 1 \in 1..Len(todo)
      /\ \A i \in 1..Len(todo') : todo'[i] = todo[i + 1] /\ i + 1 \in 1..Len(todo)
  <2>1. todo \in Seq(Ops)
    BY <1>1 DEF Types
  <2>2. QED BY <1>2, <2>1, TailIs
<1>4. /\ numInvokes' \in Nat /\ numInvokes \in Nat /\ numInvokes' >= numInvokes
      /\ h \in Answered => numInvokes' = numInvokes + 1
  BY <1>1, <1>2 DEF Types, SendInvoke, Answered, Invokes
<1>5. PICK n \in Nat : n = numInvokes'
  BY <1>4
<1> DEFINE c0 == [name |-> h, num |-> n]
<1>6. /\ calls' = IF link = "up" /\ h \in Answered THEN calls \union {c0} ELSE calls
      /\ stream' = IF link # "up" \/ stream = "refused" THEN stream
                   ELSE CASE h = "publish" -> "published"
                          [] h = "deleteStream" -> "deleted"
                          [] OTHER -> stream
      /\ methodCalls' = IF h \in Queued THEN Append(methodCalls, c0) ELSE methodCalls
      /\ streamId' = IF h = "deleteStream" THEN 0 ELSE streamId
      /\ h \notin {"RTMP_Close", "teardown"} /\ connected /\ link # "dead"
  BY <1>2, <1>5 DEF Receive, AV_queue, WriteOk
<1>7. h \in Queued => h \in Answered /\ c0 \in [name: Queued, num: Nat \ {0}]
  BY <1>4, <1>5 DEF Queued, Answered
<1>8. h \in Answered => c0 \in Calls /\ n = numInvokes + 1
  BY <1>4, <1>5 DEF Calls
<1>9. methodCalls \in Seq([name: Queued, num: Nat \ {0}])
  BY <1>1 DEF Types
<1>10. /\ methodCalls' \in Seq([name: Queued, num: Nat \ {0}])
       /\ \A i \in 1..Len(methodCalls') : \/ i \in 1..Len(methodCalls) /\ methodCalls'[i] = methodCalls[i]
                                          \/ h \in Queued /\ methodCalls'[i] = c0
  <2> HIDE DEF c0
  <2>1. CASE h \in Queued
    <3>1. methodCalls' = Append(methodCalls, c0) /\ c0 \in [name: Queued, num: Nat \ {0}]
      BY <1>6, <1>7, <2>1
    <3>2. QED BY <1>9, <2>1, <3>1
  <2>2. CASE h \notin Queued
    BY <1>6, <1>9, <2>2
  <2>3. QED BY <2>1, <2>2
<1>11. \A c \in calls' : c \in calls \/ (h \in Answered /\ c = c0)
  BY <1>6
<1>12. Types'
  <2>1. calls' \subseteq Calls
    BY <1>1, <1>8, <1>11 DEF Types
  <2>2. stream' \in {"none", "published", "deleted", "refused"}
    BY <1>1, <1>6 DEF Types
  <2>3. streamId' \in {-1, 0, 1}
    BY <1>1, <1>6 DEF Types
  <2>4. QED BY <1>1, <1>3, <1>4, <1>10, <2>1, <2>2, <2>3 DEF Types
<1>13. Closing' <=> Closing
  <2>1. ASSUME NEW i \in 1..Len(todo), todo[i] \in {"RTMP_Close", "teardown"} PROVE Closing'
    <3>1. i # 1
      BY <1>3, <1>6, <2>1
    <3>2. i - 1 \in 1..Len(todo') /\ (i - 1) + 1 = i
      BY <1>3, <3>1
    <3>3. todo'[i - 1] = todo[i]
      BY <1>3, <3>2
    <3>4. QED BY <2>1, <3>2, <3>3 DEF Closing
  <2>2. Closing' => Closing
    BY <1>3 DEF Closing
  <2>3. QED BY <2>1, <2>2 DEF Closing
<1>14. Shape'
  <2>1. ASSUME NEW i \in 1..Len(todo')
        PROVE /\ todo'[i] = "FCUnpublish" => i < Len(todo') /\ todo'[i + 1] = "deleteStream"
              /\ todo'[i] = "deleteStream" => i < Len(todo') /\ todo'[i + 1] = "teardown"
              /\ todo'[i] = "publish" => Len(todo') = 1
    <3>1. PICK j \in 1..Len(todo) : j = i + 1 /\ todo'[i] = todo[j]
      BY <1>3
    <3>2. /\ todo[j] = "FCUnpublish" => j < Len(todo) /\ todo[j + 1] = "deleteStream"
          /\ todo[j] = "deleteStream" => j < Len(todo) /\ todo[j + 1] = "teardown"
          /\ todo[j] = "publish" => Len(todo) = 1
      BY DEF Inv, Shape
    <3>3. j < Len(todo) => i < Len(todo') /\ todo'[i + 1] = todo[j + 1]
      BY <1>3, <3>1
    <3>4. Len(todo) # 1
      BY <1>3, <3>1
    <3>5. QED BY <3>1, <3>2, <3>3, <3>4
  <2>2. ASSUME link' = "up", connected', NEW i \in 1..Len(todo'), todo'[i] \in Goodbye
        PROVE  todo'[1] \in Goodbye
    <3>1. todo[i + 1] \in Goodbye /\ i + 1 \in 1..Len(todo) /\ Len(todo) > 1 /\ todo'[1] = todo[2]
      BY <1>3, <2>2
    <3>2. h \in Goodbye
      BY <1>3, <2>2, <3>1 DEF Inv, Shape
    <3>3. h = "FCUnpublish" => todo[2] = "deleteStream"
      BY <1>3, HeadShape DEF Inv
    <3>4. h = "deleteStream" => todo[2] = "teardown"
      BY <1>3, HeadShape DEF Inv
    <3>5. QED BY <1>6, <3>1, <3>2, <3>3, <3>4 DEF Goodbye
  <2>3. QED BY <2>1, <2>2 DEF Shape
<1>15. Places'
  <2>1. at # "connect" /\ at # "freed"
    BY DEF Inv, Places
  <2>2. QED BY <1>6, <1>13, <2>1 DEF Inv, Places
<1>16. Publishing'
  <2>1. h = "publish" => ~Closing /\ streamId = 1 /\ Len(todo) = 1
    <3>1. ASSUME h = "publish" PROVE Len(todo) = 1
      BY <1>3, <3>1 DEF Inv, Shape
    <3>2. ASSUME h = "publish" PROVE ~Closing
      BY <1>3, <1>6, <3>1, <3>2 DEF Closing
    <3>3. QED BY <1>3, <1>6, <3>1, <3>2 DEF Inv, Publishing, Open
  <2>2. h = "publish" => Told'
    BY <1>6, <2>1 DEF Told
  <2>3. h \in {"FCUnpublish", "deleteStream"} => Closing
    <3>1. h = "FCUnpublish" => 2 \in 1..Len(todo) /\ todo[2] = "deleteStream"
      BY <1>3, HeadShape DEF Inv
    <3>2. \A i \in 1..Len(todo) : todo[i] = "deleteStream" => i + 1 \in 1..Len(todo) /\ todo[i + 1] = "teardown"
      BY <1>3 DEF Inv, Shape
    <3>3. QED BY <1>3, <3>1, <3>2 DEF Closing
  <2>4. ASSUME Open'
        PROVE  /\ playing' => Told'
               /\ \A i \in 1..Len(methodCalls') : methodCalls'[i].name = "publish" => Told'
               /\ \A c \in calls' : c.name = "publish" => Told'
               /\ \A i \in 1..Len(inbox') : inbox'[i].kind = "publishStart" => Told'
               /\ \A i \in 1..Len(todo') : todo'[i] = "publish" => streamId' = 1
               /\ stream' # "deleted"
    <3>1. Open /\ h # "deleteStream" /\ streamId' = streamId
      BY <1>6, <1>13, <2>3, <2>4 DEF Open
    <3>2. stream' = stream \/ (h = "publish" /\ stream' = "published")
      <4>1. CASE link # "up" \/ stream = "refused"
        BY <1>6, <4>1
      <4>2. CASE link = "up" /\ stream # "refused" /\ h = "publish"
        BY <1>6, <4>2
      <4>3. CASE link = "up" /\ stream # "refused" /\ h # "publish"
        BY <1>6, <3>1, <4>3
      <4>4. QED BY <4>1, <4>2, <4>3
    <3>3. Told => Told'
      BY <2>2, <3>1, <3>2 DEF Told
    <3>4. \A i \in 1..Len(methodCalls') : methodCalls'[i].name = "publish" => Told'
      <4>1. \A i \in 1..Len(methodCalls) : methodCalls[i].name = "publish" => Told
        BY <3>1 DEF Inv, Publishing
      <4>2. c0.name = h
        OBVIOUS
      <4> HIDE DEF c0
      <4>3. QED BY <1>10, <2>2, <3>3, <4>1, <4>2
    <3>5. \A c \in calls' : c.name = "publish" => Told'
      BY <1>11, <2>2, <3>1, <3>3 DEF Inv, Publishing
    <3>6. \A i \in 1..Len(todo') : todo'[i] = "publish" => streamId' = 1
      BY <1>3, <3>1 DEF Inv, Publishing
    <3>7. QED BY <3>1, <3>2, <3>3, <3>4, <3>5, <3>6 DEF Inv, Publishing
  <2>5. \A i \in 1..Len(inbox') : inbox'[i].kind = "failed" => stream' = "refused"
    <3>1. stream = "refused" => stream' = "refused"
      BY <1>6
    <3>2. QED BY <3>1 DEF Inv, Publishing
  <2>6. ASSUME link' = "up", stream' = "published"
        PROVE  connected' /\ streamId' = 1 /\ (todo' # <<>> => todo'[1] # "teardown")
    <3>1. CASE h = "publish"
      BY <1>3, <1>6, <2>1, <3>1
    <3>2. CASE h # "publish"
      <4>1. stream = "published" /\ h # "deleteStream"
        BY <1>6, <2>6, <3>2
      <4>2. connected /\ streamId = 1 /\ streamId' = 1
        BY <1>6, <2>6, <4>1 DEF Inv, Publishing
      <4>3. ASSUME todo' # <<>> PROVE todo'[1] # "teardown"
        <5>1. 2 \in 1..Len(todo) /\ todo'[1] = todo[2] /\ todo[1] = h
          BY <1>3, <4>3
        <5>2. h = "FCUnpublish" => todo[2] = "deleteStream"
          BY <1>3, HeadShape DEF Inv
        <5>3. h \notin Goodbye => todo[2] \notin Goodbye
          BY <5>1, <4>2, <2>6 DEF Inv, Shape
        <5>4. QED BY <1>6, <4>1, <5>1, <5>2, <5>3 DEF Goodbye
      <4>4. QED BY <4>2, <4>3
    <3>3. QED BY <3>1, <3>2
  <2>7. QED BY <2>4, <2>5, <2>6 DEF Publishing
<1>17. Numbers'
  <2>1. \A m \in Nat : m <= numInvokes => m <= n
    BY <1>4, <1>5
  <2>2. /\ \A i \in 1..Len(methodCalls) : methodCalls[i].num \in Nat
        /\ \A i \in 1..Len(inbox) : inbox[i].num \in Nat
        /\ \A c \in calls : c.num \in Nat
    BY <1>1, NumTypes
  <2>3. c0.num = n /\ c0.name = h /\ (h \in Queued => h \in Answered)
    BY DEF Queued, Answered
  <2>4. /\ \A i \in 1..Len(methodCalls) : methodCalls[i].num <= numInvokes
        /\ \A i \in 1..Len(inbox) : inbox[i].kind = "_result" => inbox[i].num <= numInvokes
        /\ \A c \in calls : c.num <= numInvokes
    BY <1>6 DEF Inv, Numbers
  <2>5. h \in Answered => /\ \A i \in 1..Len(methodCalls) : methodCalls[i].num # n
                          /\ \A i \in 1..Len(inbox) : inbox[i].kind = "_result" => inbox[i].num # n
                          /\ \A c \in calls : c.num # n
    BY <1>4, <1>8, <2>2, <2>4
  <2> HIDE DEF c0
  <2>6. \A i \in 1..Len(methodCalls') : methodCalls'[i].num <= n
    BY <1>5, <1>10, <2>1, <2>2, <2>3, <2>4
  <2>7. \A c \in calls' : c.num <= n
    BY <1>5, <1>11, <2>1, <2>2, <2>3, <2>4
  <2>8. \A i \in 1..Len(inbox') : inbox'[i].kind = "_result" => inbox'[i].num <= n
    BY <2>1, <2>2, <2>4
  <2>9. \A c, d \in calls' : c.num = d.num => c = d
    BY <1>6, <1>11, <2>3, <2>5 DEF Inv, Numbers
  <2>10. \A i \in 1..Len(inbox') : inbox'[i].kind = "_result" => \A c \in calls' : inbox'[i].num # c.num
    BY <1>6, <1>11, <2>3, <2>5 DEF Inv, Numbers
  <2>11. \A i \in 1..Len(inbox') : inbox'[i].kind = "_result" => \A j \in 1..Len(methodCalls') :
             inbox'[i].num = methodCalls'[j].num => inbox'[i].for = methodCalls'[j].name
    <3>1. \A i \in 1..Len(inbox) : inbox[i].kind = "_result" => \A j \in 1..Len(methodCalls) :
             inbox[i].num = methodCalls[j].num => inbox[i].for = methodCalls[j].name
      BY <1>6 DEF Inv, Numbers
    <3>2. ASSUME NEW i \in 1..Len(inbox), inbox[i].kind = "_result", NEW j \in 1..Len(methodCalls'),
                 inbox[i].num = methodCalls'[j].num
          PROVE  inbox[i].for = methodCalls'[j].name
      <4>1. CASE j \in 1..Len(methodCalls) /\ methodCalls'[j] = methodCalls[j]
        BY <3>1, <3>2, <4>1
      <4>2. CASE h \in Queued /\ methodCalls'[j] = c0
        BY <2>3, <2>5, <3>2, <4>2
      <4>3. QED BY <1>10, <4>1, <4>2
    <3>3. QED BY <3>2
  <2>12. \A c \in calls' : \A j \in 1..Len(methodCalls') : c.num = methodCalls'[j].num => c.name = methodCalls'[j].name
    <3>1. \A c \in calls : \A j \in 1..Len(methodCalls) : c.num = methodCalls[j].num => c.name = methodCalls[j].name
      BY <1>6 DEF Inv, Numbers
    <3>2. ASSUME NEW c \in calls', NEW j \in 1..Len(methodCalls'), c.num = methodCalls'[j].num
          PROVE  c.name = methodCalls'[j].name
      <4>1. CASE j \in 1..Len(methodCalls) /\ methodCalls'[j] = methodCalls[j]
        <5>1. CASE c \in calls
          BY <3>1, <3>2, <4>1, <5>1
        <5>2. CASE h \in Answered /\ c = c0
          BY <2>3, <2>5, <3>2, <4>1, <5>2
        <5>3. QED BY <1>11, <5>1, <5>2
      <4>2. CASE h \in Queued /\ methodCalls'[j] = c0
        BY <1>11, <2>3, <2>5, <3>2, <4>2
      <4>3. QED BY <1>10, <4>1, <4>2
    <3>3. QED BY <3>2
  <2>13. QED BY <1>5, <2>6, <2>7, <2>8, <2>9, <2>10, <2>11, <2>12 DEF Numbers
<1>18. NestingOK'
  <2>1. Nest(todo') <= Nest(todo)
    BY <1>3, NestTail
  <2>2. Nest(todo) \in Nat /\ Nest(todo') \in Nat
    BY <1>3, NestType
  <2>3. Nest(todo) <= MaxNest
    BY NestingIs DEF Inv, NestingOK
  <2>4. Nest(todo') <= MaxNest
    BY <2>1, <2>2, <2>3, SessionAssumption
  <2>5. QED BY <2>4 DEF NestingOK, Nesting, Nest, Frames
<1>19. QED BY <1>12, <1>14, <1>15, <1>16, <1>17, <1>18 DEF Inv

\* The rest of a well-shaped todo is well shaped.
LEMMA TailShape ==
    ASSUME Types, Shape, todo # <<>>, todo' = Tail(todo),
           NEW i \in 1..Len(todo')
    PROVE  /\ todo'[i] = "FCUnpublish" => i < Len(todo') /\ todo'[i + 1] = "deleteStream"
           /\ todo'[i] = "deleteStream" => i < Len(todo') /\ todo'[i + 1] = "teardown"
           /\ todo'[i] = "publish" => Len(todo') = 1
<1>1. /\ Len(todo) \in Nat \ {0} /\ Len(todo') = Len(todo) - 1
      /\ \A k \in 1..Len(todo') : todo'[k] = todo[k + 1] /\ k + 1 \in 1..Len(todo)
  <2>1. todo \in Seq(Ops)
    BY DEF Types
  <2>2. QED BY <2>1, TailIs
<1>2. PICK j \in 1..Len(todo) : j = i + 1 /\ todo'[i] = todo[j]
  BY <1>1
<1>3. /\ todo[j] = "FCUnpublish" => j < Len(todo) /\ todo[j + 1] = "deleteStream"
      /\ todo[j] = "deleteStream" => j < Len(todo) /\ todo[j + 1] = "teardown"
      /\ todo[j] = "publish" => Len(todo) = 1
  BY DEF Shape
<1>4. j < Len(todo) => i < Len(todo') /\ todo'[i + 1] = todo[j + 1]
  BY <1>1, <1>2
<1>5. Len(todo) # 1
  BY <1>1, <1>2
<1>6. QED BY <1>2, <1>3, <1>4, <1>5

\* Steps that change what is to be done, and where threadRun is, and nothing else.
LEMMA TodoMoves ==
    ASSUME Inv, UNCHANGED <<client, link, inbox, server>>,
           at' \in {"connect", "connected", "stream", "pushing", "closing", "freed"},
           todo' \in Seq(Ops), Shape', Places', Nest(todo') <= MaxNest,
           Open' => Open /\ \A i \in 1..Len(todo') : todo'[i] = "publish" => streamId = 1,
           link = "up" /\ stream = "published" /\ todo' # <<>> => todo'[1] # "teardown"
    PROVE  Inv'
<1>1. Types'
  BY DEF Inv, Types, client, server
<1>2. Publishing'
  <2>1. Told' <=> Told
    BY DEF Told, client, server
  <2>2. QED BY <2>1 DEF Inv, Publishing, client, server
<1>3. Numbers'
  BY DEF Inv, Numbers, client, server
<1>4. NestingOK'
  BY DEF NestingOK, Nesting, Nest, Frames
<1>5. QED BY <1>1, <1>2, <1>3, <1>4 DEF Inv

\* RTMP_Close is entered.
LEMMA CloseBegins == ASSUME Inv, RTMP_CloseBegin PROVE Inv'
<1>1. CASE UNCHANGED todo
  <2>1. UNCHANGED <<at, todo, client, link, inbox, server>>
    BY <1>1 DEF RTMP_CloseBegin
  <2>2. QED BY <2>1 DEF Inv, Types, Shape, Places, Publishing, Numbers, NestingOK, Nesting, Open, Closing, Told, client, server
<1>2. ASSUME Nesting < MaxNest,
             todo' = (IF connected /\ streamId > 0 THEN <<"FCUnpublish", "deleteStream", "teardown">>
                      ELSE <<"teardown">>) \o Tail(todo)
      PROVE  Inv'
  <2>1. todo \in Seq(Ops) /\ todo # <<>> /\ Head(todo) = "RTMP_Close" /\ UNCHANGED <<at, client, link, inbox, server>>
    BY DEF RTMP_CloseBegin, Inv, Types
  <2>2. Len(todo) \in Nat \ {0} /\ todo[1] = "RTMP_Close"
    BY <2>1, TailIs
  <2>3. "FCUnpublish" \in Ops /\ "deleteStream" \in Ops /\ "teardown" \in Ops
    BY DEF Ops, Invokes
  <2>4. Nest(todo) \in Nat /\ Nest(todo) + 1 <= MaxNest
    <3>1. Nest(todo) \in Nat
      BY <2>1, NestType
    <3>2. Nest(todo) < MaxNest
      BY <1>2, NestingIs
    <3>3. QED BY <3>1, <3>2, SessionAssumption
  <2>5. \A j \in 2..Len(todo) : todo[j] # "publish"
    <3>1. ASSUME NEW j \in 2..Len(todo), todo[j] = "publish" PROVE FALSE
      <4>1. j \in 1..Len(todo)
        BY <2>2
      <4>2. Len(todo) = 1
        BY <3>1, <4>1 DEF Inv, Shape
      <4>3. QED BY <4>2
    <3>2. QED BY <3>1
  <2>6. at' \in {"connect", "connected", "stream", "pushing", "closing", "freed"}
    BY <2>1 DEF Inv, Types
  <2>7. CASE connected /\ streamId > 0
    <3>1. todo' = <<"FCUnpublish", "deleteStream", "teardown">> \o Tail(todo)
      BY <1>2, <2>7
    <3>2. /\ todo' \in Seq(Ops) /\ Len(todo') = Len(todo) + 2
          /\ todo'[1] = "FCUnpublish" /\ todo'[2] = "deleteStream" /\ todo'[3] = "teardown"
          /\ \A i \in 4..Len(todo') : todo'[i] = todo[i - 2] /\ i - 2 \in 2..Len(todo)
      BY <2>1, <2>3, <3>1, PutThree
    <3>3. ASSUME NEW i \in 1..Len(todo')
          PROVE /\ todo'[i] = "FCUnpublish" => i < Len(todo') /\ todo'[i + 1] = "deleteStream"
                /\ todo'[i] = "deleteStream" => i < Len(todo') /\ todo'[i + 1] = "teardown"
                /\ todo'[i] # "publish"
      <4>1. CASE i \in 1..3
        BY <2>2, <3>2, <4>1
      <4>2. CASE i \in 4..Len(todo')
        <5>1. PICK j \in 2..Len(todo) : j = i - 2 /\ todo'[i] = todo[j]
          BY <3>2, <4>2
        <5>2. j \in 1..Len(todo)
          BY <2>2
        <5>3. /\ todo[j] = "FCUnpublish" => j < Len(todo) /\ todo[j + 1] = "deleteStream"
              /\ todo[j] = "deleteStream" => j < Len(todo) /\ todo[j + 1] = "teardown"
          BY <5>2 DEF Inv, Shape
        <5>4. j < Len(todo) => i < Len(todo') /\ todo'[i + 1] = todo[j + 1]
          <6>1. ASSUME j < Len(todo) PROVE i < Len(todo') /\ i + 1 \in 4..Len(todo') /\ (i + 1) - 2 = j + 1
            BY <2>2, <3>2, <4>2, <5>1, <6>1
          <6>2. QED BY <3>2, <6>1
        <5>5. QED BY <2>5, <5>1, <5>3, <5>4
      <4>3. QED BY <3>2, <4>1, <4>2
    <3>4. Shape'
      BY <3>2, <3>3 DEF Shape, Goodbye
    <3>5. Closing'
      BY <2>2, <3>2 DEF Closing
    <3>6. Places'
      BY <2>1, <3>5 DEF Inv, Places, client, server
    <3>7. Nest(todo') <= MaxNest
      <4>1. Nest(<<"FCUnpublish", "deleteStream", "teardown">> \o Tail(todo)) <= Nest(todo) + 1
        BY <2>1, <2>3, NestPutThree
      <4>2. Nest(todo') \in Nat
        BY <3>2, NestType
      <4>3. QED BY <2>4, <3>1, <4>1, <4>2, SessionAssumption
    <3>8. QED BY <2>1, <2>6, <3>2, <3>4, <3>5, <3>6, <3>7, TodoMoves DEF Open
  <2>8. CASE ~(connected /\ streamId > 0)
    <3>1. todo' = <<"teardown">> \o Tail(todo)
      BY <1>2, <2>8
    <3>2. /\ todo' \in Seq(Ops) /\ Len(todo') = Len(todo) /\ todo'[1] = "teardown"
          /\ \A i \in 2..Len(todo) : todo'[i] = todo[i]
      BY <2>1, <2>3, <3>1, PutHead
    <3>3. ASSUME NEW i \in 1..Len(todo')
          PROVE /\ todo'[i] = "FCUnpublish" => i < Len(todo') /\ todo'[i + 1] = "deleteStream"
                /\ todo'[i] = "deleteStream" => i < Len(todo') /\ todo'[i + 1] = "teardown"
                /\ todo'[i] # "publish"
      <4>1. CASE i = 1
        BY <3>2, <4>1
      <4>2. CASE i # 1
        <5>1. i \in 2..Len(todo) /\ todo'[i] = todo[i] /\ (i < Len(todo) => todo'[i + 1] = todo[i + 1])
          BY <2>2, <3>2, <4>2
        <5>2. i \in 1..Len(todo)
          BY <3>2
        <5>3. /\ todo[i] = "FCUnpublish" => i < Len(todo) /\ todo[i + 1] = "deleteStream"
              /\ todo[i] = "deleteStream" => i < Len(todo) /\ todo[i + 1] = "teardown"
          BY <5>2 DEF Inv, Shape
        <5>4. QED BY <2>5, <3>2, <5>1, <5>3
      <4>3. QED BY <4>1, <4>2
    <3>4. Shape'
      BY <3>2, <3>3 DEF Shape, Goodbye
    <3>5. Closing'
      BY <2>2, <3>2 DEF Closing
    <3>6. Places'
      BY <2>1, <3>5 DEF Inv, Places, client, server
    <3>7. Nest(todo') <= MaxNest
      <4>1. PICK x \in Ops : x = "teardown"
        BY <2>3
      <4>2. Nest(<<x>> \o Tail(todo)) <= Nest(todo) + 1
        BY <2>1, NestPutHead
      <4>3. Nest(todo') \in Nat
        BY <3>2, NestType
      <4>4. Nest(todo') <= Nest(todo) + 1
        BY <3>1, <4>1, <4>2
      <4>5. QED BY <2>4, <4>3, <4>4, SessionAssumption
    <3>8. ~(link = "up" /\ stream = "published")
      BY <2>8 DEF Inv, Publishing
    <3>9. QED BY <2>1, <2>6, <3>2, <3>4, <3>5, <3>6, <3>7, <3>8, TodoMoves DEF Open
  <2>9. QED BY <2>7, <2>8
<1>3. QED BY <1>1, <1>2 DEF RTMP_CloseBegin

\* RTMP_Close closes the socket and resets the session.
LEMMA CloseEnds == ASSUME Inv, RTMP_CloseEnd PROVE Inv'
<1>1. /\ todo # <<>> /\ Head(todo) = "teardown" /\ todo' = Tail(todo)
      /\ connected' = FALSE /\ streamId' = -1 /\ playing' = FALSE /\ methodCalls' = <<>> /\ numInvokes' = 0
      /\ UNCHANGED <<at, link, inbox, server>>
  BY DEF RTMP_CloseEnd
<1>2. Types /\ Shape
  BY DEF Inv
<1>3. todo \in Seq(Ops)
  BY <1>2 DEF Types
<1>4. todo[1] = "teardown" /\ todo' \in Seq(Ops)
  BY <1>1, <1>3, TailIs
<1>5. Types'
  <2>1. <<>> \in Seq([name: Queued, num: Nat \ {0}])
    OBVIOUS
  <2>2. methodCalls' \in Seq([name: Queued, num: Nat \ {0}])
    BY <1>1, <2>1
  <2>3. QED BY <1>1, <1>2, <1>4, <2>2 DEF Types, server
<1>6. Shape'
  <2>1. \A i \in 1..Len(todo') :
              /\ todo'[i] = "FCUnpublish" => i < Len(todo') /\ todo'[i + 1] = "deleteStream"
              /\ todo'[i] = "deleteStream" => i < Len(todo') /\ todo'[i + 1] = "teardown"
              /\ todo'[i] = "publish" => Len(todo') = 1
    BY <1>1, <1>2, TailShape
  <2>2. QED BY <1>1, <2>1 DEF Shape
<1>7. Places'
  BY <1>1 DEF Inv, Places
<1>8. Publishing'
  <2>1. ~Open'
    BY <1>1 DEF Open
  <2>2. ~(link = "up" /\ stream = "published")
    BY <1>1, <1>4 DEF Inv, Publishing
  <2>3. QED BY <1>1, <2>1, <2>2 DEF Inv, Publishing, server
<1>9. Numbers'
  BY <1>1 DEF Numbers
<1>10. NestingOK'
  <2>1. Nest(todo') <= Nest(todo)
    BY <1>1, <1>3, NestTail
  <2>2. Nest(todo) \in Nat /\ Nest(todo') \in Nat
    BY <1>3, <1>4, NestType
  <2>3. Nest(todo) <= MaxNest
    BY NestingIs DEF Inv, NestingOK
  <2>4. Nest(todo') <= MaxNest
    BY <2>1, <2>2, <2>3, SessionAssumption
  <2>5. QED BY <2>4 DEF NestingOK, Nesting, Nest, Frames
<1>11. QED BY <1>5, <1>6, <1>7, <1>8, <1>9, <1>10 DEF Inv

\* The work that a step taken with nothing left to do can leave.
NewWork == {<<>>, <<"connect">>, <<"releaseStream", "FCPublish", "createStream">>, <<"publish">>,
            <<"_checkbw">>, <<"_result">>, <<"pong">>, <<"media">>,
            <<"RTMP_Close">>, <<"RTMP_Close", "RTMP_Close">>}

LEMMA NewWorkIs ==
    ASSUME NEW t, t \in NewWork
    PROVE  /\ t \in Seq(Ops) /\ Nest(t) = 0
           /\ \A i \in 1..Len(t) : t[i] \notin Goodbye /\ t[i] # "teardown" /\ (t[i] = "publish" => t = <<"publish">>)
           /\ t = <<"publish">> => Len(t) = 1
           /\ t \in {<<"RTMP_Close">>, <<"RTMP_Close", "RTMP_Close">>} => 1 \in 1..Len(t) /\ t[1] = "RTMP_Close"
           /\ t # <<>> => t[1] # "teardown"
<1>1. /\ "connect" \in Ops /\ "releaseStream" \in Ops /\ "FCPublish" \in Ops /\ "createStream" \in Ops
      /\ "publish" \in Ops /\ "_checkbw" \in Ops /\ "_result" \in Ops /\ "pong" \in Ops /\ "media" \in Ops
      /\ "RTMP_Close" \in Ops
  BY DEF Ops, Invokes
<1>2. t \in Seq(Ops)
  <2>1. CASE t = <<>>
    BY <2>1
  <2>2. CASE \E x \in Ops : t = <<x>>
    BY <2>2
  <2>3. CASE \E x, y \in Ops : t = <<x, y>>
    BY <2>3
  <2>4. CASE \E x, y, z \in Ops : t = <<x, y, z>>
    BY <2>4
  <2>5. QED BY <1>1, <2>1, <2>2, <2>3, <2>4, Zenon DEF NewWork
<1>3. \A i \in 1..Len(t) : t[i] \notin Goodbye /\ t[i] # "teardown" /\ (t[i] = "publish" => t = <<"publish">>)
  BY DEF NewWork, Goodbye
<1>4. Nest(t) = 0
  BY <1>2, <1>3, NestNone
<1>5. t = <<"publish">> => Len(t) = 1
  OBVIOUS
<1>6. t \in {<<"RTMP_Close">>, <<"RTMP_Close", "RTMP_Close">>} => 1 \in 1..Len(t) /\ t[1] = "RTMP_Close"
  OBVIOUS
<1>7. t # <<>> => t[1] # "teardown"
  BY <1>2, <1>3
<1>8. QED BY <1>2, <1>3, <1>4, <1>5, <1>6, <1>7

\* Such work is well shaped and holds no frame of RTMP_Close.
LEMMA NewWorkFits ==
    ASSUME todo' \in NewWork
    PROVE  /\ todo' \in Seq(Ops) /\ Shape' /\ Nest(todo') <= MaxNest /\ NestingOK'
           /\ todo' \in {<<"RTMP_Close">>, <<"RTMP_Close", "RTMP_Close">>} => Closing'
           /\ \A i \in 1..Len(todo') : todo'[i] = "publish" => todo' = <<"publish">>
           /\ todo' # <<>> => todo'[1] # "teardown"
<1>1. PICK t : t = todo'
  OBVIOUS
<1>2. /\ t \in Seq(Ops) /\ Nest(t) = 0
      /\ \A i \in 1..Len(t) : t[i] \notin Goodbye /\ t[i] # "teardown" /\ (t[i] = "publish" => t = <<"publish">>)
      /\ t = <<"publish">> => Len(t) = 1
      /\ t \in {<<"RTMP_Close">>, <<"RTMP_Close", "RTMP_Close">>} => 1 \in 1..Len(t) /\ t[1] = "RTMP_Close"
      /\ t # <<>> => t[1] # "teardown"
  BY <1>1, NewWorkIs
<1>3. Nest(todo') <= MaxNest
  BY <1>1, <1>2, SessionAssumption
<1>4. NestingOK'
  BY <1>3 DEF NestingOK, Nesting, Nest, Frames
<1>5. Shape'
  BY <1>1, <1>2 DEF Shape, Goodbye
<1>6. todo' \in {<<"RTMP_Close">>, <<"RTMP_Close", "RTMP_Close">>} => Closing'
  BY <1>1, <1>2 DEF Closing
<1>7. QED BY <1>1, <1>2, <1>3, <1>4, <1>5, <1>6

\* RTMP_Connect.
LEMMA Connects == ASSUME Inv, RTMP_Connect PROVE Inv'
<1>1. /\ at = "connect" /\ todo = <<>> /\ ~connected /\ streamId = 0 /\ stream = "none" /\ calls = {}
      /\ inbox = <<>> /\ methodCalls = <<>> /\ ~playing
      /\ UNCHANGED <<streamId, playing, methodCalls, numInvokes, inbox, server>>
  BY DEF RTMP_Connect, Idle, Inv, Places
<1>2. /\ at' \in {"connected", "closing"} /\ todo' \in NewWork /\ todo' # <<"publish">>
      /\ at' = "closing" => todo' \in {<<"RTMP_Close">>, <<"RTMP_Close", "RTMP_Close">>}
  BY DEF RTMP_Connect, NewWork
<1>3. connected' \in BOOLEAN /\ link' \in {"none", "up", "eof", "dead"}
  BY <1>1 DEF RTMP_Connect, Inv, Types
<1>4. /\ todo' \in Seq(Ops) /\ Shape' /\ NestingOK' /\ (at' = "closing" => Closing')
      /\ \A i \in 1..Len(todo') : todo'[i] # "publish"
  BY <1>2, NewWorkFits
<1>5. Types'
  BY <1>1, <1>2, <1>3, <1>4 DEF Inv, Types, server
<1>6. Places'
  BY <1>1, <1>2, <1>4 DEF Places, server
<1>7. Publishing'
  BY <1>1, <1>4 DEF Publishing, server
<1>8. Numbers'
  BY <1>1 DEF Numbers, server
<1>9. QED BY <1>4, <1>5, <1>6, <1>7, <1>8 DEF Inv

\* The steps of threadRun and of the functions it calls that only move on.
LEMMA MovesOn ==
    ASSUME Inv, \/ SendConnectPacket \/ ReadN \/ RTMP_ConnectStream
                \/ pushPacket \/ stopPushing \/ RTMP_Free
    PROVE  Inv'
<1>1. /\ todo = <<>> /\ UNCHANGED <<client, link, inbox, server>>
      /\ at \in {"connected", "stream", "pushing", "closing"}
  BY DEF SendConnectPacket, ReadN, Reading, RTMP_ConnectStream, pushPacket, stopPushing, RTMP_Free, Idle
<1>2. /\ at' \in {"stream", "pushing", "closing", "freed"} /\ todo' \in NewWork /\ todo' # <<"publish">>
      /\ at' = "closing" => todo' \in {<<"RTMP_Close">>, <<"RTMP_Close", "RTMP_Close">>}
      /\ at' = "freed" => at = "closing" /\ todo' = <<>>
  BY <1>1 DEF SendConnectPacket, ReadN, Reading, RTMP_ConnectStream, pushPacket, stopPushing, RTMP_Free, Idle, NewWork
<1>3. ~Closing
  BY <1>1 DEF Closing
<1>4. /\ todo' \in Seq(Ops) /\ Shape' /\ Nest(todo') <= MaxNest
      /\ at' = "closing" => Closing'
      /\ \A i \in 1..Len(todo') : todo'[i] # "publish"
      /\ todo' # <<>> => todo'[1] # "teardown"
  BY <1>2, NewWorkFits
<1>5. Places'
  BY <1>1, <1>2, <1>3, <1>4 DEF Inv, Places, client
<1>6. Open' => Open
  BY <1>1, <1>3 DEF Open, client
<1>7. at' \in {"connect", "connected", "stream", "pushing", "closing", "freed"}
  BY <1>2
<1>8. QED BY <1>1, <1>4, <1>5, <1>6, <1>7, TodoMoves

\* A message is read and handled: what every handler keeps.
LEMMA Reads ==
    ASSUME Inv, at = "stream", todo = <<>>, connected, inbox # <<>>, inbox' = Tail(inbox),
           UNCHANGED <<at, connected, numInvokes, link, server>>,
           todo' \in NewWork, playing' \in BOOLEAN, streamId' \in {-1, 0, 1},
           methodCalls' \in Seq([name: Queued, num: Nat \ {0}]),
           \A j \in 1..Len(methodCalls') : \E h \in 1..Len(methodCalls) : methodCalls'[j] = methodCalls[h],
           ~Closing' => streamId' \in {streamId, 1},
           ~Closing' => (playing' => Told),
           todo' = <<"publish">> => streamId' = 1,
           streamId' \in {streamId, 1} \/ stream = "refused"
    PROVE  Inv'
<1>1. /\ todo' \in Seq(Ops) /\ Shape' /\ NestingOK'
      /\ \A i \in 1..Len(todo') : todo'[i] = "publish" => streamId' = 1
      /\ todo' # <<>> => todo'[1] # "teardown"
  BY NewWorkFits
<1>2. /\ inbox' \in Seq(Messages)
      /\ \A i \in 1..Len(inbox') : \E j \in 1..Len(inbox) : inbox'[i] = inbox[j]
  <2>1. inbox \in Seq(Messages)
    BY DEF Inv, Types
  <2>2. QED BY <2>1, TailIs
<1>3. Types'
  BY <1>1, <1>2 DEF Inv, Types, server
<1>4. Places'
  BY DEF Inv, Places
<1>5. Open
  BY DEF Open, Closing
<1>6. Publishing'
  <2>1. ~Closing' => (Told => Told')
    BY DEF Told, server
  <2>2. ASSUME Open'
        PROVE  /\ playing' => Told'
               /\ \A i \in 1..Len(methodCalls') : methodCalls'[i].name = "publish" => Told'
               /\ \A c \in calls' : c.name = "publish" => Told'
               /\ \A i \in 1..Len(inbox') : inbox'[i].kind = "publishStart" => Told'
               /\ stream' # "deleted"
    <3>1. ~Closing'
      BY <2>2 DEF Open
    <3>2. /\ \A i \in 1..Len(methodCalls) : methodCalls[i].name = "publish" => Told
          /\ \A c \in calls : c.name = "publish" => Told
          /\ \A i \in 1..Len(inbox) : inbox[i].kind = "publishStart" => Told
          /\ stream # "deleted"
      BY <1>5 DEF Inv, Publishing
    <3>3. Told => Told'
      BY <2>1, <3>1
    <3>4. \A i \in 1..Len(methodCalls') : methodCalls'[i].name = "publish" => Told'
      BY <3>2, <3>3
    <3>5. \A i \in 1..Len(inbox') : inbox'[i].kind = "publishStart" => Told'
      BY <1>2, <3>2, <3>3
    <3>6. QED BY <3>1, <3>2, <3>3, <3>4, <3>5 DEF server
  <2>3. \A i \in 1..Len(inbox') : inbox'[i].kind = "failed" => stream' = "refused"
    <3>1. \A i \in 1..Len(inbox) : inbox[i].kind = "failed" => stream = "refused"
      BY DEF Inv, Publishing
    <3>2. stream' = stream
      BY DEF server
    <3>3. QED BY <1>2, <3>1, <3>2
  <2>4. link' = "up" /\ stream' = "published" => connected' /\ streamId' = 1
    BY DEF Inv, Publishing, server
  <2>5. QED BY <1>1, <2>2, <2>3, <2>4 DEF Publishing
<1>7. Numbers'
  <2>1. /\ \A i \in 1..Len(methodCalls) : methodCalls[i].num <= numInvokes
        /\ \A c \in calls : c.num <= numInvokes
        /\ \A i \in 1..Len(inbox) : inbox[i].kind = "_result" => inbox[i].num <= numInvokes
        /\ \A c, d \in calls : c.num = d.num => c = d
    BY DEF Inv, Numbers
  <2>2. \A i \in 1..Len(inbox) : inbox[i].kind = "_result" => \A c \in calls : inbox[i].num # c.num
    BY DEF Inv, Numbers
  <2>3. \A i \in 1..Len(inbox) : inbox[i].kind = "_result" => \A j \in 1..Len(methodCalls) :
             inbox[i].num = methodCalls[j].num => inbox[i].for = methodCalls[j].name
    BY DEF Inv, Numbers
  <2>4. \A c \in calls : \A j \in 1..Len(methodCalls) :
             c.num = methodCalls[j].num => c.name = methodCalls[j].name
    BY DEF Inv, Numbers
  <2>5. calls' = calls
    BY DEF server
  <2>6. \A i \in 1..Len(methodCalls') : methodCalls'[i].num <= numInvokes'
    BY <2>1
  <2>7. \A i \in 1..Len(inbox') : inbox'[i].kind = "_result" => inbox'[i].num <= numInvokes'
    BY <1>2, <2>1
  <2>8. \A i \in 1..Len(inbox') : inbox'[i].kind = "_result" => \A c \in calls' : inbox'[i].num # c.num
    BY <1>2, <2>2, <2>5
  <2>9. \A i \in 1..Len(inbox') : inbox'[i].kind = "_result" => \A j \in 1..Len(methodCalls') :
             inbox'[i].num = methodCalls'[j].num => inbox'[i].for = methodCalls'[j].name
    <3>1. ASSUME NEW i \in 1..Len(inbox'), inbox'[i].kind = "_result", NEW j \in 1..Len(methodCalls'),
                 inbox'[i].num = methodCalls'[j].num
          PROVE  inbox'[i].for = methodCalls'[j].name
      <4>1. PICK k \in 1..Len(inbox) : inbox'[i] = inbox[k]
        BY <1>2
      <4>2. PICK h \in 1..Len(methodCalls) : methodCalls'[j] = methodCalls[h]
        OBVIOUS
      <4>3. QED BY <2>3, <3>1, <4>1, <4>2
    <3>2. QED BY <3>1
  <2>10. \A c \in calls' : \A j \in 1..Len(methodCalls') :
             c.num = methodCalls'[j].num => c.name = methodCalls'[j].name
    <3>1. ASSUME NEW c \in calls', NEW j \in 1..Len(methodCalls'), c.num = methodCalls'[j].num
          PROVE  c.name = methodCalls'[j].name
      <4>1. PICK h \in 1..Len(methodCalls) : methodCalls'[j] = methodCalls[h]
        OBVIOUS
      <4>2. QED BY <2>4, <2>5, <3>1, <4>1
    <3>2. QED BY <3>1
  <2>11. QED BY <2>1, <2>5, <2>6, <2>7, <2>8, <2>9, <2>10 DEF Numbers
<1>8. QED BY <1>1, <1>3, <1>4, <1>6, <1>7 DEF Inv

\* RTMP_ClientPacket: each kind of message.
LEMMA ClientPackets == ASSUME Inv, RTMP_ClientPacket PROVE Inv'
<1> DEFINE m == Head(inbox)
<1>2. /\ at = "stream" /\ todo = <<>> /\ connected /\ ~playing /\ inbox # <<>> /\ inbox' = Tail(inbox)
      /\ UNCHANGED <<at, connected, numInvokes, link, server>>
  BY DEF RTMP_ClientPacket, Reading, Idle
<1>3. Open /\ Types
  BY <1>2 DEF Open, Closing, Inv
<1>4. /\ inbox \in Seq(Messages) /\ methodCalls \in Seq([name: Queued, num: Nat \ {0}])
      /\ streamId \in {-1, 0, 1} /\ playing \in BOOLEAN /\ todo \in NewWork
  BY <1>2, <1>3 DEF Types, NewWork
<1>5. 1 \in 1..Len(inbox) /\ m = inbox[1]
  BY <1>2, <1>4, TailIs
<1>6. /\ \A i \in 1..Len(methodCalls) : methodCalls[i].name = "publish" => Told
      /\ \A i \in 1..Len(inbox) : inbox[i].kind = "publishStart" => Told
      /\ \A i \in 1..Len(inbox) : inbox[i].kind = "failed" => stream = "refused"
  BY <1>3 DEF Inv, Publishing
<1>7. todo' \in {<<"RTMP_Close">>, <<"RTMP_Close", "RTMP_Close">>} /\ todo' \in NewWork => Closing'
  BY NewWorkFits
<1>8. ASSUME NEW i \in 1..Len(methodCalls), AV_erase(i)
      PROVE  /\ methodCalls' \in Seq([name: Queued, num: Nat \ {0}])
             /\ \A j \in 1..Len(methodCalls') : \E h \in 1..Len(methodCalls) : methodCalls'[j] = methodCalls[h]
  <2>1. PICK r : r = methodCalls'
    OBVIOUS
  <2>2. r = RemoveAt(methodCalls, i)
    BY <1>8, <2>1 DEF AV_erase
  <2>3. PICK S : S = [name: Queued, num: Nat \ {0}]
    OBVIOUS
  <2>4. methodCalls \in Seq(S)
    BY <1>4, <2>3
  <2>5. r \in Seq(S) /\ \A j \in 1..Len(r) : \E h \in 1..Len(methodCalls) : r[j] = methodCalls[h]
    BY <2>2, <2>4, Removed
  <2>6. QED BY <2>1, <2>3, <2>5
<1>9. ASSUME UNCHANGED methodCalls
      PROVE  /\ methodCalls' \in Seq([name: Queued, num: Nat \ {0}])
             /\ \A j \in 1..Len(methodCalls') : \E h \in 1..Len(methodCalls) : methodCalls'[j] = methodCalls[h]
  BY <1>4, <1>9
<1>10. CASE HandleResult(m)
  <2>1. CASE UNCHANGED <<methodCalls, streamId, playing, todo>>
    <3>1. todo' \in NewWork /\ playing' \in BOOLEAN /\ streamId' = streamId /\ ~playing' /\ todo' # <<"publish">>
      BY <1>2, <1>4, <2>1
    <3>2. QED BY <1>2, <1>4, <1>9, <2>1, <3>1, Reads
  <2>2. ASSUME NEW i \in 1..Len(methodCalls), AV_erase(i),
               todo' = CASE methodCalls[i].name = "connect" -> <<"releaseStream", "FCPublish", "createStream">>
                         [] methodCalls[i].name = "createStream" -> <<"publish">>
                         [] OTHER -> todo,
               streamId' = IF methodCalls[i].name = "createStream" THEN 1 ELSE streamId,
               playing' = (playing \/ methodCalls[i].name = "publish")
        PROVE  Inv'
    <3>1. todo' \in NewWork
      BY <1>2, <2>2 DEF NewWork
    <3>2. streamId' \in {-1, 0, 1} /\ streamId' \in {streamId, 1} /\ playing' \in BOOLEAN
      BY <1>4, <2>2
    <3>3. todo' = <<"publish">> => streamId' = 1
      BY <1>2, <2>2
    <3>4. playing' => Told
      BY <1>2, <1>6, <2>2
    <3>5. /\ methodCalls' \in Seq([name: Queued, num: Nat \ {0}])
          /\ \A j \in 1..Len(methodCalls') : \E h \in 1..Len(methodCalls) : methodCalls'[j] = methodCalls[h]
      BY <1>8, <2>2
    <3>6. QED BY <1>2, <3>1, <3>2, <3>3, <3>4, <3>5, Reads
  <2>3. QED BY <1>10, <2>1, <2>2 DEF HandleResult
<1>11. CASE m.kind \in Status /\ HandleStatus(m)
  <2>1. /\ methodCalls' \in Seq([name: Queued, num: Nat \ {0}])
        /\ \A j \in 1..Len(methodCalls') : \E h \in 1..Len(methodCalls) : methodCalls'[j] = methodCalls[h]
    <3>1. UNCHANGED methodCalls \/ \E i \in 1..Len(methodCalls) : AV_erase(i)
      BY <1>11 DEF HandleStatus, EraseCall
    <3>2. QED BY <1>8, <1>9, <3>1
  <2>2. CASE m.kind = "publishStart"
    <3>1. /\ playing' \in BOOLEAN /\ streamId' = streamId /\ todo' = todo
      BY <1>11, <2>2 DEF HandleStatus
    <3>2. Told
      BY <1>5, <1>6, <2>2
    <3>3. todo' # <<"publish">>
      BY <1>2, <3>1
    <3>4. QED BY <1>2, <1>4, <2>1, <3>1, <3>2, <3>3, Reads
  <2>3. CASE m.kind # "publishStart"
    <3>1. /\ playing' = playing /\ m.kind \in {"failed", "stopped"}
          /\ streamId' = IF m.kind = "failed" THEN -1 ELSE streamId
          /\ todo' = <<"RTMP_Close">>
      BY <1>4, <1>11, <2>3 DEF HandleStatus, Status
    <3>2. m.kind = "failed" => stream = "refused"
      BY <1>5, <1>6
    <3>3. todo' \in NewWork /\ Closing' /\ todo' # <<"publish">>
      BY <1>7, <3>1 DEF NewWork
    <3>4. streamId' \in {-1, 0, 1} /\ (streamId' \in {streamId, 1} \/ stream = "refused")
      BY <1>4, <3>1, <3>2
    <3>5. QED BY <1>2, <1>4, <2>1, <3>1, <3>3, <3>4, Reads
  <2>4. QED BY <2>2, <2>3
<1>12. CASE HandleCtrl(m) \/ HandleInvoke(m)
  <2>1. UNCHANGED <<methodCalls, streamId, playing>>
    BY <1>12 DEF HandleCtrl, HandleInvoke
  <2>2. todo' \in {<<>>, <<"pong">>, <<"RTMP_Close">>, <<"_checkbw">>, <<"_result">>}
    <3>1. CASE HandleCtrl(m)
      BY <1>2, <3>1 DEF HandleCtrl
    <3>2. CASE HandleInvoke(m)
      <4>1. todo' \in {todo, <<"RTMP_Close">>, <<"_checkbw">>, <<"_result">>}
        BY <3>2 DEF HandleInvoke
      <4>2. QED BY <1>2, <4>1
    <3>3. QED BY <1>12, <3>1, <3>2
  <2>3. todo' \in NewWork /\ todo' # <<"publish">>
    BY <2>2 DEF NewWork
  <2>4. QED BY <1>2, <1>4, <1>9, <2>1, <2>3, Reads
<1>13. QED BY <1>10, <1>11, <1>12 DEF RTMP_ClientPacket

-----------------------------------------------------------------------------
\* The server and the network.

\* What a message added to the inbox leaves of it.
LEMMA Delivered ==
    ASSUME Types, NEW m \in Messages, Deliver(m)
    PROVE  /\ inbox' \in Seq(Messages)
           /\ \A i \in 1..Len(inbox') : (i \in 1..Len(inbox) /\ inbox'[i] = inbox[i]) \/ inbox'[i] = m
<1>1. inbox \in Seq(Messages) /\ inbox' = Append(inbox, m)
  BY DEF Types, Deliver
<1>2. QED BY <1>1

LEMMA Answers == ASSUME Inv, at \in {"connected", "stream"}, Answer PROVE Inv'
<1>1. Types /\ UNCHANGED <<at, todo, client, link, stream>> /\ link = "up"
  BY DEF Inv, Answer
<1>2. PICK c \in calls :
         \/ \E kind \in {"_result", "_error"} :
               /\ Deliver([kind |-> kind, num |-> c.num, for |-> c.name])
               /\ calls' = calls \ {c}
         \/ /\ c.name = "publish" /\ UNCHANGED calls
            /\ Deliver([kind |-> "publishStart", num |-> 0, for |-> "none"])
  BY DEF Answer
<1>3. PICK m : /\ Deliver(m) /\ m.kind \in {"_result", "_error", "publishStart"}
               /\ m.kind = "publishStart" => c.name = "publish" /\ m.num = 0 /\ calls' = calls
               /\ m.kind # "publishStart" => m.num = c.num /\ m.for = c.name /\ calls' = calls \ {c}
               /\ m \in Messages
  <2>1. c.num \in Nat /\ c.name \in Answered
    BY <1>1, NumTypes
  <2>2. ASSUME NEW kind \in {"_result", "_error"},
               Deliver([kind |-> kind, num |-> c.num, for |-> c.name]), calls' = calls \ {c}
        PROVE  \E m : /\ Deliver(m) /\ m.kind \in {"_result", "_error", "publishStart"}
                      /\ m.kind = "publishStart" => c.name = "publish" /\ m.num = 0 /\ calls' = calls
                      /\ m.kind # "publishStart" => m.num = c.num /\ m.for = c.name /\ calls' = calls \ {c}
                      /\ m \in Messages
    <3>1. PICK m : m = [kind |-> kind, num |-> c.num, for |-> c.name]
      OBVIOUS
    <3>2. m \in Messages
      BY <2>1, <3>1 DEF Messages, Kinds
    <3>3. m.kind = kind /\ m.num = c.num /\ m.for = c.name /\ kind # "publishStart"
      BY <3>1
    <3>4. Deliver(m)
      BY <2>2, <3>1
    <3>5. QED BY <2>2, <3>2, <3>3, <3>4
  <2>3. ASSUME c.name = "publish", UNCHANGED calls,
               Deliver([kind |-> "publishStart", num |-> 0, for |-> "none"])
        PROVE  \E m : /\ Deliver(m) /\ m.kind \in {"_result", "_error", "publishStart"}
                      /\ m.kind = "publishStart" => c.name = "publish" /\ m.num = 0 /\ calls' = calls
                      /\ m.kind # "publishStart" => m.num = c.num /\ m.for = c.name /\ calls' = calls \ {c}
                      /\ m \in Messages
    <3>1. PICK m : m = [kind |-> "publishStart", num |-> 0, for |-> "none"]
      OBVIOUS
    <3>2. m \in Messages
      BY <3>1 DEF Messages, Kinds
    <3>3. m.kind = "publishStart" /\ m.num = 0
      BY <3>1
    <3>4. Deliver(m)
      BY <2>3, <3>1
    <3>5. QED BY <2>3, <3>2, <3>3, <3>4
  <2>4. QED BY <1>2, <2>2, <2>3
<1>4. /\ inbox' \in Seq(Messages)
      /\ \A i \in 1..Len(inbox') : (i \in 1..Len(inbox) /\ inbox'[i] = inbox[i]) \/ inbox'[i] = m
  BY <1>1, <1>3, Delivered
<1>5. calls' \subseteq calls
  BY <1>3
<1>6. Types'
  BY <1>1, <1>4, <1>5 DEF Types, client
<1>7. Shape' /\ NestingOK'
  BY <1>1 DEF Inv, Shape, NestingOK, Nesting, client
<1>8. Places'
  BY <1>1 DEF Inv, Places, Closing, client
<1>9. Publishing'
  <2>1. (Told' <=> Told) /\ (Open' <=> Open)
    BY <1>1 DEF Told, Open, Closing, client
  <2>2. ASSUME Open
        PROVE  \A i \in 1..Len(inbox') : inbox'[i].kind = "publishStart" => Told
    <3>1. m.kind = "publishStart" => Told
      BY <1>3, <2>2 DEF Inv, Publishing
    <3>2. \A i \in 1..Len(inbox) : inbox[i].kind = "publishStart" => Told
      BY <2>2 DEF Inv, Publishing
    <3>3. QED BY <1>4, <3>1, <3>2
  <2>3. \A i \in 1..Len(inbox') : inbox'[i].kind = "failed" => stream = "refused"
    <3>1. \A i \in 1..Len(inbox) : inbox[i].kind = "failed" => stream = "refused"
      BY DEF Inv, Publishing
    <3>2. m.kind # "failed"
      BY <1>3
    <3>3. QED BY <1>4, <3>1, <3>2
  <2>4. QED BY <1>1, <1>5, <2>1, <2>2, <2>3 DEF Inv, Publishing, client
<1>10. Numbers'
  <2>1. UNCHANGED <<connected, methodCalls, numInvokes>>
    BY <1>1 DEF client
  <2>2. CASE ~connected
    BY <2>1, <2>2 DEF Inv, Numbers
  <2>3. CASE connected
    <3>1. /\ \A d \in calls : d.num <= numInvokes
          /\ \A d, e \in calls : d.num = e.num => d = e
          /\ \A i \in 1..Len(inbox) : inbox[i].kind = "_result" => inbox[i].num <= numInvokes
      BY <2>3 DEF Inv, Numbers
    <3>2. /\ \A i \in 1..Len(inbox) : inbox[i].kind = "_result" => \A d \in calls : inbox[i].num # d.num
          /\ \A i \in 1..Len(inbox) : inbox[i].kind = "_result" => \A j \in 1..Len(methodCalls) :
                inbox[i].num = methodCalls[j].num => inbox[i].for = methodCalls[j].name
      BY <2>3 DEF Inv, Numbers
    <3>3. \A d \in calls : \A j \in 1..Len(methodCalls) : d.num = methodCalls[j].num => d.name = methodCalls[j].name
      BY <2>3 DEF Inv, Numbers
    <3>4. m.kind = "_result" => /\ m.num <= numInvokes /\ \A d \in calls' : m.num # d.num
                                /\ \A j \in 1..Len(methodCalls) : m.num = methodCalls[j].num => m.for = methodCalls[j].name
      <4>1. ASSUME m.kind = "_result"
            PROVE  m.num = c.num /\ m.for = c.name /\ calls' = calls \ {c}
        BY <1>3, <4>1
      <4>2. QED BY <3>1, <3>3, <4>1
    <3>5. \A i \in 1..Len(inbox') : inbox'[i].kind = "_result" => inbox'[i].num <= numInvokes'
      BY <1>4, <2>1, <3>1, <3>4
    <3>6. \A i \in 1..Len(inbox') : inbox'[i].kind = "_result" => \A d \in calls' : inbox'[i].num # d.num
      BY <1>4, <1>5, <3>2, <3>4
    <3>7. \A i \in 1..Len(inbox') : inbox'[i].kind = "_result" => \A j \in 1..Len(methodCalls') :
                inbox'[i].num = methodCalls'[j].num => inbox'[i].for = methodCalls'[j].name
      BY <1>4, <2>1, <3>2, <3>4
    <3>8. \A i \in 1..Len(methodCalls') : methodCalls'[i].num <= numInvokes'
      BY <2>1 DEF Inv, Numbers
    <3>9. QED BY <1>5, <2>1, <3>1, <3>3, <3>5, <3>6, <3>7, <3>8 DEF Numbers
  <2>4. QED BY <2>2, <2>3
<1>11. QED BY <1>6, <1>7, <1>8, <1>9, <1>10 DEF Inv

LEMMA ServerTalks == ASSUME Inv, at \in {"connected", "stream"}, Unsolicited PROVE Inv'
<1>1. PICK kind \in Noise : /\ Deliver([kind |-> kind, num |-> 0, for |-> "none"])
                            /\ stream' = IF kind = "failed" THEN "refused" ELSE stream
  BY DEF Unsolicited
<1>2. Types /\ UNCHANGED <<at, todo, client, link, calls>>
  BY DEF Inv, Unsolicited
<1>3. PICK m : m = [kind |-> kind, num |-> 0, for |-> "none"]
  OBVIOUS
<1>4. /\ Deliver(m) /\ m \in Messages /\ m.kind = kind
      /\ m.kind # "_result" /\ m.kind # "publishStart"
  BY <1>1, <1>3 DEF Messages, Kinds, Noise
<1>5. /\ inbox' \in Seq(Messages)
      /\ \A i \in 1..Len(inbox') : (i \in 1..Len(inbox) /\ inbox'[i] = inbox[i]) \/ inbox'[i] = m
  BY <1>2, <1>4, Delivered
<1>6. Types'
  BY <1>1, <1>2, <1>5 DEF Types, client
<1>7. Shape' /\ NestingOK'
  BY <1>2 DEF Inv, Shape, NestingOK, Nesting, client
<1>8. Places'
  BY <1>2 DEF Inv, Places, Closing, client
<1>9. Publishing'
  <2>1. (Told => Told') /\ (Open' <=> Open)
    BY <1>1, <1>2 DEF Told, Open, Closing, client
  <2>2. ASSUME Open
        PROVE  \A i \in 1..Len(inbox') : inbox'[i].kind = "publishStart" => Told'
    <3>1. \A i \in 1..Len(inbox) : inbox[i].kind = "publishStart" => Told
      BY <2>2 DEF Inv, Publishing
    <3>2. QED BY <1>4, <1>5, <2>1, <3>1
  <2>3. \A i \in 1..Len(inbox') : inbox'[i].kind = "failed" => stream' = "refused"
    <3>1. \A i \in 1..Len(inbox) : inbox[i].kind = "failed" => stream = "refused"
      BY DEF Inv, Publishing
    <3>2. QED BY <1>1, <1>4, <1>5, <3>1
  <2>4. stream' = "published" => stream = "published"
    BY <1>1
  <2>5. stream' = "deleted" => stream = "deleted"
    BY <1>1
  <2>6. QED BY <1>2, <2>1, <2>2, <2>3, <2>4, <2>5 DEF Inv, Publishing, client
<1>10. Numbers'
  <2>1. \A i \in 1..Len(inbox') : inbox'[i].kind = "_result" => i \in 1..Len(inbox) /\ inbox'[i] = inbox[i]
    BY <1>4, <1>5
  <2>2. QED BY <1>2, <2>1 DEF Inv, Numbers, client
<1>11. QED BY <1>6, <1>7, <1>8, <1>9, <1>10 DEF Inv

LEMMA Disconnects == ASSUME Inv, Disconnect PROVE Inv'
<1>1. link' \in {"eof", "dead"} /\ UNCHANGED <<at, todo, client, inbox, server>>
  BY DEF Disconnect
<1>2. Types'
  BY <1>1 DEF Inv, Types, client, server
<1>3. Shape' /\ NestingOK'
  BY <1>1 DEF Inv, Shape, NestingOK, Nesting, client
<1>4. Places'
  BY <1>1 DEF Inv, Places, Closing, client, server
<1>5. Publishing'
  <2>1. (Told => Told') /\ (Open' <=> Open)
    BY <1>1 DEF Told, Open, Closing, client
  <2>2. QED BY <1>1, <2>1 DEF Inv, Publishing, client, server
<1>6. Numbers'
  BY <1>1 DEF Inv, Numbers, client, server
<1>7. QED BY <1>2, <1>3, <1>4, <1>5, <1>6 DEF Inv

-----------------------------------------------------------------------------
LEMMA InvNext == Inv /\ [Next]_vars => Inv'
<1> SUFFICES ASSUME Inv, [Next]_vars PROVE Inv'
  OBVIOUS
<1>1. CASE UNCHANGED vars
  BY <1>1 DEF vars, client, server, Inv, Types, Shape, Places, Publishing, Numbers, NestingOK, Nesting, Open, Closing, Told
<1>2. CASE RTMP_SendPacket
  <2>1. ASSUME ~WriteOk, todo' = <<"RTMP_Close">> \o Tail(todo), UNCHANGED <<methodCalls, server>> PROVE Inv'
    BY <1>2, <2>1, SendFails DEF RTMP_SendPacket
  <2>2. ASSUME WriteOk, AV_queue(Head(todo)), Receive(Head(todo)), todo' = Tail(todo) PROVE Inv'
    BY <1>2, <2>2, SendWorks DEF RTMP_SendPacket
  <2>3. QED BY <1>2, <2>1, <2>2 DEF RTMP_SendPacket
<1>3. CASE RTMP_CloseBegin
  BY <1>3, CloseBegins
<1>4. CASE RTMP_CloseEnd
  BY <1>4, CloseEnds
<1>5. CASE RTMP_Connect
  BY <1>5, Connects
<1>6. CASE \/ SendConnectPacket \/ ReadN \/ RTMP_ConnectStream
           \/ pushPacket \/ stopPushing \/ RTMP_Free
  BY <1>6, MovesOn
<1>7. CASE RTMP_ClientPacket
  BY <1>7, ClientPackets
<1>8. CASE Network
  BY <1>8, Answers, ServerTalks, Disconnects DEF Network
<1>9. QED BY <1>1, <1>2, <1>3, <1>4, <1>5, <1>6, <1>7, <1>8 DEF Next, Run

\* In every state that the session can reach, whatever the server sends and
\* whenever the connection fails.
THEOREM InvAlways == Spec => []Inv
<1>1. QED BY InvInit, InvNext, PTL DEF Spec

\* TypeOK is never broken: what the functions of rtmp.c keep in RTMP has the
\* types they rely on, and no call on the list of pending calls has a number
\* that was not given out since the last close.
THEOREM TypeCorrect == Spec => []TypeOK
<1>1. Inv => TypeOK
  BY DEF Inv, Types, Numbers, NestingOK, TypeOK
<1>2. QED BY <1>1, InvAlways, PTL

\* Whenever m_bPlaying is set and nothing is left to do, there are a socket and
\* a stream id, and a server that still listens was told to publish and not to
\* delete: HandleInvoke sets m_bPlaying for no stale or foreign answer.
THEOREM PlayingMeansPublishingAlways == Spec => []PlayingMeansPublishing
<1>1. Inv => PlayingMeansPublishing
  <2> SUFFICES ASSUME Inv, playing, todo = <<>>
               PROVE  connected /\ streamId > 0 /\ (link = "up" => stream \in {"published", "refused"})
    BY DEF PlayingMeansPublishing
  <2>1. connected
    BY DEF Inv, Places, Types
  <2>2. Open
    BY <2>1 DEF Open, Closing
  <2>3. Told
    BY <2>2 DEF Inv, Publishing
  <2>4. QED BY <2>1, <2>3 DEF Told
<1>2. QED BY <1>1, InvAlways, PTL

\* HandleInvoke takes no _result for the answer to another call than the one
\* the server answered, although AV_queue, AV_erase and RTMP_Close change the
\* list of pending calls and the numbering in between.
THEOREM ResultMeetsItsCallAlways == Spec => []ResultMeetsItsCall
<1>1. Inv => ResultMeetsItsCall
  <2> SUFFICES ASSUME Inv PROVE ResultMeetsItsCall
    OBVIOUS
  <2>1. TypeOK
    BY DEF Inv, Types, Numbers, NestingOK, TypeOK
  <2>2. CASE connected
    BY <2>1, <2>2 DEF Inv, Numbers, ResultMeetsItsCall
  <2>3. CASE ~connected
    <3>1. Len(methodCalls) = 0
      BY <2>3 DEF Inv, Places
    <3>2. QED BY <2>1, <3>1 DEF ResultMeetsItsCall
  <2>4. QED BY <2>2, <2>3
<1>2. QED BY <1>1, InvAlways, PTL

\* RTMP_Free never leaves a published stream behind on a server that listens:
\* RTMP_Close has sent deleteStream, however often and from wherever it ran.
THEOREM NoStreamLeftBehindAlways == Spec => []NoStreamLeftBehind
<1>1. Inv => NoStreamLeftBehind
  BY DEF Inv, Places, Publishing, NoStreamLeftBehind
<1>2. QED BY <1>1, InvAlways, PTL

==============================================================================
