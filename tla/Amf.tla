--------------------------------- MODULE Amf ---------------------------------
(***************************************************************************)
(* amf.c: the encoding of the values RTMP commands are made of.  A buffer  *)
(* is a sequence of bytes.  An encoder gets the room left in the output    *)
(* and gives the bytes it writes, or NULL.  A decoder gets a buffer and    *)
(* the number of bytes of it already read, and gives how many it took, or  *)
(* -1.  A double is the eight bytes it has in memory, little endian.       *)
(* Reads of values the code never set have no meaning here (Unset).        *)
(***************************************************************************)
EXTENDS Integers, Sequences, SequencesExt

NULL == <<-1>>
Unset == <<-2>>

AMF == [NUMBER |-> 0, BOOLEAN |-> 1, STRING |-> 2, OBJECT |-> 3, MOVIECLIP |-> 4, NULL |-> 5,
        UNDEFINED |-> 6, REFERENCE |-> 7, ECMA_ARRAY |-> 8, OBJECT_END |-> 9, STRICT_ARRAY |-> 10,
        DATE |-> 11, LONG_STRING |-> 12, UNSUPPORTED |-> 13, RECORDSET |-> 14, XML_DOC |-> 15,
        TYPED_OBJECT |-> 16, AVMPLUS |-> 17, INVALID |-> 255]
AMF3 == [UNDEFINED |-> 0, NULL |-> 1, FALSE_ |-> 2, TRUE_ |-> 3, INTEGER |-> 4, DOUBLE |-> 5, STRING |-> 6,
         XML_DOC |-> 7, DATE |-> 8, ARRAY |-> 9, OBJECT |-> 10, XML |-> 11, BYTE_ARRAY |-> 12]

\* A property: its name, its AMF type and its value, always a sequence (of
\* bytes, of one number, or of properties).
Prop(name, type, value) == [name |-> name, type |-> type, value |-> value]
AMFProp_Invalid == Prop(<<>>, AMF.INVALID, Unset)

\* a, then b, unless b could not be written.
Then(a, b) == IF a = NULL \/ b = NULL THEN NULL ELSE a \o b

-----------------------------------------------------------------------------
AMF_EncodeInt16(room, n) == IF 2 > room THEN NULL ELSE <<(n \div 256) % 256, n % 256>>
AMF_EncodeInt24(room, n) == IF 3 > room THEN NULL ELSE <<(n \div 65536) % 256, (n \div 256) % 256, n % 256>>
AMF_EncodeInt32(room, n) ==
    IF 4 > room THEN NULL
    ELSE <<(n \div 16777216) % 256, (n \div 65536) % 256, (n \div 256) % 256, n % 256>>

AMF_EncodeString(room, s) ==
    IF (Len(s) < 65536 /\ 3 + Len(s) > room) \/ 5 + Len(s) > room THEN NULL
    ELSE IF Len(s) < 65536 THEN <<AMF.STRING>> \o AMF_EncodeInt16(room - 1, Len(s)) \o s
    ELSE <<AMF.LONG_STRING>> \o AMF_EncodeInt32(room - 1, Len(s)) \o s

AMF_EncodeNumber(room, d) == IF 9 > room THEN NULL ELSE <<AMF.NUMBER>> \o Reverse(d)
AMF_EncodeBoolean(room, b) == IF 2 > room THEN NULL ELSE <<AMF.BOOLEAN, IF b # 0 THEN 1 ELSE 0>>

\* The name that precedes the value of a named property.
NameSwapped(room, name) ==
    IF 2 + Len(name) > room THEN NULL ELSE Reverse(AMF_EncodeInt16(room, Len(name))) \o name
Name(room, name) == IF 2 + Len(name) > room THEN NULL ELSE AMF_EncodeInt16(room, Len(name)) \o name
AMF_EncodeNamedString(room, name, s) == Then(Name(room, name), AMF_EncodeString(room - 2 - Len(name), s))
AMF_EncodeNamedNumber(room, name, d) == Then(Name(room, name), AMF_EncodeNumber(room - 2 - Len(name), d))
AMF_EncodeNamedBoolean(room, name, b) == Then(Name(room, name), AMF_EncodeBoolean(room - 2 - Len(name), b))

RECURSIVE AMF_Encode(_, _)
\* A property: its name unless it has none or is null, then its value.
AMFProp_Encode(p, room) ==
    LET name == IF p.type # AMF.NULL /\ p.name # <<>> THEN AMF_EncodeInt16(room, Len(p.name)) \o p.name ELSE <<>>
        left == room - Len(name)
    IN IF p.type = AMF.INVALID \/ (p.type # AMF.NULL /\ Len(p.name) + 3 >= room) THEN NULL
       ELSE CASE p.type = AMF.NUMBER -> Then(name, AMF_EncodeNumber(left, p.value))
              [] p.type = AMF.BOOLEAN -> Then(name, AMF_EncodeBoolean(left, p.value[1]))
              [] p.type = AMF.STRING -> Then(name, AMF_EncodeString(left, p.value))
              [] p.type = AMF.NULL -> IF 1 >= room THEN NULL ELSE <<AMF.NULL>>
              [] p.type = AMF.OBJECT -> Then(name, AMF_Encode(p.value, left))
              [] OTHER -> NULL

\* The properties of obj from i on: the first that does not fit ends the loop,
\* and the object, without an error.
RECURSIVE EncodePropsSkipping(_, _, _)
EncodePropsSkipping(obj, i, room) ==
    IF i > Len(obj) THEN <<>>
    ELSE LET e == AMFProp_Encode(obj[i], room)
         IN (IF e = NULL THEN <<>> ELSE e)
                \o EncodePropsSkipping(obj, i + 1, IF e = NULL THEN room ELSE room - Len(e))
RECURSIVE EncodeProps(_, _, _)
EncodeProps(obj, i, room) ==
    IF i > Len(obj) THEN <<>>
    ELSE LET e == AMFProp_Encode(obj[i], room)
         IN IF e = NULL THEN <<>> ELSE e \o EncodeProps(obj, i + 1, room - Len(e))

AMF_Encode(obj, room) ==
    LET body == <<AMF.OBJECT>> \o EncodeProps(obj, 1, room - 1)
    IN IF 4 >= room \/ Len(body) + 3 >= room THEN NULL
       ELSE body \o AMF_EncodeInt24(room - Len(body), AMF.OBJECT_END)

-----------------------------------------------------------------------------
AMF_DecodeInt16(buf, at) == buf[at + 1] * 256 + buf[at + 2]
AMF_DecodeInt24(buf, at) == buf[at + 1] * 65536 + buf[at + 2] * 256 + buf[at + 3]
AMF_DecodeInt32(buf, at) ==
    buf[at + 1] * 16777216 + buf[at + 2] * 65536 + buf[at + 3] * 256 + buf[at + 4]
AMF_DecodeString(buf, at) == SubSeq(buf, at + 3, at + 2 + AMF_DecodeInt16(buf, at))
AMF_DecodeLongStringShort(buf, at) == SubSeq(buf, at + 3, at + 2 + AMF_DecodeInt32(buf, at))
AMF_DecodeLongString(buf, at) == SubSeq(buf, at + 5, at + 4 + AMF_DecodeInt32(buf, at))
AMF_DecodeNumber(buf, at) == Reverse(SubSeq(buf, at + 1, at + 8))
AMF_DecodeBoolean(buf, at) == <<IF buf[at + 1] # 0 THEN 1 ELSE 0>>

\* What a decoder of one property gives: the bytes it took, the property.
Took(n, name, type, value) == [res |-> n, prop |-> Prop(name, type, value)]
Fails == [res |-> -1, prop |-> AMFProp_Invalid]

\* An AMF3 integer: seven bits of each of the first three bytes while the high
\* bit is set, eight of a fourth.  A char is unsigned on arm64, the one target.
SignedNever(val) == val
Signed(val) == IF val > 268435455 THEN val - 536870912 ELSE val
LastOfFourShort(high, b) == high * 128 + b
LastOfFour(high, b) == high * 256 + b
IntegerOf(b, used) ==
    LET high == FoldLeft(LAMBDA v, x : v * 128 + (x % 128), 0, SubSeq(b, 1, used))
    IN [len |-> used + 1, val |-> Signed(IF used = 3 THEN LastOfFour(high, b[4]) ELSE high * 128 + b[used + 1])]
AMF3ReadInteger(buf, at) ==
    LET b == SubSeq(buf, at + 1, IF at + 4 > Len(buf) THEN Len(buf) ELSE at + 4)
    IN IntegerOf(b, CASE b[1] < 128 -> 0 [] b[2] < 128 -> 1 [] b[3] < 128 -> 2 [] OTHER -> 3)

\* A string, or a reference to an earlier one, which leaves the result as it was.
StringAfter(buf, at, ref) ==
    IF ref.val % 2 = 0 THEN [len |-> ref.len, str |-> Unset]
    ELSE [len |-> ref.len + (ref.val \div 2),
          str |-> SubSeq(buf, at + ref.len + 1, at + ref.len + (ref.val \div 2))]
AMF3ReadString(buf, at) == StringAfter(buf, at, AMF3ReadInteger(buf, at))

RECURSIVE AMF3_Decode(_, _)
\* The value of a property after its type, the byte before position body; prev:
\* what the caller's property holds; int, str and obj: what is there if the type
\* says that it is an integer, a string or an object.
AMF3Value(buf, at, body, name, prev, int, str, obj) ==
    LET type == buf[body]
        Is(n, t, v) == Took(n + body - at, name, t, v)
    IN CASE type \in {AMF3.UNDEFINED, AMF3.NULL} -> Is(0, AMF.NULL, <<>>)
         [] type = AMF3.FALSE_ -> Is(0, AMF.BOOLEAN, <<0>>)
         [] type = AMF3.TRUE_ -> Is(0, AMF.BOOLEAN, <<1>>)
         [] type = AMF3.INTEGER -> Is(int.len, AMF.NUMBER, <<int.val>>)
         [] type = AMF3.DOUBLE ->
               IF Len(buf) - body < 8 THEN Fails ELSE Is(8, AMF.NUMBER, AMF_DecodeNumber(buf, body))
         [] type \in {AMF3.STRING, AMF3.XML_DOC, AMF3.XML} -> Is(str.len, AMF.STRING, str.str)
         [] type = AMF3.DATE ->
               IF int.val % 2 = 0 THEN Is(int.len, prev.type, prev.value)
               ELSE IF Len(buf) - body - int.len < 8 THEN Fails
               ELSE Is(int.len + 8, AMF.NUMBER, AMF_DecodeNumber(buf, body + int.len))
         [] type = AMF3.OBJECT -> IF obj.res = -1 THEN Fails ELSE Is(obj.res, AMF.OBJECT, obj.props)
         [] OTHER -> Fails
AMF3ValueAt(buf, at, body, name, prev) ==
    AMF3Value(buf, at, body, name, prev,
              AMF3ReadInteger(buf, body), AMF3ReadString(buf, body), AMF3_Decode(buf, body))
\* An empty name leaves the rest of the caller's property.
AMF3Prop_Decode(buf, at, named, prev) ==
    LET With(key) == IF named /\ key.str = <<>> THEN [res |-> key.len, prop |-> [prev EXCEPT !.name = <<>>]]
                     ELSE AMF3ValueAt(buf, at, at + key.len + 1, key.str, prev)
    IN IF at >= Len(buf) THEN Fails
       ELSE With(IF named THEN AMF3ReadString(buf, at) ELSE [len |-> 0, str |-> <<>>])

\* The dynamic members: read until an empty name, and that one, which repeats the
\* property before it without a name, is added too.  An error moves the read
\* position back by one (nRes is -1) and the loop goes on.
RECURSIVE DynamicProps(_, _, _)
DynamicProps(buf, at, prev) ==
    LET Rest(d, rest) == [res |-> d.res + rest.res, props |-> <<d.prop>> \o rest.props]
        From(d) == IF d.prop.name = <<>> THEN [res |-> d.res, props |-> <<d.prop>>]
                   ELSE Rest(d, DynamicProps(buf, at + d.res, d.prop))
    IN From(AMF3Prop_Decode(buf, at, TRUE, prev))

\* An object: the marker (a second one, in an object within an AMF3 object: its
\* own was read as the type), a reference or an instance; an instance names its class
\* or refers to it.  A class with members of its own is out of reach: the loop
\* that reads their names extends the list whose length bounds it.
AMF3Members(buf, at, head, class) ==
    LET inline == class % 2 = 1
        ext == inline /\ (class \div 2) % 2 = 1
        dynamic == inline /\ (class \div 4) % 2 = 1
        External(one) == [res |-> head + (IF one.res = -1 THEN 0 ELSE one.res),
                          props |-> <<[one.prop EXCEPT !.name = <<"DEFAULT_ATTRIBUTE">>]>>]
        Dynamic(dyn) == [res |-> head + dyn.res, props |-> dyn.props]
    IN IF ext THEN External(AMF3Prop_Decode(buf, at + head, FALSE, AMFProp_Invalid))
       ELSE IF dynamic THEN Dynamic(DynamicProps(buf, at + head, AMFProp_Invalid))
       ELSE [res |-> head, props |-> <<>>]
AMF3_Decode(buf, at) ==
    LET Instance(ref) ==
            IF ref.val % 2 = 0 THEN [res |-> 1 + ref.len, props |-> <<>>]
            ELSE AMF3Members(buf, at,
                     1 + ref.len + (IF (ref.val \div 2) % 2 = 1 THEN AMF3ReadString(buf, at + 1 + ref.len).len ELSE 0),
                     ref.val \div 2)
    IN Instance(AMF3ReadInteger(buf, at + 1))

-----------------------------------------------------------------------------
RECURSIVE AMFProp_Decode(_, _, _)

\* Properties up to the end mark or the end of the buffer.  After one that does
\* not decode, bytes are skipped one by one until an end mark.
RECURSIVE DecodeFrom(_, _, _, _)
DecodeFrom(buf, at, named, error) ==
    LET Add(d, next) == [next EXCEPT !.props = <<d.prop>> \o @]
        With(d) == IF d.res = -1 THEN DecodeFrom(buf, at, named, TRUE)
                   ELSE Add(d, DecodeFrom(buf, at + d.res, named, FALSE))
    IN IF at >= Len(buf) THEN [at |-> at, error |-> error, props |-> <<>>]
       ELSE IF Len(buf) - at >= 3 /\ AMF_DecodeInt24(buf, at) = AMF.OBJECT_END
            THEN [at |-> at + 3, error |-> FALSE, props |-> <<>>]
       ELSE IF error THEN DecodeFrom(buf, at + 1, named, TRUE)
       ELSE With(AMFProp_Decode(buf, at, named))
AMF_Decode(buf, at, named) ==
    LET all == DecodeFrom(buf, at, named, FALSE)
    IN [res |-> IF all.error THEN -1 ELSE all.at - at, props |-> all.props]

\* n values without names; one that does not decode is an error, but the others
\* are still tried, from where it began.
RECURSIVE AMF_DecodeArray(_, _, _)
AMF_DecodeArray(buf, at, n) ==
    LET Add(d, rest) == [res |-> IF rest.res = -1 THEN -1 ELSE d.res + rest.res, props |-> <<d.prop>> \o rest.props]
        With(d) == IF d.res = -1 THEN [AMF_DecodeArray(buf, at, n - 1) EXCEPT !.res = -1]
                   ELSE Add(d, AMF_DecodeArray(buf, at + d.res, n - 1))
    IN IF n = 0 THEN [res |-> 0, props |-> <<>>] ELSE With(AMFProp_Decode(buf, at, FALSE))

\* The value after the type, the byte before position body.
AMFValue(buf, at, body, name) ==
    LET left == Len(buf) - body
        type == buf[body]
        Is(n, t, v) == IF left < n THEN Fails ELSE Took(body - at + n, name, t, v)
        Whole(skip, o) == IF o.res = -1 THEN Fails ELSE Took(body - at + skip + o.res, name, AMF.OBJECT, o.props)
    IN IF left < 0 THEN Fails
       ELSE CASE type = AMF.NUMBER -> Is(8, type, AMF_DecodeNumber(buf, body))
              [] type = AMF.BOOLEAN -> Is(1, type, AMF_DecodeBoolean(buf, body))
              [] type = AMF.STRING -> Is(2 + AMF_DecodeInt16(buf, body), type, AMF_DecodeString(buf, body))
              [] type = AMF.OBJECT -> Whole(0, AMF_Decode(buf, body, TRUE))
              [] type \in {AMF.NULL, AMF.UNDEFINED, AMF.UNSUPPORTED} -> Is(0, AMF.NULL, <<>>)
              [] type = AMF.ECMA_ARRAY -> Whole(4, AMF_Decode(buf, body + 4, TRUE))
              [] type = AMF.STRICT_ARRAY -> Whole(4, AMF_DecodeArray(buf, body + 4, AMF_DecodeInt32(buf, body)))
              [] type = AMF.DATE ->
                    Is(10, type, AMF_DecodeNumber(buf, body) \o <<AMF_DecodeInt16(buf, body + 8)>>)
              [] type = AMF.LONG_STRING ->
                    Is(4 + AMF_DecodeInt32(buf, body), AMF.STRING, AMF_DecodeLongString(buf, body))
              [] type = AMF.AVMPLUS -> Whole(0, AMF3_Decode(buf, body))
              [] OTHER -> Fails

AMFProp_Decode(buf, at, named) ==
    LET size == Len(buf) - at
        name == IF named THEN AMF_DecodeString(buf, at) ELSE <<>>
    IN IF size = 0 \/ (named /\ (size < 4 \/ AMF_DecodeInt16(buf, at) > size - 2)) THEN Fails
       ELSE AMFValue(buf, at, at + (IF named THEN 3 + AMF_DecodeInt16(buf, at) ELSE 1), name)

-----------------------------------------------------------------------------
\* By index (from 0), or by name if it is negative.  The index after the last is
\* let through: what it gives was never set.
AMF_GetProp(obj, name, index) ==
    LET named == SelectInSeq(obj, LAMBDA p : p.name = name)
    IN IF index >= 0
       THEN IF index < Len(obj) THEN obj[index + 1]
            ELSE IF index = Len(obj) THEN Prop(Unset, AMF.INVALID, Unset) ELSE AMFProp_Invalid
       ELSE IF named > 0 THEN obj[named] ELSE AMFProp_Invalid
==============================================================================
