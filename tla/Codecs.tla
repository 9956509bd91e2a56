------------------------------- MODULE Codecs -------------------------------
(***************************************************************************)
(* codec_base64, url::encode and url::decode, the text of a uuid, and wide  *)
(* strings.  Bytes and characters are numbers, 0..255.                      *)
(***************************************************************************)
EXTENDS Md5Rounds, FiniteSets

CONSTANTS ByteSamples,   \* the bytes that inputs are made of
          CodecLength,   \* longest input of base64 and of the url codec
          UuidSamples,   \* 16 bytes each
          UuidTimes,     \* times at which one is generated
          Digests        \* message -> its digest as published

VARIABLE codecCall    \* the last call of a codec and its result

Least(m, n) == IF m < n THEN m ELSE n
Concat(f, n) == FlattenSeq([k \in 1..n |-> f[k]])

-----------------------------------------------------------------------------
(* codec_base64                                                            *)

cb64(i) == CASE i < 26 -> 65 + i [] i \in 26..51 -> 71 + i [] i \in 52..61 -> i - 4
             [] i = 62 -> 43 [] OTHER -> 47
cd64(c) == CASE c \in 65..90 -> c - 65 [] c \in 97..122 -> c - 71 [] c \in 48..57 -> c + 4
             [] c = 43 -> 62 [] OTHER -> 63
IsSymbol(c) == c \in (65..90) \cup (97..122) \cup (48..57) \cup {43, 47}
Equals == 61

(* Were the second byte of the last group taken for padding.               *)
Fault_encodeblock(b, len) ==
  << cb64(b[1] \div 4),
     cb64(((b[1] % 4) * 16) + b[2] \div 16),
     IF len > 2 THEN cb64(((b[2] % 16) * 4) + b[3] \div 64) ELSE Equals,
     IF len > 2 THEN cb64(b[3] % 64) ELSE Equals >>

encodeblock(b, len) ==
  << cb64(b[1] \div 4),
     cb64(((b[1] % 4) * 16) + b[2] \div 16),
     IF len > 1 THEN cb64(((b[2] % 16) * 4) + b[3] \div 64) ELSE Equals,
     IF len > 2 THEN cb64(b[3] % 64) ELSE Equals >>

decodeblock(s) ==
  << (s[1] * 4 + s[2] \div 16) % 256,
     (s[2] * 16 + s[3] \div 4) % 256,
     ((s[3] * 64) % 256) + s[4] >>

(* The bytes or symbols of group k, 0 after the end of the stream.         *)
Group(t, k, size) == [i \in 1..size |-> IF size * (k - 1) + i <= Len(t) THEN t[size * (k - 1) + i] ELSE 0]
GroupLen(t, k, size) == Least(size, Len(t) - size * (k - 1))
Groups(t, size) == (Len(t) + size - 1) \div size

base64_encode(t) ==
  Concat([k \in 1..Groups(t, 3) |-> encodeblock(Group(t, k, 3), GroupLen(t, k, 3))], Groups(t, 3))

base64_decode(text) ==
  LET t == [i \in DOMAIN SelectSeq(text, IsSymbol) |-> cd64(SelectSeq(text, IsSymbol)[i])]
  IN Concat([k \in 1..Groups(t, 4) |->
              SubSeq(decodeblock(Group(t, k, 4)), 1, GroupLen(t, k, 4) - 1)], Groups(t, 4))

-----------------------------------------------------------------------------
(* url::encode and url::decode                                             *)

Percent == 37
Plus    == 43
Space   == 32
hex(d) == IF d < 10 THEN 48 + d ELSE 55 + d
isxdigit(c) == c \in (48..57) \cup (65..70) \cup (97..102)
strtol(c) == CASE c \in 48..57 -> c - 48 [] c \in 65..70 -> c - 55 [] OTHER -> c - 87

url_encode(t) ==
  Concat([k \in DOMAIN t |->
            IF t[k] \in (48..58) \cup (65..91) \cup (97..123) THEN <<t[k]>>
            ELSE <<Percent, hex(t[k] \div 16), hex(t[k] % 16)>>], Len(t))

RECURSIVE url_decode(_)
url_decode(t) ==
  IF t = <<>> THEN <<>>
  ELSE IF t[1] = Percent /\ Len(t) > 2 /\ isxdigit(t[2]) /\ isxdigit(t[3])
  THEN <<16 * strtol(t[2]) + strtol(t[3])>> \o url_decode(SubSeq(t, 4, Len(t)))
  ELSE <<IF t[1] = Plus THEN Space ELSE t[1]>> \o url_decode(Tail(t))

-----------------------------------------------------------------------------
(* uuid                                                                    *)

Dash == 45
UuidSize == 16
lower(d) == IF d < 10 THEN 48 + d ELSE 87 + d

(* str(): a '-' after the bytes 3, 5, 7 and 9, counted from 0.             *)
uuid_str(data) ==
  Concat([i \in 1..UuidSize |->
            <<lower(data[i] \div 16), lower(data[i] % 16)>>
            \o (IF i - 1 \in {3, 5, 7, 9} THEN <<Dash>> ELSE <<>>)], UuidSize)

(* assign(): whatever is no digit is skipped; a last digit on its own is a
   byte, and what lies beyond 16 bytes is ignored.                         *)
uuid_assign(text) ==
  LET d == SelectSeq(text, isxdigit) IN
  [i \in 1..UuidSize |->
     CASE 2 * i <= Len(d) -> 16 * strtol(d[2 * i - 1]) + strtol(d[2 * i])
       [] 2 * i - 1 = Len(d) -> strtol(d[2 * i - 1])
       [] OTHER -> 0]

uuid_empty(data) == \A i \in 1..UuidSize : data[i] = 0
uuid_less(a, b) ==
  \E i \in 1..UuidSize : a[i] < b[i] /\ \A j \in 1..i - 1 : a[j] = b[j]

(* generate(): four bytes of the time, the lowest first, and random ones.  *)
uuid_generate(now, random) ==
  [i \in 1..UuidSize |-> IF i <= 4 THEN (now \div 256^(i - 1)) % 256 ELSE random[i] % 255]

(* The constructor from a text or from a null pointer, which is no text.   *)
uuid_clear == [i \in 1..UuidSize |-> 0]
uuid_new(texts) == IF texts = <<>> THEN uuid_clear ELSE uuid_assign(texts[1])

(* The streams: a word is read, none at their end, and assigned.           *)
uuid_out(stream, data) == stream \o uuid_str(data)
uuid_in(stream) ==
  LET from == SelectInSeq(stream, LAMBDA c : c # Space)
      rest == IF from = 0 THEN <<>> ELSE SubSeq(stream, from, Len(stream))
      end  == SelectInSeq(rest, LAMBDA c : c = Space)
      s    == IF end = 0 THEN rest ELSE SubSeq(rest, 1, end - 1)
  IN [value |-> uuid_assign(s), stream |-> SubSeq(rest, Len(s) + 1, Len(rest))]

-----------------------------------------------------------------------------
(* string2wstring and wstring2string.  ctype<wchar_t>::widen() of a byte over
   127 is a letter of another alphabet, or none where it is part of a longer
   character; ctype<char>::narrow() gets the low byte and returns it.      *)
WEOF == 2147483647     \* its low byte is that of the real one
widen(c, loc) == CASE c < 128 -> c [] c > 127 /\ loc = "koi8-r" -> 1024 + (c % 128) [] OTHER -> WEOF
narrow(c) == c
string2wstring(source, loc) == [k \in DOMAIN source |-> widen(source[k], loc)]
wstring2string(source) == [k \in DOMAIN source |-> narrow(source[k] % 256)]

(* char_length(): codecvt::in() ends at a byte that makes no character with
   those that follow; here characters have one or two bytes.               *)
RECURSIVE codecvt_in(_)
codecvt_in(t) ==
  CASE t = <<>> -> 0
    [] t # <<>> /\ t[1] < 128 -> 1 + codecvt_in(Tail(t))
    [] Len(t) > 1 /\ t[1] \in 194..223 /\ t[2] \in 128..191 -> 1 + codecvt_in(SubSeq(t, 3, Len(t)))
    [] OTHER -> 0
char_length(text, loc) == IF loc = "utf-8" THEN codecvt_in(text) ELSE Len(text)

-----------------------------------------------------------------------------
CodecInputs == BoundedSeq(ByteSamples, CodecLength)

CodecInit == codecCall = [op |-> "none"]

CallCodec ==
  /\ codecCall.op = "none"
  /\ \/ \E t \in CodecInputs : codecCall' =
          [op |-> "base64", arg |-> t, is |-> base64_encode(t)]
     \/ \E t \in CodecInputs : codecCall' =
          [op |-> "url", arg |-> t, is |-> url_encode(t)]
     \/ \E u \in UuidSamples : codecCall' =
          [op |-> "uuid", arg |-> u, is |-> uuid_str(u)]
     \/ \E now \in UuidTimes, random \in UuidSamples : codecCall' =
          [op |-> "generate", arg |-> now, is |-> uuid_generate(now, random)]
     \/ \E text \in DOMAIN Digests : codecCall' =
          [op |-> "digest", arg |-> text, is |-> Digest(text)]
     \/ \E a, b \in UuidSamples : codecCall' =
          [op |-> "stream", arg |-> <<a, b>>, is |-> uuid_out(uuid_out(<<>>, a) \o <<Space>>, b)]
     \/ \E t \in BoundedSeq(ByteSamples, 2), loc \in {"koi8-r", "utf-8"} : codecCall' =
          [op |-> "wide", arg |-> t, is |-> string2wstring(t, loc)]
     \/ \E chars \in BoundedSeq({<<97>>, <<195, 169>>, <<196, 128>>}, 3), loc \in {"koi8-r", "utf-8"}, bad \in {<<>>, <<255>>} :
          codecCall' = [op |-> "length", arg |-> [chars |-> chars, loc |-> loc, bad |-> bad],
                        is |-> char_length(FlattenSeq(chars) \o bad \o FlattenSeq(chars), loc)]

-----------------------------------------------------------------------------
(* What url::parse cuts the part after the host at, what a form is cut at,
   and what decode() reads as something else: / ; # ? & = + and the space.  *)
Delimiters == {47, 59, 35, 63, 38, 61, Plus, Space}
(* What encode() leaves alone: letters, digits and, since each of its three
   ranges goes one too far, ':', '[' and '{' as well.                       *)
Untouched == (48..57) \cup (65..90) \cup (97..122) \cup {58, 91, 123}

(* Reading gives back what was written: base64 whatever else stands between
   its symbols and with or without the '=' at its end; the url codec for every
   byte, the reserved ones included; and a uuid, with and without dashes, in
   the order that the bytes have, also through a stream, where the end gives an
   empty one as the null pointer does; one that is generated is never empty, nor
   that of another second; the digests of the test suite of RFC 1321 are those
   published there; a wide string of ASCII is read back, and
   the length of a text is that of its characters up to a byte that is none.  What url::encode writes can stand in the
   path, query, fragment or parameters of a url and in a form without being
   cut; it may hold a ':', so this is not said of a user name, which
   url::parse splits there.                                                *)
CodecMeaning ==
  CASE codecCall.op = "base64" ->
         /\ base64_decode(codecCall.is) = codecCall.arg
         /\ base64_decode(SelectSeq(codecCall.is, IsSymbol)) = codecCall.arg
         /\ \A k \in 0..Len(codecCall.is) :
              base64_decode(InsertAt(codecCall.is, k + 1, 10)) = codecCall.arg
         /\ Len(codecCall.is) % 4 = 0
    [] codecCall.op = "url" ->
         /\ url_decode(codecCall.is) = codecCall.arg
         /\ Range(codecCall.is) \cap Delimiters = {}
         /\ Range(codecCall.is) \subseteq Untouched \cup {Percent}
         /\ (codecCall.is = codecCall.arg) = (Range(codecCall.arg) \subseteq Untouched)
    [] codecCall.op = "uuid" ->
         /\ uuid_assign(codecCall.is) = codecCall.arg
         /\ uuid_assign(SelectSeq(codecCall.is, isxdigit) \o <<48>>) = codecCall.arg
         /\ \A u \in UuidSamples : uuid_less(u, codecCall.arg) \/ uuid_less(codecCall.arg, u) \/ u = codecCall.arg
         /\ uuid_empty(codecCall.arg) <=> codecCall.is = uuid_str(uuid_assign(<<>>))
    [] codecCall.op = "generate" ->
         /\ \A now \in UuidTimes, random \in UuidSamples :
              now # codecCall.arg => uuid_generate(now, random) # codecCall.is
         /\ ~uuid_empty(codecCall.is) /\ uuid_assign(uuid_str(codecCall.is)) = codecCall.is
    [] codecCall.op = "stream" ->
         LET first == uuid_in(codecCall.is)
             second == uuid_in(first.stream)
         IN /\ <<first.value, second.value>> = codecCall.arg
            /\ uuid_in(second.stream).value = uuid_new(<<>>)
            /\ uuid_new(<<codecCall.is>>) = codecCall.arg[1]
    [] codecCall.op = "wide" ->
         Range(codecCall.arg) \subseteq 0..127 => wstring2string(codecCall.is) = codecCall.arg
    [] codecCall.op = "length" ->
         LET a == codecCall.arg IN
         codecCall.is = IF a.loc # "utf-8" THEN 2 * Len(FlattenSeq(a.chars)) + Len(a.bad)
                        ELSE IF a.bad = <<>> THEN 2 * Len(a.chars) ELSE Len(a.chars)
    [] codecCall.op = "digest" -> codecCall.is = Digests[codecCall.arg]
    [] OTHER -> codecCall.op = "none"

(* "converting widen (unicode) strings to strings according specified locale"
   (strutils.h:242): a string of the locale comes back.                     *)
WideReadBack == codecCall.op = "wide" => wstring2string(codecCall.is) = codecCall.arg
=============================================================================
