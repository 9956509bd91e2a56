-------------------------------- MODULE Text --------------------------------
(***************************************************************************)
(* strutils: trim, compare, tokenize, format and the conversions of numbers*)
(* as operators, each checked against what its documentation promises.  A  *)
(* string is a sequence of characters of a small alphabet.                 *)
(***************************************************************************)
EXTENDS Integers, Sequences, SequencesExt, FiniteSets

CONSTANTS Alphabet, TextLength,   \* the strings: at most that many characters
          Templates,              \* sequences of characters, "{0}" and "{1}"
          Numerals,               \* numbers as their parts are written
          CasedTexts,             \* strings to compare
          MinExp, MaxExp,         \* DBL_MIN_EXP, DBL_MAX_EXP: powers of two
          LeastPower, MostPower   \* the powers of ten of the least and the largest double

VARIABLE textCall    \* the last call and its result

Blanks == {" ", "\n"}
UpperOf == [c \in {"a", "b"} |-> IF c = "a" THEN "A" ELSE "B"]
toupper(c) == IF c \in DOMAIN UpperOf THEN UpperOf[c] ELSE c

-----------------------------------------------------------------------------
(* Positions are 1-based and 0 stands for npos.                            *)
find_first_of(s, chars, from) == SelectInSubSeq(s, from, Len(s), LAMBDA c : c \in chars)

trim(source, delims) ==
  LET last == SelectLastInSeq(source, LAMBDA c : c \notin delims)
      cut == IF last # 0 THEN SubSeq(source, 1, last) ELSE source
      first == SelectInSeq(cut, LAMBDA c : c \notin delims)
  IN IF first # 0 THEN SubSeq(cut, first, Len(cut)) ELSE <<>>

compare(x, y) ==
  Len(x) = Len(y) /\ \A k \in DOMAIN x : toupper(x[k]) = toupper(y[k])

RECURSIVE tokens_from(_, _, _)
tokens_from(source, delims, old_pos) ==
  LET pos == find_first_of(source, delims, old_pos)
  IN IF pos = 0 THEN <<trim(SubSeq(source, old_pos, Len(source)), Blanks)>>
     ELSE <<trim(SubSeq(source, old_pos, pos - 1), Blanks)>>
            \o tokens_from(source, delims, pos + 1)

(* Were the loop to end with the text, the empty field behind a last
   delimiter would be lost.                                                *)
Fault_tokenize(source, delims) ==
  IF source = <<>> THEN <<>>
  ELSE LET t == tokens_from(source, delims, 1) IN IF Last(t) = <<>> THEN Front(t) ELSE t

tokenize(source, delims) ==
  IF source = <<>> THEN <<>> ELSE tokens_from(source, delims, 1)

(* The pair: cut at the last delimiter (greedy) or at the first one; without
   a delimiter all is the right part, or the left one.  The results of an
   empty source stay as they were.                                         *)
token_pair(source, greedy, delims, before) ==
  LET pos == IF greedy THEN SelectLastInSeq(source, LAMBDA c : c \in delims)
                       ELSE find_first_of(source, delims, 1)
  IN CASE source = <<>> -> before
       [] source # <<>> /\ pos # 0 ->
            <<SubSeq(source, 1, pos - 1), SubSeq(source, pos + 1, Len(source))>>
       [] source # <<>> /\ pos = 0 /\ greedy -> <<<<>>, source>>
       [] source # <<>> /\ pos = 0 /\ ~greedy -> <<source, before[2]>>

Digits == [d \in {"0", "1", "2", "6"} |-> CASE d = "0" -> 0 [] d = "1" -> 1 [] d = "2" -> 2 [] d = "6" -> 6]
NumberOf(digits, base) == FoldLeft(LAMBDA n, d : base * n + Digits[d], 0, digits)

SpanOf(s, from, chars) ==
  LET stop == SelectInSubSeq(s, from, Len(s), LAMBDA c : c \notin chars)
  IN IF from > Len(s) THEN <<>> ELSE SubSeq(s, from, (IF stop = 0 THEN Len(s) ELSE stop - 1))

(* from_string<int>(): strtol() of any base gives 0 for what is no number, and
   takes a number with a leading 0 for octal.                              *)
AsInt(s) ==
  LET digits == SpanOf(s, 1, DOMAIN Digits)
  IN NumberOf(digits, IF digits # <<>> /\ digits[1] = "0" THEN 8 ELSE 10)

(* params_[n] beyond the end is undefined.                                 *)
param(params, n) == IF n < Len(params) THEN params[n + 1] ELSE <<"undefined">>

RECURSIVE format_from(_, _, _)
format_from(str, params, old_pos) ==
  LET pos == find_first_of(str, {"{", "}"}, old_pos)
      part == SubSeq(str, old_pos, pos - 1)
  IN IF pos = 0 THEN SubSeq(str, old_pos, Len(str))
     ELSE (IF str[pos] = "{" THEN part ELSE param(params, AsInt(part)))
            \o format_from(str, params, pos + 1)

format(str, params) == format_from(str, params, 1)

-----------------------------------------------------------------------------
(* my_strtod(): sign, digits, decimals, exponent; the number is a mantissa
   and a power of ten, its rounding left out.                              *)
At(s, k) == IF k <= Len(s) THEN s[k] ELSE "end"
Signed(s, k) == IF At(s, k) \in {"-", "+"} THEN k + 1 ELSE k
Magnitude(n) == IF n < 0 THEN -n ELSE n
(* The power of ten of the first digit. *)
Order(n) == CHOOSE k \in 0..9 : 10^k <= Magnitude(n) /\ Magnitude(n) < 10^(k + 1)

(* The squares 10, 100, 10000... by which the number is scaled become infinite:
   one of these is a factor when the exponent reaches its power.           *)
InfinitePower == CHOOSE p \in { 2^k : k \in 0..10 } : p > MostPower /\ p \div 2 <= MostPower

Finite(n, exp) == [is |-> "finite", number |-> n, exp |-> exp]
Special(x) == [is |-> x, number |-> 0, exp |-> 0]

scaled(n, exp) ==
  CASE n = 0 -> IF exp >= InfinitePower THEN Special("nan") ELSE Finite(0, 0)
    [] n # 0 /\ exp + Order(n) > MostPower -> Special(IF n < 0 THEN "-inf" ELSE "inf")
    [] n # 0 /\ (-exp >= InfinitePower \/ exp + Order(n) < LeastPower) -> Finite(0, 0)
    [] OTHER -> Finite(n, exp)

(* It throws without digits, when the exponent is outside the range of those of
   powers of two, and for an infinite result, but not a minus infinite one. *)
my_strtod(s) ==
  LET sign   == 1 + Len(SpanOf(s, 1, Blanks))
      whole  == SpanOf(s, Signed(s, sign), DOMAIN Digits)
      point  == Signed(s, sign) + Len(whole)
      decs   == IF At(s, point) = "." THEN SpanOf(s, point + 1, DOMAIN Digits) ELSE <<>>
      after  == IF At(s, point) = "." THEN point + 1 + Len(decs) ELSE point
      power  == IF At(s, after) \in {"e", "E"}
                THEN NumberOf(SpanOf(s, Signed(s, after + 1), DOMAIN Digits), 10) ELSE 0
      exp    == (IF At(s, after + 1) = "-" THEN -power ELSE power) - Len(decs)
      number == NumberOf(whole \o decs, 10)
      result == scaled(IF At(s, sign) = "-" THEN -number ELSE number, exp)
  IN IF whole \o decs = <<>> \/ exp < MinExp \/ exp > MaxExp \/ result.is = "inf"
     THEN Special("throws") ELSE result

-----------------------------------------------------------------------------
Texts == BoundedSeq(Alphabet, TextLength)
Params == <<<<"a">>, <<"b", "{", "0", "}">>>>

(* A template and a number as they are written.                            *)
Written(template) ==
  FoldLeft(LAMBDA s, x : s \o (CASE x = "{0}" -> <<"{", "0", "}">>
                                [] x = "{1}" -> <<"{", "1", "}">>
                                [] OTHER     -> <<x>>), <<>>, template)
NumberText(n) ==
  <<" ">> \o n.sign \o n.whole \o (IF n.decs # <<>> THEN <<".">> \o n.decs ELSE <<>>)
    \o (IF n.power # <<>> THEN <<"e">> \o n.esign \o n.power ELSE <<>>)

TextInit == textCall = [op |-> "none"]

Trim(s)     == textCall' = [op |-> "trim", arg |-> s, is |-> trim(s, Blanks)]
Compare(s, t) == textCall' = [op |-> "compare", arg |-> <<s, t>>, is |-> compare(s, t)]
Tokenize(s) == textCall' = [op |-> "tokenize", arg |-> s, is |-> tokenize(s, {",", ";"})]
Pair(s, greedy) ==
  textCall' = [op |-> "pair", arg |-> <<s, greedy>>,
               is |-> token_pair(s, greedy, {",", ";"}, <<<<>>, <<>>>>)]
Format(t)   == textCall' = [op |-> "format", arg |-> t, is |-> format(Written(t), Params)]
Strtod(n)   == textCall' = [op |-> "strtod", arg |-> n, is |-> my_strtod(NumberText(n))]

TextNext ==
  /\ textCall.op = "none"
  /\ \/ \E s \in Texts : Trim(s) \/ Tokenize(s) \/ \E g \in BOOLEAN : Pair(s, g)
     \/ \E s, u \in CasedTexts : Compare(s, u)
     \/ \E t \in Templates : Format(t)
     \/ \E n \in Numerals : Strtod(n)

-----------------------------------------------------------------------------
(* s is r between blanks, and r neither begins nor ends with one.          *)
TrimMeaning(s, r) ==
  /\ \E i \in 0..Len(s) : \E j \in i..Len(s) :
       /\ r = SubSeq(s, i + 1, j)
       /\ \A k \in (1..i) \cup ((j + 1)..Len(s)) : s[k] \in Blanks
  /\ r # <<>> => r[1] \notin Blanks /\ Last(r) \notin Blanks

(* The fields between the delimiters, in order, each trimmed.              *)
TokenizeMeaning(s, r) ==
  LET cuts == SetToSortSeq({0, Len(s) + 1} \cup { k \in DOMAIN s : s[k] \in {",", ";"} }, <)
  IN IF s = <<>> THEN r = <<>>
     ELSE /\ Len(r) = Len(cuts) - 1
          /\ \A k \in DOMAIN r : TrimMeaning(SubSeq(s, cuts[k] + 1, cuts[k + 1] - 1), r[k])

(* The two parts and the delimiter between them make up the source.        *)
PairMeaning(s, greedy, r) ==
  \/ /\ \A c \in {",", ";"} : ~Contains(s, c)
     /\ r = IF greedy THEN <<<<>>, s>> ELSE <<s, <<>>>>
  \/ \E c \in {",", ";"} : /\ s = r[1] \o <<c>> \o r[2]
                           /\ \A d \in {",", ";"} : ~Contains(r[IF greedy THEN 2 ELSE 1], d)

(* Each {n} is replaced by the n-th parameter, whatever that contains.     *)
FormatMeaning(t, r) ==
  r = FoldLeft(LAMBDA s, x : s \o (CASE x = "{0}" -> Params[1]
                                    [] x = "{1}" -> Params[2]
                                    [] OTHER     -> <<x>>), <<>>, t)

(* Equal but for the case of letters. *)
CompareMeaning(s, u, is) ==
  is = \E cases \in [DOMAIN s -> BOOLEAN] :
         u = [k \in DOMAIN s |-> IF cases[k] THEN s[k]
                                 ELSE CASE s[k] = "a" -> "A" [] s[k] = "A" -> "a"
                                        [] s[k] = "b" -> "B" [] s[k] = "B" -> "b" [] OTHER -> s[k]]

(* The number that was written, as long as a double can hold it and each factor
   it is scaled by.  Otherwise there are four outcomes: an exception, but for a
   large negative number minus infinity, for a small one zero, and for a zero
   with a large exponent no number at all.                                 *)
StrtodMeaning(n, r) ==
  LET digits == n.whole \o n.decs
      exp    == (IF n.esign = <<"-">> THEN -1 ELSE 1) * NumberOf(n.power, 10) - Len(n.decs)
      first  == SelectInSeq(digits, LAMBDA d : d # "0")
      order  == exp + Len(digits) - first
      number == (IF n.sign = <<"-">> THEN -1 ELSE 1) * NumberOf(digits, 10)
  IN CASE digits = <<>> \/ exp \notin MinExp..MaxExp -> r.is = "throws"
       [] OTHER ->
            CASE first = 0 -> IF exp <= MostPower THEN r = Finite(0, 0) ELSE r.is = "nan" \/ r = Finite(0, 0)
              [] first # 0 /\ order > MostPower -> r.is = IF number < 0 THEN "-inf" ELSE "throws"
              [] first # 0 /\ order < LeastPower -> r = Finite(0, 0)
              [] OTHER -> r = Finite(number, exp) \/ (-exp > MostPower /\ r = Finite(0, 0))

(* Every string function gives what its documentation says: trim() strips
   all blanks and nothing else, tokenize() cuts at every delimiter and keeps
   empty fields, the pair is cut once, compare() ignores case and nothing else,
   format() puts each parameter in its place and does not read parameters for
   markers, and a conversion to a double returns the number written when it is
   in range and has one of the four outcomes of StrtodMeaning when it is not. *)
StringMeaning ==
  CASE textCall.op = "trim"     -> TrimMeaning(textCall.arg, textCall.is)
    [] textCall.op = "tokenize" -> TokenizeMeaning(textCall.arg, textCall.is)
    [] textCall.op = "pair"     -> PairMeaning(textCall.arg[1], textCall.arg[2], textCall.is)
    [] textCall.op = "compare"  -> CompareMeaning(textCall.arg[1], textCall.arg[2], textCall.is)
    [] textCall.op = "format"   -> FormatMeaning(textCall.arg, textCall.is)
    [] textCall.op = "strtod"   -> StrtodMeaning(textCall.arg, textCall.is)
    [] OTHER                    -> TRUE
=============================================================================
