------------------------------ MODULE Md5Rounds ------------------------------
(***************************************************************************)
(* The rounds of MD5Transform, which Md5 leaves uninterpreted, on words of  *)
(* 32 bits: pairs of a high and a low half.                                 *)
(***************************************************************************)
EXTENDS Integers, Sequences, SequencesExt, Bitwise

Half == 65536
Word(n) == <<n \div Half, n % Half>>
AddWords(v, w) == <<(v[1] + w[1] + (v[2] + w[2]) \div Half) % Half, (v[2] + w[2]) % Half>>
XorWords(v, w) == <<v[1] ^^ w[1], v[2] ^^ w[2]>>
AndWords(v, w) == <<v[1] & w[1], v[2] & w[2]>>
OrWords(v, w)  == <<v[1] | w[1], v[2] | w[2]>>
NotWord(w)     == <<Half - 1 - w[1], Half - 1 - w[2]>>
RotateLeft(w, s) ==
  LET hi == IF s < 16 THEN w[1] ELSE w[2]
      lo == IF s < 16 THEN w[2] ELSE w[1]
      up == 2^(s % 16)
      down == 2^(16 - (s % 16))
  IN <<((hi * up) % Half) + lo \div down, ((lo * up) % Half) + hi \div down>>

-----------------------------------------------------------------------------
(* The four core functions, the addend of each step, which of the 16 words it
   takes and how far it rotates: 16 steps to a round.                      *)
F1(x, y, z) == XorWords(z, AndWords(x, XorWords(y, z)))
F2(x, y, z) == F1(z, x, y)
F3(x, y, z) == XorWords(x, XorWords(y, z))
F4(x, y, z) == XorWords(y, OrWords(x, NotWord(z)))

Round(i) == i \div 16
F(i, x, y, z) ==
  CASE Round(i) = 0 -> F1(x, y, z) [] Round(i) = 1 -> F2(x, y, z)
    [] Round(i) = 2 -> F3(x, y, z) [] Round(i) = 3 -> F4(x, y, z)
Addends == <<
  <<\hD76A, \hA478>>, <<\hE8C7, \hB756>>, <<\h2420, \h70DB>>, <<\hC1BD, \hCEEE>>,
  <<\hF57C, \h0FAF>>, <<\h4787, \hC62A>>, <<\hA830, \h4613>>, <<\hFD46, \h9501>>,
  <<\h6980, \h98D8>>, <<\h8B44, \hF7AF>>, <<\hFFFF, \h5BB1>>, <<\h895C, \hD7BE>>,
  <<\h6B90, \h1122>>, <<\hFD98, \h7193>>, <<\hA679, \h438E>>, <<\h49B4, \h0821>>,
  <<\hF61E, \h2562>>, <<\hC040, \hB340>>, <<\h265E, \h5A51>>, <<\hE9B6, \hC7AA>>,
  <<\hD62F, \h105D>>, <<\h0244, \h1453>>, <<\hD8A1, \hE681>>, <<\hE7D3, \hFBC8>>,
  <<\h21E1, \hCDE6>>, <<\hC337, \h07D6>>, <<\hF4D5, \h0D87>>, <<\h455A, \h14ED>>,
  <<\hA9E3, \hE905>>, <<\hFCEF, \hA3F8>>, <<\h676F, \h02D9>>, <<\h8D2A, \h4C8A>>,
  <<\hFFFA, \h3942>>, <<\h8771, \hF681>>, <<\h6D9D, \h6122>>, <<\hFDE5, \h380C>>,
  <<\hA4BE, \hEA44>>, <<\h4BDE, \hCFA9>>, <<\hF6BB, \h4B60>>, <<\hBEBF, \hBC70>>,
  <<\h289B, \h7EC6>>, <<\hEAA1, \h27FA>>, <<\hD4EF, \h3085>>, <<\h0488, \h1D05>>,
  <<\hD9D4, \hD039>>, <<\hE6DB, \h99E5>>, <<\h1FA2, \h7CF8>>, <<\hC4AC, \h5665>>,
  <<\hF429, \h2244>>, <<\h432A, \hFF97>>, <<\hAB94, \h23A7>>, <<\hFC93, \hA039>>,
  <<\h655B, \h59C3>>, <<\h8F0C, \hCC92>>, <<\hFFEF, \hF47D>>, <<\h8584, \h5DD1>>,
  <<\h6FA8, \h7E4F>>, <<\hFE2C, \hE6E0>>, <<\hA301, \h4314>>, <<\h4E08, \h11A1>>,
  <<\hF753, \h7E82>>, <<\hBD3A, \hF235>>, <<\h2AD7, \hD2BB>>, <<\hEB86, \hD391>> >>
WordOf(i) == LET k == i % 16 IN
  1 + ((CASE Round(i) = 0 -> k [] Round(i) = 1 -> 1 + 5 * k [] Round(i) = 2 -> 5 + 3 * k [] Round(i) = 3 -> 7 * k) % 16)
Shifts == << <<7, 12, 17, 22>>, <<5, 9, 14, 20>>, <<4, 11, 16, 23>>, <<6, 10, 15, 21>> >>

(* Step i on v = <<w, x, y, z>>; the next one changes the last of these.   *)
MD5STEP(v, i, in) ==
  LET sum == AddWords(AddWords(v[1], F(i, v[2], v[3], v[4])), AddWords(in[WordOf(i)], Addends[i + 1]))
  IN <<v[4], AddWords(RotateLeft(sum, Shifts[Round(i) + 1][1 + (i % 4)]), v[2]), v[2], v[3]>>

Rounds(buf, in) ==
  LET abcd == FoldLeft(LAMBDA v, i : MD5STEP(v, i - 1, in), buf, [i \in 1..64 |-> i])
  IN [k \in 1..4 |-> AddWords(buf[k], abcd[k])]

MysteriousConstants ==
  << <<\h6745, \h2301>>, <<\hEFCD, \hAB89>>, <<\h98BA, \hDCFE>>, <<\h1032, \h5476>> >>

(* byteReverse(): four bytes, the lowest first, make a word, and back.     *)
WordsOf(bytes) ==
  [k \in 1..Len(bytes) \div 4 |-> <<256 * bytes[4 * k] + bytes[4 * k - 1], 256 * bytes[4 * k - 2] + bytes[4 * k - 3]>>]
BytesOf(words) ==
  FlattenSeq([k \in DOMAIN words |->
    <<words[k][2] % 256, words[k][2] \div 256, words[k][1] % 256, words[k][1] \div 256>>])

(* The digest of a message that leaves room for the padding in one block.  *)
OneBlock(text) ==
  WordsOf(text \o <<128>> \o [i \in 1..55 - Len(text) |-> 0]) \o <<Word(8 * Len(text)), Word(0)>>
Digest(text) == BytesOf(Rounds(MysteriousConstants, OneBlock(text)))
=============================================================================
