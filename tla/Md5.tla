--------------------------------- MODULE Md5 ---------------------------------
(***************************************************************************)
(* encoder_md5, which cuts a stream into blocks.  MD5Transform stays        *)
(* uninterpreted: the chaining value is the sequence of the blocks that it   *)
(* was given.  The 64 bytes of a block and the 32 bits of a word of the      *)
(* count are constants; a word fills one place of a block.                   *)
(***************************************************************************)
EXTENDS Integers, Sequences

CONSTANTS BlockBytes,    \* places of a block
          CounterMod,    \* values of a word of the bit count
          ReadSizes,     \* bytes that encode() asks the stream for at a time
          Messages       \* what the stream holds

LengthWords == 2

ASSUME MD5Assumption ==
  /\ BlockBytes \in Nat /\ BlockBytes > LengthWords
  /\ CounterMod \in Nat \ {0} /\ CounterMod % (8 * BlockBytes) = 0
  /\ ReadSizes \subseteq Nat \ {0} /\ Messages \subseteq Seq(0..255)

VARIABLE md5    \* encoder_md5::encode(): [in, size, read, ctx, at]

Garbage == -1
MD5Init == [in |-> [i \in 1..BlockBytes |-> Garbage], lo |-> 0, hi |-> 0, chain |-> <<>>]

MD5Transform(ctx) == [ctx EXCEPT !.chain = Append(@, ctx.in)]

(* memcpy() of buf to position at of the block.                            *)
Put(ctx, at, buf) ==
  [ctx EXCEPT !.in = [i \in 1..BlockBytes |-> IF i - at \in 1..Len(buf) THEN buf[i - at] ELSE ctx.in[i]]]

Block(s, b) == SubSeq(s, BlockBytes * (b - 1) + 1, BlockBytes * b)

(* The loop over whole blocks, and what is left for the next call.         *)
Chunks(ctx, buf) ==
  LET whole == Len(buf) \div BlockBytes
      taken[n \in 0..whole] ==
        IF n = 0 THEN ctx ELSE MD5Transform(Put(taken[n - 1], 0, Block(buf, n)))
  IN Put(taken[whole], 0, SubSeq(buf, BlockBytes * whole + 1, Len(buf)))

Counted(ctx, len) ==
  LET lo == (ctx.lo + 8 * len) % CounterMod IN
  [ctx EXCEPT !.lo = lo,
              !.hi = (@ + (IF lo < ctx.lo THEN 1 ELSE 0) + (8 * len) \div CounterMod) % CounterMod]

MD5Update(ctx, buf) ==
  LET t == (ctx.lo \div 8) % BlockBytes
      c == Counted(ctx, Len(buf))
      room == BlockBytes - t
  IN IF t = 0 THEN Chunks(c, buf)
     ELSE IF Len(buf) < room THEN Put(c, t, buf)
     ELSE Chunks(MD5Transform(Put(c, t, SubSeq(buf, 1, room))), SubSeq(buf, room + 1, Len(buf)))

Zeros(n) == [i \in 1..n |-> 0]

(* Were the room for the length not compared with what is left of the block. *)
Fault_MD5Final(ctx) ==
  LET count == (ctx.lo \div 8) % BlockBytes
      p     == Put(ctx, count, <<128>> \o Zeros(BlockBytes - 1 - count))
  IN MD5Transform(Put(p, BlockBytes - LengthWords, <<ctx.lo, ctx.hi>>))

MD5Final(ctx) ==
  LET count == (ctx.lo \div 8) % BlockBytes
      left  == BlockBytes - 1 - count
      p     == Put(ctx, count, <<128>>)
      padded == IF left < LengthWords
                THEN Put(MD5Transform(Put(p, count + 1, Zeros(left))), 0, Zeros(BlockBytes - LengthWords))
                ELSE Put(p, count + 1, Zeros(left - LengthWords))
  IN MD5Transform(Put(padded, BlockBytes - LengthWords, <<ctx.lo, ctx.hi>>))

-----------------------------------------------------------------------------
MD5Starts == [in: Messages, size: ReadSizes, read: {0}, ctx: {MD5Init}, at: {"read"}]

(* encode(): the stream fills every read but the one that meets its end.   *)
EncodeRead ==
  LET rest == Len(md5.in) - md5.read
      n    == IF md5.size < rest THEN md5.size ELSE rest
  IN /\ md5.at = "read"
     /\ md5' = [md5 EXCEPT !.read = @ + n,
                           !.ctx = MD5Update(@, SubSeq(md5.in, md5.read + 1, md5.read + n)),
                           !.at = IF n < md5.size THEN "final" ELSE "read"]

EncodeFinal ==
  /\ md5.at = "final"
  /\ md5' = [md5 EXCEPT !.ctx = MD5Final(@), !.at = "done"]

MD5Next == EncodeRead \/ EncodeFinal
MD5Spec == md5 \in MD5Starts /\ [][MD5Next]_md5

-----------------------------------------------------------------------------
(* RFC 1321: the message, a one bit, zeros up to the length field, and the
   length in bits, low word first.                                         *)
LowBits(n)  == (8 * n) % CounterMod
HighBits(n) == ((8 * n) \div CounterMod) % CounterMod
Padding(n)  == CHOOSE z \in 0..(BlockBytes - 1) : (n + 1 + z + LengthWords) % BlockBytes = 0
Padded(s)   == s \o <<128>> \o Zeros(Padding(Len(s))) \o <<LowBits(Len(s)), HighBits(Len(s))>>
Blocks(s)   == [b \in 1..(Len(s) \div BlockBytes) |-> Block(s, b)]

(* The blocks that encoder_md5 transforms are those of the padded message,
   however long it is, however the stream cut it into reads and how often
   the low word of the count wrapped.                                      *)
DigestOfMessage ==
  md5.at = "done" => Len(Padded(md5.in)) % BlockBytes = 0 /\ md5.ctx.chain = Blocks(Padded(md5.in))

(* The inductive invariant: of what was read, the whole blocks have been
   transformed and the rest is at the head of the buffer; the count is that
   of the bits read.                                                       *)
Contexts == [in : [1..BlockBytes -> Int], lo : Nat, hi : Nat, chain : Seq(Seq(Int))]
Held(ctx, s, n, fill) ==
  /\ Len(s) = BlockBytes * n + fill /\ Len(ctx.chain) = n
  /\ \A b \in 1..n : ctx.chain[b] = Block(s, b)
  /\ \A i \in 1..fill : ctx.in[i] = s[BlockBytes * n + i]
DigestInv ==
  /\ md5 \in [in : Messages, size : ReadSizes, read : Nat, ctx : Contexts, at : {"read", "final", "done"}]
  /\ md5.at # "done" =>
       /\ md5.read <= Len(md5.in)
       /\ md5.ctx.lo = LowBits(md5.read) /\ md5.ctx.hi = HighBits(md5.read)
       /\ Held(md5.ctx, SubSeq(md5.in, 1, md5.read), md5.read \div BlockBytes, md5.read % BlockBytes)
  /\ md5.at = "final" => md5.read = Len(md5.in)
  /\ DigestOfMessage
=============================================================================
