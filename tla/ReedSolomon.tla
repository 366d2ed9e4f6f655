---------------------------- MODULE ReedSolomon ----------------------------
(***************************************************************************)
(* Forward error correction: the field GF(2^8) of fec/rgtp_gf256.c, the    *)
(* encoder of fec/rgtp_rs_encode.c, the erasure decoder of                 *)
(* fec/rgtp_rs_decode.c and the region multiply of fec/rgtp_rs_simd.c.     *)
(* Arrays keep the 0-based indices of the code.                            *)
(***************************************************************************)
EXTENDS Naturals, Integers, Sequences, SequencesExt, FiniteSets

CONSTANTS
  CodeSizes,        \* the (k, n) pairs in use
  Symbols,      \* byte values of data and received words
  Scalars,      \* multipliers of a region
  RegionLens    \* lengths of a region

VARIABLES
  block,        \* one block: k, n, data, received, erasure_pos, code, data_out
  region        \* the last region multiply: build, c, src and dst

fecVars == <<block, region>>

Upto(n) == [i \in 1 .. n |-> i - 1]

\* The bitwise exclusive or, the addition of the field.
GfAdd[a \in Nat, b \in Nat] ==
  IF a = 0 THEN b ELSE IF b = 0 THEN a ELSE ((a + b) % 2) + 2 * GfAdd[a \div 2, b \div 2]

-----------------------------------------------------------------------------
(* gf256_init and the field operations                                     *)

Doubled[x \in 0 .. 255] == IF 2 * x >= 256 THEN GfAdd[2 * x, 285] ELSE 2 * x

\* alpha^0 .. alpha^254 by doubling from 1, sixteen at a time.
DoubledTimes[x \in 0 .. 255, m \in 0 .. 16] == IF m = 0 THEN x ELSE Doubled[DoubledTimes[x, m - 1]]
RowStart[r \in 0 .. 15] == IF r = 0 THEN 1 ELSE DoubledTimes[RowStart[r - 1], 16]
Powers == [i \in 1 .. 255 |-> DoubledTimes[RowStart[(i - 1) \div 16], (i - 1) % 16]] \o <<>>
Logs == [x \in 1 .. 255 |-> CHOOSE i \in 0 .. 254 : Powers[i + 1] = x] \o <<>>

\* The antilog table holds the powers twice over; log(0) is 0 by convention.
gf_exp(i) == Powers[1 + (i % 255)]
gf_log(x) == IF x = 0 THEN 0 ELSE Logs[x]

GfMul(a, b) == IF a = 0 \/ b = 0 THEN 0 ELSE gf_exp(gf_log(a) + gf_log(b))

GfInv(a) == gf_exp(255 - gf_log(a))

GfPow(a, p) == IF p = 0 THEN 1 ELSE IF a = 0 THEN 0 ELSE gf_exp((gf_log(a) * p) % 255)

-----------------------------------------------------------------------------
(* rgtp_rs_encode                                                          *)

\* g(x) * (x + alpha^i).
TimesRoot(g, i) ==
  [j \in 0 .. i + 1 |-> GfAdd[IF j <= i THEN GfMul(g[j], GfPow(2, i)) ELSE 0,
                            IF j > 0 THEN g[j - 1] ELSE 0]]

BuildGenerator(t) == FoldLeft(TimesRoot, [j \in {0} |-> 1], Upto(t))

\* The shift register takes the data symbols from the last to the first.
Parity(k, n, data) ==
  LET t == n - k
      g == BuildGenerator(t)
      shift(reg, i) == LET feedback == GfAdd[data[i], reg[t - 1]]
                       IN  [j \in 0 .. t - 1 |-> GfAdd[IF j > 0 THEN reg[j - 1] ELSE 0,
                                                     GfMul(feedback, g[j])]]
  IN  FoldLeft(shift, [j \in 0 .. t - 1 |-> 0], Reverse(Upto(k)))

-----------------------------------------------------------------------------
(* rgtp_rs_decode                                                          *)

\* Mutation: a column is cleared below the pivot only.
ClearsBelow(row, col) == row > col

\* Every row but the pivot's has the column eliminated.
Clears(row, col) == row # col

\* One column of gauss_elim: pivot, swap, scale, eliminate.
Eliminate(k, mat, col) ==
  LET rows == {r \in col .. k - 1 : mat[r][col] # 0}
      pivot == CHOOSE r \in rows : \A q \in rows : r <= q
      swapped == [mat EXCEPT ![col] = mat[pivot], ![pivot] = mat[col]]
      inv == GfInv(swapped[col][col])
      scaled == [j \in 0 .. k |-> IF j < col THEN swapped[col][j] ELSE GfMul(swapped[col][j], inv)]
  IN  IF mat = <<>> \/ rows = {} THEN <<>>
      ELSE [r \in 0 .. k - 1 |->
             IF r = col THEN scaled
             ELSE IF ~Clears(r, col) THEN swapped[r]
             ELSE [j \in 0 .. k |-> IF j < col THEN swapped[r][j]
                                    ELSE GfAdd[swapped[r][j], GfMul(swapped[r][col], scaled[j])]]]

\* The first k positions that are not erased.
GoodPos(k, n, erasure_pos) ==
  LET erased == {erasure_pos[i] : i \in DOMAIN erasure_pos}
      good == SelectSeq(Upto(n), LAMBDA p : p \notin erased)
  IN  SubSeq(good, 1, k)

\* <<>> stands for the singular matrix.
Solved(k, good, received) ==
  FoldLeft(LAMBDA mat, col : Eliminate(k, mat, col),
           [row \in 0 .. k - 1 |->
             [col \in 0 .. k |-> IF col = k THEN received[good[row + 1]]
                                 ELSE GfPow(2, good[row + 1] * col)]],
           Upto(k))

-----------------------------------------------------------------------------
(* The calls                                                               *)

Idle == [k |-> 1, n |-> 2, step |-> "idle", data |-> <<>>, received |-> <<>>,
         erasure_pos |-> <<>>, code |-> "RGTP_OK", data_out |-> <<>>]

FecInit ==
  /\ block = Idle
  /\ region = [build |-> "none", c |-> 0, src |-> <<>>, before |-> <<>>, dst |-> <<>>]

RGTP_RS_MAX_N == 255
RGTP_RS_MAX_T == 127

BadSizes(k, n) == k = 0 \/ n = 0 \/ k >= n \/ n > RGTP_RS_MAX_N

\* RGTP_ERR_INVALID_ARG: nothing is written.
RsEncodeRefused(k, n) ==
  /\ block.step = "idle"
  /\ region.build = "none"
  /\ BadSizes(k, n)
  /\ block' = [block EXCEPT !.k = k, !.n = n, !.step = "refused"]
  /\ UNCHANGED region

\* The sender puts the k data symbols first and the parity after them.  More than
\* RGTP_RS_MAX_T parity symbols overrun the arrays for the generator and the register;
\* the code does not check for them, and they are outside of the model.
RsEncode(k, n, data) ==
  /\ ~BadSizes(k, n)
  /\ n - k <= RGTP_RS_MAX_T
  /\ block.step = "idle"
  /\ region.build = "none"
  /\ LET parity == Parity(k, n, data)
     IN  block' = [block EXCEPT !.k = k, !.n = n, !.step = "encoded", !.data = data,
                     !.received = [p \in 0 .. n - 1 |-> IF p < k THEN data[p] ELSE parity[p - k]]]
  /\ UNCHANGED region

\* A word from elsewhere reaches the decoder.
WordArrives(k, n, word) ==
  /\ block.step = "idle"
  /\ region.build = "none"
  /\ block' = [block EXCEPT !.k = k, !.n = n, !.step = "arrived", !.received = word]
  /\ UNCHANGED region

\* The network erases symbols and the receiver decodes the rest.
RsDecode(erasure_pos) ==
  LET b == block
      good == GoodPos(b.k, b.n, erasure_pos)
      mat == Solved(b.k, good, b.received)
      tooMany == Len(erasure_pos) > b.n - b.k \/ Len(good) < b.k
  IN
  /\ b.step \in {"encoded", "arrived"}
  /\ block' = [b EXCEPT !.erasure_pos = erasure_pos,
                        !.step = IF b.step = "encoded" THEN "recovered" ELSE "solved",
                        !.code = IF tooMany \/ mat = <<>> THEN "RGTP_ERR_FEC_FAIL" ELSE "RGTP_OK",
                        !.data_out = IF tooMany \/ mat = <<>> THEN <<>>
                                     ELSE [c \in 0 .. b.k - 1 |-> mat[c][b.k]]]
  /\ UNCHANGED region

-----------------------------------------------------------------------------
(* rgtp_gf_mul_region: what rgtp_simd_init selects                         *)

\* The bytes a build multiplies through its nibble tables, in whole vectors; the
\* AVX2 build goes on with 16-byte vectors before its scalar tail.
Vectored(build, len) == IF build = "scalar" THEN 0 ELSE len - (len % 16)

\* Mutation: the table of the high nibbles is built without the shift.
NibbleProductUnshifted(c, x) == GfAdd[GfMul(c, x % 16), GfMul(c, x \div 16)]

NibbleProduct(c, x) == GfAdd[GfMul(c, x % 16), GfMul(c, 16 * (x \div 16))]

\* No call keeps state: a behaviour takes a block, or a region, through the code.
GfMulRegion(build, c, src, dst) ==
  /\ block = Idle
  /\ region.build = "none"
  /\ region' = [build |-> build, c |-> c, src |-> src, before |-> dst, dst |->
       [i \in DOMAIN dst |->
         CASE c = 0 -> dst[i]
           [] c = 1 -> GfAdd[dst[i], src[i]]
           [] c > 1 -> GfAdd[dst[i], IF i < Vectored(build, Cardinality(DOMAIN dst))
                                   THEN NibbleProduct(c, src[i]) ELSE GfMul(c, src[i])]]]
  /\ UNCHANGED block

-----------------------------------------------------------------------------
Words(n) == [0 .. n - 1 -> Symbols]
Erasures(n) == UNION {[1 .. e -> 0 .. n] : e \in 0 .. 3}

RegionCall ==
  \E build \in {"scalar", "vector"}, c \in Scalars, len \in RegionLens :
    GfMulRegion(build, c, [i \in 0 .. len - 1 |-> (37 * i + 5) % 256],
                          [i \in 0 .. len - 1 |-> (11 * i) % 256])

FecNext ==
  \/ \E kn \in CodeSizes : \E data \in Words(kn[1]) : RsEncode(kn[1], kn[2], data)
  \/ \E k, n \in 0 .. 2 : RsEncodeRefused(k, n)
  \/ \E kn \in CodeSizes : \E word \in Words(kn[2]) : WordArrives(kn[1], kn[2], word)
  \/ \E erasure_pos \in Erasures(block.n) : RsDecode(erasure_pos)
  \/ RegionCall

FecSpec == FecInit /\ [][FecNext]_fecVars

FecTypeOK ==
  /\ \A p \in DOMAIN block.received : block.received[p] \in 0 .. 255
  /\ \A c \in DOMAIN block.data_out : block.data_out[c] \in 0 .. 255
  /\ \A i \in DOMAIN region.dst : region.dst[i] \in 0 .. 255

-----------------------------------------------------------------------------
(* Properties.  The reference product multiplies polynomials over GF(2)    *)
(* bit by bit and reduces them by x^8 + x^4 + x^3 + x^2 + 1.               *)

Product(a, b) ==
  FoldLeft(LAMBDA acc, i : GfAdd[Doubled[acc], IF (b \div 2^i) % 2 = 1 THEN a ELSE 0],
           0, Reverse(Upto(8)))

Power(a, p) == FoldLeft(LAMBDA acc, i : Product(acc, a), 1, Upto(p))

\* The polynomial with these coefficients, at x.
Value(coeffs, x) ==
  FoldLeft(LAMBDA acc, i : GfAdd[Product(acc, x), coeffs[i]], 0,
           Reverse(Upto(Cardinality(DOMAIN coeffs))))

\* rgtp_rs_encode yields a word of the code its generator defines: with the parity as
\* the low coefficients, the polynomial vanishes at alpha^0 .. alpha^(n-k-1).
CodewordVanishes ==
  block.step = "encoded" =>
    LET t == block.n - block.k
        word == [i \in 0 .. block.n - 1 |->
                  IF i < t THEN block.received[block.k + i] ELSE block.received[i - t]]
    IN  \A i \in 0 .. t - 1 : Value(word, Power(2, i)) = 0

\* rgtp_rs_decode fails exactly when too many erasures are announced (its matrix is
\* never singular, even for repeated or out-of-range positions), and what it returns is
\* the polynomial of degree below k through the first k symbols that were not erased.
DecodeSolves ==
  block.step \in {"solved", "recovered"} =>
    /\ block.code = "RGTP_OK" <=> Len(block.erasure_pos) <= block.n - block.k
    /\ block.code = "RGTP_OK" =>
         \A i \in 1 .. block.k :
           LET pos == GoodPos(block.k, block.n, block.erasure_pos)[i]
           IN  Value(block.data_out, Power(2, pos)) = block.received[pos]

\* Encoder and decoder are each right about a code of their own, though not the same one.
FecHalvesSound == CodewordVanishes /\ DecodeSolves

\* rgtp_gf_mul_region adds c * src[i] to dst[i], once for every i, whichever build is
\* selected and however the length splits into vectors and a scalar tail.
RegionAgrees ==
  \A i \in DOMAIN region.dst :
    region.dst[i] = GfAdd[region.before[i], Product(region.c, region.src[i])]

\* test_fec.c: "RS encode+decode with no erasures must recover original data"; and
\* rgtp_fec_internal.h: rgtp_rs_decode recovers the data "from any k of n" symbols.
FecRoundTrip ==
  block.step = "recovered" /\ block.code = "RGTP_OK" => block.data_out = block.data
=============================================================================
