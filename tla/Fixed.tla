------------------------------- MODULE Fixed -------------------------------
(* The integer arithmetic of dav2_ops.c and dav2_xf.h: scales as mantissa  *)
(* and shift, rounding multiplies assembled from machine words, and the    *)
(* two ways each loop computes the same value.  The word has 2 * HalfBits  *)
(* bits where the code has 32, so that every operand can be tried; a       *)
(* literal of the code is written as the word size it comes from.          *)
EXTENDS Integers, Sequences, FiniteSets

CONSTANTS HalfBits,             \* 16
          PhiQ,                 \* fraction bits of u in gelu_xf (20)
          PhiStep               \* entries of the table per unit, log2 (7)

ASSUME HalfBitsAssumption == HalfBits \in Nat /\ HalfBits >= 3
ASSUME PhiAssumption == PhiQ \in Nat /\ PhiStep \in 0..PhiQ

H == HalfBits
W == 2 * HalfBits
Magnitude(x) == IF x < 0 THEN -x ELSE x
Signed(x)   == IF x % 2^W >= 2^(W-1) THEN (x % 2^W) - 2^W ELSE x % 2^W
SignedWord  == -(2^(W-1)) .. (2^(W-1) - 1)
Half        == -(2^(H-1)) .. (2^(H-1) - 1)
Mantissa    == 2^(W-2) .. (2^(W-1) - 1)

(* What the code means to compute: v / 2^s to the nearest integer.         *)
HalfUp(v, s)   == IF s = 0 THEN v ELSE (v + 2^(s-1)) \div 2^s
HalfAway(v, s) == IF v < 0 THEN -HalfUp(-v, s) ELSE HalfUp(v, s)

---------------------------------------------------------------------------
(* round(acc * mult / 2^shift) from the two words of the product           *)
mulh(a, b) == (a * b) \div 2^W

\* Variant: the carry of the low half is dropped.
CarryLost(acc, mult, shift) ==
  LET hi  == mulh(acc, mult)
      lo  == (acc * mult) % 2^W
      lo2 == (lo + 2^(shift-1)) % 2^W
  IN IF shift > W THEN (hi + 2^(shift-W-1)) \div 2^(shift-W)
     ELSE IF shift = 0 THEN Signed(lo)
     ELSE Signed(hi * 2^(W-shift) + lo2 \div 2^shift)
apply_multiplier(acc, mult, shift) ==
  LET hi  == mulh(acc, mult)
      lo  == (acc * mult) % 2^W
      lo2 == (lo + 2^(shift-1)) % 2^W
      carry == IF lo2 < lo THEN 1 ELSE 0
  IN IF shift > W THEN (hi + 2^(shift-W-1)) \div 2^(shift-W)
     ELSE IF shift = 0 THEN Signed(lo)
     ELSE Signed((hi + carry) * 2^(W-shift) + lo2 \div 2^shift)

(* The token embedding: v * m / 2^sh, halves away from zero, and the same  *)
(* in words for shifts of half a word and more (dav2_embed_tokens)         *)
mul_xf_round(v, m, sh) == HalfAway(v * m, sh)
EmbedToken(v, m, psh) ==
  LET u   == Magnitude(v)
      lo  == (u * m) % 2^W
      lo2 == (lo + 2^(psh-1)) % 2^W
      hi  == (u * m) \div 2^W + (IF lo2 < lo THEN 1 ELSE 0)
      mag == (hi * 2^(W-psh) + lo2 \div 2^psh) % 2^W
  IN IF v < 0 THEN -mag ELSE mag

(* The residual add's terms (add_range): in two small multiplies for small *)
(* operands, or with the operand moved up half a word                      *)
AddTermSmall(v, m, s) ==
  (v * (m \div 2^H) + (v * (m % 2^H)) \div 2^H + 2^(s-H-1)) \div 2^(s-H)
AddTermSmallPeak(v, m, s) == v * (m \div 2^H) + (v * (m % 2^H)) \div 2^H + 2^(s-H-1)
AddTermWide(v, m, s) == (mulh(v * 2^H, m) + 2^(s-H-1)) \div 2^(s-H)

(* A row's mean in Q16 by two word divisions                               *)
mean_q16(sum, c) ==
  LET u == Magnitude(sum)
      q == u \div c
      m == (q * 2^H + (((u - q * c) * 2^H + c \div 2) % 2^W) \div c) % 2^W
  IN IF sum < 0 THEN -m ELSE m

(* A row's sum of squares: in a word, so many values at a time that it     *)
(* cannot overflow, then added up in two words (row_stats)                 *)
SumTo(x, n) ==
  LET sum[i \in 0..n] == IF i = 0 THEN 0 ELSE sum[i-1] + x[i] IN sum[n]
WordSum(x, n) ==
  LET sum[i \in 0..n] == IF i = 0 THEN 0 ELSE (sum[i-1] + x[i]) % 2^W IN sum[n]
SquaresAtATime == 4
RowQMax == 2^(H-1) - 1
row_stats(row) ==
  LET Start(k) == (k - 1) * SquaresAtATime
      Size(k)  == IF Len(row) - Start(k) < SquaresAtATime THEN Len(row) - Start(k)
                  ELSE SquaresAtATime
      Chunk(k) == WordSum([j \in 1..Size(k) |-> row[Start(k) + j] * row[Start(k) + j]], Size(k))
      chunks   == (Len(row) + SquaresAtATime - 1) \div SquaresAtATime
  IN SumTo([k \in 1..chunks |-> Chunk(k)], chunks)

---------------------------------------------------------------------------
(* Scales: value = m * 2^-sh with a mantissa of W - 1 bits, or zero        *)
Xf(m, sh) == [m |-> m, sh |-> sh]
XF_ZERO   == Xf(0, 0)

(* leading zeros of a two-word number, by halving                          *)
xf_clz64(a) ==
  LET top == a \div 2^W
      steps == Cardinality({n \in 0..W : 2^n < W})
      clz[i \in 0..steps] ==
        IF i = 0 THEN [n |-> IF top = 0 THEN W ELSE 0, x |-> IF top = 0 THEN a % 2^W ELSE top]
        ELSE LET s == clz[i-1]
                 k == W \div 2^i
             IN IF s.x < 2^(W-k) THEN [n |-> s.n + k, x |-> (s.x * 2^k) % 2^W] ELSE s
  IN clz[steps].n

xf_norm(v, sh) ==
  LET a == Magnitude(v)
      s == W + 1 - xf_clz64(a)
      q == IF s > 0 THEN HalfUp(a, s) ELSE a * 2^(-s)
      c == IF s > 0 /\ q >= 2^(W-1) THEN 1 ELSE 0         \* rounding carried
      m == IF c = 1 THEN q \div 2 ELSE q
  IN IF v = 0 THEN XF_ZERO ELSE Xf(IF v < 0 THEN -m ELSE m, sh - s - c)

xf_mul(a, b) == IF a.m = 0 \/ b.m = 0 THEN XF_ZERO ELSE xf_norm(a.m * b.m, a.sh + b.sh)

xf_add(a, b) ==
  LET hi == IF a.sh <= b.sh THEN a ELSE b
      lo == IF a.sh <= b.sh THEN b ELSE a
      d  == lo.sh - hi.sh
      B  == IF d <= W - 1 THEN lo.m * 2^(W-1-d)
            ELSE IF d - (W-1) < W + 8 THEN HalfAway(lo.m, d - (W-1)) ELSE 0
  IN IF a.m = 0 THEN b ELSE IF b.m = 0 THEN a
     ELSE xf_norm(hi.m * 2^(W-1) + B, hi.sh + W - 1)

xf_cmp_abs(a, b) ==
  LET sign(x, y) == IF x > y THEN 1 ELSE IF x < y THEN -1 ELSE 0
  IN IF a.m = 0 THEN (IF b.m = 0 THEN 0 ELSE -1)
     ELSE IF b.m = 0 THEN 1
     ELSE IF a.sh # b.sh THEN (IF a.sh < b.sh THEN 1 ELSE -1)
     ELSE sign(Magnitude(a.m), Magnitude(b.m))

xf_recip(a) ==
  LET x == Magnitude(a.m)
      r == xf_norm((2^(2*W-3) + x \div 2) \div x, 2*W - 3 - a.sh)
  IN IF a.m < 0 THEN [r EXCEPT !.m = -@] ELSE r

xf_round(a, k) ==
  LET s == a.sh - k
  IN IF a.m = 0 \/ s > 2*W - 2 THEN 0
     ELSE IF s <= 0 THEN a.m * 2^(IF -s > W THEN W ELSE -s) ELSE HalfAway(a.m, s)

(* 1/sqrt(a): a chord, then Newton steps, all in words                     *)
xf_rsqrt(a) ==
  LET odd == (W - 2 - a.sh) % 2
      X   == (a.m * 2^odd) % 2^W
      E   == W - 2 - a.sh - odd
      one == 2^(W-2)
      newton(y) == LET xy2 == ((X * (((y * y) \div one) % 2^W)) \div one) % 2^W
                   IN ((y * ((3 * one - xy2) % 2^W)) \div (2 * one)) % 2^W
      y[i \in 0..5] == IF i = 0 THEN one - (X - one) \div 6 ELSE newton(y[i-1])
  IN xf_norm(y[5], W - 2 + E \div 2)

xf_to_mult(a) == IF a.m <= 0 \/ a.sh > 2*W - 2 THEN [mult |-> 0, shift |-> 0]
                 ELSE IF a.sh < 0 THEN [mult |-> 2^(W-1) - 1, shift |-> 0]
                 ELSE [mult |-> a.m, shift |-> a.sh]

(* GELU's table of Phi over -8 .. 8: the entry and fraction an input reads *)
PhiSize == 16 * 2^PhiStep + 1
gelu_xf(x) ==
  IF xf_cmp_abs(x, Xf(2^(W-2), W - 5)) >= 0
    THEN [idx |-> -1, frac |-> 0]                         \* Phi is 1 or 0
    ELSE LET u == xf_round(x, PhiQ) + 8 * 2^PhiQ
         IN [idx |-> u \div 2^(PhiQ - PhiStep), frac |-> u % 2^(PhiQ - PhiStep)]

---------------------------------------------------------------------------
(* Resampling: source row and weight of output row i, h rows to oh         *)
Source(i, h, oh) ==
  LET num == i * (h - 1)
      den == oh - 1
      i0  == IF oh > 1 THEN num \div den ELSE 0
      y0  == IF i0 > h - 1 THEN h - 1 ELSE i0
  IN [y0 |-> y0, y1 |-> IF i0 + 1 < h THEN i0 + 1 ELSE h - 1,
      wq |-> IF oh > 1 THEN ((num % den) * 512 + den) \div (2 * den) ELSE 0]

Weighted(a, b, w) == (a * (256 - w) + b * w) \div 256
Stepped(a, b, w)  == a + ((b - a) * w) \div 256

(* the two row buffers: need[1], need[2] held after, and where             *)
SlotFor(hrow, need, k) ==
  IF hrow[1] = need[k] THEN 1 ELSE IF hrow[2] = need[k] THEN 2
  ELSE IF k = 2 /\ hrow[1] = need[1] THEN 2
  ELSE IF k = 2 /\ hrow[2] = need[1] THEN 1
  ELSE IF hrow[1] = need[3 - k] THEN 2 ELSE 1
interp_step(hrow, need) ==
  LET s1 == SlotFor(hrow, need, 1)
      h1 == [hrow EXCEPT ![s1] = need[1]]
      s2 == SlotFor(h1, need, 2)
  IN [hr |-> <<s1, s2>>, hrow |-> [h1 EXCEPT ![s2] = need[2]]]

---------------------------------------------------------------------------
Shifts == 0..(2*W - 2)

(* Requantisation, the embedding, the residual add and the mean give the   *)
(* rounded quotient whenever it fits the word, none of their words         *)
(* overflowing on the way.                                                 *)
RequantExact ==
  \A m \in Mantissa, acc \in SignedWord, s \in Shifts :
    HalfUp(acc * m, s) \in SignedWord => apply_multiplier(acc, m, s) = HalfUp(acc * m, s)
EmbedExact ==
  \A m \in Mantissa, v \in Half, s \in H..W : EmbedToken(v, m, s) = mul_xf_round(v, m, s)
AddTermsExact ==
  \A m \in Mantissa, v \in Half, s \in (H+1)..(3*H - 1) :
    /\ AddTermWide(v, m, s) = apply_multiplier(v, m, s)
    /\ Magnitude(v) < 2^(H-2) => AddTermSmall(v, m, s) = apply_multiplier(v, m, s)
                               /\ AddTermSmallPeak(v, m, s) \in SignedWord
MeanExact ==
  \A c \in 1..(2^H - 1), sum \in SignedWord :
    Magnitude(sum) < c * 2^(H-1) =>
      mean_q16(sum, c) = (IF sum < 0 THEN -1 ELSE 1) * ((Magnitude(sum) * 2^H + c \div 2) \div c)

(* A row's sum of squares is complete: no word of it overflows.            *)
SumOfSquares(row) == SumTo([i \in 1..Len(row) |-> row[i] * row[i]], Len(row))
RowStatsExact ==
  \A n \in 0..5 : \A row \in [1..n -> {-RowQMax, 2, RowQMax}] : row_stats(row) = SumOfSquares(row)

(* A scale is normalised, the nearest to the number or within a unit of    *)
(* its last place; comparing magnitudes by shift first is right.           *)
Few == {2^(W-2), 2^(W-2) + 1, 2^(W-2) + 2^(W-4), 2^(W-1) - 1}
Scales == {Xf(m, sh) : m \in Few \cup {-n : n \in Few}, sh \in 0..(3*W - 1)}
Normal(x) == x = XF_ZERO \/ Magnitude(x.m) \in Mantissa
(* |x - v 2^-sh| <= n units of x's last place                               *)
Within(x, v, sh, n) ==
  LET t == IF x.sh > sh THEN x.sh ELSE sh
  IN Magnitude(x.m * 2^(t - x.sh) - v * 2^(t - sh)) <= n * 2^(t - x.sh)
(* x is v 2^-sh to the nearest unit of x's last place                       *)
Nearest(x, v, sh) ==
  IF x.sh >= sh THEN x.m = v * 2^(x.sh - sh)
  ELSE 2 * Magnitude(x.m * 2^(sh - x.sh) - v) <= 2^(sh - x.sh)
NormExact ==
  \A v \in (-(2^(2*W-2)))..(2^(2*W-2)) :
    /\ Normal(xf_norm(v, 0))
    /\ v # 0 => 2^(2*W - 1 - xf_clz64(Magnitude(v))) <= Magnitude(v)
                /\ Magnitude(v) < 2^(2*W - xf_clz64(Magnitude(v)))
    /\ Nearest(xf_norm(v, 0), v, 0)
AddExact ==
  \A a \in Scales, b \in Scales :
    a.sh <= b.sh => /\ Normal(xf_add(a, b))
                    /\ Within(xf_add(a, b), a.m * 2^(b.sh - a.sh) + b.m, b.sh, 1)
                    /\ xf_add(b, a) = xf_add(a, b)
CompareExact ==
  \A a \in Scales, b \in Scales :
    LET x == Magnitude(a.m) * 2^(3*W - 1 - a.sh)
        y == Magnitude(b.m) * 2^(3*W - 1 - b.sh)
    IN xf_cmp_abs(a, b) > 0 <=> x > y
RecipExact ==
  \A m \in Mantissa : LET r == xf_recip(Xf(m, 0)) IN
    /\ Normal(r)
    /\ Magnitude(r.m * m - 2^r.sh) <= m
(* y - 4 units < 1 / sqrt(a) < y + 4 units                                 *)
RsqrtExact ==
  \A m \in Mantissa, sh \in 0..1 : LET y == xf_rsqrt(Xf(m, sh)) IN
    /\ Normal(y)
    /\ (y.m - 4) * (y.m - 4) * m <= 2^(2 * y.sh + sh)
    /\ (y.m + 4) * (y.m + 4) * m >= 2^(2 * y.sh + sh)

(* GELU's index stays in the table; the entry after it is read outside     *)
(* only with a zero fraction.                                              *)
GeluInTable ==
  \A m \in Mantissa, sh \in 0..(2*W - 2) : \A x \in {Xf(m, sh), Xf(-m, sh)} :
    LET g == gelu_xf(x) IN
      g.idx # -1 => g.idx \in 0..(PhiSize - 1) /\ (g.idx = PhiSize - 1 => g.frac = 0)

(* Each output row's source rows exist and its weight is the nearest 256th; *)
(* with a weight the second is the next row (the LERP job assumes it).     *)
(* Both needed rows are in the two buffers, whatever they held.            *)
SourceExact ==
  \A h \in 1..7, oh \in 1..9 : \A i \in 0..(oh - 1) :
    LET s == Source(i, h, oh) IN
      /\ s.y0 \in 0..(h - 1) /\ s.y1 \in s.y0..(h - 1) /\ s.wq \in 0..256
      /\ s.wq # 0 => s.y1 = s.y0 + 1
      /\ oh > 1 => Magnitude(256 * (i * (h - 1) - s.y0 * (oh - 1)) - s.wq * (oh - 1)) * 2 <= oh - 1
BlendExact ==
  \A a, b \in -3..3, w \in 0..256 : Stepped(a, b, w) = Weighted(a, b, w)
BuffersExact ==
  \A hrow \in [1..2 -> -1..3], y \in 0..2 : \A need \in {<<y, y>>, <<y, y + 1>>} :
    LET st == interp_step(hrow, need) IN
      \A k \in 1..2 : st.hrow[st.hr[k]] = need[k]

(* The numbers the operations rest on.  "round(acc * mult / 2^shift),      *)
(* exactly" (dav2_ops.c 214); "the same value" (1943); "The same numbers"  *)
(* (2369); the scales' precision that dav2_xf.h states.                    *)
ArithmeticExact ==
  /\ RequantExact /\ EmbedExact /\ AddTermsExact /\ MeanExact /\ RowStatsExact
  /\ NormExact /\ AddExact /\ CompareExact /\ RecipExact /\ RsqrtExact
  /\ GeluInTable /\ SourceExact /\ BlendExact /\ BuffersExact
=============================================================================
