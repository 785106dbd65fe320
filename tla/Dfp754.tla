------------------------------- MODULE Dfp754 -------------------------------
(***************************************************************************)
(* dfp754_d32.c, dfp754_d64.c: decimal floating point numbers read from    *)
(* text, scaled, brought to a quantum and written again, in the two        *)
(* encodings a compiler may use: BID, where the significand is a binary    *)
(* number, and DPD, where it is packed in declets of three digits.         *)
(*                                                                         *)
(* A text is its sign and the digits before and after its point.  A string *)
(* of BCD nibbles is the number it spells; the nibble 0xa that quantizedpd *)
(* carries in its last place is worth the same as the digit it turns into. *)
(* A word is its fields, the exponent with the bias taken off.             *)
(*                                                                         *)
(* The 64 bit format has Dec64 declets (5) and 3 Dec64 digits: the one     *)
(* place before the declets is left for a carry.  The 32 bit format has    *)
(* Dec32 declets (2) and uses that place for a digit.                      *)
(***************************************************************************)
EXTENDS Integers, Sequences

CONSTANTS
    Dec64, Dec32,   \* declets of the formats, 5 and 2
    Hid32,          \* the significand from which BID has it in fewer bits:
                    \* 2^23, the highest power of 2 below 10^ND32
    Kept,           \* nibbles in an unsigned int, 8, fewer than ND64
    Texts,          \* what may be read
    Scales, Quanta, \* the arguments of scalbn, the exponents of quantize's r
    MaxOps          \* bound: operations after a number was read

ASSUME Dfp754Assumption == /\ Dec64 \in Nat \ {0} /\ Dec32 \in Nat \ {0}
                           /\ Kept \in Nat \ {0}
                           /\ MaxOps \in Nat
                           /\ Scales \subseteq Int /\ Quanta \subseteq Int
                           /\ Texts \subseteq [neg : BOOLEAN, int : Seq(0 .. 9),
                                               frac : Seq(0 .. 9)]

ND64 == 3 * Dec64
ND32 == 3 * Dec32 + 1

Pow10[k \in Nat] == IF k = 0 THEN 1 ELSE 10 * Pow10[k - 1]

\* A significand of ND32 digits has one bit more than are stored without mark.
ASSUME Hid32Assumption == Hid32 \in Nat \ {0} /\ Pow10[ND32] <= 2 * Hid32

\* The number some digits spell.
NumOf(ds) == LET num_[n \in 0 .. Len(ds)] == IF n = 0 THEN 0 ELSE 10 * num_[n - 1] + ds[n]
             IN  num_[Len(ds)]

-----------------------------------------------------------------------------
(* Declets.  <<h, m, l>> are the bits 9-7, 6-4 and 3-0; `up' is all but the *)
(* last bit of a small digit, `lo' the last bit of any.                     *)

up(d) == 2 * (d \div 2)
lo(d) == d % 2

\* Slip: the second digit's bit is left where the others have it.
pack_declet_Slip(d2, d1, d0) ==
    LET c == 4 * (d2 \div 8) + 2 * (d1 \div 8) + (d0 \div 8) IN
    CASE c = 0 -> <<d2, d1, d0>>
      [] c = 1 -> <<d2, d1, 8 + lo(d0)>>
      [] c = 2 -> <<d2, up(d0) + lo(d1), 10 + lo(d0)>>
      [] c = 3 -> <<d2, 4 + lo(d1), 14 + lo(d0)>>
      [] c = 4 -> <<up(d0) + lo(d2), d1, 12 + lo(d0)>>
      [] c = 5 -> <<up(d1) + lo(d2), 4 + lo(d1), 14 + lo(d0)>>
      [] c = 6 -> <<up(d0) + lo(d2), lo(d1), 14 + lo(d0)>>
      [] c = 7 -> <<lo(d2), 6 + lo(d1), 14 + lo(d0)>>

pack_declet(d2, d1, d0) ==
    LET c == 4 * (d2 \div 8) + 2 * (d1 \div 8) + (d0 \div 8) IN
    CASE c = 0 -> <<d2, d1, d0>>
      [] c = 1 -> <<d2, d1, 8 + lo(d0)>>
      [] c = 2 -> <<d2, up(d0) + lo(d1), 10 + lo(d0)>>
      [] c = 3 -> <<d2, 4 + lo(d1), 14 + lo(d0)>>
      [] c = 4 -> <<up(d0) + lo(d2), d1, 12 + lo(d0)>>
      [] c = 5 -> <<up(d1) + lo(d2), 2 + lo(d1), 14 + lo(d0)>>
      [] c = 6 -> <<up(d0) + lo(d2), lo(d1), 14 + lo(d0)>>
      [] c = 7 -> <<lo(d2), 6 + lo(d1), 14 + lo(d0)>>

\* The three digits again; the last four bits say which form it is, and in
\* the forms with two or three large digits bits 6 and 5 do.
unpack_declet(x) ==
    LET h == x[1]  m == x[2]  l == x[3]
        two == CASE m \div 2 = 2 -> <<h, 8 + lo(m), 8 + lo(l)>>
                 [] m \div 2 = 1 -> <<8 + lo(h), up(h) + lo(m), 8 + lo(l)>>
                 [] m \div 2 = 0 -> <<8 + lo(h), 8 + lo(m), up(h) + lo(l)>>
                 [] m \div 2 = 3 -> <<8 + lo(h), 8 + lo(m), 8 + lo(l)>>
    IN  CASE l < 10 -> x
          [] l \in {10, 11} -> <<h, 8 + lo(m), up(m) + lo(l)>>
          [] l \in {12, 13} -> <<8 + lo(h), m, up(h) + lo(l)>>
          [] l \in {14, 15} -> two

\* The digit of m worth 10^i, its n lowest digits in declets, lowest first,
\* and back.
digit(m, i) == (m \div Pow10[i]) % 10
declets(m, n) == [i \in 1 .. n |-> pack_declet(digit(m, 3*i - 1), digit(m, 3*i - 2),
                                               digit(m, 3*i - 3))]
three(x) == 100 * x[1] + 10 * x[2] + x[3]
undeclet(ds) ==
    LET num_[n \in 0 .. Len(ds)] == IF n = 0 THEN 0
            ELSE num_[n - 1] + three(unpack_declet(ds[n])) * Pow10[3 * (n - 1)]
    IN  num_[Len(ds)]

-----------------------------------------------------------------------------
(* From text to a decimal: [sign, mant, expo].                              *)

\* Zeros at the end of a number.
zeros(n) == CHOOSE k \in 0 .. n : n % Pow10[k] = 0 /\ n % Pow10[k + 1] # 0

\* The digits a rounding passes over are shifted out and come back as zeros:
\* 9s going up and, where roff is -1, 0s going down.  What is above them is
\* masked with an unsigned int, which keeps its lowest `kept' nibbles.
\* Going down from 0 it never comes to an end.
round_bcd(mant, sign, kept) ==
    IF sign THEN LET k == zeros(mant) IN (((mant \div Pow10[k]) % Pow10[kept]) - 1) * Pow10[k]
            ELSE LET k == zeros(mant + 1) IN (((mant \div Pow10[k]) % Pow10[kept]) + 1) * Pow10[k]

RoundHangs(mant, sign) == sign /\ mant = 0

NoZeros(ds) ==
    LET sig == {k \in DOMAIN ds : ds[k] # 0} IN
    IF sig = {} THEN <<>> ELSE SubSeq(ds, CHOOSE k \in sig : \A j \in sig : k <= j, Len(ds))

\* The digits before the point that count, those of them that are read, and
\* those after the point that are.
Whole(t)   == NoZeros(t.int)
First(ds, n) == SubSeq(ds, 1, IF n < Len(ds) THEN n ELSE Len(ds))
Read1(t, nd) == First(Whole(t), nd)
Read2(t, nd) == First(t.frac, nd - Len(Read1(t, nd)))

StartsHigh(ds) == ds # <<>> /\ ds[1] >= 5
Beyond(ds, n)   == SubSeq(ds, n + 1, Len(ds))

\* The first digit left out decides, before the point if digits of the whole
\* part are left out, else after it; but where the whole part has just as many
\* digits as are read it looks at the point instead.
roff(t, nd) ==
    LET left == Beyond(Whole(t), nd) IN
    StartsHigh(left) \/ (Len(Whole(t)) < nd /\ StartsHigh(Beyond(t.frac, Len(Read2(t, nd)))))

unrounded(t, nd) == NumOf(Read1(t, nd) \o Read2(t, nd))

\* Slip: the digits of the whole part that are left out are not counted.
strtobcd_Slip(t, nd, kept) ==
    LET m == unrounded(t, nd) IN
    [sign |-> t.neg, mant |-> IF roff(t, nd) THEN round_bcd(m, t.neg, kept) ELSE m,
     expo |-> 0 - Len(Read2(t, nd))]

strtobcd(t, nd, kept) ==
    LET m == unrounded(t, nd) IN
    [sign |-> t.neg, mant |-> IF roff(t, nd) THEN round_bcd(m, t.neg, kept) ELSE m,
     expo |-> Len(Beyond(Whole(t), nd)) - Len(Read2(t, nd))]

strtobcd64(t) == strtobcd(t, ND64, Kept)
strtobcd32(t) == strtobcd(t, ND32, ND32)
strtoHangs(t, nd) == roff(t, nd) /\ RoundHangs(unrounded(t, nd), t.neg)

-----------------------------------------------------------------------------
(* BID words.  The significand of 64 bit words never reaches 2^53, where    *)
(* they would have it in fewer bits; that of 32 bit words does.             *)

bid64(m, ex, s) == [s |-> s, ex |-> ex, m |-> m]
mant_bid64(x)   == x.m

\* Slip: the significand in fewer bits, but not marked as such.
assemble_bid32_Slip(m, ex, s) == [s |-> s, ex |-> ex, hid |-> FALSE, m |-> m % Hid32]

assemble_bid32(m, ex, s) == [s |-> s, ex |-> ex, hid |-> m >= Hid32, m |-> m % Hid32]
mant_bid32(x) == IF x.hid THEN Hid32 + x.m ELSE x.m

\* The nibbles are mirrored and the first is shifted out: what has one digit
\* too many loses it.
bcd64tobid(b) == bid64(b.mant % Pow10[ND64], b.expo, b.sign)
bcd32tobid(b) == assemble_bid32(b.mant % Pow10[ND32], b.expo, b.sign)

-----------------------------------------------------------------------------
(* DPD words: t is the place before the declets.  In 64 bit words it is     *)
(* never above 1; in 32 bit words one from 8 up is marked and leaves only   *)
(* its last bit.                                                            *)

bcd64todpd(b) == [s |-> b.sign, ex |-> b.expo, t |-> b.mant \div Pow10[3 * Dec64],
                  d |-> declets(b.mant, Dec64)]

bcd32todpd(b) ==
    LET top == b.mant \div Pow10[3 * Dec32] IN
    [s |-> b.sign, ex |-> b.expo, hid |-> top >= 8, t |-> IF top >= 8 THEN lo(top) ELSE top,
     d |-> declets(b.mant, Dec32)]

\* mant_dpd and the unpacking that follows it: the 64 bit version shifts the
\* place before the declets out of the word.
bcd_dpd64(x) == undeclet(x.d)
bcd_dpd32(x) == (IF x.hid THEN 8 + lo(x.t) ELSE x.t) * Pow10[3 * Dec32] + undeclet(x.d)

-----------------------------------------------------------------------------
(* From a word to text.                                                     *)

repeat(d, n) == [i \in 1 .. n |-> d]
digits(m, n) == [i \in 1 .. n |-> digit(m, n - i)]
ndigits(m)   == IF m = 0 THEN 1 ELSE CHOOSE n \in 1 .. m + 1 : Pow10[n - 1] <= m /\ m < Pow10[n]

\* Slip: the digits after the point are not filled up.
bcdtostr_Slip(m, e, s) ==
    IF e < 0 THEN [neg |-> s, int |-> digits(m \div Pow10[-e], ndigits(m \div Pow10[-e])),
                   frac |-> digits(m % Pow10[-e], ndigits(m % Pow10[-e]))]
             ELSE [neg |-> s, int |-> digits(m, ndigits(m)) \o repeat(0, e), frac |-> <<>>]

\* Written from the right: the places after the point, the zeros before it,
\* what is left of the mantissa or a 0.
bcdtostr(m, e, s) ==
    IF e < 0 THEN [neg |-> s, int |-> digits(m \div Pow10[-e], ndigits(m \div Pow10[-e])),
                   frac |-> digits(m % Pow10[-e], -e)]
             ELSE [neg |-> s, int |-> digits(m, ndigits(m)) \o repeat(0, e), frac |-> <<>>]
bcd64tostr(m, e, s) == bcdtostr(m, e, s)
bcd32tostr(m, e, s) == bcdtostr(m, e, s)

\* No sign with a significand of 0; of a binary one, ND digits are written.
bid64tostr(x) == bcd64tostr(mant_bid64(x) % Pow10[ND64], x.ex, x.s /\ mant_bid64(x) # 0)
bid32tostr(x) == bcd32tostr(mant_bid32(x) % Pow10[ND32], x.ex, x.s /\ mant_bid32(x) # 0)
dpd64tostr(x) == bcd64tostr(bcd_dpd64(x), x.ex, x.s /\ (x.t # 0 \/ bcd_dpd64(x) # 0))
dpd32tostr(x) == bcd32tostr(bcd_dpd32(x), x.ex, x.s /\ bcd_dpd32(x) # 0)

-----------------------------------------------------------------------------
(* quantize and scalbn.  quantize cuts digit by digit, rounding each time,  *)
(* and expands only while the significand has room.                         *)

\* Slip: the last digit is cut off.
cut_Slip(m, n) == m \div Pow10[n]
shorter(x) == x \div 10 + (IF x % 10 >= 5 THEN 1 ELSE 0)
cut(m, n) == LET cut_[k \in 0 .. n] == IF k = 0 THEN m ELSE shorter(cut_[k - 1])
             IN  cut_[n]

\* How many zeros there is room for, n at most.
room(m, n, nd) == IF m = 0 THEN n
                  ELSE LET r == nd - ndigits(m) IN IF r < 0 THEN 0 ELSE IF r < n THEN r ELSE n

quantize(m, ex, er, nd) ==
    IF ex < er THEN [m |-> cut(m, er - ex), ex |-> er]
               ELSE [m |-> m * Pow10[room(m, ex - er, nd)], ex |-> ex - room(m, ex - er, nd)]

quantizebid64(x, er) == LET q == quantize(mant_bid64(x), x.ex, er, ND64)
                        IN  bid64(q.m, q.ex, x.s)
quantizebid32(x, er) == LET q == quantize(mant_bid32(x), x.ex, er, ND32)
                        IN  assemble_bid32(q.m, q.ex, x.s)
quantizedpd64(x, er) == LET q == quantize(bcd_dpd64(x), x.ex, er, ND64)
                        IN  bcd64todpd([mant |-> q.m, expo |-> q.ex, sign |-> x.s])
quantizedpd32(x, er) == LET q == quantize(bcd_dpd32(x), x.ex, er, ND32)
                        IN  bcd32todpd([mant |-> q.m, expo |-> q.ex, sign |-> x.s])

\* The exponent's bits are exchanged for those of the sum; exponents of
\* prices never leave the field.
scalbnbid64(x, n) == [x EXCEPT !.ex = @ + n]
scalbnbid32(x, n) == [x EXCEPT !.ex = @ + n]
scalbndpd64(x, n) == [x EXCEPT !.ex = @ + n]
scalbndpd32(x, n) == [x EXCEPT !.ex = @ + n]

-----------------------------------------------------------------------------
(* A program that reads a number and works on it, in each encoding.         *)

Formats == {"bid64", "dpd64", "bid32", "dpd32"}
Digits  == [f \in Formats |-> IF f \in {"bid64", "dpd64"} THEN ND64 ELSE ND32]

strtod(t) == [bid64 |-> bcd64tobid(strtobcd64(t)), dpd64 |-> bcd64todpd(strtobcd64(t)),
              bid32 |-> bcd32tobid(strtobcd32(t)), dpd32 |-> bcd32todpd(strtobcd32(t))]
tostr(x)  == [bid64 |-> bid64tostr(x.bid64), dpd64 |-> dpd64tostr(x.dpd64),
              bid32 |-> bid32tostr(x.bid32), dpd32 |-> dpd32tostr(x.dpd32)]
quantized(x, er) == [bid64 |-> quantizebid64(x.bid64, er), dpd64 |-> quantizedpd64(x.dpd64, er),
                     bid32 |-> quantizebid32(x.bid32, er), dpd32 |-> quantizedpd32(x.dpd32, er)]
scalbnd(x, n) == [bid64 |-> scalbnbid64(x.bid64, n), dpd64 |-> scalbndpd64(x.dpd64, n),
                  bid32 |-> scalbnbid32(x.bid32, n), dpd32 |-> scalbndpd32(x.dpd32, n)]

VARIABLES num,    \* the words
          val,    \* the decimal each format should stand for
          how,    \* "right"; "off" or "carried" once a known fault met it
          ops,    \* operations so far
          hung
dfpvars == <<num, val, how, ops, hung>>

\* The decimal that is meant: the digits that fit, the last one rounded half
\* up.
Meant(t, nd) ==
    LET whole == Len(NoZeros(t.int))
        places == IF whole + Len(t.frac) > nd
                  THEN nd - whole ELSE Len(t.frac)
        places1 == IF places > Len(t.frac) THEN Len(t.frac) ELSE places
        all  == NumOf(t.int \o t.frac)
        drop == Len(t.frac) - places1
    IN  [neg |-> t.neg, e |-> -places1,
         m |-> IF drop = 0 THEN all ELSE (all + 5 * Pow10[drop - 1]) \div Pow10[drop]]

\* What the code is known to get wrong: a negative number is rounded towards
\* zero, or further; a number with as many whole digits as are read is not
\* rounded; the mask takes digits away; a carry leaves the significand.
Fault(t, nd, kept) ==
    LET m == unrounded(t, nd) IN
    IF roff(t, nd) /\ ~t.neg /\ m + 1 = Pow10[nd] THEN "carried"
    ELSE IF \/ roff(t, nd) /\ t.neg
            \/ Len(Whole(t)) = nd /\ StartsHigh(t.frac)
            \/ roff(t, nd) /\ m \div Pow10[zeros(m + 1)] >= Pow10[kept] THEN "off"
    ELSE "right"

Zero == [neg |-> FALSE, int |-> <<>>, frac |-> <<>>]
DfpInit == /\ num = strtod(Zero)
           /\ val = [f \in Formats |-> Meant(Zero, Digits[f])]
           /\ how = [f \in Formats |-> "right"]
           /\ ops = 0 /\ hung = FALSE

\* strtod32(), strtod64().
Read(t) ==
    /\ ops = 0 /\ ~hung
    /\ ~strtoHangs(t, ND64) /\ ~strtoHangs(t, ND32)
    /\ num' = strtod(t)
    /\ val' = [f \in Formats |-> Meant(t, Digits[f])]
    /\ how' = [f \in Formats |-> Fault(t, Digits[f], IF Digits[f] = ND64 THEN Kept ELSE ND32)]
    /\ ops' = 1 /\ UNCHANGED hung

\* The same where round_bcd() goes round for ever.
ReadHangs(t) ==
    /\ ops = 0 /\ ~hung
    /\ strtoHangs(t, ND64) \/ strtoHangs(t, ND32)
    /\ hung' = TRUE /\ UNCHANGED <<num, val, how, ops>>

\* scalbnd32(), scalbnd64().
Scale(n) ==
    /\ ops \in 1 .. MaxOps /\ ~hung
    /\ num' = scalbnd(num, n)
    /\ val' = [f \in Formats |-> [val[f] EXCEPT !.e = @ + n]]
    /\ ops' = ops + 1 /\ UNCHANGED <<how, hung>>

\* Rounded once, to the quantum.
Nearest(v, er, nd) ==
    LET n == er - v.e IN
    IF n > 0 THEN [v EXCEPT !.m = (@ + 5 * Pow10[n - 1]) \div Pow10[n], !.e = er]
    ELSE LET j == CHOOSE j \in 0 .. -n :
                     /\ v.m * Pow10[j] < Pow10[nd]
                     /\ j = -n \/ v.m * Pow10[j + 1] >= Pow10[nd]
         IN  [v EXCEPT !.m = @ * Pow10[j], !.e = @ - j]

\* quantized32(), quantized64().  Where more than one digit is cut the result
\* may have been rounded twice.
Quantise(er) ==
    /\ ops \in 1 .. MaxOps /\ ~hung
    /\ num' = quantized(num, er)
    /\ val' = [f \in Formats |-> IF how[f] = "right" THEN Nearest(val[f], er, Digits[f]) ELSE val[f]]
    /\ how' = [f \in Formats |-> IF how[f] = "right" /\ er - val[f].e > 1 THEN "off" ELSE how[f]]
    /\ ops' = ops + 1 /\ UNCHANGED hung

DfpNext == \/ \E t \in Texts : Read(t) \/ ReadHangs(t)
           \/ \E n \in Scales : Scale(n)
           \/ \E er \in Quanta : Quantise(er)

DfpSpec == DfpInit /\ [][DfpNext]_dfpvars

-----------------------------------------------------------------------------

\* Whatever was read, scaled and quantised, a word prints as the decimal it
\* should stand for, with its exponent's places, unless one of the known
\* faults was met: the digits got from the text, through rounding, nibbles,
\* declets or bits, shifts of the exponent and back, are the right ones.
PrintsRight ==
    \A f \in Formats : how[f] = "right" =>
        LET txt == tostr(num)[f]  v == val[f] IN
        /\ num[f].ex = v.e
        /\ Len(txt.frac) = (IF v.e < 0 THEN -v.e ELSE 0)
        /\ NumOf(txt.int \o txt.frac) = v.m * Pow10[IF v.e < 0 THEN 0 ELSE v.e]
        /\ txt.neg = (v.neg /\ v.m # 0)

\* The two encodings print the same, known faults or not, as long as no carry
\* was lost: what a program prints does not depend on the compiler that
\* chose the encoding.
SameInBoth ==
    LET txt == tostr(num) IN
    /\ txt.bid64 = txt.dpd64
    /\ how["bid32"] # "carried" => txt.bid32 = txt.dpd32
=============================================================================
