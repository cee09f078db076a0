-------------------------------- MODULE GF256 --------------------------------
(***************************************************************************)
(* The field GF(2^8) of the double-parity recovery (gf256.py): bytes under *)
(* XOR and under the product modulo x^8+x^4+x^3+x^2+1, by tables of powers *)
(* and logarithms of the generator 2, and the solver for two lost columns. *)
(* Columns are sequences of bytes.                                         *)
(***************************************************************************)
EXTENDS Integers, Sequences, SequencesExt

Byte == 0..255

\* 0x11D without its top bit.
_POLY == 29

\* The bit of weight w of a byte, and bytes added bit by bit without a carry.
Bit(b, w) == (b \div w) % 2
XorBit(a, b, w) == w * ((Bit(a, w) + Bit(b, w)) % 2)
XorBits(a, b) ==
  XorBit(a, b, 1) + XorBit(a, b, 2) + XorBit(a, b, 4) + XorBit(a, b, 8)
    + XorBit(a, b, 16) + XorBit(a, b, 32) + XorBit(a, b, 64) + XorBit(a, b, 128)

\* Tables are sequences (concatenation makes TLC compute them once): the entry
\* of byte b is at b + 1.
XorTable ==
  [a \in 1..256 |-> [b \in 1..256 |-> XorBits(a - 1, b - 1)] \o << >>] \o << >>

XorBytes(a, b) == XorTable[a + 1][b + 1]

\* _build_tables: the powers of the generator, one doubling after another.
Doubled(x) == IF 2 * x >= 256 THEN XorBytes(2 * x - 256, _POLY) ELSE 2 * x

GF_EXP == FoldLeft(LAMBDA powers, i : Append(powers, Doubled(Last(powers))),
                   <<1>>, [i \in 1..254 |-> i])

GF_LOG ==
  LET powers == GF_EXP
  IN [x \in 1..255 |-> (CHOOSE i \in 1..255 : powers[i] = x) - 1] \o << >>

gf_mul(a, b) ==
  IF a = 0 \/ b = 0 THEN 0 ELSE GF_EXP[((GF_LOG[a] + GF_LOG[b]) % 255) + 1]

\* Of the generator, to any power.
gf_pow(e) == GF_EXP[(e % 255) + 1]

gf_inv(c) == GF_EXP[((255 - GF_LOG[c]) % 255) + 1]

gf_mul_scalar(c, col) == [i \in DOMAIN col |-> gf_mul(c, col[i])]

\* XOR of the shorter column into a prefix of the longer one.
XorColumns(a, b) ==
  [i \in 1..(IF Len(a) > Len(b) THEN Len(a) ELSE Len(b)) |->
     CASE i > Len(a) -> b[i]
       [] i > Len(b) -> a[i]
       [] OTHER      -> XorBytes(a[i], b[i])]

\* Variant: the two coefficients are swapped.
solve_two_erasures_swapped(pxy, qxy, x, y) ==
  LET d  == gf_inv(XorBytes(gf_pow(y - x), 1))
      A  == gf_mul(gf_pow(-x), d)
      B  == gf_mul(gf_pow(y - x), d)
      dx == XorColumns(gf_mul_scalar(A, pxy), gf_mul_scalar(B, qxy))
  IN <<dx, XorColumns(pxy, dx)>>

\* The columns Dx and Dy with pxy = Dx + Dy and qxy = g^x Dx + g^y Dy, x < y.
solve_two_erasures(pxy, qxy, x, y) ==
  LET d  == gf_inv(XorBytes(gf_pow(y - x), 1))
      A  == gf_mul(gf_pow(y - x), d)
      B  == gf_mul(gf_pow(-x), d)
      dx == XorColumns(gf_mul_scalar(A, pxy), gf_mul_scalar(B, qxy))
  IN <<dx, XorColumns(pxy, dx)>>
=============================================================================
