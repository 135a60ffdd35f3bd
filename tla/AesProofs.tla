-------------------------------- MODULE AesProofs --------------------------------
(***************************************************************************)
(* Aes: the rounds of security.c, which unroll, reorder and combine the steps *)
(* of the cipher, compute what the standard's do, and undo them; for every     *)
(* key and every block.                                                      *)
(***************************************************************************)
EXTENDS Aes, SequenceTheorems, TLAPS

-----------------------------------------------------------------------------
(* Exclusive or                                                              *)

\* A byte is its two nibbles.
LEMMA ByteIs ==
    ASSUME NEW a \in Byte
    PROVE  a \div 16 \in Nibble /\ a % 16 \in Nibble /\ a = (16 * (a \div 16)) + (a % 16)
  BY DEF Byte, Nibble

\* Two nibbles are a byte.
LEMMA ByteOf ==
    ASSUME NEW p \in Nibble, NEW q \in Nibble
    PROVE  /\ (16 * p) + q \in Byte
           /\ ((16 * p) + q) \div 16 = p /\ ((16 * p) + q) % 16 = q
  BY DEF Byte, Nibble

\* Exclusive or, a nibble at a time.
LEMMA XorIs ==
    ASSUME NEW a \in Byte, NEW b \in Byte
    PROVE  a ++ b = (16 * XorNibble[a \div 16][b \div 16]) + XorNibble[a % 16][b % 16]
  BY DEF ++, XorByte

\* A bit of a nibble, the sum of two bits, and four of them.
Bit(a, n) == (a \div n) % 2
Plus(x, y) == IF x = y THEN 0 ELSE 1
OfBits(x, y, z, w) == x + (2 * y) + (4 * z) + (8 * w)

\* A bit.
LEMMA BitTyped == ASSUME NEW a \in Nibble, NEW n \in {1, 2, 4, 8} PROVE Bit(a, n) \in {0, 1}
  BY DEF Bit, Nibble

\* A nibble is its four bits.
LEMMA NibbleOfBits ==
    ASSUME NEW a \in Nibble
    PROVE  a = OfBits(Bit(a, 1), Bit(a, 2), Bit(a, 4), Bit(a, 8))
  BY DEF Bit, Nibble, OfBits

\* Four bits are a nibble.
LEMMA BitsOf ==
    ASSUME NEW x \in {0, 1}, NEW y \in {0, 1}, NEW z \in {0, 1}, NEW w \in {0, 1}
    PROVE  LET a == OfBits(x, y, z, w)
           IN  a \in Nibble /\ Bit(a, 1) = x /\ Bit(a, 2) = y /\ Bit(a, 4) = z /\ Bit(a, 8) = w
  BY DEF Bit, OfBits, Nibble

\* Exclusive or of nibbles, a bit at a time.
LEMMA XorNibbleIs ==
    ASSUME NEW a \in Nibble, NEW b \in Nibble
    PROVE  XorNibble[a][b] = OfBits(Plus(Bit(a, 1), Bit(b, 1)), Plus(Bit(a, 2), Bit(b, 2)),
                                    Plus(Bit(a, 4), Bit(b, 4)), Plus(Bit(a, 8), Bit(b, 8)))
<1> DEFINE P(n) == ((a \div n) + (b \div n)) % 2
<1>1. ASSUME NEW n \in {1, 2, 4, 8} PROVE P(n) = Plus(Bit(a, n), Bit(b, n))
  <2>1. \A p, q \in Nat : (p + q) % 2 = Plus(p % 2, q % 2)
    BY DEF Plus
  <2>2. a \div n \in Nat /\ b \div n \in Nat
    BY DEF Nibble
  <2> QED BY <2>1, <2>2 DEF Bit
<1>2. XorNibble[a][b] = (1 * P(1)) + (2 * P(2)) + (4 * P(4)) + (8 * P(8))
  BY DEF XorNibble
<1>3. \A n \in {1, 2, 4, 8} : Plus(Bit(a, n), Bit(b, n)) \in {0, 1}
  BY DEF Plus
<1> HIDE DEF P
<1> QED BY <1>1, <1>2, <1>3 DEF OfBits

\* Its bits, one by one.
LEMMA XorNibbleBits ==
    ASSUME NEW a \in Nibble, NEW b \in Nibble
    PROVE  /\ XorNibble[a][b] \in Nibble
           /\ \A n \in {1, 2, 4, 8} : Bit(XorNibble[a][b], n) = Plus(Bit(a, n), Bit(b, n))
<1>1. \A n \in {1, 2, 4, 8} : Plus(Bit(a, n), Bit(b, n)) \in {0, 1}
  BY DEF Plus
<1> QED BY <1>1, XorNibbleIs, BitsOf

\* The group of the nibbles.
LEMMA XorNibbleAlgebra ==
    ASSUME NEW a \in Nibble, NEW b \in Nibble, NEW c \in Nibble
    PROVE  /\ XorNibble[a][b] = XorNibble[b][a]
           /\ XorNibble[XorNibble[a][b]][c] = XorNibble[a][XorNibble[b][c]]
           /\ XorNibble[a][a] = 0 /\ XorNibble[a][0] = a
<1>1. XorNibble[a][b] = XorNibble[b][a]
  BY XorNibbleIs DEF Plus
<1>2. XorNibble[XorNibble[a][b]][c] = XorNibble[a][XorNibble[b][c]]
  <2>1. /\ XorNibble[a][b] \in Nibble
        /\ \A n \in {1, 2, 4, 8} : Bit(XorNibble[a][b], n) = Plus(Bit(a, n), Bit(b, n))
        /\ XorNibble[b][c] \in Nibble
        /\ \A n \in {1, 2, 4, 8} : Bit(XorNibble[b][c], n) = Plus(Bit(b, n), Bit(c, n))
    BY XorNibbleBits
  <2>2. \A n \in {1, 2, 4, 8} : Bit(a, n) \in {0, 1} /\ Bit(b, n) \in {0, 1} /\ Bit(c, n) \in {0, 1}
    BY BitTyped
  <2>3. \A x, y, z \in {0, 1} : Plus(Plus(x, y), z) = Plus(x, Plus(y, z))
    BY DEF Plus
  <2>4. \A n \in {1, 2, 4, 8} : Plus(Bit(XorNibble[a][b], n), Bit(c, n))
                                = Plus(Bit(a, n), Bit(XorNibble[b][c], n))
    BY <2>1, <2>2, <2>3
  <2> QED BY <2>1, <2>4, XorNibbleIs
<1>3. XorNibble[a][a] = 0
  BY XorNibbleIs DEF Plus, OfBits
<1>4. XorNibble[a][0] = a
  <2>1. 0 \in Nibble /\ \A n \in {1, 2, 4, 8} : Bit(0, n) = 0
    BY DEF Nibble, Bit
  <2>2. \A n \in {1, 2, 4, 8} : Plus(Bit(a, n), 0) = Bit(a, n)
    BY BitTyped DEF Plus
  <2> QED BY <2>1, <2>2, XorNibbleIs, NibbleOfBits
<1> QED BY <1>1, <1>2, <1>3, <1>4

\* Exclusive or stays among the bytes.
LEMMA XorTyped ==
    ASSUME NEW a \in Byte, NEW b \in Byte
    PROVE  a ++ b \in Byte
<1>1. /\ XorNibble[a \div 16][b \div 16] \in Nibble
      /\ XorNibble[a % 16][b % 16] \in Nibble
  BY ByteIs, XorNibbleBits
<1> QED BY <1>1, XorIs, ByteOf

\* The group of the bytes.
LEMMA XorAlgebra ==
    ASSUME NEW a \in Byte, NEW b \in Byte, NEW c \in Byte
    PROVE  /\ a ++ b = b ++ a /\ (a ++ b) ++ c = a ++ (b ++ c)
           /\ a ++ a = 0 /\ a ++ 0 = a /\ 0 ++ a = a
<1> DEFINE High(x) == x \div 16
           Low(x) == x % 16
<1>1. \A x \in Byte : High(x) \in Nibble /\ Low(x) \in Nibble /\ x = (16 * High(x)) + Low(x)
  BY ByteIs
<1>2. \A p, q \in Nibble : High((16 * p) + q) = p /\ Low((16 * p) + q) = q
  BY ByteOf
<1>3. \A x, y \in Byte : x ++ y = (16 * XorNibble[High(x)][High(y)]) + XorNibble[Low(x)][Low(y)]
  BY XorIs
<1>4. \A p, q \in Nibble : XorNibble[p][q] \in Nibble
  BY XorNibbleBits
<1>5. High(0) = 0 /\ Low(0) = 0 /\ 0 \in Byte /\ 0 \in Nibble
  BY DEF Byte, Nibble
<1> HIDE DEF High, Low
<1>6. a ++ b = b ++ a
  BY <1>1, <1>3, XorNibbleAlgebra
<1>7. \A x, y \in Byte : /\ High(x ++ y) = XorNibble[High(x)][High(y)]
                         /\ Low(x ++ y) = XorNibble[Low(x)][Low(y)]
  BY <1>1, <1>2, <1>3, <1>4
<1>8. (a ++ b) ++ c = a ++ (b ++ c)
  <2>1. a ++ b \in Byte /\ b ++ c \in Byte
    BY XorTyped
  <2>2. /\ XorNibble[High(a ++ b)][High(c)] = XorNibble[High(a)][High(b ++ c)]
        /\ XorNibble[Low(a ++ b)][Low(c)] = XorNibble[Low(a)][Low(b ++ c)]
    BY <1>1, <1>7, XorNibbleAlgebra, SMTT(60)
  <2> QED BY <1>3, <2>1, <2>2
<1>9. a ++ a = 0
  <2>1. XorNibble[High(a)][High(a)] = 0 /\ XorNibble[Low(a)][Low(a)] = 0
    BY <1>1, XorNibbleAlgebra
  <2> QED BY <1>3, <2>1
<1>10. a ++ 0 = a
  <2>1. XorNibble[High(a)][0] = High(a) /\ XorNibble[Low(a)][0] = Low(a)
    BY <1>1, XorNibbleAlgebra
  <2>2. a ++ 0 = (16 * High(a)) + Low(a)
    BY <1>3, <1>5, <2>1
  <2> QED BY <1>1, <2>2
<1>11. 0 ++ a = a
  <2>1. XorNibble[0][High(a)] = High(a) /\ XorNibble[0][Low(a)] = Low(a)
    BY <1>1, <1>5, XorNibbleAlgebra
  <2>2. 0 ++ a = (16 * High(a)) + Low(a)
    BY <1>3, <1>5, <2>1
  <2> QED BY <1>1, <2>2
<1> QED BY <1>6, <1>8, <1>9, <1>10, <1>11

\* Sums of sums may be regrouped.
LEMMA Interchange ==
    ASSUME NEW a \in Byte, NEW b \in Byte, NEW c \in Byte, NEW d \in Byte
    PROVE  (a ++ b) ++ (c ++ d) = (a ++ c) ++ (b ++ d)
<1>1. b ++ d \in Byte /\ c ++ d \in Byte
  BY XorTyped
<1>2. (a ++ b) ++ (c ++ d) = a ++ (b ++ (c ++ d))
  BY <1>1, XorAlgebra
<1>3. b ++ (c ++ d) = c ++ (b ++ d)
  <2>1. b ++ (c ++ d) = (b ++ c) ++ d
    BY XorAlgebra
  <2>2. c ++ (b ++ d) = (c ++ b) ++ d
    BY XorAlgebra
  <2>3. b ++ c = c ++ b
    BY XorAlgebra
  <2> QED BY <2>1, <2>2, <2>3
<1>4. a ++ (c ++ (b ++ d)) = (a ++ c) ++ (b ++ d)
  BY <1>1, XorAlgebra
<1> QED BY <1>2, <1>3, <1>4

\* What two sums share drops out.
LEMMA Cancel ==
    ASSUME NEW a \in Byte, NEW b \in Byte, NEW c \in Byte
    PROVE  /\ (a ++ b) ++ (a ++ c) = b ++ c
           /\ (b ++ a) ++ (a ++ c) = b ++ c
           /\ (a ++ b) ++ (c ++ a) = b ++ c
           /\ (b ++ a) ++ (c ++ a) = b ++ c
<1>1. (a ++ b) ++ (a ++ c) = (a ++ a) ++ (b ++ c)
  BY Interchange
<1>2. b ++ c \in Byte /\ a ++ a = 0
  BY XorTyped, XorAlgebra
<1>3. (a ++ b) ++ (a ++ c) = b ++ c
  BY <1>1, <1>2, XorAlgebra
<1>4. b ++ a = a ++ b /\ c ++ a = a ++ c
  BY XorAlgebra
<1> QED BY <1>3, <1>4

\* Added twice, a byte is gone.
LEMMA CancelOne ==
    ASSUME NEW a \in Byte, NEW b \in Byte
    PROVE  a ++ (a ++ b) = b /\ (b ++ a) ++ a = b
<1>1. a ++ (a ++ b) = (a ++ a) ++ b /\ (b ++ a) ++ a = b ++ (a ++ a)
  BY XorAlgebra
<1>2. a ++ a = 0 /\ 0 ++ b = b /\ b ++ 0 = b
  BY XorAlgebra
<1> QED BY <1>1, <1>2

\* A byte that is in two sums drops out of the row.
LEMMA RowIs ==
    ASSUME NEW p \in Byte, NEW q \in Byte, NEW r \in Byte, NEW t \in Byte, NEW w \in Byte
    PROVE  (p ++ w) ++ (((p ++ q) ++ r) ++ t) = ((w ++ q) ++ r) ++ t
<1>1. p ++ w \in Byte /\ p ++ q \in Byte /\ (p ++ q) ++ r \in Byte
  BY XorTyped
<1>2. (p ++ w) ++ (((p ++ q) ++ r) ++ t) = ((p ++ w) ++ ((p ++ q) ++ r)) ++ t
  BY <1>1, XorAlgebra
<1>3. (p ++ w) ++ ((p ++ q) ++ r) = ((p ++ w) ++ (p ++ q)) ++ r
  BY <1>1, XorAlgebra
<1>4. (p ++ w) ++ (p ++ q) = w ++ q
  BY Cancel
<1> QED BY <1>2, <1>3, <1>4

\* The rows of a column once it is mixed, with what is doubled in the first
\* place: what two of them have in common drops out.
LEMMA RowsAdd ==
    ASSUME NEW p \in Byte, NEW q \in Byte, NEW r \in Byte, NEW t \in Byte,
           NEW u \in Byte, NEW v \in Byte
    PROVE  /\ (((u ++ q) ++ r) ++ t) ++ (((v ++ t) ++ p) ++ q) = (u ++ v) ++ (p ++ r)
           /\ (((u ++ q) ++ r) ++ t) ++ (((v ++ r) ++ t) ++ p) = (u ++ v) ++ (q ++ p)
<1>1. /\ r ++ t \in Byte /\ q ++ (r ++ t) \in Byte /\ u ++ q \in Byte /\ (u ++ q) ++ r \in Byte
      /\ t ++ p \in Byte /\ p ++ q \in Byte /\ (t ++ p) ++ q \in Byte /\ v ++ t \in Byte
      /\ (v ++ t) ++ p \in Byte /\ v ++ r \in Byte
       /\ (v ++ r) ++ t \in Byte /\ (r ++ t) ++ p \in Byte
      /\ t ++ (p ++ q) \in Byte
  BY XorTyped
<1>2. ((u ++ q) ++ r) ++ t = u ++ (q ++ (r ++ t))
  BY <1>1, XorAlgebra
<1>3. ((v ++ t) ++ p) ++ q = v ++ ((t ++ p) ++ q)
  BY <1>1, XorAlgebra
<1>4. ((v ++ r) ++ t) ++ p = v ++ ((r ++ t) ++ p)
  BY <1>1, XorAlgebra
<1>5. (q ++ (r ++ t)) ++ ((r ++ t) ++ p) = q ++ p
  BY <1>1, Cancel
<1>6. (q ++ (r ++ t)) ++ ((t ++ p) ++ q) = p ++ r
  <2>1. (q ++ (r ++ t)) ++ ((t ++ p) ++ q) = (r ++ t) ++ (t ++ p)
    BY <1>1, Cancel
  <2>2. (r ++ t) ++ (t ++ p) = r ++ p /\ r ++ p = p ++ r
    BY Cancel, XorAlgebra
  <2> QED BY <2>1, <2>2
<1>7. (u ++ (q ++ (r ++ t))) ++ (v ++ ((t ++ p) ++ q)) = (u ++ v) ++ (p ++ r)
  BY <1>1, <1>6, Interchange
<1>8. (u ++ (q ++ (r ++ t))) ++ (v ++ ((r ++ t) ++ p)) = (u ++ v) ++ (q ++ p)
  BY <1>1, <1>5, Interchange
<1> QED BY <1>2, <1>3, <1>4, <1>7, <1>8

\* So do the corrections "barreto" has added.
LEMMA RowsCancel ==
    ASSUME NEW a \in Byte, NEW e \in Byte, NEW f \in Byte,
           NEW x \in Byte, NEW y \in Byte, NEW z \in Byte
    PROVE  (((a ++ e) ++ (x ++ f)) ++ (y ++ e)) ++ (z ++ f) = a ++ ((x ++ y) ++ z)
<1>1. /\ a ++ e \in Byte /\ x ++ f \in Byte /\ y ++ e \in Byte /\ z ++ f \in Byte
      /\ a ++ x \in Byte /\ e ++ f \in Byte /\ a ++ y \in Byte /\ x ++ y \in Byte
      /\ (a ++ x) ++ y \in Byte /\ (x ++ y) ++ z \in Byte
  BY XorTyped
<1>2. (a ++ e) ++ (x ++ f) = (a ++ x) ++ (e ++ f)
  BY Interchange
<1>3. ((a ++ x) ++ (e ++ f)) ++ (y ++ e) = ((a ++ x) ++ y) ++ f
  <2>1. ((a ++ x) ++ (e ++ f)) ++ (y ++ e) = ((a ++ x) ++ y) ++ ((e ++ f) ++ e)
    BY <1>1, Interchange
  <2>2. (e ++ f) ++ e = f
    <3>1. e ++ f = f ++ e
      BY XorAlgebra
    <3> QED BY <3>1, CancelOne
  <2> QED BY <2>1, <2>2
<1>4. (((a ++ x) ++ y) ++ f) ++ (z ++ f) = ((a ++ x) ++ y) ++ z
  BY <1>1, Cancel
<1>5. ((a ++ x) ++ y) ++ z = a ++ ((x ++ y) ++ z)
  <2>1. (a ++ x) ++ y = a ++ (x ++ y)
    BY XorAlgebra
  <2>2. (a ++ (x ++ y)) ++ z = a ++ ((x ++ y) ++ z)
    BY <1>1, XorAlgebra
  <2> QED BY <2>1, <2>2
<1> QED BY <1>2, <1>3, <1>4, <1>5

-----------------------------------------------------------------------------
(* Doubling                                                                  *)

\* Doubling moves the bits.
LEMMA ShiftIs ==
    ASSUME NEW a \in Byte
    PROVE  LET h == a \div 16
               l == a % 16
               H == OfBits(Bit(l, 8), Bit(h, 1), Bit(h, 2), Bit(h, 4))
               L == OfBits(0, Bit(l, 1), Bit(l, 2), Bit(l, 4))
           IN  /\ H \in Nibble /\ L \in Nibble /\ (2 * a) % 256 = (16 * H) + L
               /\ (a >= 128) <=> Bit(h, 8) = 1
<1> DEFINE h == a \div 16
           l == a % 16
           H == OfBits(Bit(l, 8), Bit(h, 1), Bit(h, 2), Bit(h, 4))
           L == OfBits(0, Bit(l, 1), Bit(l, 2), Bit(l, 4))
<1>1. h \in Nibble /\ l \in Nibble /\ a = (16 * h) + l
  BY ByteIs
<1> HIDE DEF h, l
<1>2. \A n \in {1, 2, 4, 8} : Bit(h, n) \in {0, 1} /\ Bit(l, n) \in {0, 1}
  BY <1>1, BitTyped
<1>3. /\ h = OfBits(Bit(h, 1), Bit(h, 2), Bit(h, 4), Bit(h, 8))
      /\ l = OfBits(Bit(l, 1), Bit(l, 2), Bit(l, 4), Bit(l, 8))
  BY <1>1, NibbleOfBits
<1>4. H \in Nibble /\ L \in Nibble
  BY <1>2 DEF OfBits, Nibble
<1>5. (2 * a) % 256 = (16 * H) + L
  BY <1>1, <1>2, <1>3 DEF OfBits
<1>6. (a >= 128) <=> Bit(h, 8) = 1
  BY <1>1, <1>2, <1>3 DEF OfBits, Nibble
<1> QED BY <1>4, <1>5, <1>6 DEF h, l

\* Doubling goes through a sum.
LEMMA ShiftLinear ==
    ASSUME NEW a \in Byte, NEW b \in Byte
    PROVE  /\ (2 * (a ++ b)) % 256 = ((2 * a) % 256) ++ ((2 * b) % 256)
           /\ (a ++ b >= 128) <=> ((a >= 128) # (b >= 128))
<1> DEFINE h(x) == x \div 16
           l(x) == x % 16
           H(x) == OfBits(Bit(l(x), 8), Bit(h(x), 1), Bit(h(x), 2), Bit(h(x), 4))
           L(x) == OfBits(0, Bit(l(x), 1), Bit(l(x), 2), Bit(l(x), 4))
           S(x) == (2 * x) % 256
<1>1. a ++ b \in Byte
  BY XorTyped
<1>2. \A x \in Byte : /\ h(x) \in Nibble /\ l(x) \in Nibble /\ H(x) \in Nibble /\ L(x) \in Nibble
                      /\ S(x) = (16 * H(x)) + L(x) /\ (x >= 128 <=> Bit(h(x), 8) = 1)
  BY ByteIs, ShiftIs
<1>3. h(a ++ b) = XorNibble[h(a)][h(b)] /\ l(a ++ b) = XorNibble[l(a)][l(b)]
  <2>1. /\ XorNibble[h(a)][h(b)] \in Nibble /\ XorNibble[l(a)][l(b)] \in Nibble
        /\ a ++ b = (16 * XorNibble[h(a)][h(b)]) + XorNibble[l(a)][l(b)]
    BY <1>2, XorIs, XorNibbleBits
  <2> QED BY <2>1, ByteOf
<1> HIDE DEF h, l
<1>4. \A n \in {1, 2, 4, 8} : /\ Bit(h(a ++ b), n) = Plus(Bit(h(a), n), Bit(h(b), n))
                              /\ Bit(l(a ++ b), n) = Plus(Bit(l(a), n), Bit(l(b), n))
  BY <1>2, <1>3, XorNibbleBits
<1>5. (a ++ b >= 128) <=> ((a >= 128) # (b >= 128))
  <2>1. Bit(h(a), 8) \in {0, 1} /\ Bit(h(b), 8) \in {0, 1}
    BY <1>2, BitTyped
  <2> QED BY <1>1, <1>2, <1>4, <2>1 DEF Plus
<1>6. H(a ++ b) = XorNibble[H(a)][H(b)] /\ L(a ++ b) = XorNibble[L(a)][L(b)]
  <2>1. \A x \in {a, b} : \A n \in {1, 2, 4, 8} : Bit(h(x), n) \in {0, 1} /\ Bit(l(x), n) \in {0, 1}
    BY <1>2, BitTyped
  <2>2. \A x \in {a, b} :
           /\ Bit(H(x), 1) = Bit(l(x), 8) /\ Bit(H(x), 2) = Bit(h(x), 1)
           /\ Bit(H(x), 4) = Bit(h(x), 2) /\ Bit(H(x), 8) = Bit(h(x), 4)
           /\ Bit(L(x), 1) = 0 /\ Bit(L(x), 2) = Bit(l(x), 1)
           /\ Bit(L(x), 4) = Bit(l(x), 2) /\ Bit(L(x), 8) = Bit(l(x), 4)
    BY <2>1, BitsOf
  <2>3. Plus(0, 0) = 0
    BY DEF Plus
  <2> HIDE DEF H, L
  <2>4. XorNibble[H(a)][H(b)] = OfBits(
          Plus(Bit(l(a), 8), Bit(l(b), 8)), Plus(Bit(h(a), 1), Bit(h(b), 1)),
          Plus(Bit(h(a), 2), Bit(h(b), 2)), Plus(Bit(h(a), 4), Bit(h(b), 4)))
    BY <1>2, <2>2, XorNibbleIs
  <2>5. XorNibble[L(a)][L(b)] = OfBits(0, Plus(Bit(l(a), 1), Bit(l(b), 1)),
          Plus(Bit(l(a), 2), Bit(l(b), 2)), Plus(Bit(l(a), 4), Bit(l(b), 4)))
    BY <1>2, <2>2, <2>3, XorNibbleIs
  <2> QED BY <1>4, <2>4, <2>5 DEF H, L
<1> HIDE DEF H, L, S
<1>7. S(a ++ b) = S(a) ++ S(b)
  <2>1. S(a) \in Byte /\ S(b) \in Byte
    BY <1>2, ByteOf
  <2>2. /\ S(a) \div 16 = H(a) /\ S(a) % 16 = L(a)
        /\ S(b) \div 16 = H(b) /\ S(b) % 16 = L(b)
    BY <1>2, ByteOf
  <2> QED BY <1>1, <1>2, <1>6, <2>1, <2>2, XorIs
<1> QED BY <1>5, <1>7 DEF S

\* And so does doubling in the field.
LEMMA DoubleLinear ==
    ASSUME NEW a \in Byte, NEW b \in Byte
    PROVE  Double[a] \in Byte /\ Double[a ++ b] = Double[a] ++ Double[b]
<1> DEFINE Shift(x) == (2 * x) % 256
           Carry(x) == IF x >= 128 THEN 27 ELSE 0
<1>1. \A x \in Byte : Shift(x) \in Byte /\ Carry(x) \in Byte /\ 27 \in Byte /\ 0 \in Byte
  BY DEF Byte
<1>2. \A x \in Byte : Double[x] = Shift(x) ++ Carry(x)
  <2> SUFFICES ASSUME NEW x \in Byte PROVE Double[x] = Shift(x) ++ Carry(x)
    OBVIOUS
  <2>1. CASE x < 128
    <3>1. Shift(x) = 2 * x /\ Carry(x) = 0 /\ Double[x] = 2 * x
      BY <2>1 DEF Double, Byte
    <3> QED BY <1>1, <3>1, XorAlgebra
  <2>2. CASE x >= 128
    <3>1. Shift(x) = (2 * x) - 256 /\ Carry(x) = 27 /\ Double[x] = ((2 * x) - 256) ++ 27
      BY <2>2 DEF Double, Byte
    <3> QED BY <3>1
  <2> QED BY <2>1, <2>2 DEF Byte
<1>3. a ++ b \in Byte
  BY XorTyped
<1>4. Shift(a ++ b) = Shift(a) ++ Shift(b)
  BY ShiftLinear
<1>5. Carry(a ++ b) = Carry(a) ++ Carry(b)
  <2>1. 27 ++ 27 = 0 /\ 27 ++ 0 = 27 /\ 0 ++ 27 = 27 /\ 0 ++ 0 = 0
    BY <1>1, XorAlgebra
  <2> QED BY <2>1, ShiftLinear
<1> HIDE DEF Shift, Carry
<1>6. (Shift(a) ++ Shift(b)) ++ (Carry(a) ++ Carry(b))
      = (Shift(a) ++ Carry(a)) ++ (Shift(b) ++ Carry(b))
  BY <1>1, Interchange
<1>7. Double[a] \in Byte
  BY <1>1, <1>2, XorTyped
<1> QED BY <1>2, <1>3, <1>4, <1>5, <1>6, <1>7

\* Doubling stays among the bytes.
LEMMA DoubleTyped == \A a \in Byte : Double[a] \in Byte
  BY DoubleLinear

\* galois_mul2 doubles in the field.
LEMMA GaloisIs ==
    ASSUME NEW a \in Byte
    PROVE  galois_mul2(a) = Double[a]
<1>1. (a \div 128 = 1 <=> ~ (a < 128)) /\ (~ (a < 128) => (2 * a) % 256 = (2 * a) - 256)
  BY DEF Byte
<1> QED BY <1>1 DEF galois_mul2, Double

-----------------------------------------------------------------------------
(* The steps                                                                 *)

Block == [Cell -> Byte]

\* The tables are of bytes.
LEMMA SboxTyped == \A i \in 1..256 : sbox[i] \in Byte
  BY DEF sbox, Byte

\* And so is the inverse.
LEMMA RsboxTyped == \A i \in 1..256 : rsbox[i] \in Byte
  BY DEF rsbox, Byte

\* The steps of the code and of the standard, as functions.
LEMMA OperatorsAre ==
    ASSUME NEW s, NEW k
    PROVE  /\ AddRoundKey(s, k) = [i \in Cell |-> s[i] ++ k[i]]
           /\ SubAndShift(s, k)
              = [i \in Cell |-> sbox[(s[ShiftedFrom[i]] ++ k[ShiftedFrom[i]]) + 1]]
           /\ MixColumns(s) = [i \in Cell |->
                  s[i] ++ galois_mul2(s[i] ++ Below(s, i, 1))
                     ++ (s[i] ++ Below(s, i, 1) ++ Below(s, i, 2) ++ Below(s, i, 3))]
           /\ Barreto(s) = [i \in Cell |->
                  s[i] ++ galois_mul2(galois_mul2(s[i] ++ Below(s, i, 2)))]
           /\ UnshiftAndUnsub(s, k) = [i \in Cell |-> rsbox[s[UnshiftedFrom[i]] + 1] ++ k[i]]
           /\ StandardShiftRows(s) = [i \in Cell |-> s[1 + ((i - 1 + 4 * ((i - 1) % 4)) % 16)]]
           /\ StandardMixColumns(s) = [i \in Cell |->
                  Double[s[i]] ++ Triple[Below(s, i, 1)] ++ Below(s, i, 2) ++ Below(s, i, 3)]
  BY DEF AddRoundKey, SubAndShift, MixColumns, Barreto, UnshiftAndUnsub,
         StandardShiftRows, StandardMixColumns, Bytes16, Cell

\* The substitution of a block.
LEMMA SubIs == ASSUME NEW s PROVE Bytes16(LAMBDA i : SubByte[s[i]]) = [i \in Cell |-> SubByte[s[i]]]
  BY DEF Bytes16, Cell

\* The byte below each byte, in its column of four.
Under == <<2, 3, 4, 1, 6, 7, 8, 5, 10, 11, 12, 9, 14, 15, 16, 13>>

\* Four steps down are none.
LEMMA UnderTyped == \A i \in Cell : Under[i] \in Cell /\ Under[Under[Under[Under[i]]]] = i
  BY DEF Under, Cell

\* Below, by that table.
LEMMA BelowIs ==
    ASSUME NEW s, NEW i \in Cell
    PROVE  /\ Below(s, i, 1) = s[Under[i]]
           /\ Below(s, i, 2) = s[Under[Under[i]]]
           /\ Below(s, i, 3) = s[Under[Under[Under[i]]]]
  BY DEF Below, Under, Cell

\* The rows move as in the standard, and back.
LEMMA ShiftedIs ==
    \A i \in Cell : /\ ShiftedFrom[i] \in Cell /\ UnshiftedFrom[i] \in Cell
                    /\ ShiftedFrom[i] = 1 + ((i - 1 + 4 * ((i - 1) % 4)) % 16)
                    /\ ShiftedFrom[UnshiftedFrom[i]] = i /\ UnshiftedFrom[ShiftedFrom[i]] = i
  BY DEF ShiftedFrom, UnshiftedFrom, Cell

\* The row of a column that begins with p, once it is mixed.
Mixed(p, q, r, t) == ((Double[p ++ q] ++ q) ++ r) ++ t

\* A row once it is mixed: by the code, and by the standard.
LEMMA MixedIs ==
    ASSUME NEW p \in Byte, NEW q \in Byte, NEW r \in Byte, NEW t \in Byte
    PROVE  /\ Mixed(p, q, r, t) \in Byte
           /\ (p ++ galois_mul2(p ++ q)) ++ (((p ++ q) ++ r) ++ t) = Mixed(p, q, r, t)
           /\ ((Double[p] ++ Triple[q]) ++ r) ++ t = Mixed(p, q, r, t)
<1>1. p ++ q \in Byte /\ Double[p] \in Byte /\ Double[q] \in Byte /\ Double[p ++ q] \in Byte
  BY XorTyped, DoubleTyped
<1>2. Mixed(p, q, r, t) \in Byte
  <2>1. Double[p ++ q] ++ q \in Byte
    BY <1>1, XorTyped
  <2>2. (Double[p ++ q] ++ q) ++ r \in Byte
    BY <2>1, XorTyped
  <2> QED BY <2>2, XorTyped DEF Mixed
<1>3. (p ++ galois_mul2(p ++ q)) ++ (((p ++ q) ++ r) ++ t) = Mixed(p, q, r, t)
  BY <1>1, GaloisIs, RowIs DEF Mixed
<1>4. ((Double[p] ++ Triple[q]) ++ r) ++ t = Mixed(p, q, r, t)
  <2>1. Triple[q] = Double[q] ++ q
    BY DEF Triple
  <2>2. Double[p] ++ (Double[q] ++ q) = (Double[p] ++ Double[q]) ++ q
    BY <1>1, XorAlgebra
  <2> QED BY <2>1, <2>2, DoubleLinear DEF Mixed
<1> QED BY <1>2, <1>3, <1>4

\* The byte that begins with p in its column, before and after "barreto".
Barretoed(p, r) == p ++ Double[Double[p ++ r]]

\* Barreto undoes the mixing, byte by byte: what security.c does in two
\* steps instead of with the inverse matrix.
LEMMA MixedInverse ==
    ASSUME NEW p \in Byte, NEW q \in Byte, NEW r \in Byte, NEW t \in Byte
    PROVE  LET y0 == Mixed(p, q, r, t)
               y1 == Mixed(q, r, t, p)
               y2 == Mixed(r, t, p, q)
               y3 == Mixed(t, p, q, r)
           IN  Mixed(Barretoed(y0, y2), Barretoed(y1, y3), Barretoed(y2, y0), Barretoed(y3, y1)) = p
<1> DEFINE D(x) == Double[x]
           A == D(p ++ q)
           B == D(q ++ r)
           C == D(r ++ t)
           G == D(t ++ p)
           y0 == ((A ++ q) ++ r) ++ t
           y1 == ((B ++ r) ++ t) ++ p
           y2 == ((C ++ t) ++ p) ++ q
           y3 == ((G ++ p) ++ q) ++ r
           U == p ++ r
           V == q ++ t
           T == (p ++ q) ++ (r ++ t)
           W == D(D(U))
           X == D(D(V))
           S == D(D(D(T)))
           e == S ++ W
           f == S ++ X
<1>1. /\ Mixed(p, q, r, t) = y0 /\ Mixed(q, r, t, p) = y1
      /\ Mixed(r, t, p, q) = y2 /\ Mixed(t, p, q, r) = y3
  BY DEF Mixed
<1>2. \A x, y \in Byte : /\ x ++ y \in Byte /\ D(x) \in Byte
                         /\ D(x ++ y) = D(x) ++ D(y) /\ x ++ y = y ++ x
  BY XorTyped, DoubleLinear, XorAlgebra
<1>3. /\ p ++ q \in Byte /\ q ++ r \in Byte /\ r ++ t \in Byte /\ t ++ p \in Byte
      /\ U \in Byte /\ V \in Byte
  BY <1>2
<1>4. A \in Byte /\ B \in Byte /\ C \in Byte /\ G \in Byte /\ T \in Byte
  BY <1>2, <1>3
<1>5. y0 \in Byte /\ y1 \in Byte /\ y2 \in Byte /\ y3 \in Byte
  BY <1>1, MixedIs
<1>6. /\ D(U) \in Byte /\ D(V) \in Byte /\ D(T) \in Byte
      /\ W \in Byte /\ X \in Byte /\ D(D(T)) \in Byte
  BY <1>2, <1>3, <1>4
<1>7. S \in Byte /\ e \in Byte /\ f \in Byte
  BY <1>2, <1>6
<1>8. U ++ V = T
  BY Interchange
<1>9. (q ++ r) ++ (t ++ p) = T
  <2>1. (q ++ r) ++ (t ++ p) = (q ++ t) ++ (r ++ p)
    BY Interchange
  <2>2. r ++ p = U /\ V ++ U = U ++ V
    BY <1>2, <1>3
  <2> QED BY <1>8, <2>1, <2>2
<1>10. y0 ++ y2 = D(T) ++ U
  <2>1. y0 ++ y2 = (A ++ C) ++ U
    <3>1. A \in Byte /\ C \in Byte
      BY <1>4
    <3> HIDE DEF A, C
    <3> QED BY <3>1, RowsAdd, SMTT(60)
  <2>2. A ++ C = D(T)
    BY <1>2, <1>3
  <2> QED BY <2>1, <2>2
<1>11. y1 ++ y3 = D(T) ++ V
  <2>1. y1 ++ y3 = (B ++ G) ++ (q ++ t)
    <3>1. B \in Byte /\ G \in Byte
      BY <1>4
    <3> HIDE DEF B, G
    <3> QED BY <3>1, RowsAdd
  <2>2. B ++ G = D(T)
    BY <1>2, <1>3, <1>9
  <2> QED BY <2>1, <2>2
<1>12. D(D(y0 ++ y2)) = e /\ D(D(y1 ++ y3)) = f
  BY <1>2, <1>3, <1>6, <1>10, <1>11
<1>13. D(D(y2 ++ y0)) = e /\ D(D(y3 ++ y1)) = f
  <2>1. y2 ++ y0 = y0 ++ y2 /\ y3 ++ y1 = y1 ++ y3
    BY <1>2, <1>5
  <2> QED BY <1>12, <2>1
<1>14. D(y0 ++ y1) = W ++ A
  <2>1. y0 ++ y1 = (A ++ B) ++ (q ++ p)
    <3>1. A \in Byte /\ B \in Byte
      BY <1>4
    <3> HIDE DEF A, B
    <3> QED BY <3>1, RowsAdd, SMTT(60)
  <2>2. A ++ B = D(U)
    <3>1. (p ++ q) ++ (q ++ r) = U
      BY Cancel
    <3> QED BY <1>2, <1>3, <3>1
  <2>3. q ++ p = p ++ q
    BY <1>2
  <2>4. y0 ++ y1 = D(U) ++ (p ++ q)
    BY <2>1, <2>2, <2>3
  <2> QED BY <1>2, <1>3, <1>6, <2>4
<1>15. e ++ f = D(D(T))
  <2>1. e ++ f = W ++ X
    BY <1>6, <1>7, Cancel, SMTT(60)
  <2>2. W ++ X = D(D(U) ++ D(V))
    BY <1>2, <1>6
  <2>3. D(U) ++ D(V) = D(T)
    BY <1>2, <1>3, <1>8
  <2> QED BY <2>1, <2>2, <2>3
<1>16. D((y0 ++ e) ++ (y1 ++ f)) = A ++ e
  <2>1. (y0 ++ e) ++ (y1 ++ f) = (y0 ++ y1) ++ (e ++ f)
    BY <1>5, <1>7, Interchange
  <2>2. y0 ++ y1 \in Byte
    BY <1>2, <1>5
  <2>3. D((y0 ++ y1) ++ D(D(T))) = (W ++ A) ++ S
    BY <1>2, <1>6, <1>14, <2>2
  <2>4. (W ++ A) ++ S = A ++ e
    <3>1. W ++ A = A ++ W
      BY <1>2, <1>4, <1>6
    <3>2. (A ++ W) ++ S = A ++ (W ++ S)
      <4> HIDE DEF A, W, S
      <4> QED BY <1>4, <1>6, <1>7, XorAlgebra
    <3>3. W ++ S = e
      BY <1>2, <1>6, <1>7
    <3> QED BY <3>1, <3>2, <3>3
  <2> QED BY <1>15, <2>1, <2>3, <2>4
<1>17. (y1 ++ y2) ++ y3 = A ++ p
  <2>1. (y1 ++ y2) ++ y3 = (y1 ++ y3) ++ y2
    <3>1. (y1 ++ y2) ++ y3 = y1 ++ (y2 ++ y3) /\ (y1 ++ y3) ++ y2 = y1 ++ (y3 ++ y2)
      BY <1>5, XorAlgebra
    <3>2. y2 ++ y3 = y3 ++ y2
      BY <1>2, <1>5
    <3> QED BY <3>1, <3>2
  <2>2. y2 = C ++ (V ++ p)
    <3>1. y2 = C ++ ((t ++ p) ++ q)
      <4>1. C ++ t \in Byte
        BY <1>2, <1>4
      <4>2. ((C ++ t) ++ p) ++ q = (C ++ t) ++ (p ++ q)
        BY <4>1, XorAlgebra
      <4>3. (C ++ t) ++ (p ++ q) = C ++ (t ++ (p ++ q))
        BY <1>3, <1>4, XorAlgebra
      <4>4. t ++ (p ++ q) = (t ++ p) ++ q
        BY XorAlgebra
      <4> QED BY <4>2, <4>3, <4>4
    <3>2. (t ++ p) ++ q = q ++ (t ++ p) /\ q ++ (t ++ p) = (q ++ t) ++ p
      BY <1>2, <1>3, XorAlgebra
    <3> QED BY <3>1, <3>2
  <2>3. (D(T) ++ V) ++ (C ++ (V ++ p)) = (D(T) ++ C) ++ (V ++ (V ++ p))
    <3>1. V ++ p \in Byte
      BY <1>2, <1>3
    <3> HIDE DEF C, D, T, V
    <3> QED BY <1>3, <1>4, <1>6, <3>1, Interchange, SMTT(60)
  <2>4. V ++ (V ++ p) = p
    BY <1>3, CancelOne
  <2>5. D(T) ++ C = A
    <3>1. D(T) = A ++ C
      BY <1>2, <1>3
    <3> QED BY <1>4, <3>1, CancelOne
  <2> QED BY <1>11, <2>1, <2>2, <2>3, <2>4, <2>5
<1>18. (((A ++ e) ++ (y1 ++ f)) ++ (y2 ++ e)) ++ (y3 ++ f) = p
  <2>1. (((A ++ e) ++ (y1 ++ f)) ++ (y2 ++ e)) ++ (y3 ++ f) = A ++ ((y1 ++ y2) ++ y3)
    <3>1. A \in Byte /\ e \in Byte /\ f \in Byte /\ y1 \in Byte /\ y2 \in Byte /\ y3 \in Byte
      BY <1>4, <1>5, <1>7
    <3> HIDE DEF A, e, f, y1, y2, y3
    <3> QED BY <3>1, RowsCancel, SMTT(100)
  <2> QED BY <1>4, <1>17, <2>1, CancelOne
<1>19. Mixed(y0 ++ e, y1 ++ f, y2 ++ e, y3 ++ f) = p
  BY <1>16, <1>18 DEF Mixed
<1> QED BY <1>1, <1>12, <1>13, <1>19 DEF Barretoed

\* A block is a sequence of sixteen bytes.
LEMMA BlockIs ==
    /\ \A s \in Block : s \in Seq(Byte) /\ Len(s) = 16
    /\ \A s \in Seq(Byte) : Len(s) = 16 => s \in Block
<1>1. ASSUME NEW s \in Block PROVE s \in Seq(Byte) /\ Len(s) = 16
  <2>1. s \in [1..16 -> Byte]
    BY DEF Block, Cell
  <2>2. s \in Seq(Byte)
    <3>1. 16 \in Nat
      OBVIOUS
    <3>2. s \in UNION {[1..n -> Byte] : n \in Nat}
      BY <2>1, <3>1, Zenon
    <3> QED BY <3>2, SeqDef, Zenon
  <2> DEFINE n == Len(s)
  <2>3. n \in Nat /\ 1..n = 1..16
    BY <2>1, <2>2, LenProperties
  <2> HIDE DEF n
  <2>4. n = 16
    <3>1. \A i \in 1..16 : i \in 1..n
      BY <2>3
    <3>2. \A i \in 1..n : i \in 1..16
      BY <2>3
    <3>3. 16 \in 1..n
      BY <3>1
    <3> QED BY <2>3, <3>2, <3>3
  <2> QED BY <2>2, <2>4 DEF n
<1>2. ASSUME NEW s \in Seq(Byte), Len(s) = 16 PROVE s \in Block
  BY <1>2, LenProperties DEF Block, Cell
<1> QED BY <1>1, <1>2

\* The S-box goes there and back.
LEMMA SubByteIs ==
    ASSUME NEW a \in Byte
    PROVE  SubByte[a] \in Byte /\ sbox[a + 1] = SubByte[a] /\ rsbox[SubByte[a] + 1] = a
<1>1. a + 1 \in 1..256
  BY DEF Byte
<1> QED BY <1>1, SboxIsStandard, SboxTyped

\* A round of the standard, as a function.
LEMMA RoundIs ==
    ASSUME NEW s, NEW n
    PROVE  LET shifted == [i \in Cell |-> SubByte[s[ShiftedFrom[i]]]]
           IN  StandardRound(s, n) = IF n = 10 THEN shifted ELSE StandardMixColumns(shifted)
<1> DEFINE sub == [i \in Cell |-> SubByte[s[i]]]
           shifted == [i \in Cell |-> SubByte[s[ShiftedFrom[i]]]]
<1>1. Bytes16(LAMBDA i : SubByte[s[i]]) = sub
  BY SubIs
<1>2. StandardShiftRows(sub) = [i \in Cell |-> sub[1 + ((i - 1 + 4 * ((i - 1) % 4)) % 16)]]
  BY OperatorsAre
<1>3. \A i \in Cell : sub[1 + ((i - 1 + 4 * ((i - 1) % 4)) % 16)] = SubByte[s[ShiftedFrom[i]]]
  BY ShiftedIs
<1>4. StandardShiftRows(sub) = shifted
  BY <1>2, <1>3
<1> HIDE DEF sub, shifted
<1>5. StandardRound(s, n) = IF n = 10 THEN shifted ELSE StandardMixColumns(shifted)
  BY <1>1, <1>4 DEF StandardRound
<1> QED BY <1>5 DEF shifted

\* A round key is added byte by byte.
LEMMA AddTyped ==
    ASSUME NEW s \in Block, NEW k \in Block
    PROVE  AddRoundKey(s, k) \in Block /\ \A i \in Cell : AddRoundKey(s, k)[i] = s[i] ++ k[i]
<1>1. AddRoundKey(s, k) = [i \in Cell |-> s[i] ++ k[i]]
  BY OperatorsAre
<1>2. \A i \in Cell : s[i] ++ k[i] \in Byte
  BY XorTyped DEF Block
<1> QED BY <1>1, <1>2 DEF Block

\* The columns are mixed as in the standard.
LEMMA MixIs ==
    ASSUME NEW s \in Block
    PROVE  /\ MixColumns(s) = StandardMixColumns(s)
           /\ MixColumns(s) \in Block
           /\ \A i \in Cell : MixColumns(s)[i] = Mixed(s[i], s[Under[i]], s[Under[Under[i]]],
                                                      s[Under[Under[Under[i]]]])
<1> DEFINE mixed == [i \in Cell |-> Mixed(s[i], s[Under[i]], s[Under[Under[i]]],
                                         s[Under[Under[Under[i]]]])]
<1>1. \A i \in Cell : /\ s[i] \in Byte /\ s[Under[i]] \in Byte /\ s[Under[Under[i]]] \in Byte
                      /\ s[Under[Under[Under[i]]]] \in Byte
  BY UnderTyped DEF Block
<1>2. MixColumns(s) = mixed
  <2>1. ASSUME NEW i \in Cell
        PROVE  s[i] ++ galois_mul2(s[i] ++ Below(s, i, 1))
                     ++ (s[i] ++ Below(s, i, 1) ++ Below(s, i, 2) ++ Below(s, i, 3))
               = mixed[i]
    <3>1. /\ Below(s, i, 1) = s[Under[i]] /\ Below(s, i, 2) = s[Under[Under[i]]]
          /\ Below(s, i, 3) = s[Under[Under[Under[i]]]]
      BY BelowIs
    <3> DEFINE p == s[i]
               q == s[Under[i]]
               r == s[Under[Under[i]]]
               t == s[Under[Under[Under[i]]]]
    <3>2. p \in Byte /\ q \in Byte /\ r \in Byte /\ t \in Byte
      BY <1>1
    <3>3. mixed[i] = Mixed(p, q, r, t)
      OBVIOUS
    <3> HIDE DEF p, q, r, t, mixed
    <3>4. /\ (p ++ galois_mul2(p ++ q)) ++ (((p ++ q) ++ r) ++ t) = mixed[i]
          /\ ((Double[p] ++ Triple[q]) ++ r) ++ t = mixed[i]
      BY <3>2, <3>3, MixedIs
    <3> QED BY <3>1, <3>4 DEF p, q, r, t
  <2> HIDE DEF mixed
  <2>2. mixed = [i \in Cell |-> mixed[i]]
    BY DEF mixed
  <2> QED BY <2>1, <2>2, OperatorsAre
<1>3. StandardMixColumns(s) = mixed
  <2>1. ASSUME NEW i \in Cell
        PROVE  Double[s[i]] ++ Triple[Below(s, i, 1)] ++ Below(s, i, 2) ++ Below(s, i, 3) = mixed[i]
    <3>1. /\ Below(s, i, 1) = s[Under[i]] /\ Below(s, i, 2) = s[Under[Under[i]]]
          /\ Below(s, i, 3) = s[Under[Under[Under[i]]]]
      BY BelowIs
    <3> DEFINE p == s[i]
               q == s[Under[i]]
               r == s[Under[Under[i]]]
               t == s[Under[Under[Under[i]]]]
    <3>2. p \in Byte /\ q \in Byte /\ r \in Byte /\ t \in Byte
      BY <1>1
    <3>3. mixed[i] = Mixed(p, q, r, t)
      OBVIOUS
    <3> HIDE DEF p, q, r, t, mixed
    <3>4. /\ (p ++ galois_mul2(p ++ q)) ++ (((p ++ q) ++ r) ++ t) = mixed[i]
          /\ ((Double[p] ++ Triple[q]) ++ r) ++ t = mixed[i]
      BY <3>2, <3>3, MixedIs
    <3> QED BY <3>1, <3>4 DEF p, q, r, t
  <2> HIDE DEF mixed
  <2>2. mixed = [i \in Cell |-> mixed[i]]
    BY DEF mixed
  <2>3. StandardMixColumns(s) = [i \in Cell |->
            Double[s[i]] ++ Triple[Below(s, i, 1)] ++ Below(s, i, 2) ++ Below(s, i, 3)]
    BY OperatorsAre
  <2> QED BY <2>1, <2>2, <2>3
<1>4. \A i \in Cell : mixed[i] \in Byte
  BY <1>1, MixedIs
<1> QED BY <1>2, <1>3, <1>4 DEF Block

\* Barreto, byte by byte.
LEMMA BarretoIs ==
    ASSUME NEW s \in Block
    PROVE  /\ Barreto(s) \in Block
           /\ \A i \in Cell : Barreto(s)[i] = Barretoed(s[i], s[Under[Under[i]]])
<1>1. \A i \in Cell : s[i] \in Byte /\ s[Under[Under[i]]] \in Byte
  BY UnderTyped DEF Block
<1>2. ASSUME NEW i \in Cell
      PROVE  /\ s[i] ++ galois_mul2(galois_mul2(s[i] ++ Below(s, i, 2)))
                = Barretoed(s[i], s[Under[Under[i]]])
             /\ Barretoed(s[i], s[Under[Under[i]]]) \in Byte
  <2>1. s[i] ++ s[Under[Under[i]]] \in Byte
    BY <1>1, XorTyped
  <2>2. Double[s[i] ++ s[Under[Under[i]]]] \in Byte
    BY <2>1, DoubleTyped
  <2>3. Double[Double[s[i] ++ s[Under[Under[i]]]]] \in Byte
    BY <2>2, DoubleTyped
  <2> QED BY <1>1, <2>1, <2>2, <2>3, BelowIs, GaloisIs, XorTyped DEF Barretoed
<1>3. Barreto(s) = [i \in Cell |-> s[i] ++ galois_mul2(galois_mul2(s[i] ++ Below(s, i, 2)))]
  BY OperatorsAre
<1> QED BY <1>2, <1>3 DEF Block

\* Mixing, Barreto and mixing again change nothing.
LEMMA MixUndone ==
    ASSUME NEW s \in Block
    PROVE  MixColumns(Barreto(MixColumns(s))) = s
<1> DEFINE m == MixColumns(s)
           b == Barreto(m)
<1>1. m \in Block /\ b \in Block /\ MixColumns(b) \in Block
  BY MixIs, BarretoIs
<1>2. ASSUME NEW i \in Cell PROVE MixColumns(b)[i] = s[i]
  <2> DEFINE j == Under[i]
             k == Under[j]
             l == Under[k]
  <2>1. j \in Cell /\ k \in Cell /\ l \in Cell /\ Under[l] = i
    BY UnderTyped
  <2>2. s[i] \in Byte /\ s[j] \in Byte /\ s[k] \in Byte /\ s[l] \in Byte
    BY <2>1 DEF Block
  <2> HIDE DEF j, k, l
  <2>3. /\ m[i] = Mixed(s[i], s[j], s[k], s[l]) /\ m[j] = Mixed(s[j], s[k], s[l], s[i])
        /\ m[k] = Mixed(s[k], s[l], s[i], s[j]) /\ m[l] = Mixed(s[l], s[i], s[j], s[k])
    BY <2>1, MixIs, ZenonT(60) DEF j, k, l
  <2> HIDE DEF m
  <2>4. /\ b[i] = Barretoed(m[i], m[k]) /\ b[j] = Barretoed(m[j], m[l])
        /\ b[k] = Barretoed(m[k], m[i]) /\ b[l] = Barretoed(m[l], m[j])
    BY <1>1, <2>1, BarretoIs DEF j, k, l
  <2> HIDE DEF b
  <2>5. MixColumns(b)[i] = Mixed(b[i], b[j], b[k], b[l])
    BY <1>1, MixIs DEF j, k, l
  <2>6. Mixed(b[i], b[j], b[k], b[l]) = s[i]
    BY <2>2, <2>3, <2>4, MixedInverse
  <2> QED BY <2>5, <2>6
<1> HIDE DEF m, b
<1>3. MixColumns(b) = s
  BY <1>1, <1>2 DEF Block
<1> QED BY <1>3 DEF m, b

-----------------------------------------------------------------------------
(* The rounds                                                                *)

\* The blocks of a round are blocks.
LEMMA RoundTyped ==
    ASSUME NEW s \in Block, NEW n
    PROVE  StandardRound(s, n) \in Block
<1> DEFINE shifted == [i \in Cell |-> SubByte[s[ShiftedFrom[i]]]]
<1>1. \A i \in Cell : s[ShiftedFrom[i]] \in Byte
  BY ShiftedIs DEF Block
<1>2. \A i \in Cell : SubByte[s[ShiftedFrom[i]]] \in Byte
  BY <1>1, SubByteIs
<1>3. shifted \in Block
  BY <1>2 DEF Block
<1> HIDE DEF shifted
<1>4. StandardMixColumns(shifted) \in Block
  BY <1>3, MixIs
<1> QED BY <1>3, <1>4, RoundIs DEF shifted

\* SubAndShift adds the key before it substitutes, as the standard does.
LEMMA SubAndShiftIs ==
    ASSUME NEW s \in Block, NEW k \in Block
    PROVE  /\ SubAndShift(s, k) = [i \in Cell |-> SubByte[AddRoundKey(s, k)[ShiftedFrom[i]]]]
           /\ SubAndShift(s, k) \in Block
<1>1. SubAndShift(s, k) = [i \in Cell |-> sbox[(s[ShiftedFrom[i]] ++ k[ShiftedFrom[i]]) + 1]]
  BY OperatorsAre
<1>2. ASSUME NEW i \in Cell
      PROVE  /\ sbox[(s[ShiftedFrom[i]] ++ k[ShiftedFrom[i]]) + 1]
                = SubByte[AddRoundKey(s, k)[ShiftedFrom[i]]]
             /\ SubByte[AddRoundKey(s, k)[ShiftedFrom[i]]] \in Byte
  <2>1. ShiftedFrom[i] \in Cell
    BY ShiftedIs
  <2>2. /\ AddRoundKey(s, k)[ShiftedFrom[i]] = s[ShiftedFrom[i]] ++ k[ShiftedFrom[i]]
        /\ AddRoundKey(s, k)[ShiftedFrom[i]] \in Byte
    BY <2>1, AddTyped DEF Block
  <2> QED BY <2>2, SubByteIs
<1> QED BY <1>1, <1>2 DEF Block

\* A turn of aes_encr is a round of the standard; the last adds the last key.
THEOREM EncryptsARound ==
    ASSUME NEW s \in Block, NEW keys, NEW n \in 1..10, keys[n] \in Block
    PROVE  aes_encr(s, keys, n) =
               IF n < 10 THEN StandardRound(AddRoundKey(s, keys[n]), n)
               ELSE AddRoundKey(StandardRound(AddRoundKey(s, keys[n]), n), keys[11])
<1> DEFINE a == AddRoundKey(s, keys[n])
           shifted == [i \in Cell |-> SubByte[a[ShiftedFrom[i]]]]
<1>1. SubAndShift(s, keys[n]) = shifted /\ shifted \in Block
  BY SubAndShiftIs
<1>2. StandardRound(a, n) = IF n = 10 THEN shifted ELSE StandardMixColumns(shifted)
  BY RoundIs
<1> HIDE DEF a, shifted
<1>3. MixColumns(shifted) = StandardMixColumns(shifted)
  BY <1>1, MixIs
<1>4. CASE n < 10
  BY <1>1, <1>2, <1>3, <1>4 DEF aes_encr, a
<1>5. CASE n = 10
  BY <1>1, <1>2, <1>5 DEF aes_encr, a
<1> QED BY <1>4, <1>5

\* What UnshiftAndUnsub does to the substituted and shifted block.
LEMMA Unshifts ==
    ASSUME NEW s \in Block, NEW k \in Block
    PROVE  UnshiftAndUnsub([i \in Cell |-> SubByte[AddRoundKey(s, k)[ShiftedFrom[i]]]], k) = s
<1> DEFINE a == AddRoundKey(s, k)
           shifted == [i \in Cell |-> SubByte[a[ShiftedFrom[i]]]]
<1>1. a \in Block /\ \A i \in Cell : a[i] = s[i] ++ k[i]
  BY AddTyped
<1>2. UnshiftAndUnsub(shifted, k) = [i \in Cell |-> rsbox[shifted[UnshiftedFrom[i]] + 1] ++ k[i]]
  BY OperatorsAre
<1>3. ASSUME NEW i \in Cell PROVE rsbox[shifted[UnshiftedFrom[i]] + 1] ++ k[i] = s[i]
  <2>1. UnshiftedFrom[i] \in Cell /\ ShiftedFrom[UnshiftedFrom[i]] = i
    BY ShiftedIs
  <2>2. shifted[UnshiftedFrom[i]] = SubByte[a[i]]
    BY <2>1
  <2>3. a[i] \in Byte /\ s[i] \in Byte /\ k[i] \in Byte
    BY <1>1 DEF Block
  <2>4. rsbox[SubByte[a[i]] + 1] = a[i]
    BY <2>3, SubByteIs
  <2>5. (s[i] ++ k[i]) ++ k[i] = s[i]
    BY <2>3, CancelOne
  <2> QED BY <1>1, <2>2, <2>4, <2>5
<1> HIDE DEF a, shifted
<1>4. UnshiftAndUnsub(shifted, k) = [i \in Cell |-> s[i]]
  BY <1>2, <1>3
<1>5. s = [i \in Cell |-> s[i]]
  BY DEF Block
<1> QED BY <1>4, <1>5 DEF a, shifted

\* A turn of aes_decr undoes a round of the standard; the first takes the last
\* key off.
THEOREM DecryptsARound ==
    ASSUME NEW s \in Block, NEW keys, NEW n \in 1..10, keys[n] \in Block,
           keys[11] \in Block
    PROVE  LET r == StandardRound(AddRoundKey(s, keys[n]), n)
           IN  aes_decr(IF n = 10 THEN AddRoundKey(r, keys[11]) ELSE r, keys, n) = s
<1> DEFINE a == AddRoundKey(s, keys[n])
           shifted == [i \in Cell |-> SubByte[a[ShiftedFrom[i]]]]
           r == StandardRound(a, n)
<1>1. shifted \in Block
  BY SubAndShiftIs
<1>2. r = IF n = 10 THEN shifted ELSE StandardMixColumns(shifted)
  BY RoundIs
<1>3. UnshiftAndUnsub(shifted, keys[n]) = s
  BY Unshifts
<1>4. a \in Block /\ r \in Block
  BY AddTyped, RoundTyped
<1> HIDE DEF a, r, shifted
<1>5. CASE n = 10
  <2>1. AddRoundKey(AddRoundKey(r, keys[11]), keys[11]) = r
    <3>1. AddRoundKey(r, keys[11]) \in Block
      BY <1>4, AddTyped
    <3>2. /\ AddRoundKey(AddRoundKey(r, keys[11]), keys[11]) \in Block
          /\ \A i \in Cell : AddRoundKey(AddRoundKey(r, keys[11]), keys[11])[i]
                             = (r[i] ++ keys[11][i]) ++ keys[11][i]
      BY <1>4, <3>1, AddTyped
    <3>3. \A i \in Cell : r[i] \in Byte /\ keys[11][i] \in Byte
      BY <1>4 DEF Block
    <3>4. \A i \in Cell : (r[i] ++ keys[11][i]) ++ keys[11][i] = r[i]
      BY <3>3, CancelOne
    <3> QED BY <1>4, <3>2, <3>4 DEF Block
  <2>2. aes_decr(AddRoundKey(r, keys[11]), keys, n) = UnshiftAndUnsub(r, keys[10])
    BY <1>5, <2>1 DEF aes_decr
  <2> QED BY <1>2, <1>3, <1>5, <2>2 DEF r, a
<1>6. CASE n # 10
  <2>1. MixColumns(Barreto(r)) = shifted
    BY <1>1, <1>2, <1>6, MixIs, MixUndone
  <2>2. aes_decr(r, keys, n) = UnshiftAndUnsub(shifted, keys[n])
    BY <1>6, <2>1 DEF aes_decr
  <2> QED BY <1>3, <1>6, <2>2 DEF r, a
<1> QED BY <1>5, <1>6

-----------------------------------------------------------------------------
(* The key schedule                                                          *)

\* A property of 0 that goes from each number to the next holds up to 10.
LEMMA ToTen ==
    ASSUME NEW S, 0 \in S, \A n \in 0..9 : n \in S => n + 1 \in S
    PROVE  \A n \in 0..10 : n \in S
<1>1. 1 \in S /\ 2 \in S
  OBVIOUS
<1>2. 3 \in S /\ 4 \in S
  BY <1>1
<1>3. 5 \in S /\ 6 \in S
  BY <1>2
<1>4. 7 \in S /\ 8 \in S
  BY <1>3
<1>5. 9 \in S /\ 10 \in S
  BY <1>4
<1> QED BY <1>1, <1>2, <1>3, <1>4, <1>5

\* The first word of a round key.
FirstWord(last, n) == [j \in 1..4 |-> last[j] ++ SubByte[last[13 + (j % 4)]]
                                        ++ (IF j = 1 THEN StandardConstant[n] ELSE 0)]

\* The definitions of the round keys, by name: of the code, and of the standard.
IsNext(last, n, f) ==
    f = [i \in Cell |->
            last[i] ++ (IF i > 4 THEN f[i - 4]
                        ELSE sbox[last[RotatedFrom[i]] + 1] ++ (IF i = 1 THEN Rcon[n] ELSE 0))]
IsStandardNext(last, n, f) ==
    f = [i \in Cell |-> IF i <= 4 THEN FirstWord(last, n)[i] ELSE last[i] ++ f[i - 4]]

\* The constants of the code are those of the standard.
LEMMA ConstantsAre ==
    ASSUME NEW n \in 1..10
    PROVE  Rcon[n] = StandardConstant[n] /\ Rcon[n] \in Byte
<1>1. Double[128] = 27
  <2>1. 128 \in Byte /\ 0 \in Byte /\ 27 \in Byte
    BY DEF Byte
  <2>2. Double[128] = 0 ++ 27
    BY <2>1 DEF Double
  <2> QED BY <2>1, <2>2, XorAlgebra
<1>2. Double[27] = 54
  <2>1. 27 \in Byte
    BY DEF Byte
  <2> QED BY <2>1 DEF Double
<1> QED BY <1>1, <1>2 DEF Rcon, StandardConstant, Byte

\* The first word of the code is the standard's.
LEMMA FirstWordIs ==
    ASSUME NEW last \in Block, NEW n \in 1..10, NEW i \in 1..4
    PROVE  /\ FirstWord(last, n)[i] \in Byte
           /\ last[i] ++ (sbox[last[RotatedFrom[i]] + 1] ++ (IF i = 1 THEN Rcon[n] ELSE 0))
              = FirstWord(last, n)[i]
<1>1. RotatedFrom[i] = 13 + (i % 4) /\ RotatedFrom[i] \in Cell /\ i \in Cell
  BY DEF RotatedFrom, Cell
<1> DEFINE a == last[i]
           b == SubByte[last[RotatedFrom[i]]]
           c == IF i = 1 THEN Rcon[n] ELSE 0
<1>2. a \in Byte /\ last[RotatedFrom[i]] \in Byte
  BY <1>1 DEF Block
<1>3. b \in Byte /\ sbox[last[RotatedFrom[i]] + 1] = b
  BY <1>2, SubByteIs
<1>4. c \in Byte
  <2>1. 0 \in Byte
    BY DEF Byte
  <2> QED BY <2>1, ConstantsAre
<1>5. FirstWord(last, n)[i] = (a ++ b) ++ c
  BY <1>1, ConstantsAre DEF FirstWord
<1> HIDE DEF a, b, c
<1>6. (a ++ b) ++ c = a ++ (b ++ c)
  BY <1>2, <1>3, <1>4, XorAlgebra
<1>7. a ++ b \in Byte
  BY <1>2, <1>3, XorTyped
<1>8. (a ++ b) ++ c \in Byte
  BY <1>4, <1>7, XorTyped
<1> QED BY <1>3, <1>5, <1>6, <1>8 DEF a, b, c

\* The two definitions say the same.
LEMMA NextsAgree ==
    ASSUME NEW last \in Block, NEW n \in 1..10, NEW f
    PROVE  IsNext(last, n, f) <=> IsStandardNext(last, n, f)
<1> DEFINE g == [i \in Cell |->
            last[i] ++ (IF i > 4 THEN f[i - 4]
                        ELSE sbox[last[RotatedFrom[i]] + 1] ++ (IF i = 1 THEN Rcon[n] ELSE 0))]
           h == [i \in Cell |-> IF i <= 4 THEN FirstWord(last, n)[i] ELSE last[i] ++ f[i - 4]]
<1>1. ASSUME NEW i \in Cell PROVE g[i] = h[i]
  <2>1. CASE i \in 1..4
    BY <2>1, FirstWordIs
  <2>2. CASE i \in 5..16
    BY <2>2
  <2> QED BY <2>1, <2>2 DEF Cell
<1>2. g = h
  <2>1. g = [i \in Cell |-> g[i]] /\ h = [i \in Cell |-> h[i]]
    OBVIOUS
  <2> HIDE DEF g, h
  <2> QED BY <1>1, <2>1
<1> QED BY <1>2 DEF IsNext, IsStandardNext

\* There is one.
LEMMA NextExists ==
    ASSUME NEW last, NEW n
    PROVE  \E f : IsStandardNext(last, n, f)
<1> DEFINE a == FirstWord(last, n)
           f == [i \in Cell |->
                   IF i <= 4 THEN a[i]
                   ELSE IF i <= 8 THEN last[i] ++ a[i - 4]
                   ELSE IF i <= 12 THEN last[i] ++ (last[i - 4] ++ a[i - 8])
                   ELSE last[i] ++ (last[i - 4] ++ (last[i - 8] ++ a[i - 12]))]
<1>1. ASSUME NEW i \in Cell
      PROVE  f[i] = IF i <= 4 THEN a[i] ELSE last[i] ++ f[i - 4]
  <2> HIDE DEF a
  <2>1. CASE i \in 1..4
    BY <2>1 DEF Cell
  <2>2. CASE i \in 5..8
    BY <2>2 DEF Cell
  <2>3. CASE i \in 9..12
    BY <2>3 DEF Cell
  <2>4. CASE i \in 13..16
    BY <2>4 DEF Cell
  <2> QED BY <2>1, <2>2, <2>3, <2>4 DEF Cell
<1>2. f = [i \in Cell |-> IF i <= 4 THEN a[i] ELSE last[i] ++ f[i - 4]]
  <2>1. f = [i \in Cell |-> f[i]]
    OBVIOUS
  <2> HIDE DEF a, f
  <2> QED BY <1>1, <2>1
<1> HIDE DEF f
<1> QED BY <1>2 DEF IsStandardNext

\* And one only, a block.
LEMMA NextIsBlock ==
    ASSUME NEW last \in Block, NEW n \in 1..10, NEW f, IsStandardNext(last, n, f)
    PROVE  f \in Block /\ \A g : IsStandardNext(last, n, g) => f = g
<1> DEFINE a == FirstWord(last, n)
<1>0. f = [i \in Cell |-> IF i <= 4 THEN a[i] ELSE last[i] ++ f[i - 4]]
  BY DEF IsStandardNext
<1>1. \A i \in Cell : f[i] = IF i <= 4 THEN a[i] ELSE last[i] ++ f[i - 4]
  BY <1>0
<1>2. \A i \in 1..4 : a[i] \in Byte
  BY FirstWordIs
<1>3. \A i \in Cell : last[i] \in Byte
  BY DEF Block
<1> HIDE DEF a
<1>4. \A i \in 1..4 : f[i] \in Byte /\ f[i] = a[i]
  BY <1>1, <1>2 DEF Cell
<1>5. \A i \in 5..8 : i \in Cell /\ i - 4 \in 1..4 /\ f[i] = last[i] ++ f[i - 4]
  BY <1>1 DEF Cell
<1>6. \A i \in 9..12 : i \in Cell /\ i - 4 \in 5..8 /\ f[i] = last[i] ++ f[i - 4]
  BY <1>1 DEF Cell
<1>7. \A i \in 13..16 : i \in Cell /\ i - 4 \in 9..12 /\ f[i] = last[i] ++ f[i - 4]
  BY <1>1 DEF Cell
<1>8. \A i \in 5..8 : f[i] \in Byte
  BY <1>3, <1>4, <1>5, XorTyped
<1>9. \A i \in 9..12 : f[i] \in Byte
  BY <1>3, <1>6, <1>8, XorTyped
<1>10. \A i \in 13..16 : f[i] \in Byte
  BY <1>3, <1>7, <1>9, XorTyped
<1>11. \A i \in Cell : i \in 1..4 \/ i \in 5..8 \/ i \in 9..12 \/ i \in 13..16
  BY DEF Cell
<1>12. f \in Block
  BY <1>0, <1>4, <1>8, <1>9, <1>10, <1>11 DEF Block
<1>13. ASSUME NEW g, IsStandardNext(last, n, g) PROVE f = g
  <2>0. g = [i \in Cell |-> IF i <= 4 THEN a[i] ELSE last[i] ++ g[i - 4]]
    BY <1>13 DEF IsStandardNext, a
  <2>1. \A i \in Cell : g[i] = IF i <= 4 THEN a[i] ELSE last[i] ++ g[i - 4]
    BY <2>0
  <2>2. \A i \in 1..4 : f[i] = g[i]
    BY <1>4, <2>1 DEF Cell
  <2>3. \A i \in 5..8 : f[i] = g[i]
    BY <1>5, <2>1, <2>2
  <2>4. \A i \in 9..12 : f[i] = g[i]
    BY <1>6, <2>1, <2>3
  <2>5. \A i \in 13..16 : f[i] = g[i]
    BY <1>7, <2>1, <2>4
  <2>6. \A i \in Cell : f[i] = g[i]
    BY <1>11, <2>2, <2>3, <2>4, <2>5
  <2>7. f = [i \in Cell |-> f[i]] /\ g = [i \in Cell |-> g[i]]
    BY <1>0, <2>0
  <2> QED BY <2>6, <2>7
<1> QED BY <1>12, <1>13

\* Nothing before a block changes it.
LEMMA AfterNothing ==
    ASSUME NEW f \in Block
    PROVE  <<>> \o f = f
<1>1. f \in Seq(Byte) /\ Len(f) = 16
  BY BlockIs
<1> QED BY <1>1

\* The key schedule of the code is the standard's.
THEOREM NextRoundKeyIs ==
    ASSUME NEW last \in Block, NEW n \in 1..10
    PROVE  NextRoundKey(last, n) = StandardNextKey(last, n) /\ StandardNextKey(last, n) \in Block
<1> DEFINE f == CHOOSE f : IsNext(last, n, f)
           g == CHOOSE g : IsStandardNext(last, n, g)
<1>1. IsStandardNext(last, n, g) /\ IsNext(last, n, f)
  BY NextExists, NextsAgree
<1>2. f = g /\ g \in Block
  <2> HIDE DEF f, g
  <2> QED BY <1>1, NextsAgree, NextIsBlock
<1>3. NextRoundKey(last, n) = <<>> \o [i \in Cell |-> f[i]]
  BY DEF NextRoundKey, IsNext, Bytes16
<1>4. StandardNextKey(last, n) = <<>> \o g
  BY DEF StandardNextKey, IsStandardNext, FirstWord
<1> HIDE DEF f, g
<1>5. f = [i \in Cell |-> f[i]]
  BY <1>2 DEF Block
<1> QED BY <1>2, <1>3, <1>4, <1>5, AfterNothing

-----------------------------------------------------------------------------
(* The eleven round keys, and the eleven blocks                              *)

\* Round keys, or blocks, each made of the one before it.
Chain(first, next, s, n) ==
    /\ s \in Seq(Block) /\ Len(s) = n + 1 /\ s[1] = first
    /\ \A i \in 1..n : s[i + 1] = next[s[i]][i]

\* The functions next stands for are of blocks.
Steps == [Block -> [1..10 -> Block]]

\* The definition of upTo, by name.
UpToIs(first, next, f) ==
    f = [n \in 0..10 |-> IF n = 0 THEN <<first>>
                         ELSE Append(f[n - 1], next[f[n - 1][n]][n])]

\* A chain can be made longer.
LEMMA ChainGrows ==
    ASSUME NEW first \in Block, NEW next \in Steps, NEW n \in 0..9, NEW s,
           Chain(first, next, s, n)
    PROVE  Chain(first, next, Append(s, next[s[n + 1]][n + 1]), n + 1)
<1> DEFINE b == next[s[n + 1]][n + 1]
           t == Append(s, b)
<1>1. s \in Seq(Block) /\ Len(s) = n + 1 /\ n + 1 \in 1..10
  BY DEF Chain
<1>2. s[n + 1] \in Block
  BY <1>1
<1>3. b \in Block
  BY <1>1, <1>2 DEF Steps
<1> HIDE DEF b
<1>4. /\ t \in Seq(Block) /\ Len(t) = n + 2 /\ t[n + 2] = b
      /\ \A i \in 1..(n + 1) : t[i] = s[i]
  BY <1>1, <1>3
<1>5. \A i \in 1..n : i \in 1..(n + 1) /\ i + 1 \in 1..(n + 1)
  OBVIOUS
<1> HIDE DEF t
<1>6. ASSUME NEW i \in 1..(n + 1) PROVE t[i + 1] = next[t[i]][i]
  <2>1. CASE i = n + 1
    BY <1>4, <2>1 DEF b
  <2>2. CASE i \in 1..n
    BY <1>4, <1>5, <2>2 DEF Chain
  <2> QED BY <2>1, <2>2
<1>7. t[1] = first
  BY <1>4 DEF Chain
<1> QED BY <1>4, <1>6, <1>7 DEF Chain, t, b

\* There is such a function.
LEMMA UpToExists ==
    ASSUME NEW first, NEW next
    PROVE  \E f : UpToIs(first, next, f)
<1> DEFINE G(m, f) == \A n \in 0..m : f[n] = IF n = 0 THEN <<first>>
                         ELSE Append(f[n - 1], next[f[n - 1][n]][n])
           S == {m \in 0..10 : \E f : G(m, f)}
<1>1. 0 \in S
  <2>1. G(0, [n \in 0..10 |-> <<first>>])
    OBVIOUS
  <2>2. 0 \in 0..10
    OBVIOUS
  <2> HIDE DEF G
  <2> QED BY <2>1, <2>2
<1>2. ASSUME NEW m \in 0..9, m \in S PROVE m + 1 \in S
  <2>1. PICK f : G(m, f)
    BY <1>2
  <2> DEFINE last == Append(f[m], next[f[m][m + 1]][m + 1])
             g == [n \in 0..10 |-> IF n = m + 1 THEN last ELSE f[n]]
  <2>2. ASSUME NEW n \in 0..(m + 1)
        PROVE  g[n] = IF n = 0 THEN <<first>> ELSE Append(g[n - 1], next[g[n - 1][n]][n])
    <3>1. CASE n = m + 1
      <4>1. n # 0 /\ n - 1 = m /\ m # m + 1 /\ m \in 0..10 /\ n \in 0..10
        BY <3>1
      <4>2. g[n - 1] = f[m] /\ g[n] = last
        BY <3>1, <4>1
      <4> HIDE DEF g
      <4> QED BY <3>1, <4>1, <4>2
    <3>2. CASE n \in 0..m
      <4>1. n \in 0..10 /\ n # m + 1 /\ (n # 0 => n - 1 \in 0..10 /\ n - 1 # m + 1)
        BY <3>2
      <4>2. g[n] = f[n] /\ (n # 0 => g[n - 1] = f[n - 1])
        BY <4>1
      <4> HIDE DEF g
      <4> QED BY <2>1, <3>2, <4>2
    <3>3. n = m + 1 \/ n \in 0..m
      OBVIOUS
    <3> HIDE DEF g
    <3> QED BY ONLY <3>1, <3>2, <3>3
  <2> HIDE DEF g
  <2>3. G(m + 1, g)
    BY <2>2
  <2> HIDE DEF G
  <2> QED BY <2>3
<1>3. 10 \in S
  <2> HIDE DEF S
  <2> QED BY <1>1, <1>2, ToTen
<1>4. PICK f : G(10, f)
  BY <1>3
<1> DEFINE g == [n \in 0..10 |-> f[n]]
<1>5. ASSUME NEW n \in 0..10
      PROVE  g[n] = IF n = 0 THEN <<first>> ELSE Append(g[n - 1], next[g[n - 1][n]][n])
  <2>1. n # 0 => n - 1 \in 0..10
    OBVIOUS
  <2>2. g[n] = f[n] /\ (n # 0 => g[n - 1] = f[n - 1])
    BY <2>1
  <2> HIDE DEF g
  <2> QED BY <1>4, <2>2
<1>6. g = [n \in 0..10 |-> g[n]]
  OBVIOUS
<1> HIDE DEF g, G
<1>7. UpToIs(first, next, g)
  BY <1>5, <1>6 DEF UpToIs
<1> QED BY <1>7

\* A function that starts with one block and makes its sequences longer.
Grows(first, next, f) ==
    /\ f[0] = <<first>>
    /\ \A n \in 0..9 : f[n][n + 1] \in Block =>
           f[n + 1] = Append(f[n], next[f[n][n + 1]][n + 1])

\* All it has are chains.
LEMMA GrowsChains ==
    ASSUME NEW first \in Block, NEW next \in Steps, NEW f, Grows(first, next, f)
    PROVE  \A n \in 0..10 : Chain(first, next, f[n], n)
<1> DEFINE S == {n \in 0..10 : Chain(first, next, f[n], n)}
<1>1. 0 \in S
  <2>1. f[0] = <<first>>
    BY DEF Grows
  <2>2. <<first>> \in Seq(Block) /\ Len(<<first>>) = 1 /\ <<first>>[1] = first
    OBVIOUS
  <2>3. 0 + 1 = 1 /\ ~ (\E i \in Nat : i \in 1..0) /\ 0 \in 0..10
    OBVIOUS
  <2>4. Chain(first, next, f[0], 0)
    BY <2>1, <2>2, <2>3 DEF Chain
  <2> QED BY <2>3, <2>4
<1>2. ASSUME NEW n \in 0..9, n \in S PROVE n + 1 \in S
  <2>1. Chain(first, next, f[n], n)
    BY <1>2
  <2>2. n + 1 \in 0..10 /\ n + 1 \in 1..(n + 1)
    OBVIOUS
  <2>3. f[n][n + 1] \in Block
    BY <2>1, <2>2 DEF Chain
  <2>4. f[n + 1] = Append(f[n], next[f[n][n + 1]][n + 1])
    BY <2>3 DEF Grows
  <2>5. Chain(first, next, f[n + 1], n + 1)
    BY <2>1, <2>4, ChainGrows
  <2> QED BY <2>2, <2>5
<1>3. \A n \in 0..10 : n \in S
  <2> HIDE DEF S
  <2> QED BY <1>1, <1>2, ToTen
<1> QED BY <1>3

\* The functions that exist do.
LEMMA UpToGrows ==
    ASSUME NEW first, NEW next, NEW f, UpToIs(first, next, f)
    PROVE  Grows(first, next, f)
<1>1. \A n \in 0..10 : f[n] = IF n = 0 THEN <<first>>
                              ELSE Append(f[n - 1], next[f[n - 1][n]][n])
  BY DEF UpToIs
<1>2. \A n \in 0..9 : n + 1 \in 0..10 /\ n + 1 # 0 /\ (n + 1) - 1 = n
  OBVIOUS
<1>3. f[0] = <<first>>
  BY <1>1, SMTT(60)
<1>4. \A n \in 0..9 : f[n + 1] = Append(f[n], next[f[n][n + 1]][n + 1])
  BY <1>1, <1>2
<1> QED BY <1>3, <1>4 DEF Grows

\* The steps of the key schedule, and those of the cipher.
KeySteps == [k \in Block |-> [n \in 1..10 |-> StandardNextKey(k, n)]]
BlockSteps(keys) ==
    [b \in Block |-> [n \in 1..10 |-> StandardRound(AddRoundKey(b, keys[n]), n)]]

\* The definitions of upTo in StandardKeys and in StandardBlocks, by name.
IsKeys(key, f) ==
    f = [n \in 0..10 |-> IF n = 0 THEN <<key>>
                         ELSE LET keys == f[n - 1]
                              IN  Append(keys, StandardNextKey(keys[n], n))]
IsBlocks(block, keys, f) ==
    f = [n \in 0..10 |->
            IF n = 0 THEN <<block>>
            ELSE LET blocks == f[n - 1]
                 IN  Append(blocks, StandardRound(AddRoundKey(blocks[n], keys[n]), n))]

\* They make chains.
LEMMA KeysGrow ==
    ASSUME NEW key \in Block
    PROVE  /\ \E f : IsKeys(key, f)
           /\ \A f : IsKeys(key, f) => Grows(key, KeySteps, f)
           /\ KeySteps \in Steps
<1>1. KeySteps \in Steps
  <2>1. \A k \in Block, n \in 1..10 : StandardNextKey(k, n) \in Block
    BY NextRoundKeyIs
  <2>2. \A k \in Block : [n \in 1..10 |-> StandardNextKey(k, n)] \in [1..10 -> Block]
    BY <2>1
  <2> QED BY <2>2 DEF KeySteps, Steps
<1>2. \A k \in Block, n \in 1..10 : KeySteps[k][n] = StandardNextKey(k, n)
  BY DEF KeySteps
<1>3. PICK f : UpToIs(key, KeySteps, f)
  BY UpToExists
<1>4. \A n \in 0..10 : Chain(key, KeySteps, f[n], n)
  BY <1>1, <1>3, UpToGrows, GrowsChains
<1>5. f = [n \in 0..10 |-> IF n = 0 THEN <<key>>
                           ELSE Append(f[n - 1], KeySteps[f[n - 1][n]][n])]
  BY <1>3 DEF UpToIs
<1>6. ASSUME NEW n \in 0..10, n # 0
      PROVE  KeySteps[f[n - 1][n]][n] = StandardNextKey(f[n - 1][n], n)
  <2>1. n - 1 \in 0..10 /\ n \in 1..10 /\ (n - 1) + 1 = n /\ n \in 1..n
    BY <1>6
  <2>2. f[n - 1] \in Seq(Block) /\ Len(f[n - 1]) = n
    BY <1>4, <2>1 DEF Chain
  <2>3. f[n - 1][n] \in Block
    BY <2>1, <2>2
  <2> QED BY <1>2, <2>1, <2>3
<1>7. IsKeys(key, f)
  BY <1>5, <1>6 DEF IsKeys
<1>8. ASSUME NEW g, IsKeys(key, g) PROVE Grows(key, KeySteps, g)
  <2>1. \A n \in 0..10 : g[n] = IF n = 0 THEN <<key>>
                                ELSE Append(g[n - 1], StandardNextKey(g[n - 1][n], n))
    BY <1>8 DEF IsKeys
  <2>2. \A n \in 0..9 : /\ n + 1 \in 0..10 /\ n + 1 # 0 /\ (n + 1) - 1 = n
                        /\ n + 1 \in 1..10
    OBVIOUS
  <2>3. \A n \in 0..9 : g[n + 1] = Append(g[n], StandardNextKey(g[n][n + 1], n + 1))
    BY <2>1, <2>2
  <2>4. g[0] = <<key>>
    <3>1. 0 \in 0..10
      OBVIOUS
    <3> QED BY <2>1, <3>1
  <2> QED BY <1>2, <2>2, <2>3, <2>4 DEF Grows
<1> QED BY <1>1, <1>7, <1>8

\* And so do the blocks.
LEMMA BlocksGrow ==
    ASSUME NEW block \in Block, NEW keys, \A n \in 1..10 : keys[n] \in Block
    PROVE  /\ \E f : IsBlocks(block, keys, f)
           /\ \A f : IsBlocks(block, keys, f) => Grows(block, BlockSteps(keys), f)
           /\ BlockSteps(keys) \in Steps
<1> DEFINE next == BlockSteps(keys)
           Round(b, n) == StandardRound(AddRoundKey(b, keys[n]), n)
<1>1. next \in Steps
  <2>1. ASSUME NEW k \in Block, NEW n \in 1..10 PROVE Round(k, n) \in Block
    BY AddTyped, RoundTyped
  <2> HIDE DEF Round
  <2>2. \A k \in Block : [n \in 1..10 |-> Round(k, n)] \in [1..10 -> Block]
    BY <2>1
  <2>3. next = [b \in Block |-> [n \in 1..10 |-> Round(b, n)]]
    BY DEF BlockSteps, Round
  <2> QED BY <2>2, <2>3 DEF Steps
<1>2. \A k \in Block, n \in 1..10 : next[k][n] = Round(k, n)
  BY DEF BlockSteps
<1>0. \A f : IsBlocks(block, keys, f) <=>
          f = [n \in 0..10 |-> IF n = 0 THEN <<block>>
                               ELSE Append(f[n - 1], Round(f[n - 1][n], n))]
  BY DEF IsBlocks
<1> HIDE DEF Round, next
<1>3. PICK f : UpToIs(block, next, f)
  BY UpToExists
<1>4. \A n \in 0..10 : Chain(block, next, f[n], n)
  BY <1>1, <1>3, UpToGrows, GrowsChains
<1>5. f = [n \in 0..10 |-> IF n = 0 THEN <<block>>
                           ELSE Append(f[n - 1], next[f[n - 1][n]][n])]
  BY <1>3 DEF UpToIs
<1>6. ASSUME NEW n \in 0..10, n # 0
      PROVE  next[f[n - 1][n]][n] = Round(f[n - 1][n], n)
  <2>1. n - 1 \in 0..10 /\ n \in 1..10 /\ (n - 1) + 1 = n /\ n \in 1..n
    BY <1>6
  <2>2. f[n - 1] \in Seq(Block) /\ Len(f[n - 1]) = n
    BY <1>4, <2>1 DEF Chain
  <2>3. f[n - 1][n] \in Block
    BY <2>1, <2>2
  <2> QED BY <1>2, <2>1, <2>3
<1>7. IsBlocks(block, keys, f)
  <2>1. f = [n \in 0..10 |-> IF n = 0 THEN <<block>>
                               ELSE Append(f[n - 1], Round(f[n - 1][n], n))]
    BY <1>5, <1>6
  <2> QED BY <1>0, <2>1
<1>8. ASSUME NEW g, IsBlocks(block, keys, g) PROVE Grows(block, next, g)
  <2>1. \A n \in 0..10 : g[n] = IF n = 0 THEN <<block>>
                                ELSE Append(g[n - 1], Round(g[n - 1][n], n))
    <3>1. g = [n \in 0..10 |-> IF n = 0 THEN <<block>>
                               ELSE Append(g[n - 1], Round(g[n - 1][n], n))]
      BY <1>0, <1>8
    <3> QED BY <3>1
  <2>2. \A n \in 0..9 : /\ n + 1 \in 0..10 /\ n + 1 # 0 /\ (n + 1) - 1 = n
                        /\ n + 1 \in 1..10
    OBVIOUS
  <2>3. \A n \in 0..9 : g[n + 1] = Append(g[n], Round(g[n][n + 1], n + 1))
    BY <2>1, <2>2
  <2>4. g[0] = <<block>>
    <3>1. 0 \in 0..10
      OBVIOUS
    <3> QED BY <2>1, <3>1
  <2> QED BY <1>2, <2>2, <2>3, <2>4 DEF Grows
<1> QED BY <1>1, <1>7, <1>8 DEF next

\* The round keys of the standard: eleven blocks, each made of the one before.
LEMMA KeysAre ==
    ASSUME NEW key \in Block
    PROVE  LET keys == StandardKeys(key)
           IN  /\ \A n \in 1..11 : keys[n] \in Block
               /\ keys[1] = key
               /\ \A n \in 1..10 : keys[n + 1] = StandardNextKey(keys[n], n)
<1> DEFINE f == CHOOSE f : IsKeys(key, f)
           keys == f[10]
<1>1. StandardKeys(key) = keys
  BY DEF StandardKeys, IsKeys
<1>2. IsKeys(key, f)
  BY KeysGrow
<1> HIDE DEF f
<1>3. Chain(key, KeySteps, keys, 10)
  BY <1>2, KeysGrow, GrowsChains
<1> HIDE DEF keys
<1>4. keys \in Seq(Block) /\ Len(keys) = 11 /\ keys[1] = key
  BY <1>3 DEF Chain
<1>5. \A n \in 1..11 : keys[n] \in Block
  BY <1>4, ElementOfSeq
<1>6. \A n \in 1..10 : keys[n + 1] = StandardNextKey(keys[n], n)
  BY <1>3, <1>5 DEF Chain, KeySteps
<1> QED BY <1>1, <1>4, <1>5, <1>6

\* And its blocks before each key is added.
LEMMA BlocksAre ==
    ASSUME NEW block \in Block, NEW keys, \A n \in 1..10 : keys[n] \in Block
    PROVE  LET blocks == StandardBlocks(block, keys)
           IN  /\ \A n \in 1..11 : blocks[n] \in Block
               /\ blocks[1] = block
               /\ \A n \in 1..10 :
                     blocks[n + 1] = StandardRound(AddRoundKey(blocks[n], keys[n]), n)
<1> DEFINE f == CHOOSE f : IsBlocks(block, keys, f)
           blocks == f[10]
<1>1. StandardBlocks(block, keys) = blocks
  BY DEF StandardBlocks, IsBlocks
<1>2. IsBlocks(block, keys, f)
  BY BlocksGrow
<1> HIDE DEF f
<1>3. Chain(block, BlockSteps(keys), blocks, 10)
  BY <1>2, BlocksGrow, GrowsChains
<1> HIDE DEF blocks
<1>4. blocks \in Seq(Block) /\ Len(blocks) = 11 /\ blocks[1] = block
  BY <1>3 DEF Chain
<1>5. \A n \in 1..11 : blocks[n] \in Block
  BY <1>4, ElementOfSeq
<1>6. \A n \in 1..10 : blocks[n + 1] = StandardRound(AddRoundKey(blocks[n], keys[n]), n)
  BY <1>3, <1>5 DEF Chain, BlockSteps
<1> QED BY <1>1, <1>4, <1>5, <1>6
===============================================================================
