---------------------------------- MODULE Aes ----------------------------------
(***************************************************************************)
(* The AES-128 of security.c, which wlan_smart_config_process decrypts with: *)
(* the key schedule and the rounds of aes_encr and aes_decr as the code       *)
(* computes them, and beside them the cipher of the standard (FIPS 197), which *)
(* says what they are to compute.  A block and a round key are sequences of      *)
(* sixteen bytes; byte i of the code is element i + 1.                         *)
(*                                                                         *)
(* The code works in place; an assignment that overwrites a byte a later one   *)
(* still needs is preceded by a copy (buf1, buf2), so the sixteen assignments   *)
(* of a step are one function of the block before it.                         *)
(***************************************************************************)
EXTENDS Integers, Sequences

Byte == 0..255
Nibble == 0..15
Cell == 1..16

\* Exclusive or of two bytes, as a table TLC computes once.
XorNibble == [a \in Nibble |-> [b \in Nibble |->
    LET Bit(n) == n * (((a \div n) + (b \div n)) % 2)
    IN  Bit(1) + Bit(2) + Bit(4) + Bit(8)]]
XorByte == [a \in Byte |-> [b \in Byte |->
    (16 * XorNibble[a \div 16][b \div 16]) + XorNibble[a % 16][b % 16]]]
a ++ b == XorByte[a][b]

\* The block whose bytes are Op(1) to Op(16), as a tuple.
Bytes16(Op(_)) == <<>> \o [i \in Cell |-> Op(i)]

sbox == <<
    \h63, \h7c, \h77, \h7b, \hf2, \h6b, \h6f, \hc5, \h30, \h01, \h67, \h2b, \hfe, \hd7, \hab, \h76,
    \hca, \h82, \hc9, \h7d, \hfa, \h59, \h47, \hf0, \had, \hd4, \ha2, \haf, \h9c, \ha4, \h72, \hc0,
    \hb7, \hfd, \h93, \h26, \h36, \h3f, \hf7, \hcc, \h34, \ha5, \he5, \hf1, \h71, \hd8, \h31, \h15,
    \h04, \hc7, \h23, \hc3, \h18, \h96, \h05, \h9a, \h07, \h12, \h80, \he2, \heb, \h27, \hb2, \h75,
    \h09, \h83, \h2c, \h1a, \h1b, \h6e, \h5a, \ha0, \h52, \h3b, \hd6, \hb3, \h29, \he3, \h2f, \h84,
    \h53, \hd1, \h00, \hed, \h20, \hfc, \hb1, \h5b, \h6a, \hcb, \hbe, \h39, \h4a, \h4c, \h58, \hcf,
    \hd0, \hef, \haa, \hfb, \h43, \h4d, \h33, \h85, \h45, \hf9, \h02, \h7f, \h50, \h3c, \h9f, \ha8,
    \h51, \ha3, \h40, \h8f, \h92, \h9d, \h38, \hf5, \hbc, \hb6, \hda, \h21, \h10, \hff, \hf3, \hd2,
    \hcd, \h0c, \h13, \hec, \h5f, \h97, \h44, \h17, \hc4, \ha7, \h7e, \h3d, \h64, \h5d, \h19, \h73,
    \h60, \h81, \h4f, \hdc, \h22, \h2a, \h90, \h88, \h46, \hee, \hb8, \h14, \hde, \h5e, \h0b, \hdb,
    \he0, \h32, \h3a, \h0a, \h49, \h06, \h24, \h5c, \hc2, \hd3, \hac, \h62, \h91, \h95, \he4, \h79,
    \he7, \hc8, \h37, \h6d, \h8d, \hd5, \h4e, \ha9, \h6c, \h56, \hf4, \hea, \h65, \h7a, \hae, \h08,
    \hba, \h78, \h25, \h2e, \h1c, \ha6, \hb4, \hc6, \he8, \hdd, \h74, \h1f, \h4b, \hbd, \h8b, \h8a,
    \h70, \h3e, \hb5, \h66, \h48, \h03, \hf6, \h0e, \h61, \h35, \h57, \hb9, \h86, \hc1, \h1d, \h9e,
    \he1, \hf8, \h98, \h11, \h69, \hd9, \h8e, \h94, \h9b, \h1e, \h87, \he9, \hce, \h55, \h28, \hdf,
    \h8c, \ha1, \h89, \h0d, \hbf, \he6, \h42, \h68, \h41, \h99, \h2d, \h0f, \hb0, \h54, \hbb, \h16>>

rsbox == <<
    \h52, \h09, \h6a, \hd5, \h30, \h36, \ha5, \h38, \hbf, \h40, \ha3, \h9e, \h81, \hf3, \hd7, \hfb,
    \h7c, \he3, \h39, \h82, \h9b, \h2f, \hff, \h87, \h34, \h8e, \h43, \h44, \hc4, \hde, \he9, \hcb,
    \h54, \h7b, \h94, \h32, \ha6, \hc2, \h23, \h3d, \hee, \h4c, \h95, \h0b, \h42, \hfa, \hc3, \h4e,
    \h08, \h2e, \ha1, \h66, \h28, \hd9, \h24, \hb2, \h76, \h5b, \ha2, \h49, \h6d, \h8b, \hd1, \h25,
    \h72, \hf8, \hf6, \h64, \h86, \h68, \h98, \h16, \hd4, \ha4, \h5c, \hcc, \h5d, \h65, \hb6, \h92,
    \h6c, \h70, \h48, \h50, \hfd, \hed, \hb9, \hda, \h5e, \h15, \h46, \h57, \ha7, \h8d, \h9d, \h84,
    \h90, \hd8, \hab, \h00, \h8c, \hbc, \hd3, \h0a, \hf7, \he4, \h58, \h05, \hb8, \hb3, \h45, \h06,
    \hd0, \h2c, \h1e, \h8f, \hca, \h3f, \h0f, \h02, \hc1, \haf, \hbd, \h03, \h01, \h13, \h8a, \h6b,
    \h3a, \h91, \h11, \h41, \h4f, \h67, \hdc, \hea, \h97, \hf2, \hcf, \hce, \hf0, \hb4, \he6, \h73,
    \h96, \hac, \h74, \h22, \he7, \had, \h35, \h85, \he2, \hf9, \h37, \he8, \h1c, \h75, \hdf, \h6e,
    \h47, \hf1, \h1a, \h71, \h1d, \h29, \hc5, \h89, \h6f, \hb7, \h62, \h0e, \haa, \h18, \hbe, \h1b,
    \hfc, \h56, \h3e, \h4b, \hc6, \hd2, \h79, \h20, \h9a, \hdb, \hc0, \hfe, \h78, \hcd, \h5a, \hf4,
    \h1f, \hdd, \ha8, \h33, \h88, \h07, \hc7, \h31, \hb1, \h12, \h10, \h59, \h27, \h80, \hec, \h5f,
    \h60, \h51, \h7f, \ha9, \h19, \hb5, \h4a, \h0d, \h2d, \he5, \h7a, \h9f, \h93, \hc9, \h9c, \hef,
    \ha0, \he0, \h3b, \h4d, \hae, \h2a, \hf5, \hb0, \hc8, \heb, \hbb, \h3c, \h83, \h53, \h99, \h61,
    \h17, \h2b, \h04, \h7e, \hba, \h77, \hd6, \h26, \he1, \h69, \h14, \h63, \h55, \h21, \h0c, \h7d>>

\* From the element the key schedule uses first.
Rcon == <<1, 2, 4, 8, 16, 32, 64, 128, \h1b, \h36>>

-----------------------------------------------------------------------------
(* The code of security.c                                                    *)

\* Mutant: the last word of the key is not rotated.
RotatedFromStill == <<13, 14, 15, 16>>

\* The bytes of the previous round key whose sbox goes into the first word.
RotatedFrom == <<14, 15, 16, 13>>

\* The body of the loop of expandKey: round key n out of the one before it.
NextRoundKey(previous, n) ==
    LET byte[i \in Cell] ==
            previous[i] ++
                (IF i > 4 THEN byte[i - 4]
                 ELSE sbox[previous[RotatedFrom[i]] + 1]
                        ++ (IF i = 1 THEN Rcon[n] ELSE 0))
    IN  Bytes16(LAMBDA i : byte[i])

galois_mul2(value) ==
    IF value \div 128 = 1 THEN ((2 * value) % 256) ++ \h1b ELSE 2 * value

AddRoundKey(state, roundKey) == Bytes16(LAMBDA i : state[i] ++ roundKey[i])

\* "addroundkey, sbox and shiftrows": the byte each byte is computed from.
ShiftedFrom == <<1, 6, 11, 16, 5, 10, 15, 4, 9, 14, 3, 8, 13, 2, 7, 12>>
SubAndShift(state, roundKey) ==
    Bytes16(LAMBDA i : sbox[(state[ShiftedFrom[i]]
                               ++ roundKey[ShiftedFrom[i]]) + 1])

\* The byte d rows below byte i in the same column of four.
Below(state, i, d) ==
    LET first == i - ((i - 1) % 4) IN state[first + ((i - first + d) % 4)]

\* "mixcolums", column by column.
MixColumns(state) ==
    Bytes16(LAMBDA i :
        LET all == state[i] ++ Below(state, i, 1)
                     ++ Below(state, i, 2) ++ Below(state, i, 3)
        IN  state[i] ++ galois_mul2(state[i] ++ Below(state, i, 1))
                     ++ all)

\* Mutant: the correction is doubled once.
BarretoOnce(state) ==
    Bytes16(LAMBDA i : state[i] ++
        galois_mul2(state[i] ++ Below(state, i, 2)))

\* "barreto": what turns MixColumns into its own inverse.
Barreto(state) ==
    Bytes16(LAMBDA i : state[i] ++
        galois_mul2(galois_mul2(state[i] ++ Below(state, i, 2))))

\* "addroundkey, rsbox and shiftrows" of aes_decr.
UnshiftedFrom == <<1, 14, 11, 8, 5, 2, 15, 12, 9, 6, 3, 16, 13, 10, 7, 4>>
UnshiftAndUnsub(state, roundKey) ==
    Bytes16(LAMBDA i : rsbox[state[UnshiftedFrom[i]] + 1] ++ roundKey[i])

\* Round n of aes_encr, 1 to 10: the last does not mix, and adds the last key.
\* Round key n, from 0, is element n + 1 of keys.
aes_encr(state, keys, n) ==
    IF n < 10 THEN MixColumns(SubAndShift(state, keys[n]))
    ELSE AddRoundKey(SubAndShift(state, keys[10]), keys[11])

\* What aes_decr does to undo round n, 10 to 1.
aes_decr(state, keys, n) ==
    IF n = 10 THEN UnshiftAndUnsub(AddRoundKey(state, keys[11]), keys[10])
    ELSE UnshiftAndUnsub(MixColumns(Barreto(state)), keys[n])

-----------------------------------------------------------------------------
(* The cipher of the standard                                                *)

\* x times a polynomial of GF(2^8), modulo x^8 + x^4 + x^3 + x + 1.
Double == [a \in Byte |-> IF a < 128 THEN 2 * a ELSE ((2 * a) - 256) ++ \h1b]
Triple == [a \in Byte |-> Double[a] ++ a]

\* The product of two polynomials (Horner), and the inverse, 0 for 0.
Times(a, b) ==
    LET product[i \in 0..8] ==
            IF i = 0 THEN 0
            ELSE Double[product[i - 1]]
                   ++ (IF (a \div 2^(8 - i)) % 2 = 1 THEN b ELSE 0)
    IN  product[8]
InverseOf == [a \in Byte |->
    IF a = 0 THEN 0 ELSE CHOOSE b \in Byte : Times(a, b) = 1]

\* The S-box: the inverse, added to its four rotations and \h63.
SubByte == [a \in Byte |->
    LET b == InverseOf[a]
        Rotated(n) == ((b * 2^n) % 256) + ((b * 2^n) \div 256)
    IN  b ++ Rotated(1) ++ Rotated(2) ++ Rotated(3)
          ++ Rotated(4) ++ \h63]

\* Round key n: the first word is added to the rotated and substituted last
\* one and to x^(n-1), each other to the word on its left.
StandardConstant == <<1, 2, 4, 8, 16, 32, 64, 128, Double[128],
                      Double[Double[128]]>>
StandardNextKey(last, n) ==
    LET first == [j \in 1..4 |-> last[j] ++ SubByte[last[13 + (j % 4)]]
                                ++ (IF j = 1 THEN StandardConstant[n] ELSE 0)]
        sum[i \in Cell] == IF i <= 4 THEN first[i] ELSE last[i] ++ sum[i - 4]
    IN  <<>> \o sum

\* Row r (from 0) is the bytes whose place is r modulo 4: it moves r columns.
StandardShiftRows(s) ==
    Bytes16(LAMBDA i : s[1 + ((i - 1 + 4 * ((i - 1) % 4)) % 16)])
StandardMixColumns(s) ==
    Bytes16(LAMBDA i : Double[s[i]] ++ Triple[Below(s, i, 1)]
                         ++ Below(s, i, 2) ++ Below(s, i, 3))

\* A round before its key is added, and the blocks before each key addition.
StandardRound(s, n) ==
    LET shifted == StandardShiftRows(Bytes16(LAMBDA i : SubByte[s[i]]))
    IN  IF n = 10 THEN shifted ELSE StandardMixColumns(shifted)
StandardKeys(key) ==
    LET upTo[n \in 0..10] ==
            IF n = 0 THEN <<key>>
            ELSE LET keys == upTo[n - 1]
                 IN  Append(keys, StandardNextKey(keys[n], n))
    IN  upTo[10]
StandardBlocks(block, keys) ==
    LET upTo[n \in 0..10] ==
            IF n = 0 THEN <<block>>
            ELSE LET blocks == upTo[n - 1]
                 IN  Append(blocks,
                         StandardRound(AddRoundKey(blocks[n], keys[n]), n))
    IN  upTo[10]
StandardCipher(block, key) ==
    LET keys == StandardKeys(key)
    IN  AddRoundKey(StandardBlocks(block, keys)[11], keys[11])

\* The tables of security.c are the S-box of the standard and its inverse.
ASSUME SboxIsStandard ==
    \A a \in Byte : sbox[a + 1] = SubByte[a] /\ rsbox[SubByte[a] + 1] = a

\* The example of the standard (appendix B).
ASSUME StandardExample ==
    StandardCipher(
        <<\h32, \h43, \hf6, \ha8, \h88, \h5a, \h30, \h8d,
          \h31, \h31, \h98, \ha2, \he0, \h37, \h07, \h34>>,
        <<\h2b, \h7e, \h15, \h16, \h28, \hae, \hd2, \ha6,
          \hab, \hf7, \h15, \h88, \h09, \hcf, \h4f, \h3c>>)
    = <<\h39, \h25, \h84, \h1d, \h02, \hdc, \h09, \hfb,
        \hdc, \h11, \h85, \h97, \h19, \h6a, \h0b, \h32>>
===============================================================================
