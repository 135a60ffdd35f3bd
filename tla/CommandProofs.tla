------------------------------ MODULE CommandProofs ------------------------------
(***************************************************************************)
(* Commands: where the fields of every packet lie, that its offsets and        *)
(* lengths tell the truth, that the length it declares is its own, and that    *)
(* the answer it awaits is the one it gets and fits where it is written.  The *)
(* steps that follow, and the theorems, are in SmartConfigProofs.             *)
(***************************************************************************)
EXTENDS Commands, WellFoundedInduction, TLAPS

-----------------------------------------------------------------------------
(* Where fields end                                                          *)

\* Induction over the natural numbers, for a set.
LEMMA NatByStep ==
    ASSUME NEW S, 0 \in S, \A n \in Nat : n \in S => n + 1 \in S
    PROVE  Nat \subseteq S
<1> DEFINE R == OpToRel(<, Nat)
           T == Nat \ S
<1> SUFFICES ASSUME T # {} PROVE FALSE
  OBVIOUS
<1>1. IsWellFoundedOn(R, Nat) /\ T \subseteq Nat
  BY NatLessThanWellFounded
<1>2. \A p, q \in Nat : p < q => <<p, q>> \in R
  BY DEF OpToRel
<1>3. \A p \in Nat : p \notin T => p \in S
  OBVIOUS
<1>4. \A p \in T : p \notin S
  OBVIOUS
<1> HIDE DEF R, T
<1>5. PICK x \in T : \A y \in T : ~ (<<y, x>> \in R)
  BY <1>1, WFMin
<1>6. x \in Nat /\ x # 0 /\ x - 1 \in Nat /\ x - 1 < x /\ (x - 1) + 1 = x
  BY <1>1, <1>4
<1>7. x - 1 \in S
  BY <1>2, <1>3, <1>5, <1>6
<1> QED
  BY <1>4, <1>6, <1>7

\* The definition of Ends, by name.
EndOf(fields, i, f) == IF i = 0 THEN 0 ELSE f[i - 1] + fields[i].width
IsEnds(fields, n, f) == f = [i \in 0..n |-> EndOf(fields, i, f)]

\* There is a function of the ends of so many fields.
LEMMA EndsExists ==
    ASSUME NEW fields, NEW N \in Nat
    PROVE  \E f : IsEnds(fields, N, f)
<1> DEFINE S == {n \in Nat : \E f : IsEnds(fields, n, f)}
<1>1. 0 \in S
  <2> DEFINE f == [i \in 0..0 |-> 0]
  <2>1. f = [i \in 0..0 |-> EndOf(fields, i, f)]
    BY DEF EndOf
  <2> QED BY <2>1 DEF IsEnds
<1>2. ASSUME NEW n \in Nat, n \in S PROVE n + 1 \in S
  <2>1. PICK f : IsEnds(fields, n, f)
    BY <1>2
  <2> DEFINE g == [i \in 0..(n + 1) |-> IF i = n + 1 THEN f[n] + fields[n + 1].width ELSE f[i]]
  <2>2. ASSUME NEW i \in 0..(n + 1) PROVE g[i] = EndOf(fields, i, g)
    <3>1. CASE i = n + 1
      <4>1. i # 0 /\ i - 1 = n /\ n \in 0..(n + 1) /\ n # n + 1
        BY <3>1
      <4>2. g[i - 1] = f[n]
        BY <4>1
      <4>3. g[i] = f[n] + fields[n + 1].width
        BY <3>1
      <4> QED BY <3>1, <4>1, <4>2, <4>3 DEF EndOf
    <3>2. CASE i # n + 1
      <4>1. i \in 0..n /\ (i # 0 => i - 1 \in 0..n /\ i - 1 \in 0..(n + 1) /\ i - 1 # n + 1)
        BY <3>2
      <4>2. g[i] = f[i] /\ (i # 0 => g[i - 1] = f[i - 1])
        BY <3>2, <4>1
      <4>3. f[i] = EndOf(fields, i, f)
        BY <2>1, <4>1 DEF IsEnds
      <4> QED BY <4>1, <4>2, <4>3 DEF EndOf
    <3> QED BY <3>1, <3>2
  <2>3. IsEnds(fields, n + 1, g)
    BY <2>2 DEF IsEnds
  <2> QED BY <2>3
<1> HIDE DEF S
<1>3. Nat \subseteq S
  BY <1>1, <1>2, NatByStep
<1> QED BY <1>3 DEF S

\* Every field ends as far after the one before as it is wide.
LEMMA EndsAre ==
    ASSUME NEW fields, Len(fields) \in Nat
    PROVE  /\ Ends(fields)[0] = 0
           /\ \A i \in 1..Len(fields) :
                 Ends(fields)[i] = Ends(fields)[i - 1] + fields[i].width
<1>1. Ends(fields) = CHOOSE f : IsEnds(fields, Len(fields), f)
  BY DEF Ends, IsEnds, EndOf
<1>2. IsEnds(fields, Len(fields), Ends(fields))
  BY <1>1, EndsExists
<1> QED BY <1>2 DEF IsEnds, EndOf

\* at[i] is where field i begins, and the last of it where they end.
LaidOut(fields, at) ==
    /\ Len(fields) \in Nat /\ DOMAIN fields = 1..Len(fields) /\ at[1] = 0
    /\ \A i \in 1..Len(fields) : at[i + 1] = at[i] + fields[i].width

\* A layout that agrees with the widths has the ends of the fields.
LEMMA EndsLaidOut ==
    ASSUME NEW fields, NEW at, LaidOut(fields, at)
    PROVE  \A i \in 0..Len(fields) : Ends(fields)[i] = at[i + 1]
<1> DEFINE S == {n \in Nat : n <= Len(fields) => Ends(fields)[n] = at[n + 1]}
<1>1. 0 \in S
  BY EndsAre DEF LaidOut
<1>2. ASSUME NEW n \in Nat, n \in S PROVE n + 1 \in S
  <2> SUFFICES ASSUME n + 1 <= Len(fields) PROVE Ends(fields)[n + 1] = at[n + 2]
    OBVIOUS
  <2>1. n + 1 \in 1..Len(fields) /\ (n + 1) - 1 = n /\ (n + 1) + 1 = n + 2
    BY DEF LaidOut
  <2>2. Ends(fields)[n] = at[n + 1]
    BY <1>2, <2>1 DEF LaidOut
  <2>3. Ends(fields)[n + 1] = Ends(fields)[n] + fields[n + 1].width
    BY <2>1, EndsAre DEF LaidOut
  <2>4. at[n + 2] = at[n + 1] + fields[n + 1].width
    BY <2>1 DEF LaidOut
  <2> QED BY <2>2, <2>3, <2>4
<1> HIDE DEF S
<1>3. Nat \subseteq S
  BY <1>1, <1>2, NatByStep
<1> QED BY <1>3 DEF S, LaidOut

\* Every field that speaks of a part speaks of one that is there.
PointsBy(fields, at) ==
    \A i \in 1..Len(fields) : fields[i].says \in {"offset", "length"} =>
        \E j \in 1..Len(fields) : Tells(fields[i], fields[j], at[j] - at[i])

\* Fields that tell the truth about a layout do about the packet.
LEMMA LaidOutPoints ==
    ASSUME NEW fields, NEW at, LaidOut(fields, at), PointsBy(fields, at)
    PROVE  Width(fields) = at[Len(fields) + 1] /\ Points(fields)
<1>1. Len(fields) \in Nat /\ DOMAIN fields = 1..Len(fields)
  BY DEF LaidOut
<1>2. \A i \in 1..Len(fields) : i - 1 \in 0..Len(fields) /\ (i - 1) + 1 = i
  BY <1>1
<1>3. \A i \in 1..Len(fields) : Ends(fields)[i - 1] = at[i]
  BY <1>2, EndsLaidOut
<1>4. Width(fields) = at[Len(fields) + 1]
  BY <1>1, EndsLaidOut DEF Width
<1>5. ASSUME NEW i \in 1..Len(fields), fields[i].says \in {"offset", "length"}
      PROVE  \E j \in 1..Len(fields) :
                 Tells(fields[i], fields[j], Ends(fields)[j - 1] - Ends(fields)[i - 1])
  <2>1. PICK j \in 1..Len(fields) : Tells(fields[i], fields[j], at[j] - at[i])
    BY <1>5 DEF PointsBy
  <2>2. at[j] - at[i] = Ends(fields)[j - 1] - Ends(fields)[i - 1]
    BY <1>3
  <2> QED BY <2>1, <2>2
<1> QED BY <1>1, <1>4, <1>5 DEF Points

-----------------------------------------------------------------------------
(* The packets                                                               *)

\* The words of the packets that have other fields too.
LEMMA WordsAre ==
    /\ Words(3) = <<Word, Word, Word>>
    /\ Words(8) = <<Word, Word, Word, Word, Word, Word, Word, Word>>
  BY DEF Words

\* Words alone: nothing in them is about another part.
LEMMA WordsLaidOut ==
    ASSUME NEW n \in Nat
    PROVE  Width(Words(n)) = 4 * n /\ Points(Words(n))
<1> DEFINE fields == Words(n)
           at == [i \in 1..(n + 1) |-> 4 * (i - 1)]
<1>1. /\ Len(fields) = n /\ DOMAIN fields = 1..n
      /\ \A i \in 1..n : fields[i] = Word
  BY DEF Words
<1>2. at[1] = 0 /\ \A i \in 1..n : at[i + 1] = at[i] + 4
  OBVIOUS
<1>0. at[n + 1] = 4 * n
  OBVIOUS
<1> HIDE DEF fields, at
<1> USE <1>1, <1>2 DEF Word, Field
<1>3. LaidOut(fields, at)
  BY DEF LaidOut
<1>4. PointsBy(fields, at)
  BY DEF PointsBy
<1>5. Width(fields) = at[n + 1] /\ Points(fields)
  BY <1>3, <1>4, LaidOutPoints
<1> QED BY <1>0, <1>5 DEF fields

\* A packet without arguments.
LEMMA NothingLaidOut == Width(<<>>) = 0 /\ Points(<<>>)
<1>1. LaidOut(<<>>, <<0>>) /\ PointsBy(<<>>, <<0>>)
  BY DEF LaidOut, PointsBy
<1> QED BY <1>1, LaidOutPoints

\* wlan_connect: the name, then the key.
LEMMA ConnectLaidOut ==
    ASSUME NEW ssid \in Nat, NEW key \in Nat
    PROVE  LET fields == WlanConnect(ssid, key).fields
           IN  Width(fields) = 28 + ssid + key /\ Points(fields)
<1> DEFINE fields == WlanConnect(ssid, key).fields
           at == <<0, 4, 8, 12, 16, 20, 22, 28, 28 + ssid, 28 + ssid + key>>
<1>1. /\ Len(fields) = 9 /\ DOMAIN fields = 1..9
      /\ fields[1] = Offset(28, "ssid") /\ fields[2] = Length(ssid, "ssid")
      /\ fields[3] = Word /\ fields[4] = Offset(16 + ssid, "key")
      /\ fields[5] = Length(key, "key") /\ fields[6] = Part("pad", 2)
      /\ fields[7] = Part("bssid", 6) /\ fields[8] = Part("ssid", ssid)
      /\ fields[9] = Part("key", key)
  BY DEF WlanConnect, Command, ETH_ALEN
<1>2. /\ at[1] = 0 /\ at[2] = 4 /\ at[3] = 8 /\ at[4] = 12 /\ at[5] = 16
      /\ at[6] = 20 /\ at[7] = 22 /\ at[8] = 28 /\ at[9] = 28 + ssid
      /\ at[10] = 28 + ssid + key
  OBVIOUS
<1> HIDE DEF fields, at
<1>3. LaidOut(fields, at)
  BY <1>1, <1>2 DEF LaidOut, Offset, Length, Part, Word, Field
<1>4. PointsBy(fields, at)
  <2> USE <1>1, <1>2 DEF Offset, Length, Part, Word, Field
  <2>1. Tells(fields[1], fields[8], at[8] - at[1])
    BY DEF Tells
  <2>2. Tells(fields[2], fields[8], at[8] - at[2])
    BY DEF Tells
  <2>3. Tells(fields[4], fields[9], at[9] - at[4])
    BY DEF Tells
  <2>4. Tells(fields[5], fields[9], at[9] - at[5])
    BY DEF Tells
  <2>5. \A i \in 1..9 :
            fields[i].says \in {"offset", "length"} => i \in {1, 2, 4, 5}
    OBVIOUS
  <2> QED BY <2>1, <2>2, <2>3, <2>4, <2>5 DEF PointsBy
<1>5. Width(fields) = at[9 + 1] /\ Points(fields)
  BY <1>1, <1>3, <1>4, LaidOutPoints
<1> QED BY <1>2, <1>5 DEF fields

\* wlan_add_profile without security.
LEMMA OpenLaidOut ==
    ASSUME NEW ssid \in Nat
    PROVE  LET fields == AddProfileOpen(ssid).fields
           IN  Width(fields) = 24 + ssid /\ Points(fields)
<1> DEFINE fields == AddProfileOpen(ssid).fields
           at == <<0, 4, 8, 12, 14, 20, 24, 24 + ssid>>
<1>1. /\ Len(fields) = 7 /\ DOMAIN fields = 1..7 /\ fields[1] = Word
      /\ fields[2] = Offset(20, "ssid") /\ fields[3] = Length(ssid, "ssid")
      /\ fields[4] = Part("pad", 2) /\ fields[5] = Part("bssid", 6)
      /\ fields[6] = Word /\ fields[7] = Part("ssid", ssid)
  BY DEF AddProfileOpen, ProfileStart, Command, ETH_ALEN
<1>2. /\ at[1] = 0 /\ at[2] = 4 /\ at[3] = 8 /\ at[4] = 12 /\ at[5] = 14
      /\ at[6] = 20 /\ at[7] = 24 /\ at[8] = 24 + ssid
  OBVIOUS
<1> HIDE DEF fields, at
<1>3. LaidOut(fields, at)
  BY <1>1, <1>2 DEF LaidOut, Offset, Length, Part, Word, Field
<1>4. PointsBy(fields, at)
  <2> USE <1>1, <1>2 DEF Offset, Length, Part, Word, Field
  <2>1. Tells(fields[2], fields[7], at[7] - at[2])
    BY DEF Tells
  <2>2. Tells(fields[3], fields[7], at[7] - at[3])
    BY DEF Tells
  <2>3. \A i \in 1..7 :
            fields[i].says \in {"offset", "length"} => i \in {2, 3}
    OBVIOUS
  <2> QED BY <2>1, <2>2, <2>3 DEF PointsBy
<1>5. Width(fields) = at[7 + 1] /\ Points(fields)
  BY <1>1, <1>3, <1>4, LaidOutPoints
<1> QED BY <1>2, <1>5 DEF fields

\* With WEP; the four keys are as wide as four times one of them.
LEMMA WepLaidOut ==
    ASSUME NEW ssid \in Nat, NEW key \in Nat, NEW four \in Nat, four = 4 * key
    PROVE  LET fields ==
            (ProfileStart(32, ssid) \o
              <<Offset(12 + ssid, "keys"), Length(key, "one_key"), Word,
                Part("ssid", ssid), Part("keys", four)>>)
           IN  Width(fields) = 36 + ssid + four /\ Points(fields)
<1> DEFINE fields == (ProfileStart(32, ssid) \o
                          <<Offset(12 + ssid, "keys"), Length(key, "one_key"), Word,
                            Part("ssid", ssid), Part("keys", four)>>)
           at == <<0, 4, 8, 12, 14, 20, 24, 28, 32, 36, 36 + ssid,
                 36 + ssid + four>>
<1>1. /\ Len(fields) = 11 /\ DOMAIN fields = 1..11 /\ fields[1] = Word
      /\ fields[2] = Offset(32, "ssid") /\ fields[3] = Length(ssid, "ssid")
      /\ fields[4] = Part("pad", 2) /\ fields[5] = Part("bssid", 6)
      /\ fields[6] = Word /\ fields[7] = Offset(12 + ssid, "keys")
      /\ fields[8] = Length(key, "one_key") /\ fields[9] = Word
      /\ fields[10] = Part("ssid", ssid) /\ fields[11] = Part("keys", four)
  BY DEF ProfileStart, ETH_ALEN
<1>2. /\ at[1] = 0 /\ at[2] = 4 /\ at[3] = 8 /\ at[4] = 12 /\ at[5] = 14
      /\ at[6] = 20 /\ at[7] = 24 /\ at[8] = 28 /\ at[9] = 32 /\ at[10] = 36
      /\ at[11] = 36 + ssid /\ at[12] = 36 + ssid + four
  OBVIOUS
<1> HIDE DEF fields, at
<1>3. LaidOut(fields, at)
  BY <1>1, <1>2 DEF LaidOut, Offset, Length, Part, Word, Field
<1>4. PointsBy(fields, at)
  <2> USE <1>1, <1>2 DEF Offset, Length, Part, Word, Field
  <2>1. Tells(fields[2], fields[10], at[10] - at[2])
    BY DEF Tells
  <2>2. Tells(fields[3], fields[10], at[10] - at[3])
    BY DEF Tells
  <2>3. Tells(fields[7], fields[11], at[11] - at[7])
    BY DEF Tells
  <2>4. Tells(fields[8], fields[11], at[11] - at[8])
    BY DEF Tells
  <2>5. \A i \in 1..11 :
            fields[i].says \in {"offset", "length"} => i \in {2, 3, 7, 8}
    OBVIOUS
  <2> QED BY <2>1, <2>2, <2>3, <2>4, <2>5 DEF PointsBy
<1>5. Width(fields) = at[11 + 1] /\ Points(fields)
  BY <1>1, <1>3, <1>4, LaidOutPoints
<1> QED BY <1>2, <1>5 DEF fields

\* With a passphrase.
LEMMA WpaLaidOut ==
    ASSUME NEW ssid \in Nat, NEW key \in Nat
    PROVE  LET fields == AddProfileWpa(ssid, key).fields
           IN  Width(fields) = 44 + ssid + key /\ Points(fields)
<1> DEFINE fields == (ProfileStart(40, ssid) \o <<Word, Word, Word>> \o
                     <<Offset(8 + ssid, "key"), Length(key, "key"), Part("ssid", ssid),
                       Part("key", key)>>)
           at == <<0, 4, 8, 12, 14, 20, 24, 28, 32, 36, 40, 44, 44 + ssid,
                 44 + ssid + key>>
<1>1. /\ Len(fields) = 13 /\ DOMAIN fields = 1..13 /\ fields[1] = Word
      /\ fields[2] = Offset(40, "ssid") /\ fields[3] = Length(ssid, "ssid")
      /\ fields[4] = Part("pad", 2) /\ fields[5] = Part("bssid", 6)
      /\ fields[6] = Word /\ fields[7] = Word /\ fields[8] = Word
      /\ fields[9] = Word /\ fields[10] = Offset(8 + ssid, "key")
      /\ fields[11] = Length(key, "key") /\ fields[12] = Part("ssid", ssid)
      /\ fields[13] = Part("key", key)
  BY DEF AddProfileWpa, ProfileStart, Command, ETH_ALEN
<1>2. /\ at[1] = 0 /\ at[2] = 4 /\ at[3] = 8 /\ at[4] = 12 /\ at[5] = 14
      /\ at[6] = 20 /\ at[7] = 24 /\ at[8] = 28 /\ at[9] = 32 /\ at[10] = 36
      /\ at[11] = 40 /\ at[12] = 44 /\ at[13] = 44 + ssid
      /\ at[14] = 44 + ssid + key
  OBVIOUS
<1> HIDE DEF fields, at
<1>3. LaidOut(fields, at)
  BY <1>1, <1>2 DEF LaidOut, Offset, Length, Part, Word, Field
<1>4. PointsBy(fields, at)
  <2> USE <1>1, <1>2 DEF Offset, Length, Part, Word, Field
  <2>1. Tells(fields[2], fields[12], at[12] - at[2])
    BY DEF Tells
  <2>2. Tells(fields[3], fields[12], at[12] - at[3])
    BY DEF Tells
  <2>3. Tells(fields[10], fields[13], at[13] - at[10])
    BY DEF Tells
  <2>4. Tells(fields[11], fields[13], at[13] - at[11])
    BY DEF Tells
  <2>5. \A i \in 1..13 :
            fields[i].says \in {"offset", "length"} => i \in {2, 3, 10, 11}
    OBVIOUS
  <2> QED BY <2>1, <2>2, <2>3, <2>4, <2>5 DEF PointsBy
<1>5. Width(fields) = at[13 + 1] /\ Points(fields)
  BY <1>1, <1>3, <1>4, LaidOutPoints
<1> QED BY <1>2, <1>5, WordsAre DEF fields, AddProfileWpa, Command

\* wlan_ioctl_set_scan_params.
LEMMA ScanLaidOut ==
    LET fields == (<<Offset(36, "intervals")>> \o Words(8) \o <<Part("intervals", 16 * 4)>>)
    IN  Width(fields) = 100 /\ Points(fields)
<1> DEFINE fields == (<<Offset(36, "intervals")>>
                        \o <<Word, Word, Word, Word, Word, Word, Word, Word>>
                        \o <<Part("intervals", 16 * 4)>>)
           at == <<0, 4, 8, 12, 16, 20, 24, 28, 32, 36, 100>>
<1>1. /\ Len(fields) = 10 /\ DOMAIN fields = 1..10
      /\ fields[1] = Offset(36, "intervals") /\ fields[2] = Word
      /\ fields[3] = Word /\ fields[4] = Word /\ fields[5] = Word
      /\ fields[6] = Word /\ fields[7] = Word /\ fields[8] = Word
      /\ fields[9] = Word /\ fields[10] = Part("intervals", 16 * 4)
  OBVIOUS
<1>2. /\ at[1] = 0 /\ at[2] = 4 /\ at[3] = 8 /\ at[4] = 12 /\ at[5] = 16
      /\ at[6] = 20 /\ at[7] = 24 /\ at[8] = 28 /\ at[9] = 32 /\ at[10] = 36
      /\ at[11] = 100
  OBVIOUS
<1> HIDE DEF fields, at
<1>3. LaidOut(fields, at)
  BY <1>1, <1>2 DEF LaidOut, Offset, Length, Part, Word, Field
<1>4. PointsBy(fields, at)
  <2> USE <1>1, <1>2 DEF Offset, Length, Part, Word, Field
  <2>1. Tells(fields[1], fields[10], at[10] - at[1])
    BY DEF Tells
  <2>2. \A i \in 1..10 :
            fields[i].says \in {"offset", "length"} => i \in {1}
    OBVIOUS
  <2> QED BY <2>1, <2>2 DEF PointsBy
<1>5. Width(fields) = at[10 + 1] /\ Points(fields)
  BY <1>1, <1>3, <1>4, LaidOutPoints
<1> QED BY <1>2, <1>5, WordsAre DEF fields

\* netapp_dhcp.
LEMMA DhcpLaidOut ==
    LET fields == <<Part("IP", 4), Part("mask", 4), Part("gateway", 4), Word, Part("DNS", 4)>>
    IN  Width(fields) = 20 /\ Points(fields)
<1> DEFINE fields == <<Part("IP", 4), Part("mask", 4), Part("gateway", 4), Word, Part("DNS", 4)>>
           at == <<0, 4, 8, 12, 16, 20>>
<1>1. /\ Len(fields) = 5 /\ DOMAIN fields = 1..5 /\ fields[1] = Part("IP", 4)
      /\ fields[2] = Part("mask", 4) /\ fields[3] = Part("gateway", 4)
      /\ fields[4] = Word /\ fields[5] = Part("DNS", 4)
  OBVIOUS
<1>2. /\ at[1] = 0 /\ at[2] = 4 /\ at[3] = 8 /\ at[4] = 12 /\ at[5] = 16
      /\ at[6] = 20
  OBVIOUS
<1> HIDE DEF fields, at
<1>3. LaidOut(fields, at)
  BY <1>1, <1>2 DEF LaidOut, Offset, Length, Part, Word, Field
<1>4. PointsBy(fields, at)
  BY <1>1 DEF PointsBy, Offset, Length, Part, Word, Field
<1>5. Width(fields) = at[5 + 1] /\ Points(fields)
  BY <1>1, <1>3, <1>4, LaidOutPoints
<1> QED BY <1>2, <1>5 DEF fields

\* send and nvmem_write.
LEMMA DataLaidOut ==
    ASSUME NEW len \in Nat
    PROVE  LET fields == (<<Word, Offset(12, "data"), Length(len, "data"), Word>>
                          \o <<Part("data", len)>>)
           IN  Width(fields) = 16 + len /\ Points(fields)
<1> DEFINE fields == (<<Word, Offset(12, "data"), Length(len, "data"), Word>>
                        \o <<Part("data", len)>>)
           at == <<0, 4, 8, 12, 16, 16 + len>>
<1>1. /\ Len(fields) = 5 /\ DOMAIN fields = 1..5 /\ fields[1] = Word
      /\ fields[2] = Offset(12, "data") /\ fields[3] = Length(len, "data")
      /\ fields[4] = Word /\ fields[5] = Part("data", len)
  OBVIOUS
<1>2. /\ at[1] = 0 /\ at[2] = 4 /\ at[3] = 8 /\ at[4] = 12 /\ at[5] = 16
      /\ at[6] = 16 + len
  OBVIOUS
<1> HIDE DEF fields, at
<1>3. LaidOut(fields, at)
  BY <1>1, <1>2 DEF LaidOut, Offset, Length, Part, Word, Field
<1>4. PointsBy(fields, at)
  <2> USE <1>1, <1>2 DEF Offset, Length, Part, Word, Field
  <2>1. Tells(fields[2], fields[5], at[5] - at[2])
    BY DEF Tells
  <2>2. Tells(fields[3], fields[5], at[5] - at[3])
    BY DEF Tells
  <2>3. \A i \in 1..5 :
            fields[i].says \in {"offset", "length"} => i \in {2, 3}
    OBVIOUS
  <2> QED BY <2>1, <2>2, <2>3 DEF PointsBy
<1>5. Width(fields) = at[5 + 1] /\ Points(fields)
  BY <1>1, <1>3, <1>4, LaidOutPoints
<1> QED BY <1>2, <1>5 DEF fields

\* bind and connect.
LEMMA AddressLaidOut ==
    LET fields == Address
    IN  Width(fields) = 20 /\ Points(fields)
<1> DEFINE fields == Address
           at == <<0, 4, 8, 12, 20>>
<1>1. /\ Len(fields) = 4 /\ DOMAIN fields = 1..4 /\ fields[1] = Word
      /\ fields[2] = Offset(8, "addr") /\ fields[3] = Length(8, "addr")
      /\ fields[4] = Part("addr", 8)
  BY DEF Address, ASIC_ADDR_LEN
<1>2. /\ at[1] = 0 /\ at[2] = 4 /\ at[3] = 8 /\ at[4] = 12 /\ at[5] = 20
  OBVIOUS
<1> HIDE DEF fields, at
<1>3. LaidOut(fields, at)
  BY <1>1, <1>2 DEF LaidOut, Offset, Length, Part, Word, Field
<1>4. PointsBy(fields, at)
  <2> USE <1>1, <1>2 DEF Offset, Length, Part, Word, Field
  <2>1. Tells(fields[2], fields[4], at[4] - at[2])
    BY DEF Tells
  <2>2. Tells(fields[3], fields[4], at[4] - at[3])
    BY DEF Tells
  <2>3. \A i \in 1..4 :
            fields[i].says \in {"offset", "length"} => i \in {2, 3}
    OBVIOUS
  <2> QED BY <2>1, <2>2, <2>3 DEF PointsBy
<1>5. Width(fields) = at[4 + 1] /\ Points(fields)
  BY <1>1, <1>3, <1>4, LaidOutPoints
<1> QED BY <1>2, <1>5 DEF fields

\* gethostbyname.
LEMMA HostLaidOut ==
    ASSUME NEW len \in Nat
    PROVE  LET fields == <<Offset(8, "name"), Length(len, "name"), Part("name", len)>>
           IN  Width(fields) = 8 + len /\ Points(fields)
<1> DEFINE fields == <<Offset(8, "name"), Length(len, "name"), Part("name", len)>>
           at == <<0, 4, 8, 8 + len>>
<1>1. /\ Len(fields) = 3 /\ DOMAIN fields = 1..3
      /\ fields[1] = Offset(8, "name") /\ fields[2] = Length(len, "name")
      /\ fields[3] = Part("name", len)
  OBVIOUS
<1>2. /\ at[1] = 0 /\ at[2] = 4 /\ at[3] = 8 /\ at[4] = 8 + len
  OBVIOUS
<1> HIDE DEF fields, at
<1>3. LaidOut(fields, at)
  BY <1>1, <1>2 DEF LaidOut, Offset, Length, Part, Word, Field
<1>4. PointsBy(fields, at)
  <2> USE <1>1, <1>2 DEF Offset, Length, Part, Word, Field
  <2>1. Tells(fields[1], fields[3], at[3] - at[1])
    BY DEF Tells
  <2>2. Tells(fields[2], fields[3], at[3] - at[2])
    BY DEF Tells
  <2>3. \A i \in 1..3 :
            fields[i].says \in {"offset", "length"} => i \in {1, 2}
    OBVIOUS
  <2> QED BY <2>1, <2>2, <2>3 DEF PointsBy
<1>5. Width(fields) = at[3 + 1] /\ Points(fields)
  BY <1>1, <1>3, <1>4, LaidOutPoints
<1> QED BY <1>2, <1>5 DEF fields

\* select.
LEMMA SelectLaidOut ==
    ASSUME NEW timeout \in Nat
    PROVE  LET fields ==
            <<Word, Offset(20, "read"), Offset(20, "write"), Offset(20, "except"),
            Offset(20, "timeout"), Word, Part("read", 4), Part("write", 4),
            Part("except", 4), Part("timeout", timeout)>>
           IN  Width(fields) = 36 + timeout /\ Points(fields)
<1> DEFINE fields == <<Word, Offset(20, "read"), Offset(20, "write"), Offset(20, "except"),
                        Offset(20, "timeout"), Word, Part("read", 4), Part("write", 4),
                        Part("except", 4), Part("timeout", timeout)>>
           at == <<0, 4, 8, 12, 16, 20, 24, 28, 32, 36, 36 + timeout>>
<1>1. /\ Len(fields) = 10 /\ DOMAIN fields = 1..10 /\ fields[1] = Word
      /\ fields[2] = Offset(20, "read") /\ fields[3] = Offset(20, "write")
      /\ fields[4] = Offset(20, "except") /\ fields[5] = Offset(20, "timeout")
      /\ fields[6] = Word /\ fields[7] = Part("read", 4)
      /\ fields[8] = Part("write", 4) /\ fields[9] = Part("except", 4)
      /\ fields[10] = Part("timeout", timeout)
  OBVIOUS
<1>2. /\ at[1] = 0 /\ at[2] = 4 /\ at[3] = 8 /\ at[4] = 12 /\ at[5] = 16
      /\ at[6] = 20 /\ at[7] = 24 /\ at[8] = 28 /\ at[9] = 32 /\ at[10] = 36
      /\ at[11] = 36 + timeout
  OBVIOUS
<1> HIDE DEF fields, at
<1>3. LaidOut(fields, at)
  BY <1>1, <1>2 DEF LaidOut, Offset, Length, Part, Word, Field
<1>4. PointsBy(fields, at)
  <2> USE <1>1, <1>2 DEF Offset, Length, Part, Word, Field
  <2>1. Tells(fields[2], fields[7], at[7] - at[2])
    BY DEF Tells
  <2>2. Tells(fields[3], fields[8], at[8] - at[3])
    BY DEF Tells
  <2>3. Tells(fields[4], fields[9], at[9] - at[4])
    BY DEF Tells
  <2>4. Tells(fields[5], fields[10], at[10] - at[5])
    BY DEF Tells
  <2>5. \A i \in 1..10 :
            fields[i].says \in {"offset", "length"} => i \in {2, 3, 4, 5}
    OBVIOUS
  <2> QED BY <2>1, <2>2, <2>3, <2>4, <2>5 DEF PointsBy
<1>5. Width(fields) = at[10 + 1] /\ Points(fields)
  BY <1>1, <1>3, <1>4, LaidOutPoints
<1> QED BY <1>2, <1>5 DEF fields

\* setsockopt.
LEMMA OptionLaidOut ==
    ASSUME NEW len \in Nat
    PROVE  LET fields ==
            (Words(3) \o <<Offset(8, "option"), Length(len, "option"),
                        Part("option", len)>>)
           IN  Width(fields) = 20 + len /\ Points(fields)
<1> DEFINE fields == (<<Word, Word, Word>> \o <<Offset(8, "option"), Length(len, "option"),
                                    Part("option", len)>>)
           at == <<0, 4, 8, 12, 16, 20, 20 + len>>
<1>1. /\ Len(fields) = 6 /\ DOMAIN fields = 1..6 /\ fields[1] = Word
      /\ fields[2] = Word /\ fields[3] = Word
      /\ fields[4] = Offset(8, "option") /\ fields[5] = Length(len, "option")
      /\ fields[6] = Part("option", len)
  OBVIOUS
<1>2. /\ at[1] = 0 /\ at[2] = 4 /\ at[3] = 8 /\ at[4] = 12 /\ at[5] = 16
      /\ at[6] = 20 /\ at[7] = 20 + len
  OBVIOUS
<1> HIDE DEF fields, at
<1>3. LaidOut(fields, at)
  BY <1>1, <1>2 DEF LaidOut, Offset, Length, Part, Word, Field
<1>4. PointsBy(fields, at)
  <2> USE <1>1, <1>2 DEF Offset, Length, Part, Word, Field
  <2>1. Tells(fields[4], fields[6], at[6] - at[4])
    BY DEF Tells
  <2>2. Tells(fields[5], fields[6], at[6] - at[5])
    BY DEF Tells
  <2>3. \A i \in 1..6 :
            fields[i].says \in {"offset", "length"} => i \in {4, 5}
    OBVIOUS
  <2> QED BY <2>1, <2>2, <2>3 DEF PointsBy
<1>5. Width(fields) = at[6 + 1] /\ Points(fields)
  BY <1>1, <1>3, <1>4, LaidOutPoints
<1> QED BY <1>2, <1>5, WordsAre DEF fields

\* sendto.
LEMMA SendtoLaidOut ==
    ASSUME NEW len \in Nat
    PROVE  LET fields ==
            (<<Word, Offset(20, "data"), Length(len, "data"), Word,
             Offset(len + 4 + 4, "to"), Length(8, "to")>>
              \o <<Part("data", len), Part("to", ASIC_ADDR_LEN)>>)
           IN  Width(fields) = 32 + len /\ Points(fields)
<1> DEFINE fields == (<<Word, Offset(20, "data"), Length(len, "data"), Word,
                         Offset(len + 4 + 4, "to"), Length(8, "to")>>
                          \o <<Part("data", len), Part("to", ASIC_ADDR_LEN)>>)
           at == <<0, 4, 8, 12, 16, 20, 24, 24 + len, 32 + len>>
<1>1. /\ Len(fields) = 8 /\ DOMAIN fields = 1..8 /\ fields[1] = Word
      /\ fields[2] = Offset(20, "data") /\ fields[3] = Length(len, "data")
      /\ fields[4] = Word /\ fields[5] = Offset(len + 4 + 4, "to")
      /\ fields[6] = Length(8, "to") /\ fields[7] = Part("data", len)
      /\ fields[8] = Part("to", 8)
  BY DEF ASIC_ADDR_LEN
<1>2. /\ at[1] = 0 /\ at[2] = 4 /\ at[3] = 8 /\ at[4] = 12 /\ at[5] = 16
      /\ at[6] = 20 /\ at[7] = 24 /\ at[8] = 24 + len /\ at[9] = 32 + len
  OBVIOUS
<1> HIDE DEF fields, at
<1>3. LaidOut(fields, at)
  BY <1>1, <1>2 DEF LaidOut, Offset, Length, Part, Word, Field
<1>4. PointsBy(fields, at)
  <2> USE <1>1, <1>2 DEF Offset, Length, Part, Word, Field
  <2>1. Tells(fields[2], fields[7], at[7] - at[2])
    BY DEF Tells
  <2>2. Tells(fields[3], fields[7], at[7] - at[3])
    BY DEF Tells
  <2>3. Tells(fields[5], fields[8], at[8] - at[5])
    BY DEF Tells
  <2>4. Tells(fields[6], fields[8], at[8] - at[6])
    BY DEF Tells
  <2>5. \A i \in 1..8 :
            fields[i].says \in {"offset", "length"} => i \in {2, 3, 5, 6}
    OBVIOUS
  <2> QED BY <2>1, <2>2, <2>3, <2>4, <2>5 DEF PointsBy
<1>5. Width(fields) = at[8 + 1] /\ Points(fields)
  BY <1>1, <1>3, <1>4, LaidOutPoints
<1> QED BY <1>2, <1>5 DEF fields

\* mdnsAdvertiser.
LEMMA MdnsLaidOut ==
    ASSUME NEW len \in Nat
    PROVE  LET fields == <<Word, Offset(8, "name"), Length(len, "name"), Part("name", len)>>
           IN  Width(fields) = 12 + len /\ Points(fields)
<1> DEFINE fields == <<Word, Offset(8, "name"), Length(len, "name"), Part("name", len)>>
           at == <<0, 4, 8, 12, 12 + len>>
<1>1. /\ Len(fields) = 4 /\ DOMAIN fields = 1..4 /\ fields[1] = Word
      /\ fields[2] = Offset(8, "name") /\ fields[3] = Length(len, "name")
      /\ fields[4] = Part("name", len)
  OBVIOUS
<1>2. /\ at[1] = 0 /\ at[2] = 4 /\ at[3] = 8 /\ at[4] = 12 /\ at[5] = 12 + len
  OBVIOUS
<1> HIDE DEF fields, at
<1>3. LaidOut(fields, at)
  BY <1>1, <1>2 DEF LaidOut, Offset, Length, Part, Word, Field
<1>4. PointsBy(fields, at)
  <2> USE <1>1, <1>2 DEF Offset, Length, Part, Word, Field
  <2>1. Tells(fields[2], fields[4], at[4] - at[2])
    BY DEF Tells
  <2>2. Tells(fields[3], fields[4], at[4] - at[3])
    BY DEF Tells
  <2>3. \A i \in 1..4 :
            fields[i].says \in {"offset", "length"} => i \in {2, 3}
    OBVIOUS
  <2> QED BY <2>1, <2>2, <2>3 DEF PointsBy
<1>5. Width(fields) = at[4 + 1] /\ Points(fields)
  BY <1>1, <1>3, <1>4, LaidOutPoints
<1> QED BY <1>2, <1>5 DEF fields

\* A part alone: the tail of a data command, the prefix of Smart Config.
LEMMA PartLaidOut ==
    ASSUME NEW name, NEW len \in Nat
    PROVE  LET fields == <<Part(name, len)>>
           IN  Width(fields) = len /\ Points(fields)
<1> DEFINE fields == <<Part(name, len)>>
           at == <<0, len>>
<1>1. /\ Len(fields) = 1 /\ DOMAIN fields = 1..1
      /\ fields[1] = Part(name, len)
  OBVIOUS
<1>2. /\ at[1] = 0 /\ at[2] = len
  OBVIOUS
<1> HIDE DEF fields, at
<1>3. LaidOut(fields, at)
  BY <1>1, <1>2 DEF LaidOut, Offset, Length, Part, Word, Field
<1>4. PointsBy(fields, at)
  BY <1>1 DEF PointsBy, Offset, Length, Part, Word, Field
<1>5. Width(fields) = at[1 + 1] /\ Points(fields)
  BY <1>1, <1>3, <1>4, LaidOutPoints
<1> QED BY <1>2, <1>5 DEF fields

\* The tail of sendto.
LEMMA TailLaidOut ==
    ASSUME NEW len \in Nat
    PROVE  LET fields == <<Part("data", len), Part("to", ASIC_ADDR_LEN)>>
           IN  Width(fields) = 8 + len /\ Points(fields)
<1> DEFINE fields == <<Part("data", len), Part("to", ASIC_ADDR_LEN)>>
           at == <<0, len, 8 + len>>
<1>1. /\ Len(fields) = 2 /\ DOMAIN fields = 1..2
      /\ fields[1] = Part("data", len) /\ fields[2] = Part("to", 8)
  BY DEF ASIC_ADDR_LEN
<1>2. /\ at[1] = 0 /\ at[2] = len /\ at[3] = 8 + len
  OBVIOUS
<1> HIDE DEF fields, at
<1>3. LaidOut(fields, at)
  BY <1>1, <1>2 DEF LaidOut, Offset, Length, Part, Word, Field
<1>4. PointsBy(fields, at)
  BY <1>1 DEF PointsBy, Offset, Length, Part, Word, Field
<1>5. Width(fields) = at[2 + 1] /\ Points(fields)
  BY <1>1, <1>3, <1>4, LaidOutPoints
<1> QED BY <1>2, <1>5 DEF fields

-----------------------------------------------------------------------------
(* The opcodes                                                               *)

\* The events nobody waits for.
Known == {HCI_EVNT.FREE_BUFF, HCI_EVNT.KEEPALIVE, HCI_EVNT.UNSOL_CONNECT,
          HCI_EVNT.UNSOL_DISCONNECT, HCI_EVNT.UNSOL_INIT, HCI_EVNT.UNSOL_DHCP,
          HCI_EVNT.PING_REPORT, HCI_EVNT.SIMPLE_CONFIG_DONE, HCI_EVNT.TCP_CLOSE_WAIT}

\* The commands as numbers.
LEMMA Opcodes ==
    /\ HCI_CMND.WLAN_CONNECT = 1 /\ HCI_CMND.WLAN_DISCONNECT = 2
    /\ HCI_CMND.SET_SCANPARAM = 3 /\ HCI_CMND.SET_CONNECTION_POLICY = 4
    /\ HCI_CMND.ADD_PROFILE = 5 /\ HCI_CMND.DEL_PROFILE = 6
    /\ HCI_CMND.GET_SCAN_RESULTS = 7 /\ HCI_CMND.EVENT_MASK = 8
    /\ HCI_CMND.STATUSGET = 9 /\ HCI_CMND.SIMPLE_CONFIG_START = 10
    /\ HCI_CMND.SIMPLE_CONFIG_STOP = 11 /\ HCI_CMND.SIMPLE_CONFIG_SET_PREFIX = 12
    /\ HCI_CMND.SOCKET = 4097 /\ HCI_CMND.BIND = 4098 /\ HCI_CMND.RECV = 4100
    /\ HCI_CMND.ACCEPT = 4101 /\ HCI_CMND.LISTEN = 4102 /\ HCI_CMND.CONNECT = 4103
    /\ HCI_CMND.BSD_SELECT = 4104 /\ HCI_CMND.SETSOCKOPT = 4105
    /\ HCI_CMND.GETSOCKOPT = 4106 /\ HCI_CMND.CLOSE_SOCKET = 4107
    /\ HCI_CMND.RECVFROM = 4109 /\ HCI_CMND.GETHOSTNAME = 4112
    /\ HCI_CMND.MDNS_ADVERTISE = 4113 /\ HCI_CMND.GETMSSVALUE = 4114
    /\ HCI_CMND.SEND = 129 /\ HCI_CMND.SENDTO = 131
    /\ HCI_CMND.NVMEM_CREATE_ENTRY = 515 /\ HCI_CMND.NVMEM_READ = 513
    /\ HCI_CMND.NVMEM_WRITE = 144 /\ HCI_CMND.READ_SP_VERSION = 519
    /\ HCI_CMND.READ_BUFFER_SIZE = 16395 /\ HCI_CMND.SIMPLE_LINK_START = 16384
    /\ HCI_CMND.DHCP = 8193 /\ HCI_CMND.PING_SEND = 8194
    /\ HCI_CMND.PING_REPORT = 8195 /\ HCI_CMND.PING_STOP = 8196
    /\ HCI_CMND.IPCONFIG = 8197 /\ HCI_CMND.ARP_FLUSH = 8198
    /\ HCI_CMND.SET_DEBUG_LEVEL = 8200 /\ HCI_CMND.SET_TIMERS = 8201
  BY DEF HCI_CMND

\* The events as numbers.
LEMMA Events ==
    /\ HCI_EVNT.SEND = 4099 /\ HCI_EVNT.WRITE = 4110 /\ HCI_EVNT.SENDTO = 4111
    /\ HCI_EVNT.PATCHES_REQ = 4096 /\ HCI_EVNT.NVMEM_WRITE = 514
    /\ HCI_EVNT.FREE_BUFF = 16640 /\ HCI_EVNT.KEEPALIVE = 33280
    /\ HCI_EVNT.UNSOL_CONNECT = 32769 /\ HCI_EVNT.UNSOL_DISCONNECT = 32770
    /\ HCI_EVNT.UNSOL_INIT = 32772 /\ HCI_EVNT.UNSOL_DHCP = 32784
    /\ HCI_EVNT.PING_REPORT = 32832 /\ HCI_EVNT.SIMPLE_CONFIG_DONE = 32896
    /\ HCI_EVNT.TCP_CLOSE_WAIT = 34816
  BY DEF HCI_EVNT

\* The unsolicited events as numbers.
LEMMA KnownAre == Known = {16640, 33280, 32769, 32770, 32772, 32784, 32832, 32896, 34816}
  BY Events DEF Known

\* What hci_event_handler writes, for the answer to each call.
LEMMA WrittenIs ==
    /\ \A op \in OneByte : Written(op) = {0}
    /\ \A op \in OneWord : Written(op) = 0..3
    /\ Written(HCI_CMND.READ_SP_VERSION) = {0} \union 1..4
    /\ \A op \in {HCI_CMND.GETHOSTNAME, HCI_EVNT.SEND, HCI_EVNT.SENDTO} : Written(op) = 0..7
    /\ Written(HCI_CMND.GETMSSVALUE) = 0..1
    /\ \A op \in {HCI_CMND.RECV, HCI_CMND.RECVFROM} : Written(op) = 0..11
    /\ Written(HCI_CMND.ACCEPT) = 0..23
    /\ Written(HCI_CMND.BSD_SELECT) = 0..15
    /\ Written(HCI_CMND.GETSOCKOPT) = {4} \union 0..3
    /\ Written(HCI_CMND.GET_SCAN_RESULTS) = 0..(12 + 38 - 1)
    /\ Written(HCI_CMND.IPCONFIG) = 0..(20 + 6 + 32 - 1)
    /\ \A op : Written(op) \subseteq 0..57
    /\ \A op \in {HCI_CMND.SIMPLE_LINK_START, HCI_CMND.READ_BUFFER_SIZE} : Written(op) = {}
 BY Opcodes, Events DEF Written, OneByte, OneWord

-----------------------------------------------------------------------------
(* The calls                                                                 *)

\* The answer a call awaits is its own, goes where there is room and has all
\* that is used of it; and its fields point where they say.
Sound(c) ==
    /\ c.awaits = AnswerTo(c.opcode) /\ c.awaits \notin Known \union {0}
    /\ Written(c.awaits) \subseteq 0..(c.room - 1)
    /\ c.used \subseteq Written(c.awaits)
    /\ Width(c.fields) \in Nat /\ Points(c.fields)
    /\ c.declared \in Nat /\ c.behind \in Nat

\* It declares the length it has, and no more than one byte can say.
Whole(c) == (c.declared % 256) + c.behind = Width(c.fields) + Stale(c)

Right(c) == Sound(c) /\ Whole(c)

\* A command that is answered under its own opcode by so many bytes.
Plain(opcode, room) ==
    /\ opcode \in Nat \ {0} /\ opcode \notin Known
    /\ opcode \notin {HCI_CMND.SEND, HCI_CMND.SENDTO, HCI_CMND.NVMEM_WRITE}
    /\ Written(opcode) = 0..(room - 1)

\* A length of one byte is kept whole.
LEMMA Mod256 == ASSUME NEW n \in 0..255 PROVE n % 256 = n
  OBVIOUS

\* A call that is answered under its own opcode, and declares its width.
LEMMA PlainCommand ==
    ASSUME NEW c, NEW opcode, NEW room, Plain(opcode, room),
           opcode \notin {HCI_CMND.SET_TIMERS, HCI_CMND.BSD_SELECT},
           c.opcode = opcode, c.awaits = opcode, c.room = room,
           c.used \subseteq 0..(room - 1), c.behind = 0,
           Width(c.fields) \in 0..255, c.declared = Width(c.fields), Points(c.fields)
    PROVE  Right(c)
<1>1. AnswerTo(opcode) = opcode
  BY DEF AnswerTo, Plain
<1>2. Stale(c) = 0
  BY DEF Stale
<1>3. c.declared % 256 = Width(c.fields)
  BY Mod256
<1>4. (c.declared % 256) + c.behind = Width(c.fields) + Stale(c)
  BY <1>2, <1>3
<1>5. Width(c.fields) \in Nat
  OBVIOUS
<1>6. opcode # 0 /\ opcode \notin Known
  BY DEF Plain
<1>7. Written(c.awaits) = 0..(c.room - 1)
  BY DEF Plain
<1> QED BY <1>1, <1>4, <1>5, <1>6, <1>7 DEF Right, Sound, Whole

\* The calls whose answer is a byte or a word.
LEMMA PlainOnes ==
    /\ \A opcode \in OneByte : Plain(opcode, 1)
    /\ \A opcode \in OneWord \ {HCI_EVNT.NVMEM_WRITE} : Plain(opcode, 4)
<1>1. ASSUME NEW opcode \in OneByte PROVE Plain(opcode, 1)
  <2>1. opcode \in Nat \ {0} /\ opcode \notin {129, 131, 144} /\ opcode \notin Known
    BY Opcodes, KnownAre DEF OneByte
  <2>2. Written(opcode) = 0..(1 - 1)
    BY WrittenIs
  <2> QED BY <2>1, <2>2, Opcodes DEF Plain
<1>2. ASSUME NEW opcode \in OneWord \ {HCI_EVNT.NVMEM_WRITE} PROVE Plain(opcode, 4)
  <2>1. opcode \in Nat \ {0} /\ opcode \notin {129, 131, 144} /\ opcode \notin Known
    BY Opcodes, Events, KnownAre DEF OneWord
  <2>2. Written(opcode) = 0..(4 - 1)
    BY WrittenIs
  <2> QED BY <2>1, <2>2, Opcodes DEF Plain
<1> QED BY <1>1, <1>2

\* The other calls answered under their own opcode.
LEMMA PlainOthers ==
    /\ Plain(HCI_CMND.SIMPLE_LINK_START, 0) /\ Plain(HCI_CMND.READ_BUFFER_SIZE, 0)
    /\ Plain(HCI_CMND.GET_SCAN_RESULTS, 50) /\ Plain(HCI_CMND.IPCONFIG, 58)
    /\ Plain(HCI_CMND.READ_SP_VERSION, 5) /\ Plain(HCI_CMND.GETSOCKOPT, 5)
    /\ Plain(HCI_CMND.ACCEPT, 24) /\ Plain(HCI_CMND.BSD_SELECT, 16)
    /\ Plain(HCI_CMND.GETHOSTNAME, 8) /\ Plain(HCI_CMND.GETMSSVALUE, 2)
    /\ Plain(HCI_CMND.RECV, 12) /\ Plain(HCI_CMND.RECVFROM, 12)
<1> DEFINE them == {HCI_CMND.SIMPLE_LINK_START, HCI_CMND.READ_BUFFER_SIZE,
              HCI_CMND.GET_SCAN_RESULTS, HCI_CMND.IPCONFIG, HCI_CMND.READ_SP_VERSION,
              HCI_CMND.GETSOCKOPT, HCI_CMND.ACCEPT, HCI_CMND.BSD_SELECT,
              HCI_CMND.GETHOSTNAME, HCI_CMND.GETMSSVALUE, HCI_CMND.RECV,
              HCI_CMND.RECVFROM}
<1>1. \A opcode \in them : opcode \in Nat \ {0} /\ opcode \notin {129, 131, 144}
  BY Opcodes
<1>2. \A opcode \in them : opcode \notin Known
  BY Opcodes, KnownAre
<1>3. /\ Written(HCI_CMND.SIMPLE_LINK_START) = 0..(0 - 1)
      /\ Written(HCI_CMND.READ_BUFFER_SIZE) = 0..(0 - 1)
      /\ Written(HCI_CMND.GET_SCAN_RESULTS) = 0..(50 - 1)
      /\ Written(HCI_CMND.IPCONFIG) = 0..(58 - 1)
      /\ Written(HCI_CMND.READ_SP_VERSION) = 0..(5 - 1)
      /\ Written(HCI_CMND.GETSOCKOPT) = 0..(5 - 1)
      /\ Written(HCI_CMND.ACCEPT) = 0..(24 - 1)
      /\ Written(HCI_CMND.BSD_SELECT) = 0..(16 - 1)
      /\ Written(HCI_CMND.GETHOSTNAME) = 0..(8 - 1)
      /\ Written(HCI_CMND.GETMSSVALUE) = 0..(2 - 1)
      /\ Written(HCI_CMND.RECV) = 0..(12 - 1)
      /\ Written(HCI_CMND.RECVFROM) = 0..(12 - 1)
  BY WrittenIs
<1> QED BY <1>1, <1>2, <1>3, Opcodes DEF Plain

\* The same for the calls that use all of their answer.
LEMMA CommandRight ==
    ASSUME NEW opcode, NEW fields, NEW declared \in 0..255, NEW room,
           Plain(opcode, room),
           opcode \notin {HCI_CMND.SET_TIMERS, HCI_CMND.BSD_SELECT},
           Width(fields) = declared, Points(fields)
    PROVE  Right(Command(opcode, fields, declared, room))
  BY PlainCommand DEF Command

\* The calls answered by a word.
LEMMA WordRight ==
    ASSUME NEW opcode \in OneWord \ {HCI_EVNT.NVMEM_WRITE}, NEW fields,
           NEW declared \in 0..255, Width(fields) = declared, Points(fields)
    PROVE  Right(Command(opcode, fields, declared, 4))
<1>1. opcode \notin {HCI_CMND.SET_TIMERS, HCI_CMND.BSD_SELECT}
  BY Opcodes, Events DEF OneWord
<1> QED BY <1>1, PlainOnes, CommandRight

\* Which these are.
LEMMA Groups ==
    /\ {HCI_CMND.WLAN_CONNECT, HCI_CMND.ADD_PROFILE, HCI_CMND.WLAN_DISCONNECT,
         HCI_CMND.STATUSGET, HCI_CMND.SIMPLE_CONFIG_STOP,
         HCI_CMND.SET_CONNECTION_POLICY, HCI_CMND.DEL_PROFILE,
         HCI_CMND.SIMPLE_CONFIG_START, HCI_CMND.SET_SCANPARAM, HCI_CMND.EVENT_MASK,
         HCI_CMND.SIMPLE_CONFIG_SET_PREFIX, HCI_CMND.SOCKET, HCI_CMND.CLOSE_SOCKET,
         HCI_CMND.BIND, HCI_CMND.LISTEN, HCI_CMND.CONNECT, HCI_CMND.SETSOCKOPT}
         \subseteq OneWord \ {HCI_EVNT.NVMEM_WRITE}
    /\ {HCI_CMND.DHCP, HCI_CMND.PING_SEND, HCI_CMND.PING_REPORT, HCI_CMND.PING_STOP,
         HCI_CMND.ARP_FLUSH, HCI_CMND.SET_DEBUG_LEVEL, HCI_CMND.NVMEM_READ,
         HCI_CMND.NVMEM_CREATE_ENTRY, HCI_CMND.MDNS_ADVERTISE}
         \subseteq OneByte \ {HCI_CMND.SET_TIMERS}
  BY Opcodes, Events DEF OneWord, OneByte

\* The calls answered by a byte.
LEMMA ByteRight ==
    ASSUME NEW opcode \in OneByte \ {HCI_CMND.SET_TIMERS}, NEW fields,
           NEW declared \in 0..255, Width(fields) = declared, Points(fields)
    PROVE  Right(Command(opcode, fields, declared, 1))
<1>1. opcode \notin {HCI_CMND.SET_TIMERS, HCI_CMND.BSD_SELECT}
  BY Opcodes DEF OneByte
<1> QED BY <1>1, PlainOnes, CommandRight

\* wlan_connect declares one more than it ends at, less one.
LEMMA WlanConnectRight ==
    ASSUME NEW ssid \in 0..32, NEW key \in 0..64
    PROVE  Right(WlanConnect(ssid, key))
<1> DEFINE fields == WlanConnect(ssid, key).fields
<1>0. ssid \in Nat /\ key \in Nat
  OBVIOUS
<1>1. Width(fields) = 28 + ssid + key /\ Points(fields)
  BY <1>0, ConnectLaidOut
<1>2. WlanConnect(ssid, key) = Command(HCI_CMND.WLAN_CONNECT, fields, 29 + ssid + key - 1, 4)
  BY DEF WlanConnect, Command
<1>3. 29 + ssid + key - 1 \in 0..255 /\ 29 + ssid + key - 1 = 28 + ssid + key
  OBVIOUS
<1> HIDE DEF fields
<1> QED BY <1>1, <1>2, <1>3, WordRight, Groups

\* wlan_add_profile, for the keys that are allowed.
LEMMA AddProfileRight ==
    ASSUME NEW sec \in 0..3, NEW ssid \in 0..32, NEW key \in 0..63,
           sec = WLAN_SEC.WEP => key <= 13
    PROVE  Right(AddProfile(sec, ssid, key))
<1>0. ssid \in Nat /\ key \in Nat
  OBVIOUS
<1>1. Right(AddProfileOpen(ssid))
  <2> DEFINE fields == AddProfileOpen(ssid).fields
  <2>1. Width(fields) = 24 + ssid /\ Points(fields)
    BY <1>0, OpenLaidOut
  <2>2. AddProfileOpen(ssid) = Command(HCI_CMND.ADD_PROFILE, fields, 24 + ssid, 4)
    BY DEF AddProfileOpen, Command
  <2>3. 24 + ssid \in 0..255
    OBVIOUS
  <2> HIDE DEF fields
  <2> QED BY <2>1, <2>2, <2>3, WordRight, Groups
<1>2. ASSUME key <= 13 PROVE Right(AddProfileWep(ssid, key))
  <2> DEFINE fields == AddProfileWep(ssid, key).fields
             four == 4 * key
  <2>1. four \in 0..52 /\ key * 4 = four
    BY <1>2
  <2>2. fields = ProfileStart(32, ssid) \o
                   <<Offset(12 + ssid, "keys"), Length(key, "one_key"), Word,
                     Part("ssid", ssid), Part("keys", four)>>
    BY DEF AddProfileWep, Command
  <2>3. AddProfileWep(ssid, key) = Command(HCI_CMND.ADD_PROFILE, fields, 36 + ssid + four, 4)
    BY <2>1 DEF AddProfileWep, Command
  <2>0. four \in Nat /\ four = 4 * key
    BY <1>0
  <2> HIDE DEF four, fields
  <2>4. Width(fields) = 36 + ssid + four /\ Points(fields)
    BY <1>0, <2>0, <2>2, WepLaidOut
  <2>5. 36 + ssid + four \in 0..255
    BY <2>1
  <2> QED BY <2>3, <2>4, <2>5, WordRight, Groups, ZenonT(60)
<1>3. Right(AddProfileWpa(ssid, key))
  <2> DEFINE fields == AddProfileWpa(ssid, key).fields
  <2>1. Width(fields) = 44 + ssid + key /\ Points(fields)
    BY <1>0, WpaLaidOut
  <2>2. AddProfileWpa(ssid, key) = Command(HCI_CMND.ADD_PROFILE, fields, 44 + ssid + key, 4)
    BY DEF AddProfileWpa, Command
  <2>3. 44 + ssid + key \in 0..255
    OBVIOUS
  <2> HIDE DEF fields
  <2> QED BY <2>1, <2>2, <2>3, WordRight, Groups
<1> QED BY <1>1, <1>2, <1>3 DEF AddProfile, WLAN_SEC

\* A call begins, and it is right; or nothing that matters changes.
Begins == \E c : Right(c) /\ Fill(c)
Quiet == UNCHANGED <<pc, call, wire, waiting>>

\* What the calls of wlan.c begin.
LEMMA WlanBegins ==
    ASSUME wlan
    PROVE  Begins \/ Quiet
<1> USE DEF Begins, Begin
<1>1. CASE wlan_connect
  <2>1. PICK ssid \in SsidLengths, key \in UpTo(64) : Begin(WlanConnect(ssid, key))
    BY <1>1 DEF wlan_connect
  <2>2. ssid \in 0..32 /\ key \in 0..64
    BY CommandsAssumption DEF UpTo
  <2> QED BY <2>1, <2>2, WlanConnectRight
<1>2. CASE wlan_disconnect \/ wlan_ioctl_statusget \/ wlan_smart_config_stop
  <2>1. /\ Right(Command(HCI_CMND.WLAN_DISCONNECT, <<>>, 0, 4))
        /\ Right(Command(HCI_CMND.STATUSGET, <<>>, 0, 4))
        /\ Right(Command(HCI_CMND.SIMPLE_CONFIG_STOP, <<>>, 0, 4))
    BY NothingLaidOut, WordRight, Groups
  <2> QED BY <1>2, <2>1 DEF wlan_disconnect, wlan_ioctl_statusget, wlan_smart_config_stop
<1>3. CASE wlan_ioctl_set_connection_policy
  <2>1. Right(Command(HCI_CMND.SET_CONNECTION_POLICY, Words(3), 12, 4))
    BY WordsLaidOut, WordRight, Groups
  <2> QED BY <1>3, <2>1 DEF wlan_ioctl_set_connection_policy
<1>4. CASE wlan_add_profile
  <2>0. PICK sec \in 0..3, ssid \in SsidLengths :
             \E key \in UpTo(IF sec = WLAN_SEC.WEP THEN 13 ELSE 63) :
                 Begin(AddProfile(sec, ssid, key))
    BY <1>4 DEF wlan_add_profile
  <2>1. PICK key \in UpTo(IF sec = WLAN_SEC.WEP THEN 13 ELSE 63) :
                 Begin(AddProfile(sec, ssid, key))
    BY <2>0
  <2>2. ssid \in 0..32 /\ key \in 0..63 /\ (sec = WLAN_SEC.WEP => key <= 13)
    BY <2>1, CommandsAssumption DEF UpTo
  <2> QED BY <2>1, <2>2, AddProfileRight
<1>5. CASE wlan_ioctl_del_profile \/ wlan_smart_config_start
  <2>1. /\ Right(Command(HCI_CMND.DEL_PROFILE, Words(1), 4, 4))
        /\ Right(Command(HCI_CMND.SIMPLE_CONFIG_START, Words(1), 4, 4))
    BY WordsLaidOut, WordRight, Groups
  <2> QED BY <1>5, <2>1 DEF wlan_ioctl_del_profile, wlan_smart_config_start
<1>6. CASE wlan_ioctl_get_scan_results
  <2>0. HCI_CMND.GET_SCAN_RESULTS \notin {HCI_CMND.SET_TIMERS, HCI_CMND.BSD_SELECT}
    BY Opcodes
  <2>1. Right(GetScanResults)
    <3>1. Width(Words(1)) = 4 /\ Points(Words(1)) /\ 4 \in 0..255
      BY WordsLaidOut
    <3>2. Plain(HCI_CMND.GET_SCAN_RESULTS, 50)
      BY PlainOthers
    <3>3. Right(Command(HCI_CMND.GET_SCAN_RESULTS, Words(1), 4, 50))
      BY <2>0, <3>1, <3>2, CommandRight
    <3> QED BY <3>3 DEF GetScanResults
  <2> QED BY <1>6, <2>1 DEF wlan_ioctl_get_scan_results
<1>7. CASE wlan_ioctl_set_scan_params
  <2> DEFINE fields == <<Offset(36, "intervals")>> \o Words(8) \o <<Part("intervals", 16 * 4)>>
  <2>1. Width(fields) = 100 /\ Points(fields)
    BY ScanLaidOut
  <2>2. Begin(Command(HCI_CMND.SET_SCANPARAM, fields, 100, 4))
    BY <1>7 DEF wlan_ioctl_set_scan_params
  <2> HIDE DEF fields
  <2>3. Right(Command(HCI_CMND.SET_SCANPARAM, fields, 100, 4))
    BY <2>1, WordRight, Groups
  <2> QED BY <2>2, <2>3
<1>8. CASE wlan_set_event_mask
  <2>1. Right(Command(HCI_CMND.EVENT_MASK, Words(1), 4, 4))
    BY WordsLaidOut, WordRight, Groups
  <2> QED BY <1>8, <2>1 DEF wlan_set_event_mask, Quiet
<1>9. CASE wlan_smart_config_set_prefix
  <2>1. Right(Command(HCI_CMND.SIMPLE_CONFIG_SET_PREFIX, <<Part("TTT", 3)>>, 3, 4))
    BY PartLaidOut, WordRight, Groups
  <2> QED BY <1>9, <2>1
         DEF wlan_smart_config_set_prefix, Refuse, Quiet, commandVars, caller
<1> QED BY <1>1, <1>2, <1>3, <1>4, <1>5, <1>6, <1>7, <1>8, <1>9 DEF wlan

\* What the calls of netapp.c begin.
LEMMA NetappBegins ==
    ASSUME netapp
    PROVE  Begins
<1> USE DEF Begins, Begin
<1>1. CASE netapp_dhcp
  <2>1. Right(Command(HCI_CMND.DHCP,
            <<Part("IP", 4), Part("mask", 4), Part("gateway", 4), Word, Part("DNS", 4)>>,
            20, 1))
    BY DhcpLaidOut, ByteRight, Groups
  <2> QED BY <1>1, <2>1 DEF netapp_dhcp
<1>2. CASE netapp_timeout_values
  <2> DEFINE c == Command(HCI_CMND.SET_TIMERS, Words(4), 20, 1)
  <2>1. Width(Words(4)) = 16 /\ Points(Words(4))
    BY WordsLaidOut
  <2>2. Plain(HCI_CMND.SET_TIMERS, 1)
    BY PlainOnes DEF OneByte
  <2>3. /\ c.opcode = HCI_CMND.SET_TIMERS /\ c.awaits = HCI_CMND.SET_TIMERS
        /\ c.room = 1 /\ c.used = 0..(1 - 1) /\ c.behind = 0
        /\ c.fields = Words(4) /\ c.declared = 20
    BY DEF Command
  <2>4. Stale(c) = 4
    <3>1. HCI_CMND.SET_TIMERS # HCI_CMND.BSD_SELECT
      BY Opcodes
    <3> HIDE DEF c
    <3> QED BY <2>3, <3>1 DEF Stale
  <2>5. c.awaits = AnswerTo(c.opcode) /\ c.awaits \notin Known \union {0}
    BY <2>2, <2>3 DEF AnswerTo, Plain
  <2>6. (c.declared % 256) + c.behind = Width(c.fields) + Stale(c)
    BY <2>1, <2>3, <2>4
  <2>7. Written(c.awaits) \subseteq 0..(c.room - 1) /\ c.used \subseteq Written(c.awaits)
    BY <2>2, <2>3 DEF Plain
  <2> HIDE DEF c
  <2>8. Right(c)
    BY <2>1, <2>3, <2>5, <2>6, <2>7 DEF Right, Sound, Whole
  <2>9. Fill(c)
    BY <1>2 DEF netapp_timeout_values, c
  <2> QED BY <2>8, <2>9
<1>3. CASE netapp_ping_send
  <2>1. Right(Command(HCI_CMND.PING_SEND, Words(4), 16, 1))
    BY WordsLaidOut, ByteRight, Groups
  <2> QED BY <1>3, <2>1 DEF netapp_ping_send
<1>4. CASE netapp_ping_report \/ netapp_ping_stop \/ netapp_arp_flush
  <2>1. /\ Right(Command(HCI_CMND.PING_REPORT, <<>>, 0, 1))
        /\ Right(Command(HCI_CMND.PING_STOP, <<>>, 0, 1))
        /\ Right(Command(HCI_CMND.ARP_FLUSH, <<>>, 0, 1))
    BY NothingLaidOut, ByteRight, Groups
  <2> QED BY <1>4, <2>1 DEF netapp_ping_report, netapp_ping_stop, netapp_arp_flush
<1>5. CASE netapp_ipconfig
  <2>1. HCI_CMND.IPCONFIG \notin {HCI_CMND.SET_TIMERS, HCI_CMND.BSD_SELECT}
    BY Opcodes
  <2>2. Plain(HCI_CMND.IPCONFIG, 58)
    BY PlainOthers
  <2>3. Right(Command(HCI_CMND.IPCONFIG, <<>>, 0, 58))
    <3>1. Width(<<>>) = 0 /\ Points(<<>>) /\ 0 \in 0..255
      BY NothingLaidOut
    <3> QED BY <2>1, <2>2, <3>1, CommandRight
  <2>4. (5 * 4) + 6 + 32 = 58
    OBVIOUS
  <2> QED BY <1>5, <2>3, <2>4 DEF netapp_ipconfig
<1>6. CASE netapp_set_debug_level
  <2>1. Right(Command(HCI_CMND.SET_DEBUG_LEVEL, Words(1), 4, 1))
    BY WordsLaidOut, ByteRight, Groups
  <2> QED BY <1>6, <2>1 DEF netapp_set_debug_level
<1> QED BY <1>1, <1>2, <1>3, <1>4, <1>5, <1>6 DEF netapp

\* A command on the data channel: its arguments, and what comes behind them.
LEMMA DataRight ==
    ASSUME NEW opcode, NEW fields, NEW args \in 0..255, NEW tail, NEW awaits, NEW room,
           NEW used, Width(fields \o tail) = args + Width(tail), Width(tail) \in Nat,
           Points(fields \o tail), awaits = AnswerTo(opcode),
           awaits \notin Known \union {0}, Written(awaits) \subseteq 0..(room - 1),
           used \subseteq Written(awaits),
           opcode \notin {HCI_CMND.SET_TIMERS, HCI_CMND.BSD_SELECT}
    PROVE  Right(DataCommand(opcode, fields, args, tail, awaits, room, used))
<1> DEFINE c == DataCommand(opcode, fields, args, tail, awaits, room, used)
<1>1. /\ c.opcode = opcode /\ c.awaits = awaits /\ c.room = room /\ c.used = used
      /\ c.fields = fields \o tail /\ c.behind = Width(tail) /\ c.declared = args
  BY DEF DataCommand, Command
<1> HIDE DEF c
<1>2. Stale(c) = 0
  BY <1>1 DEF Stale
<1>3. (c.declared % 256) + c.behind = Width(c.fields) + Stale(c)
  BY <1>1, <1>2, Mod256
<1>4. Width(c.fields) \in Nat
  BY <1>1
<1> QED BY <1>1, <1>3, <1>4 DEF Right, Sound, Whole, c

\* nvmem_read.
LEMMA NvmemReadRight ==
    ASSUME NEW len
    PROVE  Right(NvmemRead(len))
<1> DEFINE c == NvmemRead(len)
<1>1. /\ c.opcode = HCI_CMND.NVMEM_READ /\ c.awaits = HCI_CMND.NVMEM_READ
      /\ c.room = 1 /\ c.used = 0..(1 - 1) /\ c.behind = 0
      /\ c.fields = Words(3) /\ c.declared = 12
  BY DEF NvmemRead, Reading, Command
<1>2. Width(Words(3)) = 12 /\ Points(Words(3)) /\ 12 \in 0..255
  BY WordsLaidOut
<1>3. Plain(HCI_CMND.NVMEM_READ, 1)
  BY PlainOnes, Groups
<1>4. HCI_CMND.NVMEM_READ \notin {HCI_CMND.SET_TIMERS, HCI_CMND.BSD_SELECT}
  BY Opcodes
<1> HIDE DEF c
<1>5. Right(c)
  BY <1>1, <1>2, <1>3, <1>4, PlainCommand
<1> QED BY <1>5 DEF c

\* nvmem_write: awaits the event of its own.
LEMMA NvmemWriteRight ==
    ASSUME NEW len \in Nat
    PROVE  Right(NvmemWrite(len))
<1> DEFINE args == <<Word, Offset(12, "data"), Length(len, "data"), Word>>
           tail == <<Part("data", len)>>
<1>1. Width(args \o tail) = 16 + len /\ Points(args \o tail) /\ Width(tail) = len
  BY DataLaidOut, PartLaidOut
<1> HIDE DEF args, tail
<1>2. /\ HCI_EVNT.NVMEM_WRITE = AnswerTo(HCI_CMND.NVMEM_WRITE)
      /\ HCI_CMND.NVMEM_WRITE \notin {HCI_CMND.SET_TIMERS, HCI_CMND.BSD_SELECT}
  BY Opcodes DEF AnswerTo
<1>3. HCI_EVNT.NVMEM_WRITE \notin Known \union {0}
  BY Events, KnownAre
<1>4. Written(HCI_EVNT.NVMEM_WRITE) = 0..3
  BY WrittenIs DEF OneWord
<1>5. Right(DataCommand(HCI_CMND.NVMEM_WRITE, args, 16, tail, HCI_EVNT.NVMEM_WRITE, 4, 0..3))
  <2>1. /\ 16 \in 0..255 /\ Width(args \o tail) = 16 + Width(tail) /\ Width(tail) \in Nat
        /\ Written(HCI_EVNT.NVMEM_WRITE) \subseteq 0..(4 - 1)
        /\ 0..3 \subseteq Written(HCI_EVNT.NVMEM_WRITE)
    BY <1>1, <1>4
  <2> QED BY <1>1, <1>2, <1>3, <2>1, DataRight
<1> QED BY <1>5 DEF NvmemWrite, args, tail

\* What the calls of nvmem.c begin.
LEMMA NvmemBegins ==
    ASSUME nvmem
    PROVE  Begins
<1> USE DEF Begins, Begin
<1>1. CASE nvmem_read \/ nvmem_get_mac_address
  BY <1>1, NvmemReadRight DEF nvmem_read, nvmem_get_mac_address
<1>2. CASE nvmem_write \/ nvmem_set_mac_address
  <2>1. PICK len \in Nat : Fill(NvmemWrite(len))
    BY <1>2, CommandsAssumption
       DEF nvmem_write, nvmem_set_mac_address, UpTo, MAC_ADDR_LEN
  <2> QED BY <2>1, NvmemWriteRight
<1>3. CASE nvmem_read_sp_version
  <2> DEFINE c == [Command(HCI_CMND.READ_SP_VERSION, <<>>, 0, 5) EXCEPT !.used = {0, 3, 4}]
  <2>1. /\ c.opcode = HCI_CMND.READ_SP_VERSION /\ c.awaits = HCI_CMND.READ_SP_VERSION
        /\ c.room = 5 /\ c.used \subseteq 0..(5 - 1) /\ c.behind = 0
        /\ c.fields = <<>> /\ c.declared = 0
    BY DEF Command
  <2>2. Plain(HCI_CMND.READ_SP_VERSION, 5)
    BY PlainOthers
  <2>3. HCI_CMND.READ_SP_VERSION \notin {HCI_CMND.SET_TIMERS, HCI_CMND.BSD_SELECT}
    BY Opcodes
  <2>4. Fill(c)
    BY <1>3 DEF nvmem_read_sp_version
  <2> HIDE DEF c
  <2>5. Width(c.fields) \in 0..255 /\ c.declared = Width(c.fields) /\ Points(c.fields)
    BY <2>1, NothingLaidOut
  <2>6. Right(c)
    BY <2>1, <2>2, <2>3, <2>5, PlainCommand
  <2> QED BY <2>4, <2>6
<1>4. CASE nvmem_create_entry
  <2>1. Right(Command(HCI_CMND.NVMEM_CREATE_ENTRY, Words(2), 8, 1))
    BY WordsLaidOut, ByteRight, Groups
  <2> QED BY <1>4, <2>1 DEF nvmem_create_entry
<1> QED BY <1>1, <1>2, <1>3, <1>4 DEF nvmem

\* select, with a timeout and without.
LEMMA SelectRight ==
    ASSUME NEW timeout \in {0, 8}, NEW fields,
           fields = <<Word, Offset(20, "read"), Offset(20, "write"),
                      Offset(20, "except"), Offset(20, "timeout"), Word,
                      Part("read", 4), Part("write", 4), Part("except", 4),
                      Part("timeout", timeout)>>
    PROVE  Right(Command(HCI_CMND.BSD_SELECT, fields, 44, 16))
<1> DEFINE c == Command(HCI_CMND.BSD_SELECT, fields, 44, 16)
<1>1. Width(fields) = 36 + timeout /\ Points(fields)
  BY SelectLaidOut
<1>2. Last(fields).width = timeout
  BY DEF Last, Part, Field
<1>3. /\ c.opcode = HCI_CMND.BSD_SELECT /\ c.awaits = HCI_CMND.BSD_SELECT
      /\ c.room = 16 /\ c.used = 0..(16 - 1) /\ c.behind = 0
      /\ c.fields = fields /\ c.declared = 44
  BY DEF Command
<1>4. HCI_CMND.SET_TIMERS # HCI_CMND.BSD_SELECT
  BY Opcodes
<1> HIDE DEF c
<1>5. Stale(c) = IF timeout = 0 THEN 8 ELSE 0
  BY <1>2, <1>3, <1>4 DEF Stale
<1>6. (c.declared % 256) + c.behind = Width(c.fields) + Stale(c)
  BY <1>1, <1>3, <1>5
<1>7. Plain(HCI_CMND.BSD_SELECT, 16)
  BY PlainOthers
<1>8. c.awaits = AnswerTo(c.opcode) /\ c.awaits \notin Known \union {0}
  BY <1>3, <1>7 DEF AnswerTo, Plain
<1>9. Written(c.awaits) \subseteq 0..(c.room - 1) /\ c.used \subseteq Written(c.awaits)
  BY <1>3, <1>7 DEF Plain
<1>10. Width(c.fields) \in Nat /\ Points(c.fields)
  BY <1>1, <1>3
<1>11. c.declared \in Nat /\ c.behind \in Nat
  BY <1>3
<1> QED BY <1>6, <1>8, <1>9, <1>10, <1>11 DEF Right, Sound, Whole, c

\* recv and recvfrom.
LEMMA RecvRight ==
    ASSUME NEW opcode \in {HCI_CMND.RECV, HCI_CMND.RECVFROM}, NEW len
    PROVE  Right(SimpleLinkRecv(opcode, len))
<1> DEFINE c == SimpleLinkRecv(opcode, len)
<1>1. /\ c.opcode = opcode /\ c.awaits = opcode /\ c.room = 12
      /\ c.used \subseteq 0..(12 - 1) /\ c.behind = 0
      /\ c.fields = Words(3) /\ c.declared = 12
  BY DEF SimpleLinkRecv, Reading, Command
<1>2. Width(Words(3)) = 12 /\ Points(Words(3)) /\ 12 \in 0..255
  BY WordsLaidOut
<1>3. Plain(opcode, 12)
  BY PlainOthers
<1>4. opcode \notin {HCI_CMND.SET_TIMERS, HCI_CMND.BSD_SELECT}
  BY Opcodes
<1> HIDE DEF c
<1>5. Right(c)
  BY <1>1, <1>2, <1>3, <1>4, PlainCommand
<1> QED BY <1>5 DEF c

\* The events that answer send and sendto.
LEMMA SendsAnswered ==
    /\ HCI_EVNT.SEND = AnswerTo(HCI_CMND.SEND)
    /\ HCI_EVNT.SENDTO = AnswerTo(HCI_CMND.SENDTO)
    /\ {HCI_CMND.SEND, HCI_CMND.SENDTO}
           \intersect {HCI_CMND.SET_TIMERS, HCI_CMND.BSD_SELECT} = {}
    /\ \A event \in {HCI_EVNT.SEND, HCI_EVNT.SENDTO} :
           /\ event \notin Known \union {0}
           /\ Written(event) \subseteq 0..(12 - 1) /\ {} \subseteq Written(event)
<1>1. /\ HCI_EVNT.SEND = AnswerTo(HCI_CMND.SEND)
      /\ HCI_EVNT.SENDTO = AnswerTo(HCI_CMND.SENDTO)
      /\ {HCI_CMND.SEND, HCI_CMND.SENDTO}
             \intersect {HCI_CMND.SET_TIMERS, HCI_CMND.BSD_SELECT} = {}
  BY Opcodes DEF AnswerTo
<1>2. \A event \in {HCI_EVNT.SEND, HCI_EVNT.SENDTO} : event \notin Known \union {0}
  BY Events, KnownAre
<1>3. \A event \in {HCI_EVNT.SEND, HCI_EVNT.SENDTO} : Written(event) = 0..7
  BY WrittenIs
<1> QED BY <1>1, <1>2, <1>3

\* What the calls of socket.c begin.
LEMMA SocketsBegins ==
    ASSUME sockets
    PROVE  Begins \/ Quiet
<1> USE DEF Begins, Begin
<1>1. CASE socket
  <2>1. Right(Command(HCI_CMND.SOCKET, Words(3), 12, 4))
    BY WordsLaidOut, WordRight, Groups
  <2> QED BY <1>1, <2>1 DEF socket
<1>2. CASE closesocket
  <2>1. Right(Command(HCI_CMND.CLOSE_SOCKET, Words(1), 4, 4))
    BY WordsLaidOut, WordRight, Groups
  <2> QED BY <1>2, <2>1 DEF closesocket
<1>3. CASE accept
  <2> DEFINE c == [Command(HCI_CMND.ACCEPT, Words(1), 4, 24) EXCEPT !.used = 4..15]
  <2>1. /\ c.opcode = HCI_CMND.ACCEPT /\ c.awaits = HCI_CMND.ACCEPT
        /\ c.room = 24 /\ c.used \subseteq 0..(24 - 1) /\ c.behind = 0
        /\ c.fields = Words(1) /\ c.declared = 4
    BY DEF Command
  <2>2. Width(Words(1)) = 4 /\ Points(Words(1)) /\ 4 \in 0..255
    BY WordsLaidOut
  <2>3. Plain(HCI_CMND.ACCEPT, 24)
    BY PlainOthers
  <2>4. HCI_CMND.ACCEPT \notin {HCI_CMND.SET_TIMERS, HCI_CMND.BSD_SELECT}
    BY Opcodes
  <2>5. Fill(c)
    BY <1>3 DEF accept
  <2> HIDE DEF c
  <2>6. Right(c)
    BY <2>1, <2>2, <2>3, <2>4, PlainCommand
  <2> QED BY <2>5, <2>6
<1>4. CASE bind \/ connect
  <2>1. Width(Address) = 20 /\ Points(Address) /\ 20 \in 0..255
    BY AddressLaidOut
  <2>2. /\ Right(Command(HCI_CMND.BIND, Address, 20, 4))
        /\ Right(Command(HCI_CMND.CONNECT, Address, 20, 4))
    BY <2>1, WordRight, Groups
  <2> QED BY <1>4, <2>2 DEF bind, connect
<1>5. CASE listen
  <2>1. Right(Command(HCI_CMND.LISTEN, Words(2), 8, 4))
    BY WordsLaidOut, WordRight, Groups
  <2> QED BY <1>5, <2>1 DEF listen
<1>6. CASE gethostbyname
  <2>1. PICK len \in Lengths :
            IF len > HOSTNAME_MAX_LENGTH THEN Refuse
            ELSE Begin(Command(HCI_CMND.GETHOSTNAME,
                     <<Offset(8, "name"), Length(len, "name"), Part("name", len)>>,
                     9 + len - 1, 8))
    BY <1>6 DEF gethostbyname
  <2> DEFINE fields == <<Offset(8, "name"), Length(len, "name"), Part("name", len)>>
  <2>2. len \in Nat
    BY CommandsAssumption
  <2>3. Width(fields) = 8 + len /\ Points(fields)
    BY <2>2, HostLaidOut
  <2>4. Plain(HCI_CMND.GETHOSTNAME, 8)
    BY PlainOthers
  <2>5. HCI_CMND.GETHOSTNAME \notin {HCI_CMND.SET_TIMERS, HCI_CMND.BSD_SELECT}
    BY Opcodes
  <2>6. CASE len > HOSTNAME_MAX_LENGTH
    BY <2>1, <2>6 DEF Refuse, Quiet, commandVars, caller
  <2>7. CASE ~ (len > HOSTNAME_MAX_LENGTH)
    <3>1. Fill(Command(HCI_CMND.GETHOSTNAME, fields, 9 + len - 1, 8))
      BY <2>1, <2>7
    <3>2. 9 + len - 1 \in 0..255 /\ 9 + len - 1 = 8 + len
      BY <2>2, <2>7 DEF HOSTNAME_MAX_LENGTH
    <3> HIDE DEF fields
    <3>3. Right(Command(HCI_CMND.GETHOSTNAME, fields, 9 + len - 1, 8))
      BY <2>3, <2>4, <2>5, <3>2, CommandRight
    <3> QED BY <3>1, <3>3
  <2> QED BY <2>6, <2>7
<1>7. CASE select
  BY <1>7, SelectRight DEF select
<1>8. CASE setsockopt
  <2>1. PICK len \in UpTo(32) :
            Begin(Command(HCI_CMND.SETSOCKOPT,
                Words(3) \o <<Offset(8, "option"), Length(len, "option"),
                              Part("option", len)>>, 20 + len, 4))
    BY <1>8 DEF setsockopt
  <2> DEFINE fields == Words(3) \o <<Offset(8, "option"), Length(len, "option"),
                                     Part("option", len)>>
  <2>2. len \in Nat /\ 20 + len \in 0..255
    BY CommandsAssumption DEF UpTo
  <2>3. Width(fields) = 20 + len /\ Points(fields)
    BY <2>2, OptionLaidOut
  <2>4. Fill(Command(HCI_CMND.SETSOCKOPT, fields, 20 + len, 4))
    BY <2>1
  <2> HIDE DEF fields
  <2>5. Right(Command(HCI_CMND.SETSOCKOPT, fields, 20 + len, 4))
    BY <2>2, <2>3, WordRight, Groups
  <2> QED BY <2>4, <2>5
<1>9. CASE getsockopt
  <2>1. Width(Words(3)) = 12 /\ Points(Words(3)) /\ 12 \in 0..255
    BY WordsLaidOut
  <2>2. Plain(HCI_CMND.GETSOCKOPT, 5)
    BY PlainOthers
  <2>3. HCI_CMND.GETSOCKOPT \notin {HCI_CMND.SET_TIMERS, HCI_CMND.BSD_SELECT}
    BY Opcodes
  <2>4. Right(Command(HCI_CMND.GETSOCKOPT, Words(3), 12, 5))
    BY <2>1, <2>2, <2>3, CommandRight
  <2> QED BY <1>9, <2>4 DEF getsockopt
<1>10. CASE recv \/ recvfrom
  BY <1>10, RecvRight DEF recv, recvfrom
<1>11. CASE send
  <2>1. PICK len \in Lengths :
            Fill(DataCommand(HCI_CMND.SEND,
                <<Word, Offset(12, "data"), Length(len, "data"), Word>>, 16,
                <<Part("data", len)>>, HCI_EVNT.SEND, 12, {}))
    BY <1>11 DEF send
  <2> DEFINE args == <<Word, Offset(12, "data"), Length(len, "data"), Word>>
             tail == <<Part("data", len)>>
  <2>2. len \in Nat
    BY CommandsAssumption
  <2>3. Width(args \o tail) = 16 + len /\ Points(args \o tail) /\ Width(tail) = len
    BY <2>2, DataLaidOut, PartLaidOut
  <2> HIDE DEF args, tail
  <2>4. 16 \in 0..255 /\ Width(args \o tail) = 16 + Width(tail) /\ Width(tail) \in Nat
    BY <2>2, <2>3
  <2>5. /\ HCI_EVNT.SEND = AnswerTo(HCI_CMND.SEND)
        /\ HCI_CMND.SEND \notin {HCI_CMND.SET_TIMERS, HCI_CMND.BSD_SELECT}
        /\ HCI_EVNT.SEND \notin Known \union {0}
        /\ Written(HCI_EVNT.SEND) \subseteq 0..(12 - 1)
        /\ {} \subseteq Written(HCI_EVNT.SEND)
    BY SendsAnswered
  <2>6. Right(DataCommand(HCI_CMND.SEND, args, 16, tail, HCI_EVNT.SEND, 12, {}))
    BY <2>3, <2>4, <2>5, DataRight
  <2> QED BY <2>1, <2>6 DEF args, tail
<1>12. CASE sendto
  <2>1. PICK len \in Lengths :
            Fill(DataCommand(HCI_CMND.SENDTO,
                <<Word, Offset(20, "data"), Length(len, "data"), Word,
                  Offset(len + 4 + 4, "to"), Length(8, "to")>>, 24,
                <<Part("data", len), Part("to", ASIC_ADDR_LEN)>>,
                HCI_EVNT.SENDTO, 12, {}))
    BY <1>12 DEF sendto
  <2> DEFINE args == <<Word, Offset(20, "data"), Length(len, "data"), Word,
                       Offset(len + 4 + 4, "to"), Length(8, "to")>>
             tail == <<Part("data", len), Part("to", ASIC_ADDR_LEN)>>
  <2>2. len \in Nat
    BY CommandsAssumption
  <2>3. Width(args \o tail) = 32 + len /\ Points(args \o tail) /\ Width(tail) = 8 + len
    BY <2>2, SendtoLaidOut, TailLaidOut
  <2> HIDE DEF args, tail
  <2>4. 24 \in 0..255 /\ Width(args \o tail) = 24 + Width(tail) /\ Width(tail) \in Nat
    BY <2>2, <2>3
  <2>5. /\ HCI_EVNT.SENDTO = AnswerTo(HCI_CMND.SENDTO)
        /\ HCI_CMND.SENDTO \notin {HCI_CMND.SET_TIMERS, HCI_CMND.BSD_SELECT}
        /\ HCI_EVNT.SENDTO \notin Known \union {0}
        /\ Written(HCI_EVNT.SENDTO) \subseteq 0..(12 - 1)
        /\ {} \subseteq Written(HCI_EVNT.SENDTO)
    BY SendsAnswered
  <2>6. Right(DataCommand(HCI_CMND.SENDTO, args, 24, tail, HCI_EVNT.SENDTO, 12, {}))
    BY <2>3, <2>4, <2>5, DataRight
  <2> QED BY <2>1, <2>6 DEF args, tail
<1>13. CASE mdnsAdvertiser
  <2>1. PICK len \in Lengths :
            IF len > MDNS_DEVICE_SERVICE_MAX_LENGTH THEN Refuse
            ELSE Begin(Command(HCI_CMND.MDNS_ADVERTISE,
                     <<Word, Offset(8, "name"), Length(len, "name"), Part("name", len)>>,
                     12 + len, 1))
    BY <1>13 DEF mdnsAdvertiser
  <2> DEFINE fields == <<Word, Offset(8, "name"), Length(len, "name"), Part("name", len)>>
  <2>2. len \in Nat
    BY CommandsAssumption
  <2>3. Width(fields) = 12 + len /\ Points(fields)
    BY <2>2, MdnsLaidOut
  <2>4. CASE len > MDNS_DEVICE_SERVICE_MAX_LENGTH
    BY <2>1, <2>4 DEF Refuse, Quiet, commandVars, caller
  <2>5. CASE ~ (len > MDNS_DEVICE_SERVICE_MAX_LENGTH)
    <3>1. Fill(Command(HCI_CMND.MDNS_ADVERTISE, fields, 12 + len, 1))
      BY <2>1, <2>5
    <3>2. 12 + len \in 0..255
      BY <2>2, <2>5 DEF MDNS_DEVICE_SERVICE_MAX_LENGTH
    <3> HIDE DEF fields
    <3>3. Right(Command(HCI_CMND.MDNS_ADVERTISE, fields, 12 + len, 1))
      BY <2>3, <3>2, ByteRight, Groups
    <3> QED BY <3>1, <3>3
  <2> QED BY <2>4, <2>5
<1>14. CASE getmssvalue
  <2>1. Width(Words(1)) = 4 /\ Points(Words(1)) /\ 4 \in 0..255
    BY WordsLaidOut
  <2>2. Plain(HCI_CMND.GETMSSVALUE, 2)
    BY PlainOthers
  <2>3. HCI_CMND.GETMSSVALUE \notin {HCI_CMND.SET_TIMERS, HCI_CMND.BSD_SELECT}
    BY Opcodes
  <2>4. Right(Command(HCI_CMND.GETMSSVALUE, Words(1), 4, 2))
    BY <2>1, <2>2, <2>3, CommandRight
  <2> QED BY <1>14, <2>4 DEF getmssvalue
<1> QED BY <1>1, <1>2, <1>3, <1>4, <1>5, <1>6, <1>7, <1>8, <1>9, <1>10, <1>11,
           <1>12, <1>13, <1>14 DEF sockets

\* Without a word about the length it declares.
LEMMA WordSound ==
    ASSUME NEW opcode \in OneWord \ {HCI_EVNT.NVMEM_WRITE}, NEW fields,
           NEW declared \in Nat, Width(fields) \in Nat, Points(fields)
    PROVE  Sound(Command(opcode, fields, declared, 4))
<1> DEFINE c == Command(opcode, fields, declared, 4)
<1>1. /\ c.opcode = opcode /\ c.awaits = opcode /\ c.room = 4
      /\ c.used = 0..(4 - 1) /\ c.fields = fields
      /\ c.declared = declared /\ c.behind = 0
  BY DEF Command
<1>2. Plain(opcode, 4)
  BY PlainOnes
<1> HIDE DEF c
<1>3. AnswerTo(opcode) = opcode
  BY <1>2 DEF AnswerTo, Plain
<1>4. c.awaits \notin Known \union {0} /\ Written(c.awaits) = 0..(4 - 1)
  BY <1>1, <1>2 DEF Plain
<1> QED BY <1>1, <1>3, <1>4 DEF Sound, c

\* wlan_add_profile, whatever the length of the key.
LEMMA AddProfileSound ==
    ASSUME NEW sec \in 0..3, NEW ssid \in 0..32, NEW key \in Nat
    PROVE  Sound(AddProfile(sec, ssid, key))
<1>0. ssid \in Nat
  OBVIOUS
<1>1. Sound(AddProfileOpen(ssid))
  <2> DEFINE fields == AddProfileOpen(ssid).fields
  <2>1. Width(fields) \in Nat /\ Points(fields)
    BY <1>0, OpenLaidOut
  <2>2. AddProfileOpen(ssid) = Command(HCI_CMND.ADD_PROFILE, fields, 24 + ssid, 4)
    BY DEF AddProfileOpen, Command
  <2> HIDE DEF fields
  <2> QED BY <2>1, <2>2, WordSound, Groups
<1>2. Sound(AddProfileWep(ssid, key))
  <2> DEFINE fields == AddProfileWep(ssid, key).fields
             four == 4 * key
  <2>1. four \in Nat /\ four = 4 * key /\ key * 4 = four
    OBVIOUS
  <2>2. fields = ProfileStart(32, ssid) \o
                   <<Offset(12 + ssid, "keys"), Length(key, "one_key"), Word,
                     Part("ssid", ssid), Part("keys", four)>>
    BY DEF AddProfileWep, Command
  <2>3. AddProfileWep(ssid, key) = Command(HCI_CMND.ADD_PROFILE, fields, 36 + ssid + four, 4)
    BY <2>1 DEF AddProfileWep, Command
  <2> HIDE DEF four, fields
  <2>4. Width(fields) = 36 + ssid + four /\ Points(fields)
    BY <1>0, <2>1, <2>2, WepLaidOut
  <2>5. Width(fields) \in Nat
    BY <1>0, <2>1, <2>4
  <2> QED BY <2>3, <2>4, <2>5, WordSound, Groups
<1>3. Sound(AddProfileWpa(ssid, key))
  <2> DEFINE fields == AddProfileWpa(ssid, key).fields
  <2>1. Width(fields) = 44 + ssid + key /\ Points(fields)
    BY <1>0, WpaLaidOut
  <2>2. AddProfileWpa(ssid, key) = Command(HCI_CMND.ADD_PROFILE, fields, 44 + ssid + key, 4)
    BY DEF AddProfileWpa, Command
  <2>3. Width(fields) \in Nat
    BY <1>0, <2>1
  <2> HIDE DEF fields
  <2> QED BY <2>1, <2>2, <2>3, WordSound, Groups
<1> QED BY <1>1, <1>2, <1>3 DEF AddProfile, WLAN_SEC

\* wlan_start: the start itself, and the size of the buffers.
LEMMA StartRight ==
    /\ Right(Command(HCI_CMND.SIMPLE_LINK_START, <<Part("patches", 1)>>, 1, 0))
    /\ Right(ReadBufferSize)
<1>1. /\ Plain(HCI_CMND.SIMPLE_LINK_START, 0) /\ Plain(HCI_CMND.READ_BUFFER_SIZE, 0)
      /\ {HCI_CMND.SIMPLE_LINK_START, HCI_CMND.READ_BUFFER_SIZE}
             \intersect {HCI_CMND.SET_TIMERS, HCI_CMND.BSD_SELECT} = {}
  BY PlainOthers, Opcodes
<1>2. /\ Width(<<Part("patches", 1)>>) = 1 /\ Points(<<Part("patches", 1)>>)
      /\ Width(<<>>) = 0 /\ Points(<<>>) /\ {0, 1} \subseteq 0..255
  BY PartLaidOut, NothingLaidOut
<1>3. Right(Command(HCI_CMND.SIMPLE_LINK_START, <<Part("patches", 1)>>, 1, 0))
  BY <1>1, <1>2, CommandRight
<1>4. Right(Command(HCI_CMND.READ_BUFFER_SIZE, <<>>, 0, 0))
  BY <1>1, <1>2, CommandRight
<1> QED BY <1>3, <1>4 DEF ReadBufferSize
==================================================================================
