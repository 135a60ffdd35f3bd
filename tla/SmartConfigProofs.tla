----------------------------- MODULE SmartConfigProofs -----------------------------
(***************************************************************************)
(* SmartConfig: what is proved of the calls of module Commands and of          *)
(* wlan_smart_config_process, for every set of lengths, every AES key, every   *)
(* key of a network and every event that may come in between.                *)
(*                                                                         *)
(* The calls need one fact of the process: that the key it adds is the         *)
(* phone's, and so has a length a profile can have.  That is what the cipher   *)
(* of the standard is there for: each round of aes_decr goes back to the       *)
(* block the phone had before that round (RoundInv), and so the two blocks     *)
(* are in the end what the phone encrypted, from which TrueKey takes the key.  *)
(***************************************************************************)
EXTENDS SmartConfig, CommandProofs, AesProofs

-----------------------------------------------------------------------------
(* The key and the two blocks of the phone                                   *)

\* The AES key is a block.
LEMMA AesKeyIs == AesKey \in Block
  BY SmartConfigAssumption DEF Block

\* The key of a network has at most 32 bytes.
LEMMA NetworkKeyIs ==
    ASSUME NEW key \in NetworkKeys
    PROVE  /\ key \in Seq(Byte) /\ Len(key) \in 0..32
           /\ \A i \in 1..Len(key) : key[i] \in Byte
           /\ Len(key) = 32 => key[1] # 31 /\ key[32] # 0
<1>1. key \in Seq(Byte) /\ Len(key) <= 32 /\ (Len(key) = 32 => key[1] # 31 /\ key[32] # 0)
  BY SmartConfigAssumption
<1>2. Len(key) \in Nat
  BY <1>1, LenProperties
<1>3. \A i \in 1..Len(key) : key[i] \in Byte
  BY <1>1, ElementOfSeq
<1> DEFINE l == Len(key)
<1>4. l \in Nat /\ l <= 32
  BY <1>1, <1>2
<1> HIDE DEF l
<1>5. l \in 0..32
  BY <1>4
<1> QED BY <1>1, <1>3, <1>5 DEF l

\* A length in front of a key is a byte.
LEMMA ShortIs ==
    ASSUME NEW len \in 0..32, len # 32
    PROVE  31 - len \in Nat /\ len \in 0..31 /\ len \in Byte /\ 0 \in Byte
  BY DEF Byte

\* The plain text: its bytes, by place.
LEMMA PlainIs ==
    ASSUME NEW k \in NetworkKeys
    PROVE  /\ PlainOf(k) \in Seq(Byte) /\ Len(PlainOf(k)) = 32
           /\ Len(k) = 32 => PlainOf(k) = k
           /\ Len(k) # 32 =>
                  /\ PlainOf(k)[1] = Len(k)
                  /\ \A i \in 1..Len(k) : PlainOf(k)[i + 1] = k[i]
                  /\ \A i \in (Len(k) + 2)..32 : PlainOf(k)[i] = 0
<1> DEFINE len == Len(k)
<1>1. k \in Seq(Byte) /\ Len(k) = len /\ len \in 0..32
  BY NetworkKeyIs
<1>2. PlainOf(k) = IF len = 32 THEN k
                  ELSE <<len>> \o k \o [i \in 1..(31 - len) |-> 0]
  BY DEF PlainOf
<1> HIDE DEF len
<1>3. CASE len = 32
  BY <1>1, <1>2, <1>3 DEF len
<1>4. CASE len # 32
  <2> DEFINE zeros == [i \in 1..(31 - len) |-> 0]
             n == 31 - len
  <2>1. n \in Nat /\ len \in 0..31 /\ len \in Byte /\ 0 \in Byte
    BY <1>1, <1>4, ShortIs
  <2>2. zeros \in Seq(Byte) /\ Len(zeros) = n /\ \A i \in 1..n : zeros[i] = 0
    <3>1. zeros \in [1..n -> Byte]
      BY <2>1
    <3> QED BY <2>1, <3>1
  <2>3. k \in Seq(Byte) /\ Len(k) = len
    BY <1>1
  <2>4. PlainOf(k) = (<<len>> \o k) \o zeros
    BY <1>2, <1>4
  <2> HIDE DEF zeros
  <2> DEFINE front == <<len>> \o k
  <2>5. /\ front \in Seq(Byte) /\ Len(front) = len + 1 /\ front[1] = len
        /\ \A i \in 1..len : front[i + 1] = k[i]
    BY <2>1, <2>3
  <2> HIDE DEF front
  <2>6. PlainOf(k) = front \o zeros
    BY <2>4 DEF front
  <2>7. PlainOf(k) \in Seq(Byte) /\ Len(PlainOf(k)) = (len + 1) + n
    BY <2>2, <2>5, <2>6
  <2>8. /\ \A i \in 1..(len + 1) : PlainOf(k)[i] = front[i]
        /\ \A i \in (len + 2)..(len + 1 + n) : PlainOf(k)[i] = zeros[i - (len + 1)]
    BY <2>1, <2>2, <2>5, <2>6
  <2>9. (len + 1) + n = 32 /\ len + 1 + n = 32
    BY <2>1
  <2>10. \A i \in (len + 2)..32 : i - (len + 1) \in 1..n
    BY <2>1
  <2>11. \A i \in 1..len : i + 1 \in 1..(len + 1)
    BY <2>1
  <2>12. 1 \in 1..(len + 1)
    BY <2>1
  <2> HIDE DEF n
  <2> QED BY <1>4, <2>2, <2>5, <2>7, <2>8, <2>9, <2>10, <2>11, <2>12, ZenonT(60) DEF len
<1> QED BY <1>3, <1>4 DEF len

\* A part of a sequence of bytes.
LEMMA PartIs ==
    ASSUME NEW s \in Seq(Byte), NEW m \in 1..Len(s), NEW n \in m..Len(s)
    PROVE  /\ SubSeq(s, m, n) \in Seq(Byte) /\ Len(SubSeq(s, m, n)) = (n - m) + 1
           /\ \A i \in 1..((n - m) + 1) : SubSeq(s, m, n)[i] = s[(m + i) - 1]
<1>1. Len(s) \in Nat /\ \A i \in 1..Len(s) : s[i] \in Byte
  BY ElementOfSeq
<1> DEFINE l == Len(s)
<1> HIDE DEF l
<1>2. m \in Int /\ n \in Int /\ m <= n /\ \A i \in m..n : i \in 1..l
  <2>1. m \in 1..l /\ n \in m..l /\ l \in Nat
    BY <1>1 DEF l
  <2> QED BY <2>1
<1>3. \A i \in m..n : s[i] \in Byte
  BY <1>1, <1>2 DEF l
<1> DEFINE q == SubSeq(s, m, n)
<1>4. /\ q \in Seq(Byte) /\ Len(q) = IF m <= n THEN n - m + 1 ELSE 0
      /\ \A i \in 1..n - m + 1 : q[i] = s[m + i - 1]
  BY <1>2, <1>3, SubSeqProperties
<1> HIDE DEF q
<1>5. q \in Seq(Byte) /\ Len(q) = (n - m) + 1
  BY <1>2, <1>4
<1>6. ASSUME NEW i \in 1..((n - m) + 1) PROVE q[i] = s[(m + i) - 1]
  BY <1>2, <1>4
<1> QED BY <1>5, <1>6 DEF q

\* The program finds the key in the plain text.
LEMMA TrueKeyIs ==
    ASSUME NEW k \in NetworkKeys
    PROVE  TrueKey(PlainOf(k)) = k
<1> DEFINE p == PlainOf(k)
           len == Len(k)
<1>1. /\ k \in Seq(Byte) /\ Len(k) = len /\ \A i \in 1..len : k[i] \in Byte
      /\ len \in 0..32 /\ (len = 32 => k[1] # 31 /\ k[32] # 0)
  BY NetworkKeyIs
<1> HIDE DEF len
<1>2. /\ PlainOf(k) \in Seq(Byte) /\ Len(PlainOf(k)) = 32
      /\ len = 32 => PlainOf(k) = k
      /\ len # 32 => /\ PlainOf(k)[1] = len
                     /\ \A i \in 1..len : PlainOf(k)[i + 1] = k[i]
                     /\ \A i \in (len + 2)..32 : PlainOf(k)[i] = 0
  <2> HIDE DEF p
  <2> QED BY PlainIs DEF len
<1>3. CASE len = 32
  <2>1. p = k
    BY <1>2, <1>3
  <2>2. k[32] # 0
    BY <1>1, <1>3
  <2>3. k[1] # 31
    BY <1>1, <1>3
  <2> QED BY <2>1, <2>2, <2>3 DEF TrueKey
<1>4. CASE len # 32
  <2>0. p \in Seq(Byte) /\ Len(p) = 32
    BY <1>2
  <2>1. /\ p[1] = len /\ \A i \in 1..len : p[i + 1] = k[i]
        /\ \A i \in (len + 2)..32 : p[i] = 0
    BY <1>2, <1>4
  <2>2. len + 1 \in 1..32 /\ len \in 0..31
    BY <1>1, <1>4
  <2> HIDE DEF p
  <2>3. SubSeq(p, 2, len + 1) = k
    <3> DEFINE q == SubSeq(p, 2, len + 1)
    <3>1. q \in Seq(Byte) /\ Len(q) = len /\ \A i \in 1..len : q[i] = p[i + 1]
      <4>1. CASE len = 0
        BY <2>0, <2>2, <4>1
      <4>2. CASE len # 0
        <5> DEFINE e == len + 1
        <5>1. p \in Seq(Byte) /\ 2 \in 1..Len(p) /\ e \in 2..Len(p)
          BY <2>0, <2>2, <4>2
        <5> HIDE DEF e
        <5>2. /\ SubSeq(p, 2, e) \in Seq(Byte) /\ Len(SubSeq(p, 2, e)) = (e - 2) + 1
              /\ \A i \in 1..((e - 2) + 1) : SubSeq(p, 2, e)[i] = p[(2 + i) - 1]
          BY <5>1, PartIs
        <5>3. /\ (e - 2) + 1 = len
              /\ \A i \in 1..len : (2 + i) - 1 = i + 1
          BY <2>2 DEF e
        <5>4. q = SubSeq(p, 2, e)
          BY DEF e
        <5> HIDE DEF q
        <5> QED BY <5>2, <5>3, <5>4
      <4> QED BY <4>1, <4>2
    <3> HIDE DEF q
    <3>2. \A i \in 1..Len(q) : q[i] = k[i]
      BY <2>1, <3>1
    <3>3. q = k
      BY <1>1, <3>1, <3>2, SeqEqual
    <3> QED BY <3>3 DEF q
  <2>4. CASE len = 31
    <3>1. p[32] = k[31]
      BY <2>1, <2>4
    <3>2. len + 1 = 32
      BY <2>4
    <3> QED BY <2>1, <2>3, <2>4, <3>1, <3>2 DEF TrueKey, p
  <2>5. CASE len # 31
    <3>1. p[32] = 0
      BY <2>1, <2>2, <2>5
    <3> QED BY <2>1, <2>3, <3>1 DEF TrueKey, p
  <2> QED BY <2>4, <2>5
<1> QED BY <1>3, <1>4

\* Behind a key of WEP there are only zeros.
LEMMA OtherKeysAre ==
    ASSUME NEW k \in NetworkKeys, Len(k) <= 13
    PROVE  \A i \in DOMAIN OtherKeys(PlainOf(k), Len(k)) :
              OtherKeys(PlainOf(k), Len(k))[i] \in {0, Behind}
<1> DEFINE p == PlainOf(k)
           len == Len(k)
<1>1. len \in 0..32 /\ len <= 13
  BY NetworkKeyIs
<1>2. len # 32 => \A j \in (len + 2)..32 : p[j] = 0
  BY PlainIs
<1> HIDE DEF p, len
<1>3. ASSUME NEW i \in 1..(3 * len), len + i <= 31 PROVE p[(len + i) + 1] = 0
  <2>1. (len + i) + 1 \in (len + 2)..32
    BY <1>1, <1>3
  <2> QED BY <1>2, <2>1
<1>4. \A i \in DOMAIN OtherKeys(p, len) : OtherKeys(p, len)[i] \in {0, Behind}
  BY <1>3 DEF OtherKeys
<1> QED BY <1>4 DEF p, len

\* The two halves of thirty-two bytes are blocks, and together they are them.
LEMMA HalvesAre ==
    ASSUME NEW bytes \in Seq(Byte), Len(bytes) = 32
    PROVE  /\ \A h \in 1..2 : Halves(bytes)[h] \in Block
           /\ Halves(bytes)[1] \o Halves(bytes)[2] = bytes
           /\ Halves(bytes) \in Seq(Block) /\ Len(Halves(bytes)) = 2
<1> DEFINE a == SubSeq(bytes, 1, 16)
           b == SubSeq(bytes, 17, 32)
<1>1. a \in Seq(Byte) /\ Len(a) = 16 /\ \A i \in 1..16 : a[i] = bytes[i]
  <2>1. 1 \in 1..32 /\ 16 \in 1..32 /\ (16 - 1) + 1 = 16 /\ \A i \in 1..16 : (1 + i) - 1 = i
    OBVIOUS
  <2>2. /\ a \in Seq(Byte) /\ Len(a) = (16 - 1) + 1
        /\ \A i \in 1..((16 - 1) + 1) : a[i] = bytes[(1 + i) - 1]
    BY <2>1, PartIs, SMTT(60)
  <2> HIDE DEF a
  <2> QED BY <2>1, <2>2
<1>2. b \in Seq(Byte) /\ Len(b) = 16 /\ \A i \in 1..16 : b[i] = bytes[i + 16]
  <2>1. /\ 17 \in 1..32 /\ 32 \in 17..32 /\ (32 - 17) + 1 = 16
        /\ \A i \in 1..16 : (17 + i) - 1 = i + 16
    OBVIOUS
  <2>2. /\ b \in Seq(Byte) /\ Len(b) = (32 - 17) + 1
        /\ \A i \in 1..((32 - 17) + 1) : b[i] = bytes[(17 + i) - 1]
    BY <2>1, PartIs, ZenonT(60)
  <2> HIDE DEF b
  <2> QED BY <2>1, <2>2
<1>3. Halves(bytes) = <<a, b>>
  BY DEF Halves
<1> HIDE DEF a, b
<1>4. a \in Block /\ b \in Block
  BY <1>1, <1>2, BlockIs
<1>5. a \o b = bytes
  <2> DEFINE c == a \o b
  <2>0. /\ c \in Seq(Byte) /\ Len(c) = Len(a) + Len(b)
        /\ \A i \in 1..(Len(a) + Len(b)) :
              c[i] = IF i <= Len(a) THEN a[i] ELSE b[i - Len(a)]
    BY <1>1, <1>2, ConcatProperties, ZenonT(60)
  <2> HIDE DEF c
  <2>1. c \in Seq(Byte) /\ Len(c) = 32
    BY <1>1, <1>2, <2>0
  <2>2. \A i \in 1..32 : c[i] = IF i <= 16 THEN a[i] ELSE b[i - 16]
    <3>1. Len(a) + Len(b) = 32
      BY <1>1, <1>2
    <3> QED BY <1>1, <2>0, <3>1
  <2>3. \A i \in 17..32 : i - 16 \in 1..16 /\ (i - 16) + 16 = i /\ ~ (i <= 16) /\ i \in 1..32
    OBVIOUS
  <2>4. \A i \in 17..32 : c[i] = bytes[i]
    BY <1>2, <2>2, <2>3
  <2>5. \A i \in 1..16 : c[i] = bytes[i]
    <3>1. ASSUME NEW i \in 1..16 PROVE c[i] = bytes[i]
      <4>1. i <= 16 /\ i \in 1..32
        OBVIOUS
      <4>2. c[i] = a[i]
        BY <2>2, <4>1
      <4> QED BY <1>1, <4>2
    <3> QED BY <3>1
  <2>6. \A i \in 1..Len(c) : c[i] = bytes[i]
    <3>1. \A i \in 1..32 : i \in 1..16 \/ i \in 17..32
      OBVIOUS
    <3> QED BY <2>1, <2>4, <2>5, <3>1
  <2>7. c = bytes
    BY <2>1, <2>6, SeqEqual
  <2> QED BY <2>7 DEF c
<1>6. /\ Halves(bytes)[1] = a /\ Halves(bytes)[2] = b
      /\ Halves(bytes) \in Seq(Block) /\ Len(Halves(bytes)) = 2
  BY <1>3, <1>4
<1>7. \A h \in 1..2 : h = 1 \/ h = 2
  OBVIOUS
<1> QED BY <1>4, <1>5, <1>6, <1>7, ZenonT(60)

\* The round keys of the phone.
LEMMA KeysHere ==
    /\ \A n \in 1..11 : Keys[n] \in Block
    /\ Keys[1] = AesKey
    /\ \A n \in 1..10 : Keys[n + 1] = NextRoundKey(Keys[n], n)
<1>1. /\ \A n \in 1..11 : Keys[n] \in Block
      /\ Keys[1] = AesKey
      /\ \A n \in 1..10 : Keys[n + 1] = StandardNextKey(Keys[n], n)
  BY AesKeyIs, KeysAre DEF Keys
<1> QED BY <1>1, NextRoundKeyIs

\* The blocks before the round keys are added.
LEMMA RoundsHere ==
    ASSUME NEW key \in NetworkKeys, NEW h \in 1..2
    PROVE  /\ \A n \in 1..11 : Rounds[key][h][n] \in Block
           /\ Rounds[key][h][1] = Halves(PlainOf(key))[h]
           /\ \A n \in 1..10 : Rounds[key][h][n + 1]
                               = StandardRound(AddRoundKey(Rounds[key][h][n], Keys[n]), n)
           /\ Encrypted(key, h) \in Block
<1> DEFINE b == Halves(PlainOf(key))[h]
<1>1. PlainOf(key) \in Seq(Byte) /\ Len(PlainOf(key)) = 32
  BY NetworkKeyIs, PlainIs
<1>2. b \in Block
  BY <1>1, HalvesAre
<1>3. Rounds[key][h] = StandardBlocks(b, Keys)
  BY DEF Rounds
<1> HIDE DEF b
<1>4. /\ \A n \in 1..11 : Rounds[key][h][n] \in Block
      /\ Rounds[key][h][1] = b
      /\ \A n \in 1..10 : Rounds[key][h][n + 1]
                               = StandardRound(AddRoundKey(Rounds[key][h][n], Keys[n]), n)
  BY <1>2, <1>3, KeysHere, BlocksAre
<1>5. Encrypted(key, h) \in Block
  BY <1>4, KeysHere, AddTyped DEF Encrypted
<1> QED BY <1>4, <1>5 DEF b

\* The expanded key is the standard's.
Expanded(keys) == \A i \in 1..11 : keys[i] = Keys[i]

\* A turn of aes_encr goes from one of these blocks to the next.
LEMMA Encrypts ==
    ASSUME NEW key \in NetworkKeys, NEW h \in 1..2, NEW keys, Expanded(keys), NEW n \in 1..10
    PROVE  aes_encr(Rounds[key][h][n], keys, n)
           = IF n < 10 THEN Rounds[key][h][n + 1] ELSE Encrypted(key, h)
<1> DEFINE s == Rounds[key][h][n]
<1>1. s \in Block /\ Rounds[key][h][n + 1] = StandardRound(AddRoundKey(s, Keys[n]), n)
  BY RoundsHere
<1>2. keys[n] = Keys[n] /\ keys[n] \in Block /\ keys[11] = Keys[11]
  BY KeysHere DEF Expanded
<1>3. Encrypted(key, h) = AddRoundKey(Rounds[key][h][11], Keys[11])
  BY DEF Encrypted
<1> HIDE DEF s
<1>4. aes_encr(s, keys, n) = IF n < 10 THEN StandardRound(AddRoundKey(s, keys[n]), n)
                             ELSE AddRoundKey(StandardRound(AddRoundKey(s, keys[n]), n), keys[11])
  BY <1>1, <1>2, EncryptsARound
<1>5. n = 10 => n + 1 = 11
  OBVIOUS
<1> QED BY <1>1, <1>2, <1>3, <1>4, <1>5 DEF s

\* What the block is when round n has to be undone.
Undoes(key, h, n) == IF n = 10 THEN Encrypted(key, h) ELSE Rounds[key][h][n + 1]

\* A turn of aes_decr goes back to the one before.
LEMMA Decrypts ==
    ASSUME NEW key \in NetworkKeys, NEW h \in 1..2, NEW keys, Expanded(keys), NEW n \in 1..10
    PROVE  aes_decr(Undoes(key, h, n), keys, n) = Rounds[key][h][n]
<1> DEFINE s == Rounds[key][h][n]
           r == StandardRound(AddRoundKey(s, keys[n]), n)
<1>1. s \in Block /\ Rounds[key][h][n + 1] = StandardRound(AddRoundKey(s, Keys[n]), n)
  BY RoundsHere
<1>2. /\ keys[n] = Keys[n] /\ keys[n] \in Block
      /\ keys[11] = Keys[11] /\ keys[11] \in Block
  BY KeysHere DEF Expanded
<1>3. aes_decr(IF n = 10 THEN AddRoundKey(r, keys[11]) ELSE r, keys, n) = s
  BY <1>1, <1>2, DecryptsARound
<1>4. r = Rounds[key][h][n + 1]
  BY <1>1, <1>2
<1> HIDE DEF s, r
<1>5. n = 10 => n + 1 = 11
  OBVIOUS
<1>6. Undoes(key, h, n) = IF n = 10 THEN AddRoundKey(r, keys[11]) ELSE r
  BY <1>2, <1>4, <1>5 DEF Undoes, Encrypted
<1> QED BY <1>3, <1>6 DEF s

-----------------------------------------------------------------------------
(* The steps of a call                                                       *)

\* A call begins only where none is in progress.
LEMMA FromIdle ==
    ASSUME wlan \/ netapp \/ nvmem \/ sockets
    PROVE  pc = "idle"
<1> USE DEF Begin, Refuse
<1>1. CASE wlan
  BY <1>1 DEF wlan, wlan_connect, wlan_disconnect, wlan_ioctl_set_connection_policy,
     wlan_add_profile, wlan_ioctl_del_profile, wlan_ioctl_get_scan_results,
     wlan_ioctl_set_scan_params, wlan_set_event_mask, wlan_ioctl_statusget,
     wlan_smart_config_start, wlan_smart_config_stop, wlan_smart_config_set_prefix
<1>2. CASE netapp
  BY <1>2 DEF netapp, netapp_dhcp, netapp_timeout_values, netapp_ping_send,
     netapp_ping_report, netapp_ping_stop, netapp_ipconfig, netapp_arp_flush,
     netapp_set_debug_level
<1>3. CASE nvmem
  BY <1>3 DEF nvmem, nvmem_read, nvmem_write, nvmem_set_mac_address,
     nvmem_get_mac_address, nvmem_read_sp_version, nvmem_create_entry
<1>4. CASE sockets
  BY <1>4 DEF sockets, socket, closesocket, accept, bind, listen, connect,
     gethostbyname, select, setsockopt, getsockopt, recv, recvfrom, send, sendto,
     mdnsAdvertiser, getmssvalue
<1> QED BY <1>1, <1>2, <1>3, <1>4

\* What is known of the key when the profile is added.
KeyThere ==
    stage = "decrypted" =>
        profile \in Profiles /\ Len(TrueKey(blocks[1] \o blocks[2])) \in Nat

\* And when the key is the one the phone sent.
KeyFits ==
    stage = "decrypted" =>
        profile \in Profiles /\ Len(TrueKey(blocks[1] \o blocks[2])) = Len(profile.key)

\* A sound call begins, a whole one if the key is right; or the call goes on,
\* or an event comes that nobody awaits, or only the process goes on.
LEMMA StepIs ==
    ASSUME KeyThere, [Next]_vars
    PROVE  \/ /\ pc \in {"off", "idle"}
              /\ \E c : Sound(c) /\ (KeyFits => Whole(c)) /\ Fill(c)
           \/ Progress \/ Stray \/ Quiet
<1> USE DEF Quiet
<1>1. CASE Calls
  <2>1. CASE wlan \/ netapp \/ nvmem \/ sockets
    <3>1. Begins \/ Quiet
      BY <2>1, WlanBegins, NetappBegins, NvmemBegins, SocketsBegins
    <3> QED BY <2>1, <3>1, FromIdle DEF Begins, Right
  <2>2. CASE SimpleLink_Init_Start
    BY <2>2, StartRight DEF SimpleLink_Init_Start, Right
  <2>3. CASE aes_write_key
    BY <2>3, NvmemWriteRight DEF aes_write_key, Begin, Right
  <2> QED BY <1>1, <2>1, <2>2, <2>3 DEF Calls
<1>2. CASE Progress \/ Stray
  BY <1>2
<1>3. CASE \/ aes_encrypt \/ expandKey \/ EncryptRound \/ DecryptRound
           \/ ReadFails \/ aes_decrypt \/ Returned \/ UNCHANGED vars
  BY <1>3 DEF aes_encrypt, expandKey, EncryptRound, DecryptRound, ReadFails,
     aes_decrypt, Returned, vars, commandVars, caller
<1>4. CASE wlan_smart_config_process \/ ReadsProfile
  BY <1>4, NvmemReadRight
     DEF wlan_smart_config_process, ReadsProfile, aes_read_key, Begin, Right
<1>5. CASE AddsProfile
  <2> DEFINE key == TrueKey(blocks[1] \o blocks[2])
             sec == IF profile.sec = WLAN_SEC.WPA THEN WLAN_SEC.WPA2 ELSE profile.sec
  <2>1. profile \in Profiles /\ Len(key) \in Nat
    BY <1>5 DEF KeyThere, AddsProfile
  <2>2. sec \in 0..3 /\ profile.ssid \in 0..32
    <3>1. profile.sec \in 0..3 /\ profile.ssid \in SsidLengths
      BY <2>1 DEF Profiles
    <3>2. SsidLengths \subseteq 0..32
      BY CommandsAssumption
    <3>3. WLAN_SEC.WPA2 \in 0..3
      BY DEF WLAN_SEC
    <3> QED BY <3>1, <3>2, <3>3
  <2>3. pc = "idle" /\ Fill(AddProfile(sec, profile.ssid, Len(key)))
    BY <1>5 DEF AddsProfile, Begin
  <2>4. KeyFits => /\ Len(key) \in 0..63
                   /\ sec = WLAN_SEC.WEP => Len(key) <= 13
    <3> SUFFICES ASSUME KeyFits
                 PROVE  Len(key) \in 0..63 /\ (sec = WLAN_SEC.WEP => Len(key) <= 13)
      OBVIOUS
    <3>1. Len(key) = Len(profile.key)
      BY <1>5 DEF KeyFits, AddsProfile
    <3>2. profile.key \in NetworkKeys /\ (profile.sec = WLAN_SEC.WEP => Len(profile.key) <= 13)
      BY <2>1 DEF Profiles
    <3>4. sec = WLAN_SEC.WEP => profile.sec = WLAN_SEC.WEP
      BY DEF WLAN_SEC
    <3>5. Len(profile.key) \in 0..32
      BY <3>2, NetworkKeyIs
    <3> HIDE DEF key, sec
    <3>6. Len(key) \in 0..63
      BY <3>1, <3>5
    <3>7. ASSUME sec = WLAN_SEC.WEP PROVE Len(key) <= 13
      <4>1. Len(profile.key) <= 13
        BY <3>2, <3>4, <3>7
      <4> QED BY <3>1, <4>1
    <3> QED BY <3>6, <3>7
  <2> HIDE DEF key, sec
  <2>5. Sound(AddProfile(sec, profile.ssid, Len(key)))
    BY <2>1, <2>2, AddProfileSound
  <2>6. KeyFits => Whole(AddProfile(sec, profile.ssid, Len(key)))
    BY <2>2, <2>4, AddProfileRight DEF Right
  <2> QED BY <2>3, <2>5, <2>6
<1> QED BY <1>1, <1>2, <1>3, <1>4, <1>5 DEF Next

Received ==
    received = Nothing \/ \E opcode \in Strays \union {call.awaits} : received = Event(opcode)

\* The answer to the call in progress is written as far as it has come.
AnswerInv ==
    /\ pc \notin {"off", "idle"} => Sound(call)
    /\ pc \in {"off", "idle", "filled"} =>
           written = {} /\ received = Nothing /\ usRxEventOpcode = 0
    /\ pc = "waits" =>
           /\ usRxEventOpcode \in {0, call.awaits} /\ Received
           /\ written \subseteq Written(call.awaits)
           /\ usRxEventOpcode = 0 =>
                  written = Written(call.awaits) /\ received = Nothing
    /\ pc \in {"waits_for_data", "has_data"} =>
           usRxEventOpcode = 0 /\ written = Written(call.awaits)

\* An event that is neither awaited nor unsolicited writes nothing.
LEMMA StrayWrites ==
    ASSUME NEW opcode \in Nat \ {HCI_EVNT.SEND, HCI_EVNT.SENDTO},
           opcode # usRxEventOpcode, ~ Unsolicited(opcode)
    PROVE  Written(opcode) = {}
<1>1. CASE opcode < \h8000
  <2>1. opcode \in {HCI_EVNT.WRITE, HCI_EVNT.PATCHES_REQ}
    BY <1>1 DEF Unsolicited
  <2> QED BY <2>1, Opcodes, Events DEF Written, OneByte, OneWord
<1>2. CASE ~ (opcode < \h8000)
  BY <1>2, Opcodes, Events DEF Written, OneByte, OneWord
<1> QED BY <1>1, <1>2

\* The event that is awaited is not taken for an unsolicited one.
LEMMA AwaitedIsNot ==
    ASSUME usRxEventOpcode \notin Known
    PROVE  ~ Unsolicited(usRxEventOpcode)
  BY DEF Known, Unsolicited

\* Every step keeps it: an event that is not the answer leaves the caller's
\* variable alone, the answer fills it.
LEMMA AnswerStep ==
    ASSUME AnswerInv, KeyThere, [Next]_vars
    PROVE  AnswerInv'
<1> USE DEF AnswerInv
<1>1. ASSUME pc \in {"off", "idle"}, NEW c, Sound(c), Fill(c) PROVE AnswerInv'
  BY <1>1 DEF Fill, waiting
<1>2. CASE Quiet
  BY <1>2 DEF Quiet, waiting, wire, Received
<1>3. CASE Send
  <2>1. CASE txMagic = "lost"
    BY <1>3, <2>1 DEF Send
  <2>2. CASE txMagic # "lost"
    <3>1. /\ pc = "filled" /\ pc' = "waits" /\ usRxEventOpcode' = call.awaits
          /\ UNCHANGED <<call, received, written>>
      BY <1>3, <2>2 DEF Send
    <3>2. Sound(call) /\ written = {} /\ received = Nothing
      BY <3>1
    <3>3. call.awaits # 0
      BY <3>2 DEF Sound
    <3> QED BY <3>1, <3>2, <3>3 DEF Received
  <2> QED BY <2>1, <2>2
<1>4. ASSUME NEW opcode \in Strays \union {call.awaits}, Receive(opcode)
      PROVE  AnswerInv'
  BY <1>4 DEF Receive, Received, caller
<1>5. CASE Answer
  <2>1. Sound(call)
    BY <1>5 DEF Answer, Receive
  <2> QED BY <1>4, <1>5, <2>1 DEF Answer, Sound
<1>6. CASE Stray
  BY <1>4, <1>6 DEF Stray
<1>7. CASE HandleEvent
  <2>0. /\ pc = "waits" /\ UNCHANGED <<pc, call>> /\ received' = Nothing
        /\ Sound(call) /\ received.type = "EVNT"
    BY <1>7 DEF HandleEvent, caller
  <2>1. PICK opcode \in Strays \union {call.awaits} : received = Event(opcode)
    BY <2>0 DEF Received, Nothing
  <2>2. usRxEventOpcode = call.awaits /\ received.opcode = opcode
    BY <2>0, <2>1 DEF Event, Nothing
  <2>3. CASE opcode = call.awaits
    <3>1. ~ Unsolicited(opcode)
      BY <2>0, <2>2, <2>3, AwaitedIsNot DEF Sound
    <3>2. written' = written \union Written(call.awaits) /\ usRxEventOpcode' = 0
      BY <1>7, <2>2, <2>3, <3>1 DEF HandleEvent
    <3> QED BY <2>0, <3>2 DEF Received
  <2>4. CASE opcode # call.awaits
    <3>1. opcode \in Nat \ {HCI_EVNT.SEND, HCI_EVNT.SENDTO}
      BY <2>4, StraysAssumption DEF StraysAssumption
    <3>2. ~ Unsolicited(opcode) => Written(opcode) = {}
      BY <2>2, <2>4, <3>1, StrayWrites
    <3>3. written' = written /\ usRxEventOpcode' = usRxEventOpcode
      BY <1>7, <2>2, <2>4, <3>2 DEF HandleEvent
    <3>4. call.awaits # 0
      BY <2>0 DEF Sound
    <3> QED BY <2>0, <2>2, <3>3, <3>4 DEF Received
  <2> QED BY <2>3, <2>4
<1>8. CASE wlan_start
  <2>1. /\ pc = "waits" /\ usRxEventOpcode = 0 /\ call.opcode = HCI_CMND.SIMPLE_LINK_START
        /\ pc' = "filled" /\ call' = ReadBufferSize
        /\ UNCHANGED <<written, received, usRxEventOpcode>>
    BY <1>8 DEF wlan_start, Answered, Fill, waiting
  <2>2. Sound(call) /\ written = Written(call.awaits) /\ received = Nothing
    BY <2>1
  <2>3. call.awaits = HCI_CMND.SIMPLE_LINK_START
    BY <2>1, <2>2, Opcodes DEF Sound, AnswerTo
  <2>4. written = {}
    BY <2>2, <2>3, WrittenIs
  <2>5. Sound(ReadBufferSize)
    BY StartRight DEF Right
  <2> QED BY <2>1, <2>2, <2>4, <2>5
<1>9. CASE SimpleLinkWaitData
  BY <1>9 DEF SimpleLinkWaitData, Answered
<1>10. CASE ReceiveData
  BY <1>10 DEF ReceiveData, wire
<1>11. CASE HandleData
  BY <1>11 DEF HandleData
<1>12. CASE Return
  BY <1>12 DEF Return, Answered
<1> QED BY <1>1, <1>2, <1>3, <1>5, <1>6, <1>7, <1>8, <1>9, <1>10, <1>11, <1>12,
           StepIs DEF Progress

\* The magic numbers at the ends of the two buffers.
MagicInv ==
    /\ pc \in {"off", "idle", "filled", "waits", "waits_for_data", "has_data",
               "stopped"}
    /\ txMagic \in {"magic", "same", "lost"} /\ rxMagic \in {"magic", "same", "lost"}
    /\ txMagic = "lost" => pc \in {"filled", "stopped"} /\ TooLong(call)
    /\ pc = "filled" /\ TooLong(call) => txMagic \in {"same", "lost"}
    /\ OnTheWire /\ TooLong(call) => txMagic = "same"
    /\ rxMagic = "lost" => pc = "stopped"
    /\ received.type = "DATA" => received.length \in Nat
    /\ received.type = "DATA" /\ pc # "stopped" =>
           /\ pc \in {"waits_for_data", "has_data"}
           /\ received.length >= 120 => rxMagic = "same"
    /\ pc = "has_data" => received.type = "DATA"
    /\ pc = "stopped" => \/ TooLong(call)
                         \/ received.type = "DATA" /\ received.length >= 120

\* The byte that makes the length odd is the one that goes beyond.
LEMMA RoomIs ==
    ASSUME NEW length \in Nat
    PROVE  SpiReadDataCont(length) > BUFFER_ROOM <=> length >= 120
  BY DEF SpiReadDataCont, BUFFER_ROOM, HEADERS_SIZE_DATA

\* Every step keeps it.
LEMMA MagicStep ==
    ASSUME AnswerInv, MagicInv, KeyThere, [Next]_vars
    PROVE  MagicInv'
<1> USE DEF MagicInv, OnTheWire
<1>1. ASSUME NEW c, Fill(c), received = Nothing, pc # "stopped", txMagic # "lost"
      PROVE  MagicInv'
  BY <1>1 DEF Fill, waiting, TooLong, Nothing
<1>2. CASE pc \in {"off", "idle"} /\ \E c : Fill(c)
  BY <1>1, <1>2 DEF AnswerInv
<1>3. CASE Quiet
  BY <1>3 DEF Quiet, waiting, wire
<1>4. CASE Send
  BY <1>4 DEF Send, AnswerInv, Nothing
<1>5. ASSUME NEW opcode, Receive(opcode) PROVE MagicInv'
  BY <1>5 DEF Receive, Event, caller, wire
<1>6. CASE Answer \/ Stray
  BY <1>5, <1>6 DEF Answer, Stray
<1>7. CASE HandleEvent
  BY <1>7 DEF HandleEvent, Nothing, caller, wire
<1>8. CASE wlan_start
  BY <1>1, <1>8 DEF wlan_start, Answered, AnswerInv
<1>9. CASE SimpleLinkWaitData
  BY <1>9 DEF SimpleLinkWaitData, Answered, AnswerInv, Nothing, wire
<1>10. CASE ReceiveData
  <2>1. PICK n \in UpTo(call.asked), args \in ArgSizes :
            /\ received' = Data(args + n)
            /\ rxMagic' \in IF SpiReadDataCont(args + n) > BUFFER_ROOM
                            THEN {"same", "lost"} ELSE {rxMagic}
            /\ pc' = IF rxMagic' = "lost" THEN "stopped" ELSE pc
    BY <1>10 DEF ReceiveData
  <2>2. args + n \in Nat
    BY CommandsAssumption DEF UpTo
  <2>3. /\ received'.type = "DATA" /\ received'.length = args + n
        /\ pc = "waits_for_data" /\ UNCHANGED <<call, txMagic>>
    BY <1>10, <2>1 DEF ReceiveData, Data, wire
  <2>4. rxMagic # "lost" /\ rxMagic \in {"magic", "same"} /\ txMagic # "lost"
    BY <2>3
  <2>5. /\ rxMagic' \in {"magic", "same", "lost"}
        /\ rxMagic' = "lost" => args + n >= 120
        /\ args + n >= 120 => rxMagic' \in {"same", "lost"}
    BY <2>1, <2>2, <2>4, RoomIs
  <2> QED BY <2>1, <2>2, <2>3, <2>4, <2>5 DEF TooLong
<1>11. CASE HandleData
  BY <1>11 DEF HandleData, wire
<1>12. CASE Return
  BY <1>12 DEF Return, Answered, Nothing
<1> QED BY <1>2, <1>3, <1>4, <1>6, <1>7, <1>8, <1>9, <1>10, <1>11, <1>12, StepIs
           DEF Progress

\* What is in the packet on the wire.
SentInv == OnTheWire => sent = (call.declared % 256) + call.behind

\* Every step keeps it.
LEMMA SentStep ==
    ASSUME AnswerInv, SentInv, KeyThere, [Next]_vars
    PROVE  SentInv'
<1> USE DEF SentInv, OnTheWire
<1>1. CASE \E c : Fill(c)
  BY <1>1 DEF Fill
<1>2. CASE Quiet
  BY <1>2 DEF Quiet, wire
<1>3. CASE Send
  BY <1>3 DEF Send
<1>4. CASE Answer \/ Stray \/ HandleEvent
  BY <1>4 DEF Answer, Stray, Receive, HandleEvent, caller, wire
<1>5. CASE SimpleLinkWaitData \/ ReceiveData \/ HandleData
  BY <1>5 DEF SimpleLinkWaitData, Answered, ReceiveData, HandleData, wire
<1>6. CASE Return
  BY <1>6 DEF Return
<1> QED BY <1>1, <1>2, <1>3, <1>4, <1>5, <1>6, StepIs DEF Progress, wlan_start

\* Every call but the one with a wrong key declares its length.
WholeInv == pc \notin {"off", "idle"} => Whole(call)

\* Every step keeps it, as long as the key is the phone's.
LEMMA WholeStep ==
    ASSUME AnswerInv, WholeInv, KeyThere, KeyFits, [Next]_vars
    PROVE  WholeInv'
<1> USE DEF WholeInv
<1>1. CASE \E c : Sound(c) /\ (KeyFits => Whole(c)) /\ Fill(c)
  BY <1>1 DEF Fill
<1>2. CASE Quiet
  BY <1>2 DEF Quiet
<1>3. CASE Send \/ Answer \/ Stray \/ HandleEvent
  BY <1>3 DEF Send, Answer, Stray, Receive, HandleEvent, caller
<1>4. CASE SimpleLinkWaitData \/ ReceiveData \/ HandleData
  BY <1>4 DEF SimpleLinkWaitData, Answered, ReceiveData, HandleData
<1>5. CASE Return
  BY <1>5 DEF Return
<1>6. CASE wlan_start
  BY <1>6, StartRight DEF wlan_start, Fill, Right
<1> QED BY <1>1, <1>2, <1>3, <1>4, <1>5, <1>6, StepIs DEF Progress

\* Only wlan_set_event_mask changes what the host is to be told.
LEMMA InformStep ==
    ASSUME inform \in BOOLEAN, [Next]_vars
    PROVE  inform' \in BOOLEAN
<1> USE DEF Begin, Refuse, commandVars, caller
<1>1. CASE wlan
  BY <1>1 DEF wlan, wlan_connect, wlan_disconnect, wlan_ioctl_set_connection_policy,
     wlan_add_profile, wlan_ioctl_del_profile, wlan_ioctl_get_scan_results,
     wlan_ioctl_set_scan_params, wlan_set_event_mask, wlan_ioctl_statusget,
     wlan_smart_config_start, wlan_smart_config_stop, wlan_smart_config_set_prefix
<1>2. CASE netapp
  BY <1>2 DEF netapp, netapp_dhcp, netapp_timeout_values, netapp_ping_send,
     netapp_ping_report, netapp_ping_stop, netapp_ipconfig, netapp_arp_flush,
     netapp_set_debug_level
<1>3. CASE nvmem
  BY <1>3 DEF nvmem, nvmem_read, nvmem_write, nvmem_set_mac_address,
     nvmem_get_mac_address, nvmem_read_sp_version, nvmem_create_entry
<1>4. CASE sockets
  BY <1>4 DEF sockets, socket, closesocket, accept, bind, listen, connect,
     gethostbyname, select, setsockopt, getsockopt, recv, recvfrom, send, sendto,
     mdnsAdvertiser, getmssvalue
<1>5. CASE SimpleLink_Init_Start \/ aes_write_key
  BY <1>5 DEF SimpleLink_Init_Start, aes_write_key
<1>6. CASE Progress \/ Stray
  BY <1>6 DEF Progress, Stray, Send, Answer, Receive, HandleEvent, wlan_start,
     SimpleLinkWaitData, ReceiveData, HandleData, Return
<1>7. CASE \/ aes_encrypt \/ expandKey \/ EncryptRound \/ DecryptRound
           \/ wlan_smart_config_process \/ ReadsProfile \/ ReadFails \/ aes_decrypt
           \/ AddsProfile \/ Returned \/ UNCHANGED vars
  BY <1>7 DEF aes_encrypt, expandKey, EncryptRound, DecryptRound,
     wlan_smart_config_process, ReadsProfile, ReadFails, aes_decrypt, AddsProfile,
     Returned, vars
<1> QED BY <1>1, <1>2, <1>3, <1>4, <1>5, <1>6, <1>7 DEF Next, Calls

\* The rest of the types.
RestInv ==
    /\ usRxDataPending \in BOOLEAN /\ sent \in Nat
    /\ strays \in 0..MaxStrays /\ written \subseteq 0..57

\* Every step keeps it.
LEMMA RestStep ==
    ASSUME AnswerInv, RestInv, KeyThere, [Next]_vars
    PROVE  RestInv'
<1> USE DEF RestInv
<1>1. CASE \E c : Fill(c)
  BY <1>1 DEF Fill, waiting
<1>2. CASE Quiet
  BY <1>2 DEF Quiet, wire, waiting
<1>3. CASE Send
  <2>1. call.declared \in Nat /\ call.behind \in Nat
    BY <1>3 DEF Send, AnswerInv, Sound
  <2>2. (call.declared % 256) + call.behind \in Nat
    BY <2>1
  <2> QED BY <1>3, <2>2 DEF Send
<1>4. CASE Answer
  BY <1>4 DEF Answer, Receive, wire
<1>5. CASE Stray
  BY <1>5, CommandsAssumption DEF Stray, Receive, wire
<1>6. CASE HandleEvent
  BY <1>6, WrittenIs DEF HandleEvent, wire
<1>7. CASE SimpleLinkWaitData \/ ReceiveData \/ HandleData
  BY <1>7 DEF SimpleLinkWaitData, ReceiveData, HandleData, wire
<1>8. CASE Return
  BY <1>8, CommandsAssumption DEF Return
<1> QED BY <1>1, <1>2, <1>3, <1>4, <1>5, <1>6, <1>7, <1>8, StepIs
           DEF Progress, wlan_start

-----------------------------------------------------------------------------
(* The stages of the process                                                 *)

\* The stages in which there is a key to expand, and those in which there is one.
Stages == {"none", "expands_to_encrypt", "encrypts", "encrypted",
           "reads_key", "reads_profile", "expands", "decrypts", "decrypted", "adds"}
Empty == {"none", "reads_key", "reads_profile"}

\* What the block must be at each stage.
RoundInv ==
    /\ stage = "expands_to_encrypt" => blocks[1] = Rounds[profile.key][1][1]
    /\ stage = "encrypts" =>
           round \in 1..10 /\ blocks[1] = Rounds[profile.key][1][round]
    /\ stage = "encrypted" => blocks[1] = Encrypted(profile.key, 1)
    /\ stage = "expands" => blocks[half] = Encrypted(profile.key, half)
    /\ stage = "decrypts" =>
           round \in 1..10 /\ blocks[half] = Undoes(profile.key, half, round)
    /\ stage \in {"expands", "decrypts"} /\ half = 1 =>
           blocks[2] = Encrypted(profile.key, 2)
    /\ stage \in {"expands", "decrypts"} /\ half = 2 =>
           blocks[1] = Rounds[profile.key][1][1]
    /\ stage = "decrypted" =>
           \A h \in 1..2 : blocks[h] = Rounds[profile.key][h][1]

\* The round keys, as far as they are computed.
ExpandedInv ==
    /\ expandedKey \in Seq(Block) /\ Len(expandedKey) \in 0..11
    /\ \A i \in 1..Len(expandedKey) : expandedKey[i] = Keys[i]
    /\ stage \in {"expands_to_encrypt", "expands"} => Len(expandedKey) \in 1..10
    /\ stage \in {"encrypts", "decrypts"} => Len(expandedKey) = 11

AesInv ==
    /\ stage \in Stages /\ half \in 1..2 /\ round \in 0..10
    /\ IF stage = "none" THEN profile = NoProfile ELSE profile \in Profiles
    /\ IF stage \in Empty THEN blocks = <<>> /\ half = 1
       ELSE blocks \in Seq(Block) /\ Len(blocks) = 2
    /\ stage \in {"expands_to_encrypt", "encrypts"} => half = 1
    /\ ExpandedInv /\ RoundInv

\* The key of a profile has a length the phones send.
LEMMA KeyIs ==
    ASSUME profile \in Profiles
    PROVE  profile.key \in NetworkKeys
  BY DEF Profiles

\* The key is decrypted: it is the phone's.
LEMMA KeyIsTheirs ==
    ASSUME AesInv, stage = "decrypted"
    PROVE  /\ profile \in Profiles
           /\ TrueKey(blocks[1] \o blocks[2]) = profile.key
           /\ blocks[1] \o blocks[2] = PlainOf(profile.key)
<1> DEFINE k == profile.key
           p == PlainOf(k)
<1>1. profile \in Profiles
  BY DEF AesInv
<1>2. k \in NetworkKeys
  BY <1>1, KeyIs
<1>3. blocks[1] = Rounds[k][1][1] /\ blocks[2] = Rounds[k][2][1]
  BY DEF AesInv, RoundInv
<1> HIDE DEF k
<1>4. blocks[1] = Halves(p)[1] /\ blocks[2] = Halves(p)[2]
  BY <1>2, <1>3, RoundsHere
<1>5. blocks[1] \o blocks[2] = p
  BY <1>2, <1>4, NetworkKeyIs, PlainIs, HalvesAre
<1>6. TrueKey(p) = k
  BY <1>2, TrueKeyIs
<1> QED BY <1>1, <1>5, <1>6 DEF k

\* So the call that adds it is sound, and whole.
LEMMA KeyHere ==
    ASSUME AesInv
    PROVE  KeyThere /\ KeyFits
<1> SUFFICES ASSUME stage = "decrypted"
             PROVE  /\ profile \in Profiles
                    /\ Len(TrueKey(blocks[1] \o blocks[2])) = Len(profile.key)
                    /\ Len(profile.key) \in Nat
  BY DEF KeyThere, KeyFits
<1>1. /\ profile \in Profiles
      /\ TrueKey(blocks[1] \o blocks[2]) = profile.key
  BY KeyIsTheirs
<1>2. Len(profile.key) \in 0..32
  BY <1>1, KeyIs, NetworkKeyIs
<1> QED BY <1>1, <1>2

\* What has been computed of the round keys becomes one more.
LEMMA OneMoreKey ==
    ASSUME ExpandedInv, Len(expandedKey) \in 1..10,
           expandedKey' = Append(expandedKey,
               NextRoundKey(expandedKey[Len(expandedKey)], Len(expandedKey)))
    PROVE  /\ expandedKey' \in Seq(Block) /\ Len(expandedKey') = Len(expandedKey) + 1
           /\ \A i \in 1..Len(expandedKey') : expandedKey'[i] = Keys[i]
<1> DEFINE n == Len(expandedKey)
           k == NextRoundKey(expandedKey[n], n)
<1>1. n \in 1..10 /\ expandedKey[n] = Keys[n]
  BY DEF ExpandedInv
<1>2. k = Keys[n + 1] /\ k \in Block
  <2>1. k = NextRoundKey(Keys[n], n)
    BY <1>1
  <2> HIDE DEF n, k
  <2>2. n + 1 \in 1..11
    BY <1>1
  <2> QED BY <1>1, <2>1, <2>2, KeysHere
<1>3. expandedKey \in Seq(Block) /\ expandedKey' = Append(expandedKey, k)
  BY DEF ExpandedInv
<1> HIDE DEF k
<1>4. expandedKey' \in Seq(Block) /\ Len(expandedKey') = n + 1
  BY <1>2, <1>3
<1>5. \A i \in 1..n : expandedKey'[i] = expandedKey[i]
  BY <1>2, <1>3
<1>6. expandedKey'[n + 1] = k
  BY <1>2, <1>3
<1>7. \A i \in 1..n : expandedKey[i] = Keys[i]
  BY DEF ExpandedInv
<1> HIDE DEF n
<1>8. \A i \in 1..(n + 1) : i \in 1..n \/ i = n + 1
  BY <1>1
<1> QED BY <1>2, <1>4, <1>5, <1>6, <1>7, <1>8 DEF n

\* The process computes what the standard does, a round at a time.
LEMMA AesStep ==
    ASSUME AesInv, [Next]_vars
    PROVE  AesInv'
<1>1. CASE UNCHANGED smartVars
  BY <1>1 DEF AesInv, ExpandedInv, RoundInv, Undoes, Encrypted, smartVars
<1>2. CASE Rest
  <2>1. stage' = "none" /\ profile' = NoProfile /\ blocks' = <<>> /\ half' = 1
        /\ expandedKey' = <<>> /\ round' = 0
    BY <1>2 DEF Rest
  <2>2. <<>> \in Seq(Block) /\ Len(<<>>) = 0 /\ ~ (\E i \in Int : i \in 1..0)
    OBVIOUS
  <2>3. ExpandedInv'
    BY <2>1, <2>2 DEF ExpandedInv
  <2>4. RoundInv'
    BY <2>1 DEF RoundInv
  <2> QED BY <2>1, <2>3, <2>4 DEF AesInv, Stages, Empty
<1>3. CASE aes_encrypt
  <2> DEFINE p == PlainOf(profile'.key)
  <2>1. /\ stage = "none" /\ stage' = "expands_to_encrypt" /\ profile' \in Profiles
        /\ expandedKey' = <<AesKey>> /\ blocks' = Halves(p) /\ UNCHANGED <<half, round>>
    BY <1>3 DEF aes_encrypt
  <2>2. profile'.key \in NetworkKeys
    BY <2>1 DEF Profiles
  <2>3. blocks' \in Seq(Block) /\ Len(blocks') = 2
    BY <2>1, <2>2, NetworkKeyIs, PlainIs, HalvesAre
  <2>4. blocks'[1] = Rounds[profile'.key][1][1]
    BY <2>1, <2>2, RoundsHere
  <2>5. ExpandedInv'
    <3>1. expandedKey' \in Seq(Block) /\ Len(expandedKey') = 1 /\ expandedKey'[1] = Keys[1]
      BY <2>1, AesKeyIs, KeysHere
    <3>2. \A i \in 1..1 : i = 1
      OBVIOUS
    <3> QED BY <2>1, <3>1, <3>2 DEF ExpandedInv
  <2>6. RoundInv'
    BY <2>1, <2>4 DEF RoundInv
  <2> QED BY <2>1, <2>3, <2>5, <2>6 DEF AesInv, Stages, Empty
<1>4. CASE expandKey
  <2> DEFINE n == Len(expandedKey)
  <2>1. /\ stage \in {"expands_to_encrypt", "expands"}
        /\ expandedKey' = Append(expandedKey, NextRoundKey(expandedKey[n], n))
        /\ IF n < 10 THEN UNCHANGED <<stage, round>>
              ELSE IF stage = "expands" THEN stage' = "decrypts" /\ round' = 10
              ELSE stage' = "encrypts" /\ round' = 1
        /\ UNCHANGED <<profile, blocks, half>>
    BY <1>4 DEF expandKey
  <2>2. ExpandedInv /\ n \in 1..10
    BY <2>1 DEF AesInv, ExpandedInv
  <2>3. /\ expandedKey' \in Seq(Block) /\ Len(expandedKey') = n + 1
        /\ \A i \in 1..Len(expandedKey') : expandedKey'[i] = Keys[i]
    BY <2>1, <2>2, OneMoreKey
  <2> HIDE DEF n
  <2>4. ExpandedInv'
    BY <2>1, <2>2, <2>3 DEF ExpandedInv
  <2>5. RoundInv'
    BY <2>1, <2>2 DEF AesInv, RoundInv, Undoes, Encrypted
  <2> QED BY <2>1, <2>4, <2>5 DEF AesInv, Stages, Empty
<1>5. CASE EncryptRound
  <2>1. /\ stage = "encrypts" /\ blocks' = [blocks EXCEPT ![1] = aes_encr(@, expandedKey, round)]
        /\ IF round < 10 THEN round' = round + 1 /\ UNCHANGED stage
           ELSE stage' = "encrypted" /\ UNCHANGED round
        /\ UNCHANGED <<profile, half, expandedKey>>
    BY <1>5 DEF EncryptRound
  <2> DEFINE key == profile.key
  <2>2. /\ profile \in Profiles /\ round \in 1..10 /\ blocks[1] = Rounds[key][1][round]
        /\ blocks \in Seq(Block) /\ Len(blocks) = 2 /\ ExpandedInv /\ half = 1
    BY <2>1 DEF AesInv, RoundInv, Empty
  <2>3. key \in NetworkKeys
    BY <2>2, KeyIs
  <2>4. Expanded(expandedKey)
    BY <2>1, <2>2 DEF ExpandedInv, Expanded
  <2> DEFINE b == IF round < 10 THEN Rounds[key][1][round + 1] ELSE Encrypted(key, 1)
  <2>5. aes_encr(blocks[1], expandedKey, round) = b
    BY <2>2, <2>3, <2>4, Encrypts
  <2>6. b \in Block
    <3>1. round < 10 => round + 1 \in 1..11
      BY <2>2
    <3> QED BY <2>3, <3>1, RoundsHere
  <2>7. blocks' = [blocks EXCEPT ![1] = b]
    BY <2>1, <2>5
  <2> HIDE DEF b
  <2>8. blocks' \in Seq(Block) /\ Len(blocks') = 2 /\ blocks'[1] = b
    BY <2>2, <2>6, <2>7, SMTT(60)
  <2>9. ExpandedInv'
    BY <2>1, <2>2 DEF ExpandedInv
  <2>10. RoundInv'
    BY <2>1, <2>2, <2>8 DEF RoundInv, b, Encrypted
  <2> QED BY <2>1, <2>2, <2>8, <2>9, <2>10 DEF AesInv, Stages, Empty
<1>6. CASE DecryptRound
  <2>1. /\ stage = "decrypts" /\ blocks' = [blocks EXCEPT ![half] = aes_decr(@, expandedKey, round)]
        /\ IF round > 1
           THEN round' = round - 1 /\ UNCHANGED <<stage, half, expandedKey>>
           ELSE /\ round' = 0
                /\ IF half = 1
                   THEN half' = 2 /\ stage' = "expands" /\ expandedKey' = <<AesKey>>
                   ELSE stage' = "decrypted" /\ UNCHANGED <<half, expandedKey>>
        /\ profile' = profile
    BY <1>6 DEF DecryptRound
  <2> DEFINE key == profile.key
  <2>2. /\ profile \in Profiles /\ round \in 1..10 /\ half \in 1..2
        /\ blocks[half] = Undoes(key, half, round)
        /\ blocks \in Seq(Block) /\ Len(blocks) = 2 /\ ExpandedInv
        /\ half = 1 => blocks[2] = Encrypted(key, 2)
        /\ half = 2 => blocks[1] = Rounds[key][1][1]
    BY <2>1 DEF AesInv, RoundInv, Empty
  <2>3. key \in NetworkKeys
    BY <2>2, KeyIs
  <2>4. Expanded(expandedKey)
    BY <2>1, <2>2 DEF ExpandedInv, Expanded
  <2> DEFINE b == Rounds[key][half][round]
  <2>5. aes_decr(blocks[half], expandedKey, round) = b
    <3>1. half \in 1..2 /\ round \in 1..10 /\ blocks[half] = Undoes(key, half, round)
      BY <2>2
    <3> HIDE DEF key
    <3>2. aes_decr(Undoes(key, half, round), expandedKey, round) = b
      BY <2>3, <2>4, <3>1, Decrypts
    <3> QED BY <3>1, <3>2
  <2>6. b \in Block
    <3>1. round \in 1..11
      BY <2>2
    <3> QED BY <2>2, <2>3, <3>1, RoundsHere
  <2>7. blocks' = [blocks EXCEPT ![half] = b]
    BY <2>1, <2>5
  <2> HIDE DEF b
  <2>8. /\ blocks' \in Seq(Block) /\ Len(blocks') = 2 /\ blocks'[half] = b
        /\ \A h \in 1..2 : h # half => blocks'[h] = blocks[h]
    <3>1. blocks \in Seq(Block) /\ Len(blocks) = 2
      BY <2>2
    <3>2. CASE half = 1
      <4>1. blocks' = [blocks EXCEPT ![1] = b]
        BY <2>7, <3>2
      <4>2. blocks' \in Seq(Block) /\ Len(blocks') = 2 /\ blocks'[1] = b
        BY <2>6, <3>1, <4>1
      <4>3. blocks'[2] = blocks[2]
        BY <3>1, <4>1
      <4> QED BY <3>2, <4>2, <4>3
    <3>3. CASE half = 2
      <4>1. blocks' = [blocks EXCEPT ![2] = b]
        BY <2>7, <3>3
      <4>2. blocks' \in Seq(Block) /\ Len(blocks') = 2 /\ blocks'[2] = b
        BY <2>6, <3>1, <4>1
      <4>3. blocks'[1] = blocks[1]
        BY <3>1, <4>1
      <4> QED BY <3>3, <4>2, <4>3
    <3> QED BY <2>2, <3>2, <3>3
  <2>9. ExpandedInv'
    <3>1. <<AesKey>> \in Seq(Block) /\ Len(<<AesKey>>) = 1 /\ <<AesKey>>[1] = Keys[1]
      BY AesKeyIs, KeysHere
    <3>2. \A i \in 1..1 : i = 1
      OBVIOUS
    <3>3. CASE expandedKey' = expandedKey
      BY <2>1, <2>2, <3>3, SMTT(60) DEF ExpandedInv
    <3>4. CASE expandedKey' = <<AesKey>> /\ stage' = "expands"
      BY <3>1, <3>2, <3>4 DEF ExpandedInv
    <3> QED BY <2>1, <3>3, <3>4
  <2>10. RoundInv'
    <3>1. CASE round > 1
      <4>1. /\ stage' = "decrypts" /\ half' = half /\ round' = round - 1
            /\ round' \in 1..10 /\ round' # 10 /\ round' + 1 = round
        BY <2>1, <2>2, <3>1
      <4>2. blocks'[half'] = Undoes(key, half', round')
        BY <2>8, <4>1 DEF Undoes, b
      <4> HIDE DEF Undoes
      <4>3. half' = 1 => blocks'[2] = Encrypted(key, 2)
        BY <2>2, <2>8, <4>1
      <4>4. half' = 2 => blocks'[1] = Rounds[key][1][1]
        BY <2>2, <2>8, <4>1
      <4> QED BY <2>1, <4>1, <4>2, <4>3, <4>4 DEF RoundInv, Encrypted, Undoes
    <3>2. CASE round = 1 /\ half = 1
      BY <2>1, <2>2, <2>8, <3>2 DEF RoundInv, b, Encrypted
    <3>3. CASE round = 1 /\ half = 2
      BY <2>1, <2>2, <2>8, <3>3 DEF RoundInv, b, Encrypted
    <3> QED BY <2>2, <3>1, <3>2, <3>3
  <2>11. /\ stage' \in Stages \ (Empty \union {"expands_to_encrypt", "encrypts"})
         /\ half' \in 1..2 /\ round' \in 0..10
    BY <2>1, <2>2 DEF Stages, Empty
  <2> QED BY <2>1, <2>2, <2>8, <2>9, <2>10, <2>11 DEF AesInv, Empty
<1>7. CASE wlan_smart_config_process \/ ReadsProfile
  <2>1. /\ stage \in Empty /\ stage' \in {"reads_key", "reads_profile"}
        /\ profile' \in Profiles /\ UNCHANGED <<blocks, half, expandedKey, round>>
    BY <1>7 DEF wlan_smart_config_process, ReadsProfile, AesInv, Empty
  <2>2. ExpandedInv' /\ RoundInv'
    BY <2>1 DEF AesInv, ExpandedInv, RoundInv
  <2> QED BY <2>1, <2>2 DEF AesInv, Stages, Empty
<1>8. CASE aes_decrypt
  <2>1. /\ stage = "reads_profile" /\ stage' = "expands" /\ expandedKey' = <<AesKey>>
        /\ blocks' = <<Encrypted(profile.key, 1), Encrypted(profile.key, 2)>>
        /\ UNCHANGED <<profile, half, round>>
    BY <1>8 DEF aes_decrypt
  <2>2. profile \in Profiles /\ half = 1
    BY <2>1 DEF AesInv, Empty
  <2>3. Encrypted(profile.key, 1) \in Block /\ Encrypted(profile.key, 2) \in Block
    BY <2>2, KeyIs, RoundsHere
  <2>4. ExpandedInv'
    <3>1. expandedKey' \in Seq(Block) /\ Len(expandedKey') = 1 /\ expandedKey'[1] = Keys[1]
      BY <2>1, AesKeyIs, KeysHere
    <3>2. \A i \in 1..1 : i = 1
      OBVIOUS
    <3> QED BY <2>1, <3>1, <3>2 DEF ExpandedInv
  <2>5. RoundInv'
    BY <2>1, <2>2 DEF RoundInv, Encrypted
  <2>6. blocks' \in Seq(Block) /\ Len(blocks') = 2
    BY <2>1, <2>3
  <2> QED BY <2>1, <2>2, <2>4, <2>5, <2>6 DEF AesInv, Stages, Empty
<1>9. CASE AddsProfile
  <2>1. stage = "decrypted" /\ stage' = "adds"
        /\ UNCHANGED <<profile, blocks, half, expandedKey, round>>
    BY <1>9 DEF AddsProfile
  <2>2. ExpandedInv' /\ RoundInv'
    BY <2>1 DEF AesInv, ExpandedInv, RoundInv
  <2> QED BY <2>1, <2>2 DEF AesInv, Stages, Empty
<1>10. CASE Calls \/ ((Progress \/ Stray) /\ UNCHANGED smartVars) \/ UNCHANGED vars
  BY <1>1, <1>10 DEF Calls, vars
<1>11. CASE ReadFails \/ Returned
  BY <1>2, <1>11 DEF ReadFails, Returned
<1> QED BY <1>3, <1>4, <1>5, <1>6, <1>7, <1>8, <1>9, <1>10, <1>11 DEF Next

-----------------------------------------------------------------------------
(* The theorems                                                              *)

\* What is added is added once, when the key is the phone's.
LEMMA AddedStep ==
    ASSUME AesInv, KeyRecovered, [Next]_vars
    PROVE  KeyRecovered'
<1> USE DEF KeyRecovered
<1>1. CASE UNCHANGED smartVars
  BY <1>1 DEF smartVars
<1>2. CASE AddsProfile
  <2>1. stage = "decrypted" /\ profile' = profile
        /\ added' = [ssid |-> profile.ssid,
                     sec |-> IF profile.sec = WLAN_SEC.WPA THEN WLAN_SEC.WPA2
                             ELSE profile.sec,
                     key |-> TrueKey(blocks[1] \o blocks[2]),
                     others |-> added'.others]
        /\ \/ added'.others = <<>>
           \/ /\ profile.sec = WLAN_SEC.WEP
              /\ added'.others = OtherKeys(blocks[1] \o blocks[2],
                                          Len(TrueKey(blocks[1] \o blocks[2])))
    BY <1>2 DEF AddsProfile, WLAN_SEC
  <2>2. /\ profile \in Profiles
        /\ TrueKey(blocks[1] \o blocks[2]) = profile.key
        /\ blocks[1] \o blocks[2] = PlainOf(profile.key)
    BY <2>1, KeyIsTheirs
  <2>3. \A i \in DOMAIN added'.others : added'.others[i] \in {0, Behind}
    <3>1. CASE added'.others = <<>>
      BY <3>1
    <3>2. CASE /\ profile.sec = WLAN_SEC.WEP
               /\ added'.others = OtherKeys(PlainOf(profile.key), Len(profile.key))
      <4>1. profile.key \in NetworkKeys /\ Len(profile.key) <= 13
        BY <2>2, <3>2 DEF Profiles
      <4> QED BY <3>2, <4>1, OtherKeysAre
    <3> QED BY <2>1, <2>2, <3>1, <3>2
  <2> QED BY <2>1, <2>2, <2>3
<1>3. CASE \/ aes_encrypt \/ expandKey \/ EncryptRound \/ DecryptRound
           \/ wlan_smart_config_process \/ ReadsProfile \/ ReadFails \/ aes_decrypt
           \/ Returned
  <2>1. stage' # "adds"
    BY <1>3 DEF aes_encrypt, expandKey, EncryptRound, DecryptRound,
       wlan_smart_config_process, ReadsProfile, ReadFails, aes_decrypt, Returned, Rest
  <2> QED BY <2>1
<1>4. CASE Calls \/ ((Progress \/ Stray) /\ UNCHANGED smartVars) \/ UNCHANGED vars
  BY <1>1, <1>4 DEF Calls, vars
<1> QED BY <1>2, <1>3, <1>4 DEF Next

\* The inductive invariant.
IInv ==
    /\ AesInv /\ KeyRecovered
    /\ AnswerInv /\ MagicInv /\ SentInv /\ WholeInv /\ RestInv /\ inform \in BOOLEAN

\* It holds at first.
LEMMA InitIInv == Init => IInv
<1> SUFFICES ASSUME Init PROVE IInv
  OBVIOUS
<1>1. AesInv
  <2>1. <<>> \in Seq(Block) /\ Len(<<>>) = 0 /\ ~ (\E i \in Int : i \in 1..0)
    OBVIOUS
  <2> QED BY <2>1 DEF Init, AesInv, Stages, Empty, ExpandedInv, RoundInv
<1>2. KeyRecovered
  BY DEF Init, KeyRecovered
<1>3. AnswerInv
  BY DEF Init, CommandInit, AnswerInv
<1>4. MagicInv
  BY DEF Init, CommandInit, MagicInv, OnTheWire, Nothing
<1>5. SentInv /\ WholeInv
  BY DEF Init, CommandInit, SentInv, WholeInv, OnTheWire
<1>6. RestInv /\ inform \in BOOLEAN
  <2>1. usRxDataPending = FALSE /\ sent = 0 /\ strays = 0 /\ written = {} /\ inform = TRUE
    BY DEF Init, CommandInit
  <2>2. MaxStrays \in Nat
    BY CommandsAssumption
  <2>3. 0 \in 0..MaxStrays
    BY <2>2
  <2> QED BY <2>1, <2>3 DEF RestInv
<1> QED BY <1>1, <1>2, <1>3, <1>4, <1>5, <1>6 DEF IInv

\* And every step keeps it.
LEMMA NextIInv == IInv /\ [Next]_vars => IInv'
<1> SUFFICES ASSUME IInv, [Next]_vars PROVE IInv'
  OBVIOUS
<1>1. KeyThere /\ KeyFits
  BY KeyHere DEF IInv
<1>2. AesInv' /\ KeyRecovered'
  BY AesStep, AddedStep DEF IInv
<1>3. AnswerInv' /\ MagicInv'
  BY <1>1, AnswerStep, MagicStep DEF IInv
<1>4. SentInv' /\ WholeInv'
  BY <1>1, SentStep, WholeStep DEF IInv
<1>5. RestInv' /\ (inform \in BOOLEAN)'
  BY <1>1, RestStep, InformStep DEF IInv
<1> QED BY <1>2, <1>3, <1>4, <1>5 DEF IInv

\* So it always holds.
THEOREM IInvHolds == Spec => []IInv
  BY InitIInv, NextIInv, PTL DEF Spec

\* The types, with the two blocks of sixteen bytes.
THEOREM TypeOKHolds == Spec => []TypeOK
<1>1. ASSUME IInv PROVE TypeOK
  <2>1. CommandTypeOK
    BY <1>1 DEF IInv, MagicInv, RestInv, CommandTypeOK
  <2>2. /\ stage \in Stages /\ profile \in Profiles \union {NoProfile}
        /\ half \in 1..2 /\ round \in 0..10 /\ Len(expandedKey) \in 0..11
    BY <1>1 DEF IInv, AesInv, ExpandedInv
  <2>3. \/ blocks = <<>>
        \/ blocks \in Seq(Block) /\ Len(blocks) = 2
    BY <1>1 DEF IInv, AesInv
  <2>4. Len(blocks) \in {0, 2}
    BY <2>3
  <2>5. \A b \in DOMAIN blocks : blocks[b] \in Seq(Byte) /\ Len(blocks[b]) = 16
    <3>1. CASE blocks = <<>>
      BY <3>1
    <3>2. CASE blocks \in Seq(Block) /\ Len(blocks) = 2
      <4>1. \A b \in DOMAIN blocks : blocks[b] \in Block
        BY <3>2, LenProperties, ElementOfSeq
      <4> QED BY <4>1, BlockIs
    <3> QED BY <2>3, <3>1, <3>2
  <2> QED BY <2>1, <2>2, <2>4, <2>5 DEF TypeOK, Stages
<1> QED BY <1>1, IInvHolds, PTL

\* The answer of a call is written where it belongs and nowhere beyond, and
\* all that is looked at has been written (hci_unsol_event_handler,
\* hci_event_handler), for every event that comes in between.
THEOREM AnswerFillsHolds == Spec => []AnswerFills
<1>1. ASSUME IInv PROVE AnswerFills
  BY <1>1 DEF IInv, AnswerInv, MagicInv, Sound, AnswerFills, OnTheWire, Answered
<1> QED BY <1>1, IInvHolds, PTL

\* The program stops, by the magic number, when a packet is too long, and for
\* nothing else (SpiWrite, SpiReadDataCont).
THEOREM StopsWhenTooLongHolds == Spec => []StopsWhenTooLong
<1>1. ASSUME IInv PROVE StopsWhenTooLong
  BY <1>1 DEF IInv, MagicInv, StopsWhenTooLong, OnTheWire
<1> QED BY <1>1, IInvHolds, PTL

\* Offsets and lengths of every packet of wlan.c, netapp.c, nvmem.c and
\* socket.c lead to the parts they are of, whatever the lengths.
THEOREM FieldsPointHolds == Spec => []FieldsPoint
<1>1. ASSUME IInv PROVE FieldsPoint
  BY <1>1 DEF IInv, AnswerInv, Sound, FieldsPoint, OnTheWire
<1> QED BY <1>1, IInvHolds, PTL

\* And every packet declares its own length, in one byte.
THEOREM ArgumentsWholeHolds == Spec => []ArgumentsWhole
<1>1. ASSUME IInv PROVE ArgumentsWhole
  BY <1>1 DEF IInv, SentInv, WholeInv, Whole, ArgumentsWhole, OnTheWire
<1> QED BY <1>1, IInvHolds, PTL

\* The rounds of security.c are the standard's, for every key and every block.
THEOREM RoundsAreStandardHolds == Spec => []RoundsAreStandard
<1>1. ASSUME IInv PROVE RoundsAreStandard
  <2>1. expandedKey \in Seq(Block) /\ \A i \in 1..Len(expandedKey) : expandedKey[i] = Keys[i]
    BY <1>1 DEF IInv, AesInv, ExpandedInv
  <2>2. \A i \in DOMAIN expandedKey : expandedKey[i] = Keys[i]
    BY <2>1
  <2>3. RoundInv
    BY <1>1 DEF IInv, AesInv
  <2>4. ASSUME stage = "decrypts", round < 10
        PROVE  blocks[half] = Rounds[profile.key][half][round + 1]
    BY <2>3, <2>4 DEF RoundInv, Undoes
  <2> QED BY <2>2, <2>3, <2>4 DEF RoundInv, RoundsAreStandard
<1> QED BY <1>1, IInvHolds, PTL

\* The key that wlan_smart_config_process adds is the phone's, for every key that
\* is not taken for a shorter one, and every AES key.
THEOREM KeyRecoveredHolds == Spec => []KeyRecovered
<1>1. ASSUME IInv PROVE KeyRecovered
  BY <1>1 DEF IInv
<1> QED BY <1>1, IInvHolds, PTL
====================================================================================
