------------------------------ MODULE SmartConfig ------------------------------
(***************************************************************************)
(* wlan_smart_config_process over the calls of module Commands: the key and    *)
(* the profile a phone has sent are read from two files of the CC3000, the     *)
(* profile's key is decrypted with the AES of security.c, a round at a time,   *)
(* and a profile is added.  The phone, outside the program, encrypts as the    *)
(* standard says: thirty-two bytes, the key itself when it has as many, else   *)
(* its length, the key and zeros.                                            *)
(***************************************************************************)
EXTENDS Commands, Aes

CONSTANTS
    NetworkKeys,  \* the keys of networks that phones send
    AesKey        \* the key phone and program share

\* A key of 32 bytes that begins with 31 or ends with 0 looks like a shorter
\* one; no character is either.
ASSUME SmartConfigAssumption ==
    /\ AesKey \in [Cell -> Byte]
    /\ \A key \in NetworkKeys :
          /\ key \in Seq(Byte) /\ Len(key) <= 32
          /\ Len(key) = 32 => key[1] # 31 /\ key[32] # 0

VARIABLES
    stage,        \* of the process, or of aes_encrypt
    profile,      \* what the phone sent: file 13
    blocks,       \* the two blocks at decKeyPtr
    half,         \* the one that is decrypted
    expandedKey,  \* as far as it is computed
    round,        \* of aes_encr or aes_decr
    added         \* what wlan_add_profile is given

smartVars == <<stage, profile, blocks, half, expandedKey, round, added>>
vars == <<commandVars, smartVars>>

-----------------------------------------------------------------------------
(* The phone                                                                 *)

\* The bytes that are encrypted for the key of a network, and their blocks.
PlainOf(key) ==
    IF Len(key) = 32 THEN key
    ELSE <<Len(key)>> \o key \o [i \in 1..(31 - Len(key)) |-> 0]
Halves(bytes) == <<SubSeq(bytes, 1, 16), SubSeq(bytes, 17, 32)>>

\* What the standard computes for each key: the round keys, and for each half
\* the blocks before the round keys are added, and the ciphertext.
Keys == StandardKeys(AesKey)
Rounds == [key \in NetworkKeys |->
    [h \in 1..2 |-> StandardBlocks(Halves(PlainOf(key))[h], Keys)]]
Encrypted(key, h) == AddRoundKey(Rounds[key][h][11], Keys[11])

\* A network without security has no key, one with WEP one of up to thirteen
\* characters.
Profiles ==
    {p \in [ssid : SsidLengths, sec : 0..3, key : NetworkKeys] :
        /\ p.sec = WLAN_SEC.UNSEC <=> p.key = <<>>
        /\ p.sec = WLAN_SEC.WEP => Len(p.key) <= 13}

-----------------------------------------------------------------------------
(* security.c                                                                *)

NoProfile == [ssid |-> 0, sec |-> 0, key |-> <<>>]

Rest ==
    /\ stage' = "none" /\ profile' = NoProfile /\ blocks' = <<>> /\ half' = 1
    /\ expandedKey' = <<>> /\ round' = 0 /\ added' = NoProfile

aes_write_key == Begin(NvmemWrite(16))
aes_read_key == NvmemRead(16)

\* aes_encrypt, called by nothing in this program: a first half is encrypted.
aes_encrypt ==
    /\ stage = "none" /\ pc = "idle"
    /\ stage' = "expands_to_encrypt" /\ expandedKey' = <<AesKey>>
    /\ profile' \in Profiles
    /\ blocks' = Halves(PlainOf(profile'.key))
    /\ UNCHANGED <<half, round, added, commandVars>>

\* A turn of the loop of expandKey.
expandKey ==
    /\ stage \in {"expands_to_encrypt", "expands"}
    /\ LET n == Len(expandedKey)
       IN  /\ expandedKey' =
                  Append(expandedKey, NextRoundKey(expandedKey[n], n))
           /\ IF n < 10 THEN UNCHANGED <<stage, round>>
              ELSE IF stage = "expands" THEN stage' = "decrypts" /\ round' = 10
              ELSE stage' = "encrypts" /\ round' = 1
    /\ UNCHANGED <<profile, blocks, half, added, commandVars>>

\* Mutant: one round too many.
EncryptRoundTooMany ==
    /\ stage = "encrypts"
    /\ blocks' = [blocks EXCEPT ![1] = aes_encr(@, expandedKey, round)]
    /\ IF round <= 10 THEN round' = round + 1 /\ UNCHANGED stage
       ELSE stage' = "encrypted" /\ UNCHANGED round
    /\ UNCHANGED <<profile, half, expandedKey, added, commandVars>>

\* A turn of the loop of aes_encr, or what comes after it.
EncryptRound ==
    /\ stage = "encrypts"
    /\ blocks' = [blocks EXCEPT ![1] = aes_encr(@, expandedKey, round)]
    /\ IF round < 10 THEN round' = round + 1 /\ UNCHANGED stage
       ELSE stage' = "encrypted" /\ UNCHANGED round
    /\ UNCHANGED <<profile, half, expandedKey, added, commandVars>>

\* aes_decrypt of each half expands the key anew.
DecryptRound ==
    /\ stage = "decrypts"
    /\ blocks' = [blocks EXCEPT ![half] = aes_decr(@, expandedKey, round)]
    /\ IF round > 1
       THEN round' = round - 1 /\ UNCHANGED <<stage, half, expandedKey>>
       ELSE /\ round' = 0
            /\ IF half = 1
               THEN half' = 2 /\ stage' = "expands" /\ expandedKey' = <<AesKey>>
               ELSE stage' = "decrypted" /\ UNCHANGED <<half, expandedKey>>
    /\ UNCHANGED <<profile, added, commandVars>>

-----------------------------------------------------------------------------
(* wlan_smart_config_process                                                 *)

SMART_CONFIG_PROFILE_SIZE == 67

wlan_smart_config_process ==
    /\ stage = "none" /\ Begin(aes_read_key)
    /\ stage' = "reads_key" /\ profile' \in Profiles
    /\ UNCHANGED <<blocks, half, expandedKey, round, added>>

ReadsProfile ==
    /\ stage = "reads_key" /\ Begin(NvmemRead(SMART_CONFIG_PROFILE_SIZE))
    /\ stage' = "reads_profile"
    /\ UNCHANGED <<profile, blocks, half, expandedKey, round, added>>

\* Either file could not be read: the process returns its status.
ReadFails ==
    /\ stage \in {"reads_key", "reads_profile"} /\ pc = "idle"
    /\ Rest /\ UNCHANGED commandVars

\* The length of the key field, which is not encrypted, is always 32.
aes_decrypt ==
    /\ stage = "reads_profile" /\ pc = "idle"
    /\ stage' = "expands" /\ expandedKey' = <<AesKey>>
    /\ blocks' = <<Encrypted(profile.key, 1), Encrypted(profile.key, 2)>>
    /\ UNCHANGED <<profile, half, round, added, commandVars>>

\* Mutant: a last byte that is not zero is taken for a key of 32 bytes.
TrueKeyNot31(bytes) ==
    IF bytes[32] # 0 THEN bytes ELSE SubSeq(bytes, 2, bytes[1] + 1)

\* The first byte is the length, but for a key of 32.
TrueKey(bytes) ==
    IF bytes[32] # 0
    THEN IF bytes[1] = 31 THEN SubSeq(bytes, 2, 32) ELSE bytes
    ELSE SubSeq(bytes, 2, bytes[1] + 1)

\* The four keys of WEP are as long as the first and are read one behind the
\* other: from the zeros that pad it, and from what lies behind the 32 bytes.
Behind == 256
OtherKeys(bytes, len) ==
    [i \in 1..(3 * len) |->
        IF len + i <= 31 THEN bytes[(len + i) + 1] ELSE Behind]

AddsProfile ==
    LET bytes == blocks[1] \o blocks[2]
        key == TrueKey(bytes)
        sec == IF profile.sec = WLAN_SEC.WPA THEN WLAN_SEC.WPA2 ELSE profile.sec
    IN  /\ stage = "decrypted"
        /\ Begin(AddProfile(sec, profile.ssid, Len(key)))
        /\ added' = [ssid |-> profile.ssid, sec |-> sec, key |-> key,
                      others |-> IF sec = WLAN_SEC.WEP
                                 THEN OtherKeys(bytes, Len(key)) ELSE <<>>]
        /\ stage' = "adds"
        /\ UNCHANGED <<profile, blocks, half, expandedKey, round>>

Returned ==
    /\ stage \in {"adds", "encrypted"} /\ pc = "idle"
    /\ Rest /\ UNCHANGED commandVars

-----------------------------------------------------------------------------
Init ==
    /\ CommandInit
    /\ stage = "none" /\ profile = NoProfile /\ blocks = <<>> /\ half = 1
    /\ expandedKey = <<>> /\ round = 0 /\ added = NoProfile

\* The calls of the program outside the process.
Calls ==
    /\ stage = "none"
    /\ \/ SimpleLink_Init_Start \/ wlan \/ netapp \/ nvmem \/ sockets
       \/ aes_write_key
    /\ UNCHANGED smartVars

Next ==
    \/ Calls
    \/ (Progress \/ Stray) /\ UNCHANGED smartVars
    \/ aes_encrypt \/ expandKey \/ EncryptRound \/ DecryptRound
    \/ wlan_smart_config_process \/ ReadsProfile \/ ReadFails \/ aes_decrypt
    \/ AddsProfile \/ Returned

\* The host goes on with a call, and the CC3000 answers it.
Spec == Init /\ [][Next]_vars /\ CommandFairness

-----------------------------------------------------------------------------
TypeOK ==
    /\ CommandTypeOK
    /\ stage \in {"none", "expands_to_encrypt", "encrypts", "encrypted",
                  "reads_key", "reads_profile", "expands", "decrypts",
                  "decrypted", "adds"}
    /\ profile \in Profiles \union {NoProfile}
    /\ half \in 1..2 /\ round \in 0..10
    /\ Len(expandedKey) \in 0..11 /\ Len(blocks) \in {0, 2}
    /\ \A b \in DOMAIN blocks : blocks[b] \in Seq(Byte) /\ Len(blocks[b]) = 16

(***************************************************************************)
(* The loops of security.c, which unroll, reorder and combine the steps of the *)
(* cipher, are the standard's: every round key is the standard's, and every    *)
(* round of aes_encr and aes_decr leaves the block the standard has before the *)
(* round key is added.                                                       *)
(***************************************************************************)
RoundsAreStandard ==
    /\ \A i \in DOMAIN expandedKey : expandedKey[i] = Keys[i]
    /\ stage = "encrypts" => blocks[1] = Rounds[profile.key][1][round]
    /\ stage = "encrypted" => blocks[1] = Encrypted(profile.key, 1)
    /\ stage = "decrypts" /\ round < 10 =>
           blocks[half] = Rounds[profile.key][half][round + 1]
    /\ stage = "decrypted" =>
           \A h \in 1..2 : blocks[h] = Rounds[profile.key][h][1]

(***************************************************************************)
(* The profile that is added is the network of the phone, with all of its key  *)
(* as its first, or only, key; WPA becomes WPA2.  No byte of the key is in the  *)
(* other keys of WEP.                                                        *)
(***************************************************************************)
KeyRecovered ==
    stage = "adds" =>
        /\ added.ssid = profile.ssid /\ added.key = profile.key
        /\ added.sec = IF profile.sec = WLAN_SEC.WPA THEN WLAN_SEC.WPA2
                       ELSE profile.sec
        /\ \A i \in DOMAIN added.others : added.others[i] \in {0, Behind}
===============================================================================
