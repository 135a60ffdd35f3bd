---------------------------- MODULE MCSmartConfig ----------------------------
(* A small instance of SmartConfig: keys of every length at which the format  *)
(* changes, one of them ending in the byte that pads shorter ones.            *)
EXTENDS SmartConfig

KeyOf(len) == [i \in 1..len |-> 32 + (((7 * i) + len) % 95)]

MCNetworkKeys ==
    {KeyOf(len) : len \in {0, 5, 13, 15, 16, 31, 32}}
        \union {[KeyOf(31) EXCEPT ![31] = 0]}

MCAesKey == Bytes16(LAMBDA i : (43 + (29 * i)) % 256)
=============================================================================
