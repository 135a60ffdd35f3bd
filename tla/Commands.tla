------------------------------- MODULE Commands -------------------------------
(***************************************************************************)
(* The calls of wlan.c, socket.c, netapp.c and nvmem.c as packets: how each   *)
(* lays its arguments out in wlan_tx_buffer, which length and opcode           *)
(* hci_command_send, hci_data_send and hci_data_command_send put before them,  *)
(* the event it then waits for, which bytes of its own variable               *)
(* hci_event_handler writes from the answer, and when the byte at the end of   *)
(* a buffer shows that a packet was too long.                                 *)
(*                                                                         *)
(* One call at a time: module HciEvents has the interleavings of the waiting   *)
(* with the interrupt handler, FlowControl the buffers a send waits for.      *)
(* A field is its width and what the packet says with it: the offset of a     *)
(* part of the packet from the field itself, the length of a part, or         *)
(* something the packet's layout does not depend on.                          *)
(***************************************************************************)
EXTENDS Integers, Sequences, SequencesExt

CONSTANTS
    SsidLengths,  \* lengths of the names of networks
    Lengths,      \* of the names, keys and data a call passes or asks for
    ArgSizes,     \* of the arguments before the data of a received packet
    Strays,       \* opcodes of events that come while another is awaited
    MaxStrays     \* bound on those during one call

ASSUME CommandsAssumption ==
    /\ SsidLengths \subseteq 0..32 /\ Lengths \subseteq Nat
    /\ ArgSizes \subseteq Nat /\ MaxStrays \in Nat

VARIABLES
    pc,               \* of the program
    call,             \* the call in progress, or NoCall
    inform,           \* InformHostOnTxComplete
    txMagic, rxMagic, \* the last byte of wlan_tx_buffer and of spi_buffer
    sent,             \* the length SpiWrite was given, without the header of HCI
    usRxEventOpcode, usRxDataPending,
    received,         \* what is in spi_buffer: an event's opcode, or data
    strays,           \* events of this call that were not awaited
    written           \* the bytes of the caller's variable that were written

caller == <<pc, call, inform>>
wire == <<txMagic, sent>>
waiting == <<usRxEventOpcode, usRxDataPending, received, strays, written, rxMagic>>
commandVars == <<caller, wire, waiting>>

-----------------------------------------------------------------------------
(* hci.h                                                                     *)

HCI_CMND == [
    WLAN_CONNECT |-> \h0001, WLAN_DISCONNECT |-> \h0002, SET_SCANPARAM |-> \h0003,
    SET_CONNECTION_POLICY |-> \h0004, ADD_PROFILE |-> \h0005,
    DEL_PROFILE |-> \h0006, GET_SCAN_RESULTS |-> \h0007, EVENT_MASK |-> \h0008,
    STATUSGET |-> \h0009, SIMPLE_CONFIG_START |-> \h000A,
    SIMPLE_CONFIG_STOP |-> \h000B, SIMPLE_CONFIG_SET_PREFIX |-> \h000C,
    SOCKET |-> \h1001, BIND |-> \h1002, RECV |-> \h1004, ACCEPT |-> \h1005,
    LISTEN |-> \h1006, CONNECT |-> \h1007, BSD_SELECT |-> \h1008,
    SETSOCKOPT |-> \h1009, GETSOCKOPT |-> \h100A, CLOSE_SOCKET |-> \h100B,
    RECVFROM |-> \h100D, GETHOSTNAME |-> \h1010, MDNS_ADVERTISE |-> \h1011,
    GETMSSVALUE |-> \h1012, SEND |-> \h81, SENDTO |-> \h83,
    NVMEM_CREATE_ENTRY |-> \h0203, NVMEM_READ |-> \h0201, NVMEM_WRITE |-> \h90,
    READ_SP_VERSION |-> \h0207, READ_BUFFER_SIZE |-> \h400B,
    SIMPLE_LINK_START |-> \h4000, DHCP |-> \h2001, PING_SEND |-> \h2002,
    PING_REPORT |-> \h2003, PING_STOP |-> \h2004, IPCONFIG |-> \h2005,
    ARP_FLUSH |-> \h2006, SET_DEBUG_LEVEL |-> \h2008, SET_TIMERS |-> \h2009]

HCI_EVNT == [SEND |-> \h1003, WRITE |-> \h100E, SENDTO |-> \h100F,
             PATCHES_REQ |-> \h1000, NVMEM_WRITE |-> \h0202,
             FREE_BUFF |-> \h4100, KEEPALIVE |-> \h8200, UNSOL_CONNECT |-> \h8001,
             UNSOL_DISCONNECT |-> \h8002, UNSOL_INIT |-> \h8004,
             UNSOL_DHCP |-> \h8010, PING_REPORT |-> \h8040,
             SIMPLE_CONFIG_DONE |-> \h8080, TCP_CLOSE_WAIT |-> \h8800]

\* Where the arguments begin: the header of SPI and that of HCI before them.
HEADERS_SIZE_CMD == 9
HEADERS_SIZE_DATA == 10
\* The bytes of either buffer before its last one, which has to stay \hDE.
BUFFER_ROOM == 130

-----------------------------------------------------------------------------
(* Fields, and the calls as records                                          *)

Field(width, says, n, of) == [width |-> width, says |-> says, n |-> n, of |-> of]
Word == Field(4, "value", 0, "itself")
Offset(n, part) == Field(4, "offset", n, part)
Length(n, part) == Field(4, "length", n, part)
Part(name, n) == Field(n, "part", 0, name)
Words(n) == [i \in 1..n |-> Word]

\* Where each field ends, from 0 for the beginning of the first.
Ends(fields) ==
    LET end[i \in 0..Len(fields)] ==
            IF i = 0 THEN 0 ELSE end[i - 1] + fields[i].width
    IN  end
Width(fields) == Ends(fields)[Len(fields)]

\* A command: the fields of its arguments, the length it declares, and the size
\* of the variable that is to hold the answer, all of which the caller uses.
Command(opcode, fields, declared, room) ==
    [type |-> "CMND", opcode |-> opcode, fields |-> fields, declared |-> declared,
     behind |-> 0, awaits |-> opcode, room |-> room, used |-> 0..(room - 1),
     data |-> "none", asked |-> 0]

NoCall == Command(0, <<>>, 0, 0)

\* A command on the data channel: after its arguments comes more.
DataCommand(opcode, fields, argsLength, tail, awaits, room, used) ==
    [Command(opcode, fields \o tail, argsLength, room) EXCEPT
        !.type = "DATA", !.behind = Width(tail), !.awaits = awaits, !.used = used]

\* A command whose answer may be followed by data.
Reading(command, data, asked) == [command EXCEPT !.data = data, !.asked = asked]

UpTo(n) == {len \in Lengths : len <= n}

Header(c) == IF c.type = "CMND" THEN HEADERS_SIZE_CMD ELSE HEADERS_SIZE_DATA

\* A call fills wlan_tx_buffer; the last byte of the buffer may be overwritten,
\* and perhaps with the value it has.
Fill(c) ==
    /\ pc' = "filled" /\ call' = c
    /\ txMagic' \in IF Header(c) + Width(c.fields) > BUFFER_ROOM
                    THEN {"same", "lost"} ELSE {txMagic}
    /\ UNCHANGED <<sent, waiting>>

Begin(c) == pc = "idle" /\ Fill(c) /\ UNCHANGED inform

\* Nothing is sent.
Refuse == pc = "idle" /\ UNCHANGED commandVars

-----------------------------------------------------------------------------
(* wlan.c                                                                    *)

ETH_ALEN == 6

SimpleLink_Init_Start ==
    /\ pc = "off" /\ UNCHANGED inform
    /\ Fill(Command(HCI_CMND.SIMPLE_LINK_START, <<Part("patches", 1)>>, 1, 0))

\* The rest of wlan_start.
ReadBufferSize == Command(HCI_CMND.READ_BUFFER_SIZE, <<>>, 0, 0)

\* Mutant: the key is looked for where it would be without a name before it.
WlanConnectKeyFirst(ssid, key) ==
    Command(HCI_CMND.WLAN_CONNECT,
        <<Offset(28, "ssid"), Length(ssid, "ssid"), Word, Offset(16, "key"),
          Length(key, "key"), Part("pad", 2), Part("bssid", ETH_ALEN),
          Part("ssid", ssid), Part("key", key)>>,
        29 + ssid + key - 1, 4)

WlanConnect(ssid, key) ==
    Command(HCI_CMND.WLAN_CONNECT,
        <<Offset(28, "ssid"), Length(ssid, "ssid"), Word, Offset(16 + ssid, "key"),
          Length(key, "key"), Part("pad", 2), Part("bssid", ETH_ALEN),
          Part("ssid", ssid), Part("key", key)>>,
        29 + ssid + key - 1, 4)
wlan_connect == \E ssid \in SsidLengths, key \in UpTo(64) : Begin(WlanConnect(ssid, key))

wlan_disconnect == Begin(Command(HCI_CMND.WLAN_DISCONNECT, <<>>, 0, 4))

wlan_ioctl_set_connection_policy ==
    Begin(Command(HCI_CMND.SET_CONNECTION_POLICY, Words(3), 12, 4))

\* wlan_add_profile by its security: what stands before the name is the same
\* in all three.
ProfileStart(offset, ssid) ==
    <<Word, Offset(offset, "ssid"), Length(ssid, "ssid"), Part("pad", 2),
      Part("bssid", ETH_ALEN), Word>>
AddProfileOpen(ssid) ==
    Command(HCI_CMND.ADD_PROFILE, ProfileStart(20, ssid) \o <<Part("ssid", ssid)>>,
            24 + ssid, 4)
\* Mutant: the length of one key is declared.
AddProfileWepOneKey(ssid, key) ==
    Command(HCI_CMND.ADD_PROFILE,
        ProfileStart(32, ssid) \o
          <<Offset(12 + ssid, "keys"), Length(key, "one_key"), Word,
            Part("ssid", ssid), Part("keys", 4 * key)>>,
        36 + ssid + key, 4)

AddProfileWep(ssid, key) ==
    Command(HCI_CMND.ADD_PROFILE,
        ProfileStart(32, ssid) \o
          <<Offset(12 + ssid, "keys"), Length(key, "one_key"), Word,
            Part("ssid", ssid), Part("keys", 4 * key)>>,
        36 + ssid + (key * 4), 4)
AddProfileWpa(ssid, key) ==
    Command(HCI_CMND.ADD_PROFILE,
        ProfileStart(40, ssid) \o Words(3) \o
          <<Offset(8 + ssid, "key"), Length(key, "key"), Part("ssid", ssid),
            Part("key", key)>>,
        44 + ssid + key, 4)

WLAN_SEC == [UNSEC |-> 0, WEP |-> 1, WPA |-> 2, WPA2 |-> 3]
AddProfile(sec, ssid, key) ==
    CASE sec = WLAN_SEC.UNSEC -> AddProfileOpen(ssid)
      [] sec = WLAN_SEC.WEP -> AddProfileWep(ssid, key)
      [] sec \in {WLAN_SEC.WPA, WLAN_SEC.WPA2} -> AddProfileWpa(ssid, key)

\* The key of WEP has up to thirteen characters, a passphrase up to 63.
wlan_add_profile ==
    \E sec \in 0..3, ssid \in SsidLengths :
        \E key \in UpTo(IF sec = WLAN_SEC.WEP THEN 13 ELSE 63) :
            Begin(AddProfile(sec, ssid, key))

wlan_ioctl_del_profile == Begin(Command(HCI_CMND.DEL_PROFILE, Words(1), 4, 4))

\* The array of the caller is one row of fifty bytes.
GetScanResults == Command(HCI_CMND.GET_SCAN_RESULTS, Words(1), 4, 50)
wlan_ioctl_get_scan_results == Begin(GetScanResults)

wlan_ioctl_set_scan_params ==
    Begin(Command(HCI_CMND.SET_SCANPARAM,
        <<Offset(36, "intervals")>> \o Words(8) \o <<Part("intervals", 16 * 4)>>,
        100, 4))

\* A mask without TX_COMPLETE is for the CC3000 alone; TX_COMPLETE alone is for
\* the host alone.
wlan_set_event_mask ==
    \E masked \in BOOLEAN, others \in BOOLEAN :
        /\ pc = "idle"
        /\ inform' = ~masked
        /\ IF masked /\ ~others
           THEN UNCHANGED <<pc, call, wire, waiting>>
           ELSE Fill(Command(HCI_CMND.EVENT_MASK, Words(1), 4, 4))

wlan_ioctl_statusget == Begin(Command(HCI_CMND.STATUSGET, <<>>, 0, 4))

wlan_smart_config_start ==
    Begin(Command(HCI_CMND.SIMPLE_CONFIG_START, Words(1), 4, 4))
wlan_smart_config_stop == Begin(Command(HCI_CMND.SIMPLE_CONFIG_STOP, <<>>, 0, 4))
\* Without a prefix: EFAIL.
wlan_smart_config_set_prefix ==
    \/ Begin(Command(HCI_CMND.SIMPLE_CONFIG_SET_PREFIX, <<Part("TTT", 3)>>, 3, 4))
    \/ Refuse

wlan ==
    \/ wlan_connect \/ wlan_disconnect \/ wlan_ioctl_set_connection_policy
    \/ wlan_add_profile \/ wlan_ioctl_del_profile \/ wlan_ioctl_get_scan_results
    \/ wlan_ioctl_set_scan_params \/ wlan_set_event_mask \/ wlan_ioctl_statusget
    \/ wlan_smart_config_start \/ wlan_smart_config_stop
    \/ wlan_smart_config_set_prefix

-----------------------------------------------------------------------------
(* netapp.c                                                                  *)

netapp_dhcp ==
    Begin(Command(HCI_CMND.DHCP,
        <<Part("IP", 4), Part("mask", 4), Part("gateway", 4), Word, Part("DNS", 4)>>,
        20, 1))
\* The timers are raised to ten seconds in the variables of the caller.
netapp_timeout_values == Begin(Command(HCI_CMND.SET_TIMERS, Words(4), 20, 1))
netapp_ping_send == Begin(Command(HCI_CMND.PING_SEND, Words(4), 16, 1))
netapp_ping_report == Begin(Command(HCI_CMND.PING_REPORT, <<>>, 0, 1))
netapp_ping_stop == Begin(Command(HCI_CMND.PING_STOP, <<>>, 0, 1))
\* tNetappIpconfigRetArgs: five addresses, the MAC and the name of the network.
netapp_ipconfig == Begin(Command(HCI_CMND.IPCONFIG, <<>>, 0, (5 * 4) + 6 + 32))
netapp_arp_flush == Begin(Command(HCI_CMND.ARP_FLUSH, <<>>, 0, 1))
netapp_set_debug_level == Begin(Command(HCI_CMND.SET_DEBUG_LEVEL, Words(1), 4, 1))

netapp ==
    \/ netapp_dhcp \/ netapp_timeout_values \/ netapp_ping_send
    \/ netapp_ping_report \/ netapp_ping_stop \/ netapp_ipconfig
    \/ netapp_arp_flush \/ netapp_set_debug_level

-----------------------------------------------------------------------------
(* nvmem.c                                                                   *)

NvmemRead(len) ==
    Reading(Command(HCI_CMND.NVMEM_READ, Words(3), 12, 1), "always", len)
nvmem_read == \E len \in UpTo(128) : Begin(NvmemRead(len))

\* Mutant: the answer is expected under the opcode that was sent.
NvmemWriteOwnOpcode(len) ==
    DataCommand(HCI_CMND.NVMEM_WRITE,
        <<Word, Offset(12, "data"), Length(len, "data"), Word>>, 16,
        <<Part("data", len)>>, HCI_CMND.NVMEM_WRITE, 4, 0..3)

NvmemWrite(len) ==
    DataCommand(HCI_CMND.NVMEM_WRITE,
        <<Word, Offset(12, "data"), Length(len, "data"), Word>>, 16,
        <<Part("data", len)>>, HCI_EVNT.NVMEM_WRITE, 4, 0..3)
nvmem_write == \E len \in UpTo(128) : Begin(NvmemWrite(len))

MAC_ADDR_LEN == 6
nvmem_set_mac_address == Begin(NvmemWrite(MAC_ADDR_LEN))
nvmem_get_mac_address == Begin(NvmemRead(MAC_ADDR_LEN))

\* The status, two bytes that are ignored, the package and its build.
nvmem_read_sp_version ==
    Begin([Command(HCI_CMND.READ_SP_VERSION, <<>>, 0, 5) EXCEPT !.used = {0, 3, 4}])
nvmem_create_entry == Begin(Command(HCI_CMND.NVMEM_CREATE_ENTRY, Words(2), 8, 1))

nvmem ==
    \/ nvmem_read \/ nvmem_write \/ nvmem_set_mac_address
    \/ nvmem_get_mac_address \/ nvmem_read_sp_version \/ nvmem_create_entry

-----------------------------------------------------------------------------
(* socket.c                                                                  *)

ASIC_ADDR_LEN == 8
HOSTNAME_MAX_LENGTH == 230
MDNS_DEVICE_SERVICE_MAX_LENGTH == 32

Address == <<Word, Offset(8, "addr"), Length(ASIC_ADDR_LEN, "addr"),
             Part("addr", ASIC_ADDR_LEN)>>

socket == Begin(Command(HCI_CMND.SOCKET, Words(3), 12, 4))
closesocket == Begin(Command(HCI_CMND.CLOSE_SOCKET, Words(1), 4, 4))
\* tBsdReturnParams: of the address, the last eight bytes are not looked at, nor
\* is the socket that was asked.
accept == Begin([Command(HCI_CMND.ACCEPT, Words(1), 4, 24) EXCEPT !.used = 4..15])
bind == Begin(Command(HCI_CMND.BIND, Address, 20, 4))
listen == Begin(Command(HCI_CMND.LISTEN, Words(2), 8, 4))
connect == Begin(Command(HCI_CMND.CONNECT, Address, 20, 4))

gethostbyname ==
    \E len \in Lengths :
        IF len > HOSTNAME_MAX_LENGTH THEN Refuse
        ELSE Begin(Command(HCI_CMND.GETHOSTNAME,
                 <<Offset(8, "name"), Length(len, "name"), Part("name", len)>>,
                 9 + len - 1, 8))

\* Without a timeout its two words are not filled in.
select ==
    \E timeout \in {0, 8} :
        Begin(Command(HCI_CMND.BSD_SELECT,
            <<Word, Offset(20, "read"), Offset(20, "write"), Offset(20, "except"),
              Offset(20, "timeout"), Word, Part("read", 4), Part("write", 4),
              Part("except", 4), Part("timeout", timeout)>>, 44, 16))

setsockopt ==
    \E len \in UpTo(32) :
        Begin(Command(HCI_CMND.SETSOCKOPT,
            Words(3) \o <<Offset(8, "option"), Length(len, "option"),
                          Part("option", len)>>, 20 + len, 4))
\* tBsdGetSockOptReturnParams: the option, then the status.
getsockopt == Begin(Command(HCI_CMND.GETSOCKOPT, Words(3), 12, 5))

\* tBsdReadReturnParams: only the number of bytes is used.
SimpleLinkRecv(opcode, len) ==
    Reading([Command(opcode, Words(3), 12, 12) EXCEPT !.used = 4..7], "positive", len)
recv == \E len \in Lengths : Begin(SimpleLinkRecv(HCI_CMND.RECV, len))
recvfrom == \E len \in Lengths : Begin(SimpleLinkRecv(HCI_CMND.RECVFROM, len))

\* simple_link_send, once there is a buffer: nothing of the answer is used.
send ==
    \E len \in Lengths :
        Begin(DataCommand(HCI_CMND.SEND,
            <<Word, Offset(12, "data"), Length(len, "data"), Word>>, 16,
            <<Part("data", len)>>, HCI_EVNT.SEND, 12, {}))
sendto ==
    \E len \in Lengths :
        Begin(DataCommand(HCI_CMND.SENDTO,
            <<Word, Offset(20, "data"), Length(len, "data"), Word,
              Offset(len + 4 + 4, "to"), Length(8, "to")>>, 24,
            <<Part("data", len), Part("to", ASIC_ADDR_LEN)>>, HCI_EVNT.SENDTO, 12, {}))

mdnsAdvertiser ==
    \E len \in Lengths :
        IF len > MDNS_DEVICE_SERVICE_MAX_LENGTH THEN Refuse
        ELSE Begin(Command(HCI_CMND.MDNS_ADVERTISE,
                 <<Word, Offset(8, "name"), Length(len, "name"), Part("name", len)>>,
                 12 + len, 1))
getmssvalue == Begin(Command(HCI_CMND.GETMSSVALUE, Words(1), 4, 2))

sockets ==
    \/ socket \/ closesocket \/ accept \/ bind \/ listen \/ connect
    \/ gethostbyname \/ select \/ setsockopt \/ getsockopt \/ recv \/ recvfrom
    \/ send \/ sendto \/ mdnsAdvertiser \/ getmssvalue

-----------------------------------------------------------------------------
(* The packet on its way                                                     *)

Event(opcode) == [type |-> "EVNT", opcode |-> opcode, length |-> 0]
Data(length) == [type |-> "DATA", opcode |-> 0, length |-> length]
Nothing == [type |-> "none", opcode |-> 0, length |-> 0]

\* Mutant: the magic number is not looked at.
SendUnchecked ==
    /\ pc = "filled"
    /\ pc' = "waits"
    /\ sent' = (call.declared % 256) + call.behind
    /\ usRxEventOpcode' = call.awaits
    /\ UNCHANGED <<call, inform, txMagic, usRxDataPending, received, strays,
                   written, rxMagic>>

\* hci_command_send, hci_data_send and hci_data_command_send, with the check of
\* SpiWrite before the packet leaves, and SimpleLinkWaitEvent.  A command keeps
\* the length of its arguments in one byte.
Send ==
    /\ pc = "filled"
    /\ IF txMagic = "lost"
       THEN pc' = "stopped"
            /\ UNCHANGED <<sent, usRxEventOpcode>>
       ELSE /\ pc' = "waits"
            /\ sent' = (call.declared % 256) + call.behind
            /\ usRxEventOpcode' = call.awaits
    /\ UNCHANGED <<call, inform, txMagic, usRxDataPending, received, strays,
                   written, rxMagic>>

\* The opcode under which the CC3000 answers.
AnswerTo(opcode) ==
    CASE opcode = HCI_CMND.SEND -> HCI_EVNT.SEND
      [] opcode = HCI_CMND.SENDTO -> HCI_EVNT.SENDTO
      [] opcode = HCI_CMND.NVMEM_WRITE -> HCI_EVNT.NVMEM_WRITE
      [] OTHER -> opcode

\* An event in spi_buffer: it is short, so the last byte stays.
Receive(opcode) ==
    /\ pc = "waits" /\ usRxEventOpcode # 0 /\ received = Nothing
    /\ received' = Event(opcode)
    /\ UNCHANGED <<caller, wire, usRxEventOpcode, usRxDataPending, written, rxMagic>>
Answer == Receive(AnswerTo(call.opcode)) /\ UNCHANGED strays

\* A send's own event comes only when it was asked for: every send waits for it.
ASSUME StraysAssumption == Strays \subseteq Nat \ {HCI_EVNT.SEND, HCI_EVNT.SENDTO}

Stray ==
    /\ strays < MaxStrays /\ strays' = strays + 1
    /\ \E opcode \in Strays \ {AnswerTo(call.opcode)} : Receive(opcode)

\* Mutant: an event nobody waits for is taken for the answer.
UnsolicitedKnown(opcode) ==
    opcode \in {HCI_EVNT.FREE_BUFF, HCI_EVNT.KEEPALIVE, HCI_EVNT.UNSOL_CONNECT,
        HCI_EVNT.UNSOL_DISCONNECT, HCI_EVNT.UNSOL_INIT, HCI_EVNT.UNSOL_DHCP,
        HCI_EVNT.PING_REPORT, HCI_EVNT.SIMPLE_CONFIG_DONE, HCI_EVNT.TCP_CLOSE_WAIT}

\* hci_unsol_event_handler: 0x8000 marks what is never an answer, but only the
\* events it knows are dealt with; a dead socket's answer is in HciEvents.
Unsolicited(opcode) ==
    \/ opcode \in {HCI_EVNT.FREE_BUFF, HCI_EVNT.KEEPALIVE, HCI_EVNT.UNSOL_CONNECT,
           HCI_EVNT.UNSOL_DISCONNECT, HCI_EVNT.UNSOL_INIT, HCI_EVNT.UNSOL_DHCP,
           HCI_EVNT.PING_REPORT, HCI_EVNT.SIMPLE_CONFIG_DONE,
           HCI_EVNT.TCP_CLOSE_WAIT}
    \/ /\ opcode < \h8000
       /\ opcode \notin {HCI_EVNT.SEND, HCI_EVNT.SENDTO, HCI_EVNT.WRITE}
       /\ opcode \notin {usRxEventOpcode, HCI_EVNT.PATCHES_REQ}

OneByte == {HCI_CMND.DHCP, HCI_CMND.PING_SEND, HCI_CMND.PING_STOP,
    HCI_CMND.ARP_FLUSH, HCI_CMND.SET_DEBUG_LEVEL, HCI_CMND.SET_TIMERS,
    HCI_CMND.NVMEM_READ, HCI_CMND.NVMEM_CREATE_ENTRY, HCI_CMND.PING_REPORT,
    HCI_CMND.MDNS_ADVERTISE}
OneWord == {HCI_CMND.SETSOCKOPT, HCI_CMND.WLAN_CONNECT, HCI_CMND.STATUSGET,
    HCI_CMND.ADD_PROFILE, HCI_CMND.DEL_PROFILE, HCI_CMND.SET_CONNECTION_POLICY,
    HCI_CMND.SET_SCANPARAM, HCI_CMND.SIMPLE_CONFIG_START,
    HCI_CMND.SIMPLE_CONFIG_STOP, HCI_CMND.SIMPLE_CONFIG_SET_PREFIX,
    HCI_CMND.EVENT_MASK, HCI_CMND.WLAN_DISCONNECT, HCI_CMND.SOCKET, HCI_CMND.BIND,
    HCI_CMND.LISTEN, HCI_CMND.CLOSE_SOCKET, HCI_CMND.CONNECT,
    HCI_EVNT.NVMEM_WRITE}

\* The switch of hci_event_handler: the bytes of *pRetParams it writes.
Written(opcode) ==
    CASE opcode \in OneByte -> {0}
      [] opcode \in OneWord -> 0..3
      [] opcode = HCI_CMND.READ_SP_VERSION -> {0} \union 1..4
      [] opcode \in {HCI_CMND.GETHOSTNAME, HCI_EVNT.SEND, HCI_EVNT.SENDTO} -> 0..7
      [] opcode = HCI_CMND.GETMSSVALUE -> 0..1
      [] opcode \in {HCI_CMND.RECV, HCI_CMND.RECVFROM} -> 0..11
      [] opcode = HCI_CMND.ACCEPT -> 0..(4 + 4 + 16 - 1)
      [] opcode = HCI_CMND.BSD_SELECT -> 0..15
      [] opcode = HCI_CMND.GETSOCKOPT -> {4} \union 0..3
      [] opcode = HCI_CMND.GET_SCAN_RESULTS -> 0..(12 + 38 - 1)
      [] opcode = HCI_CMND.IPCONFIG -> 0..(20 + 6 + 32 - 1)
      [] OTHER -> {}

\* A turn of hci_event_handler with an event.
HandleEvent ==
    /\ pc = "waits" /\ received.type = "EVNT"
    /\ received' = Nothing
    /\ written' = IF Unsolicited(received.opcode) THEN written
                  ELSE written \union Written(received.opcode)
    /\ usRxEventOpcode' =
           IF received.opcode = usRxEventOpcode THEN 0 ELSE usRxEventOpcode
    /\ UNCHANGED <<caller, wire, usRxDataPending, strays, rxMagic>>

Answered == pc = "waits" /\ usRxEventOpcode = 0

\* wlan_start goes on with the size of the CC3000's buffers.
wlan_start ==
    /\ Answered /\ call.opcode = HCI_CMND.SIMPLE_LINK_START
    /\ Fill(ReadBufferSize) /\ UNCHANGED inform

\* recv and recvfrom wait for data when there is some, nvmem_read always.
SimpleLinkWaitData ==
    /\ Answered
    /\ \/ call.data = "always"
       \/ call.data = "positive" /\ UpTo(call.asked) # {0}
    /\ pc' = "waits_for_data" /\ usRxDataPending' = TRUE
    /\ UNCHANGED <<call, inform, wire, usRxEventOpcode, received, strays, written,
                   rxMagic>>

\* How far SpiReadDataCont fills spi_buffer: to an odd number of bytes.
SpiReadDataCont(length) ==
    HEADERS_SIZE_DATA + length
      + (IF (HEADERS_SIZE_DATA + length) % 2 = 0 THEN 1 ELSE 0)

\* The data comes behind the arguments of the packet; SpiTriggerRxProcessing
\* stops, in the interrupt handler, when the last byte of the buffer is lost.
ReceiveData ==
    /\ pc = "waits_for_data" /\ received = Nothing
    /\ \E n \in UpTo(call.asked), args \in ArgSizes :
           /\ call.data = "positive" => n > 0
           /\ received' = Data(args + n)
           /\ rxMagic' \in IF SpiReadDataCont(args + n) > BUFFER_ROOM
                           THEN {"same", "lost"} ELSE {rxMagic}
           /\ pc' = IF rxMagic' = "lost" THEN "stopped" ELSE pc
    /\ UNCHANGED <<call, inform, wire, usRxEventOpcode, usRxDataPending, strays,
                   written>>

\* A turn of hci_event_handler with data.
HandleData ==
    /\ pc = "waits_for_data" /\ received.type = "DATA"
    /\ usRxDataPending' = FALSE
    /\ pc' = "has_data"
    /\ UNCHANGED <<call, inform, wire, usRxEventOpcode, received, strays, written,
                   rxMagic>>

Return ==
    /\ \/ Answered /\ call.data # "always"
             /\ call.opcode # HCI_CMND.SIMPLE_LINK_START
       \/ pc = "has_data"
    /\ pc' = "idle" /\ call' = NoCall
    /\ sent' = 0 /\ received' = Nothing /\ strays' = 0 /\ written' = {}
    /\ UNCHANGED <<inform, txMagic, usRxEventOpcode, usRxDataPending, rxMagic>>

-----------------------------------------------------------------------------
CommandInit ==
    /\ pc = "off" /\ call = NoCall
    /\ inform = TRUE                   \* wlan_init
    /\ txMagic = "magic" /\ rxMagic = "magic"
    /\ sent = 0
    /\ usRxEventOpcode = 0 /\ usRxDataPending = FALSE
    /\ received = Nothing /\ strays = 0 /\ written = {}

\* What the call in progress does, and the CC3000 to it.
Progress ==
    \/ Send \/ Answer \/ HandleEvent \/ wlan_start \/ SimpleLinkWaitData
    \/ ReceiveData \/ HandleData \/ Return

CommandFairness == WF_commandVars(Progress)

-----------------------------------------------------------------------------
(* Properties                                                                *)

CommandTypeOK ==
    /\ pc \in {"off", "idle", "filled", "waits", "waits_for_data", "has_data",
               "stopped"}
    /\ inform \in BOOLEAN /\ usRxDataPending \in BOOLEAN
    /\ {txMagic, rxMagic} \subseteq {"magic", "same", "lost"}
    /\ sent \in Nat /\ strays \in 0..MaxStrays
    /\ written \subseteq 0..57

OnTheWire == pc \in {"waits", "waits_for_data", "has_data"}

\* netapp_timeout_values declares five timers and fills in four, and select
\* without a timeout leaves the two words of the timeout as they are.
Stale(c) ==
    CASE c.opcode = HCI_CMND.SET_TIMERS -> 4
      [] c.opcode = HCI_CMND.BSD_SELECT /\ Last(c.fields).width = 0 -> 8
      [] OTHER -> 0

(***************************************************************************)
(* A packet declares the length of what was filled in: nothing of it is cut   *)
(* off, and nothing of an earlier packet in the buffer goes along with it but  *)
(* the stale bytes of two calls.                                             *)
(***************************************************************************)
ArgumentsWhole == OnTheWire => sent = Width(call.fields) + Stale(call)

\* A field tells the truth about a part that begins so far after it.
Tells(field, part, distance) ==
    /\ part.says = "part"
    /\ part.of = (IF field.of = "one_key" THEN "keys" ELSE field.of)
    /\ IF field.says = "offset" THEN field.n = distance
       ELSE part.width = (IF field.of = "one_key" THEN 4 * field.n ELSE field.n)

Points(fields) ==
    LET end == Ends(fields)
    IN  \A i \in DOMAIN fields : fields[i].says \in {"offset", "length"} =>
          \E j \in DOMAIN fields :
              Tells(fields[i], fields[j], end[j - 1] - end[i - 1])

(***************************************************************************)
(* The CC3000 finds what it looks for: every offset in a packet leads from its *)
(* own place to the beginning of the part it is of, and every length is that   *)
(* of its part (the length of a WEP key is that of one of the four).          *)
(***************************************************************************)
FieldsPoint == OnTheWire => Points(call.fields)

(***************************************************************************)
(* A packet longer than its buffer is noticed at once, by the SpiWrite of the  *)
(* same call or in the interrupt of the packet received, unless it has the      *)
(* magic number where the buffer has it; and nothing shorter stops the        *)
(* program.  A data packet of 120 bytes, which cc3000_common.h:88 allows       *)
(* for, is too long: the byte that makes its length odd goes beyond.          *)
(***************************************************************************)
TooLong(c) == Header(c) + Width(c.fields) > BUFFER_ROOM
StopsWhenTooLong ==
    /\ pc = "stopped" => \/ TooLong(call)
                         \/ received.type = "DATA" /\ received.length >= 120
    /\ OnTheWire /\ TooLong(call) => txMagic = "same"
    /\ pc = "has_data" /\ received.length >= 120 => rxMagic = "same"

(***************************************************************************)
(* The answer goes into the caller's variable and not beyond it, whatever       *)
(* other events came before; when the call goes on, every byte it looks at      *)
(* has been written.                                                        *)
(***************************************************************************)
AnswerFills ==
    /\ OnTheWire => written \subseteq 0..(call.room - 1)
    /\ Answered => call.used \subseteq written

(***************************************************************************)
(* A call that is begun returns, or stops the program for its length: the       *)
(* opcode it waits for is the one under which the CC3000 answers.             *)
(***************************************************************************)
Returns == pc = "filled" ~> pc \in {"idle", "stopped"}
===============================================================================
