------------------------------- MODULE Remote -------------------------------
(***************************************************************************)
(* The application: main.cpp, class CC3000 and CC3000_UsynchCallback.  The    *)
(* main program keeps a connection and a UDP server up and sets the light to  *)
(* the level it receives; the callback, in the interrupt handler, tells it of *)
(* the connection in FLAGS; the watchdog saves the level to the EEPROM and    *)
(* resets the processor, which restores it.                                 *)
(*                                                                         *)
(* A call of the host driver is one step, which may never come: it is the     *)
(* step that returns.  The watchdog has no clock: it times out in a call.     *)
(***************************************************************************)
EXTENDS Integers

CONSTANTS
    Levels,     \* of the light, 1 and more; 0 is "uninitialised"
    Handles,    \* sockets the CC3000 has
    Losses,     \* how often, while it is connected, it may fail to set up a
                \* socket or lose its address
    RmwRace,    \* can an interrupt come between the load and the store of a
                \* read-modify-write of FLAGS?
    MayHang,    \* can a call never return?
    SlowCalls,  \* can a call return after the watchdog timed out?
    HandlerHangs, \* can the INT0 handler never return?
    RecvFails,  \* can recvfrom return an error?
    OddCodes,   \* can socket, setsockopt or bind fail with another code than -1?
    ScanStore,  \* SCAN_STORE_COUNT, 8
    ScanTries,  \* how often runActiveScan asks for a network, 250
    Networks    \* how many the CC3000 may find

ASSUME RemoteAssumption ==
    /\ Levels \subseteq Nat \ {0} /\ Levels # {}
    /\ Handles \in Nat \ {0} /\ Losses \in Nat
    /\ {RmwRace, MayHang, SlowCalls, HandlerHangs, RecvFails, OddCodes}
          \subseteq BOOLEAN
    /\ {ScanStore, ScanTries} \subseteq Nat \ {0} /\ Networks \in Nat

VARIABLES
    pc,         \* of the main program
    loaded,     \* FLAGS as loaded by main
    cmd,        \* what pollUDPReceive returned
    FLAGS,      \* the bits that are set
    udpbuf,     \* the first byte of udpbuf_
    light,      \* light_state, and what the light shows
    eeprom,     \* light_state_eeprom
    wdt,        \* the watchdog: off, or what it does when it times out
    hung,       \* "no", or what never returns: the "call" or the "handler"
    wdrf,       \* was the last reset one of the watchdog?
    before,     \* ghost: the light at the last reset
    commanded,  \* ghost: first byte of the latest datagram
    link,       \* the CC3000 is down, joining, up, or has an address
    open,       \* sockets it has given out
    lost,       \* failures of it since it connected
    server,     \* ghost: what socket_handle_ is: "none", a "socket", "bound"
    attempts,           \* of runActiveScan
    results_returned,   \* networks it keeps
    results_remaining,  \* what the last answer said
    found,      \* networks the CC3000 found in all
    told        \* of which it has given so many

program == <<pc, loaded, cmd, udpbuf>>
board == <<light, eeprom, wdt, hung, wdrf, before, commanded>>
device == <<link, open, lost, server>>
scan == <<attempts, results_returned, results_remaining, found, told>>
vars == <<program, FLAGS, board, device, scan>>

Calls == {"setup", "set_scan_params", "get_scan_results", "policy", "join",
          "display_ip", "socket", "setsockopt", "bind", "recvfrom"}
Returns(call) == pc = call /\ hung = "no"

\* Powered up for the first time or again; udpbuf_ is not initialised.
Init ==
    /\ pc = "boot" /\ loaded = {} /\ cmd = 0 /\ udpbuf \in Levels \union {0}
    /\ FLAGS = {}
    /\ light = 0 /\ eeprom \in Levels \union {0}
    /\ wdt = "off" /\ hung = "no" /\ wdrf = FALSE
    /\ before = 0 /\ commanded = 0
    /\ link = "down" /\ open = 0 /\ lost = 0 /\ server = "none"
    /\ attempts = 0 /\ results_returned = 0 /\ results_remaining = 0
    /\ found = 0 /\ told = 0

-----------------------------------------------------------------------------
(* main                                                                     *)

enableWatchdog == wdt' = "interrupt"

Boot ==
    /\ pc = "boot"
    /\ light' = IF wdrf THEN eeprom ELSE light
    /\ enableWatchdog
    /\ pc' = "setup"
    /\ UNCHANGED <<loaded, cmd, udpbuf, FLAGS, eeprom, hung, wdrf, before,
                   commanded, device, scan>>

\* The constructor of CC3000 (wlan_start, wlan_set_event_mask) and
\* nvmem_get_mac_address.
Setup ==
    /\ Returns("setup")
    /\ pc' = "set_scan_params"
    /\ UNCHANGED <<loaded, cmd, udpbuf, FLAGS, board, device, scan>>

-----------------------------------------------------------------------------
(* CC3000::runActiveScan.  The CC3000 gives one network an answer, after the  *)
(* number of those it has left.  displayActiveScan prints what was kept,      *)
(* which nothing reads any more: the scan is cleared.                        *)

ClearScan ==
    /\ attempts' = 0 /\ results_returned' = 0 /\ results_remaining' = 0
    /\ found' = 0 /\ told' = 0

SetScanParams ==
    /\ Returns("set_scan_params")
    /\ pc' = "scan"
    /\ UNCHANGED <<loaded, cmd, udpbuf, FLAGS, board, device, scan>>

Scanning == /\ results_remaining # 0 \/ results_returned = 0
            /\ attempts < ScanTries

\* Mutant: there is always room for one more.
AskFull ==
    /\ pc = "scan"
    /\ Scanning
    /\ attempts' = attempts + 1
    /\ pc' = "get_scan_results"
    /\ UNCHANGED <<loaded, cmd, udpbuf, FLAGS, board, device,
                   results_returned, results_remaining, found, told>>

\* Mutant: the attempts are not counted.
AskUncounted ==
    /\ pc = "scan"
    /\ Scanning /\ results_returned < ScanStore
    /\ pc' = "get_scan_results"
    /\ UNCHANGED <<loaded, cmd, udpbuf, FLAGS, board, device, scan>>

Ask ==
    /\ pc = "scan"
    /\ Scanning /\ results_returned < ScanStore
    /\ attempts' = attempts + 1
    /\ pc' = "get_scan_results"
    /\ UNCHANGED <<loaded, cmd, udpbuf, FLAGS, board, device,
                   results_returned, results_remaining, found, told>>

GetScanResults ==
    /\ Returns("get_scan_results")
    /\ results_remaining' = found - told
    /\ IF results_remaining' # 0
       THEN results_returned' = results_returned + 1 /\ told' = told + 1
       ELSE UNCHANGED <<results_returned, told>>
    /\ pc' = "scan"
    /\ UNCHANGED <<loaded, cmd, udpbuf, FLAGS, board, device, attempts, found>>

DisplayActiveScan ==
    /\ pc = "scan"
    /\ ~Scanning \/ results_returned >= ScanStore
    /\ pc' = "loop"
    /\ ClearScan
    /\ UNCHANGED <<loaded, cmd, udpbuf, FLAGS, board, device>>

NetworkFound ==
    /\ pc \in {"scan", "get_scan_results"}
    /\ found < Networks
    /\ found' = found + 1
    /\ UNCHANGED <<program, FLAGS, board, device, attempts, results_returned,
                   results_remaining, told>>

runActiveScan == SetScanParams \/ Ask \/ GetScanResults \/ DisplayActiveScan

-----------------------------------------------------------------------------

\* FLAGS is volatile: three reads.
TestConnected ==
    /\ pc = "loop"
    /\ pc' = IF "CONNECTED" \in FLAGS THEN "test_dhcp" ELSE "clear_load"
    /\ UNCHANGED <<loaded, cmd, udpbuf, FLAGS, board, device, scan>>

TestDHCP ==
    /\ pc = "test_dhcp"
    /\ pc' = IF "DHCP" \in FLAGS THEN "test_udp" ELSE "clear_load"
    /\ UNCHANGED <<loaded, cmd, udpbuf, FLAGS, board, device, scan>>

TestUDP ==
    /\ pc = "test_udp"
    /\ \/ "UDP" \in FLAGS /\ pc' = "poll" /\ wdt' = wdt
       \/ "UDP" \notin FLAGS /\ pc' = "socket" /\ wdt' = "off"
    /\ UNCHANGED <<loaded, cmd, udpbuf, FLAGS, light, eeprom, hung, wdrf,
                   before, commanded, device, scan>>

\* FLAGS &= ~(1 << UDP), wdt_disable
LoadFLAGS(at, next) ==
    /\ pc = at
    /\ loaded' = FLAGS
    /\ pc' = next
    /\ UNCHANGED <<cmd, udpbuf, FLAGS, board, device, scan>>

ClearLoad == LoadFLAGS("clear_load", "clear_store")

ClearStore ==
    /\ pc = "clear_store"
    /\ FLAGS' = loaded \ {"UDP"} /\ loaded' = {}
    /\ wdt' = "off"
    /\ pc' = "policy"
    /\ UNCHANGED <<cmd, udpbuf, light, eeprom, hung, wdrf, before, commanded,
                   device, scan>>

-----------------------------------------------------------------------------
(* CC3000::connect                                                          *)

SetPolicy ==
    /\ Returns("policy")
    /\ pc' = "join"
    /\ UNCHANGED <<loaded, cmd, udpbuf, FLAGS, board, device, scan>>

WlanConnect ==
    /\ Returns("join")
    /\ link' = IF link = "down" THEN "joining" ELSE link
    /\ pc' = "await_connected"
    /\ UNCHANGED <<loaded, cmd, udpbuf, FLAGS, board, open, lost, server, scan>>

\* The flag is seen, or the counter runs out and it is tested once more: the
\* same choice, except for what the callback does in between.
AwaitConnected ==
    /\ pc = "await_connected"
    /\ pc' = "test_connected"
    /\ UNCHANGED <<loaded, cmd, udpbuf, FLAGS, board, device, scan>>

Connected ==
    /\ pc = "test_connected"
    /\ IF "CONNECTED" \in FLAGS
       THEN pc' = "await_dhcp" /\ wdt' = wdt
       ELSE pc' = "loop" /\ enableWatchdog
    /\ UNCHANGED <<loaded, cmd, udpbuf, FLAGS, light, eeprom, hung, wdrf,
                   before, commanded, device, scan>>

AwaitDHCP ==
    /\ pc = "await_dhcp"
    /\ IF "DHCP" \in FLAGS
       THEN pc' = "display_ip" /\ wdt' = wdt
       ELSE pc' = "loop" /\ enableWatchdog
    /\ UNCHANGED <<loaded, cmd, udpbuf, FLAGS, light, eeprom, hung, wdrf,
                   before, commanded, device, scan>>

DisplayIP ==
    /\ Returns("display_ip")
    /\ enableWatchdog
    /\ pc' = "loop"
    /\ UNCHANGED <<loaded, cmd, udpbuf, FLAGS, light, eeprom, hung, wdrf,
                   before, commanded, device, scan>>

-----------------------------------------------------------------------------
(* CC3000::initUDPServer: a socket that cannot be set up is not closed, nor  *)
(* is the one it replaces.  Of the codes of a failure only -1 is taken for    *)
(* one.                                                                     *)

Up == link \in {"up", "address"}

GiveUp ==
    /\ enableWatchdog
    /\ pc' = "loop" /\ server' = "none"
    /\ UNCHANGED <<loaded, cmd, udpbuf, FLAGS, light, eeprom, hung, wdrf,
                   before, commanded, link, open, scan>>

TakenForSuccess(next) ==
    /\ OddCodes
    /\ pc' = next
    /\ UNCHANGED <<loaded, cmd, udpbuf, FLAGS, board, link, open, server, scan>>

Socket ==
    /\ Returns("socket")
    /\ open < Handles
    /\ open' = open + 1 /\ server' = "socket"
    /\ pc' = "setsockopt"
    /\ UNCHANGED <<loaded, cmd, udpbuf, FLAGS, board, link, lost, scan>>

\* Main only comes here when UDP is not set: there is no server.
SocketFails ==
    /\ Returns("socket")
    /\ open = Handles
    /\ lost' = lost
    /\ GiveUp \/ TakenForSuccess("setsockopt")

SetSockOpt ==
    /\ Returns("setsockopt")
    /\ pc' = "bind"
    /\ UNCHANGED <<loaded, cmd, udpbuf, FLAGS, board, device, scan>>

Bind ==
    /\ Returns("bind")
    /\ server' = IF server = "socket" THEN "bound" ELSE server
    /\ pc' = "udp_load"
    /\ UNCHANGED <<loaded, cmd, udpbuf, FLAGS, board, link, open, lost, scan>>

\* Without a connection, or without a socket, any call on it may fail.
SetUpFails ==
    /\ IF Up /\ server # "none" THEN lost < Losses /\ lost' = lost + 1
                                ELSE lost' = lost
    /\ \/ Returns("setsockopt") /\ (GiveUp \/ TakenForSuccess("bind"))
       \/ Returns("bind") /\ (GiveUp \/ TakenForSuccess("udp_load"))

UDPLoad == LoadFLAGS("udp_load", "udp_store")

\* Mutant: the flag is not set.
UDPStoreForgotten ==
    /\ pc = "udp_store"
    /\ FLAGS' = loaded /\ loaded' = {}
    /\ enableWatchdog
    /\ pc' = "loop"
    /\ UNCHANGED <<cmd, udpbuf, light, eeprom, hung, wdrf, before, commanded,
                   device, scan>>

UDPStore ==
    /\ pc = "udp_store"
    /\ FLAGS' = loaded \union {"UDP"} /\ loaded' = {}
    /\ enableWatchdog
    /\ pc' = "loop"
    /\ UNCHANGED <<cmd, udpbuf, light, eeprom, hung, wdrf, before, commanded,
                   device, scan>>

-----------------------------------------------------------------------------
(* CC3000::pollUDPReceive and updateLight                                   *)

\* Only main clears UDP: the flag is still set.
Poll ==
    /\ pc = "poll"
    /\ pc' = "recvfrom"
    /\ UNCHANGED <<loaded, cmd, udpbuf, FLAGS, board, device, scan>>

\* Mutant: the count is not looked at.
NothingReceivedReturned ==
    /\ Returns("recvfrom")
    /\ cmd' = udpbuf
    /\ pc' = "update"
    /\ UNCHANGED <<loaded, udpbuf, FLAGS, board, device, scan>>

NothingReceived ==
    /\ Returns("recvfrom")
    /\ pc' = "loop"
    /\ UNCHANGED <<loaded, cmd, udpbuf, FLAGS, board, device, scan>>

Datagram(byte) ==
    /\ Returns("recvfrom")
    /\ server = "bound"
    /\ udpbuf' = byte /\ cmd' = byte /\ commanded' = byte
    /\ pc' = "update"
    /\ UNCHANGED <<loaded, FLAGS, light, eeprom, wdt, hung, wdrf, before,
                   device, scan>>

\* A negative count is not 0 either.
RecvError ==
    /\ RecvFails
    /\ Returns("recvfrom")
    /\ cmd' = udpbuf
    /\ pc' = "update"
    /\ UNCHANGED <<loaded, udpbuf, FLAGS, board, device, scan>>

\* Mutant: OCR0A = target_state - 1 done the other way round.
updateLightOff ==
    /\ pc = "update"
    /\ light' = IF cmd # 0 THEN cmd + 1 ELSE light
    /\ cmd' = 0
    /\ pc' = "loop"
    /\ UNCHANGED <<loaded, udpbuf, FLAGS, eeprom, wdt, hung, wdrf, before,
                   commanded, device, scan>>

updateLight ==
    /\ pc = "update"
    /\ light' = IF cmd # 0 THEN cmd ELSE light
    /\ cmd' = 0
    /\ pc' = "loop"
    /\ UNCHANGED <<loaded, udpbuf, FLAGS, eeprom, wdt, hung, wdrf, before,
                   commanded, device, scan>>

-----------------------------------------------------------------------------
(* CC3000_UsynchCallback.  SHUTDOWN_OK, which is set and only ever printed,   *)
(* is left out.                                                             *)

Interruptible == /\ pc \notin {"clear_store", "udp_store"} \/ RmwRace
                 /\ hung # "handler"

UnsolConnect ==
    /\ Interruptible
    /\ link = "joining"
    /\ link' = "up"
    /\ FLAGS' = FLAGS \union {"CONNECTED"}
    /\ UNCHANGED <<program, board, open, lost, server, scan>>

\* Mutant: the callback does nothing.
UnsolDisconnectUnseen ==
    /\ Interruptible
    /\ Up
    /\ link' = "down" /\ open' = 0 /\ lost' = 0 /\ server' = "none"
    /\ UNCHANGED <<FLAGS, program, board, scan>>

\* The sockets go with the connection.
UnsolDisconnect ==
    /\ Interruptible
    /\ Up
    /\ link' = "down" /\ open' = 0 /\ lost' = 0 /\ server' = "none"
    /\ FLAGS' = FLAGS \ {"CONNECTED", "DHCP"}
    /\ UNCHANGED <<program, board, scan>>

UnsolDHCP ==
    /\ Interruptible
    /\ link = "up"
    /\ link' = "address"
    /\ FLAGS' = FLAGS \union {"DHCP"}
    /\ UNCHANGED <<program, board, open, lost, server, scan>>

UnsolNoDHCP ==
    /\ Interruptible
    /\ Up /\ lost < Losses
    /\ link' = "up" /\ lost' = lost + 1
    /\ FLAGS' = FLAGS \ {"DHCP"}
    /\ UNCHANGED <<program, board, open, server, scan>>

-----------------------------------------------------------------------------
(* The watchdog: WDIE, set by enableWatchdog, is cleared by the interrupt.   *)

Hang ==
    /\ MayHang
    /\ Returns(pc) /\ pc \in Calls
    /\ hung' = "call"
    /\ UNCHANGED <<program, FLAGS, light, eeprom, wdt, wdrf, before, commanded,
                   device, scan>>

\* SpiTriggerRxProcessing finds its magic number overwritten; INT0 is enabled
\* by wlan_start.
HandlerHang ==
    /\ HandlerHangs
    /\ Interruptible /\ pc # "boot"
    /\ hung' = "handler"
    /\ UNCHANGED <<program, FLAGS, light, eeprom, wdt, wdrf, before, commanded,
                   device, scan>>

TimesOut == \/ pc \in Calls /\ (hung = "call" \/ SlowCalls)
            \/ hung = "handler"

\* Mutant: the level is not saved.
WDT_vectUnsaved ==
    /\ TimesOut /\ hung # "handler"
    /\ wdt = "interrupt"
    /\ wdt' = "reset"
    /\ UNCHANGED <<program, FLAGS, light, eeprom, hung, wdrf, before,
                   commanded, device, scan>>

\* Mutant: the interrupt enables itself again.
WDT_vectRearmed ==
    /\ TimesOut /\ hung # "handler"
    /\ wdt = "interrupt"
    /\ eeprom' = light
    /\ UNCHANGED <<program, FLAGS, light, wdt, hung, wdrf, before, commanded,
                   device, scan>>

\* Interrupts are disabled in the INT0 handler.
WDT_vect ==
    /\ TimesOut /\ hung # "handler"
    /\ wdt = "interrupt"
    /\ eeprom' = light
    /\ wdt' = "reset"
    /\ UNCHANGED <<program, FLAGS, light, hung, wdrf, before, commanded,
                   device, scan>>

\* When the interrupt cannot run, the processor may or may not be reset without
\* it.  wlan_start will switch the CC3000 off and on.
WatchdogReset ==
    /\ TimesOut
    /\ wdt = "reset" \/ (wdt = "interrupt" /\ hung = "handler")
    /\ before' = light /\ wdrf' = TRUE
    /\ pc' = "boot" /\ loaded' = {} /\ cmd' = 0
    /\ udpbuf' \in Levels \union {0}
    /\ FLAGS' = {} /\ light' = 0 /\ wdt' = "off" /\ hung' = "no"
    /\ commanded' = 0
    /\ link' = "down" /\ open' = 0 /\ lost' = 0 /\ server' = "none"
    /\ ClearScan
    /\ eeprom' = eeprom

-----------------------------------------------------------------------------
connect == SetPolicy \/ WlanConnect \/ AwaitConnected \/ Connected
           \/ AwaitDHCP \/ DisplayIP
initUDPServer == Socket \/ SocketFails \/ SetSockOpt \/ Bind \/ SetUpFails
                 \/ UDPLoad \/ UDPStore
pollUDPReceive == Poll \/ NothingReceived \/ RecvError
                  \/ \E byte \in Levels \union {0} : Datagram(byte)

Main == /\ hung # "handler"
        /\ \/ Boot \/ Setup \/ runActiveScan
           \/ TestConnected \/ TestDHCP \/ TestUDP \/ ClearLoad \/ ClearStore
           \/ connect \/ initUDPServer \/ pollUDPReceive \/ updateLight

CC3000_UsynchCallback == UnsolConnect \/ UnsolDisconnect \/ UnsolDHCP
                         \/ UnsolNoDHCP

Watchdog == WDT_vect \/ WatchdogReset

Next == Main \/ NetworkFound \/ CC3000_UsynchCallback \/ Hang \/ HandlerHang
        \/ Watchdog

\* Main runs, a call that does not hang returns, and the watchdog counts.
Fairness == WF_vars(Main) /\ WF_vars(Watchdog /\ hung = "call")

Safety == Init /\ [][Next]_vars
Spec == Safety /\ Fairness

-----------------------------------------------------------------------------
(* Properties                                                               *)

\* The variables keep their types.
TypeOK ==
    /\ pc \in Calls \union {"boot", "loop", "test_dhcp", "test_udp",
              "clear_load", "clear_store", "await_connected",
              "scan", "test_connected", "await_dhcp", "udp_load", "udp_store",
              "poll", "update"}
    /\ FLAGS \union loaded \subseteq {"CONNECTED", "DHCP", "UDP"}
    /\ {cmd, udpbuf, light, eeprom, before, commanded}
         \subseteq Levels \union {0}
    /\ wdt \in {"off", "interrupt", "reset"}
    /\ hung \in {"no", "call", "handler"} /\ wdrf \in BOOLEAN
    /\ link \in {"down", "joining", "up", "address"}
    /\ open \in 0..Handles /\ lost \in 0..Losses
    /\ server \in {"none", "socket", "bound"}
    /\ attempts \in 0..ScanTries
    /\ {results_returned, results_remaining, found, told} \subseteq 0..Networks

\* FLAGS says of the connection what the CC3000 last said of it, whatever main
\* is doing to its own bit of it.
FlagsTrue ==
    /\ "CONNECTED" \in FLAGS <=> Up
    /\ "DHCP" \in FLAGS <=> link = "address"

\* "If not connected, UDP server cannot be ready": a connection that is lost
\* is noticed, and the server is not taken for ready for ever.
LossNoticed ==
    link = "down" ~> (link # "down" \/ "UDP" \notin FLAGS \/ hung # "no")

\* While the connection lasts, the UDP server comes up, after fewer failures
\* than the CC3000 has sockets.
ServerComesUp ==
    link = "address" ~>
        (link # "address" \/ ("UDP" \in FLAGS /\ server = "bound") \/ hung # "no")

\* The scan neither writes past the networks it can keep nor loses one it was
\* given, whatever the CC3000 finds meanwhile.
ScanFits == /\ pc = "get_scan_results" => results_returned < ScanStore
            /\ told <= results_returned

\* The scan ends, whether the CC3000 finds nothing, a few or more and more.
ScanEnds == pc = "set_scan_params" ~> (pc = "loop" \/ hung # "no")

\* The light only changes to a level that was received, or at a restart.
LightCommanded ==
    [][light' # light => light' = commanded \/ pc = "boot" \/ pc' = "boot"]_vars

\* After a watchdog reset the light is restored to its previous state.
RestoresPrevious == [][Boot /\ wdrf => light' = before]_vars

\* A call that hangs while the watchdog is enabled ends in a restart, unless the
\* INT0 handler hangs as well, which keeps the watchdog's interrupt from running.
HangIsReset ==
    hung = "call" /\ wdt # "off" ~> (pc = "boot" \/ hung = "handler")

=============================================================================
