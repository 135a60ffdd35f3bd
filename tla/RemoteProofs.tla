---------------------------- MODULE RemoteProofs ----------------------------
(***************************************************************************)
(* Remote: FLAGS is true of the connection when its read-modify-writes are   *)
(* not interrupted, a watchdog reset restores the light when no call         *)
(* outlasts the watchdog and returns and the handler does not hang, the light *)
(* shows what was commanded when recvfrom does not fail, and the scan fits in  *)
(* its rows.                                                                *)
(***************************************************************************)
EXTENDS Remote, TLAPS

\* What main has loaded is still what FLAGS is when it stores it, except for
\* its own bit.
FlagsInv ==
    /\ FlagsTrue
    /\ pc \in {"clear_store", "udp_store"} => loaded = FLAGS

\* FLAGS starts out empty with the CC3000 down, and every step keeps the bits
\* of the callback in step with what the CC3000 said.
LEMMA FlagsInvInductive ==
    ASSUME ~RmwRace
    PROVE  /\ Init => FlagsInv
           /\ FlagsInv /\ [Next]_vars => FlagsInv'
<1>1. Init => FlagsInv
  BY DEF Init, FlagsInv, FlagsTrue, Up
<1>2. ASSUME FlagsInv, [Next]_vars PROVE FlagsInv'
  <2> USE FlagsInv DEF FlagsInv, FlagsTrue, Up
  <2> USE DEF program, board, device, scan, Returns, enableWatchdog
  <2>0. CASE runActiveScan \/ NetworkFound
    BY <2>0 DEF runActiveScan, SetScanParams, Ask, GetScanResults,
                DisplayActiveScan, NetworkFound
  <2>1. CASE Boot \/ Setup \/ TestConnected \/ TestDHCP \/ TestUDP
    BY <2>1 DEF Boot, Setup, TestConnected, TestDHCP, TestUDP
  <2>2. CASE ClearLoad \/ ClearStore
    BY <2>2 DEF ClearLoad, ClearStore, LoadFLAGS
  <2>3. CASE SetPolicy \/ AwaitConnected \/ Connected \/ AwaitDHCP \/ DisplayIP
    BY <2>3 DEF SetPolicy, AwaitConnected, Connected, AwaitDHCP, DisplayIP
  <2>4. CASE WlanConnect
    BY <2>4 DEF WlanConnect
  <2>5. CASE Socket \/ SocketFails \/ SetSockOpt \/ Bind \/ SetUpFails
    BY <2>5 DEF Socket, SocketFails, SetSockOpt, Bind, SetUpFails, GiveUp,
                TakenForSuccess
  <2>6. CASE UDPLoad \/ UDPStore
    BY <2>6 DEF UDPLoad, UDPStore, LoadFLAGS
  <2>7. CASE pollUDPReceive
    BY <2>7 DEF pollUDPReceive, Poll, NothingReceived, RecvError, Datagram
  <2>8. CASE updateLight
    BY <2>8 DEF updateLight
  <2>9. CASE UnsolConnect
    BY <2>9, ~RmwRace DEF UnsolConnect, Interruptible
  <2>10. CASE UnsolDisconnect
    BY <2>10, ~RmwRace DEF UnsolDisconnect, Interruptible
  <2>11. CASE UnsolDHCP
    BY <2>11, ~RmwRace DEF UnsolDHCP, Interruptible
  <2>12. CASE UnsolNoDHCP
    BY <2>12, ~RmwRace DEF UnsolNoDHCP, Interruptible
  <2>13. CASE Hang \/ HandlerHang \/ WDT_vect
    BY <2>13, ~RmwRace DEF Hang, HandlerHang, WDT_vect
  <2>14. CASE WatchdogReset
    BY <2>14 DEF WatchdogReset
  <2>15. CASE UNCHANGED vars
    BY <2>15 DEF vars
  <2> QED
    BY <1>2, <2>0, <2>1, <2>2, <2>3, <2>4, <2>5, <2>6, <2>7, <2>8, <2>9, <2>10,
       <2>11, <2>12, <2>13, <2>14, <2>15
       DEF Next, Main, connect, initUDPServer, CC3000_UsynchCallback, Watchdog
<1> QED
  BY <1>1, <1>2

\* When no interrupt comes between the load and the store of a
\* read-modify-write, FLAGS says of the connection what the CC3000 last said.
THEOREM FlagsTrueHolds ==
    ASSUME ~RmwRace
    PROVE  Safety => []FlagsTrue
<1>1. FlagsInv => FlagsTrue
  BY DEF FlagsInv
<1> QED
  BY <1>1, FlagsInvInductive, PTL DEF Safety

-----------------------------------------------------------------------------
\* Between the interrupt of the watchdog and the reset the EEPROM holds the
\* level of the light, because main does not run; after the reset it holds the
\* level of before.
RestoreInv ==
    /\ wdt = "reset" => hung = "call" /\ eeprom = light
    /\ hung = "call" => pc \in Calls
    /\ hung # "handler"
    /\ pc = "boot" /\ wdrf => eeprom = before

\* The watchdog takes the level along, and no other step comes in between.
LEMMA RestoreInvInductive ==
    ASSUME ~SlowCalls, ~HandlerHangs
    PROVE  /\ Init => RestoreInv
           /\ RestoreInv /\ [Next]_vars => RestoreInv'
<1>1. Init => RestoreInv
  BY DEF Init, RestoreInv
<1>2. ASSUME RestoreInv, [Next]_vars PROVE RestoreInv'
  <2> USE RestoreInv DEF RestoreInv, Calls
  <2> USE DEF program, board, device, scan, Returns, enableWatchdog
  <2>0. CASE runActiveScan \/ NetworkFound
    BY <2>0 DEF runActiveScan, SetScanParams, Ask, GetScanResults,
                DisplayActiveScan, NetworkFound
  <2>1. CASE Boot \/ Setup \/ TestConnected \/ TestDHCP \/ TestUDP
    BY <2>1 DEF Boot, Setup, TestConnected, TestDHCP, TestUDP
  <2>2. CASE ClearLoad \/ ClearStore
    BY <2>2 DEF ClearLoad, ClearStore, LoadFLAGS
  <2>3. CASE connect
    BY <2>3 DEF connect, SetPolicy, WlanConnect, AwaitConnected, Connected,
                AwaitDHCP, DisplayIP
  <2>4. CASE Socket \/ SocketFails \/ SetSockOpt \/ Bind \/ SetUpFails
    BY <2>4 DEF Socket, SocketFails, SetSockOpt, Bind, SetUpFails, GiveUp,
                TakenForSuccess
  <2>5. CASE UDPLoad \/ UDPStore
    BY <2>5 DEF UDPLoad, UDPStore, LoadFLAGS
  <2>6. CASE pollUDPReceive
    BY <2>6 DEF pollUDPReceive, Poll, NothingReceived, RecvError, Datagram
  <2>7. CASE updateLight
    BY <2>7 DEF updateLight
  <2>8. CASE CC3000_UsynchCallback
    BY <2>8 DEF CC3000_UsynchCallback, UnsolConnect, UnsolDisconnect,
                UnsolDHCP, UnsolNoDHCP
  <2>9. CASE Hang \/ HandlerHang
    BY <2>9, ~HandlerHangs DEF Hang, HandlerHang
  <2>10. CASE WDT_vect
    BY <2>10, ~SlowCalls DEF WDT_vect, TimesOut
  <2>11. CASE WatchdogReset
    BY <2>11 DEF WatchdogReset, TimesOut
  <2>12. CASE UNCHANGED vars
    BY <2>12 DEF vars
  <2> QED
    BY <1>2, <2>0, <2>1, <2>2, <2>3, <2>4, <2>5, <2>6, <2>7, <2>8, <2>9, <2>10,
       <2>11, <2>12
       DEF Next, Main, initUDPServer, Watchdog
<1> QED
  BY <1>1, <1>2

\* When a call either returns before the watchdog times out or never, and the
\* INT0 handler always returns, the level restored after a watchdog reset is the
\* level of before.
THEOREM RestoresPreviousHolds ==
    ASSUME ~SlowCalls, ~HandlerHangs
    PROVE  Safety => RestoresPrevious
<1>1. RestoreInv /\ [Next]_vars => [Boot /\ wdrf => light' = before]_vars
  BY DEF RestoreInv, Boot
<1> QED
  BY <1>1, RestoreInvInductive, PTL DEF Safety, RestoresPrevious

-----------------------------------------------------------------------------
\* What the scan keeps is what it was given, of what the CC3000 has found, and
\* it asks for no more than it has room for.
ScanInv ==
    /\ TypeOK
    /\ told = results_returned
    /\ told <= found
    /\ results_returned <= ScanStore
    /\ pc = "get_scan_results" => results_returned < ScanStore

\* The types and the bounds of the scan are kept by every step.
LEMMA ScanInvInductive ==
    /\ Init => ScanInv
    /\ ScanInv /\ [Next]_vars => ScanInv'
<1>0. /\ Handles \in Nat /\ Losses \in Nat /\ Networks \in Nat
      /\ ScanStore \in Nat /\ ScanStore > 0 /\ ScanTries \in Nat
  BY RemoteAssumption DEF RemoteAssumption
<1> USE <1>0
<1>1. Init => ScanInv
  <2> SUFFICES ASSUME Init PROVE ScanInv
    OBVIOUS
  <2>1. FLAGS \union loaded \subseteq {"CONNECTED", "DHCP", "UDP"}
    BY DEF Init
  <2>2. {cmd, udpbuf, light, eeprom, before, commanded}
          \subseteq Levels \union {0}
    BY DEF Init
  <2>3. {results_returned, results_remaining, found, told} \subseteq 0..Networks
    BY DEF Init
  <2>4. /\ pc \in {"boot"} /\ wdt \in {"off"} /\ link \in {"down"}
        /\ hung \in {"no"} /\ wdrf \in BOOLEAN /\ server \in {"none"}
    BY DEF Init
  <2>5. open \in 0..Handles /\ lost \in 0..Losses /\ attempts \in 0..ScanTries
    BY DEF Init
  <2>6. TypeOK
    BY <2>1, <2>2, <2>3, <2>4, <2>5 DEF TypeOK
  <2> QED
    BY <2>6 DEF Init, ScanInv
<1>2. ASSUME ScanInv, [Next]_vars PROVE ScanInv'
  <2> USE ScanInv DEF ScanInv, TypeOK
  <2> USE DEF program, board, device, scan, Calls, Returns, enableWatchdog
  <2>0. CASE runActiveScan \/ NetworkFound
    <3>1. CASE SetScanParams
      BY <3>1 DEF SetScanParams
    <3>2. CASE Ask
      BY <3>2 DEF Ask, Scanning
    <3>3. CASE GetScanResults
      BY <3>3 DEF GetScanResults
    <3>4. CASE DisplayActiveScan
      BY <3>4 DEF DisplayActiveScan, ClearScan
    <3>5. CASE NetworkFound
      BY <3>5 DEF NetworkFound
    <3> QED
      BY <2>0, <3>1, <3>2, <3>3, <3>4, <3>5 DEF runActiveScan
  <2>1. CASE Boot \/ Setup \/ TestConnected \/ TestDHCP \/ TestUDP
    BY <2>1 DEF Boot, Setup, TestConnected, TestDHCP, TestUDP
  <2>2. CASE ClearLoad \/ ClearStore
    BY <2>2 DEF ClearLoad, ClearStore, LoadFLAGS
  <2>3. CASE connect
    BY <2>3 DEF connect, SetPolicy, WlanConnect, AwaitConnected, Connected,
                AwaitDHCP, DisplayIP
  <2>4. CASE Socket \/ SocketFails \/ SetSockOpt \/ Bind \/ SetUpFails
    BY <2>4 DEF Socket, SocketFails, SetSockOpt, Bind, SetUpFails, GiveUp,
                TakenForSuccess
  <2>5. CASE UDPLoad \/ UDPStore
    BY <2>5 DEF UDPLoad, UDPStore, LoadFLAGS
  <2>6. CASE pollUDPReceive
    BY <2>6 DEF pollUDPReceive, Poll, NothingReceived, RecvError, Datagram
  <2>7. CASE updateLight
    BY <2>7 DEF updateLight
  <2>8. CASE CC3000_UsynchCallback
    BY <2>8 DEF CC3000_UsynchCallback, UnsolConnect, UnsolDisconnect,
                UnsolDHCP, UnsolNoDHCP
  <2>9. CASE Hang \/ HandlerHang
    BY <2>9 DEF Hang, HandlerHang
  <2>10. CASE WDT_vect
    BY <2>10 DEF WDT_vect
  <2>11. CASE WatchdogReset
    <3>1. (FLAGS \union loaded)' \subseteq {"CONNECTED", "DHCP", "UDP"}
      BY <2>11 DEF WatchdogReset
    <3>2. {cmd, udpbuf, light, eeprom, before, commanded}'
            \subseteq Levels \union {0}
      BY <2>11 DEF WatchdogReset
    <3>3. {results_returned, results_remaining, found, told}'
            \subseteq 0..Networks
      BY <2>11 DEF WatchdogReset, ClearScan
    <3>4. /\ pc' \in {"boot"} /\ wdt' \in {"off"} /\ link' \in {"down"}
          /\ hung' \in {"no"} /\ wdrf' \in BOOLEAN /\ server' \in {"none"}
      BY <2>11 DEF WatchdogReset
    <3>5. /\ open' \in 0..Handles /\ lost' \in 0..Losses
          /\ attempts' \in 0..ScanTries
      BY <2>11 DEF WatchdogReset, ClearScan
    <3>6. TypeOK'
      BY <3>1, <3>2, <3>3, <3>4, <3>5 DEF TypeOK
    <3> QED
      BY <2>11, <3>6 DEF WatchdogReset, ClearScan
  <2>12. CASE UNCHANGED vars
    BY <2>12 DEF vars
  <2> QED
    BY <1>2, <2>0, <2>1, <2>2, <2>3, <2>4, <2>5, <2>6, <2>7, <2>8, <2>9,
       <2>10, <2>11, <2>12
       DEF Next, Main, initUDPServer, Watchdog
<1> QED
  BY <1>1, <1>2

\* The variables of the application keep their types, for any set of levels,
\* any number of sockets, networks and attempts.
THEOREM TypeOKHolds == Safety => []TypeOK
<1>1. ScanInv => TypeOK
  BY DEF ScanInv
<1> QED
  BY <1>1, ScanInvInductive, PTL DEF Safety

\* runActiveScan never passes wlan_ioctl_get_scan_results a row beyond the end
\* of result_, and never overwrites a network, for any size of result_.
THEOREM ScanFitsHolds == Safety => []ScanFits
<1>1. ScanInv => ScanFits
  BY RemoteAssumption DEF RemoteAssumption, ScanInv, TypeOK, ScanFits
<1> QED
  BY <1>1, ScanInvInductive, PTL DEF Safety

-----------------------------------------------------------------------------
\* What updateLight is given is the latest datagram.
LightInv == pc = "update" => cmd = commanded

\* Only a datagram brings main to updateLight, when recvfrom does not fail.
LEMMA LightInvInductive ==
    ASSUME ~RecvFails
    PROVE  /\ Init => LightInv
           /\ LightInv /\ [Next]_vars => LightInv'
<1>1. Init => LightInv
  BY DEF Init, LightInv
<1>2. ASSUME LightInv, [Next]_vars PROVE LightInv'
  <2> USE LightInv DEF LightInv
  <2> USE DEF program, board, device, scan, Returns, enableWatchdog
  <2>0. CASE runActiveScan \/ NetworkFound
    BY <2>0 DEF runActiveScan, SetScanParams, Ask, GetScanResults,
                DisplayActiveScan, NetworkFound
  <2>1. CASE Boot \/ Setup \/ TestConnected \/ TestDHCP \/ TestUDP
    BY <2>1 DEF Boot, Setup, TestConnected, TestDHCP, TestUDP
  <2>2. CASE ClearLoad \/ ClearStore
    BY <2>2 DEF ClearLoad, ClearStore, LoadFLAGS
  <2>3. CASE connect
    BY <2>3 DEF connect, SetPolicy, WlanConnect, AwaitConnected, Connected,
                AwaitDHCP, DisplayIP
  <2>4. CASE Socket \/ SocketFails \/ SetSockOpt \/ Bind \/ SetUpFails
    BY <2>4 DEF Socket, SocketFails, SetSockOpt, Bind, SetUpFails, GiveUp,
                TakenForSuccess
  <2>5. CASE UDPLoad \/ UDPStore
    BY <2>5 DEF UDPLoad, UDPStore, LoadFLAGS
  <2>6. CASE pollUDPReceive
    BY <2>6, ~RecvFails
       DEF pollUDPReceive, Poll, NothingReceived, RecvError, Datagram
  <2>7. CASE updateLight
    BY <2>7 DEF updateLight
  <2>8. CASE CC3000_UsynchCallback
    BY <2>8 DEF CC3000_UsynchCallback, UnsolConnect, UnsolDisconnect,
                UnsolDHCP, UnsolNoDHCP
  <2>9. CASE Hang \/ HandlerHang \/ Watchdog
    BY <2>9 DEF Hang, HandlerHang, Watchdog, WDT_vect, WatchdogReset
  <2>10. CASE UNCHANGED vars
    BY <2>10 DEF vars
  <2> QED
    BY <1>2, <2>0, <2>1, <2>2, <2>3, <2>4, <2>5, <2>6, <2>7, <2>8, <2>9, <2>10
       DEF Next, Main, initUDPServer
<1> QED
  BY <1>1, <1>2

\* The only steps that set the light are those of main that restore it and
\* that obey, and the reset that puts it out.
LEMMA LightStep ==
    ASSUME LightInv, [Next]_vars
    PROVE  light' # light => light' = commanded \/ pc = "boot" \/ pc' = "boot"
<1> USE DEF LightInv, program, board, device, scan, Returns, enableWatchdog
<1>1. CASE Boot \/ updateLight \/ WatchdogReset
  BY <1>1 DEF Boot, updateLight, WatchdogReset
<1>2. CASE runActiveScan \/ NetworkFound \/ Setup
  BY <1>2 DEF runActiveScan, SetScanParams, Ask, GetScanResults,
              DisplayActiveScan, NetworkFound, Setup
<1>3. CASE TestConnected \/ TestDHCP \/ TestUDP \/ ClearLoad \/ ClearStore
  BY <1>3 DEF TestConnected, TestDHCP, TestUDP, ClearLoad, ClearStore, LoadFLAGS
<1>4. CASE connect
  BY <1>4 DEF connect, SetPolicy, WlanConnect, AwaitConnected, Connected,
              AwaitDHCP, DisplayIP
<1>5. CASE initUDPServer
  BY <1>5 DEF initUDPServer, Socket, SocketFails, SetSockOpt, Bind, SetUpFails,
              GiveUp, TakenForSuccess, UDPLoad, UDPStore, LoadFLAGS
<1>6. CASE pollUDPReceive
  BY <1>6 DEF pollUDPReceive, Poll, NothingReceived, RecvError, Datagram
<1>7. CASE CC3000_UsynchCallback \/ Hang \/ HandlerHang \/ WDT_vect
  BY <1>7 DEF CC3000_UsynchCallback, UnsolConnect, UnsolDisconnect, UnsolDHCP,
              UnsolNoDHCP, Hang, HandlerHang, WDT_vect
<1>8. CASE UNCHANGED vars
  BY <1>8 DEF vars
<1> QED
  BY <1>1, <1>2, <1>3, <1>4, <1>5, <1>6, <1>7, <1>8 DEF Next, Main, Watchdog

\* When recvfrom does not fail, the light changes to what was received last or
\* at a restart: what udpbuf_ had before is not taken for a command.
THEOREM LightCommandedHolds ==
    ASSUME ~RecvFails
    PROVE  Safety => LightCommanded
<1>1. LightInv /\ [Next]_vars
        => [light' # light => light' = commanded \/ pc = "boot" \/ pc' = "boot"]_vars
  BY LightStep
<1> QED
  BY <1>1, LightInvInductive, PTL DEF Safety, LightCommanded
=============================================================================
