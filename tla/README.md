# CC3000Remote: a verification project

CC3000Remote is a light dimmer on an 8-bit AVR that is told its level over UDP. It consists of a small
application (`main.cpp`, `CC3000.cpp`) on top of the CC3000 host driver of Texas Instruments
(`CC3000HostDriver/`), which drives a CC3000 Wi-Fi module over SPI. There is one thread of control, the
main program, and two interrupt handlers: `ISR(INT0_vect)`, which reads and writes packets and runs a good
part of the driver's event handling, and `ISR(WDT_vect)`, which saves the level before a watchdog reset.

There are no locks and no atomic blocks. Everything that is hard in this code comes from what main and the
handlers share: the state word of the SPI driver, the interrupt mask, one receive buffer, one "awaited opcode",
the counters of the flow control, the bits of `FLAGS`.

Every definition that models code names its lines in `PROJECT.json` under `map`.

## 1. Inventory

| Component | State it keeps | Operations | Modelled in |
|---|---|---|---|
| SPI driver (`spi.c`) | `ulSpiState`, CS, the INT0 mask, `spi_buffer` | `SpiOpen`, `SpiClose`, `SpiFirstWrite`, `SpiWrite`, `SpiResumeSpi`, `SPI_IRQ` | `Spi`, promise in `BlockingLink`, proofs in `SpiProofs` |
| Board support (`board.c`) | pins, EIMSK | pin and mask helpers, `CC3000_UsynchCallback`, the patch providers | pins in `Spi`, the callback in `Remote` |
| HCI layer (`hci.c`, `evnt_handler.c`) | `usRxEventOpcode`, `usRxDataPending`, `usEventOrDataReceived`, the receive buffer | `hci_command_send`..., `SimpleLinkWaitEvent`, `SimpleLinkWaitData`, `hci_event_handler`, `hci_unsolicited_event_handler`, patch requests | waiting and dispatch in `HciEvents`, proofs in `HciProofs`; what is sent and filled in in `Commands` |
| Sockets and flow control (`socket.c`, `evnt_handler.c`) | `usNumberOfFreeBuffers`, `NumberOfSentPackets`, `NumberOfReleasedPackets`, `slTransmitDataError`, `socket_active_status` | `simple_link_send`, `HostFlowControlConsumeBuff`, `socket`, `closesocket`, the free-buffer event, the failed send; some fifteen calls of one command | `FlowControl`, proofs in `FlowControlProofs`; the packets in `Commands`, proofs in `CommandProofs` |
| Application (`main.cpp`, `CC3000.cpp`) | `FLAGS`, `udpbuf_`, the UDP socket, `light_state` | the loop of `main`, `connect`, `initUDPServer`, `pollUDPReceive`, `updateLight`, the callback | `Remote`, proofs in `RemoteProofs` |
| Watchdog and saved level (`main.cpp`) | WDIE, `light_state_eeprom`, WDRF | `enableWatchdog`, `wdt_disable`, `ISR(WDT_vect)`, the restore at start-up | `Remote`, proofs in `RemoteProofs` |
| Patch download (`hci.c`, `nvmem.c`) | the transmit buffer, a file of the CC3000 | `hci_patch_send`, `nvmem_write_patch` | `Patches`, proofs in `PatchesProofs` |
| Nvmem files (`nvmem.c`) | none on the host | `nvmem_read`, `nvmem_write`, the MAC address, the version, `nvmem_create_entry` | waiting in `HciEvents`, packets and answers in `Commands`, content in `Patches` |
| WLAN commands (`wlan.c`) | `InformHostOnTxComplete`, the start sequence | `wlan_start`, `wlan_stop`, `wlan_connect`, `wlan_add_profile`, scan, event mask, smart-config commands | start and stop in `Spi` and `HciEvents`; the others in `Commands`, proofs in `CommandProofs` |
| Network applications (`netapp.c`) | none | DHCP, ping, ipconfig, timers: one command, one answer each | `Commands`, proofs in `CommandProofs` |
| Packet framing (`hci.h`, `cc3000_common.h`, `hci.c`, `spi.c`) | the last bytes of the two buffers | headers, lengths, offsets, padding, magic number | `Commands`; the header of `SpiWrite` in `Patches` |
| Smart config and AES (`wlan.c`, `security.c`) | the round keys, two files | `wlan_smart_config_process`, `aes_encrypt`, `aes_decrypt`, the key file | `SmartConfig` over `Commands` and `Aes`, proofs in `SmartConfigProofs` and `AesProofs` |
| Active scan (`CC3000.cpp`) | `result_`, `results_returned_` | `runActiveScan`, `displayActiveScan`; `connectActiveScan`, which nothing calls | `Remote`, proof in `RemoteProofs` |
| USART and debug output | none | output only | not modelled |

How they interact. The application makes blocking calls of the driver. A call builds a packet and hands it to
`SpiWrite`, which blocks until the INT0 handler has shifted the packet out; it then names the event it waits for
(`SimpleLinkWaitEvent`) and loops in `hci_event_handler` until the handler has left that event in the receive buffer.
The handler deals with unsolicited events on the spot: it returns transmit buffers to the flow control, marks dead
sockets, and calls the application's callback, which changes `FLAGS`. While an answer lies in the buffer, INT0 is
masked; `SpiResumeSpi` unmasks it. `SpiWrite` masks and unmasks it for its own ends too.

What is hard, and what makes each component correct (the list with its lines is `hazards` in `PROJECT.json`):

* **SPI.** Three parties (main, handler, CC3000) agree on who transfers next by one state word, two lines and one
  mask bit. Correct means: a packet is taken once, never zero times or twice; an unread packet is not overwritten;
  the handler never reads where it should write; main never waits for a state only a masked handler can set;
  `SpiWrite` returns.
* **HCI.** One awaited opcode, one flag, one buffer. Correct means: a call gets its own answer and all of it, no answer
  is dropped while its call waits, no packet is overwritten before it was handled, a command is only sent on a quiet
  link (which the SPI driver relies on), every call returns.
* **Flow control.** Main and handler change the same counters and the same status word, by read-modify-writes that
  the AVR does in several instructions. Correct means: no packet without a buffer, no buffer lost, no dead socket
  forgotten, CAN_SHUT_DOWN only when all is out, every send returns.
* **Application.** `FLAGS` is written by main and by the callback. Correct means: FLAGS tells the truth about the
  connection, a loss is noticed, the server comes up again, the light shows what was commanded.
* **Watchdog.** A reset may come in any call. Correct means: a hang ends in a restart, and the light is as before.
* **Patches.** Portions of a patch are copied to offsets. Correct means: every byte arrives at its place, also after
  a failure and a retry.
* **Packets.** Some forty calls fill one buffer of 131 bytes with fields at places computed by hand, and one switch
  writes the answers into variables of the callers whose size it does not know. Correct means: the declared length is that of
  what was filled in, offsets and lengths inside a packet lead to its parts, a packet too long for its buffer is noticed and
  no other stops the program, an answer fills what its caller reads and nothing beyond, and each call awaits the opcode its
  answer really has.
* **Smart config and AES.** The rounds are unrolled, reordered and done in place. Correct means: they are the rounds of
  the standard, and what the phone encrypted is what is added as a profile.
* **Active scan.** The loop ends by whichever of three conditions comes first, while the CC3000 goes on finding networks. Correct
  means: it ends, and keeps no more networks than there is room for.

## 2. The modules

`Spi` is the SPI driver, the power-up and power-down sequences that use it and the CC3000 at the other end, at the
level of single statements of main. `pc` is where main is in `wlan_start`, `SpiWrite` or `wlan_stop`; each statement
that changes shared state, and each test of it, is one action. One activation of `ISR(INT0_vect)` is one action
because it runs with interrupts disabled. INT0 is *level* triggered (`EICRA` is never written), so nothing is latched
while it is masked, and a pending handler runs before the next statement of main: the guard `~Pending` of all actions
of main says so. The states READ_IRQ and READ_EOT exist inside the handler only. The polled write at
`spi.c:242` runs with INT0 enabled and is two actions, so that a handler can come in the middle of it. It is reached in two ways:
with INT0 masked because an answer lies in the buffer, when nothing can interrupt it, or by `PinRace`. A handler that then
interrupts one of its bytes (`IrqReadGarbled`) finds the transfer-complete flag of that byte set (main and handler share SPDR and SPIF,
`spi.c:271-273` and `292-297`), reads every byte of its packet a byte too early, and leaves something that is no packet in the buffer; the packet
of the CC3000 may be lost, and main may wait for ever for the flag the handler cleared. `Device` is
what the code relies on about the CC3000: it lowers the line when it has a packet or is ready for one, and releases
it with the last byte.

`BlockingLink` is the abstract specification of `Spi`: a packet is given, taken once, and the call returns; a packet of
the CC3000 is delivered once and only into an empty mailbox. `Spi` instantiates it with a refinement mapping (`Link`);
`ImplementsLink` is its safety part and `ImplementsLinkLive` all of it. Its constant `Garbles`, to which `Spi` gives `PinRace`, concedes the one
fault of the polled write: while a packet that was taken is repeated, the host may read something that is no packet, and the packet may be lost. The modules above are written on it: their
`SpiWrite` is one step, and a packet is received whole and in one step, as on the link without `Garbles`. `WritesWhenQuiet` of `HciEvents`
is the guard of `SpiWrite` in `Spi` (`owed = 0`, empty mailbox), so each side shows what the other assumes; for a CC3000 that
sends unsolicited events the host does not list (`Unsupported`, below) the guard is not met, `Spi` does not have that case, and what becomes of it is in `HciEvents` only.

`HciEvents` is a call from the packet it sends to its return, one action per statement group of `hci_event_handler`
between which the handler can change the outcome: the dispatch, the clearing of the flag, `SpiResumeSpi`, the answer to
a patch request, the exit test. An event is an opcode and the one value of its body the control depends on.
The handler deals with an unsolicited event when `hci_unsolicited_event_handler` lists its opcode. One it does not list
(`evnt_handler.c:622-623`) is left to main, also while no call waits; the next `SpiWrite` unmasks INT0 (`spi.c:238`) with that event unread, and
from then on the handler may overwrite a packet while main reads it. The ghost `exposed` records that this has happened. Because of it
a turn of `hci_event_handler` reads the opcode in one step and the body in the next.
The kinds of call are `start` (with patch requests before its answer), `recv` (waits for data if there are bytes),
`nvmem_read` (waits for data always), `send` (may be answered with ERROR_SOCKET_INACTIVE), and the plain commands.

`FlowControl` is the accounting of `simple_link_send`, of `socket`, `closesocket` and a failing `recv`, with every load
and store of a shared variable a step of its own, and the handler's updates of the same variables.

`Remote` is `main` with `connect`, `initUDPServer`, `pollUDPReceive` and `updateLight`, one action per test or write of
`FLAGS` and per call of the driver; the callback; and the watchdog. `FLAGS |= bit` is a load and a store. A call of
the driver is the step in which it returns, and it may never return. The watchdog has no clock: it may time out
in a call, which is where the program can spend eight seconds. The INT0 handler may never return either (`spi.c:426`), with interrupts
disabled: then neither main nor the interrupt of the watchdog runs, the level is not saved, and whether the
reset comes without the interrupt is left open. `socket`, `setsockopt` and `bind` fail with -1, as `socket.c` says, or with another code, which
`initUDPServer` takes for success; the ghost `server` records whether there is a bound socket.

`Patches` is `hci_patch_send` and `nvmem_write_patch` as operations on memory: a cell of the transmit buffer holds
"byte i of the patch", "byte i of a header" or something old, so that overwriting is visible without byte values.
`SpiWrite` appears as what it does to the caller's buffer: it writes its five-byte header to the first cells, and looks whether the last cell still has
the magic number; when it has not, the program stops there (`pc = "stuck"`) and nothing is sent. The length of the buffer is one of `TxBufferSizes`.
What a packet writes beyond the buffer, over other variables, is left out. A byte of the patch that falls on the last cell is taken to differ from the magic number;
were it equal, the check would not notice the overrun.

`Commands` has every call of `wlan.c`, `socket.c`, `netapp.c` and `nvmem.c` as the packet it builds. A call is one
action, `Begin` of a record: the opcode, the fields of its arguments in their order, the length it declares, the opcode it awaits, the
size of the variable for the answer and the bytes of it that the code reads. A field is its width and what the packet
says with it: "the offset from here to part p", "the length of part p", part p itself, or a word the layout does not
depend on. `Send` is `hci_command_send`, `hci_data_send` and `hci_data_command_send` with the check of `SpiWrite`; `HandleEvent`
is the switch of `hci_event_handler`, which writes by opcode whatever the call in progress is; `Stray` is an event that
comes before the answer; `ReceiveData` is a data packet with the padding of `SpiReadDataCont`. The last byte of each buffer is
"magic" (untouched), "same" (overwritten with the value it had, which the check cannot see) or "lost". One call is in
progress at a time: the interleaving of the waiting with the handler is `HciEvents`, so that each of the two modules
abstracts what the other details. `wlan_start` sends two commands; `recv`, `recvfrom` and `nvmem_read` wait for data afterwards.

`Aes` has no state. It translates `expandKey`, `aes_encr` and `aes_decr` round by round as the code computes them, with
the tables of the code, and beside them defines the cipher of FIPS 197 from its mathematics (inverse in GF(2^8), affine map,
row shifts, polynomial multiplication). Two assumptions of it are evaluated by TLC in every run of a module that extends it:
`StandardExample`, the worked example of the standard, guards the reference definition; `SboxIsStandard` says of each of the 256 entries of the
S-boxes in `security.c` that it is what the mathematics gives, and that the one undoes the other.

`SmartConfig` composes the two: `wlan_smart_config_process` reads the key file and the profile file by the calls of
`Commands`, expands the key and decrypts both halves one round an action, finds the length of the key, and adds the
profile by the call of `Commands`. All other calls may be made when it is not under way. The AES key and the keys phones send are constants
(`AesKey`, `NetworkKeys`), to which `MCSmartConfig` gives values for TLC.

`Remote` has `runActiveScan` as well: the sending of the parameters, one action per turn of the loop and per answer, with networks
found (`NetworkFound`) at any moment in between. `results_remaining`, the first word of an answer, is taken to count the network that
comes with it; `displayActiveScan` only prints, and the model then clears the result of the scan, which nothing reads any more.

### Assumptions that are constants

Where the behaviour depends on timing, on the compiler or on the other side, the module has a Boolean constant. FALSE is
the assumption the code silently makes, TRUE is what can really happen; the runs use both.

| Constant | TRUE means |
|---|---|
| `Spi!PinRace` | the IRQ line may fall in the cycle in which main samples it, so that main reads low and the handler runs first |
| `Spi!Hoisted` | the build reads the non-volatile `ulSpiState` once in an empty wait loop |
| `HciEvents!FastReply` | the CC3000 may answer between the return of `SpiWrite` and `SimpleLinkWaitEvent` |
| `HciEvents!SocketDies` | a send may be answered with ERROR_SOCKET_INACTIVE |
| `HciEvents!PatchTraffic` | the CC3000 may send other events while it waits for a patch |
| `HciEvents!Unsupported` | the CC3000 may send unsolicited events that the host does not list (`evnt_handler.c:622-623`) |
| `FlowControl!RmwRace`, `Remote!RmwRace` | an interrupt may come between the load and the store of a read-modify-write |
| `Remote!MayHang` | a driver call may never return |
| `Remote!HandlerHangs` | the INT0 handler may never return (`spi.c:426`) |
| `Remote!OddCodes` | `socket`, `setsockopt` and `bind` may fail with a code other than -1 |
| `Remote!SlowCalls` | a call may outlast the watchdog and still return |
| `Remote!RecvFails` | `recvfrom` may return a negative count |

The other constants are sizes: `Spi!MaxEvents`, `MaxReplies`, `HciEvents!MaxOut`, `MaxPatches`, `Commands!MaxStrays` and
`Remote!Networks`, `Losses` bound what the environment does; `Remote!ScanStore` and `ScanTries` are 8 and 250 in the code;
`Patches!TxBufferSizes` are lengths of the transmit buffer a build may have, 131 in this one;
`Commands!SsidLengths`, `Lengths` and `ArgSizes` are the lengths callers pass and the CC3000 uses, `Strays` the opcodes of
unexpected events; `SmartConfig!NetworkKeys` are the keys phones send, `AesKey` the one phone and program share.

What the modules assume of their constants, beyond their types:

* `HciAssumption`: no plain command is called "data", the name the model has for what a data packet gives a call.
* `StraysAssumption` of `Commands`: the events that answer `send` and `sendto` do not come as unexpected ones. They are never filtered as
  unsolicited (`evnt_handler.c:635-649`) and would be written, eight bytes, into the variable of whatever call is in progress; every send waits for its event, so
  that none is left over.
* `SmartConfigAssumption`: a network key of 32 bytes does not begin with 31 or end with 0, for it would look like a shorter one (section 5). No character
  is such a byte.
* `FlowAssumption`: the counters count further than there are buffers.

One timing assumption is in a guard: `DevBooted` of `Spi` does not happen while main waits for the line to go high
(`pc # "await_high"`): booting takes far longer than a turn of that loop. Were it faster, `wlan_start` would wait
for ever.

## 3. The runs

Every run is exhaustive for its bounds. `PROJECT.json` pairs each property with a mutant, a definition with a
plausible bug in it (the operators marked "Mutant" in the modules), that breaks it.

| Run | Question | Answer |
|---|---|---|
| `spi` | without the races, does the driver make progress? | it implements `BlockingLink` with its liveness: every `SpiWrite` returns, INT0 is never masked for good, what the CC3000 announces is read (`ImplementsLinkLive`); and `wlan_start` reaches its first write whatever the level of the line (`StartCompletes`) |
| `spi_race` | with `PinRace` and `Hoisted`, what can go wrong? | one thing: a packet of the CC3000 read in the middle of a polled write is garbled or lost, which `BlockingLink` concedes (`Garbles`), and main may stop there (section 5), so deadlock is not checked. What main writes is taken once (`ExactlyOnce`), no unread packet is overwritten (`UnreadIsMasked`), nobody waits for a masked handler (`NoMaskedSpin`), the first write finds a booted CC3000 (`FirstWriteBooted`), handler and CC3000 agree on who transfers (`HandlerInStep`), and there is no other fault (`ImplementsLink`) |
| `hci` | on a well-behaved CC3000, do calls get their answers? | every call returns (`CallReturns`), through patch requests too, and nothing awaited is lost (`AwaitedIsComing`) |
| `hci_hostile` | with `FastReply`, `SocketDies`, `PatchTraffic` and `Unsupported`? | a call may hang, so deadlock is not checked. Until `SpiWrite` is called over an unread packet, a call never gets the answer of another (`GetsItsOwn`) and no unread packet is overwritten (`UnreadKept`); the only packet it is first called over is an unsolicited event the host does not list, and nothing else is owed or on its way but events (`WritesWhenQuiet`) |
| `flow` | with atomic updates, is the accounting exact? | no buffer is lost or counted twice, no dead socket is forgotten |
| `flow_race` | and with the race? | buffers may be lost, but never the last one and never is one counted twice: the CC3000 is not overrun, a send returns, and CAN_SHUT_DOWN is only reported when everything transmitted is out, also when the counters wrap |
| `remote` | with atomic updates of FLAGS, calls that may hang and a handler that does not? | losses are noticed (`LossNoticed`), the server comes up (`ServerComesUp`), only commanded levels are shown (`LightCommanded`), and the level survives the watchdog's interrupt and its reset (`RestoresPrevious`). A call that hangs in `connect` or `initUDPServer`, with the watchdog off, stops the program for good, so deadlock is not checked |
| `remote_hang` | with calls and the INT0 handler that hang, failing `recvfrom`, and failures of `socket`, `setsockopt` and `bind` that are taken for success? | a call that hangs with the watchdog on ends in a restart unless the handler hangs too (`HangIsReset`); the scan at start-up ends (`ScanEnds`) and keeps no more than there is room for (`ScanFits`), a reset in the middle of it included. The program may stop as in `remote`, so deadlock is not checked |
| `remote_race` | is a loss noticed when `FLAGS \|= (1 << UDP)` is interrupted? | **no**: the disconnect is overwritten and main polls a dead connection for ever |
| `patches` | does a patch arrive in portions? | a file is programmed byte for byte, through errors and retries with another patch (`FileWritten`). A patch of at most a portion is sent in one packet as it is when that packet leaves the last cell of the buffer alone; with any other first portion the program stops before anything is sent, for good, so deadlock is not checked (`ArrivesOrStops`) |
| `patches_long` | with the sizes of the code, does `hci_patch_send` send what it is given? | **no**: a patch of 120 bytes is copied over the magic number, and the first `SpiWrite` never returns |
| `commands` | is every packet and every answer of the driver well formed, and does smart config decrypt? | declared lengths are those of what was filled in but for two calls that send stale bytes (`ArgumentsWhole`), offsets and lengths lead to their parts (`FieldsPoint`), the program stops exactly when a packet overruns its buffer (`StopsWhenTooLong`), answers fill their variables whatever else comes (`AnswerFills`), every call returns or stops (`Returns`); the rounds are the standard's (`RoundsAreStandard`) and the key arrives (`KeyRecovered`). The program stops for good on an overrun, so deadlock is not checked |

### Bounds

* `spi`, `spi_race`: `MaxEvents = 3`, `MaxReplies = 2`. Two answers is what the code has (an event and the data of a
  `recv`). Three events is one for each phase of a write that a packet can interrupt (before the mask, while CS is low,
  after the write) at once. The invariants are proved for any bound.
* `hci*`: two commands besides the special calls, so that a call can meet the answer of another; `MaxOut = 3` packets on
  their way: an answer, its data and one unsolicited event, in any order the CC3000 can send them; two patch requests.
* `flow*`: two sockets, so that a status update of one can overwrite that of the other; two buffers, so that one may be in
  main's hands and one in the CC3000; `Wrap = 4` in place of 2^32, so that the counters wrap several times. The proofs
  cover any numbers with `Wrap > Buffers`; without this a full turn looks like an empty CC3000.
* `remote*`: two levels (old and new), two failures per connection, four sockets. `Handles = Losses + 2` is tight:
  the socket of the server itself, one for each failure, and one that an `initUDPServer` already under way opened after the
  connection was lost; with three sockets `ServerComesUp` fails, because none is ever closed. `remote_hang`
  has two, so that they run out. The scan keeps two networks, asks four times and three may be found: every one of the three
  ends of its loop is reached, also with a network that is found while it is asked. Both runs have the scan; the proof of `ScanFits` has any numbers.
* `patches`: portions of 6 (1000 in the code) and 2 (32); patches up to 14, two full portions and a rest, files up to
  7, three and a rest. The offset wraps at 8 in place of 2^16. The buffer has 18 cells, of which a full portion with its headers fills all but the
  last, or 15, which a patch of three bytes just leaves alone and one of four does not. `patches_long` has the numbers of the code, a buffer of 131 and portions of 1000, and patches
  on both sides of 120 bytes.
* `commands`: the lengths 88 and 89, 104 and 105, 113 and 114 are on either side of where `sendto`, `send` and `nvmem_write`, and
  `gethostbyname` overrun the transmit buffer; 63 is the longest passphrase, 13 the longest WEP key, 231 more than
  `gethostbyname` accepts, 0 and 5 small ones of both parities. With names of 1 and 32 characters both outcomes of
  `wlan_connect` and `wlan_add_profile` are reached, and with arguments of 0, 16 and 24 bytes a received packet is on either side of the room of the receive
  buffer. A phone's key has each length at which the format changes: 0, 5, 13, 15 and 16 (the border of the first block), 31 and 32, and one of 31 ends in
  the byte that pads shorter ones. Four
  unexpected events, one in each call: a keep-alive, a DHCP event, and the answers of two other commands, of a word and
  of 58 bytes. The AES key is one, all of its bytes different. The proofs have any lengths, any set of unexpected events, any AES key and any keys of networks.

### Fairness

* `Spi`: weak fairness of the handler: a pending interrupt is served. *Strong* fairness of main: after every RETI the
  AVR executes one instruction of the interrupted program, so however often the line is low, main advances; weak fairness
  would not do because a pending handler disables main again and again. Weak fairness of the CC3000's own steps: it
  boots, gets ready for a write it was selected for, and announces what it has.
* `HciEvents`: weak fairness of main and of the handler, strong fairness of the CC3000's answers, since unsolicited
  events may fill the bounded queue again and again.
* `FlowControl`: main runs, the CC3000 transmits what it has and reports it.
* `Commands`, `SmartConfig`: weak fairness of `Progress`: the host goes on with a call and the CC3000 answers it. Nothing is
  assumed of unexpected events or of the process of smart config.
* `Remote`: main runs and a call that does not hang returns; the watchdog counts while a call hangs. Nothing is assumed of it while the
  handler hangs.

Nothing obliges the application to make another call, nor the CC3000 to have an event, keep a connection or lose it.

## 4. What is proved

The proofs are for every value of the constants, from the assumptions named in the modules (`SpiAssumption`, `HciAssumption`,
`FlowAssumption`, `RemoteAssumption`, `PatchesAssumption`, `CommandsAssumption`, `StraysAssumption`, `SmartConfigAssumption`, `SboxIsStandard`) and,
where a theorem says so, from the absence of a race. Every invariant and every action property that the passing runs check is stated by a theorem.

**`SpiProofs`.** `ExactlyOnce` is not inductive: whether a packet was taken depends on who was to shift it. `IInv` says, for
every phase of main, what the state word, CS, the mask and the CC3000 can be: `Down` (power off and booting),
`Before` (nothing taken before the transfer), `FirstPacket` (the short first transaction), `Masked` (the critical section of
`SpiWrite`), `HandlerWrites` (while the state is WRITE_IRQ the packet is still to be taken, CS is low and the CC3000
is about to take it, and conversely), `Up`, `ChipSelect`, `Answers`, and `UnreadIsMasked`. It is shown to hold initially and to be
kept by each action. From it follow type correctness, `ExactlyOnce`, `UnreadIsMasked`,
`NoMaskedSpin`, `FirstWriteBooted`, `PolledWriteUnheard` (what the polled write repeats was already taken, and goes out with CS high; proved only), the action property `HandlerInStep`, and, step by step, that the driver
implements the safety part of `BlockingLink`. All of this with `PinRace` and `Hoisted` arbitrary; with `PinRace` the link is the one that concedes
garbled reads (`Garbles`), without it the one `HciEvents` stands on.

**`HciProofs`.** That a call gets its own answer is a statement about its return; to carry it through the call one has to know of every packet, on its
way or in the buffer, that the call in progress is owed it. `IInv` says so: `PacketsExpected` (each packet is an unsolicited event, the patch request or
the answer that is owed, and is not what the call already has), `PacketsOnce` (none comes twice), `DataAwaited` (data come only to a call that will
wait for them, which for `recv` depends on the value in an answer that may still be on its way), `OwnResult`, `Awaited` (the opcode awaited is the call's or
none, and is none only when the call has its answer), `QuietBetween`, `PatchAwaited` and `Masked` (INT0 is masked while a packet is unread). These facts are named `Orderly`; they hold until `SpiWrite` is called over an
unread packet, so that the invariant is `Typed /\ (~exposed => Orderly)`. From it: type correctness, `GetsItsOwn`,
`UnreadKept`, `WritesWhenQuiet`, with `FastReply`, `SocketDies`, `PatchTraffic` and `Unsupported` arbitrary. The last says as well how the exception begins: the
first packet that is written over is an unsolicited event the host does not list. `NeverExposed` closes the gap: without such events
the exception never arises, and the three properties hold of every behaviour. `AwaitedIsComing` needs `~FastReply`, `~SocketDies` and `~Unsupported`, without
each of which TLC refutes it (section 5), and its own strengthening `AwaitInv`.

**`FlowControlProofs`.** `AccountInv` (with the race): a count main has loaded is positive and at most the present one, since the
handler only adds; hence a store can lose buffers but not create one, and never the last: `NeverOverruns`. `PacketsInv`:
`sent - released` modulo `Wrap` is the number of packets in the CC3000 or not yet reported (plus the one counted and not yet handed over), and with `Wrap > Buffers` this
difference is zero only if nothing is outstanding: `DrainedWhenShutDown`. `AtomicInv` (assuming `~RmwRace`): what main has loaded is what it
overwrites: `BuffersKnown` and `DeadStaysDead`. The type invariant needs the accounting: that the number of free buffers is a number at most `Buffers` is `AccountInv`.

**`RemoteProofs`.** `FlagsInv` (assuming `~RmwRace`): between load and store `FLAGS` is what was loaded: `FlagsTrue`. (No run checks `FlagsTrue`; `LossNoticed` is what the program needs of it.) `RestoreInv` (assuming
`~SlowCalls` and `~HandlerHangs`): the watchdog is in its second, resetting stage only in a hung call, with the present level saved, and after
a reset the saved level is the one of before: `RestoresPrevious`. `LightInv` (assuming `~RecvFails`): what `updateLight` is given is the latest datagram: `LightCommanded`.
`TypeOK` is inductive with the facts of `ScanInv`: when an answer of the scan is awaited,
fewer than `ScanStore` networks are kept and no more than `Networks` were told, whence `ScanFits`, for any numbers of networks, rooms and attempts.

**`PatchesProofs`.** `FileInv`: what `nvmem_write_patch` has written so far is the patch up to `offset`, in its place, and the next portion is read from where the last
ended; hence `FileWritten`, for patches, portions and buffers of any size, through errors and retries. It assumes that a file is no longer than the offset can count (`MaxFile <= OffsetWrap`):
the offset has 16 bits. `SendInv`: until the program stops the magic number is in the last cell, and it does not stop after the first packet, because the later ones begin
in front of the first and reach no further; a short patch goes out in one packet. Hence `ArrivesOrStops`, for patches, portions and buffers of any length. It is the
part of `WholePatch` (the finding of `patches_long`) that is true.

**`CommandProofs`** shows, call by call, that a packet is right: that its fields lie where a layout written down for it says (`LaidOut`), that the
offsets and lengths agree with that layout for all lengths of its parts (`Sound`), that the length it declares is its width (`Whole`), and that the answer it
awaits fits. Where a field ends is a recursive function of its number; what it computes is shown by an induction over the set of the numbers for which it is right
(`NatByStep`, from the least element of its complement).

**`AesProofs`.** The S-boxes are those of the standard by `SboxIsStandard`. The rest is algebra: exclusive or makes the bytes a group (`XorAlgebra`), doubling in
GF(2^8) is linear (proved on the eight bits), so the columns as `aes_encr` mixes them are the product of the standard, and what `aes_decr` does before it mixes
(`Barreto`) makes mixing its own inverse (`MixUndone`). From this, for every block and round key: a turn of `aes_encr` is a round (`EncryptsARound`), a
turn of `aes_decr` undoes one (`DecryptsARound`), a turn of `expandKey` is the next key (`NextRoundKeyIs`). The standard's key schedule and its chain of blocks are recursive
functions; that they have the values the recursion says is shown by constructing them up to ten (`KeysAre`, `BlocksAre`).

**`SmartConfigProofs`** puts the two together. `RoundInv` says which block of the standard each half is at every turn of the loops, and so
`RoundsAreStandard`; at the end the two halves are what the phone encrypted, and `TrueKey` finds the key in it: `KeyRecovered`. The calls need this: the packet of `wlan_add_profile`
has a key whose length is that of the decrypted one, and were it arbitrary the packet could exceed what its one-byte length can say (`KeyFits`). With it,
`AnswerInv`, `MagicInv`, `SentInv`, `WholeInv` and `RestInv` carry what `CommandProofs` knows of a call through its sending, waiting and return: `ArgumentsWhole`, `FieldsPoint`, `StopsWhenTooLong`
and `AnswerFills`, whatever other events come in between.

**Only model-checked.** The liveness properties (`ImplementsLinkLive`, `StartCompletes`, `CallReturns`, `SendReturns`, `LossNoticed`,
`ServerComesUp`, `HangIsReset`, `ScanEnds`, `Returns`), which are beyond the prover. Evaluated by TLC and used by the proofs: `SboxIsStandard`, because the inverse in GF(2^8) is found by
search and multiplication is a recursive function, of which a table of 256 values is cheaper to compute than to prove.

## 5. Disagreements between code and documentation

Two are checked as counterexamples and listed under `findings`: a disconnect lost in `FLAGS |= (1 << UDP)`
(`remote_race`), and patches of 120 bytes or more, of which nothing is sent because the copy of the first portion, up to 1000 bytes, overruns the buffer of 131
and `SpiWrite` then stops (`patches_long`; this program's providers return no patch, so it never sends such a one). What is copied beyond the buffer
destroys other variables before that, which the model leaves out.

Others can be seen by setting a constant to TRUE in a configuration that passes:

* `FlowControl!RmwRace` in `MCFlow.cfg`: `BuffersKnown` fails (an event of released buffers lost in
  `usNumberOfFreeBuffers--`, `socket.c:132`) and `DeadStaysDead` fails (a dead socket forgotten in the update of
  `socket_active_status`, `evnt_handler.c:725`).
* A buffer that holds a portion, which `cc3000_common.h:136-138` invites (`TxBufferSizes = {18}` in `MCPatches.cfg`): `WholePatch` still fails. The packets after the
  first begin where `SpiWrite` puts its header (`hci.c:214`), which overwrites their length and first bytes.
* `Remote!SlowCalls` in `MCRemote.cfg`: `RestoresPrevious` fails. The interrupt of the watchdog disarms itself and only
  `enableWatchdog` arms it again, so after a call that outlasted it once a later reset saves nothing.
* `Remote!HandlerHangs` in `MCRemote.cfg`: `RestoresPrevious` fails. The handler stops on an overrun receive buffer (`spi.c:422-428`) with
  interrupts disabled, so the interrupt that saves the level does not run; if the processor is reset nevertheless, an older level is restored.
* `Remote!OddCodes` in `MCRemote.cfg`: `ServerComesUp` fails. `CC3000.cpp:96`, `101` and `109` take only -1 for a failure, while `socket`, `setsockopt` and `bind`
  return whatever negative code the CC3000 sent (`socket.c:211`, `745`, `387`): with another code UDP is set and there is no server.
* `Remote!RecvFails` in `MCRemote.cfg`: `LightCommanded` fails. `pollUDPReceive` takes any count but 0 for data, so an
  error of `recvfrom` sets the light to whatever is in `udpbuf_`, which is never initialised.
* `HciEvents!FastReply` in `MCHciEvents.cfg`: `AwaitedIsComing` and `CallReturns` fail. An answer read before
  `SimpleLinkWaitEvent` named it is dropped as unsolicited.
* `HciEvents!SocketDies` in `MCHciEvents.cfg`: `AwaitedIsComing` fails. The answer ERROR_SOCKET_INACTIVE to a send is consumed in the
  interrupt handler (`evnt_handler.c:637-646`) while `SimpleLinkWaitEvent` (`socket.c:957`) waits for it: the send never returns.
* `HciEvents!PatchTraffic` in `MCHciEvents.cfg`: `CallReturns` fails. The request is read from the buffer after INT0 was
  unmasked, when another event may be in it, and may then be left unanswered.
* `HciEvents!Unsupported` in `MCHciEvents.cfg`: `AwaitedIsComing` and `CallReturns` fail, and in `MCHciHostile.cfg` `GetsItsOwn`, `UnreadKept` and the quiet link of
  `WritesWhenQuiet` would fail without their `~exposed`. An unsolicited event the host does not list (`evnt_handler.c:622-623`) stays unread while no call
  waits; the next `SpiWrite` unmasks INT0 over it (`spi.c:238`), and the handler may overwrite it, or be overtaken by main, in the middle of a turn of `hci_event_handler`.
* `Spi!Hoisted` in `MCSpi.cfg`: `ImplementsLinkLive` fails, and so it does with `PinRace`: a read by the handler in the middle of a
  polled write takes the transfer-complete flag main polls for. Both leave main in `pc = "stuck"`. With `PinRace` the packet that is read is garbled as
  well and may be lost; `hci_event_handler` takes what is in the buffer for data, since it does not begin with the byte of an event. `HciEvents` is about links without this fault.

`Commands` and `SmartConfig` carry others in their definitions, where the properties make an exception for them:

* `cc3000_common.h:76-103` sizes the buffers at 130 bytes for the longest arguments of a command. `wlan_connect` with a name and a
  key of more than 93 bytes together, and `wlan_add_profile` for WPA with more than 77, stop the program in `SpiWrite`. Data may be at most
  104 bytes in `nvmem_write` and `send` and 88 in `sendto`; `gethostbyname` accepts 230 characters and can send 113.
* `cc3000_common.h:88-93` allows for a data packet of which the padding overruns the receive buffer: arguments and data of
  120 bytes make 130 with the header, an even number, and the byte that pads it is the magic one.
* `netapp_timeout_values` declares five words and fills in four, `select` without a timeout declares eleven and fills in
  nine: the bytes of an earlier packet are sent (`Stale`).
* `wlan_add_profile` leaves the length of its command unwritten for a security type that is none of the four (`wlan.c:600`), and
  `runActiveScan` sends sixteen intervals it never wrote (`CC3000.cpp:30`); no caller does the first, and nothing depends on the second.
* For WEP, `wlan_add_profile` sends four keys of the given length (`wlan.c:643-648`) where smart config has one. The other three are read on
  behind it, in the rest of the 32 decrypted bytes and beyond them: with a name of more than eleven characters and a key of thirteen, beyond `profileArray`. `KeyRecovered` says that no byte of
  the key is among them; what they hold is left open.
* A smart-config key of 32 bytes whose first is 31, or whose last is 0, is taken for a shorter one (`wlan.c:1158`); printable keys have no such byte.

And two that no property can state of the code as it is: the failure of a send is kept as an *unsigned* status byte
and returned by the next send as a positive length (`evnt_handler.c:643`, `socket.c:121`); and CAN_SHUT_DOWN may be reported while a send
has taken its buffer but not counted its packet (`socket.c:132` and `981`).

## 6. The plan

In the order of importance, written in this order:

1. `Spi`, `BlockingLink`, `SpiProofs`: everything else stands on the link. *Done.*
2. `HciEvents`, on the link: waiting and dispatch; `HciProofs`. *Done.*
3. `FlowControl` and `FlowControlProofs`. *Done.*
4. `Remote`, with the active scan, and `RemoteProofs`. *Done.*
5. `Patches` and `PatchesProofs`. *Done.*
6. `Commands`: framing and the table of commands and answers; `CommandProofs`. *Done.*
7. `Aes`, `SmartConfig`, over `Commands`; `AesProofs`, `SmartConfigProofs`. *Done.*
8. Refinement: an abstract request/answer specification implemented by `HciEvents`, to stand under `FlowControl`, `Commands` and `Remote` as
   `BlockingLink` stands under `HciEvents`. *To be done, with its proof from the invariant of `HciProofs`.*

## 7. What is not modelled, and why

* The values of words that no control depends on, and their order of bytes (`cc3000_common.c`): a conversion without a branch. So
  the raising of the timers to ten seconds in `netapp_timeout_values`, and the copy of the sender's address in `recvfrom`, are not
  seen. `init_spi` configures ports once.
* `disconnect` and `connectActiveScan`, which nothing calls (the latter reads a choice from the USART); the status print, the
  indicator LED, `SHUTDOWN_OK`, which is set and only printed; what `displayActiveScan` prints.
* In `Commands`, callers pass a key whenever they pass its length and one of the four security types, as every caller in the repository does;
  the variants of `CC3000_TINY_DRIVER`, which this build does not define, are left out.
* Smart config with files only a phone wrote, and one AES key in a behaviour; the unpacking of the file of the profile is that of its three fields.
* The USART and debug output keep no state: a busy wait on a register for each character.
* Time. Time-outs of loops are choices, the watchdog times out in a call that hangs or not at all; that WDIE is set one statement after
  the watchdog is enabled is not seen, nor that the scan, before the first `wdt_reset`, may as a whole last longer than it.
