-------------------------------- MODULE Spi --------------------------------
(***************************************************************************)
(* The SPI driver of the CC3000 host (spi.c), the pin and interrupt-mask    *)
(* helpers it calls (board.c) and the power sequence of wlan_start and      *)
(* wlan_stop (wlan.c), on one processor with one interrupt handler, against *)
(* the CC3000 at the other end of the bus.                                  *)
(*                                                                         *)
(* The processor is an AVR.  The handler ISR(INT0_vect) runs with the       *)
(* global interrupt flag cleared, so one activation of it is one action.    *)
(* EICRA is never written, so INT0 is triggered by the LOW LEVEL of the IRQ *)
(* line: nothing is latched while INT0 is masked, and the handler runs      *)
(* again as long as the line stays low.  Between two statements of the      *)
(* main program a pending handler always goes first (the ~Pending guard).   *)
(*                                                                         *)
(* The SPI bytes themselves are not modelled.  A transfer is the step that  *)
(* shifts the packet, except the polled write of SpiWrite, which runs with  *)
(* INT0 enabled and so has a begin and an end, and the read that comes      *)
(* between them and shares SPDR and SPIF with it (IrqReadGarbled).  The     *)
(* overrun checks on the magic number belong to the framing of packets      *)
(* (Commands, Patches), not to this module.                                 *)
(***************************************************************************)
EXTENDS Naturals

CONSTANTS
    MaxEvents,   \* bound on the unsolicited events the CC3000 holds for the host
    MaxReplies,  \* bound on the packets that answer one SpiWrite (2: the event
                 \* and the data of a recv)
    PinRace,     \* may the pin be sampled in the very cycle the line falls,
                 \* that is, before the handler that the fall triggers?
    Hoisted      \* does the build read the (non-volatile) ulSpiState once
                 \* only in an empty wait loop?

ASSUME SpiAssumption ==
    /\ MaxEvents \in Nat \ {0}
    /\ MaxReplies \in Nat \ {0}
    /\ PinRace \in BOOLEAN
    /\ Hoisted \in BOOLEAN

VARIABLES
    pc,          \* where the main program is in wlan_start, SpiWrite, wlan_stop
    ulSpiState,  \* sSpiInformation.ulSpiState; READ_IRQ and READ_EOT exist
                 \* inside the handler only
    cs,          \* level of the chip select line
    int0,        \* is INT0 enabled in EIMSK?
    mailbox,     \* what the handler left to the main program in spi_buffer
                 \* (tSLInformation.usEventOrDataReceived): nothing ("empty"),
                 \* an answer or bytes that are no packet ("full"), or an
                 \* unsolicited event the host does not list ("unknown")
    taken,       \* ghost: how often the CC3000 took the packet of the latest
                 \* SpiWrite
    dev,         \* the CC3000, see Device below
    events,      \* unsolicited events the CC3000 holds for the host
    owed         \* packets the CC3000 still has to send in answer to the
                 \* latest SpiWrite

vars == <<pc, ulSpiState, cs, int0, mailbox, taken, dev, events, owed>>
driver == <<ulSpiState, cs, int0, mailbox>>
device == <<dev, events, owed>>

(***************************************************************************)
(* The CC3000, as spi.c and wlan.c rely on it: powered off with the line     *)
(* high or still low; booting with the line still low, booting with the     *)
(* line high, booted (line low: "ready for the first write"); idle; armed   *)
(* (it saw CS fall and is going to lower the line for the write); ready     *)
(* (line low, the write may start); event (line low for a packet of its     *)
(* own).  It releases the line with the last byte of a transfer.            *)
(***************************************************************************)
Device == {"offlow", "off", "bootlow", "boot", "booted",
           "idle", "armed", "ready", "event"}

IrqLow == dev \in {"offlow", "bootlow", "booted", "ready", "event"}

\* The handler is about to run and does something (in INITIALIZED it returns
\* at once, and the processor executes an instruction of main in between).
Pending == int0 /\ IrqLow /\ ulSpiState \in {"POWERUP", "IDLE", "WRITE_IRQ"}

Starting == {"open", "enable_high", "enable_low", "await_high", "await_low"}
Writing  == {"entry", "first", "first_end", "mask", "setup", "assert",
             "unmask", "sample", "polled", "polling", "end"}
Labels   == {"off", "idle", "stopping", "stuck"} \union Starting \union Writing

Init ==
    /\ pc = "off"
    /\ ulSpiState = "POWERUP"
    /\ cs = "high"
    /\ int0 = FALSE
    /\ mailbox = "empty"
    /\ taken = 1
    /\ dev \in {"offlow", "off"}
    /\ events = 0
    /\ owed = 0

-----------------------------------------------------------------------------
(* wlan_start: SpiOpen, read the line, switch the CC3000 on, follow the line *)
(* down (or up and then down), then the first write of SimpleLink_Init_Start *)

At(l) == pc = l /\ ~Pending

\* The CC3000 is switched on: the line goes high when it is not already.
Power == [off |-> "boot", offlow |-> "bootlow"]

SpiOpen ==
    /\ At("off")
    /\ ulSpiState' = "POWERUP"
    /\ int0' = TRUE
    /\ mailbox' = "empty"
    /\ pc' = "open"
    /\ UNCHANGED <<cs, taken, device>>

\* Mutant: the branches of wlan_start are swapped.
StartSwapped ==
    /\ At("open")
    /\ pc' = IF IrqLow THEN "enable_high" ELSE "enable_low"
    /\ UNCHANGED <<driver, taken, device>>

StartReadPin ==
    /\ At("open")
    /\ pc' = IF IrqLow THEN "enable_low" ELSE "enable_high"
    /\ UNCHANGED <<driver, taken, device>>

\* Mutant: WriteWlanPin forgotten.
StartUnpowered ==
    /\ pc \in {"enable_high", "enable_low"} /\ ~Pending
    /\ pc' = IF pc = "enable_low" THEN "await_high" ELSE "await_low"
    /\ UNCHANGED <<driver, taken, device>>

StartEnable ==
    /\ pc \in {"enable_high", "enable_low"} /\ ~Pending
    /\ dev' = Power[dev]
    /\ pc' = IF pc = "enable_low" THEN "await_high" ELSE "await_low"
    /\ UNCHANGED <<driver, taken, events, owed>>

StartSeesHigh ==
    /\ At("await_high") /\ ~IrqLow
    /\ pc' = "await_low"
    /\ UNCHANGED <<driver, taken, device>>

StartSeesLow ==
    /\ At("await_low") /\ IrqLow
    /\ pc' = "entry"
    /\ taken' = 0
    /\ UNCHANGED <<driver, device>>

\* wlan_stop: switch the CC3000 off, wait for the line to go high, SpiClose.
StopDisable ==
    /\ At("idle") /\ owed = 0 /\ mailbox # "full"
    /\ dev' = IF IrqLow THEN "offlow" ELSE "off"
    /\ events' = 0
    /\ pc' = "stopping"
    /\ UNCHANGED <<driver, taken, owed>>

SpiClose ==
    /\ At("stopping") /\ ~IrqLow
    /\ int0' = FALSE
    /\ pc' = "off"
    /\ UNCHANGED <<ulSpiState, cs, mailbox, taken, device>>

-----------------------------------------------------------------------------
(* SpiWrite                                                                 *)

\* The bytes of the packet are shifted out.  The CC3000 takes them when CS is
\* low and it is waiting for a write, or has a packet of its own announced
\* (it tells a write from a read by the first byte, and announces its packet
\* again afterwards).
Takes == \/ cs = "low" /\ dev \in {"ready", "event"}
         \/ dev = "booted"

ShiftOut ==
    IF Takes THEN dev' = "idle" /\ taken' = taken + 1 /\ owed' \in 0..MaxReplies
             ELSE UNCHANGED <<dev, taken, owed>>

\* Called by the HCI layer, which waits for the answers to a command before it
\* sends the next.  An event it does not list may still be in the mailbox, with
\* INT0 masked: SpiWrite unmasks it, and the next packet takes its place.
SpiWrite ==
    /\ At("idle") /\ owed = 0 /\ mailbox # "full"
    /\ taken' = 0
    /\ pc' = "entry"
    /\ UNCHANGED <<driver, device>>

\* In POWERUP, wait for the handler to see the line low.
SpiWriteEntry ==
    /\ At("entry") /\ ulSpiState # "POWERUP"
    /\ pc' = IF ulSpiState = "INITIALIZED" THEN "first" ELSE "mask"
    /\ UNCHANGED <<driver, taken, device>>

\* SpiFirstWrite: the state is IDLE before CS is high again.
SpiFirstWrite ==
    /\ At("first")
    /\ cs' = "low"
    /\ ShiftOut
    /\ ulSpiState' = "IDLE"
    /\ pc' = "first_end"
    /\ UNCHANGED <<int0, mailbox, events>>

SpiFirstWriteEnd ==
    /\ At("first_end")
    /\ cs' = "high"
    /\ pc' = "end"
    /\ UNCHANGED <<ulSpiState, int0, mailbox, taken, device>>

\* Mutant: the back-to-back read is not locked out.
NoInterruptDisable ==
    /\ At("mask")
    /\ pc' = "setup"
    /\ UNCHANGED <<driver, taken, device>>

WlanInterruptDisable ==
    /\ At("mask")
    /\ int0' = FALSE
    /\ pc' = "setup"
    /\ UNCHANGED <<ulSpiState, cs, mailbox, taken, device>>

\* Wait for IDLE, then prepare the write; CS is asserted one statement later.
SpiWriteSetup ==
    /\ At("setup") /\ ulSpiState = "IDLE"
    /\ ulSpiState' = "WRITE_IRQ"
    /\ pc' = "assert"
    /\ UNCHANGED <<cs, int0, mailbox, taken, device>>

AssertCS ==
    /\ At("assert")
    /\ cs' = "low"
    /\ dev' = IF dev = "idle" THEN "armed" ELSE dev
    /\ pc' = "unmask"
    /\ UNCHANGED <<ulSpiState, int0, mailbox, taken, events, owed>>

WlanInterruptEnable ==
    /\ At("unmask")
    /\ int0' = TRUE
    /\ pc' = "sample"
    /\ UNCHANGED <<ulSpiState, cs, mailbox, taken, device>>

\* ReadWlanInterruptPin reads a line that is high, or that is low with no
\* handler to run first.
SamplePin ==
    /\ At("sample")
    /\ pc' = IF IrqLow THEN "polled" ELSE "end"
    /\ UNCHANGED <<driver, taken, device>>

\* The line fell in the cycle of the sample: main has read a low pin when the
\* handler starts.
SamplePinRace ==
    /\ PinRace
    /\ pc = "sample" /\ Pending
    /\ pc' = "polled"
    /\ UNCHANGED <<driver, taken, device>>

\* The polled write: INT0 is enabled while main shifts the bytes.
PolledWriteBegin ==
    /\ At("polled")
    /\ pc' = "polling"
    /\ UNCHANGED <<driver, taken, device>>

PolledWriteEnd ==
    /\ At("polling")
    /\ ShiftOut
    /\ ulSpiState' = "IDLE"
    /\ cs' = "high"
    /\ pc' = "end"
    /\ UNCHANGED <<int0, mailbox, events>>

\* Mutant: SpiWrite does not wait for the end of the transaction.
SpiWriteEndsEarly ==
    /\ At("end")
    /\ pc' = "idle"
    /\ UNCHANGED <<driver, taken, device>>

SpiWriteEnd ==
    /\ At("end") /\ ulSpiState = "IDLE"
    /\ pc' = "idle"
    /\ UNCHANGED <<driver, taken, device>>

\* A wait loop whose condition was read once, and was true, never ends.
HoistedLoop ==
    /\ Hoisted /\ ~Pending
    /\ \/ pc = "entry" /\ ulSpiState = "POWERUP"
       \/ pc \in {"setup", "end"} /\ ulSpiState # "IDLE"
    /\ pc' = "stuck"
    /\ UNCHANGED <<driver, taken, device>>

\* The HCI layer reads its mailbox while it waits for an answer.
Handles == mailbox = "full" \/ (mailbox = "unknown" /\ owed > 0)

\* Mutant: INT0 is not unmasked.
SpiResumeForgotten ==
    /\ At("idle") /\ Handles
    /\ mailbox' = "empty"
    /\ UNCHANGED <<pc, ulSpiState, cs, int0, taken, device>>

\* The main program has handled the packet in the mailbox: the last lines of
\* hci_event_handler free it and call SpiResumeSpi.
SpiResumeSpi ==
    /\ At("idle") /\ Handles
    /\ mailbox' = "empty"
    /\ int0' = TRUE
    /\ UNCHANGED <<pc, ulSpiState, cs, taken, device>>

-----------------------------------------------------------------------------
(* SPI_IRQ, the handler                                                     *)

IrqPowerup ==
    /\ Pending /\ ulSpiState = "POWERUP"
    /\ ulSpiState' = "INITIALIZED"
    /\ UNCHANGED <<pc, cs, int0, mailbox, taken, device>>

IrqWrite ==
    /\ Pending /\ ulSpiState = "WRITE_IRQ"
    /\ ShiftOut
    /\ ulSpiState' = "IDLE"
    /\ cs' = "high"
    /\ UNCHANGED <<pc, int0, mailbox, events>>

\* Mutant: SpiPauseSpi forgotten.
ReceiveUnpaused(left) ==
    /\ int0' = TRUE
    /\ mailbox' = left

\* The packet read is handed to SpiReceiveHandler with INT0 masked, which
\* either deals with it and unmasks INT0, or leaves it in the mailbox.
Receive(left) ==
    /\ int0' = (left = "empty")
    /\ mailbox' = left

\* It deals with the unsolicited events it lists, and leaves the others.
ReadEvent ==
    /\ events > 0 /\ events' = events - 1 /\ owed' = owed
    /\ \E left \in {"empty", "unknown"} : Receive(left)

\* It leaves an answer, but for those hci_unsol_event_handler consumes.
ReadAnswer ==
    /\ owed > 0 /\ owed' = owed - 1 /\ events' = events
    /\ \E left \in {"empty", "full"} : Receive(left)

\* Bytes read from a CC3000 without power are no event, and stay.
ReadNothing == UNCHANGED <<events, owed>> /\ Receive("full")

\* Mutant: the state is not set back to IDLE after the read.
IrqReadEot ==
    /\ Pending /\ ulSpiState = "IDLE"
    /\ ulSpiState' = "READ_EOT"
    /\ cs' = "high"
    /\ IF dev = "event" THEN ReadEvent \/ ReadAnswer ELSE ReadNothing
    /\ dev' = IF dev = "offlow" THEN dev ELSE "idle"
    /\ UNCHANGED <<pc, taken>>

\* A read while main is not polling, or polls between two bytes: after SPIF
\* was seen and before SPDR is written again.
IrqRead ==
    /\ Pending /\ ulSpiState = "IDLE"
    /\ cs' = "high"
    /\ IF dev = "event" THEN ReadEvent \/ ReadAnswer ELSE ReadNothing
    /\ dev' = IF dev = "offlow" THEN dev ELSE "idle"
    /\ UNCHANGED <<pc, ulSpiState, taken>>

\* A read that starts within a byte of the polled write takes the SPIF of that
\* byte for its own: what it reads is shifted by a byte and neither an event
\* nor data, so it stops after the header and stays in the mailbox.  The CC3000
\* has sent its packet, or announces it still; and main may wait for an SPIF
\* that the handler has cleared.
IrqReadGarbled ==
    /\ Pending /\ ulSpiState = "IDLE" /\ pc = "polling"
    /\ cs' = "high"
    /\ Receive("full")
    /\ \/ UNCHANGED <<dev, events, owed>>
       \/ /\ dev' = "idle"
          /\ \/ events > 0 /\ events' = events - 1 /\ owed' = owed
             \/ owed > 0 /\ owed' = owed - 1 /\ events' = events
    /\ pc' \in {"polling", "stuck"}
    /\ UNCHANGED <<ulSpiState, taken>>

-----------------------------------------------------------------------------
(* The CC3000                                                               *)

DevReleaseLine ==
    /\ dev \in {"offlow", "bootlow"}
    /\ dev' = IF dev = "offlow" THEN "off" ELSE "boot"
    /\ UNCHANGED <<pc, driver, taken, events, owed>>

\* Booting takes far longer than a turn of the loop that waits for the line
\* to go high: main sees it high before it goes low again.
DevBooted ==
    /\ dev = "boot" /\ pc # "await_high"
    /\ dev' = "booted"
    /\ UNCHANGED <<pc, driver, taken, events, owed>>

DevReady ==
    /\ dev = "armed"
    /\ dev' = "ready"
    /\ UNCHANGED <<pc, driver, taken, events, owed>>

DevEvent ==
    /\ dev \in {"idle", "armed", "ready", "event"}
    /\ events < MaxEvents
    /\ events' = events + 1
    /\ UNCHANGED <<pc, driver, taken, dev, owed>>

DevAnnounce ==
    /\ dev = "idle" /\ cs = "high" /\ events + owed > 0
    /\ dev' = "event"
    /\ UNCHANGED <<pc, driver, taken, events, owed>>

-----------------------------------------------------------------------------
\* The main program, apart from the calls it makes of its own accord.
Main ==
    \/ StartReadPin \/ StartEnable \/ StartSeesHigh \/ StartSeesLow
    \/ SpiClose
    \/ SpiWriteEntry \/ SpiFirstWrite \/ SpiFirstWriteEnd
    \/ WlanInterruptDisable \/ SpiWriteSetup \/ AssertCS \/ WlanInterruptEnable
    \/ SamplePin \/ SamplePinRace \/ PolledWriteBegin \/ PolledWriteEnd
    \/ SpiWriteEnd \/ SpiResumeSpi \/ HoistedLoop

SPI_IRQ == IrqPowerup \/ IrqWrite \/ IrqRead \/ IrqReadGarbled

DeviceStep == DevReleaseLine \/ DevBooted \/ DevReady \/ DevEvent \/ DevAnnounce

Next == Main \/ SpiOpen \/ SpiWrite \/ StopDisable \/ SPI_IRQ \/ DeviceStep

\* A pending handler runs; main executes an instruction after every handler,
\* however often the line is low, so it is not starved (strong fairness); the
\* CC3000 completes what it has begun.  Nothing obliges the application to
\* call, or the CC3000 to have a packet.
Fairness ==
    /\ WF_vars(SPI_IRQ)
    /\ SF_vars(Main)
    /\ WF_vars(DevReleaseLine) /\ WF_vars(DevBooted)
    /\ WF_vars(DevReady) /\ WF_vars(DevAnnounce)

Safety == Init /\ [][Next]_vars
Spec == Safety /\ Fairness

-----------------------------------------------------------------------------
(* Properties                                                               *)

\* The variables keep their types: ulSpiState only has the states below outside
\* the handler, and the packet of a SpiWrite is taken at most once at any time.
TypeOK ==
    /\ pc \in Labels
    /\ ulSpiState \in {"POWERUP", "INITIALIZED", "IDLE", "WRITE_IRQ"}
    /\ cs \in {"high", "low"}
    /\ int0 \in BOOLEAN
    /\ mailbox \in {"empty", "full", "unknown"}
    /\ taken \in 0..1
    /\ dev \in Device
    /\ events \in 0..MaxEvents
    /\ owed \in 0..MaxReplies

\* When SpiWrite has returned, the CC3000 has taken its packet, and once only,
\* whichever of the handler, the polled write and SpiFirstWrite shifted it out
\* and whatever the CC3000 announced meanwhile.
ExactlyOnce == pc \in {"idle", "stopping"} => taken = 1

\* spi_buffer is shared by every packet: while main has not handled the answer
\* in it, INT0 is masked, so no handler can overwrite it.  SpiWrite, which
\* masks and unmasks INT0 for its own purposes, must not undo this.  (It does
\* for an event the host does not list, which nobody waits for.)
UnreadIsMasked == mailbox = "full" => ~int0

\* The handler decides from ulSpiState alone whether it reads or writes: it
\* must never read from a CC3000 that lowered the line for something other
\* than a packet of its own, nor write to one that is not going to take the
\* packet.
HandlerInStep ==
    [][/\ IrqRead \/ IrqReadGarbled => dev \in {"event", "offlow"}
       /\ IrqWrite => taken' = taken + 1]_vars

\* The wait for IDLE in SpiWrite runs with INT0 masked: no handler can ever
\* end it, so the state must be IDLE already.
NoMaskedSpin == pc = "setup" => ulSpiState = "IDLE" /\ ~int0

\* The short first transaction, without a wait for the line, is made only when
\* the CC3000 has booted, also when the line was low before it was switched
\* on and the handler left POWERUP for that.
FirstWriteBooted == pc = "first" => dev = "booted"

\* The polled write is meant for "a missing interrupt between the CS assertion
\* and enabling back the interrupts".  No interrupt can be missed; what it does
\* is to repeat a packet that was taken, on a bus with CS high, where nobody
\* hears it.
PolledWriteUnheard == pc = "polling" => taken = 1 /\ cs = "high"

\* wlan_start gets to its first write whichever level the line had before.
StartCompletes == pc \in Starting ~> pc = "entry"

-----------------------------------------------------------------------------
(* The driver implements the blocking link.                                 *)

LinkUp == pc \in {"idle", "stuck"} \union Writing

Link == INSTANCE BlockingLink WITH
    up      <- LinkUp,
    packet  <- IF ~LinkUp \/ pc = "idle" THEN "none"
               ELSE IF taken = 0 THEN "given" ELSE "taken",
    mailbox <- IF LinkUp /\ mailbox = "full" THEN "full" ELSE "empty",
    Garbles <- PinRace

\* Every step of the driver is a step of the link or invisible to it, with the
\* races of the pin and of the wait loops included.  Where the pin races, the
\* polled write repeats a packet, and a read within it is garbled: that, and
\* nothing else, is what the link concedes.
ImplementsLink == Link!Safety

\* Without them, the driver also makes the progress the link promises.
ImplementsLinkLive == Link!Spec

=============================================================================
