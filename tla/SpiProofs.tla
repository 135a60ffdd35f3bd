----------------------------- MODULE SpiProofs -----------------------------
(***************************************************************************)
(* Proofs about Spi, for every bound on the packets of the CC3000 and for    *)
(* builds and boards with and without the races of the pin and of the wait   *)
(* loops.  IInv is the inductive invariant: the phases of the main program   *)
(* determine the rest of the state.                                         *)
(***************************************************************************)
EXTENDS Spi, TLAPS

\* The CC3000 has no power, or boots: nothing is on its way.
Down ==
    /\ pc \in {"off", "stopping"} \union Starting =>
          /\ taken = 1 /\ cs = "high" /\ events = 0 /\ owed = 0
          /\ dev \in {"offlow", "off", "bootlow", "boot", "booted"}
    /\ pc \in Starting =>
          /\ int0 /\ mailbox = "empty"
          /\ ulSpiState \in {"POWERUP", "INITIALIZED"}
    /\ pc = "off" => ~int0
    /\ pc = "stopping" => ulSpiState = "IDLE"
    /\ pc \in {"off", "stopping", "open", "enable_low"} => dev \in {"offlow", "off"}
    /\ pc = "enable_high" => dev = "off"
    /\ pc = "await_high" => dev \in {"bootlow", "boot"}
    /\ pc = "await_low" => dev \in {"boot", "booted"}

\* From the call of SpiWrite to the transfer, and after it.
Before == pc \in {"entry", "first", "mask", "setup", "assert", "unmask"} => taken = 0

FirstPacket ==
    /\ pc = "entry" => ulSpiState \in {"POWERUP", "INITIALIZED", "IDLE"}
    /\ pc = "first" => ulSpiState = "INITIALIZED"
    /\ ulSpiState \in {"POWERUP", "INITIALIZED"} /\ pc \notin {"off"} \union Starting =>
          /\ pc \in {"entry", "first"}
          /\ dev = "booted" /\ int0
    /\ pc = "first_end" => taken = 1

Masked ==
    /\ pc \in {"mask", "setup"} => ulSpiState = "IDLE"
    /\ pc \in {"setup", "assert", "unmask"} => ~int0
    /\ pc \in {"assert", "unmask"} => ulSpiState = "WRITE_IRQ"

\* While the handler is to write, the packet is still to be taken, CS is low
\* and the CC3000 is about to take it; and conversely.
HandlerWrites ==
    /\ ulSpiState = "WRITE_IRQ" =>
          /\ pc \in {"assert", "unmask", "sample", "polled", "polling", "end", "stuck"}
          /\ taken = 0
          /\ pc # "assert" => cs = "low" /\ dev \in {"armed", "ready", "event"}
    /\ dev \in {"armed", "ready"} => ulSpiState = "WRITE_IRQ" /\ pc # "assert"
    /\ pc \in {"sample", "polled", "polling", "end", "stuck"}
          /\ ulSpiState # "WRITE_IRQ" => taken = 1
    /\ pc \in {"polled", "polling"} /\ int0 => PinRace
    /\ pc \in {"sample", "polled"} /\ ulSpiState = "WRITE_IRQ" => int0
    /\ pc = "polled" /\ ulSpiState = "WRITE_IRQ" => IrqLow
    /\ pc = "polling" => taken = 1

\* The CC3000 is on.
Up ==
    LinkUp /\ ulSpiState \in {"IDLE", "WRITE_IRQ"} =>
          dev \in {"idle", "armed", "ready", "event"}

ChipSelect == cs = "low" => ulSpiState = "WRITE_IRQ" \/ pc = "first_end"

Answers ==
    /\ taken = 0 => owed = 0 /\ mailbox # "full"
    /\ dev = "event" => events + owed > 0
    /\ pc \in {"idle", "stopping"} => taken = 1 /\ ulSpiState = "IDLE"
    /\ dev = "booted" => events = 0

IInv ==
    /\ TypeOK /\ Down /\ Before /\ FirstPacket /\ Masked /\ HandlerWrites
    /\ Up /\ ChipSelect /\ Answers /\ UnreadIsMasked

-----------------------------------------------------------------------------
(* The invariant is inductive.                                              *)

\* The program starts, with everything off, in a state of the invariant.
LEMMA InitIInv == Init => IInv
  <1> SUFFICES ASSUME Init PROVE IInv
    OBVIOUS
  <1> USE DEF Init, Starting, Writing, Labels, Device
  <1>1. TypeOK
    <2>1. int0 \in BOOLEAN
      BY Zenon
    <2>2. 0 \in 0..MaxEvents /\ 0 \in 0..MaxReplies /\ 1 \in 0..1
      BY SpiAssumption DEF SpiAssumption
    <2> QED
      BY <2>1, <2>2 DEF TypeOK
  <1>2. Down /\ Before /\ FirstPacket /\ Masked
    BY DEF Down, Before, FirstPacket, Masked
  <1>3. HandlerWrites /\ Up /\ ChipSelect
    BY DEF HandlerWrites, Up, LinkUp, ChipSelect, IrqLow
  <1>4. Answers /\ UnreadIsMasked
    BY DEF Answers, UnreadIsMasked
  <1> QED
    BY <1>1, <1>2, <1>3, <1>4 DEF IInv

\* Every step of main, of the handler and of the CC3000 keeps the invariant:
\* one step of the proof for each action.
LEMMA NextIInv == IInv /\ [Next]_vars => IInv'
  <1> SUFFICES ASSUME IInv, [Next]_vars PROVE IInv'
    OBVIOUS
  <1> USE SpiAssumption DEF SpiAssumption, IInv, TypeOK, Down, Before, FirstPacket, Masked, HandlerWrites,
       Up, LinkUp, ChipSelect, Answers, UnreadIsMasked, Starting, Writing, Labels,
          Device, IrqLow, Pending, At, driver, device
  <1>1. CASE SpiOpen
    BY <1>1 DEF SpiOpen
  <1>2. CASE StartReadPin
    BY <1>2 DEF StartReadPin
  <1>3. CASE StartEnable
    BY <1>3 DEF StartEnable, Power
  <1>4. CASE StartSeesHigh
    BY <1>4 DEF StartSeesHigh
  <1>5. CASE StartSeesLow
    BY <1>5 DEF StartSeesLow
  <1>6. CASE StopDisable
    BY <1>6 DEF StopDisable
  <1>7. CASE SpiClose
    BY <1>7 DEF SpiClose
  <1>8. CASE SpiWrite
    BY <1>8 DEF SpiWrite
  <1>9. CASE SpiWriteEntry
    BY <1>9 DEF SpiWriteEntry
  <1>10. CASE SpiFirstWrite
    BY <1>10 DEF SpiFirstWrite, ShiftOut, Takes
  <1>11. CASE SpiFirstWriteEnd
    BY <1>11 DEF SpiFirstWriteEnd
  <1>12. CASE WlanInterruptDisable
    BY <1>12 DEF WlanInterruptDisable
  <1>13. CASE SpiWriteSetup
    BY <1>13 DEF SpiWriteSetup
  <1>14. CASE AssertCS
    BY <1>14 DEF AssertCS
  <1>15. CASE WlanInterruptEnable
    BY <1>15 DEF WlanInterruptEnable
  <1>16. CASE SamplePin
    BY <1>16 DEF SamplePin
  <1>17. CASE SamplePinRace
    BY <1>17 DEF SamplePinRace
  <1>18. CASE PolledWriteBegin
    BY <1>18 DEF PolledWriteBegin
  <1>19. CASE PolledWriteEnd
    BY <1>19 DEF PolledWriteEnd, ShiftOut, Takes
  <1>20. CASE SpiWriteEnd
    BY <1>20 DEF SpiWriteEnd
  <1>21. CASE HoistedLoop
    BY <1>21 DEF HoistedLoop
  <1>22. CASE SpiResumeSpi
    BY <1>22 DEF SpiResumeSpi, Handles
  <1>23. CASE IrqPowerup
    BY <1>23 DEF IrqPowerup
  <1>24. CASE IrqWrite
    BY <1>24 DEF IrqWrite, ShiftOut, Takes
  <1>25. CASE IrqRead
    <2> USE <1>25 DEF IrqRead
    <2>1. CASE dev = "event" /\ ReadEvent
      <3> PICK left \in {"empty", "unknown"} : Receive(left)
        BY <2>1 DEF ReadEvent
      <3>1. int0' \in BOOLEAN /\ mailbox' \in {"empty", "unknown"}
        BY Zenon DEF Receive
      <3>2. events' \in 0..MaxEvents /\ owed' = owed
        BY <2>1 DEF ReadEvent
      <3> QED
        BY <2>1, <3>1, <3>2
    <2>2. CASE dev = "event" /\ ReadAnswer
      <3> PICK left \in {"empty", "full"} : Receive(left)
        BY <2>2 DEF ReadAnswer
      <3>1. int0' \in BOOLEAN /\ (mailbox' = "full" => ~int0') /\ mailbox' \in {"empty", "full"}
        BY Zenon DEF Receive
      <3>2. taken = 1 /\ events' = events /\ owed' \in 0..MaxReplies
        BY <2>2 DEF ReadAnswer
      <3> QED
        BY <2>2, <3>1, <3>2
    <2>3. CASE dev # "event" /\ ReadNothing
      <3>1. int0' \in BOOLEAN /\ ~int0' /\ mailbox' = "full"
        BY <2>3, Zenon DEF ReadNothing, Receive
      <3>2. dev = "offlow" /\ pc = "stopping"
        BY <2>3
      <3>3. UNCHANGED <<pc, ulSpiState, taken, dev, events, owed>> /\ cs' = "high"
        BY <2>3, <3>2 DEF ReadNothing
      <3> QED
        BY <3>1, <3>2, <3>3
    <2> QED
      BY <2>1, <2>2, <2>3
  <1>32. CASE IrqReadGarbled
    <2> USE <1>32 DEF IrqReadGarbled
    <2>1. int0' \in BOOLEAN /\ ~int0' /\ mailbox' = "full"
      BY Zenon DEF Receive
    <2>2. taken = 1 /\ ulSpiState = "IDLE" /\ dev = "event" /\ cs' = "high"
      OBVIOUS
    <2>3. pc' \in {"polling", "stuck"} /\ UNCHANGED <<ulSpiState, taken>>
      OBVIOUS
    <2>4. CASE UNCHANGED <<dev, events, owed>>
      BY <2>1, <2>2, <2>3, <2>4
    <2>5. CASE dev' = "idle" /\ events' \in 0..MaxEvents /\ owed' \in 0..MaxReplies
      BY <2>1, <2>2, <2>3, <2>5
    <2> QED
      BY <2>4, <2>5
  <1>26. CASE DevReleaseLine
    BY <1>26 DEF DevReleaseLine
  <1>27. CASE DevBooted
    BY <1>27 DEF DevBooted
  <1>28. CASE DevReady
    BY <1>28 DEF DevReady
  <1>29. CASE DevEvent
    BY <1>29 DEF DevEvent
  <1>30. CASE DevAnnounce
    BY <1>30 DEF DevAnnounce
  <1>31. CASE UNCHANGED vars
    BY <1>31 DEF vars
  <1> QED
    BY <1>1, <1>2, <1>3, <1>4, <1>5, <1>6, <1>7, <1>8, <1>9, <1>10, <1>11,
       <1>12, <1>13, <1>14, <1>15, <1>16, <1>17, <1>18, <1>19, <1>20, <1>21,
       <1>22, <1>23, <1>24, <1>25, <1>26, <1>27, <1>28, <1>29, <1>30, <1>31, <1>32
       DEF Next, Main, SPI_IRQ, DeviceStep

\* The inductive invariant holds in every state the program reaches.
THEOREM Invariance == Safety => []IInv
  BY InitIInv, NextIInv, PTL DEF Safety

-----------------------------------------------------------------------------
(* The safety properties.                                                   *)

\* The state of the driver keeps its types; the packet of a SpiWrite is taken
\* at most once at any time (taken \in 0..1).
THEOREM TypeCorrect == Safety => []TypeOK
  BY Invariance, PTL DEF IInv

\* SpiWrite has the packet taken exactly once when it returns: no interleaving
\* of the handler, the polled write and the CC3000 loses or repeats it.
THEOREM ExactlyOnceHolds == Safety => []ExactlyOnce
  <1>1. IInv => ExactlyOnce
    BY DEF IInv, Answers, ExactlyOnce
  <1> QED
    BY <1>1, Invariance, PTL

\* A packet main has not handled is never overwritten by the handler.
THEOREM UnreadIsMaskedHolds == Safety => []UnreadIsMasked
  BY Invariance, PTL DEF IInv

\* SpiWrite never waits for IDLE with the handler masked out.
THEOREM NoMaskedSpinHolds == Safety => []NoMaskedSpin
  <1>1. IInv => NoMaskedSpin
    BY DEF IInv, Masked, NoMaskedSpin
  <1> QED
    BY <1>1, Invariance, PTL

\* The first write goes to a CC3000 that has booted.
THEOREM FirstWriteBootedHolds == Safety => []FirstWriteBooted
  <1>1. IInv => FirstWriteBooted
    BY DEF IInv, FirstPacket, FirstWriteBooted, Starting
  <1> QED
    BY <1>1, Invariance, PTL

\* The polled write of SpiWrite comes after the packet was taken, always, and
\* shifts it out with CS high: it never finds an interrupt that was missed.
THEOREM PolledWriteUnheardHolds == Safety => []PolledWriteUnheard
  <1>1. IInv => PolledWriteUnheard
    BY DEF PolledWriteUnheard, IInv, TypeOK, HandlerWrites, ChipSelect
  <1> QED
    BY <1>1, Invariance, PTL

\* The handler reads only what the CC3000 announced (or a line that is still
\* low after the power went off), and writes only what the CC3000 takes.
THEOREM HandlerInStepHolds == Safety => HandlerInStep
  <1> DEFINE Step == /\ IrqRead \/ IrqReadGarbled => dev \in {"event", "offlow"}
                     /\ IrqWrite => taken' = taken + 1
  <1>1. IInv /\ [Next]_vars => [Step]_vars
    <2> SUFFICES ASSUME IInv PROVE Step
      OBVIOUS
    <2>1. IrqRead \/ IrqReadGarbled => dev \in {"event", "offlow"}
      BY DEF IInv, TypeOK, Down, FirstPacket, HandlerWrites, Up, LinkUp, IrqRead,
             IrqReadGarbled, Pending, IrqLow, Labels, Starting
    <2>2. IrqWrite => taken' = taken + 1
      BY DEF IInv, Masked, HandlerWrites, IrqWrite, Pending, IrqLow, ShiftOut, Takes
    <2> QED
      BY <2>1, <2>2
  <1> QED
    BY <1>1, Invariance, PTL DEF Safety, HandlerInStep

-----------------------------------------------------------------------------
(* Spi implements BlockingLink, step by step.                               *)

\* Before wlan_start the blocking link is down and carries nothing.
LEMMA LinkInit == Init => Link!Init
  BY DEF Init, Link!Init, LinkUp, Writing

\* Every step of the driver is a step of the blocking link, or none of it.
LEMMA LinkStep == IInv /\ [Next]_vars => [Link!Next]_Link!vars
  <1> SUFFICES ASSUME IInv, [Next]_vars PROVE Link!Next \/ UNCHANGED Link!vars
    BY DEF Link!vars
  <1> USE SpiAssumption DEF SpiAssumption, IInv, TypeOK, Down, Before, FirstPacket, Masked,
          HandlerWrites, Up, LinkUp, ChipSelect, Answers, UnreadIsMasked, Starting, Writing,
          Labels, Device, IrqLow, Pending, At, driver, device
  <1>1. CASE StartSeesLow
    BY <1>1 DEF StartSeesLow, Link!Start, Link!Next
  <1>2. CASE SpiOpen
    BY <1>2 DEF SpiOpen, Link!vars
  <1>3. CASE StartReadPin
    BY <1>3 DEF StartReadPin, Link!vars
  <1>4. CASE StartEnable
    BY <1>4 DEF StartEnable, Power, Link!vars
  <1>5. CASE StartSeesHigh
    BY <1>5 DEF StartSeesHigh, Link!vars
  <1>6. CASE StopDisable
    BY <1>6 DEF StopDisable, Link!Stop, Link!Quiet, Link!Next
  <1>7. CASE SpiClose
    BY <1>7 DEF SpiClose, Link!vars
  <1>8. CASE SpiWrite
    BY <1>8 DEF SpiWrite, Link!Give, Link!Quiet, Link!Next
  <1>9. CASE SpiWriteEntry
    BY <1>9 DEF SpiWriteEntry, Link!vars
  <1>10. CASE SpiFirstWrite
    BY <1>10 DEF SpiFirstWrite, ShiftOut, Takes, Link!Take, Link!Next
  <1>11. CASE SpiFirstWriteEnd
    BY <1>11 DEF SpiFirstWriteEnd, Link!vars
  <1>12. CASE WlanInterruptDisable
    BY <1>12 DEF WlanInterruptDisable, Link!vars
  <1>13. CASE SpiWriteSetup
    BY <1>13 DEF SpiWriteSetup, Link!vars
  <1>14. CASE AssertCS
    BY <1>14 DEF AssertCS, Link!vars
  <1>15. CASE WlanInterruptEnable
    BY <1>15 DEF WlanInterruptEnable, Link!vars
  <1>16. CASE SamplePin
    BY <1>16 DEF SamplePin, Link!vars
  <1>17. CASE SamplePinRace
    BY <1>17 DEF SamplePinRace, Link!vars
  <1>18. CASE PolledWriteBegin
    BY <1>18 DEF PolledWriteBegin, Link!vars
  <1>19. CASE PolledWriteEnd
    BY <1>19 DEF PolledWriteEnd, ShiftOut, Takes, Link!vars
  <1>20. CASE SpiWriteEnd
    BY <1>20 DEF SpiWriteEnd, Link!Return, Link!Next
  <1>21. CASE HoistedLoop
    BY <1>21 DEF HoistedLoop, Link!vars
  <1>22. CASE SpiResumeSpi
    BY <1>22 DEF SpiResumeSpi, Handles, Link!Handle, Link!Next, Link!vars
  <1>23. CASE IrqPowerup
    BY <1>23 DEF IrqPowerup, Link!vars
  <1>24. CASE IrqWrite
    BY <1>24 DEF IrqWrite, ShiftOut, Takes, Link!Take, Link!Next
  <1>25. CASE IrqRead
    <2> USE <1>25 DEF IrqRead
    <2>1. CASE dev = "event" /\ ReadEvent
      <3> PICK left \in {"empty", "unknown"} : Receive(left)
        BY <2>1 DEF ReadEvent
      <3>1. mailbox' \in {"empty", "unknown"}
        BY Zenon DEF Receive
      <3>2. events > 0 /\ events' = events - 1 /\ owed' = owed
        BY <2>1 DEF ReadEvent
      <3> QED
        BY <2>1, <3>1, <3>2 DEF Link!DeliverEvent, Link!Deliver, Link!Next
    <2>2. CASE dev = "event" /\ ReadAnswer
      <3> PICK left \in {"empty", "full"} : Receive(left)
        BY <2>2 DEF ReadAnswer
      <3>1. mailbox' \in {"empty", "full"}
        BY Zenon DEF Receive
      <3>2. owed > 0 /\ owed' = owed - 1 /\ events' = events
        BY <2>2 DEF ReadAnswer
      <3> QED
        BY <2>2, <3>1, <3>2 DEF Link!DeliverAnswer, Link!Deliver, Link!Next
    <2>3. CASE dev # "event" /\ ReadNothing
      <3>1. dev = "offlow" /\ pc = "stopping"
        BY <2>3
      <3> QED
        BY <2>3, <3>1 DEF ReadNothing, Link!vars
    <2> QED
      BY <2>1, <2>2, <2>3
  <1>32. CASE IrqReadGarbled
    <2> USE <1>32 DEF IrqReadGarbled
    <2>1. mailbox' = "full"
      BY Zenon DEF Receive
    <2>2. taken = 1 /\ taken' = 1 /\ pc = "polling" /\ pc' \in {"polling", "stuck"}
      OBVIOUS
    <2>3. mailbox # "full" /\ PinRace
      OBVIOUS
    <2>4. \/ UNCHANGED <<events, owed>>
          \/ events > 0 /\ events' = events - 1 /\ owed' = owed
          \/ owed > 0 /\ owed' = owed - 1 /\ events' = events
      OBVIOUS
    <2> QED
      BY <2>1, <2>2, <2>3, <2>4 DEF Link!Garble, Link!Next
  <1>26. CASE DevReleaseLine
    BY <1>26 DEF DevReleaseLine, Link!vars
  <1>27. CASE DevBooted
    BY <1>27 DEF DevBooted, Link!vars
  <1>28. CASE DevReady
    BY <1>28 DEF DevReady, Link!vars
  <1>29. CASE DevEvent
    BY <1>29 DEF DevEvent, Link!Event, Link!Next
  <1>30. CASE DevAnnounce
    BY <1>30 DEF DevAnnounce, Link!vars
  <1>31. CASE UNCHANGED vars
    BY <1>31 DEF vars, Link!vars
  <1> QED
    BY <1>1, <1>2, <1>3, <1>4, <1>5, <1>6, <1>7, <1>8, <1>9, <1>10, <1>11,
       <1>12, <1>13, <1>14, <1>15, <1>16, <1>17, <1>18, <1>19, <1>20, <1>21,
       <1>22, <1>23, <1>24, <1>25, <1>26, <1>27, <1>28, <1>29, <1>30, <1>31, <1>32
       DEF Next, Main, SPI_IRQ, DeviceStep

\* The driver takes no step that the blocking link does not allow: a packet
\* given is taken once, a packet of the CC3000 arrives once and never before the
\* one ahead of it was handled.  Without the race of the pin the link loses and
\* garbles nothing; with it, only what is read while a packet that was taken is
\* repeated.
THEOREM ImplementsLinkHolds == Safety => ImplementsLink
  BY LinkInit, LinkStep, Invariance, PTL DEF Safety, ImplementsLink, Link!Safety

=============================================================================
