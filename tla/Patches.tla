------------------------------- MODULE Patches -------------------------------
(***************************************************************************)
(* The two ways a patch goes to the CC3000 in portions: hci_patch_send        *)
(* (hci.c), which answers a patch request out of the host's memory, and       *)
(* nvmem_write_patch (nvmem.c), which programs it into a file.               *)
(*                                                                         *)
(* hci_patch_send builds every packet in the transmit buffer, where SpiWrite  *)
(* puts its own header in front and looks at the last cell, a magic number,   *)
(* before it sends: what matters is which cell is written over by which, so   *)
(* the buffer is a function from offsets to what is there.                   *)
(***************************************************************************)
EXTENDS Integers, SequencesExt

CONSTANTS
    SL_PATCH_PORTION_SIZE,  \* of hci_patch_send (1000 in the code)
    TxBufferSizes,          \* what the transmit buffer may be built with (131)
    SP_PORTION_SIZE,        \* of nvmem_write_patch (32)
    MaxPatch,               \* longest patch given to hci_patch_send
    MaxFile,                \* longest patch given to nvmem_write_patch
    OffsetWrap,             \* modulus of offset, a uint16_t
    Versions                \* of the patch that is programmed

SPI_HEADER_SIZE == 5
HCI_PATCH_HEADER_SIZE == 6
SIMPLE_LINK_HCI_PATCH_HEADER_SIZE == 2

\* A buffer holds at least the packet of an empty patch.
ASSUME PatchesAssumption ==
    /\ SL_PATCH_PORTION_SIZE \in Nat \ {0}
    /\ \A n \in TxBufferSizes :
          n \in Nat /\ n > SPI_HEADER_SIZE + HCI_PATCH_HEADER_SIZE
    /\ SP_PORTION_SIZE \in Nat \ {0}
    /\ MaxPatch \in Nat /\ MaxFile \in Nat
    /\ OffsetWrap \in Nat \ {0}

VARIABLES
    CC3000_TX_BUFFER_SIZE,               \* of this build
    pc,             \* "idle", "portions", "sent", "stuck", "writing", "written"
    usDataLength,   \* of the patch that is left
    patch,          \* bytes of it that were copied
    size,           \* ghost: of the patch given to hci_patch_send
    buf,            \* pucTxCommandBuffer, which is wlan_tx_buffer
    wire,           \* ghost: the packets given to the CC3000, headers of SPI off
    version,        \* ghost: the patch nvmem_write_patch is given
    total,          \* ghost: its length
    spLength, offset, spData, status,    \* of nvmem_write_patch
    file            \* the file of the CC3000: a version and an index, or none

sending == <<usDataLength, patch, size, buf, wire>>
writing == <<version, total, spLength, offset, spData, status, file>>
vars == <<CC3000_TX_BUFFER_SIZE, pc, sending, writing>>

Memory == 0 .. CC3000_TX_BUFFER_SIZE - 1
Magic == <<"magic", 0>>         \* CC3000_BUFFER_MAGIC_NUMBER
Old == <<"old", 0>>
Erased == <<"none", 0>>

Init ==
    /\ CC3000_TX_BUFFER_SIZE \in TxBufferSizes
    /\ pc = "idle"
    /\ usDataLength = 0 /\ patch = 0 /\ size = 0
    /\ buf = [i \in Memory |-> IF i = CC3000_TX_BUFFER_SIZE - 1 THEN Magic
                                                              ELSE Old]
    /\ wire = <<>>
    /\ version \in Versions /\ total = 0 /\ spLength = 0 /\ offset = 0
    /\ spData = 0 /\ status = 0
    /\ file = [i \in 0..OffsetWrap-1 |-> Erased]

-----------------------------------------------------------------------------
(* hci_patch_send                                                           *)

\* What memory becomes when cells are copied to it at an offset; what goes
\* beyond the buffer is written over other variables, which are left out.
Put(memory, at, cells) ==
    [i \in Memory |-> IF i \in at .. at + Len(cells) - 1
                     THEN cells[i - at + 1] ELSE memory[i]]
Header(n) == [i \in 1..n |-> <<"header", i>>]
SpiHeader == [i \in 1..SPI_HEADER_SIZE |-> <<"spi", i>>]
PatchBytes(from, n) == [i \in 1..n |-> <<"patch", from + i>>]

\* Mutant: a packet that fills the last cell, the magic number's, is let pass.
SpiWriteOffByOne(memory, from, n, next) ==
    LET framed == Put(memory, from, SpiHeader)
    IN  /\ buf' = framed
        /\ IF n + SPI_HEADER_SIZE <= CC3000_TX_BUFFER_SIZE
           THEN /\ wire' = Append(wire, [i \in 1..n |->
                                            framed[from + SPI_HEADER_SIZE + i - 1]])
                /\ pc' = next
           ELSE wire' = wire /\ pc' = "stuck"

\* SpiWrite(from, n): the header of SPI goes to the first cells.  When the last
\* cell of the buffer was written over, SpiWrite never returns; otherwise n cells
\* go to the CC3000 (and one of padding), and main goes on.
SpiWrite(memory, from, n, next) ==
    LET framed == Put(memory, from, SpiHeader)
    IN  /\ buf' = framed
        /\ IF framed[CC3000_TX_BUFFER_SIZE - 1] = Magic
           THEN /\ wire' = Append(wire, [i \in 1..n |->
                                            framed[from + SPI_HEADER_SIZE + i - 1]])
                /\ pc' = next
           ELSE wire' = wire /\ pc' = "stuck"

Smaller(a, b) == IF a < b THEN a ELSE b

\* The first packet, which is the only one if the patch is not longer than a
\* portion: the HCI header with the lengths, and a portion of the patch.
FirstPortion(length) ==
    /\ pc = "idle"
    /\ LET portion == Smaller(length, SL_PATCH_PORTION_SIZE)
           filled == Put(buf, SPI_HEADER_SIZE,
                         Header(HCI_PATCH_HEADER_SIZE) \o PatchBytes(0, portion))
       IN  /\ SpiWrite(filled, 0, portion + HCI_PATCH_HEADER_SIZE,
                       IF length <= SL_PATCH_PORTION_SIZE THEN "sent"
                                                          ELSE "portions")
           /\ usDataLength' = length - portion
           /\ patch' = portion
    /\ size' = length
    /\ UNCHANGED writing

\* The other portions: their length and their data at data_ptr, which is where
\* SpiWrite is told to begin.
NextPortion ==
    /\ pc = "portions" /\ usDataLength > 0
    /\ LET usTransLength == Smaller(usDataLength, SL_PATCH_PORTION_SIZE)
           data_ptr == SPI_HEADER_SIZE
           filled == Put(buf, data_ptr,
                         Header(SIMPLE_LINK_HCI_PATCH_HEADER_SIZE)
                            \o PatchBytes(patch, usTransLength))
       IN  /\ SpiWrite(filled, data_ptr,
                       usTransLength + SIMPLE_LINK_HCI_PATCH_HEADER_SIZE, pc)
           /\ usDataLength' = usDataLength - usTransLength
           /\ patch' = patch + usTransLength
    /\ UNCHANGED <<size, writing>>

PatchSent ==
    /\ pc = "portions" /\ usDataLength = 0
    /\ pc' = "sent"
    /\ UNCHANGED <<sending, writing>>

PatchReturn ==
    /\ pc = "sent"
    /\ pc' = "idle"
    /\ wire' = <<>> /\ patch' = 0 /\ size' = 0
    /\ UNCHANGED <<usDataLength, buf, writing>>

-----------------------------------------------------------------------------
(* nvmem_write_patch                                                        *)

WritePatch(spVersion, length) ==
    /\ pc = "idle"
    /\ version' = spVersion /\ total' = length
    /\ spLength' = length /\ offset' = 0 /\ spData' = 0 /\ status' = 0
    /\ pc' = "writing"
    /\ UNCHANGED <<sending, file>>

\* nvmem_write(ulFileId, length, offset, spDataPtr): the CC3000 programs the
\* bytes, or reports an error and programs none.
NvmemWrite(length) ==
    \/ /\ status' = 0
       /\ file' = [i \in DOMAIN file |->
                     IF i \in offset .. offset + length - 1
                     THEN <<version, spData + i - offset>> ELSE file[i]]
    \/ status' = 1 /\ file' = file

\* Mutant: a portion is written whatever is left.
WritePortionAlways ==
    /\ pc = "writing" /\ status = 0 /\ spLength > 0
    /\ NvmemWrite(SP_PORTION_SIZE)
    /\ offset' = (offset + SP_PORTION_SIZE) % OffsetWrap
    /\ spLength' = spLength - SP_PORTION_SIZE
    /\ spData' = spData + SP_PORTION_SIZE
    /\ UNCHANGED <<pc, sending, version, total>>

WritePortion ==
    /\ pc = "writing" /\ status = 0 /\ spLength >= SP_PORTION_SIZE
    /\ NvmemWrite(SP_PORTION_SIZE)
    /\ offset' = (offset + SP_PORTION_SIZE) % OffsetWrap
    /\ spLength' = spLength - SP_PORTION_SIZE
    /\ spData' = spData + SP_PORTION_SIZE
    /\ UNCHANGED <<pc, sending, version, total>>

WriteError ==
    /\ pc = "writing" /\ status # 0
    /\ pc' = "written"
    /\ UNCHANGED <<sending, writing>>

\* Mutant: a remainder of one byte is taken for none.
WriteRemainderOff ==
    /\ pc = "writing" /\ status = 0 /\ spLength < SP_PORTION_SIZE
    /\ IF spLength > 1 THEN NvmemWrite(spLength) ELSE UNCHANGED <<status, file>>
    /\ pc' = "written"
    /\ UNCHANGED <<sending, version, total, spLength, offset, spData>>

WriteRemainder ==
    /\ pc = "writing" /\ status = 0 /\ spLength < SP_PORTION_SIZE
    /\ IF spLength # 0 THEN NvmemWrite(spLength) ELSE UNCHANGED <<status, file>>
    /\ pc' = "written"
    /\ UNCHANGED <<sending, version, total, spLength, offset, spData>>

WriteReturn ==
    /\ pc = "written"
    /\ pc' = "idle"
    /\ total' = 0 /\ spLength' = 0 /\ offset' = 0 /\ spData' = 0
    /\ status' = 0
    /\ UNCHANGED <<sending, version, file>>

-----------------------------------------------------------------------------
hci_patch_send == \/ \E length \in 0..MaxPatch : FirstPortion(length)
                  \/ NextPortion \/ PatchSent \/ PatchReturn

nvmem_write_patch ==
    \/ \E spVersion \in Versions, length \in 0..MaxFile :
          WritePatch(spVersion, length)
    \/ WritePortion \/ WriteError \/ WriteRemainder \/ WriteReturn

Next == /\ hci_patch_send \/ nvmem_write_patch
        /\ UNCHANGED CC3000_TX_BUFFER_SIZE

Spec == Init /\ [][Next]_vars

-----------------------------------------------------------------------------
(* Properties                                                               *)

\* The variables keep their types; the length that is left, which the code keeps
\* without a sign, does not go below zero.
TypeOK ==
    /\ CC3000_TX_BUFFER_SIZE \in TxBufferSizes
    /\ pc \in {"idle", "portions", "sent", "stuck", "writing", "written"}
    /\ {usDataLength, patch, size} \subseteq 0..MaxPatch
    /\ DOMAIN buf = Memory
    /\ version \in Versions /\ status \in {0, 1}
    /\ {total, spLength, spData} \subseteq 0..MaxFile
    /\ offset \in 0..OffsetWrap-1
    /\ DOMAIN file = 0..OffsetWrap-1

\* The data of a packet: what follows its own header.
DataOf(n) ==
    LET header == IF n = 1 THEN HCI_PATCH_HEADER_SIZE
                           ELSE SIMPLE_LINK_HCI_PATCH_HEADER_SIZE
    IN  SubSeq(wire[n], header + 1, Len(wire[n]))

\* When hci_patch_send has nothing more to do, or can do nothing more, the data
\* of its packets, put together, are the patch.
WholePatch ==
    pc \in {"sent", "stuck"} =>
        FlattenSeq([n \in DOMAIN wire |-> DataOf(n)]) = PatchBytes(0, size)

\* A patch of at most one portion that leaves the last cell alone arrives in one
\* packet that carries its bytes; with any other first portion SpiWrite stops
\* before anything is sent.
ArrivesOrStops ==
    LET last == SPI_HEADER_SIZE + HCI_PATCH_HEADER_SIZE
                + Smaller(size, SL_PATCH_PORTION_SIZE) - 1
    IN  /\ pc = "sent" /\ size <= SL_PATCH_PORTION_SIZE =>
              Len(wire) = 1 /\ DataOf(1) = PatchBytes(0, size)
        /\ pc \in {"sent", "portions"} => last < CC3000_TX_BUFFER_SIZE - 1
        /\ pc = "stuck" => last >= CC3000_TX_BUFFER_SIZE - 1 /\ wire = <<>>

\* When nvmem_write_patch returns 0 the file begins with the whole patch,
\* whatever an earlier attempt left there.
FileWritten ==
    pc = "written" /\ status = 0 =>
        \A i \in 0..total-1 : file[i] = <<version, i>>

=============
