---------------------------- MODULE PatchesProofs ----------------------------
(***************************************************************************)
(* Patches: a patch that is programmed is in the file as a whole, and one     *)
(* that is sent goes out as it is when its packet fits into the transmit      *)
(* buffer; when it does not, nothing is sent.                               *)
(***************************************************************************)
EXTENDS Patches, SequenceTheorems, TLAPS

\* What was sent and what is left make up the patch, in both loops.
TypeInv ==
    /\ TypeOK
    /\ pc \in {"portions", "sent"} => usDataLength + patch = size
    /\ pc = "writing" => spData + spLength = total

\* A portion is taken off what is left and added to what was sent.
LEMMA TakePortion ==
    ASSUME NEW max \in Nat, NEW done \in 0..max, NEW left \in 0..max,
           NEW all \in 0..max, done + left = all, NEW n \in Nat, n <= left
    PROVE  /\ left - n \in 0..max /\ done + n \in 0..max
           /\ (done + n) + (left - n) = all
  OBVIOUS

\* The smaller of the portion and what is left.
LEMMA SmallerIs ==
    ASSUME NEW a \in Nat, NEW b \in Nat
    PROVE  /\ Smaller(a, b) \in Nat /\ Smaller(a, b) <= a
           /\ a <= b => Smaller(a, b) = a
  BY DEF Smaller

\* Put changes cells, not the memory.
LEMMA PutDomain ==
    \A memory, at, cells : DOMAIN Put(memory, at, cells) = Memory
  BY DEF Put

\* A portion is never more than what is left.
LEMMA TypeInductive ==
    /\ Init => TypeInv
    /\ TypeInv /\ [Next]_vars => TypeInv'
<1> USE DEF TypeInv, TypeOK
<1>1. Init => TypeInv
  BY PatchesAssumption DEF Init, PatchesAssumption
<1>2. ASSUME TypeInv, [Next]_vars PROVE TypeInv'
  <2> USE TypeInv, PatchesAssumption DEF PatchesAssumption, sending, writing
  <2>size. CC3000_TX_BUFFER_SIZE' = CC3000_TX_BUFFER_SIZE /\ Memory' = Memory
    BY <1>2 DEF Next, vars, Memory
  <2> USE <2>size
  <2>0. /\ usDataLength \in 0..MaxPatch /\ patch \in 0..MaxPatch
        /\ size \in 0..MaxPatch /\ total \in 0..MaxFile
        /\ spLength \in 0..MaxFile /\ spData \in 0..MaxFile
        /\ SL_PATCH_PORTION_SIZE \in Nat /\ SP_PORTION_SIZE \in Nat
    OBVIOUS
  <2>1. ASSUME NEW length \in 0..MaxPatch, FirstPortion(length)
        PROVE  TypeInv'
    <3> DEFINE portion == Smaller(length, SL_PATCH_PORTION_SIZE)
    <3>1. portion \in Nat /\ portion <= length
      <4>1. length \in Nat
        OBVIOUS
      <4> QED BY ONLY <2>0, <4>1, SmallerIs
    <3>2. DOMAIN buf' = Memory
      BY <2>1, PutDomain DEF FirstPortion, SpiWrite
    <3>3. /\ usDataLength' = length - portion /\ patch' = portion
          /\ size' = length /\ pc' \in {"sent", "portions", "stuck"}
          /\ UNCHANGED writing
      BY <2>1 DEF FirstPortion, SpiWrite
    <3> HIDE DEF portion
    <3>4. /\ length - portion \in 0..MaxPatch /\ 0 + portion \in 0..MaxPatch
          /\ (0 + portion) + (length - portion) = length
      BY <3>1, TakePortion
    <3>5. {usDataLength', patch', size'} \subseteq 0..MaxPatch
      <4>1. length - portion \in 0..MaxPatch /\ portion \in 0..MaxPatch
        BY ONLY <3>1, <3>4
      <4>2. length \in 0..MaxPatch
        OBVIOUS
      <4> QED BY ONLY <3>3, <4>1, <4>2
    <3>6. usDataLength' + patch' = size'
      <4>1. length \in Nat
        OBVIOUS
      <4> QED BY ONLY <3>1, <3>3, <4>1
    <3>7. pc' # "writing"
      BY ONLY <3>3
    <3> QED
      BY <3>2, <3>3, <3>5, <3>6, <3>7
  <2>2. CASE NextPortion
    <3> DEFINE portion == Smaller(usDataLength, SL_PATCH_PORTION_SIZE)
    <3>1. portion \in Nat /\ portion <= usDataLength
      <4>1. usDataLength \in Nat
        BY <2>0
      <4> QED BY ONLY <2>0, <4>1, SmallerIs
    <3>2. /\ usDataLength - portion \in 0..MaxPatch
          /\ patch + portion \in 0..MaxPatch
          /\ (patch + portion) + (usDataLength - portion) = size
      <4>1. patch + usDataLength = size
        BY <2>0, <2>2 DEF NextPortion
      <4> HIDE DEF portion
      <4> QED
        BY <2>0, <3>1, <4>1, TakePortion
    <3>3. DOMAIN buf' = Memory
      BY <2>2, PutDomain DEF NextPortion, SpiWrite
    <3>4. /\ usDataLength' = usDataLength - portion /\ patch' = patch + portion
          /\ UNCHANGED <<size, writing>> /\ pc' \in {"portions", "stuck"}
          /\ pc = "portions"
      BY <2>2 DEF NextPortion, SpiWrite
    <3> HIDE DEF portion
    <3>5. /\ usDataLength' \in 0..MaxPatch /\ patch' \in 0..MaxPatch
          /\ usDataLength' + patch' = size'
      BY <2>0, <3>1, <3>2, <3>4
    <3> QED
      BY <3>3, <3>4, <3>5
  <2>3. CASE PatchSent
    BY <2>3 DEF PatchSent
  <2>9. CASE PatchReturn
    <3>1. /\ pc' = "idle" /\ patch' = 0 /\ size' = 0
          /\ UNCHANGED <<usDataLength, buf, writing>>
      BY <2>9 DEF PatchReturn
    <3>2. 0 \in 0..MaxPatch
      OBVIOUS
    <3> QED BY <3>1, <3>2
  <2>4. ASSUME NEW spVersion \in Versions, NEW length \in 0..MaxFile,
               WritePatch(spVersion, length)
        PROVE  TypeInv'
    BY <2>4 DEF WritePatch
  <2>5. CASE WritePortion
    <3>1. /\ spLength - SP_PORTION_SIZE \in 0..MaxFile
          /\ spData + SP_PORTION_SIZE \in 0..MaxFile
          /\ (spData + SP_PORTION_SIZE) + (spLength - SP_PORTION_SIZE) = total
      <4>1. SP_PORTION_SIZE <= spLength /\ spData + spLength = total
        BY <2>0, <2>5 DEF WritePortion
      <4> QED
        BY <2>0, <4>1, TakePortion
    <3>2. offset' \in 0..OffsetWrap-1
      <4>1. offset' = (offset + SP_PORTION_SIZE) % OffsetWrap
        BY <2>5 DEF WritePortion
      <4>2. /\ offset + SP_PORTION_SIZE \in Nat
            /\ OffsetWrap \in Nat /\ OffsetWrap > 0
        OBVIOUS
      <4> QED BY ONLY <4>1, <4>2
    <3>3. status' \in {0, 1} /\ DOMAIN file' = 0..OffsetWrap-1
      BY <2>5 DEF WritePortion, NvmemWrite
    <3>4. /\ spLength' = spLength - SP_PORTION_SIZE
          /\ spData' = spData + SP_PORTION_SIZE
          /\ UNCHANGED <<pc, sending, version, total>>
      BY <2>5 DEF WritePortion
    <3> QED
      BY <2>5, <3>1, <3>2, <3>3, <3>4 DEF WritePortion
  <2>6. CASE WriteRemainder
    BY <2>6 DEF WriteRemainder, NvmemWrite
  <2>7. CASE WriteError \/ WriteReturn
    <3>1. UNCHANGED <<usDataLength, patch, size, buf>>
      BY <2>7 DEF WriteError, WriteReturn
    <3>2. /\ pc' \in {"written", "idle"} /\ version' = version
          /\ UNCHANGED <<total, spLength, offset, spData, status, file>>
             \/ /\ total' = 0 /\ spLength' = 0 /\ offset' = 0 /\ spData' = 0
                /\ status' = 0 /\ file' = file
      BY <2>7 DEF WriteError, WriteReturn
    <3>3. DOMAIN buf' = Memory
      BY <3>1
    <3>4. {total', spLength', spData'} \subseteq 0..MaxFile
          /\ offset' \in 0..OffsetWrap-1 /\ status' \in {0, 1}
          /\ DOMAIN file' = 0..OffsetWrap-1
      <4>1. /\ {total, spLength, spData} \subseteq 0..MaxFile
            /\ offset \in 0..OffsetWrap-1 /\ status \in {0, 1}
            /\ DOMAIN file = 0..OffsetWrap-1
        OBVIOUS
      <4>2. 0 \in 0..MaxFile /\ 0 \in 0..OffsetWrap-1
        OBVIOUS
      <4> QED BY ONLY <3>2, <4>1, <4>2
    <3> QED BY <3>1, <3>2, <3>3, <3>4
  <2>8. CASE UNCHANGED vars
    BY <2>8 DEF vars
  <2> QED
    BY <1>2, <2>1, <2>2, <2>3, <2>4, <2>5, <2>6, <2>7, <2>8, <2>9
       DEF Next, hci_patch_send, nvmem_write_patch
<1> QED
  BY <1>1, <1>2

\* The length that is left never goes below zero, in a send of a patch and in
\* the programming of one.
THEOREM TypeOKHolds == Spec => []TypeOK
<1>1. TypeInv => TypeOK
  BY DEF TypeInv
<1> QED
  BY <1>1, TypeInductive, PTL DEF Spec

-----------------------------------------------------------------------------
(* nvmem_write_patch                                                        *)

\* The file begins with the part of the patch that was written, and the next
\* byte goes where it belongs: offset, which has 16 bits, is still spData as
\* long as there is something left to write.
Begins(n) == \A i \in 0..n-1 : file[i] = <<version, i>>

FileInv ==
    /\ pc = "writing" /\ spLength > 0 => offset = spData
    /\ pc = "writing" /\ status = 0 => Begins(spData)
    /\ FileWritten

\* A portion that the CC3000 programs is joined to what is there.
LEMMA WriteJoins ==
    ASSUME TypeOK, MaxFile <= OffsetWrap,
           NEW n \in Nat, spData + n <= MaxFile, n > 0 => offset = spData,
           Begins(spData), NvmemWrite(n), status' = 0, version' = version
    PROVE  \A i \in 0..spData+n-1 : file'[i] = <<version, i>>'
<1>1. spData \in Nat /\ MaxFile \in Nat /\ OffsetWrap \in Nat
      /\ offset \in Nat /\ DOMAIN file = 0..OffsetWrap-1
  BY PatchesAssumption DEF PatchesAssumption, TypeOK
<1>2. file' = [i \in DOMAIN file |-> IF i \in offset .. offset + n - 1
                                     THEN <<version, spData + i - offset>>
                                     ELSE file[i]]
  BY DEF NvmemWrite
<1> SUFFICES ASSUME NEW i \in 0..spData+n-1 PROVE file'[i] = <<version, i>>
  OBVIOUS
<1>3. i \in DOMAIN file /\ i \in Nat
  BY <1>1
<1>4. CASE i < spData
  <2>1. i \notin offset .. offset + n - 1
    BY <1>1, <1>3, <1>4
  <2>2. file'[i] = file[i] /\ i \in 0..spData-1
    BY <1>1, <1>2, <1>3, <1>4, <2>1
  <2> QED
    BY <2>2 DEF Begins
<1>5. CASE i >= spData
  <2>1. offset = spData /\ i \in offset .. offset + n - 1
    BY <1>1, <1>3, <1>5
  <2>2. file'[i] = <<version, spData + i - offset>>
    BY <1>2, <1>3, <2>1
  <2>3. spData + i - offset = i
    BY <1>1, <1>3, <2>1
  <2> QED
    BY <2>2, <2>3
<1> QED
  BY <1>1, <1>3, <1>4, <1>5

\* Portions of the same size follow each other, and the remainder follows them.
LEMMA FileInductive ==
    ASSUME MaxFile <= OffsetWrap
    PROVE  /\ Init => FileInv
           /\ TypeInv /\ FileInv /\ [Next]_vars => FileInv'
<1> USE DEF FileInv, FileWritten, Begins
<1>1. Init => FileInv
  BY DEF Init
<1>2. ASSUME TypeInv, FileInv, [Next]_vars PROVE FileInv'
  <2> USE FileInv DEF sending, writing
  <2>0. /\ total \in 0..MaxFile /\ spLength \in 0..MaxFile
        /\ spData \in 0..MaxFile /\ MaxFile \in Nat /\ OffsetWrap \in Nat \ {0}
        /\ SP_PORTION_SIZE \in Nat \ {0} /\ TypeOK
        /\ pc = "writing" => spData + spLength = total
    BY <1>2, PatchesAssumption DEF PatchesAssumption, TypeInv, TypeOK
  <2>1. ASSUME NEW length \in 0..MaxPatch, FirstPortion(length)
        PROVE  FileInv'
    BY <2>1 DEF FirstPortion, SpiWrite
  <2>2. CASE NextPortion \/ PatchSent \/ PatchReturn
    BY <2>2 DEF NextPortion, PatchSent, PatchReturn, SpiWrite
  <2>3. ASSUME NEW spVersion \in Versions, NEW length \in 0..MaxFile,
               WritePatch(spVersion, length)
        PROVE  FileInv'
    BY <2>3 DEF WritePatch
  <2>4. CASE WritePortion
    <3>1. /\ pc = "writing" /\ pc' = "writing" /\ status = 0
          /\ spLength >= SP_PORTION_SIZE /\ NvmemWrite(SP_PORTION_SIZE)
          /\ offset' = (offset + SP_PORTION_SIZE) % OffsetWrap
          /\ spLength' = spLength - SP_PORTION_SIZE
          /\ spData' = spData + SP_PORTION_SIZE /\ version' = version
      BY <2>4 DEF WritePortion
    <3>2. offset = spData /\ spData + SP_PORTION_SIZE <= MaxFile
      BY <2>0, <3>1
    <3>3. status' = 0 => Begins(spData)'
      BY <2>0, <3>1, <3>2, WriteJoins
    <3>4. spLength' > 0 => offset' = spData'
      <4>1. spLength' > 0 => spData + SP_PORTION_SIZE \in 0..OffsetWrap-1
        BY <2>0, <3>1
      <4> QED
        BY <2>0, <3>1, <3>2, <4>1
    <3> QED
      BY <3>1, <3>3, <3>4
  <2>5. CASE WriteRemainder
    <3>1. /\ pc = "writing" /\ pc' = "written" /\ status = 0
          /\ UNCHANGED <<version, total>> /\ spData + spLength = total
          /\ IF spLength # 0 THEN NvmemWrite(spLength)
             ELSE UNCHANGED <<status, file>>
      BY <2>0, <2>5 DEF WriteRemainder
    <3>2. CASE spLength = 0
      BY <2>0, <3>1, <3>2
    <3>3. CASE spLength # 0
      BY <2>0, <3>1, <3>3, WriteJoins
    <3> QED
      BY <3>2, <3>3
  <2>6. CASE WriteError \/ WriteReturn
    BY <2>6 DEF WriteError, WriteReturn
  <2>7. CASE UNCHANGED vars
    BY <2>7 DEF vars
  <2> QED
    BY <1>2, <2>1, <2>2, <2>3, <2>4, <2>5, <2>6, <2>7
       DEF Next, hci_patch_send, nvmem_write_patch
<1> QED
  BY <1>1, <1>2

\* When nvmem_write_patch returns 0, every byte of the patch is in its place:
\* for every portion size and every length that a 16-bit offset can reach.
THEOREM FileWrittenHolds ==
    ASSUME MaxFile <= OffsetWrap
    PROVE  Spec => []FileWritten
<1>1. FileInv => FileWritten
  BY DEF FileInv
<1> QED
  BY <1>1, TypeInductive, FileInductive, PTL DEF Spec

-----------------------------------------------------------------------------
(* hci_patch_send                                                           *)

FirstPacket(n) == Header(HCI_PATCH_HEADER_SIZE) \o PatchBytes(0, n)

MagicCell == CC3000_TX_BUFFER_SIZE - 1

\* The last cell of the buffer that a packet with n bytes of the patch fills.
LastOf(n) == SPI_HEADER_SIZE + HCI_PATCH_HEADER_SIZE + n - 1

\* A short patch is sent in one step, and no other packet follows it; until the
\* program stops the magic number is where it was, so that SpiWrite stops for the
\* packet it is called with or not at all, and it does not stop after the first.
SendInv ==
    /\ pc \notin {"portions", "sent"} => wire = <<>>
    /\ pc = "portions" => size > SL_PATCH_PORTION_SIZE
    /\ pc = "sent" /\ size <= SL_PATCH_PORTION_SIZE =>
          wire = <<FirstPacket(size)>>
    /\ pc # "stuck" => buf[MagicCell] = Magic
    /\ pc \in {"sent", "portions"} =>
          LastOf(Smaller(size, SL_PATCH_PORTION_SIZE)) < MagicCell
    /\ pc = "stuck" => LastOf(Smaller(size, SL_PATCH_PORTION_SIZE)) >= MagicCell

\* The parts of a packet have the lengths they are given.
LEMMA Lengths ==
    ASSUME NEW n \in Nat, NEW from
    PROVE  /\ Len(SpiHeader) = 5
           /\ Len(FirstPacket(n)) = n + 6 /\ DOMAIN FirstPacket(n) = 1..n+6
           /\ \A i \in 1..n+6 : FirstPacket(n)[i] = IF i <= 6 THEN <<"header", i>>
                                                    ELSE <<"patch", 0 + (i - 6)>>
           /\ Len(Header(SIMPLE_LINK_HCI_PATCH_HEADER_SIZE) \o PatchBytes(from, n))
                 = n + 2
  BY DEF FirstPacket, Header, PatchBytes, SpiHeader, SPI_HEADER_SIZE,
         HCI_PATCH_HEADER_SIZE, SIMPLE_LINK_HCI_PATCH_HEADER_SIZE

\* The header of SPI goes in front of what was put into the buffer, and the
\* packet is what was put there, as long as it ends before the magic number.
LEMMA PacketIs ==
    ASSUME NEW portion \in Nat, NEW memory, LastOf(portion) < MagicCell,
           CC3000_TX_BUFFER_SIZE \in TxBufferSizes
    PROVE  LET filled == Put(memory, SPI_HEADER_SIZE, FirstPacket(portion))
               framed == Put(filled, 0, SpiHeader)
           IN  [i \in 1..portion + HCI_PATCH_HEADER_SIZE |->
                  framed[0 + SPI_HEADER_SIZE + i - 1]] = FirstPacket(portion)
<1> USE PatchesAssumption
    DEF PatchesAssumption, SPI_HEADER_SIZE, HCI_PATCH_HEADER_SIZE
<1> DEFINE filled == Put(memory, SPI_HEADER_SIZE, FirstPacket(portion))
           framed == Put(filled, 0, SpiHeader)
           packet == [i \in 1..portion + HCI_PATCH_HEADER_SIZE |->
                        framed[0 + SPI_HEADER_SIZE + i - 1]]
<1>1. /\ Len(FirstPacket(portion)) = portion + 6
      /\ DOMAIN FirstPacket(portion) = 1..portion+6
      /\ Len(SpiHeader) = 5
  BY Lengths
<1>2. ASSUME NEW i \in 1..portion+6
      PROVE  framed[4 + i] = FirstPacket(portion)[i]
  <2>1. 4 + i \in Memory /\ 4 + i \notin 0 .. 0 + 5 - 1
    BY DEF Memory, MagicCell, LastOf
  <2>2. framed[4 + i] = filled[4 + i]
    BY <1>1, <2>1 DEF Put
  <2>3. 4 + i \in 5 .. 5 + (portion + 6) - 1 /\ (4 + i) - 5 + 1 = i
    OBVIOUS
  <2> QED
    BY <1>1, <2>1, <2>2, <2>3 DEF Put
<1>3. \A i \in 1..portion+6 : 0 + 5 + i - 1 = 4 + i
  OBVIOUS
<1>4. packet = [i \in 1..portion+6 |-> FirstPacket(portion)[i]]
  BY <1>2, <1>3
<1>5. FirstPacket(portion) = [i \in 1..portion+6 |-> FirstPacket(portion)[i]]
  BY <1>1 DEF FirstPacket, Header, PatchBytes
<1> QED
  BY <1>4, <1>5

\* The first packet overwrites the magic number when it reaches it,
LEMMA FirstOverruns ==
    ASSUME NEW portion \in Nat, NEW memory, memory[MagicCell] = Magic,
           CC3000_TX_BUFFER_SIZE \in TxBufferSizes
    PROVE  LET filled == Put(memory, SPI_HEADER_SIZE, FirstPacket(portion))
               framed == Put(filled, 0, SpiHeader)
           IN  framed[MagicCell] = Magic <=> LastOf(portion) < MagicCell
<1> USE PatchesAssumption
    DEF PatchesAssumption, SPI_HEADER_SIZE, HCI_PATCH_HEADER_SIZE, MagicCell, LastOf
<1> DEFINE filled == Put(memory, SPI_HEADER_SIZE, FirstPacket(portion))
           framed == Put(filled, 0, SpiHeader)
<1>1. /\ MagicCell \in Memory /\ MagicCell \notin 0 .. 0 + 5 - 1 /\ MagicCell \in Nat
      /\ MagicCell > 10
  BY DEF Memory
<1>2. framed[MagicCell] = filled[MagicCell]
  BY <1>1, Lengths DEF Put
<1>3. CASE LastOf(portion) < MagicCell
  <2>1. MagicCell \notin 5 .. 5 + (portion + 6) - 1
    BY <1>1, <1>3
  <2> QED BY <1>1, <1>2, <1>3, <2>1, Lengths DEF Put
<1>4. CASE ~(LastOf(portion) < MagicCell)
  <2>1. /\ MagicCell \in 5 .. 5 + (portion + 6) - 1
        /\ MagicCell - 5 + 1 \in 1..portion+6 /\ MagicCell - 5 + 1 > 6
    BY <1>1, <1>4
  <2>2. filled[MagicCell] = FirstPacket(portion)[MagicCell - 5 + 1]
    BY <1>1, <2>1, Lengths DEF Put
  <2>3. filled[MagicCell] = <<"patch", 0 + ((MagicCell - 5 + 1) - 6)>>
    <3>1. ~(MagicCell - 5 + 1 <= 6)
      BY <1>1, <2>1
    <3> HIDE DEF MagicCell, filled
    <3> QED BY <2>1, <2>2, <3>1, Lengths
  <2> QED BY <1>2, <1>4, <2>3 DEF Magic
<1> QED BY <1>3, <1>4

\* and the others, which begin before it does, never reach further.
LEMMA NextKeepsMagic ==
    ASSUME NEW n \in Nat, NEW from, NEW memory, memory[MagicCell] = Magic,
           LastOf(n) < MagicCell, CC3000_TX_BUFFER_SIZE \in TxBufferSizes
    PROVE  LET filled == Put(memory, SPI_HEADER_SIZE,
                             Header(SIMPLE_LINK_HCI_PATCH_HEADER_SIZE)
                                \o PatchBytes(from, n))
           IN  Put(filled, SPI_HEADER_SIZE, SpiHeader)[MagicCell] = Magic
<1> USE PatchesAssumption
    DEF PatchesAssumption, SPI_HEADER_SIZE, HCI_PATCH_HEADER_SIZE, MagicCell, LastOf
<1>1. /\ MagicCell \in Memory
      /\ MagicCell \notin 5 .. 5 + 5 - 1 /\ MagicCell \notin 5 .. 5 + (n + 2) - 1
  BY DEF Memory
<1> QED BY <1>1, Lengths DEF Put

\* What follows the header is the patch.
LEMMA DataOfFirst ==
    ASSUME NEW n \in Nat
    PROVE  SubSeq(FirstPacket(n), HCI_PATCH_HEADER_SIZE + 1,
                  Len(FirstPacket(n))) = PatchBytes(0, n)
<1> USE DEF HCI_PATCH_HEADER_SIZE
<1> DEFINE Cells == {<<"patch", i>> : i \in 1..n}
           data == SubSeq(FirstPacket(n), 7, n + 6)
<1>1. Len(FirstPacket(n)) = n + 6
  BY DEF FirstPacket, Header, PatchBytes
<1>2. \A i \in 7..n+6 : FirstPacket(n)[i] = <<"patch", i - 6>>
  BY DEF FirstPacket, Header, PatchBytes
<1>3. ASSUME NEW i \in 7..n+6 PROVE FirstPacket(n)[i] \in Cells
  <2>1. i - 6 \in 1..n
    OBVIOUS
  <2> QED
    BY <1>2, <2>1
<1>4. /\ data \in Seq(Cells)
      /\ Len(data) = IF 7 <= n + 6 THEN n + 6 - 7 + 1 ELSE 0
      /\ \A i \in 1..n+6-7+1 : data[i] = FirstPacket(n)[7 + i - 1]
  <2> HIDE DEF Cells
  <2> QED
    BY <1>3, SubSeqProperties
<1>5. Len(data) = n /\ \A i \in 1..n : data[i] = <<"patch", i>>
  <2>1. n + 6 - 7 + 1 = n /\ (7 <= n + 6 \/ n = 0)
    OBVIOUS
  <2>2. ASSUME NEW i \in 1..n PROVE 7 + i - 1 \in 7..n+6 /\ (7 + i - 1) - 6 = i
    OBVIOUS
  <2> HIDE DEF data
  <2> QED
    BY <1>2, <1>4, <2>1, <2>2
<1>6. /\ PatchBytes(0, n) \in Seq(Cells) /\ Len(PatchBytes(0, n)) = n
      /\ \A i \in 1..n : PatchBytes(0, n)[i] = <<"patch", i>>
  BY DEF PatchBytes
<1>7. data = PatchBytes(0, n)
  <2> HIDE DEF data, Cells
  <2> QED
    BY <1>4, <1>5, <1>6, SeqEqual
<1> QED
  BY <1>1, <1>7

\* Only a longer patch goes on with other portions.
LEMMA SendInductive ==
    /\ Init => SendInv
    /\ TypeOK /\ SendInv /\ [Next]_vars => SendInv'
<1> USE DEF SendInv
<1>1. Init => SendInv
  <2>1. Init => MagicCell \in Memory
    BY PatchesAssumption
       DEF Init, PatchesAssumption, Memory, MagicCell, SPI_HEADER_SIZE,
           HCI_PATCH_HEADER_SIZE
  <2> QED BY <2>1 DEF Init, MagicCell
<1>2. ASSUME TypeOK, SendInv, [Next]_vars PROVE SendInv'
  <2> USE SendInv DEF sending, writing
  <2>size. CC3000_TX_BUFFER_SIZE' = CC3000_TX_BUFFER_SIZE /\ MagicCell' = MagicCell
    BY <1>2 DEF Next, vars, MagicCell
  <2> USE <2>size
  <2>0. /\ size \in Nat /\ usDataLength \in Nat /\ SL_PATCH_PORTION_SIZE \in Nat
        /\ CC3000_TX_BUFFER_SIZE \in TxBufferSizes
    BY <1>2, PatchesAssumption DEF PatchesAssumption, TypeOK
  <2>1. ASSUME NEW length \in 0..MaxPatch, FirstPortion(length)
        PROVE  SendInv'
    <3> DEFINE portion == Smaller(length, SL_PATCH_PORTION_SIZE)
               filled == Put(buf, SPI_HEADER_SIZE, FirstPacket(portion))
               framed == Put(filled, 0, SpiHeader)
    <3>1. length \in Nat /\ portion \in Nat
      <4>1. length \in Nat
        BY PatchesAssumption DEF PatchesAssumption
      <4> QED BY ONLY <2>0, <4>1, SmallerIs
    <3>2. /\ pc = "idle" /\ wire = <<>> /\ size' = length
          /\ SpiWrite(filled, 0, portion + HCI_PATCH_HEADER_SIZE,
                      IF length <= SL_PATCH_PORTION_SIZE THEN "sent"
                                                         ELSE "portions")
      BY <2>1 DEF FirstPortion, FirstPacket
    <3>3. buf[MagicCell] = Magic
      BY <3>2
    <3>4. framed[MagicCell] = Magic <=> LastOf(portion) < MagicCell
      <4> HIDE DEF portion
      <4> QED BY <2>0, <3>1, <3>3, FirstOverruns
    <3>5. CASE framed[MagicCell] = Magic
      <4>1. /\ wire' = Append(wire, [i \in 1..portion + HCI_PATCH_HEADER_SIZE |->
                                       framed[0 + SPI_HEADER_SIZE + i - 1]])
            /\ pc' = IF length <= SL_PATCH_PORTION_SIZE THEN "sent"
                                                        ELSE "portions"
            /\ buf' = framed
        BY <3>2, <3>5 DEF SpiWrite, MagicCell
      <4>2. wire' = <<FirstPacket(portion)>>
        <5> HIDE DEF portion
        <5>1. [i \in 1..portion + HCI_PATCH_HEADER_SIZE |->
                 framed[0 + SPI_HEADER_SIZE + i - 1]] = FirstPacket(portion)
          BY <2>0, <3>1, <3>4, <3>5, PacketIs
        <5> QED BY <3>2, <4>1, <5>1
      <4>3. length <= SL_PATCH_PORTION_SIZE => portion = length
        BY <2>0, <3>1, SmallerIs
      <4>4. ~(length <= SL_PATCH_PORTION_SIZE) => length > SL_PATCH_PORTION_SIZE
        BY <2>0, <3>1
      <4> HIDE DEF framed
      <4> QED BY <3>2, <3>4, <3>5, <4>1, <4>2, <4>3, <4>4 DEF MagicCell, LastOf
    <3>6. CASE framed[MagicCell] # Magic
      <4>1. wire' = wire /\ pc' = "stuck"
        BY <3>2, <3>6 DEF SpiWrite, MagicCell
      <4>2. LastOf(portion) >= MagicCell
        <5>1. CC3000_TX_BUFFER_SIZE \in Nat
          BY <2>0, PatchesAssumption DEF PatchesAssumption
        <5>2. ~(LastOf(portion) < MagicCell)
          BY <3>4, <3>6
        <5> HIDE DEF portion
        <5> QED
          BY <3>1, <5>1, <5>2
             DEF MagicCell, LastOf, SPI_HEADER_SIZE, HCI_PATCH_HEADER_SIZE
      <4> QED BY <3>2, <4>1, <4>2 DEF MagicCell, LastOf
    <3> QED BY <3>5, <3>6
  <2>2. CASE NextPortion
    <3> DEFINE n == Smaller(usDataLength, SL_PATCH_PORTION_SIZE)
               filled == Put(buf, SPI_HEADER_SIZE,
                             Header(SIMPLE_LINK_HCI_PATCH_HEADER_SIZE)
                                \o PatchBytes(patch, n))
               framed == Put(filled, SPI_HEADER_SIZE, SpiHeader)
    <3>1. /\ pc = "portions" /\ size' = size
          /\ SpiWrite(filled, SPI_HEADER_SIZE,
                      n + SIMPLE_LINK_HCI_PATCH_HEADER_SIZE, pc)
      BY <2>2 DEF NextPortion
    <3>2. Smaller(size, SL_PATCH_PORTION_SIZE) = SL_PATCH_PORTION_SIZE
      BY <2>0, <3>1 DEF Smaller
    <3>3. n \in Nat /\ n <= SL_PATCH_PORTION_SIZE
      BY <2>0 DEF Smaller
    <3>4. LastOf(n) < MagicCell
      <4>1. LastOf(SL_PATCH_PORTION_SIZE) < MagicCell
        BY <3>1, <3>2
      <4> HIDE DEF n
      <4> QED
        BY <2>0, <3>3, <4>1, PatchesAssumption
           DEF PatchesAssumption, MagicCell, LastOf, SPI_HEADER_SIZE,
               HCI_PATCH_HEADER_SIZE
    <3>5. framed[MagicCell] = Magic
      <4>1. buf[MagicCell] = Magic
        BY <3>1
      <4> HIDE DEF n
      <4> QED BY <2>0, <3>3, <3>4, <4>1, NextKeepsMagic
    <3>6. pc' = "portions" /\ buf' = framed
      BY <3>1, <3>5 DEF SpiWrite, MagicCell
    <3> HIDE DEF framed
    <3> QED BY <3>1, <3>5, <3>6 DEF MagicCell, LastOf
  <2>3. CASE PatchSent
    BY <2>0, <2>3 DEF PatchSent, MagicCell, LastOf
  <2>4. CASE PatchReturn
    BY <2>4 DEF PatchReturn, MagicCell
  <2>5. ASSUME NEW spVersion \in Versions, NEW length \in 0..MaxFile,
               WritePatch(spVersion, length)
        PROVE  SendInv'
    BY <2>5 DEF WritePatch, MagicCell
  <2>6. CASE WritePortion \/ WriteRemainder \/ WriteError \/ WriteReturn
    BY <2>6 DEF WritePortion, WriteRemainder, WriteError, WriteReturn, MagicCell
  <2>7. CASE UNCHANGED vars
    BY <2>7 DEF vars, MagicCell, LastOf
  <2> QED
    BY <1>2, <2>1, <2>2, <2>3, <2>4, <2>5, <2>6, <2>7
       DEF Next, hci_patch_send, nvmem_write_patch
<1> QED
  BY <1>1, <1>2

\* What hci_patch_send does for patches, portions and a buffer of any length: a
\* patch of at most one portion whose packet ends before the magic number reaches
\* the CC3000 byte for byte, behind the header of HCI; when the first packet does
\* not, the program stops before anything is sent, and only then.
THEOREM ArrivesOrStopsHolds == Spec => []ArrivesOrStops
<1>1. TypeOK /\ SendInv => ArrivesOrStops
  <2> SUFFICES ASSUME TypeOK, SendInv PROVE ArrivesOrStops
    OBVIOUS
  <2>1. size \in Nat
    BY PatchesAssumption DEF PatchesAssumption, TypeOK
  <2>2. ASSUME pc = "sent", size <= SL_PATCH_PORTION_SIZE
        PROVE  Len(wire) = 1 /\ DataOf(1) = PatchBytes(0, size)
    <3>1. wire = <<FirstPacket(size)>>
      BY <2>2 DEF SendInv
    <3>2. Len(wire) = 1 /\ wire[1] = FirstPacket(size)
      BY <3>1
    <3> QED
      BY <2>1, <3>2, DataOfFirst DEF DataOf
  <2> QED
    BY <2>2 DEF ArrivesOrStops, SendInv, MagicCell, LastOf
<1> QED
  BY <1>1, TypeOKHolds, SendInductive, PTL DEF Spec

==============================================================================
