------------------------------ MODULE HciProofs -----------------------------
(***************************************************************************)
(* HciEvents: a call is given its own answer, a packet left to main is not   *)
(* overwritten, and SpiWrite is only called on a quiet link, whatever the    *)
(* CC3000 answers early, sends in between or declares dead; and no awaited   *)
(* event is lost when it answers after the host waits and no socket dies.    *)
(***************************************************************************)
EXTENDS HciEvents, TLAPS

-----------------------------------------------------------------------------
(* The inductive invariant                                                   *)

Wire == 1..Len(out)

\* Main has not dealt with the packet in the buffer.
Unread == usEventOrDataReceived /\ pc # "stored"

\* A packet with this opcode is on its way or in the buffer, unread; data have
\* the opcode "none".
Coming(op) ==
    \/ \E i \in Wire : out[i].op = op
    \/ Unread /\ buffer.op = op

\* The call was given something with this opcode.
Given(op) == \E r \in result : r.op = op

\* Events that come of the CC3000's own accord.
Own == {"unsolicited", "unsupported"}

\* What the CC3000 may send during a call: what it was asked for, once, and as
\* long as it was not handled.
Expected(p) ==
    \/ p = Event("unsolicited", 0)
    \/ p = Event("unsupported", 0)
    \/ p = Event("unsupported", Patch)
    \/ p = Event("patches_req", Patch) /\ owes = "patch_wait"
    \/ p = Data /\ owes = "nothing" /\ ~Given("data")
    \/ /\ \E v \in {0, 1, Dead} : p = Event(call, v)
       /\ p.value = Dead => call = "send"
       /\ call # "none" /\ owes \in {"data", "nothing"} /\ ~Given(call)

PacketsExpected ==
    /\ \A i \in Wire : Expected(out[i])
    /\ Unread =>
          /\ Expected(buffer)
          /\ buffer.op # "unsolicited"
          /\ buffer.op = "send" => buffer.value # Dead

\* No packet that was asked for comes twice.
PacketsOnce ==
    /\ \A i, j \in Wire : out[i].op = out[j].op /\ out[i].op \notin Own => i = j
    /\ Unread /\ buffer.op \notin Own => \A i \in Wire : out[i].op # buffer.op

\* Data only come to a call that will wait for them.
NoBytes ==
    \/ \E i \in Wire : out[i] = Event("recv", 0)
    \/ Unread /\ buffer = Event("recv", 0)
    \/ [op |-> "recv", value |-> 0] \in result
DataAwaited ==
    owes = "data" \/ Coming("none") \/ (call # "none" /\ Given("data")) =>
        call = "nvmem_read" \/ (call = "recv" /\ ~NoBytes)

\* What the call was given is its own, and no longer owed.
OwnResult ==
    call # "none" =>
        /\ \A r \in result :
              \/ \E v \in {0, 1} : r = [op |-> call, value |-> v]
              \/ r = [op |-> "data", value |-> 0]
        /\ \A r, s \in result : r.op = s.op => r = s
        /\ Given(call) => owes \in {"data", "nothing"}
        /\ Given("data") => owes = "nothing"

\* Where main is in hci_event_handler.
Waiting == {"loop", "event", "stored", "handled", "resumed", "check"}

\* What is awaited, by where main is.
Awaited ==
    /\ pc \in {"off", "idle"} <=> call = "none"
    /\ usRxEventOpcode \in {"none", call}
    /\ pc \in {"off", "idle", "sent", "done"} =>
          usRxEventOpcode = "none" /\ ~usRxDataPending
    /\ pc = "sent" => result = {}
    /\ pc \in Waiting \union {"done"} /\ usRxEventOpcode = "none" => Given(call)

\* Between two calls the link is quiet, but for events of the CC3000's own
\* accord.
QuietBetween ==
    call = "none" => /\ owes = "nothing"
                     /\ usEventOrDataReceived => buffer.op = "unsupported"
                     /\ \A i \in Wire : out[i].op \in Own

\* A patch request that is being handled is the only packet the CC3000 awaits
\* an answer to.
PatchAwaited ==
    /\ owes = "patch_wait" => call = "start"
    /\ received = "patches_req" /\ call # "none" => call = "start"
    /\ pc \in {"stored", "handled", "resumed"} /\ received = "patches_req" =>
          owes = "patch_wait" /\ ~Coming("patches_req")

\* While a packet is unread, and until main has looked at the flag again, the
\* handler does not run: main dispatches the packet whose opcode it has read.
Masked ==
    /\ usEventOrDataReceived => ~int0
    /\ pc \in {"event", "stored"} => usEventOrDataReceived
    /\ pc = "event" => buffer.type = "event" /\ received = buffer.op
    /\ pc = "handled" => ~usEventOrDataReceived /\ ~int0

Orderly ==
    /\ PacketsExpected /\ PacketsOnce /\ DataAwaited /\ OwnResult
    /\ Awaited /\ QuietBetween /\ PatchAwaited /\ Masked

\* The opcode main has read is that of an event.
Typed == TypeOK /\ (pc = "event" => received \in Calls \union Events)

IInv == Typed /\ (~exposed => Orderly)

\* A packet is known by its opcode.
LEMMA ExpectedByOp ==
    ASSUME TypeOK, NEW p, Expected(p)
    PROVE  /\ p \in Packets
           /\ p.op = "none" => p = Data /\ owes = "nothing" /\ ~Given("data")
           /\ p.op = "patches_req" => p.value = Patch /\ owes = "patch_wait"
           /\ p.op \in Calls => p.op = call /\ owes \in {"data", "nothing"}
                                /\ ~Given(call)
           /\ p.type = IF p.op = "none" THEN "data" ELSE "event"
<1> USE HciAssumption
    DEF HciAssumption, Calls, Packets, Event, Data, Patch, Dead
<1>1. CASE p \in {Event("unsolicited", 0), Event("unsupported", 0),
                  Event("unsupported", Patch)}
  BY <1>1 DEF Events
<1>2. CASE p = Event("patches_req", Patch) /\ owes = "patch_wait"
  BY <1>2 DEF Events
<1>3. CASE p = Data /\ owes = "nothing" /\ ~Given("data")
  BY <1>3
<1>4. ASSUME NEW v \in {0, 1, Dead}, p = Event(call, v), call # "none",
             owes \in {"data", "nothing"}, ~Given(call)
      PROVE  /\ call \in Calls /\ p.op = call /\ p.type = "event"
             /\ p \in Packets
  BY <1>4 DEF TypeOK, Events
<1> QED
  BY <1>1, <1>2, <1>3, <1>4 DEF Expected

\* What is on its way when the handler has read the first packet,
LEMMA OutTail ==
    ASSUME TypeOK, out # <<>>, out' = Tail(out)
    PROVE  /\ Head(out) = out[1] /\ 1 \in Wire
           /\ out' \in Seq(Packets) /\ Len(out') = Len(out) - 1
           /\ Wire' = 1..Len(out)-1 /\ Wire = 1..Len(out) /\ Len(out) \in Nat
           /\ \A i \in Wire' : i \in Nat \ {0} /\ i + 1 \in Wire
                               /\ out'[i] = out[i + 1]
<1>1. Len(out) \in Nat /\ Len(out) > 0 /\ out \in Seq(Packets)
  BY DEF TypeOK
<1> QED
  BY <1>1 DEF Wire

\* and when the CC3000 sends another.
LEMMA OutAppend ==
    ASSUME TypeOK, Room, MaxOut \in Nat, NEW p \in Packets,
           out' = Append(out, p)
    PROVE  /\ out' \in Seq(Packets) /\ Len(out') <= MaxOut
           /\ Wire' = 1..Len(out)+1 /\ Wire = 1..Len(out) /\ Len(out) \in Nat
           /\ out'[Len(out) + 1] = p
           /\ \A i \in Wire : out'[i] = out[i]
<1>1. Len(out) \in Nat /\ out \in Seq(Packets) /\ Len(out') = Len(out) + 1
  BY DEF TypeOK
<1> QED
  BY <1>1 DEF Wire, Room

-----------------------------------------------------------------------------
(* Every step keeps the types                                                *)

\* Whatever the CC3000 sends, the variables keep their types.
LEMMA TypeKept == Typed /\ [Next]_vars => Typed'
<1> SUFFICES ASSUME Typed, [Next]_vars PROVE Typed'
  OBVIOUS
<1> USE HciAssumption
    DEF HciAssumption, Typed, TypeOK, Calls, Events, host, mailbox, device
<1>1. CASE WlanStart
  <2> USE <1>1 DEF WlanStart
  <2>1. out' \in Seq(Packets) /\ Len(out') = 0 /\ Len(out') <= MaxOut
    OBVIOUS
  <2>2. result' \subseteq [op : Calls \union {"data"}, value : {0, 1, Dead}]
    OBVIOUS
  <2>3. /\ usRxDataPending' \in BOOLEAN /\ usEventOrDataReceived' \in BOOLEAN
        /\ int0' \in BOOLEAN /\ exposed' \in BOOLEAN
    OBVIOUS
  <2> QED BY <2>1, <2>2, <2>3
<1>2. ASSUME NEW op \in Calls \ {"start"}, Send(op) PROVE Typed'
  BY <1>2 DEF Send
<1>3. CASE SimpleLinkWaitEvent
  BY <1>3 DEF SimpleLinkWaitEvent
<1>4. CASE SimpleLinkWaitData
  BY <1>4 DEF SimpleLinkWaitData
<1>5. CASE ReturnToCaller
  BY <1>5 DEF ReturnToCaller
<1>6. CASE ReadOpcode
  <2>1. buffer.op \in Calls \union Events
    BY <1>6 DEF ReadOpcode, Packets, Data
  <2> QED BY <1>6, <2>1 DEF ReadOpcode
<1>7. CASE HandleEvent
  <2>1. ASSUME received \notin Events
        PROVE  [op |-> received, value |-> buffer.value]
                  \in [op : Calls \union {"data"}, value : {0, 1, Dead}]
    <3>1. buffer.value \in {0, 1, Dead}
      BY DEF Packets, Data
    <3>2. received \in Calls
      BY <1>7, <2>1 DEF HandleEvent
    <3> QED BY <3>1, <3>2
  <2> QED BY <1>7, <2>1 DEF HandleEvent
<1>8. CASE HandleData
  <2>1. [op |-> "data", value |-> 0]
           \in [op : Calls \union {"data"}, value : {0, 1, Dead}]
    OBVIOUS
  <2>2. usRxDataPending' \in BOOLEAN
    BY <1>8, Zenon DEF HandleData
  <2> QED BY <1>8, <2>1, <2>2 DEF HandleData
<1>9. CASE FreeBuffer
  <2>1. usEventOrDataReceived' \in BOOLEAN
    BY <1>9, Zenon DEF FreeBuffer
  <2> QED BY <1>9, <2>1 DEF FreeBuffer
<1>10. CASE SpiResumeSpi
  BY <1>10 DEF SpiResumeSpi
<1>11. CASE PatchRequest
  BY <1>11 DEF PatchRequest
<1>12. CASE ExitOrLoop
  BY <1>12 DEF ExitOrLoop
<1>13. CASE ISR
  <2>1. Head(out) \in Packets /\ out' \in Seq(Packets) /\ Len(out') <= MaxOut
    BY <1>13, OutTail DEF ISR
  <2>2. int0' \in BOOLEAN /\ usEventOrDataReceived' \in BOOLEAN
    BY <1>13, Zenon DEF ISR
  <2> QED BY <1>13, <2>1, <2>2 DEF ISR
<1>14. CASE DevPatchRequest
  <2>1. Event("patches_req", Patch) \in Packets
    BY DEF Packets, Event, Patch
  <2> QED BY <1>14, <2>1, OutAppend DEF DevPatchRequest
<1>15. CASE DevAnswer
  <2> PICK v \in Values : out' = Append(out, Event(call, v))
    BY <1>15 DEF DevAnswer
  <2>1. Event(call, v) \in Packets
    BY <1>15 DEF DevAnswer, Packets, Event, Values
  <2>2. out' \in Seq(Packets) /\ Len(out') <= MaxOut
    BY <1>15, <2>1, OutAppend DEF DevAnswer
  <2> QED BY <1>15, <2>2 DEF DevAnswer
<1>16. CASE DevData
  <2>1. Data \in Packets
    BY DEF Packets
  <2>2. out' \in Seq(Packets) /\ Len(out') <= MaxOut
    BY <1>16, <2>1, OutAppend DEF DevData
  <2> QED BY <1>16, <2>2 DEF DevData
<1>17. CASE DevEvent
  <2>1. \A v \in {0, Patch} : /\ Event("unsolicited", 0) \in Packets
                              /\ Event("unsupported", v) \in Packets
    BY DEF Packets, Event, Patch
  <2> PICK p \in Packets : out' = Append(out, p)
    BY <1>17, <2>1 DEF DevEvent
  <2> QED BY <1>17, OutAppend DEF DevEvent
<1>18. CASE UNCHANGED vars
  BY <1>18 DEF vars
<1> QED
  BY <1>1, <1>2, <1>3, <1>4, <1>5, <1>6, <1>7, <1>8, <1>9, <1>10, <1>11, <1>12,
     <1>13, <1>14, <1>15, <1>16, <1>17, <1>18 DEF Next, Call, Handler, Device

-----------------------------------------------------------------------------
(* Every step keeps the order, as long as no packet is exposed             *)

\* Everything starts anew; what was on its way is lost with the power.
LEMMA WlanStartKeeps ==
    ASSUME TypeOK, TypeOK', WlanStart
    PROVE  Orderly'
<1> USE HciAssumption
    DEF HciAssumption, Orderly, Own, WlanStart, Event, Data, Dead, Patch,
        host, mailbox, device
<1>1. Awaited' /\ QuietBetween' /\ PatchAwaited' /\ Masked' /\ OwnResult'
  BY DEF OwnResult, Awaited, Waiting, QuietBetween, PatchAwaited, Masked, Unread, Given
<1>2. PacketsExpected' /\ PacketsOnce' /\ DataAwaited'
  BY DEF Unread, PacketsExpected, PacketsOnce, DataAwaited, Wire, Coming, Given
<1> QED BY <1>1, <1>2

\* A call is made between two calls, when only unsolicited events are on their
\* way.
LEMMA SendKeeps ==
    ASSUME TypeOK, TypeOK', Orderly,
           NEW op \in Calls \ {"start"}, Send(op), ~exposed'
    PROVE  Orderly'
<1> USE HciAssumption
    DEF HciAssumption, Orderly, Own, Send, Event, Data, Dead, Patch,
        host, mailbox, device
<1>1. Awaited' /\ QuietBetween' /\ PatchAwaited' /\ OwnResult'
  BY DEF TypeOK, OwnResult, Awaited, Waiting, QuietBetween, PatchAwaited, Given, Calls
<1>2. PacketsOnce'
  BY DEF Unread, PacketsOnce, Wire
<1>3. PacketsExpected'
  BY DEF Unread, PacketsExpected, Awaited, Waiting, QuietBetween, Wire, Expected
<1>4. DataAwaited'
  BY DEF Unread, DataAwaited, Awaited, Waiting, Wire, Coming, Given
<1>5. Masked'
  BY DEF Waiting, Awaited, QuietBetween, Masked
<1> QED BY <1>1, <1>2, <1>3, <1>4, <1>5

\* The call is given nothing before it names its event.
LEMMA SimpleLinkWaitEventKeeps ==
    ASSUME TypeOK, TypeOK', Orderly, SimpleLinkWaitEvent
    PROVE  Orderly'
<1> USE HciAssumption
    DEF HciAssumption, Orderly, Own, SimpleLinkWaitEvent, Event, Data, Dead, Patch,
        host, mailbox, device
<1>1. Awaited' /\ QuietBetween' /\ PatchAwaited' /\ Masked' /\
     OwnResult'
  BY DEF TypeOK, OwnResult, Awaited, Waiting, QuietBetween, PatchAwaited, Masked, Unread, Wire,
         Given
<1>2. PacketsExpected' /\ PacketsOnce' /\ DataAwaited'
  BY DEF Unread, PacketsExpected, PacketsOnce, DataAwaited, Wire, Coming, Given, Expected, NoBytes
<1> QED BY <1>1, <1>2

\* What is awaited changes, and nothing on its way.
LEMMA SimpleLinkWaitDataKeeps ==
    ASSUME TypeOK, TypeOK', Orderly, SimpleLinkWaitData
    PROVE  Orderly'
<1> USE HciAssumption
    DEF HciAssumption, Orderly, Own, SimpleLinkWaitData, Event, Data, Dead, Patch,
        host, mailbox, device
<1>1. Awaited' /\ QuietBetween' /\ PatchAwaited' /\ Masked' /\
     OwnResult'
  BY DEF TypeOK, OwnResult, Awaited, Waiting, QuietBetween, PatchAwaited, Masked, Unread, Given,
         WantsData
<1>2. PacketsExpected' /\ PacketsOnce' /\ DataAwaited'
  BY DEF Unread, PacketsExpected, PacketsOnce, DataAwaited, Wire, Coming, Given, Expected, NoBytes
<1> QED BY <1>1, <1>2

\* At the return the answer was given and, if there was something to wait for,
\* the data as well: nothing is owed and nothing on its way but events.
LEMMA ReturnToCallerKeeps ==
    ASSUME TypeOK, TypeOK', Orderly, ReturnToCaller
    PROVE  Orderly'
<1> USE HciAssumption
    DEF HciAssumption, Orderly, Own, ReturnToCaller, Event, Data, Dead, Patch,
        host, mailbox, device
<1>1. Awaited' /\ Masked' /\ OwnResult'
  BY DEF TypeOK, OwnResult, Awaited, Waiting, Masked
<1>2. PacketsOnce'
  BY DEF Unread, PacketsOnce, Wire
<1>3. PacketsExpected'
  BY DEF Unread, PacketsExpected, Awaited, Waiting, Wire, Given, Expected
<1>4. DataAwaited'
  BY DEF Unread, PacketsExpected, DataAwaited, OwnResult, Awaited, Waiting, Wire, Coming, Given, Expected, NoBytes, WantsData
<1>5. QuietBetween'
  <2>1. Given(call) /\ call # "none"
    BY DEF Waiting, Awaited
  <2>2. owes = "nothing" /\ ~Coming("none")
    <3>1. CASE call = "nvmem_read"
      BY <2>1, <3>1
         DEF Unread, PacketsExpected, OwnResult, WantsData, Given, Coming, Expected, Wire
    <3>2. CASE call = "recv"
      BY <2>1, <3>2
         DEF Unread, DataAwaited, PacketsExpected, OwnResult, WantsData, Given, Coming, Expected, Wire, NoBytes
    <3>3. CASE call \notin {"nvmem_read", "recv"}
      BY <2>1, <3>3 DEF Unread, DataAwaited, OwnResult
    <3> QED BY <3>1, <3>2, <3>3
  <2>3. ASSUME NEW p, Expected(p), p.op # "none" PROVE p.op \in Own
    BY <2>1, <2>2, <2>3 DEF Expected
  <2> QED BY <2>2, <2>3 DEF Unread, PacketsExpected, QuietBetween, Coming, Wire
<1>6. PatchAwaited'
  BY DEF OwnResult, Awaited, Waiting, PatchAwaited
<1> QED BY <1>1, <1>2, <1>3, <1>4, <1>5, <1>6

\* Main reads the opcode of the packet in the buffer.
LEMMA ReadOpcodeKeeps ==
    ASSUME TypeOK, TypeOK', Orderly, ReadOpcode
    PROVE  Orderly'
<1> USE HciAssumption
    DEF HciAssumption, Orderly, Own, ReadOpcode, Event, Data, Dead, Patch,
        host, mailbox, device
<1>1. Awaited' /\ QuietBetween' /\ Masked' /\ OwnResult'
  BY DEF TypeOK, OwnResult, Waiting, Awaited, QuietBetween, Masked, Given, Wire
<1>2. PacketsExpected' /\ PacketsOnce' /\ DataAwaited'
  BY DEF Unread, PacketsExpected, PacketsOnce, DataAwaited, Wire, Coming, Given,
         Expected, NoBytes
<1>3. PatchAwaited'
  <2>1. Expected(buffer) /\ buffer.op = received'
    BY DEF PacketsExpected, Unread
  <2>2. received' = "patches_req" => owes = "patch_wait"
    BY <2>1, ExpectedByOp
  <2> QED BY <2>2 DEF PatchAwaited
<1> QED BY <1>1, <1>2, <1>3

\* The event in the buffer is unsupported or a patch request, which are not
\* stored, or the answer to the call, which was not given yet.
LEMMA HandleEventKeeps ==
    ASSUME TypeOK, TypeOK', Orderly, HandleEvent
    PROVE  Orderly'
<1> USE HciAssumption
    DEF HciAssumption, Orderly, Own, HandleEvent, Event, Data, Dead, Patch,
        host, mailbox, device
<1>1. /\ Expected(buffer) /\ buffer.op = received /\ Unread /\ ~Unread'
      /\ buffer.op # "unsolicited"
      /\ buffer.op = "send" => buffer.value # Dead
  BY DEF Masked, PacketsExpected, Unread
<1>2. buffer.op \in {"unsupported", "patches_req", call} /\ buffer.op # "none"
  BY <1>1, ExpectedByOp DEF Expected, Masked
<1>3. CASE buffer.op \in {"unsupported", "patches_req"}
  <2>1. UNCHANGED <<result, usRxEventOpcode>>
    BY <1>1, <1>3 DEF Events, TypeOK, Calls
  <2>2. PacketsExpected' /\ PacketsOnce' /\ DataAwaited'
    BY <1>1, <2>1
       DEF Unread, PacketsExpected, PacketsOnce, DataAwaited, Wire, Coming,
           Given, Expected, NoBytes
  <2>3. OwnResult' /\ Awaited' /\ QuietBetween' /\ Masked'
    BY <2>1
       DEF OwnResult, Waiting, Awaited, QuietBetween, Masked, Given, Wire
  <2>4. PatchAwaited'
    <3>1. received = "patches_req" =>
             owes = "patch_wait" /\ \A i \in Wire : out[i].op # "patches_req"
      BY <1>1, ExpectedByOp DEF PacketsOnce
    <3> QED BY <1>1, <3>1 DEF PatchAwaited, Coming, Wire
  <2> QED BY <2>2, <2>3, <2>4
<1>4. CASE buffer.op \notin {"unsupported", "patches_req"}
  <2>1. /\ buffer.op = call /\ call \in Calls /\ ~Given(call) /\ call # "none"
        /\ owes \in {"data", "nothing"} /\ buffer.value \in {0, 1}
    BY <1>1, <1>2, <1>4, ExpectedByOp DEF TypeOK, Packets, Calls, Expected
  <2>2. usRxEventOpcode = call /\ usRxEventOpcode' = "none"
    BY <1>1, <2>1 DEF Masked, Waiting, Awaited
  <2>3. result' = result \union {[op |-> call, value |-> buffer.value]}
    BY <1>1, <2>1, <2>2 DEF Unsolicited, Events, Calls
  <2>4. Given(call)' /\ (Given("data")' <=> Given("data"))
    <3>1. call # "data"
      BY <2>1 DEF Calls
    <3>2. \A r : r \in result' <=>
                    r \in result \/ r = [op |-> call, value |-> buffer.value]
      BY <2>3
    <3>3. [op |-> call, value |-> buffer.value].op = call
      OBVIOUS
    <3> QED BY <3>1, <3>2, <3>3 DEF Given
  <2>5. \A i \in Wire : out[i].op # call
    BY <1>1, <1>4, <2>1 DEF PacketsOnce
  <2>6. PacketsExpected'
    <3>1. ASSUME NEW p, Expected(p), p.op # call
          PROVE  Expected(p)'
      BY <2>4, <3>1 DEF Expected
    <3> QED BY <1>1, <2>5, <3>1 DEF PacketsExpected, Wire
  <2>7. PacketsOnce'
    BY <1>1 DEF PacketsOnce, Wire
  <2>8. DataAwaited'
    <3>1. Coming("none")' => Coming("none")
      BY <1>1 DEF Coming, Wire
    <3>2. call = "recv" /\ NoBytes' => NoBytes
      <4>1. CASE \E i \in Wire : out[i] = Event("recv", 0)
        BY <4>1 DEF NoBytes
      <4>2. CASE buffer.value = 0 /\ call = "recv"
        <5>1. buffer = Event("recv", 0)
          BY <1>1, <2>1, <4>2 DEF Expected
        <5> QED BY <1>1, <5>1 DEF NoBytes
      <4>3. CASE [op |-> "recv", value |-> 0] \in result
        BY <4>3 DEF NoBytes
      <4> QED BY <1>1, <2>3, <4>1, <4>2, <4>3 DEF NoBytes, Wire
    <3> QED BY <2>1, <2>4, <3>1, <3>2 DEF DataAwaited
  <2>9. OwnResult' /\ QuietBetween'
    BY <2>1, <2>3, <2>4 DEF OwnResult, QuietBetween, Given, Calls
  <2>10. Awaited' /\ Masked'
    BY <2>1, <2>2, <2>4 DEF Awaited, Waiting, Masked
  <2>11. PatchAwaited'
    BY <1>1, <1>4 DEF PatchAwaited
  <2> QED BY <2>6, <2>7, <2>8, <2>9, <2>10, <2>11
<1> QED BY <1>3, <1>4

\* Data were not given yet, and are in the buffer only after the answer.
LEMMA HandleDataKeeps ==
    ASSUME TypeOK, TypeOK', Orderly, HandleData
    PROVE  Orderly'
<1> USE HciAssumption
    DEF HciAssumption, Orderly, Own, HandleData, Event, Data, Dead, Patch,
        host, mailbox, device
<1>1. Awaited' /\ QuietBetween' /\ Masked'
  BY DEF Waiting, Awaited, QuietBetween, Masked, Unread, Given
<1>2. PacketsOnce' /\ DataAwaited'
  BY DEF TypeOK, PacketsOnce, DataAwaited, Wire, Coming, Unread, NoBytes, Packets
<1>3. TypeOK'
  <2>1. result' \subseteq [op : Calls \union {"data"}, value : {0, 1, Dead}]
    BY DEF TypeOK
  <2> QED BY <2>1 DEF TypeOK
<1>4. PacketsExpected'
  BY DEF Unread, PacketsExpected, PacketsOnce, DataAwaited, Wire, Coming, Given, Expected
<1>5. OwnResult'
  BY DEF Unread, PacketsExpected, OwnResult, Given, Expected
<1>6. PatchAwaited'
  BY DEF Unread, PacketsExpected, DataAwaited, PatchAwaited, Coming, Expected
<1> QED BY <1>1, <1>2, <1>3, <1>4, <1>5, <1>6

\* The packet was dealt with: the flag goes with it.
LEMMA FreeBufferKeeps ==
    ASSUME TypeOK, TypeOK', Orderly, FreeBuffer
    PROVE  Orderly'
<1> USE HciAssumption
    DEF HciAssumption, Orderly, Own, FreeBuffer, Event, Data, Dead, Patch,
        host, mailbox, device
<1>1. Awaited' /\ QuietBetween' /\ PatchAwaited' /\ Masked' /\ OwnResult'
  BY DEF TypeOK, OwnResult, Waiting, Awaited, QuietBetween, PatchAwaited,
         Masked, Unread, Wire, Coming, Given
<1>2. PacketsExpected' /\ PacketsOnce' /\ DataAwaited'
  BY DEF Unread, PacketsExpected, PacketsOnce, DataAwaited, Wire, Coming, Given,
         Expected, NoBytes
<1> QED BY <1>1, <1>2

\* Main has dealt with the packet before it unmasks INT0.
LEMMA SpiResumeSpiKeeps ==
    ASSUME TypeOK, TypeOK', Orderly, SpiResumeSpi
    PROVE  Orderly'
<1> USE HciAssumption
    DEF HciAssumption, Orderly, Own, SpiResumeSpi, Event, Data, Dead, Patch,
        host, mailbox, device
<1>1. Awaited' /\ QuietBetween' /\ PatchAwaited' /\ Masked' /\
     OwnResult'
  BY DEF TypeOK, OwnResult, Awaited, Waiting, QuietBetween, PatchAwaited, Masked, Unread, Wire, Coming, Given
<1>2. PacketsExpected' /\ PacketsOnce' /\ DataAwaited'
  BY DEF Unread, PacketsExpected, PacketsOnce, DataAwaited, Wire, Coming, Given, Expected, NoBytes
<1> QED BY <1>1, <1>2

\* The request that is answered is the one the CC3000 waits on: nothing else
\* is read into the buffer before.
LEMMA PatchRequestKeeps ==
    ASSUME TypeOK, TypeOK', Orderly, PatchRequest, ~exposed'
    PROVE  Orderly'
<1> USE HciAssumption
    DEF HciAssumption, Orderly, Own, PatchRequest, Event, Data, Dead, Patch,
        host, mailbox, device
<1>1. Awaited' /\ QuietBetween' /\ PatchAwaited' /\ OwnResult'
  BY DEF TypeOK, OwnResult, Awaited, Waiting, QuietBetween, PatchAwaited, Wire, Given
<1>2. PacketsOnce' /\ DataAwaited'
  BY DEF Unread, PacketsOnce, DataAwaited, Wire, Coming, Given, NoBytes
<1>3. PacketsExpected'
  BY DEF Unread, PacketsExpected, PatchAwaited, Wire, Coming, Given, Expected, AnswersPatch
<1>4. Masked'
  BY DEF Unread, TypeOK, PacketsExpected, PatchAwaited, Masked, Coming, Expected, AnswersPatch
<1> QED BY <1>1, <1>2, <1>3, <1>4

\* Nothing awaited any more: the answer was given.
LEMMA ExitOrLoopKeeps ==
    ASSUME TypeOK, TypeOK', Orderly, ExitOrLoop
    PROVE  Orderly'
<1> USE HciAssumption
    DEF HciAssumption, Orderly, Own, ExitOrLoop, Event, Data, Dead, Patch,
        host, mailbox, device
<1>1. Awaited' /\ QuietBetween' /\ PatchAwaited' /\ Masked' /\
     OwnResult'
  BY DEF TypeOK, OwnResult, Awaited, Waiting, QuietBetween, PatchAwaited, Masked, Unread, Wire,
         Given
<1>2. PacketsExpected' /\ PacketsOnce' /\ DataAwaited'
  BY DEF Unread, PacketsExpected, PacketsOnce, DataAwaited, Wire, Coming, Given, Expected, NoBytes
<1> QED BY <1>1, <1>2

\* The first packet on its way becomes the one in the buffer.
LEMMA ISRKeeps ==
    ASSUME TypeOK, TypeOK', Orderly, ISR
    PROVE  Orderly'
<1> USE HciAssumption
    DEF HciAssumption, Orderly, Own, ISR, Event, Data, Dead, Patch,
        host, mailbox, device
<1>1. Awaited' /\ QuietBetween' /\ PatchAwaited' /\ Masked' /\
     OwnResult'
  BY DEF TypeOK, OwnResult, Awaited, Waiting, QuietBetween, PatchAwaited, Masked, Unread, Wire, Coming, Given, Packets, Unsolicited
<1>2. DataAwaited'
  BY DEF Unread, DataAwaited, Wire, Coming, Given, NoBytes
<1>3. PacketsExpected'
  <2>1. out' = Tail(out) /\ out # <<>> /\ TypeOK /\ buffer' = Head(out)
    OBVIOUS
  <2>2. \A i \in Wire' : Expected(out'[i])
    BY <2>1, OutTail DEF Unread, PacketsExpected
  <2>3. Expected(buffer')
    BY <2>1, OutTail DEF Unread, PacketsExpected
  <2>4. \A p : Expected(p)' <=> Expected(p)
    BY DEF Expected, Given
  <2>5. ASSUME usEventOrDataReceived'
        PROVE  /\ buffer'.op # "unsolicited"
               /\ buffer'.op = "send" => buffer'.value # Dead
    <3>1. ~(buffer'.type = "event" /\ Unsolicited(buffer'))
      BY <2>1, <2>5
    <3>2. buffer'.op \in {"send", "unsolicited"} => buffer'.type = "event"
      BY <2>1, <2>3, ExpectedByOp
    <3>3. usRxEventOpcode # "unsolicited"
      BY DEF TypeOK, Calls
    <3> QED BY <3>1, <3>2, <3>3 DEF Unsolicited
  <2>6. (\A i \in Wire : Expected(out[i]))'
    BY <2>2, <2>4
  <2>7. Expected(buffer)'
    BY <2>3, <2>4
  <2> QED BY <2>5, <2>6, <2>7 DEF Unread, PacketsExpected
<1>4. PacketsOnce'
  <2>1. out' = Tail(out) /\ out # <<>> /\ TypeOK /\ buffer' = Head(out)
    OBVIOUS
  <2>2. ASSUME NEW i \in Wire', NEW j \in Wire',
               out'[i].op = out'[j].op, out'[i].op \notin Own
        PROVE  i = j
    <3>1. i + 1 = j + 1 /\ i \in Nat /\ j \in Nat
      BY <2>1, <2>2, OutTail DEF Unread, PacketsOnce
    <3> QED BY <3>1
  <2>3. Expected(buffer') /\ buffer' = out[1]
    BY <2>1, OutTail DEF Unread, PacketsExpected
  <2>5. ASSUME buffer'.op \notin Own, NEW i \in Wire'
        PROVE  out'[i].op # buffer'.op
    <3>1. /\ i + 1 \in Wire /\ out'[i] = out[i + 1]
          /\ i \in Nat \ {0} /\ 1 \in Wire
      BY <2>1, <2>5, OutTail
    <3>2. i + 1 # 1
      BY <3>1
    <3> QED BY <2>3, <2>5, <3>1, <3>2 DEF Unread, PacketsOnce
  <2>6. (\A i, j \in Wire : out[i].op = out[j].op /\ out[i].op \notin Own
                              => i = j)'
    BY <2>2
  <2>7. (buffer.op \notin Own => \A i \in Wire : out[i].op # buffer.op)'
    BY <2>5
  <2> QED BY <2>6, <2>7 DEF PacketsOnce
<1> QED BY <1>1, <1>2, <1>3, <1>4

\* A request comes while the answer is owed, so neither is on its way.
LEMMA DevPatchRequestKeeps ==
    ASSUME TypeOK, TypeOK', Orderly, DevPatchRequest
    PROVE  Orderly'
<1> USE HciAssumption
    DEF HciAssumption, Orderly, Own, DevPatchRequest, Event, Data, Dead, Patch,
        host, mailbox, device
<1>1. Awaited' /\ QuietBetween' /\ PatchAwaited' /\ Masked' /\
     OwnResult'
  BY DEF TypeOK, OwnResult, Awaited, Waiting, QuietBetween, PatchAwaited, Masked, Unread, Given,
         Packets, Room
<1>2. PacketsExpected' /\ DataAwaited'
  BY DEF Unread, PacketsExpected, DataAwaited, Wire, Coming, Given, Expected
<1>3. PacketsOnce'
  <2>1. TypeOK /\ MaxOut \in Nat /\ Room
        /\ out' = Append(out, Event("patches_req", Patch))
        /\ Event("patches_req", Patch) \in Packets
    BY DEF Packets, Events
  <2>2. ~Coming("patches_req")
    BY <2>1, ExpectedByOp DEF Unread, PacketsExpected, Coming
  <2>3. \A i \in Wire' :
           \/ i = Len(out) + 1 /\ out'[i].op = "patches_req"
           \/ i \in Wire /\ out'[i] = out[i] /\ out[i].op # "patches_req"
    BY <2>1, <2>2, OutAppend DEF Coming
  <2>4. (\A i, j \in Wire : out[i].op = out[j].op /\ out[i].op \notin Own
                              => i = j)'
    BY <2>3 DEF PacketsOnce
  <2>5. (Unread /\ buffer.op \notin Own => \A i \in Wire : out[i].op # buffer.op)'
    BY <2>2, <2>3 DEF PacketsOnce, Coming, Unread
  <2> QED BY <2>4, <2>5 DEF PacketsOnce
<1> QED BY <1>1, <1>2, <1>3

\* The answer comes once, and nothing that was asked for is on its way.
LEMMA DevAnswerKeeps ==
    ASSUME TypeOK, TypeOK', Orderly, DevAnswer
    PROVE  Orderly'
<1> USE HciAssumption
    DEF HciAssumption, Orderly, Own, DevAnswer, Event, Data, Dead, Patch,
        host, mailbox, device
<1>1. Awaited' /\ QuietBetween' /\ PatchAwaited' /\ Masked' /\ OwnResult'
  BY DEF OwnResult, Awaited, Waiting, QuietBetween, PatchAwaited, Masked, Unread, Given
<1>2. PacketsExpected'
  BY SMTT(30)
     DEF Unread, PacketsExpected, OwnResult, QuietBetween, Wire, Given, Expected,
         Values
<1>3. PacketsOnce'
  BY SMTT(30) DEF Unread, PacketsExpected, PacketsOnce, Wire, Expected
<1>4. DataAwaited'
  BY DEF Unread, PacketsExpected, DataAwaited, OwnResult, QuietBetween, Wire, Coming, Given, Expected, NoBytes
<1> QED BY <1>1, <1>2, <1>3, <1>4

\* Data come once, after the answer.
LEMMA DevDataKeeps ==
    ASSUME TypeOK, TypeOK', Orderly, DevData
    PROVE  Orderly'
<1> USE HciAssumption
    DEF HciAssumption, Orderly, Own, DevData, Event, Data, Dead, Patch,
        host, mailbox, device
<1>1. Awaited' /\ QuietBetween' /\ PatchAwaited' /\ Masked' /\
     OwnResult'
  BY DEF TypeOK, OwnResult, Awaited, Waiting, QuietBetween, PatchAwaited, Masked, Unread, Given,
         Packets, Room
<1>2. DataAwaited'
  BY DEF Unread, DataAwaited, Wire, NoBytes
<1>3. PacketsExpected'
  BY DEF Unread, PacketsExpected, OwnResult, QuietBetween, Wire, Given, Expected
<1>4. PacketsOnce'
  <2>1. TypeOK /\ MaxOut \in Nat /\ out' = Append(out, Data)
        /\ Data \in Packets
    BY DEF Packets
  <2>2. ~Coming("none")
    BY <2>1, ExpectedByOp DEF Unread, PacketsExpected, Coming
  <2> QED BY <2>1, <2>2, OutAppend DEF Unread, PacketsOnce, Coming
<1> QED BY <1>1, <1>2, <1>3, <1>4

\* An unsolicited event is neither awaited nor stored.
LEMMA DevEventKeeps ==
    ASSUME TypeOK, TypeOK', Orderly, DevEvent
    PROVE  Orderly'
<1> USE HciAssumption
    DEF HciAssumption, Orderly, Own, Event, Data, Dead, Patch, host, mailbox,
        device
<1> PICK p \in {Event("unsolicited", 0), Event("unsupported", 0),
                Event("unsupported", Patch)} : out' = Append(out, p)
  BY DEF DevEvent
<1>1. /\ p \in Packets /\ p.op \in Own /\ p.type = "event"
      /\ TypeOK /\ Room /\ MaxOut \in Nat
  BY DEF DevEvent, Packets, Events
<1>2. /\ \A i \in Wire : i \in Wire' /\ out'[i] = out[i]
      /\ \A i \in Wire' : out'[i] = p \/ (i \in Wire /\ out'[i] = out[i])
  BY <1>1, OutAppend
<1>3. UNCHANGED <<host, mailbox, owes, patches>>
  BY DEF DevEvent
<1>4. \A op : op \notin Own => (Coming(op)' <=> Coming(op))
  BY <1>1, <1>2, <1>3 DEF Coming, Unread
<1>5. Awaited' /\ Masked' /\ OwnResult'
  BY <1>3 DEF OwnResult, Awaited, Waiting, Masked, Given
<1>6. QuietBetween'
  BY <1>1, <1>2, <1>3 DEF QuietBetween
<1>7. PatchAwaited'
  BY <1>3, <1>4 DEF PatchAwaited
<1>8. PacketsExpected'
  <2>1. \A q : Expected(q)' <=> Expected(q)
    BY <1>3 DEF Expected, Given
  <2>2. Expected(p)
    BY DEF Expected
  <2> QED BY <1>2, <1>3, <2>1, <2>2 DEF PacketsExpected, Unread
<1>9. DataAwaited'
  <2>1. p # Event("recv", 0)
    BY <1>1
  <2>2. NoBytes' => NoBytes
    BY <1>2, <1>3, <2>1 DEF NoBytes, Unread
  <2> QED BY <1>3, <1>4, <2>2 DEF DataAwaited, Given
<1>10. PacketsOnce'
  <2>1. ASSUME NEW i \in Wire', out'[i].op \notin Own
        PROVE  i \in Wire /\ out'[i] = out[i]
    BY <1>1, <1>2, <2>1
  <2>2. (\A i, j \in Wire : out[i].op = out[j].op /\ out[i].op \notin Own
                              => i = j)'
    BY <2>1 DEF PacketsOnce
  <2>3. (Unread /\ buffer.op \notin Own => \A i \in Wire : out[i].op # buffer.op)'
    BY <1>3, <2>1 DEF PacketsOnce, Unread
  <2> QED BY <2>2, <2>3 DEF PacketsOnce
<1> QED BY <1>5, <1>6, <1>7, <1>8, <1>9, <1>10

-----------------------------------------------------------------------------
(* The invariant, and what it says of the calls                              *)

\* Nothing is awaited before the CC3000 is started.
LEMMA IInvInit == Init => IInv
<1> SUFFICES ASSUME Init PROVE IInv
  OBVIOUS
<1>1. out \in Seq(Packets) /\ Len(out) = 0
  BY DEF Init
<1>2. TypeOK
  <2>1. result \subseteq [op : Calls \union {"data"}, value : {0, 1, Dead}]
    BY DEF Init
  <2>2. buffer \in Packets /\ patches \in 0..MaxPatches /\ Len(out) <= MaxOut
    BY <1>1, HciAssumption DEF HciAssumption, Init, Packets
  <2> QED
    BY <1>1, <2>1, <2>2 DEF Init, TypeOK
<1>3. PacketsExpected /\ PacketsOnce /\ DataAwaited /\ OwnResult
  BY <1>1
     DEF Init, PacketsExpected, PacketsOnce, DataAwaited, OwnResult, Wire,
         Coming, Unread
<1>4. Awaited /\ QuietBetween /\ PatchAwaited /\ Masked
  BY <1>1 DEF Init, Awaited, Waiting, QuietBetween, PatchAwaited, Masked, Wire
<1> QED
  BY <1>2, <1>3, <1>4 DEF IInv, Typed, Orderly, Init

\* A step that changes nothing keeps the order.
LEMMA OrderStutters == Orderly /\ UNCHANGED vars => Orderly'
  BY DEF vars, host, mailbox, device, Orderly, PacketsExpected, PacketsOnce,
         DataAwaited, OwnResult, Awaited, Waiting, QuietBetween, PatchAwaited,
         Masked, Wire, Unread, Coming, Given, Expected, NoBytes, Own

\* Only wlan_start ends the exposure of a packet.
LEMMA ExposedStays ==
    ASSUME Typed, [Next]_vars, ~exposed'
    PROVE  WlanStart \/ ~exposed
  BY DEF Typed, TypeOK, Next, Call, Handler, Device, Send, SimpleLinkWaitEvent,
         SimpleLinkWaitData, ReturnToCaller, ReadOpcode, HandleEvent,
         HandleData, FreeBuffer, SpiResumeSpi, PatchRequest, ExitOrLoop, ISR,
         DevPatchRequest, DevAnswer, DevData, DevEvent, host, vars

\* Every action of the calls, the handler, the interrupt handler and the CC3000
\* keeps the invariant.
LEMMA OrderKept ==
    ASSUME Typed, Typed', Orderly, [Next]_vars, ~exposed'
    PROVE  Orderly'
<1> USE DEF Typed
<1>1. CASE Call
  BY <1>1, WlanStartKeeps, SendKeeps DEF Call
<1>2. CASE SimpleLinkWaitEvent \/ SimpleLinkWaitData \/ ReturnToCaller
  BY <1>2, SimpleLinkWaitEventKeeps, SimpleLinkWaitDataKeeps,
     ReturnToCallerKeeps
<1>3. CASE ReadOpcode \/ HandleEvent \/ HandleData \/ FreeBuffer
  BY <1>3, ReadOpcodeKeeps, HandleEventKeeps, HandleDataKeeps, FreeBufferKeeps
<1>4. CASE SpiResumeSpi \/ PatchRequest \/ ExitOrLoop
  BY <1>4, SpiResumeSpiKeeps, PatchRequestKeeps, ExitOrLoopKeeps
<1>5. CASE ISR \/ Device \/ DevEvent
  BY <1>5, ISRKeeps, DevPatchRequestKeeps, DevAnswerKeeps, DevDataKeeps,
     DevEventKeeps DEF Device
<1>6. CASE UNCHANGED vars
  BY <1>6, OrderStutters
<1> QED BY <1>1, <1>2, <1>3, <1>4, <1>5, <1>6 DEF Next, Handler

\* wlan_start makes its own order, whatever was exposed before.
THEOREM IInvHolds == Safety => []IInv
<1>1. IInv /\ [Next]_vars => IInv'
  <2> SUFFICES ASSUME IInv, [Next]_vars PROVE IInv'
    OBVIOUS
  <2>1. Typed /\ Typed'
    BY TypeKept DEF IInv
  <2>2. ASSUME ~exposed' PROVE Orderly'
    <3>1. CASE WlanStart
      BY <2>1, <3>1, WlanStartKeeps DEF Typed
    <3>2. CASE ~exposed
      BY <2>1, <2>2, <3>2, OrderKept DEF IInv
    <3> QED BY <2>1, <2>2, <3>1, <3>2, ExposedStays
  <2> QED BY <2>1, <2>2 DEF IInv
<1> QED BY <1>1, IInvInit, PTL DEF Safety

\* The buffer holds packets of the CC3000, and a call is given values of its
\* own.
THEOREM TypeCorrect == Safety => []TypeOK
<1>1. IInv => TypeOK
  BY DEF IInv, Typed
<1> QED BY <1>1, IInvHolds, PTL

\* hci_event_handler returns with the answer to the call in progress and with
\* nothing of another, however early the CC3000 answers and whatever it sends
\* of its own accord, until SpiWrite is called over an unread packet.
THEOREM GetsItsOwnHolds == Safety => []GetsItsOwn
<1>1. IInv => GetsItsOwn
  BY HciAssumption
     DEF HciAssumption, IInv, Typed, Orderly, OwnResult, Awaited, Waiting,
         TypeOK, Calls, Given, GetsItsOwn
<1> QED BY <1>1, IInvHolds, PTL

\* No packet left to main is overwritten: until main has dealt with it INT0
\* stays masked, unless SpiWrite is called over it and unmasks INT0.
THEOREM UnreadKeptHolds == Safety => UnreadKept
<1>1. IInv /\ [Next]_vars
        => [~exposed /\ usEventOrDataReceived /\ usEventOrDataReceived'
               => buffer' = buffer]_vars
  <2> SUFFICES ASSUME IInv, Next, ~exposed, usEventOrDataReceived
               PROVE  buffer' = buffer
    BY DEF vars
  <2>1. ~int0
    BY DEF IInv, Orderly, Masked
  <2> QED
    BY <2>1 DEF Next, Call, Handler, Device, WlanStart, Send,
         SimpleLinkWaitEvent, SimpleLinkWaitData, ReturnToCaller, ReadOpcode,
         HandleEvent, HandleData, FreeBuffer, SpiResumeSpi, PatchRequest,
         ExitOrLoop, ISR, DevPatchRequest, DevAnswer, DevData, DevEvent, host,
         mailbox, device
<1> QED BY <1>1, IInvHolds, PTL DEF Safety, UnreadKept

\* Where SpiWrite is called, no answer is unread, on its way or owed.
LEMMA QuietWrites ==
    ASSUME IInv, ~exposed,
           (\E op \in Calls : Send(op)) \/ (PatchRequest /\ AnswersPatch)
    PROVE  /\ owes \in {"nothing", "patch_wait"}
           /\ usEventOrDataReceived => buffer.op = "unsupported"
           /\ \A i \in 1..Len(out) : out[i].op \in {"unsolicited", "unsupported"}
<1> USE DEF IInv, Orderly, Own
<1>1. CASE \E op \in Calls : Send(op)
  BY <1>1 DEF Send, Awaited, QuietBetween, Wire
<1>2. CASE PatchRequest /\ AnswersPatch
  <2>1. /\ TypeOK /\ owes = "patch_wait" /\ ~Coming("patches_req")
        /\ pc = "resumed"
    BY <1>2 DEF Typed, PatchRequest, AnswersPatch, PatchAwaited
  <2>2. ASSUME NEW p, Expected(p), p.op # "patches_req"
        PROVE  p.op \in Own
    BY <2>1, <2>2 DEF Expected, Event, Data
  <2>3. usEventOrDataReceived => Unread /\ Expected(buffer)
    BY <2>1 DEF Unread, PacketsExpected
  <2> QED BY <2>1, <2>2, <2>3 DEF PacketsExpected, Coming, Wire
<1> QED BY <1>1, <1>2

\* SpiWrite is only called on a quiet link: between two calls, and when the
\* only packet the CC3000 awaits is the answer to its patch request; the first
\* packet it is called over is an unsolicited event the host does not list.
THEOREM WritesWhenQuietHolds == Safety => WritesWhenQuiet
<1>1. IInv /\ [Next]_vars
        => [/\ (\E op \in Calls : Send(op)) \/ (PatchRequest /\ AnswersPatch)
            /\ ~exposed
            => /\ owes \in {"nothing", "patch_wait"}
               /\ usEventOrDataReceived => buffer.op = "unsupported"
               /\ \A i \in 1..Len(out) :
                     out[i].op \in {"unsolicited", "unsupported"}]_vars
  BY QuietWrites
<1> QED BY <1>1, IInvHolds, PTL DEF Safety, WritesWhenQuiet

-----------------------------------------------------------------------------
(* A CC3000 that sends no event the host does not list                      *)

\* No packet is an unsupported event, and none was exposed.
AllListed ==
    /\ ~exposed
    /\ \A i \in Wire : out[i].op # "unsupported"
    /\ usEventOrDataReceived => buffer.op # "unsupported"

\* SpiWrite then finds no packet unread.
LEMMA ListedInductive ==
    ASSUME ~Unsupported
    PROVE  /\ Init => AllListed
           /\ IInv /\ AllListed /\ [Next]_vars => AllListed'
<1>1. Init => AllListed
  BY DEF Init, AllListed, Wire
<1>2. ASSUME IInv, AllListed, [Next]_vars PROVE AllListed'
  <2> USE IInv, AllListed, HciAssumption
      DEF HciAssumption, IInv, Typed, Orderly, AllListed, Wire, host, mailbox,
          device, Event, Data
  <2>1. CASE Call
    <3>1. CASE WlanStart
      BY <3>1 DEF WlanStart
    <3>2. ASSUME NEW op \in Calls \ {"start"}, Send(op) PROVE AllListed'
      BY <3>2, QuietWrites DEF Send
    <3> QED BY <2>1, <3>1, <3>2 DEF Call
  <2>2. CASE SimpleLinkWaitEvent \/ SimpleLinkWaitData \/ ReturnToCaller
    BY <2>2 DEF SimpleLinkWaitEvent, SimpleLinkWaitData, ReturnToCaller
  <2>3. CASE ReadOpcode \/ HandleEvent \/ HandleData \/ FreeBuffer
    BY <2>3 DEF ReadOpcode, HandleEvent, HandleData, FreeBuffer
  <2>4. CASE SpiResumeSpi \/ ExitOrLoop
    BY <2>4 DEF SpiResumeSpi, ExitOrLoop
  <2>5. CASE PatchRequest
    BY <2>5, QuietWrites DEF PatchRequest
  <2>6. CASE ISR
    <3>1. out # <<>> /\ out' = Tail(out) /\ buffer' = Head(out) /\ exposed' = exposed
      BY <2>6 DEF ISR
    <3> QED BY <3>1, OutTail
  <2>7. CASE DevPatchRequest
    <3>1. Event("patches_req", Patch) \in Packets
      BY DEF Packets, Events, Patch
    <3> QED BY <2>7, <3>1, OutAppend DEF DevPatchRequest
  <2>8. CASE DevAnswer
    <3> PICK v \in {0, 1, Dead} : out' = Append(out, Event(call, v))
      BY <2>8 DEF DevAnswer, Values
    <3>1. Event(call, v) \in Packets /\ call # "unsupported"
      BY <2>8 DEF DevAnswer, Packets, TypeOK, Calls
    <3> QED BY <2>8, <3>1, OutAppend DEF DevAnswer
  <2>9. CASE DevData
    BY <2>9, OutAppend DEF DevData, Packets
  <2>10. CASE DevEvent
    <3>1. Event("unsolicited", 0) \in Packets
      BY DEF Packets, Events
    <3> QED BY <2>10, <3>1, OutAppend DEF DevEvent
  <2>11. CASE UNCHANGED vars
    BY <2>11 DEF vars
  <2> QED BY <1>2, <2>1, <2>2, <2>3, <2>4, <2>5, <2>6, <2>7, <2>8, <2>9, <2>10,
             <2>11 DEF Next, Handler, Device
<1> QED BY <1>1, <1>2

\* SpiWrite is never called over an unread packet when the CC3000 sends only the
\* unsolicited events evnt_handler.c lists: what UnreadKept, GetsItsOwn and
\* WritesWhenQuiet say then holds without exception.
THEOREM NeverExposed ==
    ASSUME ~Unsupported
    PROVE  Safety => []~exposed
<1>1. AllListed => ~exposed
  BY DEF AllListed
<1> QED BY <1>1, IInvHolds, ListedInductive, PTL DEF Safety

-----------------------------------------------------------------------------
(* No awaited event is lost, when the CC3000 answers after the host waits,   *)
(* declares no socket dead and sends no event the host does not list        *)

\* No packet says that a socket is inactive.
NoneDead ==
    /\ \A i \in Wire : out[i].value # Dead
    /\ usEventOrDataReceived => buffer.value # Dead

\* When main begins to wait, the answer is still owed, and when it frees the
\* buffer it does not wait for what is in it.
AwaitInv ==
    /\ AwaitedIsComing
    /\ pc = "sent" => owes = "answer"
    /\ pc = "stored" => usRxEventOpcode = "none" \/ usRxEventOpcode # buffer.op
    /\ NoneDead

\* The event that is awaited is read into the buffer and kept there, as it is
\* not dealt with by the interrupt handler.
LEMMA AwaitInductive ==
    ASSUME ~FastReply, ~SocketDies
    PROVE  /\ Init => AwaitInv
           /\ IInv /\ AllListed /\ AwaitInv /\ [Next]_vars => AwaitInv'
<1> USE DEF AwaitInv, AwaitedIsComing, NoneDead
<1>1. Init => AwaitInv
  BY DEF Init, Wire
<1>2. ASSUME IInv, AllListed, AwaitInv, [Next]_vars PROVE AwaitInv'
  <2> USE IInv, AllListed, AwaitInv, HciAssumption
      DEF HciAssumption, IInv, Typed, Orderly, AllListed, Wire, host, mailbox,
          device, Event, Data, Dead, Patch
  <2>1. CASE WlanStart
    BY <2>1 DEF WlanStart
  <2>2. ASSUME NEW op \in Calls \ {"start"}, Send(op) PROVE AwaitInv'
    BY <2>2 DEF Send
  <2>3. CASE SimpleLinkWaitEvent
    BY <2>3 DEF SimpleLinkWaitEvent
  <2>4. CASE SimpleLinkWaitData
    BY <2>4 DEF SimpleLinkWaitData, Awaited
  <2>5. CASE ReturnToCaller
    BY <2>5 DEF ReturnToCaller
  <2>6. CASE ReadOpcode
    BY <2>6 DEF ReadOpcode
  <2>7. CASE HandleEvent
    BY <2>7 DEF HandleEvent, Masked
  <2>8. CASE HandleData
    BY <2>8 DEF HandleData, Awaited, TypeOK, Packets
  <2>9. CASE FreeBuffer
    BY <2>9 DEF FreeBuffer
  <2>10. CASE SpiResumeSpi
    BY <2>10 DEF SpiResumeSpi
  <2>11. CASE PatchRequest
    BY <2>11 DEF PatchRequest
  <2>12. CASE ExitOrLoop
    BY <2>12 DEF ExitOrLoop
  <2>13. CASE ISR
    <3>1. out # <<>> /\ out' = Tail(out) /\ buffer' = Head(out)
      BY <2>13 DEF ISR
    <3>2. Expected(out[1]) /\ buffer' = out[1]
      BY <3>1, OutTail DEF PacketsExpected
    <3>3. ASSUME out[1].op = usRxEventOpcode, usRxEventOpcode # "none"
          PROVE  usEventOrDataReceived'
      <4>1. usRxEventOpcode \in Calls /\ "unsolicited" \notin Calls
            /\ "patches_req" \notin Calls
        BY <3>3 DEF TypeOK, Calls
      <4>2. out[1].value # Dead
        BY <3>1, OutTail
      <4> QED
        BY <2>13, <3>2, <3>3, <4>1, <4>2 DEF ISR, Unsolicited
    <3>4. ASSUME NEW i \in Wire, i # 1
          PROVE  i - 1 \in Wire' /\ out[i] = out'[i - 1]
      <4>1. i - 1 \in Wire'
        BY <3>1, <3>4, OutTail
      <4> QED
        BY <3>1, <4>1, OutTail
    <3>5. NoneDead' /\ (pc = "sent" => owes = "answer")' /\ pc' # "stored"
      BY <2>13, <3>1, <3>2, OutTail DEF ISR, Masked
    <3>6. AwaitedIsComing'
      BY <2>13, <3>2, <3>3, <3>4 DEF ISR, Masked
    <3> QED BY <3>5, <3>6
  <2>14. CASE DevPatchRequest
    <3>1. Event("patches_req", Patch) \in Packets
      BY DEF Packets, Events
    <3> QED BY <2>14, <3>1, OutAppend DEF DevPatchRequest
  <2>15. CASE DevAnswer
    <3> PICK v \in {0, 1} : out' = Append(out, Event(call, v))
      BY <2>15 DEF DevAnswer, Values
    <3>1. Event(call, v) \in Packets
      BY <2>15 DEF DevAnswer, Packets, TypeOK
    <3> QED BY <2>15, <3>1, OutAppend DEF DevAnswer, Awaited
  <2>16. CASE DevData
    BY <2>16, OutAppend DEF DevData, Packets
  <2>17. CASE DevEvent
    <3>1. PICK p \in Packets : out' = Append(out, p) /\ p.value # Dead
      BY <2>17 DEF DevEvent, Packets, Events
    <3>2. /\ \A i \in Wire : i \in Wire' /\ out'[i] = out[i]
          /\ \A i \in Wire' : out'[i].value # Dead
      BY <2>17, <3>1, OutAppend DEF DevEvent
    <3> QED BY <2>17, <3>1, <3>2 DEF DevEvent
  <2>18. CASE UNCHANGED vars
    BY <2>18 DEF vars
  <2> QED BY <1>2, <2>1, <2>2, <2>3, <2>4, <2>5, <2>6, <2>7, <2>8, <2>9,
         <2>10, <2>11, <2>12, <2>13, <2>14, <2>15, <2>16, <2>17, <2>18
      DEF Next, Call, Handler, Device
<1> QED BY <1>1, <1>2

\* When the CC3000 does not answer before SimpleLinkWaitEvent has run, reports
\* no socket inactive and sends no event the host does not list, no call waits
\* for an event that has come and gone.  It does lose the event when one of the
\* three is allowed.
THEOREM AwaitedIsComingHolds ==
    ASSUME ~FastReply, ~SocketDies, ~Unsupported
    PROVE  Safety => []AwaitedIsComing
<1>1. AwaitInv => AwaitedIsComing
  BY DEF AwaitInv
<1> QED BY <1>1, IInvHolds, ListedInductive, AwaitInductive, PTL DEF Safety

=============================================================================
