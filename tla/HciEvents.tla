----------------------------- MODULE HciEvents -----------------------------
(***************************************************************************)
(* The HCI layer of the host (hci.c, evnt_handler.c) and the blocking calls  *)
(* of wlan.c, socket.c and nvmem.c above it.  A call sends one packet, names *)
(* the event it waits for in usRxEventOpcode (SimpleLinkWaitEvent), perhaps  *)
(* waits for data as well (SimpleLinkWaitData), and loops in                *)
(* hci_event_handler; the interrupt handler meanwhile reads the packets of   *)
(* the CC3000 and decides which of them it deals with itself.               *)
(*                                                                         *)
(* Below is the link of module BlockingLink: SpiWrite is one step, and the   *)
(* handler reads a packet whenever INT0 is enabled and there is one.        *)
(***************************************************************************)
EXTENDS Naturals, Sequences

CONSTANTS
    Commands,      \* commands whose answer is one event of the same opcode
    MaxOut,        \* bound on the packets waiting in the CC3000
    MaxPatches,    \* bound on its patch requests while it starts
    FastReply,     \* can it answer before SimpleLinkWaitEvent has run?
    SocketDies,    \* can a send be answered with ERROR_SOCKET_INACTIVE?
    PatchTraffic,  \* can it send other events while it waits for a patch?
    Unsupported    \* can it send unsolicited events the host does not list?

ASSUME HciAssumption ==
    /\ MaxOut \in Nat \ {0} /\ MaxPatches \in Nat
    /\ {FastReply, SocketDies, PatchTraffic, Unsupported} \subseteq BOOLEAN
    /\ Commands \intersect {"start", "recv", "nvmem_read", "send",
                            "patches_req", "unsolicited", "unsupported",
                            "none", "data"} = {}

VARIABLES
    pc,                     \* of the main program
    call,                   \* the opcode of the call in progress, or "none"
    usRxEventOpcode,        \* the event main waits for, "none" for 0
    usRxDataPending,        \* does main wait for data?
    usEventOrDataReceived,  \* is there a packet in the buffer for main?
    buffer,                 \* the packet in spi_buffer
    received,               \* usReceivedEventOpcode of hci_event_handler
    int0,                   \* is INT0 enabled?
    result,                 \* ghost: what the call was given so far
    exposed,                \* ghost: has SpiWrite, since wlan_start, unmasked
                            \* INT0 while a packet was unread?
    out,                    \* packets on their way from the CC3000
    owes,                   \* what it still has to do for the call
    patches                 \* patch requests it still makes

host == <<pc, call, usRxEventOpcode, usRxDataPending, received, result,
          exposed>>
mailbox == <<usEventOrDataReceived, buffer, int0>>
device == <<out, owes, patches>>
vars == <<host, mailbox, device>>

Calls == Commands \union {"start", "recv", "nvmem_read", "send"}

(***************************************************************************)
(* Packets: an event has an opcode and the one value of its body that       *)
(* matters: the byte count of a recv, the status of a send, the kind of      *)
(* patch that is asked for, or what an unsupported event has in that place.  *)
(***************************************************************************)
Event(op, value) == [type |-> "event", op |-> op, value |-> value]
Data == [type |-> "data", op |-> "none", value |-> 0]

Dead == 57                      \* ERROR_SOCKET_INACTIVE is -57
Patch == 1                      \* a valid *params of a patch request

Events == {"patches_req", "unsolicited", "unsupported"}
Packets == [type : {"event"}, op : Calls \union Events, value : {0, 1, Dead}]
           \union {Data}

Init ==
    /\ pc = "off" /\ call = "none"
    /\ usRxEventOpcode = "none" /\ usRxDataPending = FALSE
    /\ usEventOrDataReceived = FALSE /\ buffer = Data
    /\ received = "none"
    /\ int0 = FALSE
    /\ result = {} /\ exposed = FALSE
    /\ out = <<>> /\ owes = "nothing" /\ patches = 0

-----------------------------------------------------------------------------
(* The calls                                                                *)

\* wlan_start: the driver's state is reset and the CC3000 power-cycled, then
\* SIMPLE_LINK_START is sent.  Every other call comes after it.
WlanStart ==
    /\ pc \in {"off", "idle"}
    /\ pc' = "sent" /\ call' = "start"
    /\ usRxEventOpcode' = "none" /\ usRxDataPending' = FALSE
    /\ usEventOrDataReceived' = FALSE
    /\ int0' = TRUE
    /\ received' = "none" /\ result' = {} /\ exposed' = FALSE
    /\ out' = <<>> /\ owes' = "answer"
    /\ patches' \in 0..MaxPatches
    /\ UNCHANGED buffer

\* hci_command_send, hci_data_send, hci_data_command_send: SpiWrite returns
\* with INT0 enabled and the packet taken, also when the handler had left an
\* event that main has not looked at.
Send(op) ==
    /\ pc = "idle"
    /\ pc' = "sent" /\ call' = op
    /\ int0' = TRUE
    /\ received' = "none" /\ result' = {}
    /\ exposed' = (exposed \/ usEventOrDataReceived)
    /\ owes' = "answer"
    /\ UNCHANGED <<usRxEventOpcode, usRxDataPending, usEventOrDataReceived,
                   buffer, out, patches>>

SimpleLinkWaitEvent ==
    /\ pc = "sent"
    /\ usRxEventOpcode' = call
    /\ pc' = "loop"
    /\ UNCHANGED <<call, usRxDataPending, received, result, exposed, mailbox,
                   device>>

\* Mutant: nvmem_read does not wait for its data.
WantsDataRecvOnly ==
    /\ call = "recv" /\ [op |-> "recv", value |-> 1] \in result
    /\ ~\E r \in result : r.op = "data"

\* recv waits for data when there are bytes, nvmem_read always.
WantsData ==
    /\ \/ call = "recv" /\ [op |-> "recv", value |-> 1] \in result
       \/ call = "nvmem_read"
    /\ ~\E r \in result : r.op = "data"

SimpleLinkWaitData ==
    /\ pc = "done" /\ WantsData
    /\ usRxDataPending' = TRUE
    /\ received' = "none"
    /\ pc' = "loop"
    /\ UNCHANGED <<call, usRxEventOpcode, result, exposed, mailbox, device>>

ReturnToCaller ==
    /\ pc = "done" /\ ~WantsData
    /\ pc' = "idle" /\ call' = "none"
    /\ UNCHANGED <<usRxEventOpcode, usRxDataPending, received, result, exposed,
                   mailbox, device>>

-----------------------------------------------------------------------------
(* hci_unsol_event_handler: is the event dealt with on the spot?             *)

\* Mutant: the test of usRxEventOpcode forgotten.
UnsolicitedAll(p) ==
    \/ p.op = "send" /\ p.value = Dead
    \/ p.op \notin {"send", "patches_req", "unsupported"}

\* An unsolicited event the host lists, the answer to a send on a dead socket,
\* or an answer nobody waits for; but not an unsolicited event it does not list.
Unsolicited(p) ==
    \/ p.op = "send" /\ p.value = Dead
    \/ p.op \notin {"send", "patches_req", "unsupported", usRxEventOpcode}

(* One turn of hci_event_handler.  While the packet is unread INT0 is masked *)
(* and the steps of a turn see one packet; after a SpiWrite that was called  *)
(* with an unsupported event in the buffer, the handler may come between.    *)

ReadOpcode ==
    /\ pc = "loop" /\ usEventOrDataReceived
    /\ buffer.type = "event"
    /\ received' = buffer.op
    /\ pc' = "event"
    /\ UNCHANGED <<call, usRxEventOpcode, usRxDataPending, result, exposed,
                   mailbox, device>>

\* Mutant: a patch request is taken for an answer.
HandleEventStoresAll ==
    /\ pc = "event"
    /\ result' = result \union {[op |-> received, value |-> buffer.value]}
    /\ usRxEventOpcode' = IF received = usRxEventOpcode THEN "none"
                          ELSE usRxEventOpcode
    /\ pc' = "stored"
    /\ UNCHANGED <<call, usRxDataPending, received, exposed, mailbox, device>>

\* The event is dispatched by its opcode into the caller's variables.
HandleEvent ==
    /\ pc = "event"
    /\ result' = IF Unsolicited(buffer) \/ received \in Events THEN result
                 ELSE result \union {[op |-> received, value |-> buffer.value]}
    /\ usRxEventOpcode' = IF received = usRxEventOpcode THEN "none"
                          ELSE usRxEventOpcode
    /\ pc' = "stored"
    /\ UNCHANGED <<call, usRxDataPending, received, exposed, mailbox, device>>

HandleData ==
    /\ pc = "loop" /\ usEventOrDataReceived
    /\ buffer.type = "data"
    /\ result' = result \union {[op |-> "data", value |-> 0]}
    /\ usRxDataPending' = FALSE
    /\ pc' = "stored"
    /\ UNCHANGED <<call, usRxEventOpcode, received, exposed, mailbox, device>>

FreeBuffer ==
    /\ pc = "stored"
    /\ usEventOrDataReceived' = FALSE
    /\ pc' = "handled"
    /\ UNCHANGED <<call, usRxEventOpcode, usRxDataPending, received, result,
                   exposed, buffer, int0, device>>

\* Mutant: INT0 stays masked.
SpiResumeForgotten ==
    /\ pc = "handled"
    /\ pc' = "resumed"
    /\ UNCHANGED <<call, usRxEventOpcode, usRxDataPending, received, result,
                   exposed, mailbox, device>>

SpiResumeSpi ==
    /\ pc = "handled"
    /\ int0' = TRUE
    /\ pc' = "resumed"
    /\ UNCHANGED <<call, usRxEventOpcode, usRxDataPending, received, result,
                   exposed, usEventOrDataReceived, buffer, device>>

\* After SpiResumeSpi the buffer is read again: hci_unsol_handle_patch_request
\* answers the kind of patch it finds there with a SpiWrite, any other value
\* not at all.
AnswersPatch ==
    buffer.type = "event" /\ received = "patches_req" /\ buffer.value = Patch

PatchRequest ==
    /\ pc = "resumed"
    /\ int0' = (int0 \/ AnswersPatch)
    /\ exposed' = (exposed \/ (AnswersPatch /\ usEventOrDataReceived))
    /\ owes' = IF AnswersPatch /\ owes = "patch_wait" THEN "answer" ELSE owes
    /\ pc' = "check"
    /\ UNCHANGED <<call, usRxEventOpcode, usRxDataPending, received, result,
                   usEventOrDataReceived, buffer, out, patches>>

\* Mutant: one of the two awaited is enough.
ExitTooSoon ==
    /\ pc = "check"
    /\ pc' = IF usRxEventOpcode = "none" \/ ~usRxDataPending THEN "done"
                                                             ELSE "loop"
    /\ UNCHANGED <<call, usRxEventOpcode, usRxDataPending, received, result,
                   exposed, mailbox, device>>

\* Nothing awaited any more: hci_event_handler returns.
ExitOrLoop ==
    /\ pc = "check"
    /\ pc' = IF usRxEventOpcode = "none" /\ ~usRxDataPending THEN "done"
                                                             ELSE "loop"
    /\ UNCHANGED <<call, usRxEventOpcode, usRxDataPending, received, result,
                   exposed, mailbox, device>>

-----------------------------------------------------------------------------
(* The interrupt handler: SPI_IRQ, SpiReceiveHandler,                        *)
(* hci_unsolicited_event_handler                                            *)

\* Mutant: SpiPauseSpi forgotten.
ISRUnpaused ==
    /\ int0 /\ out # <<>>
    /\ buffer' = Head(out)
    /\ out' = Tail(out)
    /\ usEventOrDataReceived' =
          ~(Head(out).type = "event" /\ Unsolicited(Head(out)))
    /\ UNCHANGED <<host, int0, owes, patches>>

ISR ==
    /\ int0 /\ out # <<>>
    /\ buffer' = Head(out)
    /\ out' = Tail(out)
    /\ LET dealtWith == Head(out).type = "event" /\ Unsolicited(Head(out))
       IN  /\ usEventOrDataReceived' = ~dealtWith
           /\ int0' = dealtWith
    /\ UNCHANGED <<host, owes, patches>>

-----------------------------------------------------------------------------
(* The CC3000                                                               *)

Room == Len(out) < MaxOut

DevPatchRequest ==
    /\ call = "start" /\ owes = "answer" /\ patches > 0 /\ Room
    /\ FastReply \/ pc # "sent"
    /\ out' = Append(out, Event("patches_req", Patch))
    /\ owes' = "patch_wait"
    /\ patches' = patches - 1
    /\ UNCHANGED <<host, mailbox>>

\* The answer: of a recv, with the number of bytes; of a send, the status.
Values == IF call = "recv" THEN {0, 1}
          ELSE IF call = "send" /\ SocketDies THEN {0, Dead}
          ELSE {0}

DevAnswer ==
    /\ call # "none" /\ owes = "answer" /\ patches = 0 /\ Room
    /\ FastReply \/ pc # "sent"
    /\ \E v \in Values :
          /\ out' = Append(out, Event(call, v))
          /\ owes' = IF call = "nvmem_read" \/ (call = "recv" /\ v = 1)
                     THEN "data" ELSE "nothing"
    /\ UNCHANGED <<host, mailbox, patches>>

DevData ==
    /\ owes = "data" /\ Room
    /\ out' = Append(out, Data)
    /\ owes' = "nothing"
    /\ UNCHANGED <<host, mailbox, patches>>

DevEvent ==
    /\ Room
    /\ PatchTraffic \/ owes # "patch_wait"
    /\ \/ out' = Append(out, Event("unsolicited", 0))
       \/ /\ Unsupported
          /\ \E v \in {0, Patch} : out' = Append(out, Event("unsupported", v))
    /\ UNCHANGED <<host, mailbox, owes, patches>>

-----------------------------------------------------------------------------
Handler == SimpleLinkWaitEvent \/ SimpleLinkWaitData \/ ReturnToCaller
           \/ ReadOpcode \/ HandleEvent \/ HandleData \/ FreeBuffer
           \/ SpiResumeSpi \/ PatchRequest
           \/ ExitOrLoop

Call == WlanStart \/ \E op \in Calls \ {"start"} : Send(op)

Device == DevPatchRequest \/ DevAnswer \/ DevData

Next == Call \/ Handler \/ ISR \/ Device \/ DevEvent

\* The processor runs main and the handler, the CC3000 answers; it need not
\* send events, and the application need not call.
Fairness == WF_vars(Handler) /\ WF_vars(ISR) /\ SF_vars(Device)

Safety == Init /\ [][Next]_vars
Spec == Safety /\ Fairness

-----------------------------------------------------------------------------
(* Properties                                                               *)

\* The variables keep their types: the buffer holds a packet of the CC3000, and
\* a call is given nothing but a value of its own.
TypeOK ==
    /\ pc \in {"off", "idle", "sent", "loop", "event", "stored", "handled",
               "resumed", "check", "done"}
    /\ call \in Calls \union {"none"}
    /\ usRxEventOpcode \in Calls \union {"none"}
    /\ usRxDataPending \in BOOLEAN
    /\ usEventOrDataReceived \in BOOLEAN
    /\ buffer \in Packets
    /\ received \in Calls \union Events \union {"none"}
    /\ int0 \in BOOLEAN
    /\ exposed \in BOOLEAN
    /\ result \subseteq [op : Calls \union {"data"}, value : {0, 1, Dead}]
    /\ out \in Seq(Packets) /\ Len(out) <= MaxOut
    /\ owes \in {"nothing", "answer", "patch_wait", "data"}
    /\ patches \in 0..MaxPatches

\* A call never waits for a packet that has come and gone: while the event it
\* names has not been handled, that event is in the buffer, on its way, or
\* still owed by the CC3000.
AwaitedIsComing ==
    pc \in {"loop", "event", "stored", "handled", "resumed", "check"}
          /\ usRxEventOpcode # "none" =>
        \/ owes \in {"answer", "patch_wait"}
        \/ \E i \in 1..Len(out) : out[i].op = usRxEventOpcode
        \/ usEventOrDataReceived /\ buffer.op = usRxEventOpcode

\* A packet left to main stays in the buffer until main has dealt with it, as
\* long as no SpiWrite was called over an unread one.
UnreadKept ==
    [][~exposed /\ usEventOrDataReceived /\ usEventOrDataReceived'
          => buffer' = buffer]_vars

\* hci_event_handler returns to a call with the answer to that call in its
\* variables, and nothing that belongs to another call.
GetsItsOwn ==
    pc = "done" /\ ~exposed =>
        /\ \E v \in {0, 1} : [op |-> call, value |-> v] \in result
        /\ \A r \in result : r.op \in {call, "data"}

\* SpiWrite is only called on a quiet link, which the SPI driver relies on (it
\* unmasks INT0): no answer in the buffer, on its way or still owed.  The first
\* packet it may be called over is an unsolicited event the host does not list,
\* which stays in the buffer when it comes between two calls.
WritesWhenQuiet ==
    [][/\ (\E op \in Calls : Send(op)) \/ (PatchRequest /\ AnswersPatch)
       /\ ~exposed
       => /\ owes \in {"nothing", "patch_wait"}
          /\ usEventOrDataReceived => buffer.op = "unsupported"
          /\ \A i \in 1..Len(out) :
                out[i].op \in {"unsolicited", "unsupported"}]_vars

\* Every call returns.
CallReturns == pc = "sent" ~> pc = "idle"

=============================================================================
