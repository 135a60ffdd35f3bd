---------------------------- MODULE FlowControl ----------------------------
(***************************************************************************)
(* The accounting of a send: the free buffers of the CC3000, the packets     *)
(* sent and released, the status of the sockets and the error of the last    *)
(* transmission (socket.c, evnt_handler.c).  The main program and the        *)
(* interrupt handler share all of it, and on an 8-bit processor              *)
(* usNumberOfFreeBuffers-- and the update of socket_active_status are a      *)
(* load and a store, with room for an interrupt in between.                  *)
(*                                                                         *)
(* The link is that of BlockingLink: a packet is handed over in one step and *)
(* its answer awaited in another.                                           *)
(***************************************************************************)
EXTENDS Integers

CONSTANTS
    Sockets,    \* handles the CC3000 gives out
    Buffers,    \* transmit buffers of the CC3000, told to READ_BUFFER_SIZE
    Wrap,       \* modulus of NumberOfSentPackets, NumberOfReleasedPackets
                \* (2^32 in the code)
    RmwRace     \* can an interrupt come between the load and the store of a
                \* read-modify-write?

ASSUME FlowAssumption ==
    /\ Buffers \in Nat \ {0}
    /\ Wrap \in Nat /\ Wrap > Buffers
    /\ RmwRace \in BOOLEAN

VARIABLES
    pc,         \* of the main program
    sd,         \* the socket of the call in progress
    acc,        \* usNumberOfFreeBuffers as loaded by main
    word,       \* socket_active_status as loaded by main
    status,     \* what the call makes of the status of sd
    free,       \* usNumberOfFreeBuffers
    sent,       \* NumberOfSentPackets
    released,   \* NumberOfReleasedPackets
    transmitError, \* slTransmitDataError
    inactive,   \* sockets whose bit is set in socket_active_status
    open,       \* ghost: sockets between socket and closesocket
    told,       \* ghost: open sockets whose death the handler was told of
    busy,       \* packets in the buffers of the CC3000
    freed,      \* buffers it has free again and has not reported
    using,      \* open sockets it has sent a packet for
    failing     \* sockets it is going to report ERROR_SOCKET_INACTIVE for

main == <<pc, sd, acc, word, status>>
shared == <<free, sent, released, transmitError, inactive>>
ghosts == <<open, told>>
device == <<busy, freed, using, failing>>
vars == <<main, shared, ghosts, device>>

\* wlan_start has learnt the number of buffers; no socket is active.
Init ==
    /\ pc = "idle" /\ sd \in Sockets /\ acc = 0 /\ word = {}
    /\ status = "active"
    /\ free = Buffers /\ sent = 0 /\ released = 0
    /\ transmitError = 0 /\ inactive = Sockets
    /\ open = {} /\ told = {}
    /\ busy = 0 /\ freed = 0 /\ using = {} /\ failing = {}

-----------------------------------------------------------------------------
(* socket and closesocket: after the answer of the CC3000, the status bit    *)

Socket(s) ==
    /\ pc = "idle" /\ s \notin open
    /\ sd' = s /\ status' = "active"
    /\ open' = open \union {s}
    /\ pc' = "load_status"
    /\ UNCHANGED <<acc, word, shared, told, device>>

\* The answer to a close comes after the events of the socket.
CloseSocket(s) ==
    /\ pc = "idle" /\ s \in open \ failing
    /\ sd' = s /\ status' = "inactive"
    /\ open' = open \ {s} /\ told' = told \ {s}
    /\ using' = using \ {s}
    /\ pc' = "load_status"
    /\ UNCHANGED <<acc, word, shared, busy, freed, failing>>

\* recv on a socket that died: hci_event_handler has moved pRetParams past the
\* answer when it looks for ERROR_SOCKET_INACTIVE in it, and marks the socket
\* it happens to find there, if any.
RecvFails(found) ==
    /\ pc = "idle" /\ open # {}
    /\ sd' = found /\ status' = "inactive"
    /\ pc' = "load_status"
    /\ UNCHANGED <<acc, word, shared, ghosts, device>>

LoadStatus ==
    /\ pc = "load_status"
    /\ word' = inactive
    /\ pc' = "store_status"
    /\ UNCHANGED <<sd, acc, status, shared, ghosts, device>>

StoreStatus ==
    /\ pc = "store_status"
    /\ inactive' = IF status = "active" THEN word \ {sd} ELSE word \union {sd}
    /\ word' = {}
    /\ pc' = "idle"
    /\ UNCHANGED <<sd, acc, status, free, sent, released, transmitError,
                   ghosts, device>>

-----------------------------------------------------------------------------
(* simple_link_send, with the loop of HostFlowControlConsumeBuff             *)

Send(s) ==
    /\ pc = "idle" /\ s \in open
    /\ sd' = s
    /\ pc' = "check"
    /\ UNCHANGED <<acc, word, status, shared, ghosts, device>>

CheckError ==
    /\ pc = "check"
    /\ pc' = IF transmitError # 0 THEN "clear_error" ELSE "check_status"
    /\ UNCHANGED <<sd, acc, word, status, shared, ghosts, device>>

\* The status byte is copied to errno, which is what the send returns.
ClearError ==
    /\ pc = "clear_error"
    /\ transmitError' = 0
    /\ pc' = "idle"
    /\ UNCHANGED <<sd, acc, word, status, free, sent, released, inactive,
                   ghosts, device>>

\* -1 for a socket that is not active.
CheckStatus ==
    /\ pc = "check_status"
    /\ pc' = IF sd \in inactive THEN "idle" ELSE "check_free"
    /\ UNCHANGED <<sd, acc, word, status, shared, ghosts, device>>

\* Mutant: the send does not wait for a buffer.
CheckFreeNot ==
    /\ pc = "check_free"
    /\ pc' = "load_free"
    /\ UNCHANGED <<sd, acc, word, status, shared, ghosts, device>>

CheckFree ==
    /\ pc = "check_free"
    /\ pc' = IF free = 0 THEN "check" ELSE "load_free"
    /\ UNCHANGED <<sd, acc, word, status, shared, ghosts, device>>

LoadFree ==
    /\ pc = "load_free"
    /\ acc' = free
    /\ pc' = "store_free"
    /\ UNCHANGED <<sd, word, status, shared, ghosts, device>>

StoreFree ==
    /\ pc = "store_free"
    /\ free' = acc - 1
    /\ acc' = 0
    /\ pc' = "count"
    /\ UNCHANGED <<sd, word, status, sent, released, transmitError,
                   inactive, ghosts, device>>

\* Mutant: the two counters wrap at different values.
CountSentNarrow ==
    /\ pc = "count"
    /\ sent' = (sent + 1) % (Wrap - 1)
    /\ pc' = "transmit"
    /\ UNCHANGED <<sd, acc, word, status, free, released, transmitError,
                   inactive, ghosts, device>>

CountSent ==
    /\ pc = "count"
    /\ sent' = (sent + 1) % Wrap
    /\ pc' = "transmit"
    /\ UNCHANGED <<sd, acc, word, status, free, released, transmitError,
                   inactive, ghosts, device>>

\* hci_data_send, then SimpleLinkWaitEvent.
Transmit ==
    /\ pc = "transmit"
    /\ busy' = busy + 1
    /\ using' = using \union {sd}
    /\ pc' = "answer"
    /\ UNCHANGED <<sd, acc, word, status, shared, ghosts, freed, failing>>

SendReturn ==
    /\ pc = "answer"
    /\ pc' = "idle"
    /\ UNCHANGED <<sd, acc, word, status, shared, ghosts, device>>

-----------------------------------------------------------------------------
(* The interrupt handler                                                    *)

Interruptible == RmwRace \/ pc \notin {"store_status", "store_free"}

\* Mutant: one buffer per event is added.
FreeBuffOne ==
    /\ Interruptible
    /\ \E n \in 1..freed :
          /\ free' = free + 1
          /\ released' = (released + n) % Wrap
          /\ freed' = freed - n
    /\ UNCHANGED <<main, sent, transmitError, inactive, ghosts, busy, using,
                   failing>>

\* Mutant: the packets are counted, the buffers are not.
FreeBuffUncounted ==
    /\ Interruptible
    /\ \E n \in 1..freed :
          /\ released' = (released + n) % Wrap
          /\ freed' = freed - n
    /\ UNCHANGED <<main, free, sent, transmitError, inactive, ghosts, busy,
                   using, failing>>

\* HCI_EVNT_DATA_UNSOL_FREE_BUFF: the buffers of all handles in the event are
\* added up; when as many are released as were sent, the application is called
\* back with CAN_SHUT_DOWN (CanShutDown below).
FreeBuff ==
    /\ Interruptible
    /\ \E n \in 1..freed :
          /\ free' = free + n
          /\ released' = (released + n) % Wrap
          /\ freed' = freed - n
    /\ UNCHANGED <<main, sent, transmitError, inactive, ghosts, busy, using,
                   failing>>

CanShutDown == FreeBuff /\ released' = sent

\* A send of the past could not be transmitted: HCI_EVNT_SEND with the status
\* ERROR_SOCKET_INACTIVE.  What is kept for the next send is the status byte of
\* the event's header, an unsigned byte: 0 or any other value.
StatusBytes == {0, 1}

\* Mutant: the status of the socket is left as it is.
SendFailedUnmarked(s) ==
    /\ Interruptible
    /\ s \in failing
    /\ failing' = failing \ {s}
    /\ transmitError' \in StatusBytes
    /\ told' = told \union {s}
    /\ UNCHANGED <<main, free, sent, released, inactive, open, busy, freed,
                   using>>

SendFailed(s) ==
    /\ Interruptible
    /\ s \in failing
    /\ failing' = failing \ {s}
    /\ transmitError' \in StatusBytes
    /\ inactive' = inactive \union {s}
    /\ told' = told \union {s}
    /\ UNCHANGED <<main, free, sent, released, open, busy, freed, using>>

-----------------------------------------------------------------------------
(* The CC3000: a packet leaves its buffer; a packet cannot be sent.           *)

DevTransmit ==
    /\ busy > 0
    /\ busy' = busy - 1
    /\ freed' = freed + 1
    /\ UNCHANGED <<main, shared, ghosts, using, failing>>

DevSocketDies(s) ==
    /\ s \in using
    /\ using' = using \ {s}
    /\ failing' = failing \union {s}
    /\ UNCHANGED <<main, shared, ghosts, busy, freed>>

-----------------------------------------------------------------------------
Main ==
    \/ LoadStatus \/ StoreStatus
    \/ CheckError \/ ClearError \/ CheckStatus \/ CheckFree
    \/ LoadFree \/ StoreFree \/ CountSent \/ Transmit \/ SendReturn

Application ==
    \E s \in Sockets : Socket(s) \/ CloseSocket(s) \/ RecvFails(s) \/ Send(s)

Handler == FreeBuff \/ \E s \in Sockets : SendFailed(s)

Next == Main \/ Application \/ Handler \/ DevTransmit
        \/ \E s \in Sockets : DevSocketDies(s)

\* Main runs, the CC3000 transmits what it has and reports it.
Fairness == WF_vars(Main) /\ WF_vars(FreeBuff) /\ WF_vars(DevTransmit)

Safety == Init /\ [][Next]_vars
Spec == Safety /\ Fairness

-----------------------------------------------------------------------------
(* Properties                                                               *)

\* The variables keep their types: the count of free buffers, in particular,
\* never goes below zero or above the number there are.
TypeOK ==
    /\ pc \in {"idle", "load_status", "store_status", "check", "clear_error",
               "check_status", "check_free", "load_free",
               "store_free", "count", "transmit", "answer"}
    /\ sd \in Sockets /\ status \in {"active", "inactive"}
    /\ acc \in 0..Buffers /\ word \subseteq Sockets
    /\ free \in 0..Buffers
    /\ sent \in 0..Wrap-1 /\ released \in 0..Wrap-1
    /\ transmitError \in StatusBytes /\ inactive \subseteq Sockets
    /\ open \subseteq Sockets /\ told \subseteq open
    /\ busy \in 0..Buffers /\ freed \in 0..Buffers
    /\ using \subseteq open /\ failing \subseteq open

\* A buffer that a send in progress has taken and not yet filled.
InHand == IF pc \in {"count", "transmit"} THEN 1 ELSE 0

\* usNumberOfFreeBuffers is the number of buffers that are free: none is lost
\* and none is counted twice.
BuffersKnown == free + InHand + busy + freed = Buffers

\* Whatever the handler does to the count while a send takes a buffer from it,
\* the CC3000 has a buffer for every packet it is sent, and the last buffer is
\* not lost.
NeverOverruns == free + InHand + busy + freed \in 1..Buffers

\* What the handler learnt of a dead socket is not forgotten when main changes
\* the status of another: a later send to it is refused.
DeadStaysDead == told \subseteq inactive

\* CAN_SHUT_DOWN is only reported when the CC3000 has sent every packet it was
\* given, also when the two counters have wrapped.
DrainedWhenShutDown == [][CanShutDown => busy = 0 /\ freed' = 0]_vars

\* A send returns: when it waits for a buffer, one becomes free.
SendReturns == pc = "check" ~> pc = "idle"

=============================================================================
