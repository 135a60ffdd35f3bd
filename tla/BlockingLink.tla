---------------------------- MODULE BlockingLink ----------------------------
(***************************************************************************)
(* What the SPI driver promises to the HCI layer above it (hci.c,            *)
(* evnt_handler.c), whatever happens on the bus: SpiWrite blocks until the   *)
(* CC3000 has taken the packet, once; a packet of the CC3000 reaches the     *)
(* host once, and only when the host has handled the one before.  Garbles    *)
(* allows the one exception: while SpiWrite repeats a packet that was taken, *)
(* what the host reads may be no packet, and the packet it stands for lost.  *)
(***************************************************************************)
EXTENDS Naturals

CONSTANTS
    MaxEvents,   \* bound on the unsolicited events that wait in the CC3000
    MaxReplies,  \* bound on the packets that answer one command
    Garbles      \* may the host read while it repeats a packet it gave?

VARIABLES
    up,          \* between wlan_start and wlan_stop
    packet,      \* of the host: "none", "given" to SpiWrite, "taken"
    events,      \* unsolicited events that wait in the CC3000
    owed,        \* answers the CC3000 still owes to the latest packet
    mailbox      \* has the host an answer it has not handled?

vars == <<up, packet, events, owed, mailbox>>

Init ==
    /\ up = FALSE
    /\ packet = "none"
    /\ events = 0
    /\ owed = 0
    /\ mailbox = "empty"

\* wlan_start gives the first packet.
Start ==
    /\ ~up
    /\ up' = TRUE
    /\ packet' = "given"
    /\ UNCHANGED <<events, owed, mailbox>>

Quiet == up /\ packet = "none" /\ owed = 0 /\ mailbox = "empty"

Give ==
    /\ Quiet
    /\ packet' = "given"
    /\ UNCHANGED <<up, events, owed, mailbox>>

Take ==
    /\ packet = "given"
    /\ packet' = "taken"
    /\ owed' \in 0..MaxReplies
    /\ UNCHANGED <<up, events, mailbox>>

Return ==
    /\ packet = "taken"
    /\ packet' = "none"
    /\ UNCHANGED <<up, events, owed, mailbox>>

Event ==
    /\ up
    /\ events < MaxEvents
    /\ events' = events + 1
    /\ UNCHANGED <<up, packet, owed, mailbox>>

DeliverEvent ==
    /\ events > 0 /\ mailbox = "empty"
    /\ events' = events - 1
    /\ UNCHANGED <<up, packet, owed, mailbox>>

DeliverAnswer ==
    /\ owed > 0 /\ mailbox = "empty"
    /\ owed' = owed - 1
    /\ mailbox' \in {"empty", "full"}
    /\ UNCHANGED <<up, packet, events>>

\* The host gets bytes that are no packet; the packet it read at may be lost.
Garble ==
    /\ Garbles
    /\ packet = "taken" /\ mailbox = "empty"
    /\ mailbox' = "full"
    /\ \/ UNCHANGED <<events, owed>>
       \/ events > 0 /\ events' = events - 1 /\ owed' = owed
       \/ owed > 0 /\ owed' = owed - 1 /\ events' = events
    /\ UNCHANGED <<up, packet>>

Handle ==
    /\ packet = "none" /\ mailbox = "full"
    /\ mailbox' = "empty"
    /\ UNCHANGED <<up, packet, events, owed>>

Stop ==
    /\ Quiet
    /\ up' = FALSE
    /\ events' = 0
    /\ UNCHANGED <<packet, owed, mailbox>>

Deliver == DeliverEvent \/ DeliverAnswer

Next == Start \/ Give \/ Take \/ Return \/ Event \/ Deliver \/ Garble \/ Handle \/ Stop

\* A packet given is taken, SpiWrite returns, an answer in the mailbox is
\* handled, and a host that waits for an answer gets the packets there are.
Fairness ==
    /\ WF_vars(Take)
    /\ WF_vars(Return)
    /\ WF_vars(Handle)
    /\ WF_vars(packet = "none" /\ owed > 0 /\ Deliver)

Safety == Init /\ [][Next]_vars
Spec == Safety /\ Fairness

=============================================================================
