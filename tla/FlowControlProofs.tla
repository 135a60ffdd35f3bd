-------------------------- MODULE FlowControlProofs --------------------------
(***************************************************************************)
(* FlowControl: with interrupts between any load and store, the CC3000 is    *)
(* never sent a packet it has no buffer for, and one buffer is left.        *)
(***************************************************************************)
EXTENDS FlowControl, TLAPS

\* The count main has loaded is at most the count it will overwrite: the handler
\* only adds to it.  A count that was tested stays above zero.
LoadedInv ==
    /\ pc = "load_free" => free > 0
    /\ pc = "store_free" => acc \in 1..free

\* The buffers that are somewhere are no more than there are and at least one.
AccountInv ==
    /\ free \in Nat /\ busy \in Nat /\ freed \in Nat
    /\ LoadedInv
    /\ NeverOverruns

\* Main takes one buffer at a time, the handler gives back what the CC3000
\* freed, and a buffer that is lost by the race is lost from the sum.
LEMMA AccountInductive ==
    /\ Init => AccountInv
    /\ AccountInv /\ [Next]_vars => AccountInv'
<1> USE FlowAssumption DEF AccountInv, LoadedInv, NeverOverruns, InHand
<1>1. Init => AccountInv
  BY DEF Init
<1>2. ASSUME AccountInv, [Next]_vars PROVE AccountInv'
  <2> USE AccountInv DEF main, shared, ghosts, device
  <2>1. CASE Application
    BY <2>1 DEF Application, Socket, CloseSocket, RecvFails, Send
  <2>2. CASE LoadStatus \/ StoreStatus
    BY <2>2 DEF LoadStatus, StoreStatus
  <2>3. CASE CheckError \/ ClearError \/ CheckStatus
    BY <2>3 DEF CheckError, ClearError, CheckStatus
  <2>4. CASE CheckFree
    BY <2>4 DEF CheckFree
  <2>5. CASE LoadFree
    BY <2>5 DEF LoadFree
  <2>6. CASE StoreFree
    BY <2>6 DEF StoreFree
  <2>7. CASE CountSent
    BY <2>7 DEF CountSent
  <2>8. CASE Transmit
    BY <2>8 DEF Transmit
  <2>9. CASE SendReturn
    BY <2>9 DEF SendReturn
  <2>10. CASE FreeBuff
    <3> PICK n \in 1..freed : free' = free + n /\ freed' = freed - n
      BY <2>10 DEF FreeBuff
    <3>1. UNCHANGED <<main, busy>>
      BY <2>10 DEF FreeBuff
    <3> QED
      BY <3>1
  <2>11. ASSUME NEW s \in Sockets, SendFailed(s) \/ DevSocketDies(s)
         PROVE  AccountInv'
    BY <2>11 DEF SendFailed, DevSocketDies
  <2>12. CASE DevTransmit
    BY <2>12 DEF DevTransmit
  <2>13. CASE UNCHANGED vars
    BY <2>13 DEF vars
  <2> QED
    BY <1>2, <2>1, <2>2, <2>3, <2>4, <2>5, <2>6, <2>7, <2>8, <2>9, <2>10,
       <2>11, <2>12, <2>13 DEF Next, Main, Handler
<1> QED
  BY <1>1, <1>2

\* Whatever the interrupts do to usNumberOfFreeBuffers, there is a buffer for
\* every packet, and the last buffer is not lost.
THEOREM NeverOverrunsHolds == Safety => []NeverOverruns
<1>1. AccountInv => NeverOverruns
  BY DEF AccountInv
<1> QED
  BY <1>1, AccountInductive, PTL DEF Safety

-----------------------------------------------------------------------------
\* A counter that is less than two turns away from zero.
LEMMA OneTurn ==
    ASSUME NEW n \in Nat, n < Wrap + Wrap
    PROVE  n % Wrap = IF n < Wrap THEN n ELSE n - Wrap
<1> USE FlowAssumption
<1>1. CASE n < Wrap
  BY <1>1
<1>2. CASE n >= Wrap
  <2>1. n = ((n \div Wrap) * Wrap) + (n % Wrap) /\ n % Wrap \in 0..Wrap-1
        /\ n \div Wrap \in Int
    OBVIOUS
  <2>2. n \div Wrap = 1
    BY <1>2, <2>1
  <2> QED
    BY <1>2, <2>1, <2>2
<1> QED
  BY <1>1, <1>2

\* Packets that were counted and not reported as released.
Outstanding ==
    IF pc = "transmit" THEN busy + freed + 1 ELSE busy + freed

\* The two counters are as far apart as there are packets outstanding, also
\* when one of them has wrapped and the other has not.
PacketsInv ==
    /\ sent \in 0..Wrap-1 /\ released \in 0..Wrap-1
    /\ sent = released + Outstanding \/ sent + Wrap = released + Outstanding

\* There are fewer packets outstanding than a counter can count.
LEMMA FewOutstanding ==
    /\ AccountInv => Outstanding \in 0..Wrap-1
    /\ AccountInv' => Outstanding' \in 0..Wrap-1
  BY FlowAssumption
     DEF AccountInv, NeverOverruns, LoadedInv, InHand, Outstanding

\* Main counts a packet before it transmits it and the handler counts it when
\* it is released.
LEMMA PacketsInductive ==
    /\ Init => PacketsInv
    /\ AccountInv /\ AccountInv' /\ PacketsInv /\ [Next]_vars => PacketsInv'
<1>1. Init => PacketsInv
  BY FlowAssumption DEF Init, PacketsInv, Outstanding
<1>2. ASSUME AccountInv, AccountInv', PacketsInv, [Next]_vars
      PROVE  PacketsInv'
  <2> USE FlowAssumption DEF main, shared, ghosts, device
  <2>1. busy \in Nat /\ freed \in Nat /\ busy' \in Nat /\ freed' \in Nat
    BY <1>2 DEF AccountInv
  <2>2. Outstanding \in 0..Wrap-1 /\ Outstanding' \in 0..Wrap-1
    BY <1>2, FewOutstanding
  <2>3. ASSUME UNCHANGED <<sent, released, Outstanding>> PROVE PacketsInv'
    BY <1>2, <2>3 DEF PacketsInv
  <2>4. ASSUME UNCHANGED <<sent, released, busy, freed>>,
               pc # "transmit", pc' # "transmit"
        PROVE  PacketsInv'
    BY <2>3, <2>4 DEF Outstanding
  <2>5. CASE Application
    BY <2>4, <2>5 DEF Application, Socket, CloseSocket, RecvFails, Send
  <2>6. CASE LoadStatus \/ StoreStatus \/ CheckError \/ ClearError
             \/ CheckStatus \/ CheckFree \/ LoadFree \/ StoreFree \/ SendReturn
    BY <2>4, <2>6 DEF LoadStatus, StoreStatus, CheckError, ClearError,
                      CheckStatus, CheckFree, LoadFree, StoreFree, SendReturn
  <2>7. CASE CountSent
    <3>1. sent' = (sent + 1) % Wrap /\ released' = released
      BY <2>7 DEF CountSent
    <3>2. Outstanding' = Outstanding + 1
      BY <2>1, <2>7 DEF CountSent, Outstanding
    <3>3. sent \in 0..Wrap-1 /\ Wrap \in Nat /\ sent + 1 < Wrap + Wrap
      BY <1>2 DEF PacketsInv
    <3>4. sent' = IF sent + 1 < Wrap THEN sent + 1 ELSE sent + 1 - Wrap
      BY <3>1, <3>3, OneTurn
    <3> QED
      BY <1>2, <2>2, <3>1, <3>2, <3>3, <3>4 DEF PacketsInv
  <2>8. CASE Transmit
    <3>1. Outstanding' = Outstanding
      BY <2>1, <2>8 DEF Transmit, Outstanding
    <3> QED
      BY <2>3, <2>8, <3>1 DEF Transmit
  <2>9. CASE FreeBuff
    <3> PICK n \in 1..freed : /\ released' = (released + n) % Wrap
                              /\ freed' = freed - n
      BY <2>9 DEF FreeBuff
    <3>1. sent' = sent
      BY <2>9 DEF FreeBuff
    <3>2. n \in Nat /\ Outstanding' = Outstanding - n
      BY <2>1, <2>9 DEF FreeBuff, Outstanding
    <3>3. released \in 0..Wrap-1 /\ Wrap \in Nat /\ released + n < Wrap + Wrap
      BY <1>2, <2>2, <3>2 DEF PacketsInv
    <3>4. released' = IF released + n < Wrap THEN released + n
                                             ELSE released + n - Wrap
      BY <3>2, <3>3, OneTurn
    <3> QED
      BY <1>2, <2>2, <3>1, <3>2, <3>3, <3>4 DEF PacketsInv
  <2>10. ASSUME NEW s \in Sockets, SendFailed(s) \/ DevSocketDies(s)
         PROVE  PacketsInv'
    BY <2>3, <2>10 DEF SendFailed, DevSocketDies, Outstanding
  <2>11. CASE DevTransmit
    <3>1. Outstanding' = Outstanding
      BY <2>1, <2>11 DEF DevTransmit, Outstanding
    <3> QED
      BY <2>3, <2>11, <3>1 DEF DevTransmit
  <2>12. CASE UNCHANGED vars
    BY <2>3, <2>12 DEF vars, Outstanding
  <2> QED
    BY <1>2, <2>5, <2>6, <2>7, <2>8, <2>9, <2>10, <2>11, <2>12
       DEF Next, Main, Handler
<1> QED
  BY <1>1, <1>2

\* Counters that are equal are no turn apart.
LEMMA NoTurn ==
    ASSUME NEW m \in Nat, NEW n \in 0..Wrap-1, m = m + n \/ m + Wrap = m + n
    PROVE  n = 0
  BY FlowAssumption

\* Nothing in the buffers and nothing unreported.
LEMMA NothingLeft ==
    ASSUME NEW m \in Nat, NEW n \in Nat, m + n = 0 \/ m + n + 1 = 0
    PROVE  m = 0 /\ n = 0
  OBVIOUS

\* CAN_SHUT_DOWN means that everything transmitted is out, however often the
\* counters have wrapped and whenever the interrupt comes.
THEOREM DrainedWhenShutDownHolds == Safety => DrainedWhenShutDown
<1>1. ASSUME AccountInv', PacketsInv'
      PROVE  [CanShutDown => busy = 0 /\ freed' = 0]_vars
  <2> SUFFICES ASSUME CanShutDown PROVE busy = 0 /\ freed' = 0
    OBVIOUS
  <2>1. released' = sent' /\ busy' = busy
    BY DEF CanShutDown, FreeBuff, main
  <2>2. Outstanding' \in 0..Wrap-1
    BY <1>1, FewOutstanding
  <2>3. sent' \in Nat /\ (sent' = sent' + Outstanding'
                            \/ sent' + Wrap = sent' + Outstanding')
    BY <1>1, <2>1, FlowAssumption DEF PacketsInv
  <2>4. Outstanding' = 0
    BY <2>2, <2>3, NoTurn
  <2>5. busy' + freed' = 0 \/ busy' + freed' + 1 = 0
    BY <2>4 DEF Outstanding
  <2>6. busy' \in Nat /\ freed' \in Nat
    BY <1>1 DEF AccountInv
  <2> QED
    BY <2>1, <2>5, <2>6, NothingLeft
<1> QED
  BY <1>1, AccountInductive, PacketsInductive, PTL
     DEF Safety, DrainedWhenShutDown

-----------------------------------------------------------------------------
\* The steps of a send, up to the one that hands the packet over.
Sending == {"check", "check_status", "check_free", "load_free", "store_free",
            "count", "transmit"}

\* No count exceeds the number of buffers.
Counts == {free, busy, freed} \subseteq 0..Buffers

\* The buffers that are somewhere are no more than there are.
LEMMA CountsInRange == AccountInv => Counts
  BY FlowAssumption DEF AccountInv, NeverOverruns, InHand, Counts

\* The CC3000 knows no socket that is not open, and a send is of an open one up
\* to the packet.
TypeInv == TypeOK /\ (pc \in Sending => sd \in open)

\* The counts of buffers and of packets are in range by the two invariants
\* above; the sets of sockets because a socket is closed after its events.
LEMMA TypeInductive ==
    /\ Init => TypeInv
    /\ TypeInv /\ Counts' /\ PacketsInv' /\ [Next]_vars => TypeInv'
<1> USE DEF TypeInv, TypeOK, Sending, StatusBytes
<1>1. Init => TypeInv
  BY FlowAssumption DEF Init
<1>2. ASSUME TypeInv, Counts', PacketsInv', [Next]_vars
      PROVE  TypeInv'
  <2> USE TypeInv DEF main, shared, ghosts, device
  <2>1. /\ free' \in 0..Buffers
        /\ busy' \in 0..Buffers /\ freed' \in 0..Buffers
        /\ sent' \in 0..Wrap-1 /\ released' \in 0..Wrap-1
    BY <1>2 DEF Counts, PacketsInv
  <2>2. ASSUME NEW s \in Sockets,
               Socket(s) \/ CloseSocket(s) \/ RecvFails(s) \/ Send(s)
        PROVE  TypeInv'
    BY <2>1, <2>2 DEF Socket, CloseSocket, RecvFails, Send
  <2>3. CASE LoadStatus \/ StoreStatus
    BY <2>1, <2>3 DEF LoadStatus, StoreStatus
  <2>4. CASE CheckError \/ ClearError \/ CheckStatus \/ CheckFree
    BY <2>1, <2>4 DEF CheckError, ClearError, CheckStatus, CheckFree
  <2>5. CASE LoadFree \/ StoreFree
    BY <2>1, <2>5, FlowAssumption DEF LoadFree, StoreFree
  <2>6. CASE CountSent \/ Transmit \/ SendReturn
    BY <2>1, <2>6 DEF CountSent, Transmit, SendReturn
  <2>7. CASE FreeBuff
    BY <2>1, <2>7 DEF FreeBuff
  <2>8. ASSUME NEW s \in Sockets, SendFailed(s) \/ DevSocketDies(s)
        PROVE  TypeInv'
    BY <2>1, <2>8 DEF SendFailed, DevSocketDies
  <2>9. CASE DevTransmit \/ UNCHANGED vars
    BY <2>1, <2>9 DEF DevTransmit, vars
  <2> QED
    BY <1>2, <2>2, <2>3, <2>4, <2>5, <2>6, <2>7, <2>8, <2>9
       DEF Next, Main, Application, Handler
<1> QED
  BY <1>1, <1>2

\* Neither count runs below zero or above the number of buffers, and the death
\* of a socket is only reported while it is open.
THEOREM TypeOKHolds == Safety => []TypeOK
<1>1. TypeInv => TypeOK
  BY DEF TypeInv
<1> QED
  BY <1>1, AccountInductive, CountsInRange, PacketsInductive, TypeInductive,
     PTL DEF Safety

-----------------------------------------------------------------------------
\* Without the race, what main has loaded is what it overwrites; a socket whose
\* status is being set to active has not been used yet, let alone died.
AtomicInv ==
    /\ pc = "store_free" => acc = free
    /\ pc = "store_status" => word = inactive
    /\ pc \in {"load_status", "store_status"} /\ status = "active" =>
          sd \notin using \union failing \union told
    /\ pc \in Sending => sd \in open
    /\ using \union failing \union told \subseteq open
    /\ BuffersKnown /\ DeadStaysDead

\* The handler only steps in where main has loaded nothing.
LEMMA AtomicInductive ==
    ASSUME ~RmwRace
    PROVE  /\ Init => AtomicInv
           /\ AccountInv /\ AtomicInv /\ [Next]_vars => AtomicInv'
<1> USE DEF AtomicInv, BuffersKnown, DeadStaysDead, InHand, Sending
<1>1. Init => AtomicInv
  BY FlowAssumption DEF Init
<1>2. ASSUME AccountInv, AtomicInv, [Next]_vars PROVE AtomicInv'
  <2> USE AtomicInv DEF main, shared, ghosts, device
  <2>0. free \in Nat /\ busy \in Nat /\ freed \in Nat /\ Buffers \in Nat
    BY <1>2, FlowAssumption DEF AccountInv
  <2>1. ASSUME NEW s \in Sockets,
               Socket(s) \/ CloseSocket(s) \/ RecvFails(s) \/ Send(s)
        PROVE  AtomicInv'
    BY <2>1 DEF Socket, CloseSocket, RecvFails, Send
  <2>2. CASE LoadStatus
    BY <2>2 DEF LoadStatus
  <2>3. CASE StoreStatus
    BY <2>3 DEF StoreStatus
  <2>4. CASE CheckError \/ ClearError \/ CheckStatus \/ CheckFree
    BY <2>4 DEF CheckError, ClearError, CheckStatus, CheckFree
  <2>5. CASE LoadFree
    BY <2>5 DEF LoadFree
  <2>6. CASE StoreFree
    BY <2>0, <2>6 DEF StoreFree
  <2>7. CASE CountSent
    BY <2>7 DEF CountSent
  <2>8. CASE Transmit
    BY <2>0, <2>8 DEF Transmit
  <2>9. CASE SendReturn
    BY <2>9 DEF SendReturn
  <2>10. CASE FreeBuff
    <3> PICK n \in 1..freed : free' = free + n /\ freed' = freed - n
      BY <2>10 DEF FreeBuff
    <3>1. /\ UNCHANGED <<main, inactive, ghosts, busy, using, failing>>
          /\ pc \notin {"store_status", "store_free"}
      BY <2>10, ~RmwRace DEF FreeBuff, Interruptible
    <3> QED
      BY <2>0, <3>1
  <2>11. ASSUME NEW s \in Sockets, SendFailed(s)
         PROVE  AtomicInv'
    BY <2>11, ~RmwRace DEF SendFailed, Interruptible
  <2>12. ASSUME NEW s \in Sockets, DevSocketDies(s)
         PROVE  AtomicInv'
    BY <2>12 DEF DevSocketDies
  <2>13. CASE DevTransmit
    BY <2>0, <2>13 DEF DevTransmit
  <2>14. CASE UNCHANGED vars
    BY <2>14 DEF vars
  <2> QED
    BY <1>2, <2>1, <2>2, <2>3, <2>4, <2>5, <2>6, <2>7, <2>8, <2>9, <2>10,
       <2>11, <2>12, <2>13, <2>14 DEF Next, Main, Application, Handler
<1> QED
  BY <1>1, <1>2

\* Were usNumberOfFreeBuffers-- atomic, no buffer would ever be lost.
THEOREM BuffersKnownHolds ==
    ASSUME ~RmwRace
    PROVE  Safety => []BuffersKnown
<1>1. AtomicInv => BuffersKnown
  BY DEF AtomicInv
<1> QED
  BY <1>1, AccountInductive, AtomicInductive, PTL DEF Safety

\* Were the update of socket_active_status atomic, no dead socket would ever
\* be forgotten.
THEOREM DeadStaysDeadHolds ==
    ASSUME ~RmwRace
    PROVE  Safety => []DeadStaysDead
<1>1. AtomicInv => DeadStaysDead
  BY DEF AtomicInv
<1> QED
  BY <1>1, AccountInductive, AtomicInductive, PTL DEF Safety
=============================================================================
