----------------------------- MODULE CxnProofs -----------------------------
(***************************************************************************)
(* Proofs about Cxn, for any set of servers and any queue of datagrams.    *)
(***************************************************************************)
EXTENDS Cxn, TLAPS

\* Only the command thread remembers or connects to an address, and it does
\* so only after it saw none remembered; the status thread can but forget.
ConnectOK ==
    /\ cmd \in {"connect", "set_addr"} => addr = None
    /\ cmd = "set_addr" => peer \in {None, src}

\* The status thread sends to the address it read, which was one.
SendOK == stat = "sendto" => dest # None

IndInv == TypeOK /\ SendOK /\ AddrIsPeer /\ ConnectOK

\* Every step of a thread or of its environment keeps the types.
LEMMA TypeStep == ASSUME TypeOK, SendOK, [Next]_vars PROVE TypeOK'
<1> USE DEF TypeOK, cmdVars, statVars, kernel, network
<1>1. CASE RecvDatagram
  <2>1. src' \in Host /\ queue' \in Seq(Host)
    BY <1>1 DEF RecvDatagram
  <2> QED BY <1>1, <2>1 DEF RecvDatagram
<1>2. CASE Bind \/ RecvTimeout \/ RecvError \/ RecvEstablished
             \/ RecvNotEstablished
  BY <1>2 DEF Bind, RecvTimeout, RecvError, RecvEstablished,
              RecvNotEstablished
<1>3. CASE Connect \/ SetAddr \/ RecvDisconnect \/ RecvClear
  BY <1>3 DEF Connect, SetAddr, RecvDisconnect, RecvClear
<1>4. CASE Established \/ NotEstablished \/ GetAddr \/ SendTo
  <2>1. CASE Established \/ NotEstablished
    BY <2>1 DEF Established, NotEstablished
  <2>2. CASE GetAddr
    BY <2>2 DEF GetAddr
  <2>3. CASE SendTo
    <3>1. dest \in Host
      BY <2>3 DEF SendTo, SendOK
    <3>2. icmp' \subseteq Host
      BY <2>3, <3>1 DEF SendTo
    <3> QED BY <2>3, <3>2 DEF SendTo
  <2> QED BY <1>4, <2>1, <2>2, <2>3
<1>5. CASE SendError \/ SendDisconnect \/ SendClear
  BY <1>5 DEF SendError, SendDisconnect, SendClear
<1>6. ASSUME NEW h \in Host, ServerSends(h) \/ IcmpArrives(h)
      PROVE  TypeOK'
  <2>1. CASE ServerSends(h)
    <3>1. queue' \in Seq(Host)
      BY <2>1 DEF ServerSends
    <3> QED BY <2>1, <3>1 DEF ServerSends
  <2>2. CASE IcmpArrives(h)
    <3>1. refused' \in BOOLEAN
      BY <2>2 DEF IcmpArrives
    <3>2. icmp' \subseteq Host
      BY <2>2 DEF IcmpArrives
    <3> QED BY <2>2, <3>1, <3>2 DEF IcmpArrives
  <2> QED BY <1>6, <2>1, <2>2
<1>7. ASSUME NEW h \in Host, ServerChanges(h)
      PROVE  TypeOK'
  BY <1>7 DEF ServerChanges
<1>8. CASE Failure
  BY <1>8 DEF Failure, RecvFails, ConnectFails, RecvDisconnectFails, SendFails,
              SendDisconnectFails
<1>9. CASE UNCHANGED vars
  BY <1>9 DEF vars
<1> QED
  BY <1>1, <1>2, <1>3, <1>4, <1>5, <1>6, <1>7, <1>8, <1>9
  DEF Next, CmdThread, StatusThread, Environment

\* No interleaving of a connect with a disconnect leaves the ends apart.
LEMMA ConnectStep ==
  ASSUME SendOK, AddrIsPeer, ConnectOK, [Next]_vars
  PROVE  SendOK' /\ AddrIsPeer' /\ ConnectOK'
<1> USE DEF SendOK, AddrIsPeer, ConnectOK, cmdVars, statVars, kernel, network
<1>1. CASE CmdThread
  BY <1>1 DEF CmdThread, Bind, RecvDatagram, RecvTimeout, RecvError,
              RecvEstablished, RecvNotEstablished, Connect, SetAddr,
              RecvDisconnect, RecvClear
<1>2. CASE StatusThread
  BY <1>2 DEF StatusThread, Established, NotEstablished, GetAddr, SendTo,
              SendError, SendDisconnect, SendClear
<1>3. CASE Environment
  BY <1>3 DEF Environment, ServerSends, IcmpArrives, ServerChanges
<1>4. CASE Failure
  BY <1>4 DEF Failure, RecvFails, ConnectFails, RecvDisconnectFails, SendFails,
              SendDisconnectFails
<1>5. CASE UNCHANGED vars
  BY <1>5 DEF vars
<1> QED BY <1>1, <1>2, <1>3, <1>4, <1>5 DEF Next

\* The invariant holds in every reachable state.
THEOREM Invariance == Spec => []IndInv
<1>1. Init => IndInv
  <2>1. Init => TypeOK
    <3> SUFFICES ASSUME Init PROVE TypeOK
      OBVIOUS
    <3>1. queue \in Seq(Host) /\ icmp \subseteq Host
      BY DEF Init
    <3>2. server \in [Host -> {"up", "closed", "dark"}]
      BY DEF Init
    <3>3. online \in BOOLEAN /\ refused \in BOOLEAN /\ timedOut \in BOOLEAN
      BY DEF Init
    <3>4. {src, dest, addr, peer} \subseteq Host \cup {None}
      BY DEF Init
    <3> QED BY <3>1, <3>2, <3>3, <3>4 DEF Init, TypeOK
  <2>2. Init => SendOK /\ AddrIsPeer /\ ConnectOK
    BY DEF Init, SendOK, AddrIsPeer, ConnectOK
  <2> QED BY <2>1, <2>2 DEF IndInv
<1>2. IndInv /\ [Next]_vars => IndInv'
  BY TypeStep, ConnectStep DEF IndInv
<1> QED BY <1>1, <1>2, PTL DEF Spec

\* Every variable keeps its type.
THEOREM TypeCorrect == Spec => []TypeOK
<1>1. IndInv => TypeOK
  BY DEF IndInv
<1> QED BY Invariance, <1>1, PTL

\* The remembered address and the kernel's peer never disagree.
THEOREM EndsAgree == Spec => []AddrIsPeer
<1>1. IndInv => AddrIsPeer
  BY DEF IndInv
<1> QED BY Invariance, <1>1, PTL
=============================================================================
