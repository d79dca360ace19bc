-------------------------------- MODULE Cxn --------------------------------
(***************************************************************************)
(* The UDP connection of cxn.c: one socket and one remembered address,     *)
(* used by the command thread (cxn_recv) and the status thread (cxn_send). *)
(* cxn->lock covers each read and each write of the address, but neither   *)
(* the connect system call nor a test and the action taken on it, so every *)
(* lock section and every system call is a step of its own.                *)
(***************************************************************************)
EXTENDS Integers, Sequences

CONSTANTS
    Host,      \* servers (address and port) that may talk to the program
    None,
    MaxQueue   \* bound: datagrams waiting in the socket

ASSUME HostAssumption == None \notin Host

VARIABLES
    cmd,       \* where the command thread is in cxn_bind or cxn_recv
    src,       \* its local `addr': the source of the datagram it received
    stat,      \* where the status thread is in cxn_established or cxn_send
    dest,      \* its local `addr': the address it sends the status to
    addr,      \* cxn->addr, None when cxn->len is 0
    online,    \* what the status thread told mongrid_set_online last
    peer,      \* kernel: the address the socket is connected to
    queue,     \* kernel: sources of the datagrams waiting in the socket
    refused,   \* kernel: a pending ECONNREFUSED
    icmp,      \* network: hosts whose "port unreachable" is on its way
    server,    \* what each host does: talk, refuse or nothing at all
    timedOut   \* history: the last cxn_recv timed out

cmdVars == <<cmd, src>>
statVars == <<stat, dest, online>>
kernel == <<peer, queue, refused>>
network == <<icmp, server>>
vars == <<cmdVars, statVars, addr, kernel, network, timedOut>>

TypeOK ==
    /\ cmd \in {"bind", "recv", "check", "connect", "set_addr",
                "disconnect", "clear"}
    /\ stat \in {"established", "get_addr", "sendto", "disconnect", "clear"}
    /\ {src, dest, addr, peer} \subseteq Host \cup {None}
    /\ queue \in Seq(Host)
    /\ online \in BOOLEAN /\ refused \in BOOLEAN /\ timedOut \in BOOLEAN
    /\ icmp \subseteq Host
    /\ server \in [Host -> {"up", "closed", "dark"}]

\* Mutant: cxn_create without its memset.
InitUncleared ==
    /\ cmd = "bind" /\ src = None
    /\ stat = "established" /\ dest = None /\ online = FALSE
    /\ addr = 0 /\ peer = None /\ queue = <<>> /\ refused = FALSE
    /\ icmp = {} /\ server = [h \in Host |-> "up"] /\ timedOut = FALSE

Init ==
    /\ cmd = "bind" /\ src = None
    /\ stat = "established" /\ dest = None /\ online = FALSE
    /\ addr = None /\ peer = None /\ queue = <<>> /\ refused = FALSE
    /\ icmp = {} /\ server = [h \in Host |-> "up"] /\ timedOut = FALSE

----------------------------------------------------------------------------
(* Command thread *)

\* cxn_bind, once a bind succeeds
Bind ==
    /\ cmd = "bind" /\ cmd' = "recv"
    /\ UNCHANGED <<src, statVars, addr, kernel, network, timedOut>>

\* recvfrom reports a pending error before it looks at the queue.
RecvDatagram ==
    /\ cmd = "recv" /\ ~refused /\ queue # <<>>
    /\ cmd' = "check" /\ src' = Head(queue) /\ queue' = Tail(queue)
    /\ timedOut' = FALSE
    /\ UNCHANGED <<statVars, addr, peer, refused, network>>

\* EAGAIN: the 35 second timeout of cxn_set_timeout; only a log line.
RecvTimeout ==
    /\ cmd = "recv" /\ ~refused /\ queue = <<>>
    /\ timedOut' = TRUE
    /\ UNCHANGED <<cmdVars, statVars, addr, kernel, network>>

\* Any other error disconnects, a pending one or one of the call's own.
RecvError ==
    /\ cmd = "recv" /\ refused
    /\ refused' = FALSE /\ cmd' = "disconnect"
    /\ UNCHANGED <<src, statVars, addr, peer, queue, network, timedOut>>

RecvFails ==
    /\ cmd = "recv" /\ ~refused /\ cmd' = "disconnect"
    /\ UNCHANGED <<src, statVars, addr, kernel, network, timedOut>>

\* cxn_recv: if (!cxn_established(cxn)) cxn_connect(...)
RecvEstablished ==
    /\ cmd = "check" /\ addr # None /\ cmd' = "recv"
    /\ UNCHANGED <<src, statVars, addr, kernel, network, timedOut>>

\* Mutant: every datagram connects.
RecvAlwaysConnects ==
    /\ cmd = "check" /\ cmd' = "connect"
    /\ UNCHANGED <<src, statVars, addr, kernel, network, timedOut>>

RecvNotEstablished ==
    /\ cmd = "check" /\ addr = None /\ cmd' = "connect"
    /\ UNCHANGED <<src, statVars, addr, kernel, network, timedOut>>

\* cxn_connect: the system call, and cxn_set_addr when it succeeds
Connect ==
    /\ cmd = "connect" /\ peer' = src /\ cmd' = "set_addr"
    /\ UNCHANGED <<src, statVars, addr, queue, refused, network, timedOut>>

ConnectFails ==
    /\ cmd = "connect" /\ cmd' = "recv"
    /\ UNCHANGED <<src, statVars, addr, kernel, network, timedOut>>

SetAddr ==
    /\ cmd = "set_addr" /\ addr' = src /\ cmd' = "recv"
    /\ UNCHANGED <<src, statVars, kernel, network, timedOut>>

\* cxn_disconnect on the command thread: connect to AF_UNSPEC, then
\* cxn_set_addr with length 0
RecvDisconnect ==
    /\ cmd = "disconnect" /\ peer' = None /\ cmd' = "clear"
    /\ UNCHANGED <<src, statVars, addr, queue, refused, network, timedOut>>

\* A failed connect is logged, and the address stays.
RecvDisconnectFails ==
    /\ cmd = "disconnect" /\ cmd' = "recv"
    /\ UNCHANGED <<src, statVars, addr, kernel, network, timedOut>>

RecvClear ==
    /\ cmd = "clear" /\ addr' = None /\ cmd' = "recv"
    /\ UNCHANGED <<src, statVars, kernel, network, timedOut>>

----------------------------------------------------------------------------
(* Status thread *)

\* status_thread: cxn_established, and mongrid_set_online(false) without it
Established ==
    /\ stat = "established" /\ addr # None /\ stat' = "get_addr"
    /\ UNCHANGED <<cmdVars, dest, online, addr, kernel, network, timedOut>>

NotEstablished ==
    /\ stat = "established" /\ addr = None /\ online' = FALSE
    /\ UNCHANGED <<cmdVars, stat, dest, addr, kernel, network, timedOut>>

\* cxn_send: cxn_get_addr, then sendto if the length is not 0 by now
GetAddr ==
    /\ stat = "get_addr" /\ dest' = addr
    /\ IF addr = None THEN stat' = "established" /\ online' = FALSE
       ELSE stat' = "sendto" /\ UNCHANGED online
    /\ UNCHANGED <<cmdVars, addr, kernel, network, timedOut>>

\* Only a closed port answers a status with an ICMP message.
SendTo ==
    /\ stat = "sendto" /\ ~refused
    /\ stat' = "established" /\ online' = TRUE
    /\ icmp' = IF server[dest] = "closed" THEN icmp \cup {dest} ELSE icmp
    /\ UNCHANGED <<cmdVars, dest, addr, kernel, server, timedOut>>

\* Mutant: the error is logged and no more.
SendErrorIgnored ==
    /\ stat = "sendto" /\ refused
    /\ refused' = FALSE /\ stat' = "established" /\ online' = FALSE
    /\ UNCHANGED <<cmdVars, dest, addr, peer, queue, network, timedOut>>

\* Every error disconnects, a pending one or one of the call's own.
SendError ==
    /\ stat = "sendto" /\ refused
    /\ refused' = FALSE /\ stat' = "disconnect"
    /\ UNCHANGED <<cmdVars, dest, online, addr, peer, queue, network, timedOut>>

SendFails ==
    /\ stat = "sendto" /\ ~refused /\ stat' = "disconnect"
    /\ UNCHANGED <<cmdVars, dest, online, addr, kernel, network, timedOut>>

\* cxn_disconnect on the status thread
SendDisconnect ==
    /\ stat = "disconnect" /\ peer' = None /\ stat' = "clear"
    /\ UNCHANGED <<cmdVars, dest, online, addr, queue, refused, network,
                   timedOut>>

SendDisconnectFails ==
    /\ stat = "disconnect" /\ stat' = "established" /\ online' = FALSE
    /\ UNCHANGED <<cmdVars, dest, addr, kernel, network, timedOut>>

SendClear ==
    /\ stat = "clear" /\ addr' = None
    /\ stat' = "established" /\ online' = FALSE
    /\ UNCHANGED <<cmdVars, dest, kernel, network, timedOut>>

----------------------------------------------------------------------------
(* Kernel, network and servers *)

\* A connected socket takes datagrams from its peer only.
ServerSends(h) ==
    /\ server[h] = "up" /\ cmd # "bind" /\ peer \in {None, h}
    /\ Len(queue) < MaxQueue /\ queue' = Append(queue, h)
    /\ UNCHANGED <<cmdVars, statVars, addr, peer, refused, network, timedOut>>

\* The error is reported to a connected socket only.
IcmpArrives(h) ==
    /\ h \in icmp /\ icmp' = icmp \ {h}
    /\ refused' = (refused \/ peer = h)
    /\ UNCHANGED <<cmdVars, statVars, addr, peer, queue, server, timedOut>>

ServerChanges(h) ==
    /\ \E s \in {"up", "closed", "dark"} \ {server[h]} :
         server' = [server EXCEPT ![h] = s]
    /\ UNCHANGED <<cmdVars, statVars, addr, kernel, icmp, timedOut>>

----------------------------------------------------------------------------
CmdThread ==
    \/ Bind \/ RecvDatagram \/ RecvTimeout \/ RecvError
    \/ RecvEstablished \/ RecvNotEstablished
    \/ Connect \/ SetAddr \/ RecvDisconnect \/ RecvClear

StatusThread ==
    \/ Established \/ NotEstablished \/ GetAddr \/ SendTo \/ SendError
    \/ SendDisconnect \/ SendClear

\* System calls that fail for a reason of their own
Failure ==
    \/ RecvFails \/ ConnectFails \/ RecvDisconnectFails
    \/ SendFails \/ SendDisconnectFails

Environment ==
    \E h \in Host : ServerSends(h) \/ IcmpArrives(h) \/ ServerChanges(h)

Next == CmdThread \/ StatusThread \/ Failure \/ Environment

Spec == Init /\ [][Next]_vars

\* Both threads run, a blocked recvfrom returns, the network delivers, and
\* the system call that disconnects does not fail for ever.
Fairness ==
    /\ WF_vars(CmdThread)
    /\ WF_vars(StatusThread)
    /\ SF_vars(RecvDisconnect) /\ SF_vars(SendDisconnect)
    /\ \A h \in Host : WF_vars(IcmpArrives(h))

FairSpec == Spec /\ Fairness

----------------------------------------------------------------------------
(* Properties *)

\* The two ends of the connection never disagree: when the socket is
\* connected and an address is remembered, they are the same, although one
\* thread connects while the other disconnects and no lock spans the two.
AddrIsPeer == addr = None \/ peer = None \/ addr = peer

\* A connection whose server refuses the status is dropped, so that another
\* server can take its place (cxn_send: disconnect when sendto fails).
RefusedPeerDropped == \A h \in Host :
    addr = h /\ peer = h /\ server[h] = "closed"
        ~> addr # h \/ peer # h \/ server[h] # "closed"

\* cxn_set_timeout: "this will allow cxn_recv to disconnect after the
\* timeout", so a connection does not survive a server that fell silent.
TimeoutDisconnects ==
    timedOut /\ addr # None ~> ~timedOut \/ addr = None
=============================================================================
