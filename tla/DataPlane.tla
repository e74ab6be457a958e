------------------------------- MODULE DataPlane -------------------------------
(***************************************************************************)
(* The packets of a tunnel router: tun_output.c and tun_input.c, and their *)
(* counterparts for Android without root (vpnapi_output.c, vpnapi_input.c).*)
(* The control plane answers, for a new flow, with what it knows at that   *)
(* moment (Forwarding models the answer itself); the answer is kept in the *)
(* tuple table while addresses, links and the map cache go on changing.    *)
(***************************************************************************)
EXTENDS TupleTable

CONSTANTS
    Devices,       \* pairs of a data plane ("TUN", "VPNAPI") and a mode
    Ifaces,        \* the interfaces with RLOCs
    Addrs,         \* the addresses they may have
    HasPetr,       \* Proxy-ETRs are configured
    Fds,           \* the descriptors of the output sockets
    LispEnds,      \* the ends with a port of LISP
    MulticastEnds, \* the ends with a multicast destination
    MaxChanges     \* bound on the changes around each data plane

VARIABLES
    plane, mode,
    tt,        \* the tuple table
    address,   \* the address of each interface, or NULL
    status,    \* the link of each interface is up
    socket,    \* the output socket of each interface, and of the VPN
    known,     \* the destination is in the map cache
    out,       \* what became of the last packet
    ago,       \* how long ago the control plane last gave a decision
    changes

vars == <<plane, mode, tt, address, status, socket, known, out, ago, changes>>

VPN == "data_socket"
Owners == Ifaces \cup {VPN}
ERR_SOCKET == -1

Lowest(fds) == CHOOSE fd \in fds : \A other \in fds : fd <= other

\* What a packet may become; an encapsulated one has the decision it was sent
\* by and the descriptor it was written to.
NoPacket == [how |-> "none"]
Dropped == [how |-> "dropped"]
Encap(fi, fd) == [how |-> "encap", fi |-> fi, fd |-> fd]

Decisions == [temporal : BOOLEAN, src : Addrs]

\* The answers of the control plane now: a pair of RLOCs whose source is an
\* address of the device, or none, and whether it is a temporary one.
ctrl_get_forwarding_info ==
    LET usable == {address[i] : i \in {j \in Ifaces : status[j] /\ address[j] # NULL}}
        paths == IF (known \/ HasPetr) /\ usable # {} THEN usable ELSE {NULL}
    IN  [temporal : {~known}, src : paths]

-----------------------------------------------------------------------------
Init ==
    /\ \E device \in Devices : plane = device[1] /\ mode = device[2]
    /\ tt = ttable_init
    /\ LET i == CHOOSE i \in Ifaces : TRUE
           a == CHOOSE a \in Addrs : TRUE IN
          /\ address = [j \in Ifaces |-> IF j = i THEN a ELSE NULL]
          /\ status = [j \in Ifaces |-> j = i]
          /\ socket = [o \in Owners |-> IF o = (IF plane = "TUN" THEN i ELSE VPN)
                                        THEN Lowest(Fds) ELSE ERR_SOCKET]
    /\ known = FALSE
    /\ out = NoPacket
    /\ ago = [d \in Decisions |-> IF d \in ctrl_get_forwarding_info THEN 0 ELSE TIMEOUT + 1]
    /\ changes = 0

\* ago after a step; ticks is 1 when time passes.
Answers(ticks) ==
    ago' = [d \in Decisions |->
        IF d \in ctrl_get_forwarding_info' THEN 0
        ELSE IF ago[d] + ticks > TIMEOUT THEN TIMEOUT + 1 ELSE ago[d] + ticks]

-----------------------------------------------------------------------------
\* The interface whose address is the source RLOC.
get_out_socket_ptr_from_address(a) ==
    IF \E i \in Ifaces : address[i] = a THEN CHOOSE i \in Ifaces : address[i] = a ELSE NULL

\* The pointer to the socket that a decision is sent by.
OutSock(d) == IF plane = "VPNAPI" THEN VPN ELSE get_out_socket_ptr_from_address(d.src)

\* A native packet leaves by the socket of an interface that is up.
forward_native ==
    IF plane = "VPNAPI" \/ \A i \in Ifaces : address[i] = NULL \/ ~status[i]
    THEN Dropped ELSE [how |-> "native"]

Send(fi) ==
    CASE fi.d.src = NULL -> forward_native
      [] fi.d.src # NULL /\ fi.out_sock = NULL -> [how |-> "crash"]
      [] OTHER -> Encap(fi, socket[fi.out_sock])

\* tun_output_unicast and vpnapi_output_unicast.
output_unicast(t) ==
    \E found \in {ttable_lookup(tt, t)} :
        IF found.fi # NULL THEN tt' = found.tt /\ out' = Send(found.fi)
        ELSE \E d \in ctrl_get_forwarding_info :
                LET fi == [d |-> d, temporal |-> d.temporal,
                           out_sock |-> IF d.src = NULL THEN NULL ELSE OutSock(d)]
                IN  /\ Free(Reduce(found.tt)) # {}
                    /\ tt' = ttable_insert(found.tt, t, fi)
                    /\ out' = Send(fi)

is_lisp_packet(t) == t.protocol = "UDP" /\ t.ends \in LispEnds

\* tun_output and vpnapi_output: what they do with an IP packet.  The VPN has
\* no case for multicast.
Output(t) ==
    CASE is_lisp_packet(t) -> out' = forward_native /\ UNCHANGED tt
      [] ~is_lisp_packet(t) /\ t.ends \in MulticastEnds /\ plane = "TUN" ->
            out' = Dropped /\ UNCHANGED tt
      [] OTHER -> output_unicast(t)

Around == <<plane, mode, address, status, socket, known, ago, changes>>

Running == out.how # "crash"

\* A packet of the EIDs is read from the tunnel interface; an RTR with a data
\* plane of its own does not read it.
output_recv(t) ==
    /\ Running
    /\ plane = "VPNAPI" \/ mode # "RTR_MODE"
    /\ Output(t)
    /\ UNCHANGED Around

\* A packet that is not IPv4 or IPv6 is read.
output_recv_not_ip ==
    /\ Running
    /\ plane = "VPNAPI" \/ mode # "RTR_MODE"
    /\ out' = Dropped
    /\ UNCHANGED <<tt, Around>>

\* An encapsulated packet arrives at an xTR and is delivered; the raw socket
\* also receives the packets of other ports.
process_input_packet(lisp_data) ==
    /\ Running
    /\ mode # "RTR_MODE"
    /\ lisp_data \/ plane = "TUN"
    /\ out' = IF lisp_data THEN [how |-> "tun"] ELSE Dropped
    /\ UNCHANGED <<tt, Around>>

\* It arrives at an RTR and is sent on.
rtr_process_input_packet(t) ==
    /\ Running
    /\ mode = "RTR_MODE"
    /\ Output(t)
    /\ UNCHANGED Around

-----------------------------------------------------------------------------
Change ==
    /\ Running
    /\ changes < MaxChanges[plane]
    /\ changes' = changes + 1
    /\ out' = NoPacket
    /\ UNCHANGED <<plane, mode, tt>>

\* Opening a socket gives a descriptor that is not in use.
NewFd == Lowest(Fds \ {socket[o] : o \in Owners})

\* The VPN opens a new socket before it closes the old one, which it keeps
\* when that fails.
vpnapi_reset_socket == socket' \in {socket, [socket EXCEPT ![VPN] = NewFd]}

\* An interface opens its socket with its first address and binds it again
\* with each other.
tun_updated_addr(i) ==
    socket' = IF address[i] = NULL THEN [socket EXCEPT ![i] = NewFd] ELSE socket

updated_addr(i, a) ==
    /\ Change
    /\ a \notin {address[j] : j \in Ifaces}
    /\ address' = [address EXCEPT ![i] = a]
    /\ IF plane = "VPNAPI" THEN vpnapi_reset_socket ELSE tun_updated_addr(i)
    /\ UNCHANGED <<status, known>>
    /\ Answers(0)

\* The socket is closed and not opened again.
tun_updated_linkClosed(i, reindexed) ==
    /\ plane = "TUN"
    /\ socket' = IF reindexed /\ address[i] # NULL /\ status[i]
                 THEN [socket EXCEPT ![i] = ERR_SOCKET] ELSE socket

\* An interface that came back with a new index opens its socket again.
tun_updated_link(i, reindexed) ==
    /\ plane = "TUN"
    /\ socket' = IF reindexed /\ address[i] # NULL
                 THEN [socket EXCEPT ![i] = NewFd] ELSE socket

vpnapi_update_link == plane = "VPNAPI" /\ vpnapi_reset_socket

updated_link(i, reindexed) ==
    /\ Change
    /\ status' = [status EXCEPT ![i] = ~@]
    /\ tun_updated_link(i, reindexed) \/ vpnapi_update_link
    /\ UNCHANGED <<address, known>>
    /\ Answers(0)

\* The map-cache entry of the destination becomes active, or expires.
map_cache_event ==
    /\ Change
    /\ known' = ~known
    /\ UNCHANGED <<address, status, socket>>
    /\ Answers(0)

\* Time passes: every node is older.
Tick ==
    /\ Running
    /\ tt' = [tt EXCEPT !.node = [n \in Nodes |->
                 IF @[n] = NULL THEN NULL
                 ELSE [@[n] EXCEPT !.age = IF @ > TIMEOUT THEN @ ELSE @ + 1]]]
    /\ out' = NoPacket
    /\ UNCHANGED <<plane, mode, address, status, socket, known, changes>>
    /\ Answers(1)

Next ==
    \/ \E t \in Tuples : output_recv(t)
    \/ output_recv_not_ip
    \/ \E lisp_data \in BOOLEAN : process_input_packet(lisp_data)
    \/ \E t \in Tuples : rtr_process_input_packet(t)
    \/ \E i \in Ifaces, a \in Addrs : updated_addr(i, a)
    \/ \E i \in Ifaces, reindexed \in BOOLEAN : updated_link(i, reindexed)
    \/ map_cache_event
    \/ Tick

Spec == Init /\ [][Next]_vars

-----------------------------------------------------------------------------
(* Properties.                                                             *)

\* Types of the state.
TypeOK ==
    /\ tt.htable.bucket \in [0 .. tt.htable.n_buckets - 1 ->
                               [flag : {"empty", "del", "live"}, key : Tuples \cup {NULL},
                                val : Nodes \cup {NULL}]]
    /\ tt.htable.n_occupied \in tt.htable.size .. tt.htable.n_buckets
    /\ address \in [Ifaces -> Addrs \cup {NULL}]
    /\ status \in [Ifaces -> BOOLEAN]
    /\ socket \in [Owners -> Fds \cup {ERR_SOCKET}]
    /\ ago \in [Decisions -> 0 .. TIMEOUT + 1]

\* Whatever was inserted, used, expired and dropped, the hash table and the
\* list of the tuple table have the same nodes and every flow is found where
\* it is (ttable_insert, ttable_lookup, kh_put, kh_resize).
TableConsistent == Consistent(tt)

\* The tuple table has at most MAX_SIZE flows (ttable_insert, "Maximum size of
\* the tuple table").
TableBounded == tt.htable.size <= MAX_SIZE

\* A packet is never sent by a decision that the control plane has not given
\* in the last TIMEOUT, or NEGATIVE_TIMEOUT for a temporary one: an address,
\* a link or an answer that is gone stops being used (ttable_lookup).
SentByRecentDecision ==
    out.how = "encap" =>
        ago[out.fi.d] <= (IF out.fi.d.temporal THEN NEGATIVE_TIMEOUT ELSE TIMEOUT)

\* An encapsulated packet is written to a socket that is open, even by a
\* decision that is older than the socket (fe->out_sock, tun_updated_link,
\* vpnapi_reset_socket).
SentByOpenSocket ==
    /\ out.how # "crash"
    /\ out.how = "encap" =>
          /\ out.fd # ERR_SOCKET
          /\ out.fd \in {socket[o] : o \in Owners}

=============================================================================
