------------------------------ MODULE SuperPeer ------------------------------
(***************************************************************************)
(* The LAN relay of a super peer (super_peer.rs): one loop on the front    *)
(* socket that gives every local client an upstream socket of its own, and *)
(* one return-path task per client that reads it, sends to the client, and *)
(* takes its client's entry out of the shared map when it ends.  A socket  *)
(* and its task have the same number.  A task that has not read anything   *)
(* for the idle timeout may end; so may one whose socket fails.            *)
(***************************************************************************)
EXTENDS Naturals, FiniteSets

CONSTANTS
    LanClients, \* local addresses that send
    ClientCap,  \* MAX_SUPER_PEER_CLIENTS
    Upstreams   \* bound: upstream sockets opened in a behaviour

ASSUME SuperPeerAssumption == ClientCap \in Nat /\ Upstreams \in Nat

VARIABLES
    mapping,  \* clients: by address, the upstream socket of its entry, 0 = no entry
    front,    \* the loop: what it does, for whom, with which socket
    paths     \* by number, the return path: its client, and unborn, recv, send, exit (it waits for
              \* the lock) or gone

superVars == <<mapping, front, paths>>

AwaitsDatagram == [at |-> "recv", from |-> "none", sock |-> 0]

SuperInit ==
    /\ mapping = [c \in LanClients |-> 0]
    /\ front = AwaitsDatagram
    /\ paths = [s \in 1 .. Upstreams |-> [at |-> "unborn", of |-> "none"]]

Entries == {c \in LanClients : mapping[c] # 0}
Unborn == {s \in DOMAIN paths : paths[s].at = "unborn"}

\* recv_from and the lock, which the loop keeps while it looks up and, for a new client, opens.
FrontReceives(c) ==
    /\ front.at = "recv"
    /\ front' = [front EXCEPT !.at = "locked", !.from = c]
    /\ UNCHANGED <<mapping, paths>>

FindsEntry ==
    /\ front.at = "locked" /\ mapping[front.from] # 0
    /\ front' = [front EXCEPT !.at = "send", !.sock = mapping[front.from]]
    /\ UNCHANGED <<mapping, paths>>

\* At the cap, or without a socket, the datagram is dropped and the loop goes on.
DropsNewClient ==
    /\ front.at = "locked" /\ mapping[front.from] = 0
    /\ front' = AwaitsDatagram
    /\ UNCHANGED <<mapping, paths>>

\* connected_upstream_socket, spawn_return_path and the insert, in one critical section.
OpensUpstream ==
    /\ front.at = "locked" /\ mapping[front.from] = 0
    /\ Cardinality(Entries) < ClientCap
    /\ \E s \in Unborn :
         /\ \A t \in Unborn : s <= t
         /\ mapping' = [mapping EXCEPT ![front.from] = s]
         /\ paths' = [paths EXCEPT ![s] = [at |-> "recv", of |-> front.from]]
         /\ front' = [front EXCEPT !.at = "send", !.sock = s]

\* The send upstream, outside the lock; a failure is logged.
ForwardsUp ==
    /\ front.at = "send" /\ front' = AwaitsDatagram
    /\ UNCHANGED <<mapping, paths>>

\* The return path: a datagram from the edge goes to the client; the send may fail.
PathReads(s) ==
    /\ paths[s].at = "recv" /\ paths' = [paths EXCEPT ![s].at = "send"]
    /\ UNCHANGED <<mapping, front>>

PathSends(s) ==
    /\ paths[s].at = "send" /\ paths' = [paths EXCEPT ![s].at = "recv"]
    /\ UNCHANGED <<mapping, front>>

\* The idle timeout, a failed read, or a failed send.
PathBreaks(s) ==
    /\ paths[s].at \in {"recv", "send"} /\ paths' = [paths EXCEPT ![s].at = "exit"]
    /\ UNCHANGED <<mapping, front>>

\* Mutation: a return path that ends leaves its entry for the next datagram to find.
PathEndsOnly(s) ==
    /\ paths[s].at = "exit" /\ front.at # "locked"
    /\ paths' = [paths EXCEPT ![s].at = "gone"]
    /\ UNCHANGED <<mapping, front>>

\* With the lock it removes the entry of its client's address; the entry's guard ends its task.
PathEnds(s) ==
    /\ paths[s].at = "exit" /\ front.at # "locked"
    /\ mapping' = [mapping EXCEPT ![paths[s].of] = 0]
    /\ paths' = [t \in DOMAIN paths |->
                   IF t \in {s, mapping[paths[s].of]} THEN [paths[t] EXCEPT !.at = "gone"] ELSE paths[t]]
    /\ UNCHANGED front

SuperNext ==
    \/ \E c \in LanClients : FrontReceives(c)
    \/ FindsEntry \/ DropsNewClient \/ OpensUpstream \/ ForwardsUp
    \/ \E s \in 1 .. Upstreams : PathReads(s) \/ PathSends(s) \/ PathBreaks(s) \/ PathEnds(s)

SuperSpec == SuperInit /\ [][SuperNext]_superVars

-----------------------------------------------------------------------------
(* Properties. *)

Alive(s) == paths[s].at \in {"recv", "send", "exit"}
OpenSockets == {s \in DOMAIN paths : Alive(s) \/ s = front.sock}

\* A client is never left with an upstream socket nobody reads (it would hear nothing more,
\* however often it sends), a return path never outlives its entry, and the sockets opened on
\* behalf of senders stay within the cap, but for the one an evicted client's last datagram is
\* just being sent on.
MappingsLive ==
    /\ \A c \in Entries : Alive(mapping[c])
    /\ \A s \in DOMAIN paths : Alive(s) => \E c \in Entries : mapping[c] = s
    /\ Cardinality(OpenSockets) <= ClientCap + 1
=============================================================================
