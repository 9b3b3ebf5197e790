------------------------------ MODULE SshAccess ------------------------------
(***************************************************************************)
(* `ct-agent ssh` (ssh_access.rs) against an agent that terminates TLS and *)
(* asks for the owner's key before it dials sshd (ssh_owner.rs), or does   *)
(* not ask.  The client proves the key, or finds sshd's first bytes where  *)
(* the challenge would be; then it pumps both ways until one side ends.    *)
(* Bytes are numbered per direction in the order ssh and sshd wrote them;  *)
(* a challenge is its first bytes (magic) and the rest.  A read of the     *)
(* preamble gives up after its timeout, and so does the drain at the end.  *)
(***************************************************************************)
EXTENDS Naturals, Sequences

CONSTANT SshBytes  \* bound: bytes ssh and sshd write, each

ASSUME SshAssumption == SshBytes \in Nat

VARIABLES
    setting,  \* whether the agent asks for the key, and the key the client has
    client,   \* ct-agent ssh: where it is, and what ended it
    door,     \* the agent's side of the stream
    wire,     \* what is on its way to the agent and to the client
    ssh,      \* bytes the client has taken from it; stdin closed; what it got
    sshd      \* bytes it wrote; what reached it; its end of input

sshVars == <<setting, client, door, wire, ssh, sshd>>

SshInit ==
    /\ setting \in [asks : BOOLEAN, key : {"right", "wrong", "none"}]
    /\ client = [at |-> "dial", why |-> "none"]
    /\ door = "accept"
    /\ wire = [up |-> << >>, down |-> << >>]
    /\ ssh = [sent |-> 0, closed |-> FALSE, got |-> << >>]
    /\ sshd = [sent |-> 0, got |-> << >>, eof |-> FALSE]

\* A byte of ssh or sshd, or a part of the preamble or the end of the stream.
SshByte(n) == <<"byte", n>>
Part(kind) == <<kind, 0>>
NextDown == Head(wire.down)[1]
NextUp == Head(wire.up)[1]
TakesDown == wire.down # << >> /\ wire' = [wire EXCEPT !.down = Tail(@)]

\* The process exits; the agent reads what is under way and then the end of the stream.
Exits(why) == client' = [at |-> "exited", why |-> why]
ExitsWith(why) == Exits(why) /\ wire' = [wire EXCEPT !.up = Append(@, Part("eof")), !.down = << >>]

-----------------------------------------------------------------------------
(* The client: run_ssh and pipe_over_tls. *)

\* The trust store, dial within its timeout and the TLS handshake.
SshConnects ==
    /\ client.at = "dial"
    /\ client' = [client EXCEPT !.at = "head"] \/ Exits("unreachable")
    /\ UNCHANGED <<setting, door, wire, ssh, sshd>>

\* Mutation: what was read to look for a challenge is dropped.
ReadsHeadOnly ==
    /\ client.at = "head" /\ TakesDown
    /\ client' = CASE NextDown = "magic" -> [client EXCEPT !.at = "challenge"]
                   [] NextDown = "eof"   -> [at |-> "exited", why |-> "preamble"]
                   [] OTHER              -> [client EXCEPT !.at = "pump"]
    /\ UNCHANGED <<setting, door, ssh, sshd>>

\* client_handshake reads as many bytes as the magic has: a challenge, or the start of sshd's
\* banner, which pipe_over_tls writes out before anything else.
ReadsHead ==
    /\ client.at = "head" /\ TakesDown
    /\ CASE NextDown = "magic" -> client' = [client EXCEPT !.at = "challenge"] /\ UNCHANGED ssh
         [] NextDown = "eof"   -> Exits("preamble") /\ UNCHANGED ssh
         [] OTHER              -> /\ client' = [client EXCEPT !.at = "pump"]
                                  /\ ssh' = [ssh EXCEPT !.got = Append(@, Head(wire.down)[2])]
    /\ UNCHANGED <<setting, door, sshd>>

\* The rest of the challenge is answered with the tag of the client's key.
AnswersChallenge ==
    /\ client.at = "challenge" /\ wire.down # << >> /\ NextDown = "nonce"
    /\ IF setting.key = "none" THEN ExitsWith("preamble")
       ELSE /\ client' = [client EXCEPT !.at = "verdict"]
            /\ wire' = [up |-> Append(wire.up, Part(setting.key)), down |-> Tail(wire.down)]
    /\ UNCHANGED <<setting, door, ssh, sshd>>

HearsVerdict ==
    /\ client.at = "verdict" /\ TakesDown
    /\ IF NextDown = "yes" THEN client' = [client EXCEPT !.at = "pump"] ELSE Exits("preamble")
    /\ UNCHANGED <<setting, door, ssh, sshd>>

\* read_exact_timeout, at whichever read.
PreambleTimesOut ==
    /\ client.at \in {"head", "challenge", "verdict"}
    /\ ExitsWith("preamble")
    /\ UNCHANGED <<setting, door, ssh, sshd>>

\* upstream: ssh's bytes in order; when stdin ends, close_notify, and a bounded drain.
PumpsUp ==
    /\ client.at = "pump"
    /\ \/ /\ ssh.sent < SshBytes /\ ~ssh.closed
          /\ ssh' = [ssh EXCEPT !.sent = @ + 1]
          /\ wire' = [wire EXCEPT !.up = Append(@, SshByte(ssh.sent + 1))]
          /\ UNCHANGED client
       \/ /\ ssh.closed
          /\ wire' = [wire EXCEPT !.up = Append(@, Part("eof"))]
          /\ client' = [client EXCEPT !.at = "drain"] /\ UNCHANGED ssh
    /\ UNCHANGED <<setting, door, sshd>>

\* upstream fails on a stream whose other end is gone: the select! ends the session at once.
UpstreamBreaks ==
    /\ client.at = "pump" /\ door = "closed"
    /\ ExitsWith("broken")
    /\ UNCHANGED <<setting, door, ssh, sshd>>

\* downstream: what sshd says, until its end, with or without a close_notify.
PumpsDown ==
    /\ client.at \in {"pump", "drain"} /\ TakesDown
    /\ IF NextDown = "eof" THEN Exits("eof") /\ UNCHANGED ssh
       ELSE ssh' = [ssh EXCEPT !.got = Append(@, Head(wire.down)[2])] /\ UNCHANGED client
    /\ UNCHANGED <<setting, door, sshd>>

DrainTimesOut ==
    /\ client.at = "drain" /\ ExitsWith("drained")
    /\ UNCHANGED <<setting, door, ssh, sshd>>

-----------------------------------------------------------------------------
(* The agent's side, ssh and sshd. *)

Hangs(say) == door' = "closed" /\ wire' = [up |-> << >>, down |-> wire.down \o say \o <<Part("eof")>>]

\* server_handshake: the challenge first, when the owner's key is required.
DoorOpens ==
    /\ door = "accept" /\ client.at \notin {"dial", "exited"}
    /\ IF setting.asks THEN door' = "ask" /\ wire' = [wire EXCEPT !.down = <<Part("magic"), Part("nonce")>>]
       ELSE door' = "relay" /\ UNCHANGED wire
    /\ UNCHANGED <<setting, client, ssh, sshd>>

\* The tag is checked; nobody else gets further, and a wrong one is told so.
DoorJudges ==
    /\ door = "ask" /\ wire.up # << >>
    /\ CASE NextUp = "right" -> /\ door' = "relay"
                                /\ wire' = [up |-> Tail(wire.up), down |-> Append(wire.down, Part("yes"))]
         [] NextUp = "wrong" -> Hangs(<<Part("no")>>)
         [] OTHER            -> Hangs(<< >>)
    /\ UNCHANGED <<setting, client, ssh, sshd>>

DoorTimesOut ==
    /\ door = "ask" /\ Hangs(<< >>)
    /\ UNCHANGED <<setting, client, ssh, sshd>>

DoorRelaysUp ==
    /\ door = "relay" /\ wire.up # << >> /\ ~sshd.eof
    /\ wire' = [wire EXCEPT !.up = Tail(@)]
    /\ sshd' = IF NextUp = "eof" THEN [sshd EXCEPT !.eof = TRUE]
               ELSE [sshd EXCEPT !.got = Append(@, Head(wire.up)[2])]
    /\ UNCHANGED <<setting, client, door, ssh>>

SshdWrites ==
    /\ door = "relay" /\ sshd.sent < SshBytes
    /\ sshd' = [sshd EXCEPT !.sent = @ + 1]
    /\ wire' = IF client.at = "exited" THEN wire ELSE [wire EXCEPT !.down = Append(@, SshByte(sshd.sent + 1))]
    /\ UNCHANGED <<setting, client, door, ssh>>

SshdEnds == door = "relay" /\ Hangs(<< >>) /\ UNCHANGED <<setting, client, ssh, sshd>>

SshCloses ==
    /\ ~ssh.closed /\ ssh' = [ssh EXCEPT !.closed = TRUE]
    /\ UNCHANGED <<setting, client, door, wire, sshd>>

SshNext ==
    \/ SshConnects \/ ReadsHead \/ AnswersChallenge \/ HearsVerdict \/ PreambleTimesOut
    \/ PumpsUp \/ UpstreamBreaks \/ PumpsDown \/ DrainTimesOut
    \/ DoorOpens \/ DoorJudges \/ DoorTimesOut \/ DoorRelaysUp \/ SshdWrites \/ SshdEnds \/ SshCloses

SshSpec == SshInit /\ [][SshNext]_sshVars

-----------------------------------------------------------------------------
(* Properties. *)

Numbered(q) == \A i \in DOMAIN q : q[i] = i

\* Between ssh and sshd nothing is lost at the joints: what each got is the start of what the
\* other wrote, from its first byte, whether or not the agent asked for the key and with nothing
\* of the preamble in between; a client that saw the server's end has passed on all it said; and
\* sshd hears nobody who was asked and did not prove the key (pipe_over_tls, client_handshake).
SessionWhole ==
    /\ Numbered(ssh.got) /\ Numbered(sshd.got)
    /\ client.why = "eof" => Len(ssh.got) = sshd.sent
    /\ setting.asks /\ setting.key # "right" => sshd.got = << >> /\ ssh.got = << >>
=============================================================================
