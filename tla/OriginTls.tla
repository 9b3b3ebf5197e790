------------------------------ MODULE OriginTls ------------------------------
(***************************************************************************)
(* The agent's TLS terminator (OriginTerminator, serve.rs) beside the      *)
(* renewal of CertOrder: it builds its configuration from the two files    *)
(* the renewal replaces one after the other, and reloads it when one of    *)
(* their modification times has changed.  A file's time is the number of   *)
(* the order that wrote it.  A connection that takes the configuration     *)
(* passes the TLS handshake and the owner check (ssh_owner.rs) before the  *)
(* origin is dialed.                                                       *)
(***************************************************************************)
EXTENDS CertOrder

VARIABLES
    term, \* where the terminator is; the pair it serves; the times it recorded, and those it just read
    conn  \* a connection that is served: how far it is (the lock admits one to acceptor at a time)

originVars == <<certVars, term, conn>>

Down == [at |-> "down", pair |-> 0, seenKey |-> 0, seenCrt |-> 0, key |-> 0, crt |-> 0, got |-> 0, reloaded |-> FALSE]

OriginInit == CertInit /\ term = Down /\ conn = "none"

TermStep == UNCHANGED <<certVars, conn>>
Returns == conn' = "tls" /\ UNCHANGED certVars

\* OriginTerminator::load: the certificate is read, then the key, then both times.
LoadsCert ==
    /\ term.at = "down" /\ store.crt # 0
    /\ term' = [term EXCEPT !.at = "loadKey", !.got = store.crt] /\ TermStep

\* build_origin_server_config fails when the key is not the certificate's.
LoadsKey ==
    /\ term.at = "loadKey"
    /\ IF store.key = term.got THEN term' = [term EXCEPT !.at = "loadTimes", !.pair = term.got] ELSE term' = Down
    /\ TermStep

LoadsTimes ==
    /\ term.at = "loadTimes"
    /\ term' = [term EXCEPT !.at = "serving", !.seenKey = store.key, !.seenCrt = store.crt, !.got = 0]
    /\ TermStep

\* acceptor for a connection: its times are looked at, at most once per check interval ...
ReadsTimes ==
    /\ term.at = "serving" /\ conn = "acceptor" /\ (store.key # term.seenKey \/ store.crt # term.seenCrt)
    /\ term' = [term EXCEPT !.at = "cert", !.key = store.key, !.crt = store.crt] /\ TermStep

\* ... without a change, or within the interval, the configuration is the one there is ...
TakesConfig == term.at = "serving" /\ conn = "acceptor" /\ Returns /\ UNCHANGED term

\* ... and with one the certificate and the key are read; a pair that does not match leaves
\* everything as it was, to be tried again.
ReadsCert == term.at = "cert" /\ term' = [term EXCEPT !.at = "key", !.got = store.crt] /\ TermStep

Settled(t) == [t EXCEPT !.at = "serving", !.key = 0, !.crt = 0, !.got = 0]

\* Mutation: the times are read again once the pair is built.
ReadsKeyLate ==
    /\ term.at = "key"
    /\ IF store.key = term.got
       THEN term' = [term EXCEPT !.at = "loadTimes", !.pair = term.got, !.key = 0, !.crt = 0, !.reloaded = TRUE]
       ELSE term' = Settled(term)
    /\ Returns
ReadsKey ==
    /\ term.at = "key"
    /\ IF store.key = term.got
       THEN term' = Settled([term EXCEPT !.pair = term.got, !.seenKey = term.key, !.seenCrt = term.crt,
                                         !.reloaded = TRUE])
       ELSE term' = Settled(term)
    /\ Returns

\* The agent is stopped and started again.
TermStops == term.at # "down" /\ term' = Down /\ conn' = "none" /\ UNCHANGED certVars

ConnGoes(from, to) == term.at = "serving" /\ conn = from /\ conn' = to /\ UNCHANGED <<certVars, term>>

\* serve_duplex_to_origin: the first bytes say that the client speaks TLS (without it, a terminator
\* that requires the owner refuses, and the others forward the bytes as they are).
ConnStarts == ConnGoes("none", "acceptor")

\* terminate_tls_then_forward: the handshake on the configuration taken, within its bound.
TlsAgreed == ConnGoes("tls", "owner")

\* server_handshake: the owner's signature over a fresh challenge, before the origin is dialed.
OwnerProven == ConnGoes("owner", "relay")

\* A handshake that fails or takes too long, or the end of the relay.
ConnEnds == \E at \in {"tls", "owner", "relay"} : ConnGoes(at, "none")

\* A step of the renewal; a power loss that takes renames back takes the agent down too.
CertSteps ==
    /\ CertNext
    /\ IF store' # store /\ store' \in earlier THEN term' = Down /\ conn' = "none" ELSE UNCHANGED <<term, conn>>

OriginNext ==
    \/ CertSteps
    \/ LoadsCert \/ LoadsKey \/ LoadsTimes \/ ReadsTimes \/ ReadsCert \/ ReadsKey
    \/ TermStops \/ ConnStarts \/ TakesConfig \/ TlsAgreed \/ OwnerProven \/ ConnEnds

OriginSpec == OriginInit /\ [][OriginNext]_originVars

-----------------------------------------------------------------------------
(* Properties. *)

UpToDate == term.at = "serving" /\ term.seenKey = store.key /\ term.seenCrt = store.crt => term.pair = store.crt

\* After a reload, a terminator that sees no further change serves the pair that is on disk, however
\* its reads fell between the two renames of a renewal: an old pair is never taken for the new one
\* and left in service until it expires (acceptor).
ReloadCatchesUp == term.reloaded => UpToDate

\* A renewal that is cut, or read in the middle, is put right by the next tick or the next look.
PairComesRight == ReloadCatchesUp /\ MismatchIsDue
=============================================================================
