---------------------------- MODULE TunnelAgent -----------------------------
(***************************************************************************)
(* run_agent (serve.rs): dial the edge over QUIC, or through MASQUE, or    *)
(* fall back to the TLS-TCP pool until QUIC is back; register, serve until *)
(* the connection drops, back off and start over.  The reconnect policy's  *)
(* delays take any time; what is kept of it is the number of steps.        *)
(***************************************************************************)
EXTENDS FallbackPool

CONSTANTS
    BindAttempts,  \* HOST_BIND_RETRY_ATTEMPTS
    FlapBound      \* bound: quic_flaps is counted up to here

ASSUME AgentAssumption == BindAttempts \in Nat \ {0} /\ FlapBound \in Nat \ {0}

VARIABLES
    agent,   \* the loop: where it is, reconnect steps, quic_flaps, transport, tcp_only
    status,  \* STATUS: registered
    host     \* the hostname's bind over the current connection, and its tries

agentVars == <<agent, status, host>>
tunnelVars == <<poolVars, agentVars>>

NoHost == [st |-> "none", tries |-> 0]

TunnelInit ==
    /\ PoolInit
    /\ \E only \in BOOLEAN :
         agent = [st |-> "dial", tries |-> 0, flaps |-> 0, transport |-> "quic", only |-> only]
    /\ status = FALSE
    /\ host = NoHost

\* ReconnectPolicy: after_failure.
AfterFailure(a) == IF a.tries >= Attempts THEN [a EXCEPT !.st = "gaveup"]
                   ELSE [a EXCEPT !.st = "backoff", !.tries = @ + 1]

BackoffOver ==
    /\ agent.st = "backoff"
    /\ agent' = [agent EXCEPT !.st = "dial"]
    /\ UNCHANGED <<poolVars, status, host>>

\* dial_quic_or_blocked_error.
DialsQuic ==
    /\ agent.st = "dial" /\ ~agent.only /\ edge.udp
    /\ agent' = [agent EXCEPT !.st = "register", !.transport = "quic"]
    /\ UNCHANGED <<poolVars, status, host>>

\* It failed: try_dial_via_masque, which may still get through over the proxy.
DialsMasque ==
    /\ agent.st = "dial" /\ ~agent.only
    /\ agent' = [agent EXCEPT !.st = "register", !.transport = "masque"]
    /\ UNCHANGED <<poolVars, status, host>>

\* reprobe_policy_after: how many answers in a row the pool wants.
Confirmations(flaps) == IF flaps = 0 THEN 1 ELSE 2

\* Neither answers: the pool, with or without a reprobe (CT_AGENT_REGISTER_TCP_ONLY).
FallsBack ==
    /\ agent.st = "dial"
    /\ PoolStarts(IF agent.only THEN 0 ELSE Confirmations(agent.flaps))
    /\ agent' = [agent EXCEPT !.st = "fallback", !.transport = "tcp-fallback"]
    /\ UNCHANGED <<refusedView, edge, lateNo, status, host>>

\* FallbackExit::QuicRecovered: the connection is registered already; a fresh budget.
Recovered ==
    /\ agent.st = "fallback"
    /\ HandsOver
    /\ agent' = [agent EXCEPT !.st = "serve", !.tries = 0, !.transport = "quic"]
    /\ status' = TRUE
    /\ host' = [NoHost EXCEPT !.st = "binding"]
    /\ UNCHANGED edge

\* FallbackExit::AllWorkersGaveUp.
Exhausted ==
    /\ agent.st = "fallback"
    /\ PoolEnds
    /\ agent' = AfterFailure(agent)
    /\ status' = FALSE
    /\ UNCHANGED <<refusedView, edge, lateNo, host>>

\* register_tunnel: the edge's OK.
Registers ==
    /\ agent.st = "register" /\ ~edge.revoked
    /\ edge' = [edge EXCEPT !.quic = TRUE]
    /\ refusedView' = FALSE /\ lateNo' = FALSE
    /\ agent' = [agent EXCEPT !.st = "serve", !.tries = 0]
    /\ status' = TRUE
    /\ host' = [NoHost EXCEPT !.st = "binding"]
    /\ UNCHANGED <<pool, worker, signals>>

\* Its NO, which over QUIC means one thing, or no answer at all.
RegisterFails(refused) ==
    /\ agent.st = "register"
    /\ refused => edge.revoked
    /\ refusedView' = (refusedView \/ refused)
    /\ agent' = AfterFailure(agent)
    /\ status' = FALSE
    /\ UNCHANGED <<pool, worker, signals, edge, lateNo, host>>

\* serve_quic_connection: streams are served for as long as the connection lasts.
Connected == agent.st = "serve"

\* bind_hostname_with_retry: one attempt over the connection that serves.
BindsHost(ok) ==
    /\ Connected /\ host.st = "binding"
    /\ host' = IF ok THEN [host EXCEPT !.st = "bound"]
               ELSE IF host.tries + 1 >= BindAttempts THEN [host EXCEPT !.st = "gaveup"]
               ELSE [host EXCEPT !.tries = @ + 1]
    /\ UNCHANGED <<poolVars, agent, status>>

\* next_quic_flaps, counted up to FlapBound.
NextQuicFlaps(flaps, stable) == IF stable THEN 0 ELSE Fewest(flaps + 1, FlapBound)

\* serve_quic_connection returns with the connection; the bind goes with it.
Disconnects(stable) ==
    /\ Connected
    /\ edge' = [edge EXCEPT !.quic = FALSE]
    /\ agent' = AfterFailure([agent EXCEPT !.flaps = NextQuicFlaps(@, stable)])
    /\ status' = FALSE
    /\ host' = NoHost
    /\ UNCHANGED <<pool, worker, signals, refusedView, lateNo>>

-----------------------------------------------------------------------------
(* The plane and the network. *)

\* A revoked token's parked registrations are dropped by the edge, the QUIC connection is not.
PlaneRevokes ==
    /\ ~edge.revoked
    /\ edge' = [edge EXCEPT !.revoked = TRUE]
    /\ worker' = [w \in WorkerIds |-> IF Working(w, {"park", "plain"}) THEN ParkEnded(worker[w], TRUE) ELSE worker[w]]
    /\ UNCHANGED <<pool, signals, refusedView, lateNo, agentVars>>

UdpChanges ==
    /\ edge' = [edge EXCEPT !.udp = ~@]
    /\ UNCHANGED <<pool, worker, signals, refusedView, lateNo, agentVars>>

\* tcp_connect_register_serve says so in the status; run_agent_tcp_fallback_worker never takes
\* it back.
PoolSteps ==
    /\ PoolNext
    /\ status' = (status \/ \E w \in WorkerIds : Working(w, {"try"}) /\ worker[w]'.st \in {"park", "plain"})
    /\ UNCHANGED <<agent, host>>

TunnelNext ==
    \/ PoolSteps \/ BackoffOver \/ DialsQuic \/ DialsMasque \/ FallsBack
    \/ Recovered \/ Exhausted \/ Registers \/ (\E no \in BOOLEAN : RegisterFails(no))
    \/ (\E ok \in BOOLEAN : BindsHost(ok)) \/ (\E stable \in BOOLEAN : Disconnects(stable))
    \/ PlaneRevokes \/ UdpChanges

TunnelSpec == TunnelInit /\ [][TunnelNext]_tunnelVars

-----------------------------------------------------------------------------
(* Properties. *)

\* While the agent serves the connection it registered, no worker of the fallback registers any
\* more (each is over, aborted, or left to its one Client), and the direct path is not refused over
\* a verdict of an earlier or of a parallel registration, unless a worker heard it in the very poll
\* in which it was aborted (RevocationTracker, detach_all).
ServingMeansLive ==
    agent.st = "serve" =>
        /\ \A w \in WorkerIds : worker[w].doomed \/ worker[w].st \in {"unused", "gone", "lost", "detached"}
        /\ refusedView => lateNo

\* The return from the fallback to QUIC cuts no tunnel the pool was told of in time, and leaves no
\* registration beside the new one and no verdict of the fallback behind, but for a last poll's.
HandOverClean == ToldNeverCut /\ ServingMeansLive
=============================================================================
