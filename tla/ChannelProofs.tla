--------------------------- MODULE ChannelProofs ----------------------------
(***************************************************************************)
(* Proofs about the parts of a channel member around its forwarding: the   *)
(* drain after a stop signal, the stored login, the readiness probe, the   *)
(* transport over one open stream, the tools a serving agent offers, the   *)
(* service calls, the joins that may upgrade their path, the legs on which *)
(* two members meet, and the upgrade itself; and about an ssh session      *)
(* through the door of an agent.                                           *)
(***************************************************************************)
EXTENDS ShutdownDrain, OidcLogin, Readiness, GateTransport, BridgeTools, ServiceCalls, DcutrJoin, ChannelJoin,
        RelayUpgrade, SshAccess, FiniteSetTheorems, SequenceTheorems, TLAPS

-----------------------------------------------------------------------------
(* The drain (ShutdownDrain). *)

Flight == {"parked", "paired", "setup", "pump", "handoff", "tail", "accepted", "stream"}

\* Sessions and streams are not of the same member.
Kinds ==
    /\ Forward => In({"parked", "paired", "setup", "pump", "handoff", "tail"}) = {}
    /\ ~Forward => In({"accepted", "stream"}) = {}

\* A one-shot member runs one session ...
OneSession == \A u, v \in Units :
    (member.kind = "oneshot" /\ work[u] # "none" /\ work[v] # "none") => u = v

\* ... and one that was past its handshake at the stop never goes back behind it.
PastStays ==
    stop.past =>
      /\ Stopped /\ ~Forward
      /\ member.kind = "oneshot" =>
           \E u \in Units : work[u] \in {"pump", "handoff", "tail", "done", "failed"}

\* The signals, the drain and the clock: what was decided when, and how long it may still take.
Times ==
    /\ Stopped => stop.first <= now
    /\ stop.again # Never =>
         Stopped /\ stop.again <= now /\ stop.again >= stop.first + Debounce
    /\ Alive => (drain.st = "off" <=> ~Stopped)
    /\ ~Stopped => drain.looks = 0
    /\ drain.st \in {"off", "look", "sleep"} => out.end = "none"
    /\ ~Stopped => out.end \in {"none", "returned"}
    /\ (Alive /\ Stopped) => now <= Deadline /\ (stop.again # Never => now <= stop.again)
    /\ drain.st = "sleep" => drain.at <= Deadline
    /\ out.end = "interrupted" => Stopped /\ now >= stop.first + Debounce

\* Nothing new comes in after the stop: a serve member and a forward initiator refuse it, and a
\* session past its handshake is the only one of its member.
Closed == Stopped /\ (member.kind \in {"serve", "forward_initiate"} \/ stop.past)

\* Work that no ticket counts and that becomes work that one does.
Uncounted == {"parked", "paired", "accepted"} \cup (IF member.kind = "oneshot" THEN {"handoff"} ELSE {})

\* After one look at nothing: what was uncounted then is over its step by the next tick.
Settling ==
    (Closed /\ drain.st \in {"look", "sleep"} /\ drain.looks = 1) =>
      /\ member.kind = "oneshot" => In({"pump"}) = {}
      /\ (drain.st = "look" \/ now >= drain.at) => In(Uncounted) = {}

\* After two of them.
Settled ==
    (Closed /\ drain.st \in {"exiting", "gone"} /\ out.end = "idle" /\ out.early) => In(Flight) = {}

DrainInv == TypeOK /\ Kinds /\ OneSession /\ PastStays /\ Times /\ Settling /\ Settled

\* The steps of one unit, and what they need.
UnitMoves(from, to) ==
    \/ /\ from = "none" /\ to = "parked" /\ ~Forward
       /\ member.kind = "serve" => ~Stopped
       /\ member.kind = "oneshot" => \A v \in Units : work[v] = "none"
    \/ from = "parked" /\ to = "paired" /\ (member.kind = "serve" => ~Stopped)
    \/ from = "parked" /\ to = "none"
    \/ from = "paired" /\ to = "setup"
    \/ from = "setup" /\ to \in {"pump", "failed"}
    \/ from = "pump" /\ to \in {"handoff", "done", "failed"}
    \/ from = "handoff" /\ to = "tail"
    \/ from = "tail" /\ to = "done"
    \/ /\ from = "none" /\ to = "accepted" /\ Forward
       /\ member.kind = "forward_initiate" => ~Stopped
    \/ from = "accepted" /\ to = "stream"
    \/ from = "stream" /\ to = "done"

\* Work of a session or a stream moves one unit of work and nothing of the drain.
LEMMA WorkDoes ==
    ASSUME Work
    PROVE  /\ Alive /\ UNCHANGED <<now, member, stop, drain, out>>
           /\ \E u \in Units : \E to : UnitMoves(work[u], to) /\ work' = [work EXCEPT ![u] = to]
  <1>1. PICK u \in Units : Session(u) \/ StreamAccepted(u) \/ StreamOpens(u) \/ StreamEnds(u)
    BY DEF Work
  <1>2. \E to : UnitMoves(work[u], to) /\ work' = [work EXCEPT ![u] = to]
    <2>1. CASE ~Forward /\ Park(u)
      BY <2>1 DEF Park, Goes, UnitMoves, Persistent
    <2>2. CASE Pair(u) \/ Unpark(u) \/ Spawn(u) \/ Establish(u)
      BY <2>2 DEF Pair, Unpark, Spawn, Establish, Goes, UnitMoves
    <2>3. CASE PumpEnds(u) \/ QuicTail(u) \/ TailAcked(u)
      BY <2>3 DEF PumpEnds, QuicTail, TailAcked, Goes, UnitMoves
    <2>4. CASE StreamAccepted(u) \/ StreamOpens(u) \/ StreamEnds(u)
      BY <2>4 DEF StreamAccepted, StreamOpens, StreamEnds, Goes, UnitMoves
    <2> QED
      BY <1>1, <2>1, <2>2, <2>3, <2>4 DEF Session
  <1> QED
    BY <1>2 DEF Work

\* Nothing is counted only when nothing is there to be counted.
LEMMA InFlightIs ==
    ASSUME InFlight = 0
    PROVE  /\ Forward => In({"stream"}) = {}
           /\ ~Forward => In({"pump"}) = {} /\ In({"tail"}) = {}
           /\ member.kind = "serve" => In({"setup", "pump", "handoff", "tail"}) = {}
  <1>1. ASSUME NEW P PROVE Cardinality(In(P)) \in Nat /\ (Cardinality(In(P)) = 0 => In(P) = {})
    <2>1. IsFiniteSet(In(P))
      BY DrainAssumption, FS_Subset DEF In
    <2> QED
      BY <2>1, FS_CardinalityType, FS_EmptySet
  <1>2. /\ Established \in Nat /\ QuicTails \in Nat
        /\ Cardinality(In({"setup", "pump", "handoff", "tail"})) \in Nat
    BY <1>1 DEF Established, QuicTails
  <1>3. CASE Forward
    BY <1>1, <1>3 DEF InFlight, ForwardStreams, Forward
  <1>4. CASE ~Forward
    <2>1. Serving \in Nat
      BY <1>2 DEF Serving
    <2>2. Established = 0 /\ QuicTails = 0 /\ Serving = 0
      BY <1>2, <1>4, <2>1 DEF InFlight
    <2> QED
      BY <1>1, <1>4, <2>2 DEF Established, QuicTails, Serving
  <1> QED
    BY <1>3, <1>4

\* Before the signal there is nothing to decide.
LEMMA DrainInit == Init => DrainInv
  BY DrainAssumption
     DEF Init, DrainInv, TypeOK, Kinds, OneSession, PastStays, Times, Settling, Settled, Closed, In,
         Stopped, Never, Alive, Forward, Deadline

\* A step of the work leaves the clock, the signals and the drain alone.
LEMMA WorkKeeps ==
    ASSUME DrainInv, Work
    PROVE  DrainInv'
  <1>0. Alive /\ UNCHANGED <<now, member, stop, drain, out>>
    BY WorkDoes
  <1>u. PICK u \in Units : \E to : UnitMoves(work[u], to) /\ work' = [work EXCEPT ![u] = to]
    BY WorkDoes
  <1>1. PICK to : UnitMoves(work[u], to) /\ work' = [work EXCEPT ![u] = to]
    BY <1>u
  <1>2. TypeOK /\ TypeOK'
    BY <1>0, <1>1 DEF DrainInv, TypeOK, UnitMoves
  <1>3. work'[u] = to /\ \A v \in Units : v # u => work'[v] = work[v]
    BY <1>1, <1>2 DEF TypeOK
  <1>F. /\ Forward' <=> Forward
        /\ Stopped' <=> Stopped
        /\ Closed' <=> Closed
        /\ Uncounted' = Uncounted
    BY <1>0 DEF Forward, Stopped, Never, Closed, Uncounted
  <1>4. Kinds'
    BY <1>1, <1>3, <1>F DEF DrainInv, Kinds, In, UnitMoves, Forward
  <1>5. OneSession'
    BY <1>0, <1>1, <1>3 DEF DrainInv, OneSession, UnitMoves, Forward
  <1>6. PastStays'
    <2>1. ASSUME stop.past, member.kind = "oneshot"
          PROVE  \E v \in Units : work'[v] \in {"pump", "handoff", "tail", "done", "failed"}
      <3>1. PICK v \in Units : work[v] \in {"pump", "handoff", "tail", "done", "failed"}
        BY <2>1 DEF DrainInv, PastStays
      <3>2. work'[v] \in {"pump", "handoff", "tail", "done", "failed"}
        BY <1>1, <1>3, <3>1 DEF UnitMoves
      <3> QED
        BY <3>2
    <2> QED
      BY <1>0, <1>F, <2>1 DEF DrainInv, PastStays
  <1>7. Times'
    BY <1>0 DEF DrainInv, Times, Stopped, Never, Alive, Deadline
  \* The only session of a one-shot member that is past its handshake.
  <1>P. (Closed /\ member.kind = "oneshot") =>
          \A v \in Units : work[v] \in {"none", "pump", "handoff", "tail", "done", "failed"}
    BY DEF DrainInv, Closed, PastStays, OneSession
  <1>Q. (Closed /\ member.kind = "oneshot") => ~\A v \in Units : work[v] = "none"
    BY DEF DrainInv, Closed, PastStays
  <1>8. Settling'
    <2> SUFFICES ASSUME Closed, drain.st \in {"look", "sleep"}, drain.looks = 1
                 PROVE  /\ member.kind = "oneshot" => In({"pump"})' = {}
                        /\ (drain.st = "look" \/ now >= drain.at) => In(Uncounted)' = {}
      BY <1>0, <1>F DEF Settling
    <2>0. /\ member.kind = "oneshot" => In({"pump"}) = {}
          /\ (drain.st = "look" \/ now >= drain.at) => In(Uncounted) = {}
      BY DEF DrainInv, Settling
    <2>1. member.kind = "oneshot" => In({"pump"})' = {}
      BY <1>1, <1>3, <1>P, <2>0 DEF In, UnitMoves
    <2>2. ASSUME drain.st = "look" \/ now >= drain.at PROVE In(Uncounted)' = {}
      <3>1. Stopped /\ \A v \in Units : work[v] \notin Uncounted
        BY <2>0, <2>2 DEF In, Closed
      <3>2. CASE member.kind = "oneshot"
        BY <1>1, <1>3, <1>F, <1>Q, <2>0, <3>1, <3>2 DEF In, UnitMoves, Uncounted, Forward
      <3>3. CASE member.kind # "oneshot"
        <4>1. member.kind \in {"serve", "forward_initiate"}
          <5>1. member.kind \in {"serve", "oneshot", "forward_initiate", "forward_accept"}
            BY <1>2, DrainAssumption DEF TypeOK, MemberKinds
          <5>2. CASE stop.past
            BY <3>3, <5>1, <5>2 DEF DrainInv, PastStays, Forward
          <5> QED
            BY <5>2 DEF Closed
        <4> QED
          BY <1>1, <1>3, <1>F, <3>1, <3>3, <4>1 DEF In, UnitMoves, Uncounted, Forward
      <3> QED
        BY <3>2, <3>3
    <2> QED
      BY <2>1, <2>2
  <1>9. Settled'
    <2> SUFFICES ASSUME Closed, drain.st \in {"exiting", "gone"}, out.end = "idle", out.early
                 PROVE  In(Flight)' = {}
      BY <1>0, <1>F DEF Settled
    <2>1. Stopped /\ \A v \in Units : work[v] \notin Flight
      BY DEF DrainInv, Settled, In, Closed
    <2>2. CASE member.kind = "oneshot"
      BY <1>1, <1>3, <1>Q, <2>1, <2>2 DEF In, UnitMoves, Flight, Forward
    <2>3. CASE member.kind # "oneshot"
      <3>1. member.kind \in {"serve", "oneshot", "forward_initiate", "forward_accept"}
        BY <1>2, DrainAssumption DEF TypeOK, MemberKinds
      <3>2. member.kind \in {"serve", "forward_initiate"}
        BY <2>3, <3>1 DEF Closed, DrainInv, PastStays, Forward
      <3> QED
        BY <1>1, <1>3, <2>1, <3>2 DEF In, UnitMoves, Flight, Forward
    <2> QED
      BY <2>2, <2>3
  <1> QED
    BY <1>2, <1>4, <1>5, <1>6, <1>7, <1>8, <1>9 DEF DrainInv

\* A step that leaves the work and the member alone: what is left to show.
LEMMA WorkSame ==
    ASSUME DrainInv, UNCHANGED <<member, work>>
    PROVE  /\ Kinds' /\ OneSession' /\ (Forward' <=> Forward) /\ Uncounted' = Uncounted
           /\ \A P : In(P)' = In(P)
           /\ member.kind \in {"serve", "oneshot", "forward_initiate", "forward_accept"}
  <1>1. member.kind \in {"serve", "oneshot", "forward_initiate", "forward_accept"}
    BY DrainAssumption DEF DrainInv, TypeOK, MemberKinds
  <1> QED
    BY <1>1 DEF DrainInv, Kinds, OneSession, In, Forward, Uncounted

\* The first signal finds nothing decided and nothing looked at.
LEMMA FirstSignalKeeps ==
    ASSUME DrainInv, FirstSignal
    PROVE  DrainInv'
  <1>0. UNCHANGED <<now, member, work, out>> /\ Alive /\ ~Stopped
    BY DEF FirstSignal
  <1>T. /\ TypeOK /\ now \in Nat /\ now < Never /\ MaxTime \in Nat /\ DrainTime \in Nat
        /\ stop.again = Never /\ out.end = "none" /\ drain.looks = 0 /\ ~stop.past
    BY <1>0, DrainAssumption DEF DrainInv, TypeOK, Times, Never, PastStays
  <1>1. PICK p \in BOOLEAN : p = (In({"pump", "handoff", "tail"}) # {})
    OBVIOUS
  <1>2. stop' = [stop EXCEPT !.first = now, !.past = p] /\ drain' = [drain EXCEPT !.st = "look"]
    BY <1>1 DEF FirstSignal
  <1>3. /\ stop'.first = now /\ stop'.again = Never /\ (stop'.past <=> p)
        /\ drain'.st = "look" /\ drain'.looks = 0
    BY <1>2, <1>T DEF TypeOK
  <1>4. TypeOK'
    <2>1. stop' \in [first : 0..Never, again : 0..Never, past : BOOLEAN]
      <3>1. now \in 0..Never /\ stop \in [first : 0..Never, again : 0..Never, past : BOOLEAN]
        BY <1>T DEF TypeOK, Never
      <3> QED
        BY <1>1, <1>2, <3>1
    <2>2. drain' \in [st : {"off", "look", "sleep", "exiting", "gone"}, looks : 0..1, at : 0..Never]
      BY <1>2, <1>T DEF TypeOK
    <2> QED
      BY <1>0, <1>T, <2>1, <2>2 DEF TypeOK, Never
  <1>5. Never' = Never /\ Stopped' /\ Alive'
    BY <1>3, <1>T DEF Never, Stopped, Alive
  <1>6. PastStays'
    <2>1. ASSUME p PROVE \E u \in Units : work[u] \in {"pump", "handoff", "tail"}
      BY <1>1, <2>1 DEF In
    <2> QED
      BY <1>0, <1>3, <1>5, <1>T, <2>1 DEF DrainInv, PastStays, Kinds, In, Forward
  <1>7. Times'
    BY <1>0, <1>3, <1>5, <1>T DEF Times, Deadline, Alive
  <1>8. Settling' /\ Settled'
    BY <1>0, <1>3, <1>T DEF Settling, Settled
  <1> QED
    BY <1>0, <1>4, <1>6, <1>7, <1>8, WorkSame DEF DrainInv

\* A second signal counts only after the debounce, and ends the process at once.
LEMMA NextSignalKeeps ==
    ASSUME DrainInv, NextSignal
    PROVE  DrainInv'
  <1>0. UNCHANGED <<now, member, work, drain, out>> /\ Alive /\ Stopped
    BY DEF NextSignal
  <1>T. /\ TypeOK /\ now \in Nat /\ now < Never /\ MaxTime \in Nat
        /\ now - stop.first >= Debounce /\ stop.first \in Nat /\ Debounce \in Nat
    BY DrainAssumption DEF NextSignal, DrainInv, TypeOK, Never
  <1>2. stop' = [stop EXCEPT !.again = now]
    BY DEF NextSignal
  <1>3. stop'.first = stop.first /\ stop'.again = now /\ (stop'.past <=> stop.past)
    BY <1>2, <1>T DEF TypeOK
  <1>4. TypeOK'
    BY <1>0, <1>2, <1>T DEF TypeOK, Never
  <1>5. /\ Never' = Never /\ (Stopped' <=> Stopped) /\ (Alive' <=> Alive) /\ Deadline' = Deadline
        /\ (Closed' <=> Closed)
    BY <1>0, <1>3 DEF Never, Stopped, Alive, Deadline, Closed
  <1>6. PastStays'
    BY <1>0, <1>3, <1>5 DEF DrainInv, PastStays, Forward
  <1>7. Times'
    BY <1>0, <1>3, <1>5, <1>T DEF DrainInv, Times
  <1>8. Settling' /\ Settled'
    BY <1>0, <1>5, WorkSame DEF DrainInv, Settling, Settled
  <1> QED
    BY <1>0, <1>4, <1>6, <1>7, <1>8, WorkSame DEF DrainInv

\* The drain's own steps leave the clock and the signals alone.
LEMMA DrainFrame ==
    ASSUME DrainInv, UNCHANGED <<now, member, work, stop>>
    PROVE  /\ PastStays' /\ Kinds' /\ OneSession'
           /\ Never' = Never /\ (Stopped' <=> Stopped) /\ Deadline' = Deadline /\ (Closed' <=> Closed)
           /\ Uncounted' = Uncounted /\ \A P : In(P)' = In(P)
  <1>1. Never' = Never /\ (Stopped' <=> Stopped) /\ Deadline' = Deadline /\ (Closed' <=> Closed)
    BY DEF Never, Stopped, Deadline, Closed
  <1>2. PastStays'
    BY <1>1 DEF DrainInv, PastStays, Forward
  <1> QED
    BY <1>1, <1>2, WorkSame

\* A process that exits or returns was allowed to.
LEMMA ExitKeeps ==
    ASSUME DrainInv, Exit \/ MainReturns
    PROVE  DrainInv'
  <1>0. UNCHANGED <<now, member, work, stop>> /\ drain' = [drain EXCEPT !.st = "gone"] /\ TypeOK
    BY DEF Exit, MainReturns, DrainInv
  <1>1. drain'.st = "gone" /\ drain'.looks = drain.looks
    BY <1>0 DEF TypeOK
  <1>2. CASE Exit
    <2>0. out' = out /\ drain.st = "exiting"
      BY <1>2 DEF Exit
    <2>1. TypeOK'
      BY <1>0, <2>0 DEF TypeOK, Never
    <2>2. Times'
      BY <1>0, <1>1, <2>0, DrainFrame DEF DrainInv, Times, Alive
    <2>3. Settling' /\ Settled'
      BY <1>0, <1>1, <2>0, DrainFrame DEF DrainInv, Settling, Settled
    <2> QED
      BY <1>0, <2>1, <2>2, <2>3, DrainFrame DEF DrainInv
  <1>3. CASE MainReturns
    <2>0. PICK s \in {0, 1} : out' = [end |-> "returned", status |-> s, early |-> FALSE]
      BY <1>3 DEF MainReturns
    <2>1. TypeOK' /\ out'.end = "returned"
      BY <1>0, <2>0 DEF TypeOK, Never
    <2>2. Times'
      BY <1>0, <1>1, <2>1, DrainFrame DEF DrainInv, Times, Alive
    <2>3. Settling' /\ Settled'
      BY <1>1, <2>1 DEF Settling, Settled
    <2> QED
      BY <1>0, <2>1, <2>2, <2>3, DrainFrame DEF DrainInv
  <1> QED
    BY <1>2, <1>3

\* A decision is kept with whether it came before the deadline.
LEMMA DecideDoes ==
    ASSUME TypeOK, NEW end \in {"idle", "timed_out", "interrupted"}, NEW cut, Decide(end, cut),
           UNCHANGED <<now, member, work, stop>>
    PROVE  /\ TypeOK'
           /\ drain'.st = "exiting" /\ drain'.looks = drain.looks
           /\ out'.end = end /\ (out'.early <=> now < Deadline)
  <1>1. PICK e \in BOOLEAN : e = (now < Deadline)
    <2>1. (now < Deadline) \in BOOLEAN
      OBVIOUS
    <2> QED
      BY <2>1, Zenon
  <1>2. PICK s \in {0, 143} : s = ExitStatus(cut)
    BY DEF ExitStatus
  <1>3. drain' = [drain EXCEPT !.st = "exiting"] /\ out' = [end |-> end, status |-> s, early |-> e]
    BY <1>1, <1>2 DEF Decide
  <1>4. TypeOK'
    BY <1>3 DEF TypeOK, Never
  <1>5. out'.end = end /\ out'.early = e
    BY <1>3
  <1>6. drain'.st = "exiting" /\ drain'.looks = drain.looks
    BY <1>3 DEF TypeOK
  <1> QED
    BY <1>1, <1>4, <1>5, <1>6

\* A look that finds nothing twice finds nothing left to be cut.
LEMMA LookKeeps ==
    ASSUME DrainInv, Look
    PROVE  DrainInv'
  <1>0. UNCHANGED <<now, member, work, stop>> /\ drain.st = "look" /\ TypeOK
    BY DEF Look, DrainInv
  <1>T. /\ now \in Nat /\ drain.looks \in 0..1 /\ MaxTime \in Nat /\ now <= MaxTime
        /\ Deadline \in Nat /\ Stopped /\ Alive
    BY <1>0, DrainAssumption DEF DrainInv, TypeOK, Times, Never, Deadline, Alive
  <1>1. PICK looks \in 0..2 : looks = IF InFlight = 0 THEN drain.looks + 1 ELSE 0
    BY <1>T
  <1>2. ASSUME NEW end \in {"idle", "timed_out"}, NEW cut, Decide(end, cut),
               end = "idle" /\ now < Deadline => looks = 2
        PROVE  DrainInv'
    <2>1. /\ TypeOK'
          /\ drain'.st = "exiting" /\ out'.end = end /\ (out'.early <=> now < Deadline)
          /\ drain'.looks = drain.looks
      BY <1>0, <1>2, DecideDoes
    <2>2. Times'
      BY <1>0, <1>T, <2>1, DrainFrame DEF DrainInv, Times, Alive
    <2>3. Settling'
      BY <2>1 DEF Settling
    <2>4. Settled'
      <3> SUFFICES ASSUME Closed, end = "idle", now < Deadline PROVE In(Flight) = {}
        BY <1>0, <2>1, DrainFrame DEF Settled
      <3>1. InFlight = 0 /\ drain.looks = 1
        BY <1>1, <1>2, <1>T
      <3>2. In(Uncounted) = {} /\ (member.kind = "oneshot" => In({"pump"}) = {})
        BY <1>0, <3>1 DEF DrainInv, Settling
      <3>3. Kinds /\ OneSession /\ PastStays
        BY DEF DrainInv
      <3>4. CASE member.kind = "serve"
        <4>1. In({"setup", "pump", "handoff", "tail"}) = {}
          BY <3>1, <3>4, InFlightIs
        <4> QED
          BY <3>2, <3>3, <3>4, <4>1 DEF In, Flight, Uncounted, Kinds, Forward
      <3>5. CASE member.kind = "forward_initiate"
        <4>1. In({"stream"}) = {}
          BY <3>1, <3>5, InFlightIs DEF Forward
        <4> QED
          BY <3>2, <3>3, <3>5, <4>1 DEF In, Flight, Uncounted, Kinds, Forward
      <3>6. CASE member.kind = "oneshot"
        <4>1. In({"pump"}) = {} /\ In({"tail"}) = {}
          BY <3>1, <3>6, InFlightIs DEF Forward
        <4>2. stop.past /\ ~Forward
          BY <3>6 DEF Closed, Forward
        <4>3. PICK u \in Units : work[u] \in {"pump", "handoff", "tail", "done", "failed"}
          BY <3>3, <3>6, <4>2 DEF PastStays
        <4>4. \A v \in Units : work[v] = "none" \/ v = u
          BY <3>3, <3>6, <4>3 DEF OneSession
        <4> QED
          BY <3>2, <3>3, <3>6, <4>1, <4>2, <4>3, <4>4 DEF In, Flight, Uncounted, Kinds
      <3>7. member.kind \in {"serve", "forward_initiate", "oneshot"}
        <4>1. member.kind \in {"serve", "oneshot", "forward_initiate", "forward_accept"}
          BY <1>0, WorkSame
        <4> QED
          BY <3>3, <4>1 DEF Closed, PastStays, Forward
      <3> QED
        BY <3>4, <3>5, <3>6, <3>7
    <2> QED
      BY <1>0, <2>1, <2>2, <2>3, <2>4, DrainFrame DEF DrainInv
  <1>3. CASE looks >= 2 /\ Decide("idle", 0)
    BY <1>2, <1>3, <1>1
  <1>4. CASE now >= Deadline /\ Decide(IF InFlight = 0 THEN "idle" ELSE "timed_out", InFlight)
    <2>1. PICK end \in {"idle", "timed_out"} : end = IF InFlight = 0 THEN "idle" ELSE "timed_out"
      OBVIOUS
    <2> QED
      BY <1>2, <1>4, <1>T, <2>1
  <1>5. CASE /\ looks < 2 /\ now < Deadline
             /\ drain' = [st |-> "sleep", looks |-> looks, at |-> now + 1] /\ UNCHANGED out
    <2>1. drain'.st = "sleep" /\ drain'.looks = looks /\ drain'.at = now + 1 /\ out' = out
      BY <1>5
    <2>2. TypeOK'
      BY <1>0, <1>5, <1>T DEF TypeOK, Never
    <2>3. Times'
      BY <1>0, <1>5, <1>T, <2>1, DrainFrame DEF DrainInv, Times, Alive
    <2>4. Settled'
      BY <2>1 DEF Settled
    <2>5. Settling'
      <3>1. ASSUME looks = 1, member.kind = "oneshot" PROVE In({"pump"}) = {}
        <4>1. InFlight = 0
          BY <1>1, <3>1
        <4> QED
          BY <3>1, <4>1, InFlightIs DEF Forward
      <3> QED
        BY <1>0, <1>T, <2>1, <3>1, DrainFrame DEF Settling
    <2> QED
      BY <1>0, <2>2, <2>3, <2>4, <2>5, DrainFrame DEF DrainInv
  <1> QED
    BY <1>1, <1>3, <1>4, <1>5, <1>T DEF Look

\* Between two looks the drain does not sleep past its deadline.
LEMMA SleepKeeps ==
    ASSUME DrainInv, Sleep
    PROVE  DrainInv'
  <1>0. UNCHANGED <<now, member, work, stop>> /\ drain.st = "sleep" /\ TypeOK
    BY DEF Sleep, DrainInv
  <1>T. /\ now \in Nat /\ drain.at \in Nat /\ Stopped /\ Alive /\ Debounce \in Nat
        /\ stop.first \in Nat /\ stop.again \in Nat
    BY <1>0, DrainAssumption DEF DrainInv, TypeOK, Times, Never, Alive
  <1>1. CASE stop.again # Never /\ Decide("interrupted", InFlight)
    <2>1. /\ TypeOK' /\ drain'.st = "exiting" /\ out'.end = "interrupted" /\ drain'.looks = drain.looks
      BY <1>0, <1>1, DecideDoes
    <2>2. now >= stop.first + Debounce
      BY <1>1, <1>T DEF DrainInv, Times
    <2>3. Times'
      BY <1>0, <1>T, <2>1, <2>2, DrainFrame DEF DrainInv, Times, Alive
    <2>4. Settling' /\ Settled'
      BY <2>1 DEF Settling, Settled
    <2> QED
      BY <1>0, <2>1, <2>3, <2>4, DrainFrame DEF DrainInv
  <1>2. CASE now >= drain.at /\ drain' = [drain EXCEPT !.st = "look"] /\ UNCHANGED out
    <2>1. drain'.st = "look" /\ drain'.looks = drain.looks /\ drain'.at = drain.at
      BY <1>0, <1>2 DEF TypeOK
    <2>2. TypeOK'
      BY <1>0, <1>2 DEF TypeOK, Never
    <2>3. Times'
      BY <1>0, <1>2, <1>T, <2>1, DrainFrame DEF DrainInv, Times, Alive
    <2>4. Settling' /\ Settled'
      BY <1>0, <1>2, <2>1, DrainFrame DEF DrainInv, Settling, Settled
    <2> QED
      BY <1>0, <2>2, <2>3, <2>4, DrainFrame DEF DrainInv
  <1> QED
    BY <1>1, <1>2 DEF Sleep

\* A tick finds nothing due: no work between two of its steps, and a sleeping drain before its time.
LEMMA TickKeeps ==
    ASSUME DrainInv, Tick
    PROVE  DrainInv'
  <1>0. UNCHANGED <<member, work, stop, drain, out>> /\ now' = now + 1 /\ now < MaxTime /\ ~Urgent
    BY DEF Tick
  <1>T. /\ TypeOK /\ now \in Nat /\ MaxTime \in Nat /\ DrainTime \in Nat /\ Debounce \in Nat
        /\ drain.at \in Nat /\ stop.first \in Nat /\ stop.again \in Nat
        /\ drain.st \in {"off", "look", "sleep", "exiting", "gone"}
    BY DrainAssumption DEF DrainInv, TypeOK, Never
  <1>1. TypeOK'
    BY <1>0, <1>T DEF TypeOK, Never
  <1>2. /\ Never' = Never /\ (Stopped' <=> Stopped) /\ (Alive' <=> Alive) /\ Deadline' = Deadline
        /\ (Closed' <=> Closed)
    BY <1>0 DEF Never, Stopped, Alive, Deadline, Closed
  <1>3. PastStays'
    BY <1>0, <1>2 DEF DrainInv, PastStays, Forward
  <1>4. (Alive /\ Stopped) => drain.st = "sleep" /\ stop.again = Never /\ now < drain.at
    BY <1>0, <1>T DEF Urgent, DrainInv, Times, Alive
  <1>5. Times'
    <2>1. (Alive /\ Stopped) => now' <= Deadline /\ stop.again = Never
      <3>1. Deadline \in Nat
        BY <1>T DEF Deadline
      <3> QED
        BY <1>0, <1>4, <1>T, <3>1 DEF DrainInv, Times
    <2> QED
      BY <1>0, <1>2, <1>T, <2>1 DEF DrainInv, Times
  <1>6. Settling'
    <2> SUFFICES ASSUME Closed, drain.st \in {"look", "sleep"}, drain.looks = 1
                 PROVE  (member.kind = "oneshot" => In({"pump"}) = {}) /\ In(Uncounted) = {}
      BY <1>0, <1>2, WorkSame DEF Settling
    <2>1. member.kind = "oneshot" => In({"pump"}) = {}
      BY DEF DrainInv, Settling
    <2>2. In({"paired", "handoff", "accepted"}) = {}
      BY <1>0 DEF Urgent, Alive
    <2>3. In({"parked"}) = {}
      <3>1. member.kind \in {"serve", "oneshot", "forward_initiate", "forward_accept"}
        BY <1>0, WorkSame
      <3>2. CASE member.kind = "serve"
        BY <1>0, <3>2 DEF Urgent, Alive, Closed
      <3>3. CASE Forward
        BY <3>3 DEF DrainInv, Kinds, In
      <3>4. CASE member.kind = "oneshot"
        <4>1. PICK u \in Units : work[u] \in {"pump", "handoff", "tail", "done", "failed"}
          BY <3>4 DEF Closed, DrainInv, PastStays
        <4> QED
          BY <3>4, <4>1 DEF DrainInv, OneSession, In
      <3> QED
        BY <3>1, <3>2, <3>3, <3>4 DEF Forward
    <2> QED
      BY <2>1, <2>2, <2>3 DEF In, Uncounted
  <1>7. Settled'
    BY <1>0, <1>2, WorkSame DEF DrainInv, Settled
  <1> QED
    BY <1>0, <1>1, <1>3, <1>5, <1>6, <1>7, WorkSame DEF DrainInv

\* Every step of the process keeps the invariant of the drain.
LEMMA DrainNext == DrainInv /\ [Next]_vars => DrainInv'
  <1> SUFFICES ASSUME DrainInv, [Next]_vars PROVE DrainInv'
    OBVIOUS
  <1>1. CASE UNCHANGED vars
    <2>1. UNCHANGED <<now, member, work, stop, drain, out>>
      BY <1>1 DEF vars
    <2>2. TypeOK' /\ Times'
      BY <2>1 DEF DrainInv, TypeOK, Times, Never, Stopped, Alive, Deadline
    <2>3. Settling' /\ Settled'
      BY <2>1, DrainFrame DEF DrainInv, Settling, Settled
    <2> QED
      BY <2>1, <2>2, <2>3, DrainFrame DEF DrainInv
  <1> QED
    BY <1>1, WorkKeeps, FirstSignalKeeps, NextSignalKeeps, LookKeeps, SleepKeeps, ExitKeeps, TickKeeps
       DEF Next

\* However many units of work there are and however long the drain, the repeat's debounce and the
\* process are: an idle end before the deadline cut no work that was there or could still come, a
\* session past its handshake is waited for to the end of its tail although its tickets leave a
\* moment at which nothing is counted, and the process is gone in time (drain_in_flight,
\* drain_after_signal).
THEOREM DrainAlwaysSound == Spec => []DrainSound
  <1>1. DrainInv => DrainSound
    <2> SUFFICES ASSUME DrainInv PROVE DrainSound
      OBVIOUS
    <2>0. TypeOK /\ now \in Nat /\ stop.first \in Nat /\ stop.again \in Nat /\ DrainTime \in Nat
      BY DrainAssumption DEF DrainInv, TypeOK, Never
    <2>1. out.end = "idle" => Stopped
      BY DEF DrainInv, Times
    <2>2. IdleMeansIdle
      BY <2>1 DEF IdleMeansIdle, DrainInv, Settled, Closed, Flight
    <2>3. TailWaitedFor
      BY <2>1 DEF TailWaitedFor, DrainInv, Settled, Closed, Flight, In
    <2>4. ExitsInTime
      BY <2>0 DEF ExitsInTime, DrainInv, Times, Deadline
    <2> QED
      BY <2>0, <2>2, <2>3, <2>4 DEF DrainSound
  <1> QED
    BY <1>1, DrainInit, DrainNext, PTL DEF Spec

-----------------------------------------------------------------------------
(* The stored login (OidcLogin). *)

LoginRecords == [there : BOOLEAN, refresh : Nat, fresh : BOOLEAN]
ProviderRecords == [last : Nat, rotates : BOOLEAN]
FlowRecords == [at : {"none", "polls", "saves"}, token : Nat]
NeedRecords == [at : {"done", "lock", "read", "ask"}, try : Nat, read : Nat]

LoginTyped ==
    /\ login \in LoginRecords /\ provider \in ProviderRecords
    /\ fate \in [1 .. RefreshTokens -> Fates] /\ flow \in FlowRecords
    /\ needs \in [Needy -> NeedRecords] /\ degraded \in BOOLEAN /\ spurned \in BOOLEAN

\* Refresh tokens are numbered in the order they are handed out.
TokensNumbered ==
    /\ provider.last <= RefreshTokens /\ \A r \in 1 .. provider.last : fate[r] # "unused"
    /\ login.refresh <= provider.last /\ flow.token <= provider.last
    /\ \A t \in Needy : needs[t].at = "ask" => 0 < needs[t].read /\ needs[t].read <= provider.last

\* The token of a device flow that is not saved yet is nobody else's.
FlowApart ==
    flow.at = "saves" /\ flow.token # 0 =>
      flow.token # login.refresh /\ \A t \in Needy : needs[t].at = "ask" => flow.token # needs[t].read

\* No token that an agent has exchanged for another, in the file, in a device flow or in the hands
\* of one of its tasks.
Unspent ==
    /\ login.refresh # 0 => fate[login.refresh] # "spent"
    /\ flow.at = "saves" /\ flow.token # 0 => fate[flow.token] # "spent"
    /\ NeverPresentsSpent

\* One task of the agent at a time is between its read of the file and the end of its refresh.
OneRefreshes == \A t, u \in AgentTasks : Holds(t) /\ Holds(u) => t = u

\* A login without a refresh token is one that the provider handed out none for.
Spurning ==
    /\ login.there /\ login.refresh = 0 => spurned
    /\ flow.at = "saves" /\ flow.token = 0 => spurned

CauseGiven == spurned \/ \E r \in 1 .. provider.last : fate[r] \in {"lost", "over"}

LoginInv ==
    /\ LoginTyped /\ TokensNumbered /\ FlowApart /\ Unspent /\ OneRefreshes /\ Spurning
    /\ degraded => CauseGiven

\* Before the first login there is no token to lose.
LEMMA LoginInitInv == LoginInit => LoginInv
  <1> SUFFICES ASSUME LoginInit PROVE LoginInv
    OBVIOUS
  <1>1. PICK b \in BOOLEAN : provider = [last |-> 0, rotates |-> b]
    BY DEF LoginInit
  <1>2. provider \in ProviderRecords /\ provider.last = 0
    BY <1>1 DEF ProviderRecords
  <1>3. /\ login \in LoginRecords /\ ~login.there /\ login.refresh = 0
        /\ flow \in FlowRecords /\ flow.at = "none" /\ flow.token = 0
    BY DEF LoginInit, NoLogin, NoFlow, LoginRecords, FlowRecords
  <1>4. needs \in [Needy -> NeedRecords] /\ \A t \in Needy : needs[t].at = "done" /\ needs[t].read = 0
    BY DEF LoginInit, Content, NeedRecords
  <1>5. ~degraded /\ degraded \in BOOLEAN /\ spurned \in BOOLEAN /\ fate \in [1 .. RefreshTokens -> Fates]
    BY DEF LoginInit, Fates
  <1>6. LoginTyped
    BY <1>2, <1>3, <1>4, <1>5 DEF LoginTyped
  <1>7. TokensNumbered /\ FlowApart /\ Spurning
    BY <1>2, <1>3, <1>4, LoginAssumption DEF TokensNumbered, FlowApart, Spurning
  <1>8. Unspent /\ OneRefreshes
    BY <1>3, <1>4, LoginAssumption DEF Unspent, NeverPresentsSpent, OneRefreshes, Holds
  <1> QED
    BY <1>5, <1>6, <1>7, <1>8 DEF LoginInv

\* What the invariant says of the numbers.
LEMMA TokenNumbers ==
    ASSUME LoginInv
    PROVE  /\ provider.last \in Nat /\ provider.last <= RefreshTokens /\ RefreshTokens \in Nat
           /\ login.refresh \in Nat /\ login.refresh <= provider.last
           /\ flow.token \in Nat /\ flow.token <= provider.last
           /\ \A t \in Needy : /\ needs[t].read \in Nat /\ needs[t].try \in Nat
                               /\ needs[t].at = "ask" => needs[t].read \in 1 .. provider.last
           /\ AgentTasks \subseteq Needy /\ LoginTyped /\ TokensNumbered
           /\ \A r \in 1 .. provider.last : r \in 1 .. RefreshTokens /\ fate[r] \in Fates /\ fate[r] # "unused"
  <1>1. LoginTyped /\ TokensNumbered
    BY DEF LoginInv
  <1>2. /\ provider.last \in Nat /\ login.refresh \in Nat /\ flow.token \in Nat
        /\ \A t \in Needy : needs[t].read \in Nat /\ needs[t].try \in Nat
    BY <1>1 DEF LoginTyped, ProviderRecords, LoginRecords, FlowRecords, NeedRecords
  <1>3. \A r \in 1 .. provider.last : r \in 1 .. RefreshTokens
    BY <1>1, <1>2, LoginAssumption DEF TokensNumbered
  <1>4. \A r \in 1 .. provider.last : fate[r] \in Fates /\ fate[r] # "unused"
    BY <1>1, <1>3 DEF LoginTyped, TokensNumbered
  <1>5. \A t \in Needy : needs[t].at = "ask" => needs[t].read \in 1 .. provider.last
    BY <1>1, <1>2 DEF TokensNumbered
  <1> QED
    BY <1>1, <1>2, <1>3, <1>4, <1>5, LoginAssumption DEF TokensNumbered

\* What a step does to resolver t: it is at `at` with the token `read`, the others are where they were.
TaskAt(t, at, read) ==
    /\ needs' \in [Needy -> NeedRecords] /\ needs'[t].at = at /\ needs'[t].read = read
    /\ \A u \in Needy \ {t} : needs'[u] = needs[u]

\* What each of a resolver's own steps writes to its record.
LEMMA TaskGoes ==
    ASSUME LoginTyped, NEW t \in Needy
    PROVE  /\ LoginEnds(t) => TaskAt(t, "done", 0)
           /\ \A k \in Nat : needs' = [needs EXCEPT ![t] = [at |-> "lock", try |-> k, read |-> 0]]
                 => TaskAt(t, "lock", 0)
           /\ needs' = [needs EXCEPT ![t].at = "read"] => TaskAt(t, "read", needs[t].read)
           /\ \A r \in Nat : needs' = [needs EXCEPT ![t].at = "ask", ![t].read = r]
                 => TaskAt(t, "ask", r)
           /\ needs' = [needs EXCEPT ![t] = Content] => TaskAt(t, "done", 0)
  <1>0. Content \in NeedRecords /\ Content.at = "done" /\ Content.read = 0
    BY DEF Content, NeedRecords
  <1>1. ASSUME needs' = [needs EXCEPT ![t] = Content] PROVE TaskAt(t, "done", 0)
    BY <1>0, <1>1 DEF LoginTyped, TaskAt
  <1>2. ASSUME NEW k \in Nat, needs' = [needs EXCEPT ![t] = [at |-> "lock", try |-> k, read |-> 0]]
        PROVE  TaskAt(t, "lock", 0)
    BY <1>2 DEF LoginTyped, TaskAt, NeedRecords
  <1>3. ASSUME needs' = [needs EXCEPT ![t].at = "read"] PROVE TaskAt(t, "read", needs[t].read)
    BY <1>3 DEF LoginTyped, TaskAt, NeedRecords
  <1>4. ASSUME NEW r \in Nat, needs' = [needs EXCEPT ![t].at = "ask", ![t].read = r]
        PROVE  TaskAt(t, "ask", r)
    <2>1. PICK w \in NeedRecords : w = [needs[t] EXCEPT !.at = "ask", !.read = r]
      BY DEF LoginTyped, NeedRecords
    <2>2. needs' = [needs EXCEPT ![t] = w]
      BY <1>4, <2>1 DEF LoginTyped
    <2>3. w.at = "ask" /\ w.read = r
      BY <2>1 DEF LoginTyped, NeedRecords
    <2> QED
      BY <2>2, <2>3 DEF LoginTyped, TaskAt
  <1> QED
    BY <1>1, <1>2, <1>3, <1>4 DEF LoginEnds

\* A stored login that can no longer be refreshed has a cause.
LEMMA NotRefreshableIs ==
    ASSUME LoginInv, NotRefreshable
    PROVE  CauseGiven
  <1>1. CASE login.refresh = 0
    BY <1>1 DEF LoginInv, Spurning, NotRefreshable, CauseGiven
  <1>2. CASE login.refresh # 0
    <2>1. login.refresh \in 1 .. provider.last
      BY <1>2, TokenNumbers
    <2> QED
      BY <1>2, <2>1 DEF NotRefreshable, CauseGiven
  <1> QED
    BY <1>1, <1>2

\* The device flow, the access token's age and a session's end touch no resolver.
LEMMA FlowKeeps ==
    ASSUME LoginInv, AsksCode \/ PollEnds \/ SavesLogin \/ AccessExpires \/ LoginOver \/ LooksAtState
    PROVE  LoginInv'
  <1>0. needs' = needs /\ OneRefreshes'
    <2>1. needs' = needs
      BY DEF AsksCode, PollEnds, SavesLogin, AccessExpires, LoginOver, LooksAtState
    <2> QED
      BY <2>1 DEF LoginInv, OneRefreshes, Holds
  <1>T. /\ provider.last \in Nat /\ provider.last <= RefreshTokens /\ RefreshTokens \in Nat
        /\ login.refresh \in Nat /\ login.refresh <= provider.last
        /\ flow.token \in Nat /\ flow.token <= provider.last
        /\ \A t \in Needy : needs[t].at = "ask" => needs[t].read \in 1 .. provider.last
        /\ AgentTasks \subseteq Needy
        /\ \A r \in 1 .. provider.last : r \in 1 .. RefreshTokens /\ fate[r] \in Fates /\ fate[r] # "unused"
    BY TokenNumbers
  <1>I. /\ LoginTyped /\ TokensNumbered /\ FlowApart /\ Unspent /\ Spurning
        /\ degraded \in BOOLEAN /\ (degraded => CauseGiven)
    BY DEF LoginInv, LoginTyped
  <1>1. CASE AsksCode
    <2>1. UNCHANGED <<login, provider, fate, degraded, spurned>> /\ flow' = [flow EXCEPT !.at = "polls"]
      BY <1>1 DEF AsksCode
    <2>2. flow' \in FlowRecords /\ flow'.at = "polls" /\ flow'.token = flow.token
      BY <1>I, <2>1 DEF LoginTyped, FlowRecords
    <2>3. LoginTyped' /\ TokensNumbered' /\ FlowApart' /\ Unspent' /\ Spurning'
      BY <1>0, <1>I, <2>1, <2>2 DEF LoginTyped, TokensNumbered, FlowApart, Unspent, NeverPresentsSpent, Spurning
    <2> QED
      BY <1>0, <1>I, <2>1, <2>3 DEF LoginInv, CauseGiven
  <1>2. CASE PollEnds
    <2>0. UNCHANGED <<login, degraded>> /\ flow.at = "polls"
      BY <1>2 DEF PollEnds
    <2>1. CASE flow' = NoFlow /\ UNCHANGED <<provider, fate, spurned>>
      <3>1. flow' \in FlowRecords /\ flow'.at = "none" /\ flow'.token = 0
        BY <2>1 DEF NoFlow, FlowRecords
      <3>2. LoginTyped' /\ TokensNumbered' /\ FlowApart' /\ Unspent' /\ Spurning'
        BY <1>0, <1>I, <1>T, <2>0, <2>1, <3>1 DEF LoginTyped, TokensNumbered, FlowApart, Unspent, NeverPresentsSpent, Spurning
      <3> QED
        BY <1>0, <1>I, <2>0, <2>1, <3>2 DEF LoginInv, CauseGiven
    <2>2. CASE flow' = [at |-> "saves", token |-> 0] /\ spurned' = TRUE /\ UNCHANGED <<provider, fate>>
      <3>1. flow' \in FlowRecords /\ flow'.at = "saves" /\ flow'.token = 0
        BY <2>2 DEF FlowRecords
      <3>2. LoginTyped' /\ TokensNumbered' /\ FlowApart' /\ Unspent' /\ Spurning'
        BY <1>0, <1>I, <1>T, <2>0, <2>2, <3>1 DEF LoginTyped, TokensNumbered, FlowApart, Unspent, NeverPresentsSpent, Spurning
      <3> QED
        BY <1>0, <2>2, <3>2 DEF LoginInv, CauseGiven
    <2>3. CASE /\ provider.last < RefreshTokens
               /\ flow' = [at |-> "saves", token |-> provider.last + 1]
               /\ provider' = [provider EXCEPT !.last = @ + 1]
               /\ fate' = [fate EXCEPT ![provider.last + 1] = "live"]
               /\ UNCHANGED spurned
      <3>0. PICK n \in 1 .. RefreshTokens : n = provider.last + 1
        BY <1>T, <2>3
      <3>1. flow' \in FlowRecords /\ flow'.at = "saves" /\ flow'.token = n
        BY <2>3, <3>0 DEF FlowRecords
      <3>2. provider' \in ProviderRecords /\ provider'.last = n
        BY <1>I, <1>T, <2>3, <3>0, SMTT(30) DEF LoginTyped, ProviderRecords
      <3>3. fate' = [fate EXCEPT ![n] = "live"]
        BY <2>3, <3>0
      <3>4. /\ fate' \in [1 .. RefreshTokens -> Fates] /\ fate'[n] = "live"
            /\ \A r \in 1 .. provider.last : fate'[r] = fate[r]
        BY <1>I, <1>T, <3>0, <3>3 DEF LoginTyped, Fates
      <3>5. LoginTyped'
        BY <1>0, <1>I, <2>0, <2>3, <3>1, <3>2, <3>4 DEF LoginTyped
      <3>6. TokensNumbered'
        BY <1>0, <1>T, <2>0, <3>0, <3>1, <3>2, <3>4
        DEF TokensNumbered
      <3>7. FlowApart' /\ Spurning'
        BY <1>0, <1>I, <1>T, <2>0, <2>3, <3>0, <3>1 DEF FlowApart, Spurning
      <3>8. Unspent'
        <4>1. login.refresh # 0 => fate'[login.refresh] # "spent"
          BY <1>I, <1>T, <3>4 DEF Unspent
        <4>2. NeverPresentsSpent'
          BY <1>0, <1>I, <1>T, <3>4 DEF Unspent, NeverPresentsSpent
        <4> QED
          BY <2>0, <3>1, <3>4, <4>1, <4>2 DEF Unspent
      <3>9. CauseGiven => CauseGiven'
        BY <1>T, <2>3, <3>0, <3>2, <3>4 DEF CauseGiven
      <3> QED
        BY <1>0, <1>I, <2>0, <3>5, <3>6, <3>7, <3>8, <3>9 DEF LoginInv
    <2> QED
      BY <1>2, <2>1, <2>2, <2>3 DEF PollEnds
  <1>3. CASE SavesLogin
    <2>0. UNCHANGED <<provider, fate, degraded, spurned>> /\ flow.at = "saves" /\ flow' = NoFlow
      BY <1>3 DEF SavesLogin
    <2>1. flow' \in FlowRecords /\ flow'.at = "none" /\ flow'.token = 0
      BY <2>0 DEF NoFlow, FlowRecords
    <2>2. /\ login' \in LoginRecords
          /\ \/ login' = login
             \/ login'.refresh = flow.token
      <3>1. PICK k \in Nat : k = flow.token
        BY <1>T
      <3>2. login' = login \/ login' = [there |-> TRUE, refresh |-> k, fresh |-> TRUE]
        BY <1>3, <3>1 DEF SavesLogin
      <3>3. CASE login' = login
        BY <1>I, <3>3 DEF LoginTyped
      <3>4. CASE login' = [there |-> TRUE, refresh |-> k, fresh |-> TRUE]
        BY <3>1, <3>4 DEF LoginRecords
      <3> QED
        BY <3>2, <3>3, <3>4
    <2>3. LoginTyped' /\ TokensNumbered' /\ FlowApart' /\ Unspent' /\ Spurning'
      BY <1>0, <1>I, <1>T, <2>0, <2>1, <2>2
      DEF LoginTyped, TokensNumbered, FlowApart, Unspent, NeverPresentsSpent, Spurning
    <2> QED
      BY <1>0, <1>I, <2>0, <2>3 DEF LoginInv, CauseGiven
  <1>4. CASE AccessExpires
    <2>0. UNCHANGED <<provider, fate, flow, degraded, spurned>> /\ login' = [login EXCEPT !.fresh = FALSE]
      BY <1>4 DEF AccessExpires
    <2>1. login' \in LoginRecords /\ login'.refresh = login.refresh /\ (login'.there <=> login.there)
      BY <1>I, <2>0 DEF LoginTyped, LoginRecords
    <2>2. LoginTyped' /\ TokensNumbered' /\ FlowApart' /\ Unspent' /\ Spurning'
      BY <1>0, <1>I, <2>0, <2>1
      DEF LoginTyped, TokensNumbered, FlowApart, Unspent, NeverPresentsSpent, Spurning
    <2> QED
      BY <1>0, <1>I, <2>0, <2>2 DEF LoginInv, CauseGiven
  <1>5. CASE LoginOver
    <2>0. UNCHANGED <<login, provider, flow, degraded, spurned>>
      BY <1>5 DEF LoginOver
    <2>1. PICK r \in DOMAIN fate : fate[r] = "live" /\ fate' = [fate EXCEPT ![r] = "over"]
      BY <1>5 DEF LoginOver
    <2>2. /\ fate' \in [1 .. RefreshTokens -> Fates]
          /\ \A s \in 1 .. RefreshTokens : /\ fate'[s] \in {fate[s], "over"}
                                           /\ fate[s] \in {"lost", "over"} => fate'[s] = fate[s]
      BY <1>I, <2>1 DEF LoginTyped, Fates
    <2>3. LoginTyped' /\ FlowApart' /\ Spurning'
      BY <1>0, <1>I, <2>0, <2>2 DEF LoginTyped, FlowApart, Spurning
    <2>4. TokensNumbered'
      BY <1>0, <1>I, <1>T, <2>0, <2>2 DEF TokensNumbered
    <2>5. Unspent'
      <3>1. login.refresh # 0 => fate'[login.refresh] # "spent"
        BY <1>I, <1>T, <2>2 DEF Unspent
      <3>2. flow.at = "saves" /\ flow.token # 0 => fate'[flow.token] # "spent"
        BY <1>I, <1>T, <2>2 DEF Unspent
      <3>3. NeverPresentsSpent'
        BY <1>0, <1>I, <1>T, <2>2 DEF Unspent, NeverPresentsSpent
      <3> QED
        BY <2>0, <3>1, <3>2, <3>3 DEF Unspent
    <2>6. CauseGiven => CauseGiven'
      BY <1>T, <2>0, <2>2 DEF CauseGiven
    <2> QED
      BY <1>0, <1>I, <2>0, <2>3, <2>4, <2>5, <2>6 DEF LoginInv
  <1>6. CASE LooksAtState
    <2>0. UNCHANGED <<login, provider, fate, flow, spurned>> /\ degraded' = TRUE /\ NotRefreshable
      BY <1>6 DEF LooksAtState
    <2>1. LoginTyped' /\ TokensNumbered' /\ FlowApart' /\ Unspent' /\ Spurning'
      BY <1>0, <1>I, <2>0
      DEF LoginTyped, TokensNumbered, FlowApart, Unspent, NeverPresentsSpent, Spurning
    <2> QED
      BY <1>0, <2>0, <2>1, NotRefreshableIs DEF LoginInv, CauseGiven
  <1> QED
    BY <1>1, <1>2, <1>3, <1>4, <1>5, <1>6

\* A resolver's own step that hands nothing out: the file, the provider and the flow are as they were.
LEMMA TaskKeeps ==
    ASSUME LoginInv, NEW t \in Needy, NEW at \in {"done", "lock", "read", "ask"}, NEW read \in Nat,
           TaskAt(t, at, read), UNCHANGED <<login, provider, fate, flow>>,
           degraded' \in BOOLEAN, spurned' \in BOOLEAN, spurned => spurned', degraded' => CauseGiven',
           at = "ask" => read = login.refresh /\ login.refresh # 0,
           at \in {"read", "ask"} /\ t \in AgentTasks => \A u \in AgentTasks \ {t} : ~Holds(u)
    PROVE  LoginInv'
  <1>I. LoginTyped /\ TokensNumbered /\ FlowApart /\ Unspent /\ Spurning /\ OneRefreshes
    BY DEF LoginInv
  <1>A. AgentTasks \subseteq Needy /\ login.refresh \in Nat
    BY TokenNumbers
  <1>1. LoginTyped'
    BY <1>I DEF LoginTyped, TaskAt
  <1>2. TokensNumbered' /\ FlowApart' /\ Spurning'
    BY <1>A, <1>I DEF TokensNumbered, FlowApart, Spurning, TaskAt
  <1>3. Unspent'
    BY <1>A, <1>I DEF Unspent, NeverPresentsSpent, TaskAt
  <1>4. OneRefreshes'
    <2>1. SUFFICES ASSUME NEW a \in AgentTasks, NEW b \in AgentTasks, Holds(a)', Holds(b)' PROVE a = b
      BY DEF OneRefreshes
    <2>2. \A u \in AgentTasks \ {t} : Holds(u)' <=> Holds(u)
      BY <1>A DEF Holds, TaskAt
    <2>3. Holds(t)' => at \in {"read", "ask"}
      BY DEF Holds, TaskAt
    <2> QED
      BY <1>I, <2>1, <2>2, <2>3 DEF OneRefreshes
  <1> QED
    BY <1>1, <1>2, <1>3, <1>4 DEF LoginInv

\* Starting, locking, reading and a refusal use no refresh token up.
LEMMA TaskStepsKeep ==
    ASSUME LoginInv, NEW t \in Needy,
           Starts(t) \/ LocksRefresh(t) \/ ReadsLogin(t) \/ RefreshRefused(t)
    PROVE  LoginInv'
  <1>0. /\ LoginTyped /\ needs[t].read \in Nat /\ login.refresh \in Nat /\ AgentTasks \subseteq Needy
        /\ degraded \in BOOLEAN /\ spurned \in BOOLEAN
    BY TokenNumbers DEF LoginTyped
  <1>D. degraded => CauseGiven
    BY DEF LoginInv
  <1>H. t \in AgentTasks /\ Holds(t) => \A u \in AgentTasks \ {t} : ~Holds(u)
    BY DEF LoginInv, OneRefreshes
  <1>1. CASE Starts(t)
    <2>1. TaskAt(t, "lock", 0) /\ UNCHANGED <<login, provider, fate, flow, degraded, spurned>>
      BY <1>0, <1>1, TaskGoes DEF Starts
    <2> QED
      BY <1>0, <1>D, <2>1, TaskKeeps DEF CauseGiven
  <1>2. CASE LocksRefresh(t)
    <2>1. TaskAt(t, "read", needs[t].read) /\ UNCHANGED <<login, provider, fate, flow, degraded, spurned>>
      BY <1>0, <1>2, TaskGoes DEF LocksRefresh
    <2>2. t \in AgentTasks => \A u \in AgentTasks \ {t} : ~Holds(u)
      BY <1>2 DEF LocksRefresh
    <2> QED
      BY <1>0, <1>D, <2>1, <2>2, TaskKeeps DEF CauseGiven
  <1>3. CASE ReadsLogin(t)
    <2>0. needs[t].at = "read" /\ UNCHANGED <<login, provider, fate, flow, spurned>> /\ Holds(t)
      BY <1>3 DEF ReadsLogin, Holds
    <2>1. CASE LoginEnds(t) /\ UNCHANGED degraded
      <3>1. TaskAt(t, "done", 0)
        BY <1>0, <2>1, TaskGoes
      <3> QED
        BY <1>0, <1>D, <2>0, <2>1, <3>1, TaskKeeps DEF CauseGiven
    <2>2. CASE NotRefreshable /\ LoginEnds(t) /\ Notes(t)
      <3>1. TaskAt(t, "done", 0)
        BY <1>0, <2>2, TaskGoes
      <3>2. degraded' \in BOOLEAN
        BY <2>2 DEF Notes
      <3>3. CauseGiven'
        BY <2>0, <2>2, NotRefreshableIs DEF CauseGiven
      <3> QED
        BY <1>0, <2>0, <3>1, <3>2, <3>3, TaskKeeps
    <2>3. CASE /\ login.there /\ ~login.fresh /\ login.refresh # 0
               /\ needs' = [needs EXCEPT ![t].at = "ask", ![t].read = login.refresh] /\ UNCHANGED degraded
      <3>1. TaskAt(t, "ask", login.refresh)
        BY <1>0, <2>3, TaskGoes
      <3>2. CauseGiven' <=> CauseGiven
        BY <2>0 DEF CauseGiven
      <3> QED
        BY <1>0, <1>D, <1>H, <2>0, <2>3, <3>1, <3>2, TaskKeeps
    <2> QED
      BY <1>3, <2>1, <2>2, <2>3 DEF ReadsLogin
  <1>4. CASE RefreshRefused(t)
    <2>1. /\ needs[t].at = "ask" /\ UNCHANGED <<login, provider, fate, flow>>
          /\ spurned' = (spurned \/ fate[needs[t].read] = "live") /\ Notes(t) /\ LoginEnds(t)
      BY <1>4 DEF RefreshRefused
    <2>2. TaskAt(t, "done", 0) /\ degraded' \in BOOLEAN /\ spurned' \in BOOLEAN /\ (spurned => spurned')
      BY <1>0, <2>1, TaskGoes DEF Notes
    <2>3. CauseGiven => CauseGiven'
      BY <2>1, <2>2 DEF CauseGiven
    <2>4. t \in AgentTasks => CauseGiven'
      <3>1. SUFFICES ASSUME t \in AgentTasks PROVE CauseGiven'
        OBVIOUS
      <3>2. PICK r \in 1 .. provider.last : r = needs[t].read
        BY <2>1, TokenNumbers
      <3>3. fate[r] \in Fates /\ fate[r] # "unused" /\ fate[r] # "spent"
        BY <2>1, <3>1, <3>2, TokenNumbers DEF LoginInv, Unspent, NeverPresentsSpent
      <3>4. fate[r] = "live" \/ fate[r] \in {"lost", "over"}
        BY <3>3 DEF Fates
      <3> QED
        BY <2>1, <3>2, <3>4 DEF CauseGiven
    <2>5. degraded' => CauseGiven'
      BY <1>D, <2>1, <2>3, <2>4 DEF Notes
    <2> QED
      BY <1>0, <2>1, <2>2, <2>5, TaskKeeps
  <1> QED
    BY <1>1, <1>2, <1>3, <1>4

\* The provider acts on the refresh of resolver t, which leaves its place under the lock: with
\* rotation the token it read is spent, and unless a task of the agent saved the new one it is lost.
LEMMA HandedKeeps ==
    ASSUME LoginInv, NEW t \in Needy, NEW at \in {"done", "lock"}, NEW end \in {"spent", "lost"},
           needs[t].at = "ask", fate[needs[t].read] = "live", Hands(t, end), TaskAt(t, at, 0),
           UNCHANGED <<flow, degraded, spurned>>, login' \in LoginRecords, end = "spent" => t \in AgentTasks,
           \/ login'.refresh = (IF provider.rotates THEN provider.last + 1 ELSE needs[t].read)
           \/ login' = login /\ end = "lost"
    PROVE  LoginInv'
  <1>T. /\ provider.last \in Nat /\ provider.last <= RefreshTokens /\ RefreshTokens \in Nat
        /\ login.refresh \in Nat /\ login.refresh <= provider.last
        /\ flow.token \in Nat /\ flow.token <= provider.last
        /\ \A u \in Needy : needs[u].at = "ask" => needs[u].read \in 1 .. provider.last
        /\ AgentTasks \subseteq Needy
        /\ \A r \in 1 .. provider.last : r \in 1 .. RefreshTokens /\ fate[r] \in Fates /\ fate[r] # "unused"
    BY TokenNumbers
  <1>I. /\ LoginTyped /\ TokensNumbered /\ FlowApart /\ Unspent /\ Spurning /\ OneRefreshes
        /\ (degraded => CauseGiven)
    BY DEF LoginInv
  <1>N. /\ needs' \in [Needy -> NeedRecords] /\ needs'[t].at # "ask"
        /\ \A u \in Needy \ {t} : needs'[u] = needs[u]
    BY DEF TaskAt
  <1>H. OneRefreshes'
    <2>1. SUFFICES ASSUME NEW a \in AgentTasks, NEW b \in AgentTasks, Holds(a)', Holds(b)' PROVE a = b
      BY DEF OneRefreshes
    <2>2. \A u \in AgentTasks : Holds(u)' => Holds(u)
      BY <1>T DEF Holds, TaskAt
    <2> QED
      BY <1>I, <2>1, <2>2 DEF OneRefreshes
  <1>1. CASE provider.rotates
    <2>0. PICK n \in 1 .. RefreshTokens : n = provider.last + 1
      BY <1>1, <1>T DEF Hands
    <2>r. PICK r \in 1 .. provider.last : r = needs[t].read
      BY <1>T
    <2>1. provider' = [provider EXCEPT !.last = @ + 1] /\ fate' = [fate EXCEPT ![r] = end, ![n] = "live"]
      BY <1>1, <2>0, <2>r DEF Hands
    <2>2. provider' \in ProviderRecords /\ provider'.last = n
      <3>1. provider' = [provider EXCEPT !.last = n] /\ provider \in ProviderRecords /\ n \in Nat
        BY <1>I, <2>0, <2>1 DEF LoginTyped
      <3> QED
        BY <3>1 DEF ProviderRecords
    <2>3. /\ fate' \in [1 .. RefreshTokens -> Fates] /\ fate'[n] = "live" /\ fate'[r] = end
          /\ \A s \in (1 .. provider.last) \ {r} : fate'[s] = fate[s]
      BY <1>I, <1>T, <2>0, <2>1 DEF LoginTyped, Fates
    <2>4. login'.refresh = n \/ (login' = login /\ end = "lost")
      BY <1>1, <2>0
    <2>5. LoginTyped'
      BY <1>I, <1>N, <2>2, <2>3 DEF LoginTyped
    <2>6. TokensNumbered'
      <3>1. \A s \in 1 .. n : fate'[s] # "unused"
        BY <1>T, <2>0, <2>3, SMTT(30)
      <3>2. \A u \in Needy : needs'[u].at = "ask" => 0 < needs'[u].read /\ needs'[u].read <= n
        BY <1>N, <1>T, <2>0
      <3> QED
        BY <1>T, <2>0, <2>2, <2>4, <3>1, <3>2 DEF TokensNumbered
    <2>7. FlowApart' /\ Spurning'
      BY <1>I, <1>N, <1>T, <2>0, <2>4 DEF FlowApart, Spurning
    <2>8. Unspent'
      <3>1. login'.refresh # 0 => fate'[login'.refresh] # "spent"
        <4>1. CASE login'.refresh = n
          BY <2>3, <4>1
        <4>2. CASE login' = login /\ end = "lost"
          BY <1>I, <1>T, <2>3, <4>2 DEF Unspent
        <4> QED
          BY <2>4, <4>1, <4>2
      <3>2. flow.at = "saves" /\ flow.token # 0 => fate'[flow.token] # "spent"
        <4>1. flow.at = "saves" /\ flow.token # 0 => flow.token # r
          BY <1>I, <2>r DEF FlowApart
        <4> QED
          BY <1>I, <1>T, <2>3, <4>1 DEF Unspent
      <3>3. NeverPresentsSpent'
        <4>1. SUFFICES ASSUME NEW u \in AgentTasks, needs'[u].at = "ask" PROVE fate'[needs'[u].read] # "spent"
          BY DEF NeverPresentsSpent
        <4>2. u # t /\ needs'[u] = needs[u] /\ needs[u].read \in 1 .. provider.last /\ fate[needs[u].read] # "spent"
          BY <1>I, <1>N, <1>T, <4>1 DEF Unspent, NeverPresentsSpent
        <4>3. CASE t \in AgentTasks
          BY <1>I, <4>1, <4>2, <4>3 DEF OneRefreshes, Holds
        <4>4. CASE t \notin AgentTasks
          BY <2>3, <4>2, <4>4
        <4> QED
          BY <4>3, <4>4
      <3> QED
        BY <3>1, <3>2, <3>3 DEF Unspent
    <2>9. CauseGiven => CauseGiven'
      BY <1>T, <2>0, <2>2, <2>3, <2>r DEF CauseGiven
    <2> QED
      BY <1>H, <1>I, <2>5, <2>6, <2>7, <2>8, <2>9 DEF LoginInv
  <1>2. CASE ~provider.rotates
    <2>1. UNCHANGED <<provider, fate>>
      BY <1>2 DEF Hands
    <2>r. PICK r \in 1 .. provider.last : r = needs[t].read
      BY <1>T
    <2>2. login'.refresh = r \/ login' = login
      BY <1>2, <2>r
    <2>3. LoginTyped'
      BY <1>I, <1>N, <2>1 DEF LoginTyped
    <2>4. TokensNumbered'
      BY <1>I, <1>N, <1>T, <2>1, <2>2 DEF TokensNumbered
    <2>5. FlowApart' /\ Spurning'
      BY <1>I, <1>N, <1>T, <2>r, <2>2 DEF FlowApart, Spurning
    <2>6. Unspent'
      BY <1>I, <1>N, <1>T, <2>1, <2>r, <2>2 DEF Unspent, NeverPresentsSpent
    <2> QED
      BY <1>H, <1>I, <2>1, <2>3, <2>4, <2>5, <2>6 DEF LoginInv, CauseGiven
  <1> QED
    BY <1>1, <1>2

\* A refresh puts the new token into the file before another task of the agent may read it.
LEMMA RefreshesKeeps ==
    ASSUME LoginInv, NEW t \in Needy, Refreshes(t)
    PROVE  LoginInv'
  <1>0. /\ LoginTyped /\ needs[t].at = "ask" /\ fate[needs[t].read] = "live"
        /\ UNCHANGED <<flow, degraded, spurned>> /\ needs[t].read \in Nat /\ provider.last \in Nat
    BY TokenNumbers DEF Refreshes
  <1>1. TaskAt(t, "done", 0)
    BY <1>0, TaskGoes DEF Refreshes
  <1>2. CASE Hands(t, IF t \in AgentTasks THEN "spent" ELSE "lost") /\ login' = AfterRefresh(t)
    <2>1. PICK k \in Nat : k = IF provider.rotates THEN provider.last + 1 ELSE needs[t].read
      BY <1>0
    <2>2. login' = [there |-> TRUE, refresh |-> k, fresh |-> TRUE]
      BY <1>2, <2>1 DEF AfterRefresh
    <2>3. login' \in LoginRecords /\ login'.refresh = k
      BY <2>2 DEF LoginRecords
    <2>4. CASE t \in AgentTasks
      BY <1>0, <1>1, <1>2, <2>1, <2>3, <2>4, HandedKeeps
    <2>5. CASE t \notin AgentTasks
      BY <1>0, <1>1, <1>2, <2>1, <2>3, <2>5, HandedKeeps
    <2> QED
      BY <2>4, <2>5
  <1>3. CASE Hands(t, "lost") /\ UNCHANGED login
    <2>1. login' \in LoginRecords
      BY <1>0, <1>3 DEF LoginTyped
    <2> QED
      BY <1>0, <1>1, <1>3, <2>1, HandedKeeps
  <1> QED
    BY <1>2, <1>3 DEF Refreshes

\* A refresh whose answer is lost is the cause of what follows.
LEMMA AnswerLostKeeps ==
    ASSUME LoginInv, NEW t \in Needy, AnswerLost(t)
    PROVE  LoginInv'
  <1>0. /\ LoginTyped /\ needs[t].at = "ask" /\ UNCHANGED <<login, flow, degraded, spurned>>
        /\ needs[t].try \in Nat /\ degraded \in BOOLEAN /\ spurned \in BOOLEAN
    BY TokenNumbers DEF AnswerLost, LoginTyped
  <1>1. PICK at \in {"done", "lock"} : TaskAt(t, at, 0)
    <2>1. CASE t \in AgentTasks /\ needs[t].try < RetryTries
      <3>1. PICK k \in Nat : k = needs[t].try + 1
        BY <1>0
      <3>2. needs' = [needs EXCEPT ![t] = [at |-> "lock", try |-> k, read |-> 0]]
        BY <2>1, <3>1 DEF AnswerLost
      <3> QED
        BY <1>0, <3>2, TaskGoes
    <2>2. CASE ~(t \in AgentTasks /\ needs[t].try < RetryTries)
      <3>1. needs' = [needs EXCEPT ![t] = Content]
        BY <2>2 DEF AnswerLost
      <3> QED
        BY <1>0, <3>1, TaskGoes
    <2> QED
      BY <2>1, <2>2
  <1>2. CASE UNCHANGED <<provider, fate>>
    <2>1. degraded' => CauseGiven'
      BY <1>0, <1>2 DEF LoginInv, CauseGiven
    <2> QED
      BY <1>0, <1>1, <1>2, <2>1, TaskKeeps
  <1>3. CASE fate[needs[t].read] = "live" /\ Hands(t, "lost")
    <2>1. login' \in LoginRecords
      BY <1>0 DEF LoginTyped
    <2> QED
      BY <1>0, <1>1, <1>3, <2>1, HandedKeeps
  <1> QED
    BY <1>2, <1>3 DEF AnswerLost

\* Every step of the resolvers, the device flow and the provider keeps the invariant.
LEMMA LoginNextInv == LoginInv /\ [LoginNext]_loginVars => LoginInv'
  <1> SUFFICES ASSUME LoginInv, [LoginNext]_loginVars PROVE LoginInv'
    OBVIOUS
  <1>1. CASE UNCHANGED loginVars
    <2>1. UNCHANGED <<login, provider, fate, flow, needs, degraded, spurned>>
      BY <1>1 DEF loginVars
    <2> QED
      BY <2>1 DEF LoginInv, LoginTyped, TokensNumbered, FlowApart, Unspent, NeverPresentsSpent, OneRefreshes,
                  Holds, Spurning, CauseGiven
  <1>2. CASE AsksCode \/ PollEnds \/ SavesLogin \/ AccessExpires \/ LoginOver \/ LooksAtState
    BY <1>2, FlowKeeps
  <1>3. ASSUME NEW t \in Needy,
               \/ Starts(t) \/ LocksRefresh(t) \/ ReadsLogin(t) \/ RefreshRefused(t)
               \/ Refreshes(t) \/ AnswerLost(t)
        PROVE  LoginInv'
    BY <1>3, TaskStepsKeep, RefreshesKeeps, AnswerLostKeeps
  <1> QED
    BY <1>1, <1>2, <1>3 DEF LoginNext

\* However many tasks and commands resolve a token and however often they retry: the agent never
\* talks itself out of a login.  Its tasks refresh one after the other, each with the token that is
\* in the file, and none of them presents one that the agent has exchanged already
\* (resolve_oidc_token_classified, after_refresh, run_login).
THEOREM LoginKeptUnlessLost == LoginSpec => []DegradedHasCause
  <1>1. LoginInv => DegradedHasCause
    BY DEF LoginInv, DegradedHasCause, Unspent, CauseGiven
  <1> QED
    BY <1>1, LoginInitInv, LoginNextInv, PTL DEF LoginSpec

-----------------------------------------------------------------------------
(* The readiness probe (Readiness). *)

HealthRecords ==
    [established : Nat, parked : Nat, sessionEndedAt : Nat, parkEndedAt : Nat, stopping : BOOLEAN]
ProbeRecords ==
    [at : {"none", "connect", "stopping", "established", "parked", "parkEnded", "sessionEnded",
           "answered", "done"},
     now : Nat, parkEnded : Nat, answer : {"none", "ready", "stopping", "yet", "late"}, code : {0, 1},
     held : BOOLEAN, last : Nat]

ReadinessTyped ==
    /\ second \in 1 .. HealthTime /\ truth \in 0 .. HealthTime
    /\ health \in HealthRecords /\ health.sessionEndedAt <= second /\ health.parkEndedAt <= second
    /\ holder \in [Holders -> HolderStates] /\ accept \in BOOLEAN
    /\ probe \in ProbeRecords /\ probe.now <= second

\* The counters are the tickets that were not taken off yet.
Holding(S) == {m \in Holders : holder[m] \in S}
SessionTickets == {"session", "ended", "sessionStamped"}
ParkTickets == {"parked", "parkOk", "parkRefused", "parkStamped"}
Counted ==
    /\ health.established = Cardinality(Holding(SessionTickets))
    /\ health.parked = Cardinality(Holding(ParkTickets))

\* The stamps tell of every end, and of every ticket that was held at time n.
TellsOf(n) == n <= health.sessionEndedAt \/ (accept /\ n <= health.parkEndedAt)

\* The evidence for a ticket held when the probe took its time, in the order the probe looks: it
\* may move on, from a counter to its stamp, only ahead of the probe.
Evidence ==
    /\ probe.at \in {"stopping", "established"} =>
         \/ TellsOf(probe.now) \/ Holding({"session", "ended"}) # {}
         \/ accept /\ Holding({"parkOk"}) # {}
    /\ probe.at = "parked" => TellsOf(probe.now) \/ (accept /\ Holding({"parkOk"}) # {})
    /\ probe.at = "parkEnded" => TellsOf(probe.now)
    /\ probe.at = "sessionEnded" =>
         probe.now <= health.sessionEndedAt \/ probe.now <= probe.parkEnded

\* The same for the last end before the probe took its time.
LastTold ==
    /\ probe.at \in {"stopping", "established", "parked", "parkEnded"} => TellsOf(probe.last)
    /\ probe.at = "sessionEnded" =>
         probe.last <= health.sessionEndedAt \/ probe.last <= probe.parkEnded

\* What a probe that found nothing may say.
Honest ==
    (probe.at = "answered" /\ probe.answer \in {"yet", "late"}) =>
       ~probe.held /\ (probe.last = 0 \/ probe.now >= probe.last + ReadyGrace)

ProbeInv ==
    /\ probe.at \in {"stopping", "established", "parked", "parkEnded", "sessionEnded"} => 1 <= probe.now
    /\ probe.held => Evidence
    /\ LastTold
    /\ Honest

ReadinessInv == ReadinessTyped /\ Counted /\ TellsOf(truth) /\ ProbeInv

\* What one holder's step adds to the number of holders in a set of states.
LEMMA Counting ==
    ASSUME NEW S, NEW m \in Holders, NEW to, holder \in [Holders -> HolderStates],
           holder' = [holder EXCEPT ![m] = to]
    PROVE  /\ Cardinality(Holding(S)) \in Nat /\ Cardinality(Holding(S))' \in Nat
           /\ (holder[m] \in S <=> to \in S) => Cardinality(Holding(S))' = Cardinality(Holding(S))
           /\ (holder[m] \notin S /\ to \in S) =>
                Cardinality(Holding(S))' = Cardinality(Holding(S)) + 1
           /\ (holder[m] \in S /\ to \notin S) =>
                /\ Cardinality(Holding(S))' = Cardinality(Holding(S)) - 1
                /\ Cardinality(Holding(S)) > 0
  <1>1. IsFiniteSet(Holding(S)) /\ IsFiniteSet(Holding(S)')
    BY ReadinessAssumption, FS_Subset DEF Holding
  <1>2. Cardinality(Holding(S)) \in Nat /\ Cardinality(Holding(S)') \in Nat
    BY <1>1, FS_CardinalityType
  <1>3. \A x \in Holders : holder'[x] = IF x = m THEN to ELSE holder[x]
    OBVIOUS
  <1>4. ASSUME holder[m] \in S <=> to \in S PROVE Holding(S)' = Holding(S)
    BY <1>3, <1>4 DEF Holding
  <1>5. ASSUME holder[m] \notin S, to \in S
        PROVE  Holding(S)' = Holding(S) \cup {m} /\ m \notin Holding(S)
    BY <1>3, <1>5 DEF Holding
  <1>6. ASSUME holder[m] \in S, to \notin S
        PROVE  Holding(S)' = Holding(S) \ {m} /\ m \in Holding(S)
    BY <1>3, <1>6 DEF Holding
  <1>7. ASSUME holder[m] \notin S, to \in S PROVE Cardinality(Holding(S)') = Cardinality(Holding(S)) + 1
    BY <1>1, <1>5, <1>7, FS_AddElement
  <1>8. ASSUME holder[m] \in S, to \notin S
        PROVE  Cardinality(Holding(S)') = Cardinality(Holding(S)) - 1 /\ Cardinality(Holding(S)) > 0
    <2>1. Cardinality(Holding(S) \ {m}) = Cardinality(Holding(S)) - 1
      BY <1>1, <1>6, <1>8, FS_RemoveElement
    <2>2. Cardinality(Holding(S)') = Cardinality(Holding(S)) - 1
      BY <1>6, <1>8, <2>1
    <2> QED
      BY <1>2, <2>2
  <1> QED
    BY <1>2, <1>4, <1>7, <1>8

\* Nothing is held or stamped at the start.
LEMMA ReadinessInitInv == ReadinessInit => ReadinessInv
  <1> SUFFICES ASSUME ReadinessInit PROVE ReadinessInv
    OBVIOUS
  <1>1. health \in HealthRecords /\ health.established = 0 /\ health.parked = 0
        /\ health.sessionEndedAt = 0 /\ health.parkEndedAt = 0
    BY DEF ReadinessInit, HealthRecords
  <1>2. probe \in ProbeRecords /\ probe.at = "none" /\ ~probe.held /\ probe.now = 0
    BY DEF ReadinessInit, NoProbe, ProbeRecords
  <1>3. ReadinessTyped
    BY <1>1, <1>2, ReadinessAssumption DEF ReadinessInit, ReadinessTyped, HolderStates
  <1>4. Counted
    <2>1. Holding(SessionTickets) = {} /\ Holding(ParkTickets) = {}
      BY DEF ReadinessInit, Holding, SessionTickets, ParkTickets
    <2> QED
      BY <1>1, <2>1, FS_EmptySet DEF Counted
  <1> QED
    BY <1>1, <1>2, <1>3, <1>4 DEF ReadinessInit, ReadinessInv, TellsOf, ProbeInv, LastTold, Honest

\* A step of a ticket holder: where it goes, and what becomes of the counters and the stamps.
HolderStep(m, to) ==
    /\ holder' = [holder EXCEPT ![m] = to] /\ to \in HolderStates
    /\ UNCHANGED <<second, accept, probe>>
    /\ health' \in HealthRecords
    /\ health'.established = health.established
         + (IF to = "session" THEN 1 ELSE IF holder[m] = "sessionStamped" THEN -1 ELSE 0)
    /\ health'.parked = health.parked
         + (IF to = "parked" THEN 1
            ELSE IF holder[m] \in {"parkStamped", "parkRefused"} THEN -1 ELSE 0)
    /\ health'.sessionEndedAt = (IF holder[m] = "ended" THEN second ELSE health.sessionEndedAt)
    /\ health'.parkEndedAt = (IF holder[m] = "parkOk" THEN second ELSE health.parkEndedAt)
    /\ truth' = (IF holder[m] = "ended" \/ (accept /\ holder[m] = "parkOk") THEN second ELSE truth)
    /\ \/ holder[m] = "idle" /\ to = "parked"
       \/ holder[m] = "parked" /\ to \in {"parkOk", "parkRefused"}
       \/ holder[m] = "parkOk" /\ to = "parkStamped"
       \/ holder[m] \in {"parkStamped", "parkRefused"} /\ to \in {"joined", "idle"}
       \/ holder[m] = "joined" /\ to = "session"
       \/ holder[m] = "session" /\ to = "ended"
       \/ holder[m] = "ended" /\ to = "sessionStamped"
       \/ holder[m] = "sessionStamped" /\ to = "idle"

\* A counter or a stamp of its own changes; nothing else of the health does.
LEMMA HealthGoes ==
    ASSUME health \in HealthRecords, NEW k \in Nat
    PROVE  /\ health' = [health EXCEPT !.parked = k] =>
                /\ health' \in HealthRecords /\ health'.parked = k
                /\ health'.established = health.established
                /\ health'.sessionEndedAt = health.sessionEndedAt /\ health'.parkEndedAt = health.parkEndedAt
           /\ health' = [health EXCEPT !.established = k] =>
                /\ health' \in HealthRecords /\ health'.established = k
                /\ health'.parked = health.parked
                /\ health'.sessionEndedAt = health.sessionEndedAt /\ health'.parkEndedAt = health.parkEndedAt
           /\ health' = [health EXCEPT !.sessionEndedAt = k] =>
                /\ health' \in HealthRecords /\ health'.sessionEndedAt = k
                /\ health'.parked = health.parked /\ health'.established = health.established
                /\ health'.parkEndedAt = health.parkEndedAt
           /\ health' = [health EXCEPT !.parkEndedAt = k] =>
                /\ health' \in HealthRecords /\ health'.parkEndedAt = k
                /\ health'.parked = health.parked /\ health'.established = health.established
                /\ health'.sessionEndedAt = health.sessionEndedAt
  BY DEF HealthRecords

\* Each step of a ticket holder is one of the moves that HolderStep lists.
LEMMA HolderDoes ==
    ASSUME ReadinessInv, NEW m \in Holders,
           Parks(m) \/ ParkOutcome(m) \/ SessionStarts(m) \/ SessionEnds(m) \/ TicketDrop(m)
    PROVE  \E to : HolderStep(m, to)
  <1>0. /\ health \in HealthRecords /\ holder \in [Holders -> HolderStates] /\ second \in Nat
        /\ health.established \in Nat /\ health.parked \in Nat
    BY DEF ReadinessInv, ReadinessTyped, HealthRecords
  <1>1. CASE Parks(m)
    <2>1. PICK k \in Nat : k = health.parked + 1
      BY <1>0
    <2>2. health' = [health EXCEPT !.parked = k]
      BY <1>1, <2>1 DEF Parks
    <2>H. /\ health' \in HealthRecords /\ health'.parked = k /\ health'.established = health.established
          /\ health'.sessionEndedAt = health.sessionEndedAt /\ health'.parkEndedAt = health.parkEndedAt
      BY <1>0, <2>2, HealthGoes
    <2>3. HolderStep(m, "parked")
      BY <1>0, <1>1, <2>1, <2>H DEF Parks, HolderGoes, HolderStep, HolderStates
    <2> QED
      BY <2>3
  <1>2. CASE ParkOutcome(m)
    <2>1. PICK to \in {"parkOk", "parkRefused"} : HolderGoes(m, to)
      BY <1>2 DEF ParkOutcome
    <2>2. HolderStep(m, to)
      BY <1>0, <1>2, <2>1 DEF ParkOutcome, HolderGoes, HolderStep, HolderStates
    <2> QED
      BY <2>2
  <1>3. CASE SessionStarts(m)
    <2>1. PICK k \in Nat : k = health.established + 1
      BY <1>0
    <2>2. health' = [health EXCEPT !.established = k]
      BY <1>3, <2>1 DEF SessionStarts
    <2>H. /\ health' \in HealthRecords /\ health'.established = k /\ health'.parked = health.parked
          /\ health'.sessionEndedAt = health.sessionEndedAt /\ health'.parkEndedAt = health.parkEndedAt
      BY <1>0, <2>2, HealthGoes
    <2>3. HolderStep(m, "session")
      BY <1>0, <1>3, <2>1, <2>H DEF SessionStarts, HolderGoes, HolderStep, HolderStates
    <2> QED
      BY <2>3
  <1>4. CASE SessionEnds(m)
    <2>1. HolderStep(m, "ended")
      BY <1>0, <1>4 DEF SessionEnds, HolderGoes, HolderStep, HolderStates
    <2> QED
      BY <2>1
  <1>5. CASE TicketDrop(m)
    <2>0. UNCHANGED <<second, accept, probe>>
      BY <1>5 DEF TicketDrop
    <2>1. CASE holder[m] = "parkOk"
      <3>1. /\ health' = [health EXCEPT !.parkEndedAt = second] /\ HolderGoes(m, "parkStamped")
            /\ truth' = IF accept THEN second ELSE truth
        BY <1>5, <2>1 DEF TicketDrop, Stamped
      <3>H. /\ health' \in HealthRecords /\ health'.parkEndedAt = second /\ health'.established = health.established
            /\ health'.parked = health.parked /\ health'.sessionEndedAt = health.sessionEndedAt
        BY <1>0, <3>1, HealthGoes
      <3>2. HolderStep(m, "parkStamped")
        BY <1>0, <2>0, <2>1, <3>1, <3>H DEF HolderGoes, HolderStep, HolderStates
      <3> QED
        BY <3>2
    <2>2. CASE holder[m] = "ended"
      <3>1. /\ health' = [health EXCEPT !.sessionEndedAt = second] /\ HolderGoes(m, "sessionStamped")
            /\ truth' = second
        BY <1>5, <2>2 DEF TicketDrop, Stamped
      <3>H. /\ health' \in HealthRecords /\ health'.sessionEndedAt = second /\ health'.established = health.established
            /\ health'.parked = health.parked /\ health'.parkEndedAt = health.parkEndedAt
        BY <1>0, <3>1, HealthGoes
      <3>2. HolderStep(m, "sessionStamped")
        BY <1>0, <2>0, <2>2, <3>1, <3>H DEF HolderGoes, HolderStep, HolderStates
      <3> QED
        BY <3>2
    <2>3. CASE holder[m] = "sessionStamped"
      <3>1. health' = [health EXCEPT !.established = health.established - 1] /\ HolderGoes(m, "idle") /\ truth' = truth
        BY <1>5, <2>3 DEF TicketDrop, TakenOff
      <3>2. health.established > 0
        <4>1. "sessionStamped" \in SessionTickets /\ "idle" \notin SessionTickets
          BY DEF SessionTickets
        <4>2. Cardinality(Holding(SessionTickets)) > 0
          BY <1>0, <2>3, <3>1, <4>1, Counting DEF HolderGoes
        <4> QED
          BY <4>2 DEF ReadinessInv, Counted
      <3>3. PICK k \in Nat : k = health.established - 1
        BY <1>0, <3>2
      <3>K. health' = [health EXCEPT !.established = k]
        BY <3>1, <3>3
      <3>H. /\ health' \in HealthRecords /\ health'.established = k /\ health'.parked = health.parked
            /\ health'.sessionEndedAt = health.sessionEndedAt /\ health'.parkEndedAt = health.parkEndedAt
        BY <1>0, <3>K, HealthGoes
      <3>4. HolderStep(m, "idle")
        BY <1>0, <2>0, <2>3, <3>1, <3>3, <3>H DEF HolderGoes, HolderStep, HolderStates
      <3> QED
        BY <3>4
    <2>4. CASE holder[m] \in {"parkStamped", "parkRefused"}
      <3>0. health' = [health EXCEPT !.parked = health.parked - 1] /\ truth' = truth
        BY <1>5, <2>4 DEF TicketDrop, TakenOff
      <3>1. PICK to \in {"joined", "idle"} : HolderGoes(m, to)
        BY <1>5, <2>4 DEF TicketDrop
      <3>2. health.parked > 0
        <4>1. holder[m] \in ParkTickets /\ to \notin ParkTickets
          BY <2>4 DEF ParkTickets
        <4>2. Cardinality(Holding(ParkTickets)) > 0
          BY <1>0, <3>1, <4>1, Counting DEF HolderGoes
        <4> QED
          BY <4>2 DEF ReadinessInv, Counted
      <3>3. PICK k \in Nat : k = health.parked - 1
        BY <1>0, <3>2
      <3>K. health' = [health EXCEPT !.parked = k]
        BY <3>0, <3>3
      <3>H. /\ health' \in HealthRecords /\ health'.parked = k /\ health'.established = health.established
            /\ health'.sessionEndedAt = health.sessionEndedAt /\ health'.parkEndedAt = health.parkEndedAt
        BY <1>0, <3>K, HealthGoes
      <3>4. HolderStep(m, to)
        BY <1>0, <2>0, <2>4, <3>0, <3>1, <3>3, <3>H DEF HolderGoes, HolderStep, HolderStates
      <3> QED
        BY <3>4
    <2> QED
      BY <1>5, <2>1, <2>2, <2>3, <2>4 DEF TicketDrop
  <1> QED
    BY <1>1, <1>2, <1>3, <1>4, <1>5

\* The stamps only grow: what they tell of, they tell of for good.
LEMMA StampsGrow ==
    ASSUME ReadinessInv, NEW m \in Holders, NEW to, HolderStep(m, to)
    PROVE  /\ health.sessionEndedAt <= health'.sessionEndedAt
           /\ health.parkEndedAt <= health'.parkEndedAt
           /\ \A n \in Nat : TellsOf(n) => TellsOf(n)'
           /\ holder[m] = "ended" \/ (accept /\ holder[m] = "parkOk") =>
                \A n \in Nat : n <= second => TellsOf(n)'
  <1>0. /\ second \in Nat /\ health.sessionEndedAt \in Nat /\ health.parkEndedAt \in Nat
        /\ health.sessionEndedAt <= second /\ health.parkEndedAt <= second
    BY DEF ReadinessInv, ReadinessTyped, HealthRecords
  <1>1. /\ health.sessionEndedAt <= health'.sessionEndedAt
        /\ health.parkEndedAt <= health'.parkEndedAt /\ accept' = accept
        /\ health'.sessionEndedAt \in Nat /\ health'.parkEndedAt \in Nat
    BY <1>0 DEF HolderStep
  <1>2. \A n \in Nat : TellsOf(n) => TellsOf(n)'
    BY <1>0, <1>1 DEF TellsOf
  <1>3. holder[m] = "ended" \/ (accept /\ holder[m] = "parkOk") =>
          \A n \in Nat : n <= second => TellsOf(n)'
    BY <1>0, <1>1 DEF TellsOf, HolderStep
  <1> QED
    BY <1>1, <1>2, <1>3

\* A holder's move leaves the evidence ahead of the probe.
LEMMA HolderKeeps ==
    ASSUME ReadinessInv, NEW m \in Holders, NEW to, HolderStep(m, to)
    PROVE  ReadinessInv'
  <1>0. /\ ReadinessTyped /\ Counted /\ TellsOf(truth) /\ ProbeInv
        /\ holder \in [Holders -> HolderStates] /\ health \in HealthRecords
        /\ second \in Nat /\ HealthTime \in Nat /\ second <= HealthTime
        /\ health.established \in Nat /\ health.parked \in Nat
        /\ probe.now \in Nat /\ probe.last \in Nat /\ probe.parkEnded \in Nat /\ truth \in Nat
        /\ health.sessionEndedAt \in Nat /\ health'.sessionEndedAt \in Nat
    BY ReadinessAssumption DEF ReadinessInv, ReadinessTyped, HealthRecords, ProbeRecords, HolderStep
  <1>H. /\ holder' = [holder EXCEPT ![m] = to] /\ UNCHANGED <<second, accept, probe>>
        /\ \A x \in Holders : holder'[x] = IF x = m THEN to ELSE holder[x]
    BY <1>0 DEF HolderStep
  <1>G. /\ health.sessionEndedAt <= health'.sessionEndedAt
        /\ \A n \in Nat : TellsOf(n) => TellsOf(n)'
        /\ holder[m] = "ended" \/ (accept /\ holder[m] = "parkOk") =>
             \A n \in Nat : n <= second => TellsOf(n)'
    BY StampsGrow
  <1>1. ReadinessTyped'
    BY <1>0, <1>H DEF ReadinessTyped, HolderStep
  <1>2. Counted'
    <2>1. health'.established = Cardinality(Holding(SessionTickets))'
      <3>1. /\ to = "session" => holder[m] \notin SessionTickets /\ to \in SessionTickets
            /\ holder[m] = "sessionStamped" => holder[m] \in SessionTickets /\ to \notin SessionTickets
            /\ (to # "session" /\ holder[m] # "sessionStamped") =>
                 (holder[m] \in SessionTickets <=> to \in SessionTickets)
        BY DEF HolderStep, SessionTickets
      <3>2. PICK a \in Nat, b \in Nat :
              /\ a = Cardinality(Holding(SessionTickets)) /\ b = Cardinality(Holding(SessionTickets))'
              /\ (holder[m] \in SessionTickets <=> to \in SessionTickets) => b = a
              /\ (holder[m] \notin SessionTickets /\ to \in SessionTickets) => b = a + 1
              /\ (holder[m] \in SessionTickets /\ to \notin SessionTickets) => b = a - 1
        BY <1>0, <1>H, Counting
      <3>3. health.established = a
        BY <1>0, <3>2 DEF Counted
      <3>4. health'.established = b
        BY <3>1, <3>2, <3>3 DEF HolderStep
      <3> QED
        BY <3>2, <3>4
    <2>2. health'.parked = Cardinality(Holding(ParkTickets))'
      <3>1. /\ to = "parked" => holder[m] \notin ParkTickets /\ to \in ParkTickets
            /\ holder[m] \in {"parkStamped", "parkRefused"} =>
                 holder[m] \in ParkTickets /\ to \notin ParkTickets
            /\ (to # "parked" /\ holder[m] \notin {"parkStamped", "parkRefused"}) =>
                 (holder[m] \in ParkTickets <=> to \in ParkTickets)
        BY DEF HolderStep, ParkTickets
      <3>2. PICK a \in Nat, b \in Nat :
              /\ a = Cardinality(Holding(ParkTickets)) /\ b = Cardinality(Holding(ParkTickets))'
              /\ (holder[m] \in ParkTickets <=> to \in ParkTickets) => b = a
              /\ (holder[m] \notin ParkTickets /\ to \in ParkTickets) => b = a + 1
              /\ (holder[m] \in ParkTickets /\ to \notin ParkTickets) => b = a - 1
        BY <1>0, <1>H, Counting
      <3>3. health.parked = a
        BY <1>0, <3>2 DEF Counted
      <3>4. health'.parked = b
        BY <3>1, <3>2, <3>3 DEF HolderStep
      <3> QED
        BY <3>2, <3>4
    <2> QED
      BY <2>1, <2>2 DEF Counted
  <1>3. TellsOf(truth)'
    <2>1. CASE holder[m] = "ended" \/ (accept /\ holder[m] = "parkOk")
      BY <1>0, <1>G, <2>1 DEF HolderStep, TellsOf
    <2>2. CASE ~(holder[m] = "ended" \/ (accept /\ holder[m] = "parkOk"))
      <3>1. truth' = truth
        BY <2>2 DEF HolderStep
      <3>2. TellsOf(truth)
        BY <1>0
      <3> QED
        BY <1>0, <1>G, <3>1, <3>2 DEF TellsOf
    <2> QED
      BY <2>1, <2>2
  <1>P. PICK n \in Nat, l \in Nat : n = probe.now /\ l = probe.last
    BY <1>0
  <1>Q. probe' = probe /\ probe'.now = n /\ probe'.last = l /\ n <= second
    BY <1>0, <1>H, <1>P DEF ReadinessTyped
  \* A ticket the probe may still come to is there, or its stamp is.
  <1>4. /\ Holding({"session", "ended"}) # {} => TellsOf(n)' \/ Holding({"session", "ended"})' # {}
        /\ (accept /\ Holding({"parkOk"}) # {}) => TellsOf(n)' \/ Holding({"parkOk"})' # {}
    <2>1. ASSUME NEW x \in Holders, holder[x] \in {"session", "ended"}
          PROVE  TellsOf(n)' \/ holder'[x] \in {"session", "ended"}
      BY <1>G, <1>H, <1>Q, <2>1 DEF HolderStep
    <2>2. ASSUME NEW x \in Holders, accept, holder[x] = "parkOk"
          PROVE  TellsOf(n)' \/ holder'[x] = "parkOk"
      BY <1>G, <1>H, <1>Q, <2>2 DEF HolderStep
    <2> QED
      BY <2>1, <2>2 DEF Holding
  <1>5. ProbeInv'
    <2>1. /\ TellsOf(probe.now) <=> TellsOf(n)
          /\ TellsOf(probe.now)' <=> TellsOf(n)'
          /\ TellsOf(probe.last) <=> TellsOf(l)
          /\ TellsOf(probe.last)' <=> TellsOf(l)'
      BY <1>P, <1>Q DEF TellsOf
    <2>2. (TellsOf(n) => TellsOf(n)') /\ (TellsOf(l) => TellsOf(l)')
      BY <1>G
    <2>3. Evidence => Evidence'
      BY <1>0, <1>4, <1>G, <1>H, <1>P, <1>Q, <2>1, <2>2 DEF Evidence
    <2>4. LastTold'
      BY <1>0, <1>G, <1>P, <1>Q, <2>1, <2>2 DEF ProbeInv, LastTold
    <2> QED
      BY <1>0, <1>Q, <2>3, <2>4 DEF ProbeInv, Honest
  <1> QED
    BY <1>1, <1>2, <1>3, <1>5 DEF ReadinessInv

\* A step of the probe, the clock or the stop leaves the tickets alone.
LEMMA ProbeFrame ==
    ASSUME ReadinessInv, UNCHANGED <<second, health, holder, accept, truth>>, probe' \in ProbeRecords,
           probe'.now <= second, ProbeInv'
    PROVE  ReadinessInv'
  BY DEF ReadinessInv, ReadinessTyped, Counted, Holding, TellsOf

\* Where the probe goes next, with what it has read so far.
ProbeAt(at) ==
    /\ probe' \in ProbeRecords /\ probe'.at = at
    /\ probe'.now = probe.now /\ probe'.last = probe.last /\ (probe'.held <=> probe.held)

\* What each step of the probe writes to its record.
LEMMA ProbeMoves ==
    ASSUME probe \in ProbeRecords
    PROVE  /\ \A at \in {"established", "parked", "parkEnded"} :
                ProbeGoes(at) => ProbeAt(at) /\ probe'.parkEnded = probe.parkEnded
           /\ \A v \in {"ready", "stopping", "yet", "late"} : Answers(v) => ProbeAt("answered") /\ probe'.answer = v
           /\ \A e \in Nat : probe' = [probe EXCEPT !.at = "sessionEnded", !.parkEnded = e] =>
                ProbeAt("sessionEnded") /\ probe'.parkEnded = e
  BY ZenonT(40) DEF ProbeGoes, Answers, ProbeAt, ProbeRecords

\* A probe that reads on still has the evidence ahead of it.
LEMMA ProbeKeeps ==
    ASSUME ReadinessInv,
           \/ ProbeAsks \/ ProbeTimesOut \/ Readyz \/ ReadsStopping \/ ReadsEstablished \/ ReadsParked
           \/ ReadsParkEnded \/ ReadsSessionEnded \/ ProbeReturns
    PROVE  ReadinessInv'
  <1>A. UNCHANGED <<second, health, holder, accept, truth>>
    <2>1. CASE ProbeAsks \/ ProbeTimesOut \/ Readyz
      BY <2>1 DEF ProbeAsks, ProbeTimesOut, Readyz
    <2>2. CASE ReadsStopping \/ ReadsEstablished \/ ReadsParked
      BY <2>2 DEF ReadsStopping, ReadsEstablished, ReadsParked
    <2>3. CASE ReadsParkEnded \/ ReadsSessionEnded \/ ProbeReturns
      BY <2>3 DEF ReadsParkEnded, ReadsSessionEnded, ProbeReturns
    <2> QED
      BY <2>1, <2>2, <2>3
  <1>B. ReadinessTyped /\ ProbeInv /\ TellsOf(truth)
    BY DEF ReadinessInv
  <1>C. /\ probe \in ProbeRecords /\ probe.now \in Nat /\ probe.last \in Nat /\ probe.parkEnded \in Nat
        /\ probe.now <= second /\ second \in Nat /\ second >= 1 /\ truth \in Nat
        /\ health.sessionEndedAt \in Nat /\ health.parkEndedAt \in Nat
        /\ health.established \in Nat /\ health.parked \in Nat /\ accept \in BOOLEAN
    BY <1>B DEF ReadinessTyped, ProbeRecords, HealthRecords
  <1>0. /\ UNCHANGED <<second, health, holder, accept, truth>> /\ ReadinessTyped /\ ProbeInv
        /\ probe \in ProbeRecords /\ probe.now \in Nat /\ probe.last \in Nat /\ probe.parkEnded \in Nat
        /\ probe.now <= second /\ second \in Nat /\ second >= 1 /\ truth \in Nat /\ TellsOf(truth)
        /\ health.sessionEndedAt \in Nat /\ health.parkEndedAt \in Nat
        /\ health.established \in Nat /\ health.parked \in Nat /\ accept \in BOOLEAN
    BY <1>A, <1>B, <1>C
  <1>S. \A P : Holding(P)' = Holding(P)
    BY <1>0 DEF Holding
  <1>1. CASE ProbeAsks \/ ProbeTimesOut \/ ProbeReturns
    <2>1. PICK at \in {"connect", "done"}, c \in {0, 1} :
            probe' = [NoProbe EXCEPT !.at = at, !.code = c] \/ probe' = [NoProbe EXCEPT !.at = at]
      <3>1. CASE ProbeAsks
        BY <3>1 DEF ProbeAsks
      <3>2. CASE ProbeTimesOut
        BY <3>2 DEF ProbeTimesOut
      <3>3. CASE ProbeReturns
        <4>1. PICK arrives \in BOOLEAN :
                probe' = [NoProbe EXCEPT !.at = "done", !.code = IF arrives /\ probe.answer = "ready" THEN 0 ELSE 1]
          BY <3>3 DEF ProbeReturns
        <4> QED
          BY <4>1
      <3> QED
        BY <1>1, <3>1, <3>2, <3>3
    <2>2. probe' \in ProbeRecords /\ probe'.at = at /\ ~probe'.held /\ probe'.now = 0
      <3>1. CASE probe' = [NoProbe EXCEPT !.at = at, !.code = c]
        BY <3>1 DEF NoProbe, ProbeRecords
      <3>2. CASE probe' = [NoProbe EXCEPT !.at = at]
        BY <3>2 DEF NoProbe, ProbeRecords
      <3> QED
        BY <2>1, <3>1, <3>2
    <2>3. ProbeInv'
      BY <2>2 DEF ProbeInv, LastTold, Honest
    <2> QED
      BY <1>0, <2>2, <2>3, ProbeFrame
  <1>2. CASE Readyz
    <2>0. PICK b \in BOOLEAN : b = HoldsTicket
      BY DEF HoldsTicket
    <2>1. probe' = [probe EXCEPT !.at = "stopping", !.now = second, !.held = b, !.last = truth]
      BY <1>2, <2>0 DEF Readyz
    <2>2. /\ probe' \in ProbeRecords /\ probe'.at = "stopping" /\ probe'.now = second
          /\ probe'.last = truth /\ (probe'.held <=> b)
      BY <1>0, <2>1 DEF ProbeRecords
    <2>3. b => Holding({"session", "ended"}) # {} \/ (accept /\ Holding({"parkOk"}) # {})
      BY <2>0 DEF HoldsTicket, Holding
    <2>4. probe'.held => Evidence'
      BY <1>0, <1>S, <2>2, <2>3 DEF Evidence
    <2>5. LastTold'
      BY <1>0, <2>2 DEF LastTold, TellsOf
    <2>6. ProbeInv'
      BY <1>0, <2>2, <2>4, <2>5 DEF ProbeInv, Honest
    <2> QED
      BY <1>0, <2>2, <2>6, ProbeFrame
  \* The answers that claim nothing.
  <1>R. ASSUME NEW v \in {"ready", "stopping"}, Answers(v) PROVE ReadinessInv'
    <2>1. ProbeAt("answered") /\ probe'.answer = v
      BY <1>0, <1>R, ProbeMoves
    <2>2. ProbeInv'
      BY <2>1 DEF ProbeInv, ProbeAt, Evidence, LastTold, Honest
    <2> QED
      BY <1>0, <2>1, <2>2, ProbeFrame DEF ProbeAt
  <1>3. CASE ReadsStopping
    <2>1. CASE ProbeGoes("established")
      <3>1. ProbeAt("established") /\ probe.at = "stopping"
        BY <1>0, <1>3, <2>1, ProbeMoves DEF ReadsStopping
      <3>2. probe'.held => Evidence'
        BY <1>0, <1>S, <3>1 DEF ProbeAt, ProbeInv, Evidence, TellsOf
      <3>3. ProbeInv'
        BY <1>0, <3>1, <3>2 DEF ProbeAt, ProbeInv, LastTold, Honest, TellsOf
      <3> QED
        BY <1>0, <3>1, <3>3, ProbeFrame DEF ProbeAt
    <2> QED
      BY <1>3, <1>R, <2>1 DEF ReadsStopping
  <1>4. CASE ReadsEstablished
    <2>1. CASE ~(health.established > 0) /\ ProbeGoes("parked")
      <3>1. ProbeAt("parked") /\ probe.at = "established"
        BY <1>0, <1>4, <2>1, ProbeMoves DEF ReadsEstablished
      <3>2. Holding({"session", "ended"}) = {}
        <4>1. IsFiniteSet(Holding(SessionTickets)) /\ Cardinality(Holding(SessionTickets)) = 0
          BY <1>0, <2>1, ReadinessAssumption, FS_Subset DEF ReadinessInv, Counted, Holding
        <4>2. Holding(SessionTickets) = {}
          BY <4>1, FS_EmptySet
        <4> QED
          BY <4>2 DEF Holding, SessionTickets
      <3>3. probe'.held => Evidence'
        BY <1>0, <1>S, <3>1, <3>2 DEF ProbeAt, ProbeInv, Evidence, TellsOf
      <3>4. ProbeInv'
        BY <1>0, <3>1, <3>3 DEF ProbeAt, ProbeInv, LastTold, Honest, TellsOf
      <3> QED
        BY <1>0, <3>1, <3>4, ProbeFrame DEF ProbeAt
    <2> QED
      BY <1>4, <1>R, <2>1 DEF ReadsEstablished
  <1>5. CASE ReadsParked
    <2>1. CASE ~(accept /\ health.parked > 0) /\ ProbeGoes("parkEnded")
      <3>1. ProbeAt("parkEnded") /\ probe.at = "parked"
        BY <1>0, <1>5, <2>1, ProbeMoves DEF ReadsParked
      <3>2. accept => Holding({"parkOk"}) = {}
        <4> SUFFICES ASSUME accept PROVE Holding({"parkOk"}) = {}
          OBVIOUS
        <4>1. IsFiniteSet(Holding(ParkTickets)) /\ Cardinality(Holding(ParkTickets)) = 0
          BY <1>0, <2>1, ReadinessAssumption, FS_Subset DEF ReadinessInv, Counted, Holding
        <4>2. Holding(ParkTickets) = {}
          BY <4>1, FS_EmptySet
        <4> QED
          BY <4>2 DEF Holding, ParkTickets
      <3>3. probe'.held => Evidence'
        BY <1>0, <1>S, <3>1, <3>2 DEF ProbeAt, ProbeInv, Evidence, TellsOf
      <3>4. ProbeInv'
        BY <1>0, <3>1, <3>3 DEF ProbeAt, ProbeInv, LastTold, Honest, TellsOf
      <3> QED
        BY <1>0, <3>1, <3>4, ProbeFrame DEF ProbeAt
    <2> QED
      BY <1>5, <1>R, <2>1 DEF ReadsParked
  <1>6. CASE ReadsParkEnded
    <2>1. PICK e \in Nat : e = IF accept THEN health.parkEndedAt ELSE 0
      BY <1>0
    <2>2. probe' = [probe EXCEPT !.at = "sessionEnded", !.parkEnded = e] /\ probe.at = "parkEnded"
      BY <1>6, <2>1 DEF ReadsParkEnded
    <2>3. ProbeAt("sessionEnded") /\ probe'.parkEnded = e
      BY <1>0, <2>2, ProbeMoves
    <2>4. probe'.held => Evidence'
      BY <1>0, <2>1, <2>2, <2>3 DEF ProbeAt, ProbeInv, Evidence, TellsOf
    <2>5. ProbeInv'
      BY <1>0, <2>1, <2>2, <2>3, <2>4 DEF ProbeAt, ProbeInv, LastTold, Honest, TellsOf
    <2> QED
      BY <1>0, <2>3, <2>5, ProbeFrame DEF ProbeAt
  \* Whatever was held or had ended is in one of the two stamps.
  <1>7. CASE ReadsSessionEnded
    <2>1. PICK e \in Nat : e = IF health.sessionEndedAt > probe.parkEnded
                                 THEN health.sessionEndedAt ELSE probe.parkEnded
      BY <1>0
    <2>G. ReadyGrace \in Nat /\ ReadyGrace >= 1
      BY ReadinessAssumption
    <2>2. /\ probe.at = "sessionEnded"
          /\ Answers(CASE e = 0 -> "yet"
                       [] e > 0 /\ probe.now < e + ReadyGrace -> "ready"
                       [] e > 0 /\ probe.now >= e + ReadyGrace -> "late")
      BY <1>7, <2>1 DEF ReadsSessionEnded
    <2>3. PICK v \in {"yet", "ready", "late"} :
            /\ Answers(v) /\ (v = "yet" => e = 0) /\ (v = "late" => probe.now >= e + ReadyGrace)
      <3>1. CASE e = 0
        BY <2>2, <3>1
      <3>2. CASE e > 0 /\ probe.now < e + ReadyGrace
        BY <2>2, <2>1, <3>2, <2>G, <1>0
      <3>3. CASE e > 0 /\ probe.now >= e + ReadyGrace
        BY <2>2, <2>1, <3>3, <2>G, <1>0
      <3> QED
        BY <1>0, <2>1, <2>G, <3>1, <3>2, <3>3
    <2>4. ProbeAt("answered") /\ probe'.answer = v
      BY <1>0, <2>3, ProbeMoves
    <2>5. probe.last <= e /\ (probe.held => probe.now <= e) /\ 1 <= probe.now
      BY <1>0, <2>1, <2>2 DEF ProbeInv, Evidence, LastTold
    <2>6. v \in {"yet", "late"} => ~probe.held /\ (probe.last = 0 \/ probe.now >= probe.last + ReadyGrace)
      BY <1>0, <2>1, <2>3, <2>5, <2>G
    <2>7. ProbeInv'
      BY <2>4, <2>6 DEF ProbeAt, ProbeInv, Evidence, LastTold, Honest
    <2> QED
      BY <1>0, <2>4, <2>7, ProbeFrame DEF ProbeAt
  <1> QED
    BY <1>1, <1>2, <1>3, <1>4, <1>5, <1>6, <1>7

\* Every step of holders, clock and probe keeps the invariant.
LEMMA ReadinessNextInv == ReadinessInv /\ [ReadinessNext]_readinessVars => ReadinessInv'
  <1> SUFFICES ASSUME ReadinessInv, [ReadinessNext]_readinessVars PROVE ReadinessInv'
    OBVIOUS
  <1>0. /\ ReadinessTyped /\ health \in HealthRecords /\ probe \in ProbeRecords
        /\ second \in Nat /\ HealthTime \in Nat /\ probe.now \in Nat
        /\ health.sessionEndedAt \in Nat /\ health.parkEndedAt \in Nat
    BY ReadinessAssumption DEF ReadinessInv, ReadinessTyped, HealthRecords, ProbeRecords
  <1>1. CASE SecondPasses
    <2>1. UNCHANGED <<health, holder, accept, probe, truth>> /\ second' = second + 1 /\ second < HealthTime
      BY <1>1 DEF SecondPasses
    <2>2. ReadinessTyped'
      BY <1>0, <2>1 DEF ReadinessTyped
    <2> QED
      BY <2>1, <2>2
         DEF ReadinessInv, Counted, Holding, TellsOf, ProbeInv, Evidence, LastTold, Honest
  <1>2. CASE SetStopping
    <2>1. UNCHANGED <<second, holder, accept, probe, truth>> /\ health' = [health EXCEPT !.stopping = TRUE]
      BY <1>2 DEF SetStopping
    <2>2. /\ health' \in HealthRecords /\ health'.established = health.established
          /\ health'.parked = health.parked /\ health'.sessionEndedAt = health.sessionEndedAt
          /\ health'.parkEndedAt = health.parkEndedAt
      BY <1>0, <2>1 DEF HealthRecords
    <2>3. ReadinessTyped'
      BY <1>0, <2>1, <2>2 DEF ReadinessTyped
    <2> QED
      BY <2>1, <2>2, <2>3
         DEF ReadinessInv, Counted, Holding, TellsOf, ProbeInv, Evidence, LastTold, Honest
  <1>3. ASSUME NEW m \in Holders,
               Parks(m) \/ ParkOutcome(m) \/ SessionStarts(m) \/ SessionEnds(m) \/ TicketDrop(m)
        PROVE  ReadinessInv'
    BY <1>3, HolderDoes, HolderKeeps
  <1>4. CASE UNCHANGED readinessVars
    <2>1. UNCHANGED <<second, health, holder, accept, probe, truth>>
      BY <1>4 DEF readinessVars
    <2> QED
      BY <2>1 DEF ReadinessInv, ReadinessTyped, Counted, Holding, TellsOf, ProbeInv, Evidence,
                  LastTold, Honest
  <1> QED
    BY <1>1, <1>2, <1>3, <1>4, ProbeKeeps DEF ReadinessNext

\* However many sessions and parks come and go while a probe reads the counters and the stamps one
\* by one, a "not ready" is true of the moment it took its time: a ticket is stamped before it is
\* taken off, and the probe reads in the order that meets it (Drop for Ticket, readyz).
THEOREM NotReadyAlwaysTrue == ReadinessSpec => []NotReadyIsTrue
  <1>1. ReadinessInv => NotReadyIsTrue
    <2> SUFFICES ASSUME ReadinessInv PROVE NotReadyIsTrue
      OBVIOUS
    <2>1. ASSUME NEW P PROVE Cardinality(Holding(P)) \in 0 .. Cardinality(Holders)
      <3>1. /\ IsFiniteSet(Holders) /\ Holding(P) \subseteq Holders
        BY ReadinessAssumption DEF Holding
      <3>2. Cardinality(Holding(P)) <= Cardinality(Holders) /\ IsFiniteSet(Holding(P))
        BY <3>1, FS_Subset
      <3>3. Cardinality(Holding(P)) \in Nat /\ Cardinality(Holders) \in Nat
        BY <3>1, <3>2, FS_CardinalityType
      <3> QED
        BY <3>2, <3>3
    <2>2. health \in [established : 0 .. Cardinality(Holders), parked : 0 .. Cardinality(Holders),
                      sessionEndedAt : 0 .. HealthTime, parkEndedAt : 0 .. HealthTime,
                      stopping : BOOLEAN]
      <3>1. /\ health.established \in 0 .. Cardinality(Holders)
            /\ health.parked \in 0 .. Cardinality(Holders)
        BY <2>1 DEF ReadinessInv, Counted
      <3>2. /\ health.sessionEndedAt \in 0 .. HealthTime /\ health.parkEndedAt \in 0 .. HealthTime
            /\ health \in HealthRecords
        BY ReadinessAssumption DEF ReadinessInv, ReadinessTyped, HealthRecords
      <3> QED
        BY <3>1, <3>2 DEF HealthRecords
    <2>3. ReadinessTypeOK
      BY <2>2 DEF ReadinessInv, ReadinessTyped, ReadinessTypeOK, ProbeRecords
    <2> QED
      BY <2>3 DEF NotReadyIsTrue, ReadinessInv, ProbeInv, Honest
  <1> QED
    BY <1>1, ReadinessInitInv, ReadinessNextInv, PTL DEF ReadinessSpec

-----------------------------------------------------------------------------
(* The transport over one stream (GateTransport).  A listener is asked for once, and what it has    *)
(* announced is what its state says, so that a poll after a dial finds the stream gone.            *)

Heard == {<<>>, <<"address">>, <<"address", "incoming">>}
ListenerRecords == [at : {"Idle", "Requested", "AddressSent", "Done"}, id : ListenerIds \cup {NoListener}]

GateTyped ==
    /\ gateStream \in BOOLEAN /\ listener \in ListenerRecords
    /\ owners \in Seq({"dial", "incoming"}) /\ announced \in [ListenerIds -> Heard]
    /\ asked \in [ListenerIds -> {"no", "taken", "refused"}]
    /\ removed \subseteq ListenerIds
    /\ dialCount \in 0 .. SwarmDials

\* The stream is with the transport or with one connection.
OneOwner == Len(owners) = IF gateStream THEN 0 ELSE 1

\* What the listener in use has announced; a listener that was not asked for has announced nothing.
Awaited ==
    /\ listener.at \in {"Requested", "AddressSent"} =>
         listener.id \in ListenerIds /\ listener.id \notin removed /\ asked[listener.id] = "taken"
    /\ listener.at = "Requested" => announced[listener.id] = <<>>
    /\ listener.at = "AddressSent" => announced[listener.id] = <<"address">>
    /\ \A id \in ListenerIds : asked[id] = "no" => announced[id] = <<>> /\ id \notin removed

RemovedStays == \A id \in removed : announced[id] # <<"address", "incoming">>

\* The transport is idle until it has served a listener, and refuses none before.
RefusedWithCause ==
    /\ listener.at # "Idle" => \E id \in ListenerIds : asked[id] = "taken"
    /\ \A id \in ListenerIds : asked[id] = "refused" => ~gateStream \/ \E other \in ListenerIds : asked[other] = "taken"

GateInv == GateTyped /\ OneOwner /\ Awaited /\ RemovedStays /\ RefusedWithCause

\* The three histories of a listener, as sequences.
LEMMA HeardIs ==
    /\ Append(<<>>, "address") = <<"address">>
    /\ Append(<<"address">>, "incoming") = <<"address", "incoming">>
    /\ <<"address">> # <<"address", "incoming">> /\ <<>> # <<"address", "incoming">>
    /\ \A h \in Heard : h \in Seq({"address", "incoming"})
  <1>1. Append(<<>>, "address") = <<"address">>
    OBVIOUS
  <1>2. Len(<<>>) = 0 /\ Len(<<"address">>) = 1 /\ Len(<<"address", "incoming">>) = 2
    OBVIOUS
  <1>3. <<"address">> # <<"address", "incoming">> /\ <<>> # <<"address", "incoming">>
    BY <1>2
  <1>4. <<>> \in Seq({"address", "incoming"})
    OBVIOUS
  <1>5. <<"address">> \in Seq({"address", "incoming"})
    OBVIOUS
  <1>6. <<"address", "incoming">> \in Seq({"address", "incoming"})
    OBVIOUS
  <1>7. Append(<<"address">>, "incoming") = <<"address", "incoming">>
    <2>1. PICK S : S = {"address", "incoming"}
      OBVIOUS
    <2>2. PICK one \in Seq(S) : one = <<"address">>
      BY <1>5, <2>1
    <2>3. PICK two \in Seq(S) : two = <<"address", "incoming">>
      BY <1>6, <2>1
    <2>4. Len(one) = 1 /\ one[1] = "address" /\ Len(two) = 2 /\ two[1] = "address" /\ two[2] = "incoming"
      BY <2>2, <2>3
    <2>5. PICK more : more = Append(one, "incoming")
      OBVIOUS
    <2>6. "incoming" \in S
      BY <2>1
    <2>7. /\ more \in Seq(S) /\ Len(more) = Len(one) + 1
          /\ \A i \in 1 .. Len(one) : more[i] = one[i]
          /\ more[Len(one) + 1] = "incoming"
      BY <2>5, <2>6, AppendProperties
    <2>8. more \in Seq(S) /\ Len(more) = Len(two)
      BY <2>4, <2>7
    <2>9. more[1] = two[1] /\ more[2] = two[2]
      BY <2>4, <2>7
    <2>10. \A i \in 1 .. Len(more) : more[i] = two[i]
      BY <2>4, <2>8, <2>9
    <2>11. more = two
      BY <2>8, <2>10, SeqEqual
    <2> QED
      BY <2>2, <2>3, <2>5, <2>11
  <1> QED
    BY <1>1, <1>3, <1>4, <1>5, <1>6, <1>7 DEF Heard

\* The stream is there at first, and nobody listens.
LEMMA GateStarts == GateInit => GateInv
  <1> SUFFICES ASSUME GateInit PROVE GateInv
    OBVIOUS
  <1>1. GateTyped
    BY GateAssumption DEF GateInit, GateTyped, ListenerRecords, NoListener, Heard
  <1>2. OneOwner /\ Awaited /\ RemovedStays /\ RefusedWithCause
    BY DEF GateInit, OneOwner, Awaited, RemovedStays, RefusedWithCause
  <1> QED
    BY <1>1, <1>2 DEF GateInv

\* A connection more is made only of the stream that the transport still has.
LEMMA OwnersGo ==
    ASSUME GateTyped, OneOwner, NEW k \in {"dial", "incoming"},
           owners' = (IF gateStream THEN Append(owners, k) ELSE owners), gateStream' = FALSE
    PROVE  owners' \in Seq({"dial", "incoming"}) /\ OneOwner'
  <1>1. CASE gateStream
    <2>1. owners' = Append(owners, k) /\ owners \in Seq({"dial", "incoming"}) /\ Len(owners) = 0
      BY <1>1 DEF GateTyped, OneOwner
    <2>2. owners' \in Seq({"dial", "incoming"}) /\ Len(owners') = 1
      <3>1. PICK S : S = {"dial", "incoming"}
        OBVIOUS
      <3>2. owners \in Seq(S) /\ k \in S
        BY <2>1, <3>1
      <3>3. PICK more : more = Append(owners, k)
        OBVIOUS
      <3>4. more \in Seq(S) /\ Len(more) = Len(owners) + 1
        BY <3>2, <3>3, AppendProperties
      <3>5. Len(more) = 1
        BY <2>1, <3>4
      <3>6. owners' = more
        BY <2>1, <3>3
      <3> QED
        BY <3>1, <3>4, <3>5, <3>6
    <2> QED
      BY <2>2 DEF OneOwner
  <1>2. CASE ~gateStream
    BY <1>2 DEF GateTyped, OneOwner
  <1> QED
    BY <1>1, <1>2

\* A poll announces the address, hands in the stream, or leaves everything as it is.
LEMMA PollKeeps == ASSUME GateInv, PollsTransport PROVE GateInv'
  <1>0. /\ GateTyped /\ OneOwner /\ Awaited /\ RemovedStays /\ RefusedWithCause /\ UNCHANGED <<asked, removed, dialCount>>
        /\ listener \in ListenerRecords
    BY DEF GateInv, GateTyped, PollsTransport
  <1>1. CASE listener.at = "Requested"
    <2>1. PICK id \in ListenerIds : id = listener.id /\ id \notin removed /\ asked[id] = "taken"
      BY <1>0, <1>1 DEF Awaited
    <2>2. listener' = [listener EXCEPT !.at = "AddressSent"]
      BY <1>1 DEF PollsTransport, PutBack
    <2>3. announced' = [announced EXCEPT ![id] = <<"address">>] /\ UNCHANGED <<gateStream, owners>>
      BY <1>0, <1>1, <2>1, HeardIs DEF PollsTransport, Awaited, GateTyped
    <2>4. listener' \in ListenerRecords /\ listener'.at = "AddressSent" /\ listener'.id = id
      BY <1>0, <2>1, <2>2 DEF ListenerRecords
    <2>5. <<"address">> \in Heard
      BY DEF Heard
    <2>6. /\ announced' \in [ListenerIds -> Heard] /\ announced'[id] = <<"address">>
          /\ \A j \in ListenerIds : j # id => announced'[j] = announced[j]
      BY <1>0, <2>3, <2>5 DEF GateTyped
    <2>7. GateTyped'
      BY <1>0, <2>3, <2>4, <2>6 DEF GateTyped
    <2>8. Awaited' /\ RemovedStays'
      BY <1>0, <2>1, <2>4, <2>6 DEF Awaited, RemovedStays, GateTyped
    <2>9. OneOwner' /\ RefusedWithCause'
      BY <1>0, <2>1, <2>3 DEF OneOwner, RefusedWithCause
    <2> QED
      BY <2>7, <2>8, <2>9 DEF GateInv
  <1>2. CASE listener.at = "AddressSent"
    <2>1. PICK id \in ListenerIds : id = listener.id /\ id \notin removed /\ asked[id] = "taken"
      BY <1>0, <1>2 DEF Awaited
    <2>2. PICK h \in Heard : h = IF gateStream THEN <<"address", "incoming">> ELSE <<"address">>
      BY DEF Heard
    <2>3. listener' = [at |-> "Done", id |-> NoListener]
      BY <1>2 DEF PollsTransport, PutBack
    <2>4. announced[id] = <<"address">> /\ announced \in [ListenerIds -> Heard]
      BY <1>0, <1>2, <2>1 DEF Awaited, GateTyped
    <2>5. announced' = [announced EXCEPT ![id] = h]
      BY <1>2, <2>1, <2>2, <2>4, HeardIs DEF PollsTransport
    <2>6. owners' = (IF gateStream THEN Append(owners, "incoming") ELSE owners) /\ gateStream' = FALSE
      BY <1>0, <1>2 DEF PollsTransport, GateTyped
    <2>7. owners' \in Seq({"dial", "incoming"}) /\ OneOwner'
      BY <1>0, <2>6, OwnersGo
    <2>8. /\ announced' \in [ListenerIds -> Heard]
          /\ \A j \in ListenerIds : j # id => announced'[j] = announced[j]
      BY <2>4, <2>5
    <2>9. GateTyped'
      BY <1>0, <2>3, <2>6, <2>7, <2>8 DEF GateTyped, ListenerRecords
    <2>10. Awaited' /\ RemovedStays'
      BY <1>0, <2>1, <2>3, <2>8 DEF Awaited, RemovedStays, GateTyped
    <2>11. RefusedWithCause'
      BY <1>0, <2>1, <2>6 DEF RefusedWithCause
    <2> QED
      BY <2>7, <2>9, <2>10, <2>11 DEF GateInv
  <1>3. CASE listener.at \in {"Idle", "Done"}
    <2>1. listener' = listener /\ UNCHANGED <<announced, owners, gateStream>>
      BY <1>3 DEF PollsTransport, PutBack
    <2> QED
      BY <1>0, <2>1 DEF GateInv, GateTyped, OneOwner, Awaited, RemovedStays, RefusedWithCause
  <1> QED
    BY <1>0, <1>1, <1>2, <1>3 DEF ListenerRecords

\* Every call of the swarm keeps the invariant.
LEMMA GateKeeps == GateInv /\ [GateNext]_gateVars => GateInv'
  <1> SUFFICES ASSUME GateInv, [GateNext]_gateVars PROVE GateInv'
    OBVIOUS
  <1>0. GateTyped /\ OneOwner /\ Awaited /\ RemovedStays /\ RefusedWithCause
    BY DEF GateInv
  <1>1. ASSUME NEW id \in ListenerIds, ListensOn(id) PROVE GateInv'
    <2>1. asked[id] = "no" /\ UNCHANGED <<gateStream, owners, announced, removed, dialCount>>
      BY <1>1 DEF ListensOn
    <2>2. announced[id] = <<>> /\ id \notin removed
      BY <1>0, <2>1 DEF Awaited
    <2>3. CASE gateStream /\ listener.at = "Idle"
      <3>1. listener' = [at |-> "Requested", id |-> id] /\ asked' = [asked EXCEPT ![id] = "taken"]
        BY <1>1, <2>3 DEF ListensOn
      <3>2. /\ asked' \in [ListenerIds -> {"no", "taken", "refused"}] /\ asked'[id] = "taken"
            /\ \A j \in ListenerIds : j # id => asked'[j] = asked[j]
        BY <1>0, <3>1 DEF GateTyped
      <3>3. GateTyped'
        BY <1>0, <2>1, <3>1, <3>2 DEF GateTyped, ListenerRecords
      <3>4. Awaited'
        BY <1>0, <2>1, <2>2, <3>1, <3>2 DEF Awaited
      <3>5. OneOwner' /\ RemovedStays' /\ RefusedWithCause'
        BY <1>0, <2>1, <3>2 DEF OneOwner, RemovedStays, RefusedWithCause
      <3> QED
        BY <3>3, <3>4, <3>5 DEF GateInv
    <2>4. CASE ~(gateStream /\ listener.at = "Idle")
      <3>1. listener' = listener /\ asked' = [asked EXCEPT ![id] = "refused"]
        BY <1>1, <2>4 DEF ListensOn
      <3>2. /\ asked' \in [ListenerIds -> {"no", "taken", "refused"}] /\ asked'[id] = "refused"
            /\ \A j \in ListenerIds : j # id => asked'[j] = asked[j]
        BY <1>0, <3>1 DEF GateTyped
      <3>3. GateTyped'
        BY <1>0, <2>1, <3>1, <3>2 DEF GateTyped
      <3>4. Awaited'
        BY <1>0, <2>1, <3>1, <3>2 DEF Awaited
      <3>5. OneOwner' /\ RemovedStays'
        BY <1>0, <2>1 DEF OneOwner, RemovedStays
      <3>6. \A j \in ListenerIds : asked[j] = "taken" => asked'[j] = "taken"
        BY <2>1, <3>2
      <3>7. RefusedWithCause'
        BY <1>0, <2>1, <2>4, <3>1, <3>2, <3>6 DEF RefusedWithCause
      <3> QED
        BY <3>3, <3>4, <3>5, <3>7 DEF GateInv
    <2> QED
      BY <2>3, <2>4
  <1>2. ASSUME NEW id \in ListenerIds, RemovesListener(id) PROVE GateInv'
    <2>1. /\ listener.at \in {"Requested", "AddressSent"} /\ listener.id = id /\ removed' = removed \cup {id}
          /\ listener' = [at |-> "Done", id |-> NoListener] /\ UNCHANGED <<gateStream, owners, asked, announced, dialCount>>
      BY <1>2 DEF RemovesListener
    <2>2. GateTyped'
      BY <1>0, <2>1 DEF GateTyped, ListenerRecords
    <2>3. announced[id] # <<"address", "incoming">> /\ asked[id] = "taken"
      BY <1>0, <2>1, HeardIs DEF Awaited
    <2>4. OneOwner' /\ Awaited' /\ RemovedStays' /\ RefusedWithCause'
      BY <1>0, <2>1, <2>3 DEF OneOwner, Awaited, RemovedStays, RefusedWithCause
    <2> QED
      BY <2>2, <2>4 DEF GateInv
  <1>3. CASE DialsGate
    <2>1. owners' \in Seq({"dial", "incoming"}) /\ OneOwner'
      BY <1>0, <1>3, OwnersGo DEF DialsGate
    <2>2. dialCount' \in 0 .. SwarmDials
      BY <1>0, <1>3, GateAssumption DEF DialsGate, GateTyped
    <2>3. GateTyped'
      BY <1>0, <1>3, <2>1, <2>2 DEF DialsGate, GateTyped
    <2>4. Awaited' /\ RemovedStays' /\ RefusedWithCause'
      BY <1>0, <1>3 DEF DialsGate, Awaited, RemovedStays, RefusedWithCause
    <2> QED
      BY <2>1, <2>3, <2>4 DEF GateInv
  <1>4. CASE UNCHANGED gateVars
    BY <1>0, <1>4 DEF gateVars, GateInv, GateTyped, OneOwner, Awaited, RemovedStays, RefusedWithCause
  <1> QED
    BY <1>1, <1>2, <1>3, <1>4, PollKeeps DEF GateNext

\* However often and in whatever order a swarm dials, listens, polls and removes listeners: the one
\* stream is there until it has become one connection, a listen_on is refused only when the stream
\* is used up or another listener was served, and a listener hears of its connection after its
\* address and never once it was removed (PreConnectedTransport::listen_on, dial, poll,
\* remove_listener).
THEOREM StreamAlwaysReachesItsUser == GateSpec => []StreamReachesItsUser
  <1>1. GateInv => StreamReachesItsUser
    <2> SUFFICES ASSUME GateInv PROVE StreamReachesItsUser
      OBVIOUS
    <2>0. GateTyped /\ OneOwner /\ RemovedStays /\ RefusedWithCause
      BY DEF GateInv
    <2>1. GateTypeOK
      <3>1. announced \in [ListenerIds -> Seq({"address", "incoming"})]
        BY <2>0, HeardIs DEF GateTyped
      <3> QED
        BY <2>0, <3>1 DEF GateTyped, GateTypeOK, ListenerRecords
    <2>2. Len(owners) + (IF gateStream THEN 1 ELSE 0) = 1
      BY <2>0 DEF OneOwner, GateTyped
    <2>3. \A id \in ListenerIds :
            /\ announced[id] \in {<<>>, <<"address">>, <<"address", "incoming">>}
            /\ id \in removed => announced[id] # <<"address", "incoming">>
      BY <2>0 DEF GateTyped, RemovedStays, Heard
    <2> QED
      BY <2>0, <2>1, <2>2, <2>3 DEF StreamReachesItsUser, RefusedWithCause
  <1> QED
    BY <1>1, GateStarts, GateKeeps, PTL DEF GateSpec

-----------------------------------------------------------------------------
(* The tools of a serving agent (BridgeTools).  A grant is signed a step after the check of who     *)
(* asks and for which channel, so the check has to be remembered.                                  *)

CallRecords == [at : {"idle", "check", "ask"}, tool : Tools, grant : Grants]

\* A call that is carried out was permitted.
Checked == \A p \in Peers :
    call[p].at = "ask" /\ call[p].tool = "grant" => GrantScope(call[p].grant.channel)

BridgeTyped ==
    /\ settings \in Settings /\ call \in [Peers -> CallRecords]
    /\ minted \subseteq Grants /\ revocations \subseteq Grants /\ told \subseteq Grants
    /\ claims \subseteq Channels \X Peers /\ installs \subseteq Peers
    /\ inputCell \in {"empty", "text"} /\ made \in 0 .. ToolCalls

BridgeInv == BridgeTyped /\ Checked /\ ToldIsRevoked /\ StaysInOwnChannel

\* With a peer to call there is a grant to speak of.
LEMMA SomeGrant == ASSUME NEW p \in Peers PROVE NoCall \in CallRecords /\ NoCall.at = "idle"
  <1>1. [channel |-> OwnChannel, holder |-> p] \in Grants
    BY BridgeAssumption DEF Grants
  <1>2. (CHOOSE g \in Grants : TRUE) \in Grants
    BY <1>1
  <1> QED
    BY <1>2 DEF NoCall, CallRecords, Tools, ReadingTools

\* No call is made yet.
LEMMA BridgeStarts == BridgeInit => BridgeInv
  <1> SUFFICES ASSUME BridgeInit PROVE BridgeInv
    OBVIOUS
  <1>1. call \in [Peers -> CallRecords] /\ \A p \in Peers : call[p].at = "idle"
    BY SomeGrant DEF BridgeInit
  <1>2. BridgeTyped
    BY <1>1, BridgeAssumption DEF BridgeInit, BridgeTyped
  <1>3. Checked /\ ToldIsRevoked /\ StaysInOwnChannel
    BY <1>1 DEF BridgeInit, Checked, ToldIsRevoked, StaysInOwnChannel
  <1> QED
    BY <1>2, <1>3 DEF BridgeInv

\* A call that is finished leaves the others as they are.
LEMMA FinishKeeps ==
    ASSUME BridgeTyped, Checked, NEW p \in Peers, Finish(p), settings' = settings
    PROVE  call' \in [Peers -> CallRecords] /\ Checked'
  <1>1. call' = [call EXCEPT ![p] = NoCall] /\ call \in [Peers -> CallRecords]
    BY DEF Finish, BridgeTyped
  <1>2. PICK n \in CallRecords : n = NoCall /\ n.at = "idle"
    BY SomeGrant
  <1>3. call' = [call EXCEPT ![p] = n]
    BY <1>1, <1>2
  <1>4. call' \in [Peers -> CallRecords] /\ call'[p] = n /\ \A q \in Peers : q # p => call'[q] = call[q]
    BY <1>1, <1>3
  <1>5. Checked'
    BY <1>2, <1>4 DEF Checked, GrantScope
  <1> QED
    BY <1>4, <1>5

\* Whatever the control plane answers: told only of what it did.
LEMMA PostKeeps ==
    ASSUME BridgeTyped, ToldIsRevoked, NEW g \in Grants, PostsRevocation(g)
    PROVE  revocations' \subseteq Grants /\ told' \subseteq Grants /\ ToldIsRevoked'
  <1>1. PICK answer \in RevocationAnswers :
          /\ revocations' = IF answer.done THEN revocations \cup {g} ELSE revocations
          /\ told' = IF Interpret(answer.status, answer.confirms) THEN told \cup {g} ELSE told
    BY DEF PostsRevocation
  <1>2. Interpret(answer.status, answer.confirms) => answer.done
    BY DEF RevocationAnswers, Interpret
  <1> QED
    BY <1>1, <1>2 DEF BridgeTyped, ToldIsRevoked

\* Each of the steps a call goes through keeps the invariant.
LEMMA CallStepKeeps ==
    ASSUME BridgeInv, NEW p \in Peers,
           Calls(p) \/ Checks(p) \/ IssuesGrant(p) \/ RevokesAsOwner(p) \/ ChangesAllowlist(p)
             \/ InstallsManifest(p) \/ ReadsOnly(p)
    PROVE  BridgeInv'
  <1>0. BridgeTyped /\ Checked /\ ToldIsRevoked /\ StaysInOwnChannel /\ call[p] \in CallRecords
    BY DEF BridgeInv, BridgeTyped
  <1>1. CASE Calls(p)
    <2>1. PICK tool \in Offered, grant \in Grants :
            call' = [call EXCEPT ![p] = [at |-> "check", tool |-> tool, grant |-> grant]]
      BY <1>1 DEF Calls
    <2>2. tool \in Tools
      BY DEF Offered, Tools
    <2>3. PICK c \in CallRecords : c = [at |-> "check", tool |-> tool, grant |-> grant]
      BY <2>2 DEF CallRecords
    <2>4. /\ call' \in [Peers -> CallRecords] /\ call'[p] = c
          /\ \A q \in Peers : q # p => call'[q] = call[q]
      BY <1>0, <2>1, <2>3 DEF BridgeTyped
    <2>5. made' \in 0 .. ToolCalls
      BY <1>0, <1>1, BridgeAssumption DEF Calls, BridgeTyped
    <2>6. BridgeTyped'
      BY <1>0, <1>1, <2>4, <2>5 DEF Calls, BridgeTyped
    <2>7. Checked'
      BY <1>0, <1>1, <2>3, <2>4 DEF Calls, Checked, GrantScope
    <2>8. ToldIsRevoked' /\ StaysInOwnChannel'
      BY <1>0, <1>1 DEF Calls, ToldIsRevoked, StaysInOwnChannel
    <2> QED
      BY <2>6, <2>7, <2>8 DEF BridgeInv
  <1>2. CASE Checks(p)
    <2>1. call' \in [Peers -> CallRecords] /\ Checked'
      <3>1. CASE Permitted(p)
        <4>1. call' = [call EXCEPT ![p].at = "ask"]
          BY <1>2, <3>1 DEF Checks
        <4>2. PICK c \in CallRecords : c = [call[p] EXCEPT !.at = "ask"]
          BY <1>0 DEF CallRecords
        <4>3. c.tool = call[p].tool /\ c.grant = call[p].grant
          BY <1>0, <4>2 DEF CallRecords
        <4>4. /\ call' \in [Peers -> CallRecords] /\ call'[p] = c
              /\ \A q \in Peers : q # p => call'[q] = call[q]
          BY <1>0, <4>1, <4>2 DEF BridgeTyped
        <4>5. call[p].tool = "grant" => GrantScope(call[p].grant.channel)
          BY <3>1 DEF Permitted
        <4> QED
          BY <1>0, <1>2, <4>3, <4>4, <4>5 DEF Checks, Checked, GrantScope
      <3>2. CASE ~Permitted(p)
        BY <1>0, <1>2, <3>2, FinishKeeps DEF Checks
      <3> QED
        BY <3>1, <3>2
    <2>2. BridgeTyped'
      BY <1>0, <1>2, <2>1 DEF Checks, BridgeTyped
    <2>3. ToldIsRevoked' /\ StaysInOwnChannel'
      BY <1>0, <1>2 DEF Checks, ToldIsRevoked, StaysInOwnChannel
    <2> QED
      BY <2>1, <2>2, <2>3 DEF BridgeInv
  <1>3. CASE IssuesGrant(p)
    <2>1. call' \in [Peers -> CallRecords] /\ Checked'
      BY <1>0, <1>3, FinishKeeps DEF IssuesGrant
    <2>2. call[p].grant \in Grants /\ GrantScope(call[p].grant.channel)
      BY <1>0, <1>3 DEF IssuesGrant, Checked, CallRecords
    <2>3. BridgeTyped'
      BY <1>0, <1>3, <2>1, <2>2 DEF IssuesGrant, BridgeTyped
    <2>4. ToldIsRevoked' /\ StaysInOwnChannel'
      BY <1>0, <1>3, <2>2 DEF IssuesGrant, ToldIsRevoked, StaysInOwnChannel, GrantScope
    <2> QED
      BY <2>1, <2>3, <2>4 DEF BridgeInv
  <1>4. CASE RevokesAsOwner(p)
    <2>1. call' \in [Peers -> CallRecords] /\ Checked'
      BY <1>0, <1>4, FinishKeeps DEF RevokesAsOwner
    <2>2. call[p].grant \in Grants
      BY <1>0 DEF CallRecords
    <2>3. revocations' \subseteq Grants /\ told' \subseteq Grants /\ ToldIsRevoked'
      BY <1>0, <1>4, <2>2, PostKeeps DEF RevokesAsOwner
    <2>4. BridgeTyped' /\ StaysInOwnChannel'
      BY <1>0, <1>4, <2>1, <2>3 DEF RevokesAsOwner, BridgeTyped, StaysInOwnChannel
    <2> QED
      BY <2>1, <2>3, <2>4 DEF BridgeInv
  <1>5. CASE ChangesAllowlist(p)
    <2>1. call' \in [Peers -> CallRecords] /\ Checked'
      BY <1>0, <1>5, FinishKeeps DEF ChangesAllowlist
    <2>2. claims' \subseteq Channels \X Peers /\ \A c \in claims' : c[1] = OwnChannel
      <3>1. CASE UNCHANGED claims
        BY <1>0, <3>1 DEF BridgeTyped, StaysInOwnChannel
      <3>2. CASE \E h \in Peers :
                   claims' = IF call[p].tool = "allowlist-add"
                               THEN claims \cup {<<OwnChannel, h>>}
                               ELSE claims \ {<<OwnChannel, h>>}
        BY <1>0, <3>2, BridgeAssumption DEF BridgeTyped, StaysInOwnChannel
      <3> QED
        BY <1>5, <3>1, <3>2 DEF ChangesAllowlist
    <2>3. BridgeTyped'
      BY <1>0, <1>5, <2>1, <2>2 DEF ChangesAllowlist, BridgeTyped
    <2>4. ToldIsRevoked' /\ StaysInOwnChannel'
      BY <1>0, <1>5, <2>2 DEF ChangesAllowlist, ToldIsRevoked, StaysInOwnChannel
    <2> QED
      BY <2>1, <2>3, <2>4 DEF BridgeInv
  <1>6. CASE InstallsManifest(p)
    <2>1. call' \in [Peers -> CallRecords] /\ Checked'
      BY <1>0, <1>6, FinishKeeps DEF InstallsManifest
    <2>2. BridgeTyped' /\ ToldIsRevoked' /\ StaysInOwnChannel'
      BY <1>0, <1>6, <2>1 DEF InstallsManifest, BridgeTyped, ToldIsRevoked, StaysInOwnChannel
    <2> QED
      BY <2>1, <2>2 DEF BridgeInv
  <1>7. CASE ReadsOnly(p)
    <2>1. call' \in [Peers -> CallRecords] /\ Checked'
      BY <1>0, <1>7, FinishKeeps DEF ReadsOnly
    <2>2. BridgeTyped' /\ ToldIsRevoked' /\ StaysInOwnChannel'
      BY <1>0, <1>7, <2>1 DEF ReadsOnly, BridgeTyped, ToldIsRevoked, StaysInOwnChannel
    <2> QED
      BY <2>1, <2>2 DEF BridgeInv
  <1> QED
    BY <1>1, <1>2, <1>3, <1>4, <1>5, <1>6, <1>7

\* So do the operator's revocations and the sessions of one-shot callers.
LEMMA BridgeKeeps == BridgeInv /\ [BridgeNext]_bridgeVars => BridgeInv'
  <1> SUFFICES ASSUME BridgeInv, [BridgeNext]_bridgeVars PROVE BridgeInv'
    OBVIOUS
  <1>0. BridgeTyped /\ Checked /\ ToldIsRevoked /\ StaysInOwnChannel
    BY DEF BridgeInv
  <1>1. CASE OneShotSession
    <2>1. made' \in 0 .. ToolCalls /\ inputCell' \in {"empty", "text"}
      BY <1>0, <1>1, BridgeAssumption DEF OneShotSession, BridgeTyped
    <2> QED
      BY <1>0, <1>1, <2>1 DEF OneShotSession, BridgeInv, BridgeTyped, Checked, GrantScope, ToldIsRevoked,
                              StaysInOwnChannel
  <1>2. CASE RevokesAsOperator
    <2>1. made' \in 0 .. ToolCalls
      BY <1>0, <1>2, BridgeAssumption DEF RevokesAsOperator, BridgeTyped
    <2>2. revocations' \subseteq Grants /\ told' \subseteq Grants /\ ToldIsRevoked'
      BY <1>0, <1>2, PostKeeps DEF RevokesAsOperator
    <2> QED
      BY <1>0, <1>2, <2>1, <2>2 DEF RevokesAsOperator, BridgeInv, BridgeTyped, Checked, GrantScope,
                                    StaysInOwnChannel
  <1>3. CASE UNCHANGED bridgeVars
    BY <1>0, <1>3 DEF bridgeVars, BridgeInv, BridgeTyped, Checked, GrantScope, ToldIsRevoked,
                      StaysInOwnChannel
  <1> QED
    BY <1>1, <1>2, <1>3, CallStepKeeps DEF BridgeNext

\* For any number of peers and channels, however their calls fall between check and deed and
\* whatever the control plane answers: a grant somebody was told is revoked is on its list, and an
\* agent not set to sign for any channel signs and lists for its own only (interpret in
\* grant_revoke.rs; the grant, revoke and allow-list tools in service_calls.rs).
THEOREM BridgeAlwaysHonest == BridgeSpec => []BridgeHonest
  <1>1. BridgeInv => BridgeHonest
    BY DEF BridgeInv, BridgeTyped, CallRecords, BridgeTypeOK, BridgeHonest
  <1> QED
    BY <1>1, BridgeStarts, BridgeKeeps, PTL DEF BridgeSpec

-----------------------------------------------------------------------------
(* Service calls (ServiceCalls).  One call is under way at a time, and it is in one place: in the   *)
(* duplex on its way out, with one handler, or in the duplex on its way back.  A handler that the   *)
(* sessions have left behind carries their id.                                                     *)

LineRecords == [n : Nat, blank : BOOLEAN]
StdinRecords == [next : Nat, queue : Seq(LineRecords), eof : BOOLEAN]
CallerRecords == [phase : {"top", "session", "backoff", "done"}, call : Nat,
                  end : {"none", "ok", "failed", "ownGrantEnded"}, flaps : Nat,
                  redials : BOOLEAN, over : BOOLEAN]
LegRecords == [id : Nat, state : {"none", "admitting", "up", "draining", "over"}, req : Nat, rep : Nat]
RunRecords == [id : Nat, line : Nat, shell : {"running", "printed", "nothing"},
               kid : {"none", "holding", "gone"}, age : Nat]
EnvelopeRecords == [line : Nat, ok : BOOLEAN, of : Nat]

CallsTyped ==
    /\ stdin \in StdinRecords /\ caller \in CallerRecords /\ leg \in LegRecords
    /\ runs \subseteq RunRecords /\ envelopes \in Seq(EnvelopeRecords)

\* Lines are read in order: what is answered comes before the call, the call before what is
\* queued, and that before what is still to be read.
QueueInOrder ==
    /\ stdin.next > 0 /\ caller.call < stdin.next
    /\ \A k \in 1 .. Len(stdin.queue) :
          /\ 0 < stdin.queue[k].n /\ caller.call < stdin.queue[k].n /\ stdin.queue[k].n < stdin.next
          /\ \A m \in 1 .. Len(stdin.queue) : k < m => stdin.queue[k].n < stdin.queue[m].n

AnswersFirst ==
    \A i \in 1 .. Len(envelopes) :
        /\ envelopes[i].line < stdin.next
        /\ caller.call # 0 => envelopes[i].line < caller.call
        /\ \A k \in 1 .. Len(stdin.queue) : envelopes[i].line < stdin.queue[k].n

\* A session stands while the loop is in one, and the sessions' ids grow.
InSession ==
    /\ caller.phase = "session" <=> leg.state \in {"admitting", "up", "draining"}
    /\ caller.phase # "session" => caller.call = 0
    /\ caller.phase # "done" => \A r \in runs : r.id <= leg.id

NoHandler == \A r \in runs : r.id # leg.id

\* Where the call of the session is.
OneCall ==
    caller.phase = "session" =>
      /\ leg.req # 0 => leg.req = caller.call /\ leg.rep = 0 /\ NoHandler
      /\ leg.rep # 0 => caller.call # 0 /\ leg.rep \in {ErrorReply, caller.call} /\ leg.req = 0 /\ NoHandler
      /\ \A r \in runs : r.id = leg.id => r.line = caller.call /\ caller.call # 0
      /\ \A r, s \in runs : r.id = leg.id /\ s.id = leg.id => r = s

CallsInv == CallsTyped /\ QueueInOrder /\ AnswersFirst /\ RepliesMatch /\ InSession /\ OneCall

\* The numbers of queued lines, and of answered ones.
LEMMA LineNumbers ==
    ASSUME NEW q \in Seq(LineRecords)
    PROVE  Len(q) \in Nat /\ \A k \in 1 .. Len(q) : q[k] \in LineRecords /\ q[k].n \in Nat
  <1>1. Len(q) \in Nat /\ \A k \in 1 .. Len(q) : q[k] \in LineRecords
    OBVIOUS
  <1>2. \A l \in LineRecords : l.n \in Nat
    BY DEF LineRecords
  <1> QED
    BY <1>1, <1>2

\* The numbers of a session's calls and envelopes are natural.
LEMMA EnvelopeNumbers ==
    ASSUME CallsTyped
    PROVE  /\ caller.call \in Nat /\ Len(envelopes) \in Nat
           /\ \A i \in 1 .. Len(envelopes) : envelopes[i].line \in Nat
  <1>1. Len(envelopes) \in Nat /\ \A i \in 1 .. Len(envelopes) : envelopes[i] \in EnvelopeRecords
    BY DEF CallsTyped
  <1>2. \A e \in EnvelopeRecords : e.line \in Nat
    BY DEF EnvelopeRecords
  <1>3. caller.call \in Nat
    BY DEF CallsTyped, CallerRecords
  <1> QED
    BY <1>1, <1>2, <1>3

\* Nothing is read, called or answered at first.
LEMMA CallsStart == CallsInit => CallsInv
  <1> SUFFICES ASSUME CallsInit PROVE CallsInv
    OBVIOUS
  <1>0. <<>> \in Seq(LineRecords) /\ <<>> \in Seq(EnvelopeRecords)
    BY EmptySeq
  <1>1. stdin.queue = <<>> /\ stdin.next = 1 /\ stdin \in StdinRecords
    BY <1>0 DEF CallsInit, StdinRecords
  <1>2. caller \in CallerRecords /\ caller.phase = "top" /\ caller.call = 0
    <2>1. PICK redials \in BOOLEAN :
            caller = [phase |-> "top", call |-> 0, end |-> "none", flaps |-> 0, redials |-> redials, over |-> FALSE]
      BY DEF CallsInit
    <2> QED
      BY <2>1 DEF CallerRecords
  <1>3. leg \in LegRecords /\ leg.state = "none" /\ runs = {} /\ envelopes = <<>>
    BY DEF CallsInit, LegRecords, NoLeg, NoReply
  <1>4. Len(stdin.queue) = 0 /\ Len(envelopes) = 0
    BY <1>1, <1>3
  <1>5. CallsTyped
    BY <1>0, <1>1, <1>2, <1>3 DEF CallsTyped
  <1>6. QueueInOrder /\ AnswersFirst /\ RepliesMatch
    BY <1>1, <1>2, <1>4 DEF QueueInOrder, AnswersFirst, RepliesMatch
  <1>7. InSession /\ OneCall
    BY <1>2, <1>3 DEF InSession, OneCall
  <1> QED
    BY <1>5, <1>6, <1>7 DEF CallsInv

-----------------------------------------------------------------------------
\* What a loop that ends leaves behind.
LEMMA EndIs ==
    ASSUME CallsTyped, NEW how \in {"ok", "failed", "ownGrantEnded"}, CallerEnds(how)
    PROVE  /\ caller' \in CallerRecords /\ caller'.phase = "done" /\ caller'.call = 0
           /\ leg' \in LegRecords /\ leg'.state = "none"
  BY DEF CallerEnds, CallsTyped, CallerRecords, LegRecords, NoLeg, NoReply

\* What a session that is over leaves behind.
LEMMA CallEndIs ==
    ASSUME CallsTyped, NEW flap \in BOOLEAN, CallEnds(flap)
    PROVE  /\ caller' \in CallerRecords /\ caller'.phase \in {"backoff", "done"} /\ caller'.call = 0
           /\ leg' \in LegRecords /\ leg'.state \in {"none", "over"}
           /\ caller'.phase = "backoff" => leg'.id = leg.id
  <1>1. CASE ~caller.redials
    <2>1. CallerEnds("failed")
      BY <1>1 DEF CallEnds
    <2> QED
      BY <2>1, EndIs
  <1>2. CASE caller.redials
    <2>1. PICK f \in Nat : f = IF ~flap THEN 0 ELSE IF caller.flaps < CallSessions THEN caller.flaps + 1
                                                    ELSE caller.flaps
      BY DEF CallsTyped, CallerRecords
    <2>2. caller' = [caller EXCEPT !.phase = "backoff", !.call = 0, !.flaps = f]
      BY <1>2, <2>1 DEF CallEnds
    <2>3. leg' = [leg EXCEPT !.state = "over"]
      BY <1>2 DEF CallEnds
    <2> QED
      BY <2>2, <2>3 DEF CallsTyped, CallerRecords, LegRecords
  <1> QED
    BY <1>1, <1>2

\* A session that ends, or the loop with it, leaves no call and answers nothing.
LEMMA OverKeeps ==
    ASSUME CallsInv, UNCHANGED <<stdin, runs>>,
           caller' \in CallerRecords, leg' \in LegRecords, caller'.call = 0,
           caller'.phase \in {"backoff", "done"}, leg'.state \in {"none", "over"},
           caller'.phase = "backoff" => caller.phase # "done" /\ leg'.id = leg.id
    PROVE  QueueInOrder' /\ InSession' /\ OneCall'
  <1>1. CallsTyped /\ QueueInOrder /\ InSession
    BY DEF CallsInv
  <1>2. QueueInOrder'
    BY <1>1, SMTT(30) DEF QueueInOrder, CallsTyped, StdinRecords, CallerRecords, LineRecords
  <1>3. InSession' /\ OneCall'
    BY <1>1 DEF InSession, OneCall
  <1> QED
    BY <1>2, <1>3

\* The same, with nothing written.
LEMMA OverQuietly ==
    ASSUME CallsInv, UNCHANGED <<stdin, runs, envelopes>>,
           caller' \in CallerRecords, leg' \in LegRecords, caller'.call = 0,
           caller'.phase \in {"backoff", "done"}, leg'.state \in {"none", "over"},
           caller'.phase = "backoff" => caller.phase # "done" /\ leg'.id = leg.id
    PROVE  CallsInv'
  <1>1. QueueInOrder' /\ InSession' /\ OneCall'
    BY OverKeeps
  <1>2. CallsTyped' /\ AnswersFirst' /\ RepliesMatch'
    BY DEF CallsInv, CallsTyped, AnswersFirst, RepliesMatch
  <1> QED
    BY <1>1, <1>2 DEF CallsInv

\* An envelope of the call under way comes after the ones before it.
LEMMA EnvelopeGoes ==
    ASSUME CallsInv, NEW ok \in BOOLEAN, caller.call # 0, caller' \in CallerRecords, caller'.call = 0,
           UNCHANGED stdin,
           envelopes' = Append(envelopes, [line |-> caller.call, ok |-> ok, of |-> caller.call])
    PROVE  envelopes' \in Seq(EnvelopeRecords) /\ AnswersFirst' /\ RepliesMatch'
  <1>0. CallsTyped /\ QueueInOrder /\ AnswersFirst /\ RepliesMatch
    BY DEF CallsInv
  <1>1. PICK e \in EnvelopeRecords : e = [line |-> caller.call, ok |-> ok, of |-> caller.call]
    BY <1>0 DEF EnvelopeRecords, CallsTyped, CallerRecords
  <1>2. e.line = caller.call /\ e.of = caller.call
    BY <1>1
  <1>3. envelopes \in Seq(EnvelopeRecords) /\ Len(envelopes) \in Nat
    BY <1>0 DEF CallsTyped
  <1>4. envelopes' = Append(envelopes, e)
    BY <1>1
  <1>5. /\ envelopes' \in Seq(EnvelopeRecords) /\ Len(envelopes') = Len(envelopes) + 1
        /\ \A i \in 1 .. Len(envelopes) : envelopes'[i] = envelopes[i]
        /\ envelopes'[Len(envelopes) + 1] = e
    BY <1>3, <1>4, AppendProperties
  <1>6. AnswersFirst'
    BY <1>0, <1>2, <1>3, <1>5 DEF AnswersFirst, QueueInOrder
  <1>7. RepliesMatch'
    <2> SUFFICES ASSUME NEW i \in 1 .. Len(envelopes) + 1
                 PROVE  /\ envelopes'[i].of = envelopes'[i].line
                        /\ \A j \in 1 .. i - 1 : envelopes'[j].line < envelopes'[i].line
      BY <1>5 DEF RepliesMatch
    <2>1. CASE i \in 1 .. Len(envelopes)
      BY <1>0, <1>3, <1>5, <2>1 DEF RepliesMatch
    <2>2. CASE i = Len(envelopes) + 1
      BY <1>0, <1>2, <1>3, <1>5, <2>2 DEF AnswersFirst
    <2> QED
      BY <1>3, <2>1, <2>2
  <1> QED
    BY <1>5, <1>6, <1>7

-----------------------------------------------------------------------------
(* The calling side. *)

\* A line that is read comes after all the others.
LEMMA ReadKeeps == ASSUME CallsInv, ReadsStdin PROVE CallsInv'
  <1>0. CallsTyped /\ QueueInOrder /\ AnswersFirst /\ RepliesMatch /\ InSession /\ OneCall
    BY DEF CallsInv
  <1>1. UNCHANGED <<caller, leg, runs, envelopes>> /\ stdin \in StdinRecords
    BY <1>0 DEF ReadsStdin, CallsTyped
  <1>2. RepliesMatch' /\ InSession' /\ OneCall'
    BY <1>0, <1>1 DEF RepliesMatch, InSession, OneCall, NoHandler, ErrorReply
  <1>3. stdin.queue \in Seq(LineRecords) /\ Len(stdin.queue) \in Nat /\ stdin.next \in Nat
    BY <1>1 DEF StdinRecords
  <1>4. CASE \E blank \in BOOLEAN :
               stdin' = [stdin EXCEPT !.next = @ + 1, !.queue = Append(@, [n |-> stdin.next, blank |-> blank])]
    <2>1. PICK l \in LineRecords :
            l.n = stdin.next /\ stdin' = [stdin EXCEPT !.next = @ + 1, !.queue = Append(@, l)]
      BY <1>3, <1>4 DEF LineRecords
    <2>2. PICK q : q = Append(stdin.queue, l) /\ stdin' = [stdin EXCEPT !.next = @ + 1, !.queue = q]
      BY <1>1, <2>1 DEF StdinRecords
    <2>3. /\ q \in Seq(LineRecords) /\ Len(q) = Len(stdin.queue) + 1
          /\ \A i \in 1 .. Len(stdin.queue) : q[i] = stdin.queue[i]
          /\ q[Len(stdin.queue) + 1] = l
      BY <1>3, <2>2, AppendProperties
    <2>4. stdin' \in StdinRecords /\ stdin'.queue = q /\ stdin'.next = stdin.next + 1
      <3>1. stdin' = [stdin EXCEPT !.next = stdin.next + 1, !.queue = q] /\ stdin.next + 1 \in Nat
        BY <1>1, <1>3, <2>2 DEF StdinRecords
      <3> QED
        BY <1>1, <2>3, <3>1 DEF StdinRecords
    <2>5. \A i \in 1 .. Len(stdin.queue) : stdin.queue[i].n \in Nat
      BY <1>3, LineNumbers
    <2>6. caller.call \in Nat /\ \A i \in 1 .. Len(envelopes) : envelopes[i].line \in Nat
      BY <1>0, EnvelopeNumbers
    <2>7. QueueInOrder'
      BY <1>0, <1>1, <1>3, <2>1, <2>3, <2>4, <2>5, <2>6, SMTT(30) DEF QueueInOrder
    <2>8. AnswersFirst'
      BY <1>0, <1>1, <1>3, <2>1, <2>3, <2>4, <2>5, <2>6, SMTT(30) DEF AnswersFirst
    <2> QED
      BY <1>0, <1>1, <1>2, <2>4, <2>7, <2>8 DEF CallsInv, CallsTyped
  <1>5. CASE stdin' = [stdin EXCEPT !.eof = TRUE]
    <2>1. stdin' \in StdinRecords /\ stdin'.queue = stdin.queue /\ stdin'.next = stdin.next
      BY <1>1, <1>5 DEF StdinRecords
    <2>2. QueueInOrder' /\ AnswersFirst'
      BY <1>0, <1>1, <2>1 DEF QueueInOrder, AnswersFirst
    <2> QED
      BY <1>0, <1>1, <1>2, <2>1, <2>2 DEF CallsInv, CallsTyped
  <1> QED
    BY <1>4, <1>5 DEF ReadsStdin

\* A line that is taken is the first of those that are queued.
LEMMA TakeKeeps == ASSUME CallsInv, TakesLine PROVE CallsInv'
  <1>0. CallsTyped /\ QueueInOrder /\ AnswersFirst /\ RepliesMatch /\ InSession /\ OneCall
    BY DEF CallsInv
  <1>1. /\ UNCHANGED <<runs, envelopes>> /\ stdin \in StdinRecords /\ caller \in CallerRecords
        /\ leg \in LegRecords /\ caller.phase = "session" /\ caller.call = 0 /\ stdin.queue # <<>>
        /\ stdin' = [stdin EXCEPT !.queue = Tail(@)]
    BY <1>0 DEF TakesLine, CallsTyped
  <1>2. PICK q : q = stdin.queue
    OBVIOUS
  <1>3. q \in Seq(LineRecords) /\ q # <<>> /\ Len(q) \in Nat \ {0}
    BY <1>1, <1>2 DEF StdinRecords
  <1>4. PICK t : t = Tail(q)
    OBVIOUS
  <1>5. t \in Seq(LineRecords) /\ Len(t) = Len(q) - 1 /\ \A i \in 1 .. Len(t) : t[i] = q[i + 1]
    BY <1>3, <1>4, HeadTailProperties
  <1>6. stdin' \in StdinRecords /\ stdin'.queue = t /\ stdin'.next = stdin.next
    BY <1>1, <1>2, <1>4, <1>5 DEF StdinRecords
  <1>7. \A i \in 1 .. Len(q) : q[i] \in LineRecords /\ q[i].n \in Nat
    BY <1>3, LineNumbers
  <1>8. PICK h \in LineRecords : h = Head(q) /\ h = q[1]
    BY <1>3, <1>7
  <1>9. /\ h.n \in Nat /\ 0 < h.n /\ h.n < stdin.next /\ stdin.next \in Nat
        /\ \A i \in 1 .. Len(t) : 0 < t[i].n /\ h.n < t[i].n /\ t[i].n < stdin.next
        /\ \A i, m \in 1 .. Len(t) : i < m => t[i].n < t[m].n
    <2>1. \A k \in 1 .. Len(q) : /\ 0 < q[k].n /\ q[k].n < stdin.next
                                /\ \A m \in 1 .. Len(q) : k < m => q[k].n < q[m].n
      BY <1>0, <1>2 DEF QueueInOrder
    <2>2. \A i \in 1 .. Len(t) : i + 1 \in 1 .. Len(q) /\ 1 < i + 1 /\ t[i].n = q[i + 1].n
      BY <1>3, <1>5
    <2>3. 1 \in 1 .. Len(q)
      BY <1>3
    <2>4. h.n \in Nat /\ 0 < h.n /\ h.n < stdin.next /\ stdin.next \in Nat
      BY <1>1, <1>7, <1>8, <2>1, <2>3 DEF StdinRecords
    <2>5. \A i \in 1 .. Len(t) : 0 < t[i].n /\ h.n < t[i].n /\ t[i].n < stdin.next
      BY <1>8, <2>1, <2>2, <2>3
    <2>6. ASSUME NEW i \in 1 .. Len(t), NEW m \in 1 .. Len(t), i < m PROVE t[i].n < t[m].n
      <3>1. i + 1 < m + 1
        BY <1>3, <1>5, <2>6
      <3> QED
        BY <2>1, <2>2, <3>1
    <2> QED
      BY <2>4, <2>5, <2>6
  <1>10. \A i \in 1 .. Len(envelopes) :
           /\ envelopes[i].line < stdin.next /\ envelopes[i].line < h.n
           /\ \A k \in 1 .. Len(t) : envelopes[i].line < t[k].n
    <2>1. \A i \in 1 .. Len(envelopes) : /\ envelopes[i].line < stdin.next
                                         /\ \A k \in 1 .. Len(q) : envelopes[i].line < q[k].n
      BY <1>0, <1>2 DEF AnswersFirst
    <2>2. \A k \in 1 .. Len(t) : k + 1 \in 1 .. Len(q) /\ t[k].n = q[k + 1].n
      BY <1>3, <1>5
    <2>3. 1 \in 1 .. Len(q)
      BY <1>3
    <2> QED
      BY <1>8, <2>1, <2>2, <2>3
  <1>11. RepliesMatch'
    BY <1>0, <1>1 DEF RepliesMatch
  <1>12. CASE h.blank
    <2>1. UNCHANGED <<caller, leg>>
      BY <1>2, <1>8, <1>12 DEF TakesLine
    <2>2. QueueInOrder'
      <3>1. stdin'.next > 0 /\ caller'.call < stdin'.next
        BY <1>1, <1>6, <1>9, <2>1
      <3>2. \A k \in 1 .. Len(t) : /\ 0 < t[k].n /\ caller'.call < t[k].n /\ t[k].n < stdin'.next
                                  /\ \A m \in 1 .. Len(t) : k < m => t[k].n < t[m].n
        BY <1>1, <1>6, <1>9, <2>1
      <3> QED
        BY <1>6, <3>1, <3>2 DEF QueueInOrder
    <2>3. AnswersFirst'
      BY <1>1, <1>6, <1>10, <2>1 DEF AnswersFirst
    <2>4. InSession' /\ OneCall' /\ CallsTyped'
      BY <1>0, <1>1, <1>6, <2>1 DEF InSession, OneCall, NoHandler, ErrorReply, CallsTyped
    <2> QED
      BY <1>11, <2>2, <2>3, <2>4 DEF CallsInv
  <1>13. CASE ~h.blank
    <2>1. caller' = [caller EXCEPT !.call = h.n] /\ leg' = [leg EXCEPT !.req = h.n]
      BY <1>2, <1>8, <1>13 DEF TakesLine
    <2>2. /\ caller' \in CallerRecords /\ caller'.call = h.n /\ caller'.phase = "session"
          /\ leg' \in LegRecords /\ leg'.req = h.n /\ leg'.rep = leg.rep /\ leg'.id = leg.id
          /\ leg'.state = leg.state
      BY <1>1, <1>9, <2>1 DEF CallerRecords, LegRecords
    <2>3. QueueInOrder'
      <3>1. stdin'.next > 0 /\ caller'.call < stdin'.next
        BY <1>1, <1>6, <1>9, <2>2
      <3>2. \A k \in 1 .. Len(t) : /\ 0 < t[k].n /\ caller'.call < t[k].n /\ t[k].n < stdin'.next
                                  /\ \A m \in 1 .. Len(t) : k < m => t[k].n < t[m].n
        BY <1>1, <1>6, <1>9, <2>2
      <3> QED
        BY <1>6, <3>1, <3>2 DEF QueueInOrder
    <2>4. AnswersFirst'
      BY <1>1, <1>6, <1>10, <2>2 DEF AnswersFirst
    <2>5. leg.rep = 0 /\ NoHandler
      BY <1>0, <1>1 DEF OneCall, NoHandler
    <2>6. InSession' /\ OneCall' /\ CallsTyped'
      BY <1>0, <1>1, <1>6, <2>2, <2>5 DEF InSession, OneCall, NoHandler, ErrorReply, CallsTyped
    <2> QED
      BY <1>11, <2>3, <2>4, <2>6 DEF CallsInv
  <1> QED
    BY <1>12, <1>13

\* A reply is the one to the call, since nothing of an earlier session is in this one's duplex.
LEMMA AnswerKeeps == ASSUME CallsInv, AnswersLine PROVE CallsInv'
  <1>0. CallsTyped /\ QueueInOrder /\ AnswersFirst /\ RepliesMatch /\ InSession /\ OneCall
    BY DEF CallsInv
  <1>1. leg.rep = caller.call /\ leg.req = 0 /\ NoHandler
    BY <1>0 DEF AnswersLine, OneCall, NoReply
  <1>2. /\ caller' \in CallerRecords /\ caller'.call = 0 /\ caller'.phase = "session"
        /\ leg' \in LegRecords /\ leg'.rep = 0 /\ leg'.req = leg.req /\ leg'.id = leg.id
        /\ leg'.state = leg.state /\ caller.phase = "session" /\ caller.call # 0
    BY <1>0 DEF AnswersLine, CallsTyped, CallerRecords, LegRecords, NoReply
  <1>3. UNCHANGED <<stdin, runs>>
    BY DEF AnswersLine
  <1>4. envelopes' = Append(envelopes, [line |-> caller.call, ok |-> TRUE, of |-> caller.call])
    BY <1>1 DEF AnswersLine
  <1>5. envelopes' \in Seq(EnvelopeRecords) /\ AnswersFirst' /\ RepliesMatch'
    BY <1>2, <1>3, <1>4, EnvelopeGoes
  <1>6. QueueInOrder'
    BY <1>0, <1>2, <1>3 DEF QueueInOrder, CallsTyped, StdinRecords, CallerRecords, LineRecords
  <1>7. InSession' /\ OneCall'
    BY <1>0, <1>1, <1>2, <1>3 DEF InSession, OneCall, NoHandler
  <1> QED
    BY <1>0, <1>2, <1>3, <1>5, <1>6, <1>7 DEF CallsInv, CallsTyped

\* A call that fails is answered with its failure, and its session is given up.
LEMMA FailKeeps == ASSUME CallsInv, FailsLine PROVE CallsInv'
  <1>0. CallsTyped
    BY DEF CallsInv
  <1>1. PICK flap \in BOOLEAN : CallEnds(flap)
    BY DEF FailsLine
  <1>2. /\ caller' \in CallerRecords /\ caller'.phase \in {"backoff", "done"} /\ caller'.call = 0
        /\ leg' \in LegRecords /\ leg'.state \in {"none", "over"}
        /\ caller'.phase = "backoff" => leg'.id = leg.id
    BY <1>0, <1>1, CallEndIs
  <1>3. /\ UNCHANGED <<stdin, runs>> /\ caller.call # 0 /\ caller.phase = "session"
        /\ envelopes' = Append(envelopes, [line |-> caller.call, ok |-> FALSE, of |-> caller.call])
    BY DEF FailsLine
  <1>4. envelopes' \in Seq(EnvelopeRecords) /\ AnswersFirst' /\ RepliesMatch'
    BY <1>2, <1>3, EnvelopeGoes
  <1>5. QueueInOrder' /\ InSession' /\ OneCall'
    BY <1>2, <1>3, OverKeeps
  <1> QED
    BY <1>0, <1>2, <1>3, <1>4, <1>5 DEF CallsInv, CallsTyped

\* The loop dials, is admitted, loses its session, waits or comes to an end.
LEMMA LoopKeeps ==
    ASSUME CallsInv, \/ LoopHead \/ Admitted \/ SessionCloses \/ SourceEnds \/ PumpReturns \/ OwnExpires
                     \/ OwnExpiryEnds \/ BackoffOver
    PROVE  CallsInv'
  <1>0. CallsTyped /\ QueueInOrder /\ AnswersFirst /\ RepliesMatch /\ InSession /\ OneCall
    BY DEF CallsInv
  <1>1. UNCHANGED <<stdin, runs, envelopes>>
    BY DEF LoopHead, Admitted, SessionCloses, SourceEnds, PumpReturns, OwnExpires, OwnExpiryEnds, BackoffOver
  <1>2. CASE \E how \in {"ok", "failed", "ownGrantEnded"} : CallerEnds(how)
    BY <1>0, <1>1, <1>2, EndIs, OverQuietly
  <1>3. CASE caller.phase = "session" /\ \E flap \in BOOLEAN : CallEnds(flap)
    BY <1>0, <1>1, <1>3, CallEndIs, OverQuietly
  <1>4. CASE caller.phase = "top" /\ caller' = [caller EXCEPT !.phase = "session"] /\ leg' = NextLeg
    <2>1. /\ caller' \in CallerRecords /\ caller'.phase = "session" /\ caller'.call = caller.call
          /\ caller.call = 0
      BY <1>0, <1>4 DEF CallsTyped, CallerRecords, InSession
    <2>2. /\ leg' \in LegRecords /\ leg'.state = "admitting" /\ leg'.req = 0 /\ leg'.rep = 0
          /\ leg'.id = leg.id + 1 /\ leg.id \in Nat
      BY <1>0, <1>4 DEF CallsTyped, LegRecords, NextLeg, NoReply
    <2>3. \A r \in runs : r.id <= leg.id /\ r.id \in Nat
      BY <1>0, <1>4 DEF InSession, CallsTyped, RunRecords
    <2>4. \A r \in runs' : r.id <= leg'.id /\ r.id # leg'.id
      BY <1>1, <2>2, <2>3
    <2>5. InSession' /\ OneCall'
      BY <1>1, <2>1, <2>2, <2>4 DEF InSession, OneCall
    <2>6. CallsTyped' /\ QueueInOrder' /\ AnswersFirst' /\ RepliesMatch'
      BY <1>0, <1>1, <2>1, <2>2 DEF CallsTyped, QueueInOrder, AnswersFirst, RepliesMatch
    <2> QED
      BY <2>5, <2>6 DEF CallsInv
  <1>5. CASE /\ leg.state \in {"admitting", "up"} /\ UNCHANGED caller
             /\ \E to \in {"up", "draining"} : leg' = [leg EXCEPT !.state = to]
    <2>1. /\ leg' \in LegRecords /\ leg'.state \in {"up", "draining"} /\ leg'.req = leg.req
          /\ leg'.rep = leg.rep /\ leg'.id = leg.id
      BY <1>0, <1>5 DEF CallsTyped, LegRecords
    <2>2. InSession' /\ OneCall'
      BY <1>0, <1>1, <1>5, <2>1 DEF InSession, OneCall, NoHandler, ErrorReply
    <2>3. CallsTyped' /\ QueueInOrder' /\ AnswersFirst' /\ RepliesMatch'
      BY <1>0, <1>1, <1>5, <2>1 DEF CallsTyped, QueueInOrder, AnswersFirst, RepliesMatch
    <2> QED
      BY <2>2, <2>3 DEF CallsInv
  <1>6. CASE OwnExpires \/ BackoffOver
    <2>1. /\ caller' \in CallerRecords /\ caller'.call = caller.call /\ UNCHANGED leg
          /\ caller'.phase = "session" <=> caller.phase = "session"
          /\ caller'.phase = "done" <=> caller.phase = "done"
      BY <1>0, <1>6 DEF OwnExpires, BackoffOver, CallsTyped, CallerRecords
    <2>2. InSession' /\ OneCall'
      BY <1>0, <1>1, <2>1 DEF InSession, OneCall, NoHandler, ErrorReply
    <2>3. CallsTyped' /\ QueueInOrder' /\ AnswersFirst' /\ RepliesMatch'
      BY <1>0, <1>1, <2>1 DEF CallsTyped, QueueInOrder, AnswersFirst, RepliesMatch
    <2> QED
      BY <2>2, <2>3 DEF CallsInv
  <1> QED
    BY <1>2, <1>3, <1>4, <1>5, <1>6 DEF LoopHead, Admitted, SessionCloses, SourceEnds, PumpReturns,
                                        OwnExpiryEnds

-----------------------------------------------------------------------------
(* The serving side. *)

\* What the caller's own side needs is not touched.
LEMMA ServingKeeps ==
    ASSUME CallsInv, UNCHANGED <<stdin, caller, envelopes>>, leg' \in LegRecords, runs' \subseteq RunRecords,
           InSession', OneCall'
    PROVE  CallsInv'
  BY DEF CallsInv, CallsTyped, QueueInOrder, AnswersFirst, RepliesMatch

\* A request leaves the duplex for one handler, or comes back as an error.
LEMMA ServeKeeps == ASSUME CallsInv, ServeTakes PROVE CallsInv'
  <1>0. CallsTyped /\ InSession /\ OneCall /\ UNCHANGED <<stdin, caller, envelopes>>
    BY DEF CallsInv, ServeTakes
  <1>1. /\ leg \in LegRecords /\ runs \subseteq RunRecords /\ caller.phase = "session" /\ leg.state = "up"
        /\ leg.req # 0 /\ leg.req = caller.call /\ leg.rep = 0 /\ NoHandler
    BY <1>0 DEF ServeTakes, CallsTyped, InSession, OneCall
  <1>2. \A r \in runs : r.id <= leg.id
    BY <1>0, <1>1 DEF InSession
  <1>3. CASE /\ runs' = runs \cup {[id |-> leg.id, line |-> leg.req, shell |-> "running", kid |-> "none", age |-> 0]}
             /\ leg' = [leg EXCEPT !.req = 0]
    <2>1. PICK r \in RunRecords : r.id = leg.id /\ r.line = leg.req /\ runs' = runs \cup {r}
      BY <1>1, <1>3 DEF RunRecords, LegRecords
    <2>2. /\ leg' \in LegRecords /\ leg'.req = 0 /\ leg'.rep = 0 /\ leg'.id = leg.id /\ leg'.state = "up"
      BY <1>1, <1>3 DEF LegRecords
    <2>3. leg.id \in Nat
      BY <1>1 DEF LegRecords
    <2>4. InSession'
      BY <1>0, <1>1, <1>2, <2>1, <2>2, <2>3 DEF InSession
    <2>5. OneCall'
      BY <1>0, <1>1, <2>1, <2>2 DEF OneCall, NoHandler
    <2> QED
      BY <1>0, <1>1, <2>1, <2>2, <2>4, <2>5, ServingKeeps
  <1>4. CASE leg' = [leg EXCEPT !.req = 0, !.rep = ErrorReply] /\ UNCHANGED runs
    <2>1. ErrorReply \in Nat
      BY CallsAssumption DEF ErrorReply
    <2>2. /\ leg' \in LegRecords /\ leg'.req = 0 /\ leg'.rep = ErrorReply /\ leg'.id = leg.id /\ leg'.state = "up"
      BY <1>1, <1>4, <2>1 DEF LegRecords
    <2>3. InSession'
      BY <1>0, <1>1, <1>4, <2>2 DEF InSession
    <2>4. OneCall'
      BY <1>0, <1>1, <1>4, <2>2 DEF OneCall, NoHandler, ErrorReply
    <2> QED
      BY <1>0, <1>1, <1>4, <2>2, <2>3, <2>4, ServingKeeps
  <1> QED
    BY <1>3, <1>4 DEF ServeTakes

\* A handler that goes on is still the handler of its line.
LEMMA RunGoesOn ==
    ASSUME CallsInv, NEW r \in runs, NEW s \in RunRecords, s.id = r.id, s.line = r.line, Becomes(r, s)
    PROVE  CallsInv'
  <1>0. CallsTyped /\ InSession /\ OneCall
    BY DEF CallsInv
  <1>1. UNCHANGED <<stdin, caller, leg, envelopes>> /\ runs' = (runs \ {r}) \cup {s}
    BY DEF Becomes
  <1>2. InSession'
    BY <1>0, <1>1 DEF InSession
  <1>3. OneCall'
    BY <1>0, <1>1 DEF OneCall, NoHandler, ErrorReply
  <1>4. runs' \subseteq RunRecords /\ leg' \in LegRecords
    BY <1>0, <1>1 DEF CallsTyped
  <1> QED
    BY <1>1, <1>2, <1>3, <1>4, ServingKeeps

\* A handler returns to the session that asked, with its line's reply or an error, or to nobody.
LEMMA ReturnKeeps ==
    ASSUME CallsInv, NEW r \in runs, NEW reply \in {ErrorReply, r.line}, Returns(r, reply)
    PROVE  CallsInv'
  <1>0. CallsTyped /\ InSession /\ OneCall
    BY DEF CallsInv
  <1>1. /\ UNCHANGED <<stdin, caller, envelopes>> /\ runs' = runs \ {r}
        /\ leg' = IF leg.id = r.id /\ leg.state = "up" THEN [leg EXCEPT !.rep = reply] ELSE leg
    BY DEF Returns
  <1>2. leg \in LegRecords /\ runs' \subseteq RunRecords /\ r \in RunRecords
    BY <1>0, <1>1 DEF CallsTyped
  <1>3. CASE leg.id = r.id /\ leg.state = "up"
    <2>1. ErrorReply \in Nat /\ r.line \in Nat
      BY <1>2, CallsAssumption DEF ErrorReply, RunRecords
    <2>2. /\ leg' \in LegRecords /\ leg'.rep = reply /\ leg'.req = leg.req /\ leg'.id = leg.id
          /\ leg'.state = "up"
      BY <1>1, <1>2, <1>3, <2>1 DEF LegRecords
    <2>3. caller.phase = "session"
      BY <1>0, <1>3 DEF InSession
    <2>4. r.line = caller.call /\ caller.call # 0 /\ leg.req = 0 /\ \A s \in runs : s.id = leg.id => s = r
      BY <1>0, <1>3, <2>3 DEF OneCall, NoHandler
    <2>5. \A s \in runs' : s.id # leg'.id
      BY <1>1, <2>2, <2>4
    <2>6. InSession'
      BY <1>0, <1>1, <1>3, <2>2 DEF InSession
    <2>7. OneCall'
      BY <1>1, <2>2, <2>3, <2>4, <2>5 DEF OneCall, NoHandler, ErrorReply
    <2> QED
      BY <1>1, <1>2, <2>2, <2>6, <2>7, ServingKeeps
  <1>4. CASE ~(leg.id = r.id /\ leg.state = "up")
    <2>1. UNCHANGED leg
      BY <1>1, <1>4
    <2>2. InSession' /\ OneCall'
      BY <1>0, <1>1, <2>1 DEF InSession, OneCall, NoHandler, ErrorReply
    <2> QED
      BY <1>1, <1>2, <2>1, <2>2, ServingKeeps
  <1> QED
    BY <1>3, <1>4

\* Every handler grows older, and is otherwise what it was.
LEMMA CallsTickKeeps == ASSUME CallsInv, CallsTick PROVE CallsInv'
  <1>0. CallsTyped /\ InSession /\ OneCall
    BY DEF CallsInv
  <1>1. UNCHANGED <<stdin, caller, leg, envelopes>> /\ runs' = {[r EXCEPT !.age = @ + 1] : r \in runs}
    BY DEF CallsTick
  <1>2. \A s \in runs' : \E r \in runs :
          s = [r EXCEPT !.age = @ + 1] /\ s \in RunRecords /\ s.id = r.id /\ s.line = r.line
    BY <1>0, <1>1, SMTT(30) DEF CallsTyped, RunRecords
  <1>3. InSession'
    BY <1>0, <1>1, <1>2 DEF InSession
  <1>4. OneCall'
    BY <1>0, <1>1, <1>2 DEF OneCall, NoHandler, ErrorReply
  <1>5. runs' \subseteq RunRecords /\ leg' \in LegRecords
    BY <1>0, <1>1, <1>2 DEF CallsTyped
  <1> QED
    BY <1>1, <1>3, <1>4, <1>5, ServingKeeps

\* Every step keeps the invariant.
LEMMA CallsKeep == CallsInv /\ [CallsNext]_callVars => CallsInv'
  <1> SUFFICES ASSUME CallsInv, [CallsNext]_callVars PROVE CallsInv'
    OBVIOUS
  <1>1. CASE \E r \in runs : \/ KidStarts(r) \/ KidLetsGo(r) \/ HandlerReturns(r) \/ HandlerTimesOut(r)
                             \/ \E how \in {"printed", "nothing"} : ShellExits(r, how)
    <2>1. PICK r \in runs : \/ KidStarts(r) \/ KidLetsGo(r) \/ HandlerReturns(r) \/ HandlerTimesOut(r)
                            \/ \E how \in {"printed", "nothing"} : ShellExits(r, how)
      BY <1>1
    <2>2. r \in RunRecords
      BY DEF CallsInv, CallsTyped
    <2>3. CASE KidStarts(r) \/ KidLetsGo(r) \/ \E how \in {"printed", "nothing"} : ShellExits(r, how)
      <3>1. PICK s \in RunRecords : s.id = r.id /\ s.line = r.line /\ Becomes(r, s)
        BY <2>2, <2>3 DEF KidStarts, KidLetsGo, ShellExits, RunRecords
      <3> QED
        BY <3>1, RunGoesOn
    <2>4. CASE HandlerReturns(r)
      BY <2>4, ReturnKeeps DEF HandlerReturns
    <2>5. CASE HandlerTimesOut(r)
      BY <2>5, ReturnKeeps DEF HandlerTimesOut
    <2> QED
      BY <2>1, <2>3, <2>4, <2>5
  <1>2. CASE UNCHANGED callVars
    BY <1>2 DEF callVars, CallsInv, CallsTyped, QueueInOrder, AnswersFirst, RepliesMatch, InSession, OneCall,
                NoHandler, ErrorReply
  <1> QED
    BY <1>1, <1>2, ReadKeeps, TakeKeeps, AnswerKeeps, FailKeeps, LoopKeeps, ServeKeeps, CallsTickKeeps
       DEF CallsNext

\* For any number of lines, sessions and handlers, and any time limit: a line is answered at most
\* once, in order, and with the reply to itself, whatever handlers of earlier sessions still print
\* (call_role_service and its redial loop, serve_local).
THEOREM RepliesAlwaysMatch == CallsSpec => []RepliesMatch
  <1>1. CallsInv => RepliesMatch
    BY DEF CallsInv
  <1> QED
    BY <1>1, CallsStart, CallsKeep, PTL DEF CallsSpec

-----------------------------------------------------------------------------
(* The joins that may upgrade (DcutrJoin).  Time passes only when nothing is due, so a serving       *)
(* member's clock stands at its expiry until the round is being closed, and the closing has an end.  *)

KnobRecords == [serve : BOOLEAN, upgrade : BOOLEAN, role : {"initiate", "accept"}, pin : BOOLEAN, expires : GrantEnds]
JoinRecords == [at : Running \cup {"top", "teardown", "wait", "ended"}, peer : {"none", "partner", "other"},
                path : {"none", "relay", "offered", "stayed", "direct"}, until : Nat]
TryRecords == [attempt : Nat, refusals : Nat, dials : 0 .. MaxDials]

WithinGrant ==
    knob.serve =>
        /\ join.at \notin {"teardown", "ended"} => hour <= knob.expires
        /\ join.at = "teardown" => hour <= join.until /\ join.until <= knob.expires + Teardown

DcutrInv == DcutrTypeOK /\ DriverHasSession /\ WithinGrant

\* What is known of a step that leaves the clock and the configuration alone.
LEMMA RoundKeeps ==
    ASSUME DcutrInv, UNCHANGED <<knob, hour>>, join' \in JoinRecords, tries' \in TryRecords, swarm' \in BOOLEAN,
           swarm' => join'.at \in {"reserve", "session", "teardown"},
           join'.at \notin {"teardown", "ended"} => join.at \notin {"teardown", "ended"},
           join'.at = "teardown" => hour <= join'.until
                                    /\ (knob.serve => join'.until <= knob.expires + Teardown)
    PROVE  DcutrInv'
  BY DEF DcutrInv, DcutrTypeOK, DriverHasSession, WithinGrant, JoinRecords, TryRecords

\* The parts have their types.
LEMMA DcutrTyped ==
    ASSUME DcutrInv
    PROVE  /\ knob \in KnobRecords /\ join \in JoinRecords /\ tries \in TryRecords
           /\ swarm \in BOOLEAN /\ hour \in Nat /\ knob.expires \in Nat
  BY DcutrAssumption DEF DcutrInv, DcutrTypeOK, KnobRecords, JoinRecords, TryRecords

\* A round's first place, and a wait of any length.
LEMMA JoinPlaces ==
    /\ \A place \in Running \cup {"top", "teardown", "wait", "ended"} :
          JoinAt(place) \in JoinRecords /\ JoinAt(place).at = place
    /\ \A t \in Nat : SleepsUntil(t) \in JoinRecords /\ SleepsUntil(t).at = "wait"
  BY DEF JoinAt, SleepsUntil, NoJoin, JoinRecords, Running

\* A wait is a number of seconds.
LEMMA PausesAreNumbers == ASSUME NEW n \in Nat, NEW d \in Pauses(n) PROVE d \in Nat
  BY DcutrAssumption DEF Pauses

\* A round that ends.
LEMMA ConcludeKeeps ==
    ASSUME DcutrInv, NEW kind, Concludes(kind), join.at \notin {"teardown", "ended"}
    PROVE  DcutrInv'
  <1>1. NoTries \in TryRecords /\ tries.refusals \in Nat /\ tries.attempt \in Nat /\ hour \in Nat
    BY DcutrTyped, DcutrAssumption DEF NoTries, TryRecords
  <1>2. tries' \in TryRecords
    <2>1. /\ [NoTries EXCEPT !.refusals = tries.refusals + 1] \in TryRecords
          /\ [NoTries EXCEPT !.refusals = 0] \in TryRecords
          /\ [NoTries EXCEPT !.refusals = @ + 1] \in TryRecords
          /\ [NoTries EXCEPT !.attempt = tries.attempt + 1] \in TryRecords
      BY <1>1, DcutrAssumption DEF NoTries, TryRecords
    <2> QED
      BY <1>1, <2>1 DEF Concludes
  <1>3. join' \in JoinRecords /\ join'.at \in {"ended", "wait"}
    <2>1. CASE \E t \in Nat : join' = SleepsUntil(t)
      BY <2>1, JoinPlaces
    <2>2. CASE join' = JoinAt("ended")
      BY <2>2, JoinPlaces
    <2>3. ASSUME NEW n \in Nat, NEW d \in Pauses(n) PROVE hour + d \in Nat
      BY <1>1, <2>3, PausesAreNumbers
    <2>4. (\E t \in Nat : join' = SleepsUntil(t)) \/ join' = JoinAt("ended")
      <3>1. CASE knob.serve /\ kind = "expired" /\ join' = SleepsUntil(hour + 0)
        BY <1>1, <3>1
      <3>2. CASE \E n \in Nat : \E d \in Pauses(n) : join' = SleepsUntil(hour + d)
        BY <2>3, <3>2
      <3>3. CASE join' = SleepsUntil(hour + 1) \/ join' = SleepsUntil(hour + 0)
        BY <1>1, <3>3
      <3> QED
        BY <1>1, <3>1, <3>2, <3>3 DEF Concludes
    <2> QED
      BY <2>1, <2>2, <2>4
  <1>4. swarm' = FALSE /\ UNCHANGED <<knob, hour>>
    BY DEF Concludes, GuardDrops
  <1> QED
    BY <1>2, <1>3, <1>4, RoundKeeps

\* The loop around the rounds.
LEMMA DcutrLoopKeeps ==
    ASSUME DcutrInv, RoundStarts \/ DialSucceeds \/ DialFails \/ Wakes \/ ExpiryCuts \/ TeardownOver
    PROVE  DcutrInv'
  <1>0. /\ join \in JoinRecords /\ tries \in TryRecords /\ swarm \in BOOLEAN /\ hour \in Nat /\ knob.expires \in Nat
        /\ swarm => join.at \in {"reserve", "session", "teardown"}
    BY DcutrTyped DEF DcutrInv, DriverHasSession
  <1>1. CASE RoundStarts \/ DialSucceeds \/ Wakes
    <2>1. join'.at \in {"ended", "dial", "parked", "top"} /\ join' \in JoinRecords
      BY <1>1, JoinPlaces DEF RoundStarts, DialSucceeds, Wakes, Running
    <2>2. join.at \in {"top", "dial", "wait"} /\ UNCHANGED <<knob, tries, swarm, hour>>
      BY <1>1 DEF RoundStarts, DialSucceeds, Wakes
    <2> QED
      BY <1>0, <2>1, <2>2, RoundKeeps
  <1>2. CASE DialFails
    <2>1. join.at = "dial" /\ UNCHANGED <<knob, swarm, hour>>
      BY <1>2 DEF DialFails
    <2>2. tries.dials \in Nat /\ tries.dials + 1 - 1 = tries.dials
      BY <1>0, DcutrAssumption DEF TryRecords
    <2>3. CASE knob.serve /\ tries.dials + 1 < MaxDials
      <3>1. PICK d \in Pauses(tries.dials) : join' = SleepsUntil(hour + d)
        BY <1>2, <2>2, <2>3 DEF DialFails
      <3>2. hour + d \in Nat
        BY <1>0, <2>2, PausesAreNumbers
      <3>3. join' \in JoinRecords /\ join'.at = "wait"
        BY <3>1, <3>2, JoinPlaces
      <3>4. tries' \in TryRecords
        <4>1. PICK n \in 0 .. MaxDials : n = tries.dials + 1
          BY <2>2, <2>3, DcutrAssumption
        <4>2. tries' = [tries EXCEPT !.dials = n]
          BY <1>2, <2>3, <4>1 DEF DialFails
        <4> QED
          BY <1>0, <4>2 DEF TryRecords
      <3> QED
        BY <1>0, <2>1, <3>3, <3>4, RoundKeeps
    <2>4. CASE ~(knob.serve /\ tries.dials + 1 < MaxDials)
      <3>1. join' = JoinAt("ended") /\ tries' = NoTries
        BY <1>2, <2>4 DEF DialFails
      <3>2. join' \in JoinRecords /\ join'.at = "ended" /\ tries' \in TryRecords
        BY <3>1, JoinPlaces, DcutrAssumption DEF NoTries, TryRecords
      <3> QED
        BY <1>0, <2>1, <3>2, RoundKeeps
    <2> QED
      BY <2>3, <2>4
  <1>3. CASE ExpiryCuts
    <2>1. /\ join.at \in Running /\ knob.serve /\ hour >= knob.expires
          /\ UNCHANGED <<knob, tries, swarm, hour>>
      BY <1>3 DEF ExpiryCuts, Expired
    <2>2. PICK u \in Nat : u = hour + Teardown
      BY <1>0, DcutrAssumption
    <2>3. join' = [join EXCEPT !.at = "teardown", !.until = u]
      BY <1>3, <2>2 DEF ExpiryCuts
    <2>4. join' \in JoinRecords /\ join'.at = "teardown" /\ join'.until = u
      BY <1>0, <2>3 DEF JoinRecords
    <2>5. hour <= knob.expires
      BY <2>1 DEF DcutrInv, WithinGrant, Running
    <2>6. hour <= u /\ u <= knob.expires + Teardown
      BY <1>0, <2>1, <2>2, <2>5, DcutrAssumption
    <2> QED
      BY <1>0, <2>1, <2>4, <2>6, RoundKeeps
  <1>4. CASE TeardownOver
    <2>1. /\ join' = JoinAt("ended") /\ tries' = NoTries /\ swarm' = FALSE /\ UNCHANGED <<knob, hour>>
      BY <1>4 DEF TeardownOver, GuardDrops
    <2>2. join' \in JoinRecords /\ join'.at = "ended" /\ tries' \in TryRecords
      BY <2>1, JoinPlaces, DcutrAssumption DEF NoTries, TryRecords
    <2> QED
      BY <2>1, <2>2, RoundKeeps
  <1> QED
    BY <1>1, <1>2, <1>3, <1>4

\* The steps of a round.
LEMMA DcutrRoundKeeps ==
    ASSUME DcutrInv,
           \/ AdmissionEnds \/ (\E p \in {"partner", "other"} : AdmittedUpgrading(p) \/ AdmittedDeclining(p))
           \/ GateOpens \/ GateFails \/ Reserved \/ ReserveFails
           \/ OfferTaken \/ Upgrades \/ UpgradeFails \/ SessionReturns
    PROVE  DcutrInv'
  <1>0. /\ join \in JoinRecords /\ tries \in TryRecords /\ swarm \in BOOLEAN /\ hour \in Nat
        /\ swarm => join.at \in {"reserve", "session", "teardown"}
    BY DcutrTyped DEF DcutrInv, DriverHasSession
  <1>1. CASE AdmissionEnds \/ GateFails \/ ReserveFails \/ SessionReturns
    BY <1>1, ConcludeKeeps DEF AdmissionEnds, GateFails, ReserveFails, SessionReturns
  <1>2. ASSUME NEW p \in {"partner", "other"}, AdmittedUpgrading(p) \/ AdmittedDeclining(p) PROVE DcutrInv'
    <2>1. CASE Concludes("transient")
      BY <1>2, <2>1, ConcludeKeeps DEF AdmittedUpgrading, AdmittedDeclining
    <2>2. CASE ~Concludes("transient")
      <3>1. /\ join.at = "parked" /\ UNCHANGED <<knob, tries, swarm, hour>>
            /\ \E at \in {"gate", "session"} : join' = [join EXCEPT !.at = at, !.peer = p, !.path = "relay"]
        BY <1>2, <2>2 DEF AdmittedUpgrading, AdmittedDeclining
      <3>2. join' \in JoinRecords /\ join'.at \in {"gate", "session"}
        BY <1>0, <3>1 DEF JoinRecords, Running
      <3> QED
        BY <1>0, <3>1, <3>2, RoundKeeps
    <2> QED
      BY <2>1, <2>2
  <1>3. CASE GateOpens
    <2>1. PICK u \in Nat : u = hour + SetupBound
      BY <1>0, DcutrAssumption
    <2>2. /\ join.at = "gate" /\ UNCHANGED <<knob, tries, hour>> /\ swarm' \in BOOLEAN
          /\ \/ join' = [join EXCEPT !.at = "reserve", !.until = u]
             \/ join' = [join EXCEPT !.at = "session"]
      BY <1>0, <1>3, <2>1 DEF GateOpens
    <2>3. join' \in JoinRecords /\ join'.at \in {"reserve", "session"}
      BY <1>0, <2>2 DEF JoinRecords, Running
    <2> QED
      BY <1>0, <2>2, <2>3, RoundKeeps
  <1>4. CASE Reserved
    <2>1. join.at = "reserve" /\ join' = [join EXCEPT !.at = "session", !.until = 0] /\ UNCHANGED <<knob, tries, swarm, hour>>
      BY <1>4 DEF Reserved
    <2>2. join' \in JoinRecords /\ join'.at = "session"
      BY <1>0, <2>1 DEF JoinRecords, Running
    <2> QED
      BY <1>0, <2>1, <2>2, RoundKeeps
  <1>5. CASE OfferTaken \/ Upgrades \/ UpgradeFails
    <2>1. PICK u \in Nat : u = hour + SetupBound
      BY <1>0, DcutrAssumption
    <2>2. /\ join.at = "session" /\ UNCHANGED <<knob, tries, hour>> /\ swarm' \in BOOLEAN
          /\ \E path \in {"offered", "direct", "stayed"} : \E v \in {u, 0} :
                join' = [join EXCEPT !.path = path, !.until = v]
      <3>1. CASE OfferTaken
        BY <1>0, <2>1, <3>1 DEF OfferTaken
      <3>2. CASE Upgrades
        BY <1>0, <3>2 DEF Upgrades
      <3>3. CASE UpgradeFails
        BY <1>0, <3>3 DEF UpgradeFails
      <3> QED
        BY <1>5, <3>1, <3>2, <3>3
    <2>3. join' \in JoinRecords /\ join'.at = "session"
      <3>1. PICK path \in {"offered", "direct", "stayed"}, v \in Nat : join' = [join EXCEPT !.path = path, !.until = v]
        BY <2>2
      <3> QED
        BY <1>0, <2>2, <3>1 DEF JoinRecords
    <2> QED
      BY <1>0, <2>2, <2>3, RoundKeeps
  <1> QED
    BY <1>1, <1>2, <1>3, <1>4, <1>5

\* Time passes.
LEMMA DcutrTickKeeps == ASSUME DcutrInv, DcutrTick PROVE DcutrInv'
  <1>0. /\ join \in JoinRecords /\ hour \in Nat /\ knob.expires \in Nat
        /\ ~DcutrDue /\ join.at # "ended" /\ hour' = hour + 1 /\ UNCHANGED <<knob, join, tries, swarm>>
    BY DcutrTyped DEF DcutrTick
  <1>1. DcutrTypeOK' /\ DriverHasSession'
    BY <1>0 DEF DcutrInv, DcutrTypeOK, DriverHasSession
  <1>2. ASSUME knob.serve, join.at \notin {"teardown", "ended"} PROVE hour < knob.expires
    <2>1. join.at \in Running \cup {"top", "wait"}
      BY <1>0, <1>2 DEF JoinRecords, Running
    <2> QED
      BY <1>0, <1>2, <2>1 DEF DcutrDue, Expired
  <1>3. ASSUME join.at = "teardown" PROVE hour < join.until /\ join.until \in Nat
    BY <1>0, <1>3 DEF DcutrDue, JoinRecords
  <1>4. WithinGrant'
    BY <1>0, <1>2, <1>3 DEF DcutrInv, WithinGrant
  <1> QED
    BY <1>1, <1>4 DEF DcutrInv

\* Every step keeps the invariant.
LEMMA DcutrKeeps == DcutrInv /\ [DcutrNext]_dcutrVars => DcutrInv'
  <1> SUFFICES ASSUME DcutrInv, [DcutrNext]_dcutrVars PROVE DcutrInv'
    OBVIOUS
  <1>1. CASE UNCHANGED dcutrVars
    BY <1>1 DEF dcutrVars, DcutrInv, DcutrTypeOK, DriverHasSession, WithinGrant
  <1> QED
    BY <1>1, DcutrLoopKeeps, DcutrRoundKeeps, DcutrTickKeeps DEF DcutrNext

\* For any bounds and any expiry: a serving member is gone once its grant is over by the teardown
\* budget, whatever the expiry falls into, and no swarm driver outlives the round that holds its guard
\* (run_dcutr_join_loop, backoff_within_grant, TaskGuard).
THEOREM AlwaysLeavesNothing == DcutrSpec => []LeavesNothing
  <1>1. DcutrInit => DcutrInv
    <2> SUFFICES ASSUME DcutrInit PROVE DcutrInv
      OBVIOUS
    <2>1. knob \in KnobRecords /\ join = NoJoin /\ tries = NoTries /\ swarm = FALSE /\ hour = 0
      BY DEF DcutrInit, KnobRecords
    <2>2. NoJoin \in JoinRecords /\ NoJoin.at = "top" /\ NoTries \in TryRecords /\ knob.expires \in Nat
      <3>1. NoJoin \in JoinRecords /\ NoJoin.at = "top"
        BY DEF NoJoin, JoinRecords
      <3>2. NoTries \in TryRecords
        BY DcutrAssumption DEF NoTries, TryRecords
      <3>3. knob.expires \in Nat
        BY <2>1, DcutrAssumption DEF KnobRecords
      <3> QED
        BY <3>1, <3>2, <3>3
    <2>3. DcutrTypeOK
      BY <2>1, <2>2 DEF DcutrTypeOK, KnobRecords, JoinRecords, TryRecords
    <2>4. DriverHasSession /\ WithinGrant
      BY <2>1, <2>2 DEF DriverHasSession, WithinGrant
    <2> QED
      BY <2>3, <2>4 DEF DcutrInv
  <1>2. DcutrInv => LeavesNothing
    <2> SUFFICES ASSUME DcutrInv PROVE LeavesNothing
      OBVIOUS
    <2>1. GoneWithGrant
      BY DcutrTyped, DcutrAssumption DEF DcutrInv, WithinGrant, GoneWithGrant, JoinRecords
    <2> QED
      BY <2>1 DEF DcutrInv, LeavesNothing
  <1> QED
    BY <1>1, <1>2, DcutrKeeps, PTL DEF DcutrSpec

-----------------------------------------------------------------------------
(* The joins (ChannelJoin).  What is said of a join depends on its ends, on the legs that wait at the      *)
(* relay open, on the dials the listener holds and on the mishaps, and on nothing else of the two queues   *)
(* than that nobody stands in one twice; of the closed legs nothing is said.                               *)

EndRecords == [at : Places, with : Ends \cup {Nobody}, on : Ends \cup {Nobody, Lost}]

\* Who is in a queue, and once.
InLine(q) == {q[i] : i \in 1..Len(q)}
OpenIn(q) == {x \in Ends : \E i \in 1..Len(q) : q[i] = Leg(x)}
Once(q) == \A i, j \in 1..Len(q) : q[i].open /\ q[i] = q[j] => i = j
OnceDialled(q) == \A i, j \in 1..Len(q) : q[i] = q[j] /\ q[i] # Gone => i = j

\* A leg that waits belongs to a join that waits for it, and is not spliced.
LegsWait(en, W) == \A x \in W : x \in Ends /\ en[x].at \in {"relay", "race"} /\ en[x].on = Nobody

\* A transport is held from the splice or the accept on.
TransportsHeld(en) == \A e \in Ends : en[e].on # Nobody => en[e].at \in {"relay", "race", "shake", "session"}

\* A dial at the listener is one its caller still waits for, or one given up.
DialsAwaited(en, B, m) == (\A x \in B : x # Gone => x \in Callers /\ en[x].at = "dial") /\ (~m => Gone \notin B)

\* A slot the acceptor does not have takes part in nothing.
SlotsUnused(en) == \A s \in JoinSlots : s \notin setup.slots => en[s].at = "out"

\* A session runs as admitted.
AsAdmitted(en) == \A s \in JoinSlots : en[s].at = "session" /\ en[s].on # Lost => en[s].on = en[s].with /\ en[s].on \in Pinned

\* With one slot and no mishap, a caller on its way is the one the slot was paired with, and the slot is on its way too.
OnItsWay(en, W, c) == en[c].at \in {"admitted", "dial"} \/ c \in W
PairedAlone(en, W, m) ==
    \A s \in JoinSlots : setup.slots = {s} /\ ~m =>
        \A c \in Callers : OnItsWay(en, W, c) =>
            /\ en[s].at \in {"admitted", "accept", "race", "relay"} /\ en[s].on = Nobody
            /\ en[s].with = c /\ en[c].with = s

JoinPlaced(en, W, B, m) ==
    /\ LegsWait(en, W) /\ TransportsHeld(en) /\ DialsAwaited(en, B, m)
    /\ SlotsUnused(en) /\ AsAdmitted(en) /\ PairedAlone(en, W, m)

JoinInv ==
    /\ setup \in [slots : SUBSET JoinSlots, mode : Modes]
    /\ ends \in [Ends -> EndRecords]
    /\ backlog \in Seq(Callers \cup {Gone}) /\ OnceDialled(backlog)
    /\ queue \in Seq(Legs) /\ Once(queue)
    /\ pairs \in 0..Joins /\ mishap \in BOOLEAN
    /\ JoinPlaced(ends, OpenIn(queue), InLine(backlog), mishap)

-----------------------------------------------------------------------------
(* The queues. *)

\* An end is known from what stands for one that is gone.
LEMMA EndsApart ==
    /\ Nobody \notin Ends /\ Lost \notin Ends /\ Lost # Nobody /\ Gone \notin Callers /\ "acceptor" \notin Callers
    /\ \A e \in Ends : e \in Callers \/ e \in JoinSlots
    /\ \A c \in Callers : c \notin JoinSlots /\ c \in Ends
    /\ \A s \in JoinSlots : s \notin Callers /\ s \in Ends
  BY JoinAssumption DEF Ends, Lost, Gone

\* One more leg.
LEMMA OneMoreInLine ==
    ASSUME NEW S, NEW q \in Seq(S), NEW e \in S, e \notin InLine(q)
    PROVE  Append(q, e) \in Seq(S) /\ InLine(Append(q, e)) = InLine(q) \cup {e}
           /\ (OnceDialled(q) => OnceDialled(Append(q, e)))
  <1>1. PICK a : a = Append(q, e)
    OBVIOUS
  <1>2. a \in Seq(S) /\ Len(q) \in Nat /\ Len(a) = Len(q) + 1 /\ a[Len(q) + 1] = e
    BY <1>1
  <1>3. \A i \in 1..Len(q) : a[i] = q[i]
    BY <1>1
  <1>4. \A i \in 1..Len(a) : (i \in 1..Len(q) /\ a[i] = q[i]) \/ (i = Len(q) + 1 /\ a[i] = e)
    BY <1>2, <1>3
  <1>5. \A i \in 1..Len(q) : q[i] # e
    BY DEF InLine
  <1>6. InLine(a) = InLine(q) \cup {e}
    <2>1. ASSUME NEW x \in InLine(a) PROVE x \in InLine(q) \cup {e}
      BY <1>4 DEF InLine
    <2>2. ASSUME NEW x \in InLine(q) PROVE x \in InLine(a)
      <3>1. PICK i \in 1..Len(q) : x = q[i]
        BY DEF InLine
      <3>2. i \in 1..Len(a) /\ a[i] = x
        BY <1>2, <1>3, <3>1
      <3> QED
        BY <3>2 DEF InLine
    <2>3. e \in InLine(a)
      <3>1. Len(q) + 1 \in 1..Len(a)
        BY <1>2
      <3> QED
        BY <1>2, <3>1 DEF InLine
    <2> QED
      BY <2>1, <2>2, <2>3
  <1>8. OnceDialled(q) => OnceDialled(a)
    BY <1>4, <1>5 DEF OnceDialled
  <1> QED
    BY <1>1, <1>2, <1>6, <1>8

\* A leg is known by its end and by whether it is open.
LEMMA LegIs ==
    /\ \A e \in Ends : Leg(e) \in Legs /\ Leg(e).open = TRUE /\ Leg(e).of = e
    /\ \A l \in Legs : l.of \in Ends /\ l.open \in BOOLEAN /\ (l.open => l = Leg(l.of))
    /\ \A d, e \in Ends : Leg(d) = Leg(e) => d = e
  BY DEF Leg, Legs

\* One more leg.
LEMMA OneMoreLeg ==
    ASSUME NEW q \in Seq(Legs), Once(q), NEW e \in Ends, e \notin OpenIn(q)
    PROVE  Append(q, Leg(e)) \in Seq(Legs) /\ Once(Append(q, Leg(e))) /\ OpenIn(Append(q, Leg(e))) = OpenIn(q) \cup {e}
  <1>1. PICK l \in Legs : l = Leg(e)
    BY LegIs
  <1>2. PICK a : a = Append(q, l)
    OBVIOUS
  <1>3. a \in Seq(Legs) /\ Len(q) \in Nat /\ Len(a) = Len(q) + 1 /\ a[Len(q) + 1] = l /\ \A i \in 1..Len(q) : a[i] = q[i]
    BY <1>2
  <1>4. \A i \in 1..Len(a) : (i \in 1..Len(q) /\ a[i] = q[i]) \/ (i = Len(q) + 1 /\ a[i] = l)
    BY <1>3
  <1>5. \A i \in 1..Len(q) : q[i] # l
    BY <1>1 DEF OpenIn
  <1>6. OpenIn(a) = OpenIn(q) \cup {e}
    <2>1. ASSUME NEW x \in OpenIn(a) PROVE x \in OpenIn(q) \cup {e}
      <3>1. x \in Ends /\ \E i \in 1..Len(a) : a[i] = Leg(x)
        BY DEF OpenIn
      <3>2. PICK i \in 1..Len(a) : a[i] = Leg(x)
        BY <3>1
      <3>3. CASE i \in 1..Len(q) /\ a[i] = q[i]
        BY <3>1, <3>2, <3>3 DEF OpenIn
      <3>4. CASE a[i] = l
        BY <1>1, <3>1, <3>2, <3>4, LegIs
      <3> QED
        BY <1>4, <3>3, <3>4
    <2>2. ASSUME NEW x \in OpenIn(q) PROVE x \in OpenIn(a)
      <3>1. x \in Ends /\ \E i \in 1..Len(q) : q[i] = Leg(x)
        BY DEF OpenIn
      <3>2. PICK i \in 1..Len(q) : q[i] = Leg(x)
        BY <3>1
      <3>3. i \in 1..Len(a) /\ a[i] = Leg(x)
        BY <1>3, <3>2
      <3> QED
        BY <3>1, <3>3 DEF OpenIn
    <2>3. e \in OpenIn(a)
      <3>1. Len(q) + 1 \in 1..Len(a)
        BY <1>3
      <3> QED
        BY <1>1, <1>3, <3>1 DEF OpenIn
    <2> QED
      BY <2>1, <2>2, <2>3
  <1>7. Once(a)
    BY <1>4, <1>5 DEF Once
  <1> QED
    BY <1>1, <1>2, <1>3, <1>6, <1>7

\* One leg less.
LEMMA WithoutIs ==
    ASSUME queue \in Seq(Legs), Once(queue), NEW k \in 1..Len(queue)
    PROVE  /\ Without(k) \in Seq(Legs) /\ Once(Without(k))
           /\ OpenIn(Without(k)) = IF queue[k].open THEN OpenIn(queue) \ {queue[k].of} ELSE OpenIn(queue)
  <1>0. DOMAIN queue = 1..Len(queue) /\ Len(queue) \in Nat /\ k \in Nat /\ queue[k] \in Legs
    OBVIOUS
  <1>1. PICK n \in Nat : n = Len(queue) - 1
    <2>1. PICK l \in Nat : l = Len(queue)
      BY <1>0
    <2>2. 1 <= k /\ k <= l
      BY <2>1
    <2>3. l - 1 \in Nat
      BY <1>0, <2>2
    <2> QED
      BY <2>1, <2>3, SMTT(30)
  <1>2. PICK w : w = [j \in 1..n |-> queue[IF j < k THEN j ELSE j + 1]]
    OBVIOUS
  <1>3. Without(k) = w
    BY <1>1, <1>2 DEF Without
  <1>4. \A j \in 1..n : /\ w[j] = queue[IF j < k THEN j ELSE j + 1] /\ (IF j < k THEN j ELSE j + 1) \in 1..Len(queue)
                        /\ (IF j < k THEN j ELSE j + 1) # k
    BY <1>0, <1>1, <1>2
  <1>5. w \in Seq(Legs) /\ Len(w) = n
    <2>1. \A j \in 1..n : w[j] \in Legs
      BY <1>0, <1>4
    <2>2. w \in [1..n -> Legs]
      BY <1>2, <2>1
    <2> QED
      BY <2>2
  <1>6. Once(w)
    <2>1. ASSUME NEW i \in 1..n, NEW j \in 1..n, w[i].open, w[i] = w[j] PROVE i = j
      <3>1. (IF i < k THEN i ELSE i + 1) = (IF j < k THEN j ELSE j + 1)
        BY <1>4, <2>1 DEF Once
      <3> QED
        BY <1>0, <3>1
    <2> QED
      BY <1>5, <2>1 DEF Once
  <1>7. ASSUME NEW x PROVE (x \in OpenIn(w)) <=> (x \in OpenIn(queue) /\ ~(queue[k].open /\ x = queue[k].of))
    <2>1. ASSUME x \in OpenIn(w) PROVE x \in OpenIn(queue) /\ ~(queue[k].open /\ x = queue[k].of)
      <3>1. x \in Ends /\ \E j \in 1..n : w[j] = Leg(x)
        BY <1>5, <2>1 DEF OpenIn
      <3>2. PICK j \in 1..n : w[j] = Leg(x)
        BY <3>1
      <3>3. PICK i \in 1..Len(queue) : queue[i] = Leg(x) /\ i # k
        BY <1>4, <3>2
      <3>4. x \in OpenIn(queue)
        BY <3>1, <3>3 DEF OpenIn
      <3>5. ASSUME queue[k].open, x = queue[k].of PROVE FALSE
        <4>1. queue[k] = queue[i] /\ queue[i].open
          BY <1>0, <3>1, <3>3, <3>5, LegIs
        <4> QED
          BY <3>3, <4>1 DEF Once
      <3> QED
        BY <3>4, <3>5
    <2>2. ASSUME x \in OpenIn(queue), ~(queue[k].open /\ x = queue[k].of) PROVE x \in OpenIn(w)
      <3>1. x \in Ends /\ \E i \in 1..Len(queue) : queue[i] = Leg(x)
        BY <2>2 DEF OpenIn
      <3>2. PICK i \in 1..Len(queue) : queue[i] = Leg(x)
        BY <3>1
      <3>3. i # k
        BY <2>2, <3>1, <3>2, LegIs
      <3>4. PICK j \in 1..n : (IF j < k THEN j ELSE j + 1) = i
        <4>1. CASE i < k
          BY <1>0, <1>1, <4>1
        <4>2. CASE i > k
          <5>1. i - 1 \in 1..n /\ ~(i - 1 < k) /\ (i - 1) + 1 = i
            BY <1>0, <1>1, <4>2
          <5> QED
            BY <5>1
        <4> QED
          BY <1>0, <3>3, <4>1, <4>2
      <3>5. w[j] = Leg(x)
        BY <1>4, <3>2, <3>4
      <3> QED
        BY <1>5, <3>1, <3>5 DEF OpenIn
    <2> QED
      BY <2>1, <2>2
  <1>8. OpenIn(w) = IF queue[k].open THEN OpenIn(queue) \ {queue[k].of} ELSE OpenIn(queue)
    BY <1>7
  <1> QED
    BY <1>3, <1>5, <1>6, <1>8

\* An end closes its leg.
LEMMA LegClosedIs ==
    ASSUME queue \in Seq(Legs), Once(queue), NEW e \in Ends
    PROVE  LegClosed(e) \in Seq(Legs) /\ Once(LegClosed(e)) /\ OpenIn(LegClosed(e)) = OpenIn(queue) \ {e}
  <1>0. DOMAIN queue = 1..Len(queue) /\ Len(queue) \in Nat /\ \A i \in 1..Len(queue) : queue[i] \in Legs
    OBVIOUS
  <1>1. PICK g : g = LegClosed(e)
    OBVIOUS
  <1>2. ASSUME NEW l \in Legs PROVE [l EXCEPT !.open = FALSE] \in Legs /\ [l EXCEPT !.open = FALSE].open = FALSE
    BY DEF Legs
  <1>3. \A i \in 1..Len(queue) : g[i] = IF queue[i].of = e THEN [queue[i] EXCEPT !.open = FALSE] ELSE queue[i]
    BY <1>0, <1>1 DEF LegClosed
  <1>4. g \in [1..Len(queue) -> Legs]
    <2>1. \A i \in 1..Len(queue) : (IF queue[i].of = e THEN [queue[i] EXCEPT !.open = FALSE] ELSE queue[i]) \in Legs
      BY <1>0, <1>2
    <2> QED
      BY <1>0, <1>1, <2>1 DEF LegClosed
  <1>5. g \in Seq(Legs) /\ Len(g) = Len(queue)
    BY <1>0, <1>4
  <1>6. \A i \in 1..Len(g) : (g[i].open = FALSE /\ queue[i].of = e) \/ (g[i] = queue[i] /\ queue[i].of # e)
    <2>1. ASSUME NEW i \in 1..Len(queue) PROVE (g[i].open = FALSE /\ queue[i].of = e) \/ (g[i] = queue[i] /\ queue[i].of # e)
      <3>1. PICK l \in Legs : l = queue[i]
        BY <1>0
      <3>2. g[i] = IF l.of = e THEN [l EXCEPT !.open = FALSE] ELSE l
        BY <1>3, <3>1
      <3> QED
        BY <1>2, <3>1, <3>2
    <2> QED
      BY <1>5, <2>1
  <1>7. Once(g)
    BY <1>5, <1>6 DEF Once
  <1>8. OpenIn(g) = OpenIn(queue) \ {e}
    <2>1. ASSUME NEW x \in OpenIn(g) PROVE x \in OpenIn(queue) /\ x # e
      <3>1. x \in Ends /\ \E i \in 1..Len(g) : g[i] = Leg(x)
        BY DEF OpenIn
      <3>2. PICK i \in 1..Len(g) : g[i] = Leg(x)
        BY <3>1
      <3>3. g[i] = queue[i] /\ queue[i].of # e
        BY <1>6, <3>1, <3>2, LegIs
      <3>4. i \in 1..Len(queue) /\ queue[i] = Leg(x)
        BY <1>5, <3>2, <3>3
      <3>5. x # e
        BY <3>1, <3>3, <3>4, LegIs
      <3> QED
        BY <3>1, <3>4, <3>5 DEF OpenIn
    <2>2. ASSUME NEW x \in OpenIn(queue), x # e PROVE x \in OpenIn(g)
      <3>1. x \in Ends /\ \E i \in 1..Len(queue) : queue[i] = Leg(x)
        BY DEF OpenIn
      <3>2. PICK i \in 1..Len(queue) : queue[i] = Leg(x)
        BY <3>1
      <3>3. g[i] = queue[i]
        BY <1>5, <1>6, <2>2, <3>1, <3>2, LegIs
      <3> QED
        BY <1>5, <3>1, <3>2, <3>3 DEF OpenIn
    <2> QED
      BY <2>1, <2>2
  <1> QED
    BY <1>1, <1>5, <1>7, <1>8

\* The oldest dial is taken.
LEMMA TakenDial ==
    ASSUME backlog \in Seq(Callers \cup {Gone}), OnceDialled(backlog), backlog # << >>
    PROVE  /\ Tail(backlog) \in Seq(Callers \cup {Gone}) /\ OnceDialled(Tail(backlog)) /\ Head(backlog) \in InLine(backlog)
           /\ InLine(Tail(backlog)) \subseteq InLine(backlog)
           /\ Head(backlog) # Gone => Head(backlog) \notin InLine(Tail(backlog))
  <1>1. PICK t : t = Tail(backlog)
    OBVIOUS
  <1>2. /\ t \in Seq(Callers \cup {Gone}) /\ Len(backlog) \in Nat \ {0} /\ Len(t) = Len(backlog) - 1
        /\ Head(backlog) = backlog[1] /\ 1 \in 1..Len(backlog)
    BY <1>1
  <1>3. \A i \in 1..Len(t) : t[i] = backlog[i + 1] /\ i + 1 \in 1..Len(backlog) /\ i + 1 # 1
    BY <1>1, <1>2
  <1>4. OnceDialled(t)
    <2>1. ASSUME NEW i \in 1..Len(t), NEW j \in 1..Len(t), t[i] = t[j], t[i] # Gone PROVE i = j
      <3>1. i + 1 = j + 1
        BY <1>3, <2>1 DEF OnceDialled
      <3> QED
        BY <3>1
    <2> QED
      BY <2>1 DEF OnceDialled
  <1>5. InLine(t) \subseteq InLine(backlog)
    BY <1>3 DEF InLine
  <1>6. Head(backlog) \in InLine(backlog)
    BY <1>2 DEF InLine
  <1>7. ASSUME backlog[1] # Gone PROVE backlog[1] \notin InLine(t)
    <2>1. ASSUME NEW i \in 1..Len(t), t[i] = backlog[1] PROVE FALSE
      BY <1>2, <1>3, <1>7, <2>1 DEF OnceDialled
    <2> QED
      BY <2>1 DEF InLine
  <1> QED
    BY <1>1, <1>2, <1>4, <1>5, <1>6, <1>7

\* A dial is given up.
LEMMA GivenUpIs ==
    ASSUME backlog \in Seq(Callers \cup {Gone}), OnceDialled(backlog), NEW c \in Callers
    PROVE  /\ GivenUp(c) \in Seq(Callers \cup {Gone}) /\ OnceDialled(GivenUp(c))
           /\ \A x \in InLine(GivenUp(c)) : x # Gone => x \in InLine(backlog) /\ x # c
           /\ Gone \in InLine(GivenUp(c)) => Gone \in InLine(backlog) \/ c \in InLine(backlog)
  <1>0. DOMAIN backlog = 1..Len(backlog) /\ Len(backlog) \in Nat
    OBVIOUS
  <1>1. PICK g : g = GivenUp(c)
    OBVIOUS
  <1>2. g = [i \in 1..Len(backlog) |-> IF backlog[i] = c THEN Gone ELSE backlog[i]]
    BY <1>0, <1>1 DEF GivenUp
  <1>3. g \in [1..Len(backlog) -> Callers \cup {Gone}]
    BY <1>2
  <1>4. g \in Seq(Callers \cup {Gone}) /\ Len(g) = Len(backlog)
    BY <1>0, <1>3
  <1>5. \A i \in 1..Len(g) : g[i] = IF backlog[i] = c THEN Gone ELSE backlog[i]
    BY <1>2, <1>4
  <1>6. OnceDialled(g)
    BY <1>4, <1>5 DEF OnceDialled
  <1>7. \A x \in InLine(g) : x # Gone => x \in InLine(backlog) /\ x # c
    BY <1>4, <1>5 DEF InLine
  <1>8. Gone \in InLine(g) => Gone \in InLine(backlog) \/ c \in InLine(backlog)
    BY <1>4, <1>5 DEF InLine
  <1> QED
    BY <1>1, <1>4, <1>6, <1>7, <1>8

-----------------------------------------------------------------------------
(* How a join moves, on the ends, the legs that wait, the dials held and the mishaps. *)

\* The dials that are left: no new one, and none is given up without a mishap.
DialsLeft(en, B, B2, m2, e) ==
    /\ \A x \in B2 : x # Gone => x \in B /\ (x = e => en[e].at = "dial")
    /\ ~m2 => Gone \notin B2

\* End e goes on at another place.
GoesOn(en, en2, e) ==
    /\ \A x \in Ends : x # e => en2[x] = en[x]
    /\ en2[e].with = en[e].with /\ en2[e].on = en[e].on

\* End e is done.
Leaves(en, en2, e) ==
    /\ en2[e].at = "out" /\ en2[e].on = Nobody
    /\ \A x \in Ends : x # e =>
         /\ en2[x].at = en[x].at /\ en2[x].with = en[x].with
         /\ en2[x].on = en[x].on \/ (en[x].on = e /\ en2[x].on = Lost)

\* One end moves on.
LEMMA GoesKeeps ==
    ASSUME NEW en, NEW W, NEW B, NEW m \in BOOLEAN, JoinPlaced(en, W, B, m), NEW en2, NEW W2, NEW B2, NEW m2 \in BOOLEAN,
           NEW e \in Ends, GoesOn(en, en2, e), m => m2, DialsLeft(en2, B, B2, m2, e),
           e \in JoinSlots => e \in setup.slots,
           en2[e].at # "session",
           en[e].on # Nobody => en2[e].at \in {"relay", "race", "shake"},
           \A x \in W2 : x \in W \/ x = e,
           e \in W2 => en2[e].at \in {"relay", "race"} /\ en[e].on = Nobody,
           e \in Callers /\ OnItsWay(en2, W2, e) => OnItsWay(en, W, e),
           e \in JoinSlots => \/ en2[e].at \in {"accept", "race", "relay"} \/ en[e].on # Nobody \/ en[e].at = "out"
                             \/ \A c \in Callers : en[c].with = e => ~OnItsWay(en, W, c)
    PROVE  JoinPlaced(en2, W2, B2, m2)
  <1> USE DEF GoesOn, JoinPlaced
  <1>1. LegsWait(en2, W2)
    BY DEF LegsWait
  <1>2. TransportsHeld(en2)
    BY DEF TransportsHeld
  <1>3. DialsAwaited(en2, B2, m2)
    BY EndsApart DEF DialsAwaited, DialsLeft
  <1>4. SlotsUnused(en2)
    BY EndsApart DEF SlotsUnused
  <1>5. AsAdmitted(en2)
    BY EndsApart DEF AsAdmitted
  <1>6. PairedAlone(en2, W2, m2)
    <2>1. ASSUME NEW s \in JoinSlots, setup.slots = {s}, ~m2, NEW c \in Callers, OnItsWay(en2, W2, c)
          PROVE  /\ en2[s].at \in {"admitted", "accept", "race", "relay"} /\ en2[s].on = Nobody
                 /\ en2[s].with = c /\ en2[c].with = s
      <3>1. OnItsWay(en, W, c)
        BY <2>1, EndsApart DEF OnItsWay
      <3>2. /\ en[s].at \in {"admitted", "accept", "race", "relay"} /\ en[s].on = Nobody
            /\ en[s].with = c /\ en[c].with = s
        BY <2>1, <3>1 DEF PairedAlone
      <3>3. en2[s].with = c /\ en2[c].with = s /\ en2[s].on = Nobody
        BY <3>2, EndsApart
      <3>4. en2[s].at \in {"admitted", "accept", "race", "relay"}
        BY <3>1, <3>2, EndsApart
      <3> QED
        BY <3>3, <3>4
    <2> QED
      BY <2>1 DEF PairedAlone
  <1> QED
    BY <1>1, <1>2, <1>3, <1>4, <1>5, <1>6

\* One end is done, and with one slot and no mishap that leaves no caller on its way to it.
LEMMA LeavesKeeps ==
    ASSUME NEW en, NEW W, NEW B, NEW m \in BOOLEAN, JoinPlaced(en, W, B, m), NEW en2, NEW W2, NEW B2, NEW m2 \in BOOLEAN,
           NEW e \in Ends, Leaves(en, en2, e), m => m2, DialsLeft(en2, B, B2, m2, e),
           \A x \in W2 : x \in W /\ x # e,
           \A c \in Callers : e \in JoinSlots /\ setup.slots = {e} /\ ~m2 => ~OnItsWay(en, W, c)
    PROVE  JoinPlaced(en2, W2, B2, m2)
  <1> USE DEF Leaves, JoinPlaced
  <1>0. Nobody \notin Ends /\ Lost \notin Ends /\ Lost # Nobody
    BY EndsApart
  <1>1. LegsWait(en2, W2)
    BY <1>0 DEF LegsWait
  <1>2. TransportsHeld(en2)
    BY <1>0 DEF TransportsHeld
  <1>3. DialsAwaited(en2, B2, m2)
    BY EndsApart DEF DialsAwaited, DialsLeft
  <1>4. SlotsUnused(en2)
    BY EndsApart DEF SlotsUnused
  <1>5. AsAdmitted(en2)
    BY EndsApart DEF AsAdmitted
  <1>6. PairedAlone(en2, W2, m2)
    <2>1. ASSUME NEW s \in JoinSlots, setup.slots = {s}, ~m2, NEW c \in Callers, OnItsWay(en2, W2, c)
          PROVE  /\ en2[s].at \in {"admitted", "accept", "race", "relay"} /\ en2[s].on = Nobody
                 /\ en2[s].with = c /\ en2[c].with = s
      <3>1. OnItsWay(en, W, c) /\ c # e
        BY <2>1, EndsApart DEF OnItsWay
      <3>2. s # e
        BY <2>1, <3>1
      <3>3. /\ en[s].at \in {"admitted", "accept", "race", "relay"} /\ en[s].on = Nobody
            /\ en[s].with = c /\ en[c].with = s
        BY <2>1, <3>1 DEF PairedAlone
      <3> QED
        BY <1>0, <3>1, <3>2, <3>3, EndsApart
    <2> QED
      BY <2>1 DEF PairedAlone
  <1> QED
    BY <1>1, <1>2, <1>3, <1>4, <1>5, <1>6

\* Two legs are spliced: the one presented and one that waited.
Spliced(en, en2, e, x) ==
    /\ en2[e].with = en[e].with /\ en2[e].on = x /\ en2[x].with = en[x].with /\ en2[x].on = e /\ en2[x].at = en[x].at
    /\ \A y \in Ends : y # e /\ y # x => en2[y] = en[y]

\* The leg of end e is spliced with one of another holder.
LEMMA SplicedKeeps ==
    ASSUME NEW en, NEW W, NEW B, NEW m \in BOOLEAN, JoinPlaced(en, W, B, m), NEW en2, NEW W2, NEW B2, NEW m2 \in BOOLEAN,
           NEW e \in Ends, NEW x \in W, x # e, e \notin W, Spliced(en, en2, e, x), m => m2, DialsLeft(en2, B, B2, m2, e),
           e \in JoinSlots => e \in setup.slots /\ x \in Callers,
           en2[e].at \in {"relay", "race"},
           W2 = W \ {x},
           e \in Callers => OnItsWay(en, W, e)
    PROVE  JoinPlaced(en2, W2, B2, m2)
  <1> USE DEF Spliced, JoinPlaced
  <1>0. x \in Ends /\ en[x].at \in {"relay", "race"}
    BY DEF LegsWait
  <1>1. LegsWait(en2, W2)
    BY DEF LegsWait
  <1>2. TransportsHeld(en2)
    BY <1>0 DEF TransportsHeld
  <1>3. DialsAwaited(en2, B2, m2)
    BY <1>0, EndsApart DEF DialsAwaited, DialsLeft
  <1>4. SlotsUnused(en2)
    BY <1>0, EndsApart DEF SlotsUnused
  <1>5. AsAdmitted(en2)
    BY <1>0, EndsApart DEF AsAdmitted
  <1>6. PairedAlone(en2, W2, m2)
    <2>1. ASSUME NEW s \in JoinSlots, setup.slots = {s}, ~m2, NEW c \in Callers, OnItsWay(en2, W2, c)
          PROVE  /\ en2[s].at \in {"admitted", "accept", "race", "relay"} /\ en2[s].on = Nobody
                 /\ en2[s].with = c /\ en2[c].with = s
      <3>1. c # e /\ c # x
        BY <1>0, <2>1 DEF OnItsWay
      <3>2. OnItsWay(en, W, c)
        BY <2>1, <3>1, EndsApart DEF OnItsWay
      <3>3. /\ en[s].at \in {"admitted", "accept", "race", "relay"} /\ en[s].on = Nobody
            /\ en[s].with = c /\ en[c].with = s
        BY <2>1, <3>2 DEF PairedAlone
      <3>4. \A d \in Callers : OnItsWay(en, W, d) => d = c
        BY <2>1, <3>3 DEF PairedAlone
      <3>5. e \notin Callers
        BY <3>1, <3>4
      <3>6. x \notin Callers
        BY <3>1, <3>4 DEF OnItsWay
      <3> QED
        BY <3>5, <3>6, EndsApart
    <2> QED
      BY <2>1 DEF PairedAlone
  <1> QED
    BY <1>1, <1>2, <1>3, <1>4, <1>5, <1>6

\* The leg of end e is spliced with one that is closed already.
LEMMA CorpseKeeps ==
    ASSUME NEW en, NEW W, NEW B, NEW m \in BOOLEAN, JoinPlaced(en, W, B, m), NEW en2, NEW B2,
           NEW e \in Ends, e \notin W, DialsLeft(en2, B, B2, TRUE, e), e \in JoinSlots => e \in setup.slots,
           en2[e].at \in {"relay", "race"}, \A y \in Ends : y # e => en2[y] = en[y]
    PROVE  JoinPlaced(en2, W, B2, TRUE)
  <1> USE DEF JoinPlaced
  <1>1. LegsWait(en2, W)
    BY DEF LegsWait
  <1>2. TransportsHeld(en2)
    BY DEF TransportsHeld
  <1>3. DialsAwaited(en2, B2, TRUE)
    BY EndsApart DEF DialsAwaited, DialsLeft
  <1>4. SlotsUnused(en2)
    BY EndsApart DEF SlotsUnused
  <1>5. AsAdmitted(en2)
    BY EndsApart DEF AsAdmitted
  <1>6. PairedAlone(en2, W, TRUE)
    BY DEF PairedAlone
  <1> QED
    BY <1>1, <1>2, <1>3, <1>4, <1>5, <1>6

\* The broker pairs a caller and a slot.
LEMMA PairsKeeps ==
    ASSUME NEW en, NEW W, NEW B, NEW m \in BOOLEAN, JoinPlaced(en, W, B, m), NEW en2,
           NEW c \in Callers, NEW s \in JoinSlots, en[c].at = "parked", en[s].at = "parked",
           en2[c].at = "admitted" /\ en2[c].with = s /\ en2[c].on = Nobody,
           en2[s].at = "admitted" /\ en2[s].with = c /\ en2[s].on = Nobody,
           \A y \in Ends : y # c /\ y # s => en2[y] = en[y]
    PROVE  JoinPlaced(en2, W, B, m)
  <1> USE DEF JoinPlaced
  <1>0. c # s /\ c \in Ends /\ s \in Ends /\ c \notin W /\ s \notin W /\ s \in setup.slots
    BY EndsApart DEF LegsWait, SlotsUnused
  <1>1. LegsWait(en2, W)
    BY <1>0 DEF LegsWait
  <1>2. TransportsHeld(en2)
    BY <1>0 DEF TransportsHeld
  <1>3. DialsAwaited(en2, B, m)
    BY <1>0, EndsApart DEF DialsAwaited
  <1>4. SlotsUnused(en2)
    BY <1>0, EndsApart DEF SlotsUnused
  <1>5. AsAdmitted(en2)
    BY <1>0, EndsApart DEF AsAdmitted
  <1>6. PairedAlone(en2, W, m)
    <2>1. ASSUME NEW z \in JoinSlots, setup.slots = {z}, ~m, NEW d \in Callers, OnItsWay(en2, W, d)
          PROVE  /\ en2[z].at \in {"admitted", "accept", "race", "relay"} /\ en2[z].on = Nobody
                 /\ en2[z].with = d /\ en2[d].with = z
      <3>1. z = s
        BY <1>0, <2>1
      <3>2. ~OnItsWay(en, W, d)
        BY <2>1, <3>1 DEF PairedAlone
      <3>3. d = c
        BY <2>1, <3>2, EndsApart DEF OnItsWay
      <3> QED
        BY <3>1, <3>3
    <2> QED
      BY <2>1 DEF PairedAlone
  <1> QED
    BY <1>1, <1>2, <1>3, <1>4, <1>5, <1>6

\* A slot takes the dial of a caller, and closes its relay leg.
LEMMA TakesKeeps ==
    ASSUME NEW en, NEW W, NEW B, NEW m \in BOOLEAN, JoinPlaced(en, W, B, m), NEW en2, NEW W2, NEW B2,
           NEW c \in Callers, NEW s \in JoinSlots, en[s].at \in {"accept", "race", "direct"}, c \in B, c # Gone, c \notin B2,
           \A x \in B2 : x \in B, W2 = W \ {s},
           en2[c].at = "shake" /\ en2[s].at = "shake",
           \A y \in Ends : y # c /\ y # s =>
             /\ en2[y].at = en[y].at /\ en2[y].with = en[y].with
             /\ en2[y].on = en[y].on \/ (en[y].on = s /\ en2[y].on = Lost)
    PROVE  JoinPlaced(en2, W2, B2, m)
  <1> USE DEF JoinPlaced
  <1>0. c # s /\ c \in Ends /\ s \in Ends /\ en[c].at = "dial" /\ c \notin W /\ s \notin W2 /\ Nobody \notin Ends /\ Lost # Nobody
    BY EndsApart DEF LegsWait, DialsAwaited
  <1>1. LegsWait(en2, W2)
    BY <1>0 DEF LegsWait
  <1>2. TransportsHeld(en2)
    BY <1>0 DEF TransportsHeld
  <1>3. DialsAwaited(en2, B2, m)
    BY <1>0, EndsApart DEF DialsAwaited
  <1>4. SlotsUnused(en2)
    BY <1>0, EndsApart DEF SlotsUnused
  <1>5. AsAdmitted(en2)
    BY <1>0, EndsApart DEF AsAdmitted
  <1>6. PairedAlone(en2, W2, m)
    <2>1. ASSUME NEW z \in JoinSlots, setup.slots = {z}, ~m, NEW d \in Callers, OnItsWay(en2, W2, d) PROVE FALSE
      <3>1. d # c /\ OnItsWay(en, W, d)
        BY <1>0, <2>1, EndsApart DEF OnItsWay
      <3>2. OnItsWay(en, W, c)
        BY <1>0 DEF OnItsWay
      <3> QED
        BY <2>1, <3>1, <3>2 DEF PairedAlone
    <2> QED
      BY <2>1 DEF PairedAlone
  <1> QED
    BY <1>1, <1>2, <1>3, <1>4, <1>5, <1>6

\* A handshake agrees.
LEMMA AgreesKeeps ==
    ASSUME NEW en, NEW W, NEW B, NEW m \in BOOLEAN, JoinPlaced(en, W, B, m), NEW en2,
           NEW c \in Callers, NEW s \in JoinSlots, en[c].at = "shake", en[s].at = "shake", en[c].on = s, en[s].on = c,
           en[s].with = c, c \in Pinned,
           en2[c].at = "session" /\ en2[c].with = en[c].with /\ en2[c].on = s,
           en2[s].at = "session" /\ en2[s].with = c /\ en2[s].on = c,
           \A y \in Ends : y # c /\ y # s => en2[y] = en[y]
    PROVE  JoinPlaced(en2, W, B, m)
  <1> USE DEF JoinPlaced
  <1>0. c # s /\ c \in Ends /\ s \in Ends /\ c \notin W /\ s \notin W /\ Nobody \notin Ends
    BY EndsApart DEF LegsWait
  <1>1. LegsWait(en2, W)
    BY <1>0 DEF LegsWait
  <1>2. TransportsHeld(en2)
    BY <1>0 DEF TransportsHeld
  <1>3. DialsAwaited(en2, B, m)
    BY <1>0, EndsApart DEF DialsAwaited
  <1>4. SlotsUnused(en2)
    BY <1>0, EndsApart DEF SlotsUnused
  <1>5. AsAdmitted(en2)
    BY <1>0, EndsApart DEF AsAdmitted
  <1>6. PairedAlone(en2, W, m)
    <2>1. ASSUME NEW z \in JoinSlots, setup.slots = {z}, ~m, NEW d \in Callers, OnItsWay(en2, W, d)
          PROVE  /\ en2[z].at \in {"admitted", "accept", "race", "relay"} /\ en2[z].on = Nobody
                 /\ en2[z].with = d /\ en2[d].with = z
      <3>1. d # c /\ OnItsWay(en, W, d)
        BY <1>0, <2>1, EndsApart DEF OnItsWay
      <3>2. /\ en[z].at \in {"admitted", "accept", "race", "relay"} /\ en[z].on = Nobody
            /\ en[z].with = d /\ en[d].with = z
        BY <2>1, <3>1 DEF PairedAlone
      <3>3. z # s
        BY <3>2
      <3> QED
        BY <1>0, <3>1, <3>2, <3>3, EndsApart
    <2> QED
      BY <2>1 DEF PairedAlone
  <1> QED
    BY <1>1, <1>2, <1>3, <1>4, <1>5, <1>6

\* The transport of end e is closed under its partner.
Deserted(en, en2, e) ==
    \A y \in Ends : y # e =>
      /\ en2[y].at = en[y].at /\ en2[y].with = en[y].with
      /\ en2[y].on = en[y].on \/ (en[y].on = e /\ en2[y].on = Lost)

\* A leg fails under a race, which waits for a direct connection alone.
LEMMA RetreatKeeps ==
    ASSUME NEW en, NEW W, NEW B, NEW m \in BOOLEAN, JoinPlaced(en, W, B, m), NEW en2, NEW W2, NEW m2, m2 = TRUE,
           NEW e \in Ends, en[e].at = "race", W2 = W \ {e}, en2[e].at = "direct" /\ en2[e].on = Nobody,
           Deserted(en, en2, e)
    PROVE  JoinPlaced(en2, W2, B, m2)
  <1> USE DEF JoinPlaced, Deserted
  <1>0. Nobody \notin Ends /\ Lost # Nobody
    BY EndsApart
  <1>1. LegsWait(en2, W2)
    BY <1>0 DEF LegsWait
  <1>2. TransportsHeld(en2)
    BY <1>0 DEF TransportsHeld
  <1>3. DialsAwaited(en2, B, m2)
    BY EndsApart DEF DialsAwaited
  <1>4. SlotsUnused(en2)
    BY EndsApart DEF SlotsUnused
  <1>5. AsAdmitted(en2)
    BY EndsApart DEF AsAdmitted
  <1>6. PairedAlone(en2, W2, m2)
    BY DEF PairedAlone
  <1> QED
    BY <1>1, <1>2, <1>3, <1>4, <1>5, <1>6

-----------------------------------------------------------------------------
(* The steps. *)

\* What the invariant asks of a step that leaves the configuration alone.
LEMMA JoinedAgain ==
    ASSUME JoinInv, setup' = setup, ends' \in [Ends -> EndRecords],
           backlog' \in Seq(Callers \cup {Gone}), OnceDialled(backlog'), queue' \in Seq(Legs), Once(queue'),
           pairs' \in 0..Joins, mishap' \in BOOLEAN,
           JoinPlaced(ends', OpenIn(queue'), InLine(backlog'), mishap')
    PROVE  JoinInv'
  <1>1. setup' \in [slots : SUBSET JoinSlots, mode : Modes]
    BY DEF JoinInv
  <1>2. SlotsUnused(ends)' /\ PairedAlone(ends, OpenIn(queue), mishap)'
    BY DEF JoinPlaced, SlotsUnused, PairedAlone, OnItsWay, OpenIn
  <1>3. JoinPlaced(ends, OpenIn(queue), InLine(backlog), mishap)'
    BY <1>2 DEF JoinPlaced, LegsWait, TransportsHeld, DialsAwaited, AsAdmitted, InLine, OpenIn
  <1> QED
    BY <1>1, <1>3 DEF JoinInv, OnceDialled, Once

\* An end that leaves, and one that moves.
LEMMA LeftIs ==
    ASSUME ends \in [Ends -> EndRecords], NEW e \in Ends
    PROVE  Left(e) \in [Ends -> EndRecords] /\ Leaves(ends, Left(e), e)
  <1>1. PICK l : l = Left(e)
    OBVIOUS
  <1>2. OutEnd \in EndRecords /\ OutEnd.at = "out" /\ OutEnd.on = Nobody
    BY DEF OutEnd, EndRecords, Places
  <1>3. ASSUME NEW x \in Ends PROVE
          [ends[x] EXCEPT !.on = Lost] \in EndRecords /\ [ends[x] EXCEPT !.on = Lost].at = ends[x].at
          /\ [ends[x] EXCEPT !.on = Lost].with = ends[x].with /\ [ends[x] EXCEPT !.on = Lost].on = Lost
    BY DEF EndRecords
  <1>4. \A x \in Ends : l[x] = IF x = e THEN OutEnd
                              ELSE IF ends[x].on = e THEN [ends[x] EXCEPT !.on = Lost] ELSE ends[x]
    BY <1>1 DEF Left
  <1>5. l \in [Ends -> EndRecords]
    <2>1. \A x \in Ends : (IF x = e THEN OutEnd
                           ELSE IF ends[x].on = e THEN [ends[x] EXCEPT !.on = Lost] ELSE ends[x]) \in EndRecords
      BY <1>2, <1>3
    <2> QED
      BY <1>1, <2>1 DEF Left
  <1>6. Leaves(ends, l, e)
    BY <1>2, <1>3, <1>4 DEF Leaves
  <1> QED
    BY <1>1, <1>5, <1>6

\* A member that moves on changes its place and nothing else.
LEMMA MovesIs ==
    ASSUME ends \in [Ends -> EndRecords], NEW e \in Ends, NEW p \in Places, Moves(e, p)
    PROVE  ends' \in [Ends -> EndRecords] /\ GoesOn(ends, ends', e) /\ ends'[e].at = p
  <1>1. PICK r : r = [ends[e] EXCEPT !.at = p]
    OBVIOUS
  <1>2. r \in EndRecords /\ r.at = p /\ r.with = ends[e].with /\ r.on = ends[e].on
    BY <1>1 DEF EndRecords
  <1>3. ends' = [ends EXCEPT ![e] = r]
    BY <1>1 DEF Moves
  <1>4. ends' \in [Ends -> EndRecords] /\ ends'[e] = r /\ \A x \in Ends : x # e => ends'[x] = ends[x]
    BY <1>2, <1>3
  <1> QED
    BY <1>2, <1>4 DEF GoesOn

\* Who waits.
LEMMA WaitsIs ==
    ASSUME queue \in Seq(Legs), NEW e \in Ends
    PROVE  Waits(e) <=> e \in OpenIn(queue)
  BY DEF Waits, OpenIn

\* Whose dial waits in the acceptor's backlog.
LEMMA DialledIs ==
    ASSUME backlog \in Seq(Callers \cup {Gone}), NEW e
    PROVE  (\E i \in DOMAIN backlog : backlog[i] = e) <=> e \in InLine(backlog)
  BY DEF InLine

\* A leg is presented.
LEMMA PresentsLegKeeps ==
    ASSUME JoinInv, NEW e \in Ends, NEW p \in {"relay", "race"}, NEW bad \in BOOLEAN, PresentsLeg(e, p, bad),
           ends[e].at \in {"admitted", "dial", "accept"}, e \in Callers => ends[e].at # "accept",
           backlog' \in Seq(Callers \cup {Gone}), OnceDialled(backlog'),
           ~mishap /\ ~bad => Gone \notin InLine(backlog'),
           \A x \in InLine(backlog') : x # Gone => x \in InLine(backlog) /\ x # e
    PROVE  JoinInv'
  <1> DEFINE W == OpenIn(queue)
  <1>0. /\ ends \in [Ends -> EndRecords] /\ queue \in Seq(Legs) /\ Once(queue) /\ mishap \in BOOLEAN /\ pairs \in 0..Joins
        /\ JoinPlaced(ends, W, InLine(backlog), mishap)
    BY DEF JoinInv
  <1>1. setup' = setup /\ pairs' \in 0..Joins
    BY <1>0 DEF PresentsLeg
  <1>2. ends[e].on = Nobody /\ e \notin W
    BY <1>0 DEF JoinPlaced, TransportsHeld, LegsWait
  <1>3. e \in JoinSlots => e \in setup.slots
    BY <1>0 DEF JoinPlaced, SlotsUnused
  <1>4. ASSUME NEW m \in BOOLEAN, mishap \/ bad => m PROVE DialsLeft(ends', InLine(backlog), InLine(backlog'), m, e)
    BY <1>4 DEF DialsLeft
  <1>5. e \in Callers => OnItsWay(ends, W, e)
    BY DEF OnItsWay
  <1>6. CASE queue' = Append(queue, Leg(e)) /\ Moves(e, p) /\ mishap' = (mishap \/ bad)
    <2>1. ends' \in [Ends -> EndRecords] /\ GoesOn(ends, ends', e) /\ ends'[e].at = p
      BY <1>0, <1>6, MovesIs DEF Places
    <2>2. queue' \in Seq(Legs) /\ Once(queue') /\ OpenIn(queue') = W \cup {e}
      BY <1>0, <1>2, <1>6, OneMoreLeg
    <2>3. mishap' \in BOOLEAN /\ (mishap => mishap') /\ DialsLeft(ends', InLine(backlog), InLine(backlog'), mishap', e)
      BY <1>4, <1>6
    <2>4. JoinPlaced(ends', W \cup {e}, InLine(backlog'), mishap')
      BY <1>0, <1>2, <1>3, <1>5, <2>1, <2>3, GoesKeeps
    <2> QED
      BY <1>1, <2>1, <2>2, <2>3, <2>4, JoinedAgain
  <1>7. ASSUME NEW i \in Oldest(e), queue' = Without(i), mishap' = (mishap \/ bad \/ ~queue[i].open),
               ends' = IF queue[i].open THEN [ends EXCEPT ![e].at = p, ![e].on = queue[i].of, ![queue[i].of].on = e]
                       ELSE [ends EXCEPT ![e].at = p, ![e].on = Lost]
        PROVE  JoinInv'
    <2>1. PICK x : x = queue[i].of
      OBVIOUS
    <2>2. i \in 1..Len(queue) /\ queue[i] \in Legs /\ x \in Ends /\ Holder(x) # Holder(e) /\ x # e
      BY <1>0, <1>7, <2>1, LegIs DEF Oldest, Others
    <2>3. queue' \in Seq(Legs) /\ Once(queue') /\ OpenIn(queue') = IF queue[i].open THEN W \ {x} ELSE W
      BY <1>0, <1>7, <2>1, <2>2, WithoutIs
    <2>4. mishap' \in BOOLEAN /\ (mishap => mishap') /\ DialsLeft(ends', InLine(backlog), InLine(backlog'), mishap', e)
      BY <1>4, <1>7, <2>2, LegIs
    <2>5. CASE queue[i].open
      <3>1. x \in W
        BY <2>1, <2>2, <2>5, LegIs DEF OpenIn
      <3>2. e \in JoinSlots => x \in Callers
        BY <2>2, EndsApart DEF Holder
      <3>3. PICK r : r = [ends[e] EXCEPT !.at = p, !.on = x]
        OBVIOUS
      <3>4. r \in EndRecords /\ r.at = p /\ r.with = ends[e].with /\ r.on = x
        BY <1>0, <2>2, <3>3 DEF EndRecords, Places
      <3>5. PICK t : t = [ends[x] EXCEPT !.on = e]
        OBVIOUS
      <3>6. t \in EndRecords /\ t.at = ends[x].at /\ t.with = ends[x].with /\ t.on = e
        BY <1>0, <2>2, <3>5 DEF EndRecords
      <3>7. ends' = [ends EXCEPT ![e] = r, ![x] = t]
        BY <1>0, <1>7, <2>1, <2>2, <2>5, <3>3, <3>5
      <3>8. /\ ends' \in [Ends -> EndRecords] /\ ends'[e] = r /\ ends'[x] = t
            /\ \A y \in Ends : y # e /\ y # x => ends'[y] = ends[y]
        BY <1>0, <2>2, <3>4, <3>6, <3>7
      <3>9. Spliced(ends, ends', e, x) /\ ends'[e].at = p
        BY <3>4, <3>6, <3>8 DEF Spliced
      <3>10. OpenIn(queue') = W \ {x}
        BY <2>3, <2>5
      <3>11. JoinPlaced(ends', W \ {x}, InLine(backlog'), mishap')
        BY <1>0, <1>2, <1>3, <1>5, <2>2, <2>4, <3>1, <3>2, <3>9, SplicedKeeps
      <3> QED
        BY <1>1, <2>3, <2>4, <3>8, <3>10, <3>11, JoinedAgain
    <2>6. CASE ~queue[i].open
      <3>1. mishap' = TRUE /\ OpenIn(queue') = W
        BY <1>7, <2>3, <2>6
      <3>2. PICK r : r = [ends[e] EXCEPT !.at = p, !.on = Lost]
        OBVIOUS
      <3>3. r \in EndRecords /\ r.at = p
        BY <1>0, <3>2 DEF EndRecords, Places
      <3>4. ends' = [ends EXCEPT ![e] = r]
        BY <1>0, <1>7, <2>6, <3>2
      <3>5. ends' \in [Ends -> EndRecords] /\ ends'[e] = r /\ \A y \in Ends : y # e => ends'[y] = ends[y]
        BY <1>0, <3>3, <3>4
      <3>6. JoinPlaced(ends', W, InLine(backlog'), TRUE)
        BY <1>0, <1>2, <1>3, <2>4, <3>1, <3>3, <3>5, CorpseKeeps
      <3> QED
        BY <1>1, <2>3, <2>4, <3>1, <3>5, <3>6, JoinedAgain
    <2> QED
      BY <2>5, <2>6
  <1> QED
    BY <1>6, <1>7 DEF PresentsLeg

\* An end is done, and the legs and dials are as they are without it.
LEMMA DoneKeeps ==
    ASSUME JoinInv, NEW e \in Ends, ends' = Left(e), setup' = setup, pairs' = pairs,
           backlog' \in Seq(Callers \cup {Gone}), OnceDialled(backlog'), mishap' \in BOOLEAN, mishap => mishap',
           queue' \in Seq(Legs), Once(queue'), \A x \in OpenIn(queue') : x \in OpenIn(queue) /\ x # e,
           ~mishap' => Gone \notin InLine(backlog'),
           \A x \in InLine(backlog') : x # Gone => x \in InLine(backlog) /\ x # e,
           e \in JoinSlots /\ ~mishap' =>
             ends[e].at \in {"shake", "session", "direct"} \/ \A c \in Callers : ends[c].with = e => ~OnItsWay(ends, OpenIn(queue), c)
    PROVE  JoinInv'
  <1>1. /\ ends \in [Ends -> EndRecords] /\ mishap \in BOOLEAN /\ pairs' \in 0..Joins
        /\ JoinPlaced(ends, OpenIn(queue), InLine(backlog), mishap)
    BY DEF JoinInv
  <1>2. ends' \in [Ends -> EndRecords] /\ Leaves(ends, ends', e)
    BY <1>1, LeftIs
  <1>3. DialsLeft(ends', InLine(backlog), InLine(backlog'), mishap', e)
    BY DEF DialsLeft
  <1>4. \A c \in Callers : e \in JoinSlots /\ setup.slots = {e} /\ ~mishap' => ~OnItsWay(ends, OpenIn(queue), c)
    BY <1>1 DEF JoinPlaced, PairedAlone
  <1>5. JoinPlaced(ends', OpenIn(queue'), InLine(backlog'), mishap')
    BY <1>1, <1>2, <1>3, <1>4, LeavesKeeps
  <1> QED
    BY <1>1, <1>2, <1>5, JoinedAgain

\* A slot or a caller at another place is not among the dials.
LEMMA NotDialled ==
    ASSUME JoinInv, NEW e \in Ends, ends[e].at # "dial"
    PROVE  (\A x \in InLine(backlog) : x # Gone => x # e) /\ (~mishap => Gone \notin InLine(backlog))
  BY DEF JoinInv, JoinPlaced, DialsAwaited

\* An end moves, and the dials stay as they are.
LEMMA MoveKeeps ==
    ASSUME JoinInv, NEW e \in Ends, NEW p \in Places, Moves(e, p), UNCHANGED <<setup, backlog, pairs, mishap>>,
           ends[e].at # "dial", p # "session",
           e \in JoinSlots => e \in setup.slots,
           ends[e].on # Nobody => p \in {"relay", "race", "shake"},
           queue' \in Seq(Legs), Once(queue'), \A x \in OpenIn(queue') : x \in OpenIn(queue),
           e \in OpenIn(queue') => p \in {"relay", "race"},
           e \in Callers => ends[e].at = "admitted" \/ (p \notin {"admitted", "dial"} /\ e \notin OpenIn(queue')),
           e \in JoinSlots => \/ p \in {"accept", "race", "relay"} \/ ends[e].on # Nobody \/ ends[e].at = "out"
                             \/ \A c \in Callers : ends[c].with = e => ~OnItsWay(ends, OpenIn(queue), c)
    PROVE  JoinInv'
  <1>1. /\ ends \in [Ends -> EndRecords] /\ mishap \in BOOLEAN /\ pairs' \in 0..Joins
        /\ backlog \in Seq(Callers \cup {Gone}) /\ OnceDialled(backlog)
        /\ JoinPlaced(ends, OpenIn(queue), InLine(backlog), mishap)
    BY DEF JoinInv
  <1>2. ends' \in [Ends -> EndRecords] /\ GoesOn(ends, ends', e) /\ ends'[e].at = p
    BY <1>1, MovesIs
  <1>3. DialsLeft(ends', InLine(backlog), InLine(backlog), mishap, e)
    BY NotDialled DEF DialsLeft
  <1>4. \A x \in OpenIn(queue') : ends[x].on = Nobody
    BY <1>1 DEF JoinPlaced, LegsWait
  <1>5. e \in Callers /\ OnItsWay(ends', OpenIn(queue'), e) => OnItsWay(ends, OpenIn(queue), e)
    BY <1>2 DEF OnItsWay
  <1>6. JoinPlaced(ends', OpenIn(queue'), InLine(backlog), mishap)
    BY <1>1, <1>2, <1>3, <1>4, <1>5, GoesKeeps
  <1> QED
    BY <1>1, <1>2, <1>6, JoinedAgain

-----------------------------------------------------------------------------
(* The rendezvous, and the legs. *)

\* A member parks.
LEMMA ParksKeeps ==
    ASSUME JoinInv, NEW e \in Ends, Presents(e), e \in JoinSlots => e \in setup.slots
    PROVE  JoinInv'
  <1>1. /\ Moves(e, "parked") /\ ends[e].at = "out" /\ UNCHANGED <<setup, backlog, pairs, mishap>> /\ queue' = queue
        /\ "parked" \in Places
    BY DEF Presents, At, Places
  <1>2. ends[e].on = Nobody /\ e \notin OpenIn(queue) /\ queue \in Seq(Legs) /\ Once(queue)
    BY <1>1 DEF JoinInv, JoinPlaced, TransportsHeld, LegsWait
  <1> QED
    BY <1>1, <1>2, MoveKeeps

\* The broker pairs two.
LEMMA BrokerKeeps ==
    ASSUME JoinInv, NEW c \in Callers, NEW s \in JoinSlots, BrokerPairs(c, s)
    PROVE  JoinInv'
  <1>1. /\ ends \in [Ends -> EndRecords] /\ mishap \in BOOLEAN /\ pairs \in 0..Joins /\ queue \in Seq(Legs) /\ Once(queue)
        /\ backlog \in Seq(Callers \cup {Gone}) /\ OnceDialled(backlog)
        /\ JoinPlaced(ends, OpenIn(queue), InLine(backlog), mishap)
    BY DEF JoinInv
  <1>2. c \in Ends /\ s \in Ends /\ c # s
    BY EndsApart
  <1>3. PICK r : r = [OutEnd EXCEPT !.at = "admitted", !.with = s]
    OBVIOUS
  <1>4. PICK t : t = [OutEnd EXCEPT !.at = "admitted", !.with = c]
    OBVIOUS
  <1>5. r \in EndRecords /\ r.at = "admitted" /\ r.with = s /\ r.on = Nobody
    BY <1>2, <1>3 DEF OutEnd, EndRecords, Places
  <1>6. t \in EndRecords /\ t.at = "admitted" /\ t.with = c /\ t.on = Nobody
    BY <1>2, <1>4 DEF OutEnd, EndRecords, Places
  <1>7. ends' = [ends EXCEPT ![c] = r, ![s] = t]
    BY <1>3, <1>4 DEF BrokerPairs
  <1>8. /\ ends' \in [Ends -> EndRecords] /\ ends'[c] = r /\ ends'[s] = t
        /\ \A y \in Ends : y # c /\ y # s => ends'[y] = ends[y]
    BY <1>1, <1>2, <1>5, <1>6, <1>7
  <1>9. JoinPlaced(ends', OpenIn(queue), InLine(backlog), mishap)
    <2>1. ends[c].at = "parked" /\ ends[s].at = "parked"
      BY DEF BrokerPairs, At
    <2>2. ends'[c].at = "admitted" /\ ends'[c].with = s /\ ends'[c].on = Nobody
      BY <1>5, <1>8
    <2>3. ends'[s].at = "admitted" /\ ends'[s].with = c /\ ends'[s].on = Nobody
      BY <1>6, <1>8
    <2>4. JoinPlaced(ends, OpenIn(queue), InLine(backlog), mishap) /\ mishap \in BOOLEAN
      BY <1>1
    <2>5. \A y \in Ends : y # c /\ y # s => ends'[y] = ends[y]
      BY <1>8
    <2> QED
      BY <2>1, <2>2, <2>3, <2>4, <2>5, PairsKeeps
  <1>10. pairs' \in 0..Joins /\ UNCHANGED <<setup, backlog, queue, mishap>>
    BY <1>1, JoinAssumption DEF BrokerPairs
  <1> QED
    BY <1>1, <1>8, <1>9, <1>10, JoinedAgain

\* A leg is spliced.
LEMMA LegPairedKeeps ==
    ASSUME JoinInv, NEW e \in Ends, LegPaired(e)
    PROVE  JoinInv'
  <1>1. /\ Moves(e, "shake") /\ ends[e].at \in {"relay", "race"} /\ ends[e].on # Nobody
        /\ UNCHANGED <<setup, backlog, pairs, mishap>> /\ queue' = queue /\ "shake" \in Places
    BY DEF LegPaired, Places
  <1>2. e \notin OpenIn(queue) /\ queue \in Seq(Legs) /\ Once(queue) /\ (e \in JoinSlots => e \in setup.slots)
    BY <1>1 DEF JoinInv, JoinPlaced, LegsWait, SlotsUnused
  <1> QED
    BY <1>1, <1>2, MoveKeeps

\* A leg expires.
LEMMA LegExpiresKeeps ==
    ASSUME JoinInv, NEW e \in Ends, LegExpires(e)
    PROVE  JoinInv'
  <1>1. /\ queue' = LegClosed(e) /\ ends[e].at \in {"relay", "race"} /\ e \in OpenIn(queue)
        /\ UNCHANGED <<setup, backlog, pairs, mishap>>
    BY WaitsIs DEF LegExpires, JoinInv
  <1>2. queue' \in Seq(Legs) /\ Once(queue') /\ OpenIn(queue') = OpenIn(queue) \ {e}
    BY <1>1, LegClosedIs DEF JoinInv
  <1>3. ends[e].on = Nobody /\ (e \in JoinSlots => e \in setup.slots)
    BY <1>1 DEF JoinInv, JoinPlaced, LegsWait, SlotsUnused
  <1>4. ASSUME NEW c \in Callers, ends[c].with = e, OnItsWay(ends, OpenIn(queue), c) PROVE FALSE
    <2>1. ends[c].at \in {"admitted", "dial", "relay", "race"}
      BY <1>4 DEF OnItsWay, JoinInv, JoinPlaced, LegsWait
    <2> QED
      BY <1>4, <2>1, EndsApart DEF LegExpires
  <1>5. CASE At(e, "race")
    <2>1. Moves(e, "direct") /\ "direct" \in Places
      BY <1>5 DEF LegExpires, Places
    <2> QED
      BY <1>1, <1>2, <1>3, <1>4, <2>1, MoveKeeps
  <1>6. CASE ~At(e, "race")
    <2>1. ends' = Left(e)
      BY <1>6 DEF LegExpires
    <2>2. backlog \in Seq(Callers \cup {Gone}) /\ OnceDialled(backlog) /\ mishap \in BOOLEAN
      BY DEF JoinInv
    <2>3. (\A x \in InLine(backlog) : x # Gone => x # e) /\ (~mishap => Gone \notin InLine(backlog))
      BY <1>1, NotDialled
    <2> QED
      BY <1>1, <1>2, <1>4, <2>1, <2>2, <2>3, DoneKeeps
  <1> QED
    BY <1>5, <1>6

\* The edge notices that a leg is closed.
LEMMA NoticesKeeps == ASSUME JoinInv, EdgeNotices PROVE JoinInv'
  <1>1. PICK i \in DOMAIN queue : ~queue[i].open /\ queue' = Without(i) /\ UNCHANGED <<setup, ends, backlog, pairs, mishap>>
    BY DEF EdgeNotices
  <1>2. /\ ends \in [Ends -> EndRecords] /\ mishap \in BOOLEAN /\ pairs \in 0..Joins /\ queue \in Seq(Legs) /\ Once(queue)
        /\ backlog \in Seq(Callers \cup {Gone}) /\ OnceDialled(backlog)
        /\ JoinPlaced(ends, OpenIn(queue), InLine(backlog), mishap)
    BY DEF JoinInv
  <1>3. i \in 1..Len(queue)
    BY <1>2
  <1>4. queue' \in Seq(Legs) /\ Once(queue') /\ OpenIn(queue') = OpenIn(queue)
    BY <1>1, <1>2, <1>3, WithoutIs
  <1> QED
    BY <1>1, <1>2, <1>4, JoinedAgain

\* A leg fails.
LEMMA LegFailsKeeps ==
    ASSUME JoinInv, NEW e \in Ends, LegFails(e)
    PROVE  JoinInv'
  <1>1. queue' = LegClosed(e) /\ ends[e].at \in {"relay", "race"} /\ UNCHANGED <<setup, backlog, pairs>> /\ mishap' = TRUE
    BY DEF LegFails
  <1>2. queue' \in Seq(Legs) /\ Once(queue') /\ OpenIn(queue') = OpenIn(queue) \ {e}
    BY <1>1, LegClosedIs DEF JoinInv
  <1>3. /\ backlog \in Seq(Callers \cup {Gone}) /\ OnceDialled(backlog) /\ mishap \in BOOLEAN /\ pairs \in 0..Joins
        /\ ends \in [Ends -> EndRecords] /\ JoinPlaced(ends, OpenIn(queue), InLine(backlog), mishap)
    BY DEF JoinInv
  <1>4. (\A x \in InLine(backlog) : x # Gone => x # e)
    BY <1>1, NotDialled
  <1>5. CASE ~At(e, "race")
    <2>1. ends' = Left(e)
      BY <1>5 DEF LegFails
    <2> QED
      BY <1>1, <1>2, <1>3, <1>4, <2>1, DoneKeeps
  <1>6. CASE At(e, "race")
    <2>1. PICK l \in [Ends -> EndRecords] : l = Left(e) /\ Leaves(ends, l, e)
      BY <1>3, LeftIs
    <2>2. PICK r : r = [ends[e] EXCEPT !.at = "direct", !.on = Nobody]
      OBVIOUS
    <2>3. r \in EndRecords /\ r.at = "direct" /\ r.on = Nobody
      BY <1>3, <2>2 DEF EndRecords, Places
    <2>4. ends' = [l EXCEPT ![e] = r]
      BY <1>6, <2>1, <2>2 DEF LegFails
    <2>5. ends' \in [Ends -> EndRecords] /\ ends'[e] = r /\ \A y \in Ends : y # e => ends'[y] = l[y]
      BY <2>1, <2>3, <2>4
    <2>6. Deserted(ends, ends', e)
      BY <2>1, <2>5 DEF Leaves, Deserted
    <2>7. JoinPlaced(ends', OpenIn(queue'), InLine(backlog), mishap')
      <3>1. ends[e].at = "race" /\ ends'[e].at = "direct" /\ ends'[e].on = Nobody
        BY <1>6, <2>3, <2>5 DEF At
      <3> QED
        BY <1>1, <1>2, <1>3, <2>6, <3>1, RetreatKeeps
    <2> QED
      BY <1>1, <1>2, <1>3, <2>5, <2>7, JoinedAgain
  <1> QED
    BY <1>5, <1>6

-----------------------------------------------------------------------------
(* The caller. *)

\* A caller starts.
LEMMA CallerStartsKeeps ==
    ASSUME JoinInv, NEW c \in Callers, CallerStarts(c)
    PROVE  JoinInv'
  <1>1. ends[c].at = "admitted" /\ backlog' = backlog /\ c \in Ends /\ c \notin JoinSlots
    BY EndsApart DEF CallerStarts, At
  <1>2. /\ backlog \in Seq(Callers \cup {Gone}) /\ OnceDialled(backlog) /\ mishap \in BOOLEAN
        /\ queue \in Seq(Legs) /\ Once(queue) /\ ends[c].on = Nobody /\ c \notin OpenIn(queue)
    BY <1>1 DEF JoinInv, JoinPlaced, TransportsHeld, LegsWait
  <1>3. (\A x \in InLine(backlog) : x # Gone => x # c) /\ (~mishap => Gone \notin InLine(backlog))
    BY <1>1, NotDialled
  <1>4. CASE setup.mode = "relay"
    <2>1. PresentsLeg(c, "relay", FALSE)
      BY <1>4 DEF CallerStarts, JoinViaRelay
    <2> QED
      BY <1>1, <1>2, <1>3, <2>1, PresentsLegKeeps, ZenonT(40)
  <1>5. CASE setup.mode # "relay"
    <2>1. Moves(c, "dial") /\ UNCHANGED <<setup, queue, pairs, mishap>> /\ "dial" \in Places
      BY <1>5 DEF CallerStarts, Places
    <2> QED
      BY <1>1, <1>2, <2>1, MoveKeeps
  <1> QED
    BY <1>4, <1>5

\* A dial arrives.
LEMMA DialArrivesKeeps ==
    ASSUME JoinInv, NEW c \in Callers, DialArrives(c)
    PROVE  JoinInv'
  <1>1. /\ backlog \in Seq(Callers \cup {Gone}) /\ OnceDialled(backlog) /\ mishap \in BOOLEAN /\ pairs \in 0..Joins
        /\ ends \in [Ends -> EndRecords] /\ queue \in Seq(Legs) /\ Once(queue)
        /\ JoinPlaced(ends, OpenIn(queue), InLine(backlog), mishap)
    BY DEF JoinInv
  <1>2. ends[c].at = "dial" /\ c \notin InLine(backlog) /\ backlog' = Append(backlog, c) /\ c \in Callers \cup {Gone}
    BY <1>1, DialledIs DEF DialArrives, At
  <1>3. UNCHANGED <<setup, ends, queue, pairs, mishap>>
    BY DEF DialArrives
  <1>4. backlog' \in Seq(Callers \cup {Gone}) /\ OnceDialled(backlog') /\ InLine(backlog') = InLine(backlog) \cup {c}
    BY <1>1, <1>2, OneMoreInLine
  <1>5. DialsAwaited(ends, InLine(backlog'), mishap)
    BY <1>1, <1>2, <1>4, EndsApart DEF JoinPlaced, DialsAwaited
  <1>6. JoinPlaced(ends, OpenIn(queue), InLine(backlog'), mishap)
    BY <1>1, <1>5 DEF JoinPlaced
  <1> QED
    BY <1>1, <1>3, <1>4, <1>6, JoinedAgain

\* What a dial given up leaves.
LEMMA DialLeft ==
    ASSUME JoinInv, NEW c \in Callers, backlog' = GivenUp(c)
    PROVE  /\ backlog' \in Seq(Callers \cup {Gone}) /\ OnceDialled(backlog')
           /\ \A x \in InLine(backlog') : x # Gone => x \in InLine(backlog) /\ x # c
           /\ ~mishap /\ ~(\E i \in DOMAIN backlog : backlog[i] = c) => Gone \notin InLine(backlog')
  <1>1. /\ backlog \in Seq(Callers \cup {Gone}) /\ OnceDialled(backlog) /\ mishap \in BOOLEAN
        /\ (~mishap => Gone \notin InLine(backlog))
    BY DEF JoinInv, JoinPlaced, DialsAwaited
  <1>2. /\ backlog' \in Seq(Callers \cup {Gone}) /\ OnceDialled(backlog')
        /\ \A x \in InLine(backlog') : x # Gone => x \in InLine(backlog) /\ x # c
        /\ Gone \in InLine(backlog') => Gone \in InLine(backlog) \/ c \in InLine(backlog)
    BY <1>1, GivenUpIs
  <1>3. (\E i \in DOMAIN backlog : backlog[i] = c) <=> c \in InLine(backlog)
    BY <1>1, DialledIs
  <1> QED
    BY <1>1, <1>2, <1>3

\* A dial times out.
LEMMA DialTimesOutKeeps ==
    ASSUME JoinInv, NEW c \in Callers, DialTimesOut(c)
    PROVE  JoinInv'
  <1>1. PICK bad \in BOOLEAN : bad = \E i \in DOMAIN backlog : backlog[i] = c
    OBVIOUS
  <1>2. ends[c].at = "dial" /\ c \in Ends /\ PresentsLeg(c, "relay", bad) /\ backlog' = GivenUp(c)
    BY <1>1, EndsApart DEF DialTimesOut, At, JoinViaRelay
  <1>3. /\ backlog' \in Seq(Callers \cup {Gone}) /\ OnceDialled(backlog')
        /\ \A x \in InLine(backlog') : x # Gone => x \in InLine(backlog) /\ x # c
        /\ ~mishap /\ ~bad => Gone \notin InLine(backlog')
    BY <1>1, <1>2, DialLeft
  <1> QED
    BY <1>2, <1>3, PresentsLegKeeps

\* A caller ends its join.
LEMMA CallerFailsKeeps ==
    ASSUME JoinInv, NEW c \in Callers, CallerFails(c)
    PROVE  JoinInv'
  <1>1. /\ ends' = Left(c) /\ c \in Ends /\ c \notin JoinSlots /\ setup' = setup /\ pairs' = pairs /\ queue' = LegClosed(c)
        /\ backlog' = GivenUp(c) /\ mishap' = (mishap \/ \E i \in DOMAIN backlog : backlog[i] = c)
    BY EndsApart DEF CallerFails
  <1>2. mishap \in BOOLEAN /\ mishap' \in BOOLEAN /\ (mishap => mishap')
    BY <1>1 DEF JoinInv
  <1>3. /\ backlog' \in Seq(Callers \cup {Gone}) /\ OnceDialled(backlog')
        /\ \A x \in InLine(backlog') : x # Gone => x \in InLine(backlog) /\ x # c
        /\ ~mishap' => Gone \notin InLine(backlog')
    BY <1>1, <1>2, DialLeft
  <1>4. queue' \in Seq(Legs) /\ Once(queue') /\ OpenIn(queue') = OpenIn(queue) \ {c}
    BY <1>1, LegClosedIs DEF JoinInv
  <1> QED
    BY <1>1, <1>2, <1>3, <1>4, DoneKeeps

-----------------------------------------------------------------------------
(* The acceptor. *)

\* A slot goes on alone, with what it knows of itself.
LEMMA SlotKnown ==
    ASSUME JoinInv, NEW s \in JoinSlots, ends[s].at # "out"
    PROVE  /\ s \in Ends /\ s \notin Callers /\ s \in setup.slots
           /\ backlog \in Seq(Callers \cup {Gone}) /\ OnceDialled(backlog) /\ mishap \in BOOLEAN /\ pairs \in 0..Joins
           /\ ends \in [Ends -> EndRecords] /\ queue \in Seq(Legs) /\ Once(queue)
           /\ \A x \in InLine(backlog) : x # Gone => x # s
           /\ ~mishap => Gone \notin InLine(backlog)
           /\ ends[s].at \in {"admitted", "accept", "direct"} => ends[s].on = Nobody /\ s \notin OpenIn(queue)
  <1>1. s \in Ends /\ s \notin Callers
    BY EndsApart
  <1>2. s \in setup.slots
    BY DEF JoinInv, JoinPlaced, SlotsUnused
  <1>3. (\A x \in InLine(backlog) : x # Gone => x # s) /\ (~mishap => Gone \notin InLine(backlog))
    BY <1>1 DEF JoinInv, JoinPlaced, DialsAwaited
  <1>4. ends[s].at \in {"admitted", "accept", "direct"} => ends[s].on = Nobody /\ s \notin OpenIn(queue)
    BY <1>1 DEF JoinInv, JoinPlaced, TransportsHeld, LegsWait
  <1> QED
    BY <1>1, <1>2, <1>3, <1>4 DEF JoinInv

\* A slot starts.
LEMMA AcceptorStartsKeeps ==
    ASSUME JoinInv, NEW s \in JoinSlots, AcceptorStarts(s)
    PROVE  JoinInv'
  <1>1. ends[s].at = "admitted" /\ backlog' = backlog
    BY DEF AcceptorStarts, At
  <1>2. /\ s \in Ends /\ s \notin Callers /\ s \in setup.slots
        /\ backlog \in Seq(Callers \cup {Gone}) /\ OnceDialled(backlog) /\ mishap \in BOOLEAN
        /\ queue \in Seq(Legs) /\ Once(queue)
        /\ \A x \in InLine(backlog) : x # Gone => x # s
        /\ ~mishap => Gone \notin InLine(backlog)
        /\ ends[s].on = Nobody /\ s \notin OpenIn(queue)
    BY <1>1, SlotKnown
  <1>3. ASSUME NEW p \in {"relay", "race"}, PresentsLeg(s, p, FALSE) PROVE JoinInv'
    BY <1>1, <1>2, <1>3, PresentsLegKeeps, ZenonT(40)
  <1>4. ASSUME Moves(s, "accept"), UNCHANGED <<setup, queue, pairs, mishap>> PROVE JoinInv'
    <2>1. "accept" \in Places
      BY DEF Places
    <2> QED
      BY <1>1, <1>2, <1>4, <2>1, MoveKeeps
  <1>5. \/ PresentsLeg(s, "relay", FALSE) \/ PresentsLeg(s, "race", FALSE)
        \/ Moves(s, "accept") /\ UNCHANGED <<setup, queue, pairs, mishap>>
    BY DEF AcceptorStarts, TakesLeg, JoinViaRelay
  <1> QED
    BY <1>3, <1>4, <1>5

\* A slot takes a dial.
LEMMA AcceptsKeeps ==
    ASSUME JoinInv, NEW s \in JoinSlots, Accepts(s)
    PROVE  JoinInv'
  <1>1. /\ ends[s].at \in {"accept", "race", "direct"} /\ backlog # << >> /\ Head(backlog) # Gone /\ backlog' = Tail(backlog)
        /\ AbandonsLeg(s, Head(backlog)) /\ UNCHANGED <<setup, pairs, mishap>>
    BY DEF Accepts
  <1>2. /\ backlog \in Seq(Callers \cup {Gone}) /\ OnceDialled(backlog) /\ mishap \in BOOLEAN /\ pairs \in 0..Joins
        /\ ends \in [Ends -> EndRecords] /\ queue \in Seq(Legs) /\ Once(queue)
        /\ JoinPlaced(ends, OpenIn(queue), InLine(backlog), mishap)
    BY DEF JoinInv
  <1>3. PICK c : c = Head(backlog)
    OBVIOUS
  <1>4. /\ backlog' \in Seq(Callers \cup {Gone}) /\ OnceDialled(backlog') /\ c \in InLine(backlog)
        /\ InLine(backlog') \subseteq InLine(backlog) /\ c \notin InLine(backlog')
    BY <1>1, <1>2, <1>3, TakenDial
  <1>5. c \in Callers /\ c # Gone
    BY <1>1, <1>2, <1>3, <1>4 DEF JoinPlaced, DialsAwaited
  <1>6. c \in Ends /\ s \in Ends /\ c # s
    BY <1>5, EndsApart
  <1>7. PICK l \in [Ends -> EndRecords] : l = Left(s) /\ Leaves(ends, l, s)
    BY <1>2, <1>6, LeftIs
  <1>8. PICK r : r = [ends[s] EXCEPT !.at = "shake", !.on = c]
    OBVIOUS
  <1>9. PICK t : t = [ends[c] EXCEPT !.at = "shake", !.on = s]
    OBVIOUS
  <1>10. r \in EndRecords /\ r.at = "shake"
    BY <1>2, <1>6, <1>8, ZenonT(40) DEF EndRecords, Places
  <1>11. t \in EndRecords /\ t.at = "shake"
    BY <1>2, <1>6, <1>9, ZenonT(40) DEF EndRecords, Places
  <1>12. ends' = [l EXCEPT ![s] = r, ![c] = t] /\ queue' = LegClosed(s)
    BY <1>1, <1>3, <1>7, <1>8, <1>9 DEF AbandonsLeg
  <1>13. /\ ends' \in [Ends -> EndRecords] /\ ends'[s] = r /\ ends'[c] = t
         /\ \A y \in Ends : y # c /\ y # s => ends'[y] = l[y]
    BY <1>6, <1>7, <1>10, <1>11, <1>12
  <1>14. \A y \in Ends : y # c /\ y # s =>
             /\ ends'[y].at = ends[y].at /\ ends'[y].with = ends[y].with
             /\ ends'[y].on = ends[y].on \/ (ends[y].on = s /\ ends'[y].on = Lost)
    BY <1>7, <1>13 DEF Leaves
  <1>15. queue' \in Seq(Legs) /\ Once(queue') /\ OpenIn(queue') = OpenIn(queue) \ {s}
    BY <1>2, <1>6, <1>12, LegClosedIs
  <1>16. ends'[c].at = "shake" /\ ends'[s].at = "shake"
    BY <1>10, <1>11, <1>13
  <1>17. JoinPlaced(ends', OpenIn(queue'), InLine(backlog'), mishap)
    <2>1. PICK e2, W2, B2, B : e2 = ends' /\ W2 = OpenIn(queue') /\ B2 = InLine(backlog') /\ B = InLine(backlog)
      OBVIOUS
    <2>2. /\ JoinPlaced(ends, OpenIn(queue), B, mishap) /\ mishap \in BOOLEAN /\ ends[s].at \in {"accept", "race", "direct"}
          /\ c \in Callers /\ c \in B /\ c # Gone /\ c \notin B2 /\ (\A x \in B2 : x \in B)
          /\ W2 = OpenIn(queue) \ {s} /\ e2[c].at = "shake" /\ e2[s].at = "shake"
      BY <1>1, <1>2, <1>4, <1>5, <1>15, <1>16, <2>1
    <2>3. \A y \in Ends : y # c /\ y # s =>
             /\ e2[y].at = ends[y].at /\ e2[y].with = ends[y].with
             /\ e2[y].on = ends[y].on \/ (ends[y].on = s /\ e2[y].on = Lost)
      BY <1>14, <2>1
    <2>4. JoinPlaced(e2, W2, B2, mishap)
      BY <2>2, <2>3, TakesKeeps
    <2> QED
      BY <2>1, <2>4
  <1> QED
    BY <1>1, <1>2, <1>4, <1>13, <1>15, <1>17, JoinedAgain

\* The dial a slot took was given up: without a mishap there is none such.
LEMMA AcceptFailsKeeps ==
    ASSUME JoinInv, NEW s \in JoinSlots, AcceptFails(s)
    PROVE  JoinInv'
  <1>1. /\ ends[s].at \in {"accept", "race", "direct"} /\ backlog # << >> /\ Head(backlog) = Gone /\ backlog' = Tail(backlog)
        /\ UNCHANGED <<setup, queue, pairs, mishap>>
    BY DEF AcceptFails
  <1>2. /\ s \in Ends /\ s \notin Callers /\ s \in setup.slots
        /\ backlog \in Seq(Callers \cup {Gone}) /\ OnceDialled(backlog) /\ mishap \in BOOLEAN /\ pairs \in 0..Joins
        /\ ends \in [Ends -> EndRecords] /\ queue \in Seq(Legs) /\ Once(queue)
        /\ \A x \in InLine(backlog) : x # Gone => x # s
        /\ ~mishap => Gone \notin InLine(backlog)
        /\ ends[s].at \in {"admitted", "accept", "direct"} => ends[s].on = Nobody /\ s \notin OpenIn(queue)
    BY <1>1, SlotKnown
  <1>3. /\ backlog' \in Seq(Callers \cup {Gone}) /\ OnceDialled(backlog') /\ Gone \in InLine(backlog)
        /\ InLine(backlog') \subseteq InLine(backlog)
    BY <1>1, <1>2, TakenDial
  <1>4. mishap
    BY <1>2, <1>3
  <1>5. CASE At(s, "race")
    <2>1. ends' = [ends EXCEPT ![s].at = "relay"]
      BY <1>5 DEF AcceptFails
    <2>2. Moves(s, "relay") /\ "relay" \in Places
      BY <2>1 DEF Moves, Places
    <2>3. ends' \in [Ends -> EndRecords] /\ GoesOn(ends, ends', s) /\ ends'[s].at = "relay"
      BY <1>2, <2>2, MovesIs
    <2>4. DialsLeft(ends', InLine(backlog), InLine(backlog'), mishap, s)
      BY <1>2, <1>3, <1>4 DEF DialsLeft
    <2>5. JoinPlaced(ends, OpenIn(queue), InLine(backlog), mishap) /\ (s \in OpenIn(queue) => ends[s].on = Nobody)
      BY DEF JoinInv, JoinPlaced, LegsWait
    <2>6. JoinPlaced(ends', OpenIn(queue), InLine(backlog'), mishap)
      BY <1>2, <2>3, <2>4, <2>5, GoesKeeps
    <2> QED
      BY <1>1, <1>2, <1>3, <2>3, <2>6, JoinedAgain
  <1>6. CASE ~At(s, "race")
    <2>1. ends' = Left(s) /\ ends[s].at \in {"accept", "direct"}
      BY <1>1, <1>6 DEF AcceptFails, At
    <2>2. \A x \in OpenIn(queue') : x \in OpenIn(queue) /\ x # s
      BY <1>1, <1>2, <2>1
    <2>3. \A x \in InLine(backlog') : x # Gone => x \in InLine(backlog) /\ x # s
      BY <1>2, <1>3
    <2> QED
      BY <1>1, <1>2, <1>3, <1>4, <2>1, <2>2, <2>3, DoneKeeps
  <1> QED
    BY <1>5, <1>6

\* A slot accepts no longer.
LEMMA AcceptTimesOutKeeps ==
    ASSUME JoinInv, NEW s \in JoinSlots, AcceptTimesOut(s)
    PROVE  JoinInv'
  <1>1. ends[s].at \in {"accept", "race", "direct"} /\ backlog' = backlog
    BY DEF AcceptTimesOut
  <1>2. /\ s \in Ends /\ s \notin Callers /\ s \in setup.slots
        /\ backlog \in Seq(Callers \cup {Gone}) /\ OnceDialled(backlog) /\ mishap \in BOOLEAN
        /\ queue \in Seq(Legs) /\ Once(queue)
        /\ \A x \in InLine(backlog) : x # Gone => x # s
        /\ ~mishap => Gone \notin InLine(backlog)
        /\ ends[s].at \in {"admitted", "accept", "direct"} => ends[s].on = Nobody /\ s \notin OpenIn(queue)
    BY <1>1, SlotKnown
  <1>3. CASE At(s, "race") /\ Moves(s, "relay") /\ UNCHANGED <<setup, queue, pairs, mishap>>
    <2>1. "relay" \in Places
      BY DEF Places
    <2> QED
      BY <1>1, <1>2, <1>3, <2>1, MoveKeeps
  <1>4. CASE At(s, "direct") /\ ends' = Left(s) /\ UNCHANGED <<setup, queue, pairs, mishap>>
    <2>1. ends[s].at = "direct" /\ \A x \in OpenIn(queue') : x \in OpenIn(queue) /\ x # s
      BY <1>2, <1>4 DEF At
    <2> QED
      BY <1>1, <1>2, <1>4, <2>1, DoneKeeps
  <1>5. CASE At(s, "accept") /\ JoinViaRelay(s, FALSE)
    <2>1. PresentsLeg(s, "relay", FALSE) /\ ends[s].at = "accept"
      BY <1>5 DEF JoinViaRelay, At
    <2> QED
      BY <1>1, <1>2, <2>1, PresentsLegKeeps, ZenonT(40)
  <1> QED
    BY <1>3, <1>4, <1>5 DEF AcceptTimesOut

-----------------------------------------------------------------------------
(* The session. *)

\* The handshake agrees.
LEMMA HandshakesKeeps ==
    ASSUME JoinInv, NEW c \in Callers, NEW s \in JoinSlots, Handshakes(c, s)
    PROVE  JoinInv'
  <1>1. /\ ends[c].at = "shake" /\ ends[s].at = "shake" /\ ends[c].on = s /\ ends[s].on = c /\ ends[s].with = c
        /\ c \in Pinned /\ UNCHANGED <<setup, backlog, queue, pairs, mishap>>
    BY DEF Handshakes, Fits, HandshakeAgrees, Refused, At
  <1>2. /\ backlog \in Seq(Callers \cup {Gone}) /\ OnceDialled(backlog) /\ mishap \in BOOLEAN /\ pairs \in 0..Joins
        /\ ends \in [Ends -> EndRecords] /\ queue \in Seq(Legs) /\ Once(queue)
        /\ JoinPlaced(ends, OpenIn(queue), InLine(backlog), mishap)
    BY DEF JoinInv
  <1>3. c \in Ends /\ s \in Ends /\ c # s
    BY EndsApart
  <1>4. PICK r : r = [ends[c] EXCEPT !.at = "session"]
    OBVIOUS
  <1>5. PICK t : t = [ends[s] EXCEPT !.at = "session"]
    OBVIOUS
  <1>6. r \in EndRecords /\ r.at = "session" /\ r.with = ends[c].with /\ r.on = s
    BY <1>1, <1>2, <1>3, <1>4 DEF EndRecords, Places
  <1>7. t \in EndRecords /\ t.at = "session" /\ t.with = c /\ t.on = c
    BY <1>1, <1>2, <1>3, <1>5 DEF EndRecords, Places
  <1>8. ends' = [ends EXCEPT ![c] = r, ![s] = t]
    BY <1>2, <1>3, <1>4, <1>5 DEF Handshakes
  <1>9. /\ ends' \in [Ends -> EndRecords] /\ ends'[c] = r /\ ends'[s] = t
        /\ \A y \in Ends : y # c /\ y # s => ends'[y] = ends[y]
    BY <1>2, <1>3, <1>6, <1>7, <1>8
  <1>10. ends'[c].at = "session" /\ ends'[c].with = ends[c].with /\ ends'[c].on = s
    BY <1>6, <1>9
  <1>11. ends'[s].at = "session" /\ ends'[s].with = c /\ ends'[s].on = c
    BY <1>7, <1>9
  <1>12. JoinPlaced(ends', OpenIn(queue), InLine(backlog), mishap)
    BY <1>1, <1>2, <1>9, <1>10, <1>11, AgreesKeeps
  <1> QED
    BY <1>1, <1>2, <1>9, <1>12, JoinedAgain

\* A leg is closed, or a session is over.
LEMMA SessionOverKeeps ==
    ASSUME JoinInv, NEW e \in Ends, ends[e].at \in {"shake", "session"}, ends' = Left(e),
           UNCHANGED <<setup, backlog, queue, pairs, mishap>>
    PROVE  JoinInv'
  <1>1. /\ backlog \in Seq(Callers \cup {Gone}) /\ OnceDialled(backlog) /\ mishap \in BOOLEAN
        /\ queue \in Seq(Legs) /\ Once(queue)
    BY DEF JoinInv
  <1>2. \A x \in OpenIn(queue) : x # e
    BY DEF JoinInv, JoinPlaced, LegsWait
  <1>3. (\A x \in InLine(backlog) : x # Gone => x # e) /\ (~mishap => Gone \notin InLine(backlog))
    BY NotDialled
  <1> QED
    BY <1>1, <1>2, <1>3, DoneKeeps

\* Initially no member is in.
LEMMA JoinStarts == JoinInit => JoinInv
  <1> SUFFICES ASSUME JoinInit PROVE JoinInv
    OBVIOUS
  <1>1. OutEnd \in EndRecords /\ OutEnd.at = "out" /\ OutEnd.on = Nobody
    BY DEF OutEnd, EndRecords, Places
  <1>2. ends \in [Ends -> EndRecords] /\ \A e \in Ends : ends[e].at = "out" /\ ends[e].on = Nobody
    BY <1>1 DEF JoinInit
  <1>3. OpenIn(queue) = {} /\ InLine(backlog) = {} /\ Once(queue) /\ OnceDialled(backlog)
    BY DEF JoinInit, InLine, OpenIn, Once, OnceDialled
  <1>4. backlog \in Seq(Callers \cup {Gone}) /\ queue \in Seq(Legs)
    BY DEF JoinInit
  <1>5. mishap \in BOOLEAN /\ pairs \in 0..Joins /\ setup \in [slots : SUBSET JoinSlots, mode : Modes]
    <2>1. mishap \in BOOLEAN
      BY DEF JoinInit
    <2>2. pairs \in 0..Joins
      BY JoinAssumption DEF JoinInit
    <2>3. setup \in [slots : SUBSET JoinSlots, mode : Modes]
      BY DEF JoinInit
    <2> QED
      BY <2>1, <2>2, <2>3
  <1>6. LegsWait(ends, {}) /\ TransportsHeld(ends) /\ DialsAwaited(ends, {}, mishap)
    BY <1>2 DEF LegsWait, TransportsHeld, DialsAwaited
  <1>7. SlotsUnused(ends) /\ AsAdmitted(ends) /\ PairedAlone(ends, {}, mishap)
    BY <1>2, EndsApart DEF SlotsUnused, AsAdmitted, PairedAlone, OnItsWay
  <1>8. JoinPlaced(ends, OpenIn(queue), InLine(backlog), mishap)
    BY <1>3, <1>6, <1>7 DEF JoinPlaced
  <1> QED
    BY <1>2, <1>3, <1>4, <1>5, <1>8 DEF JoinInv

\* Every step keeps the joins in order.
LEMMA JoinKeeps == JoinInv /\ [JoinNext]_joinVars => JoinInv'
  <1> SUFFICES ASSUME JoinInv, [JoinNext]_joinVars PROVE JoinInv'
    OBVIOUS
  <1>1. CASE UNCHANGED joinVars
    BY <1>1 DEF joinVars, JoinInv, JoinPlaced, LegsWait, TransportsHeld, DialsAwaited, SlotsUnused, AsAdmitted,
                PairedAlone, OnItsWay, InLine, OpenIn, Once, OnceDialled
  <1>2. ASSUME NEW e \in Ends, LegPaired(e) \/ LegExpires(e) \/ LegFails(e) PROVE JoinInv'
    BY <1>2, LegPairedKeeps, LegExpiresKeeps, LegFailsKeeps
  <1>3. ASSUME NEW e \in Ends, ClosesLeg(e) \/ SessionOver(e) PROVE JoinInv'
    <2>1. /\ ends[e].at \in {"shake", "session"} /\ ends' = Left(e) /\ UNCHANGED <<setup, backlog, queue, pairs, mishap>>
      BY <1>3 DEF ClosesLeg, SessionOver, At
    <2> QED
      BY <2>1, SessionOverKeeps
  <1>4. ASSUME NEW c \in Callers, NEW s \in JoinSlots, BrokerPairs(c, s) \/ Handshakes(c, s) PROVE JoinInv'
    BY <1>4, BrokerKeeps, HandshakesKeeps
  <1>5. ASSUME NEW c \in Callers,
               CallerParks(c) \/ CallerStarts(c) \/ DialArrives(c) \/ DialTimesOut(c) \/ CallerFails(c)
        PROVE  JoinInv'
    <2>1. CallerParks(c) => JoinInv'
      BY ParksKeeps, EndsApart DEF CallerParks
    <2> QED
      BY <1>5, <2>1, CallerStartsKeeps, DialArrivesKeeps, DialTimesOutKeeps, CallerFailsKeeps
  <1>6. ASSUME NEW s \in JoinSlots,
               AcceptorParks(s) \/ AcceptorStarts(s) \/ Accepts(s) \/ AcceptFails(s) \/ AcceptTimesOut(s)
        PROVE  JoinInv'
    <2>1. AcceptorParks(s) => JoinInv'
      BY ParksKeeps, EndsApart DEF AcceptorParks
    <2> QED
      BY <1>6, <2>1, AcceptorStartsKeeps, AcceptsKeeps, AcceptFailsKeeps, AcceptTimesOutKeeps
  <1> QED
    BY <1>1, <1>2, <1>3, <1>4, <1>5, <1>6, NoticesKeeps DEF JoinNext

\* What the invariant says of sessions and legs.
LEMMA JoinSays == JoinInv => JoinSound
  <1> SUFFICES ASSUME JoinInv PROVE JoinSound
    OBVIOUS
  <1>1. JoinTypeOK
    BY DEF JoinInv, JoinTypeOK, EndRecords
  <1>2. SessionAsAdmitted
    BY DEF JoinInv, JoinPlaced, AsAdmitted, SessionAsAdmitted, At
  <1>3. NoLegLeftBehind
    <2>1. ASSUME NEW c \in Callers, NEW s \in JoinSlots, setup.slots = {s}, ~mishap, ends[s].at \in {"out", "parked"}
          PROVE  ~(ends[c].at \in {"admitted", "dial"}) /\ ~Waits(c)
      <3>1. ~OnItsWay(ends, OpenIn(queue), c)
        BY <2>1 DEF JoinInv, JoinPlaced, PairedAlone
      <3>2. Waits(c) <=> c \in OpenIn(queue)
        BY WaitsIs, EndsApart DEF JoinInv
      <3> QED
        BY <3>1, <3>2 DEF OnItsWay
    <2> QED
      BY <2>1 DEF NoLegLeftBehind
  <1>4. EveryLegAwaited
    <2>1. DOMAIN queue = 1..Len(queue) /\ \A i \in DOMAIN queue : queue[i] \in Legs
      BY DEF JoinInv
    <2>2. \A i \in DOMAIN queue : queue[i].open => queue[i].of \in OpenIn(queue)
      BY <2>1, LegIs DEF OpenIn
    <2> QED
      BY <2>1, <2>2 DEF JoinInv, JoinPlaced, LegsWait, Once, EveryLegAwaited
  <1> QED
    BY <1>1, <1>2, <1>3, <1>4 DEF JoinSound, LegsAccounted

\* For any callers, slots, pins and pairings, whatever legs are lost, dials given up and closed legs spliced by
\* the edge: a session of the acceptor runs with the member its admission named and its pin lets through, though
\* the shared listener and the relay may hand it another's leg; an open leg waits at the relay once, for a join
\* that waits for it; and an acceptor with one slot that is free again leaves no caller of its behind, unless one
\* of these mishaps came in between (channel_run, serving.rs).
THEOREM JoinAlwaysSound == JoinSpec => []JoinSound
  <1> QED
    BY JoinStarts, JoinKeeps, JoinSays, PTL DEF JoinSpec

-----------------------------------------------------------------------------
(* The upgrade of a relay session (RelayUpgrade). *)

OfferingRecords == [at : ListenerStates, seen : Reach]
AnsweringRecords == [at : DialerStates, offer : Offers]
LaneRecords == [by : {"none", "peer", "stranger"}, up : BOOLEAN, toListener : 0 .. 1, toDialer : 0 .. 1]

\* The dialer is past its dial only once the listener waits for the stream or is past that; ...
DialTaken(l, d) ==
    d.at \in {"opening", "writing", "reading", "direct"} => l.at \in {"stream", "writing", "reading", "direct", "relay"}

\* ... and what it wrote lies in the lane until the listener has read it.
FirstFlight(l, d, n) ==
    n.by = "peer" /\ n.up /\ d.at = "reading" /\ l.at \in {"stream", "reading"} => n.toListener = 1

UpgradeInv == UpgradeTypeOK /\ DialTaken(listening, answering) /\ FirstFlight(listening, answering, lane)

\* The state, part by part.
LEMMA UpgradeKnown ==
    ASSUME UpgradeInv
    PROVE  /\ listening \in OfferingRecords /\ answering \in AnsweringRecords /\ lane \in LaneRecords
           /\ control \in SUBSET {"offer", "ready", "decline"}
           /\ listening.at \in ListenerStates /\ answering.at \in DialerStates
           /\ DialTaken(listening, answering) /\ FirstFlight(listening, answering, lane)
  BY DEF UpgradeInv, UpgradeTypeOK, OfferingRecords, AnsweringRecords, LaneRecords

\* What a step has to show.
LEMMA UpgradeAgain ==
    ASSUME listening' \in OfferingRecords, answering' \in AnsweringRecords, lane' \in LaneRecords,
           control' \in SUBSET {"offer", "ready", "decline"},
           DialTaken(listening', answering'), FirstFlight(listening', answering', lane')
    PROVE  UpgradeInv'
  BY DEF UpgradeInv, UpgradeTypeOK, OfferingRecords, AnsweringRecords, LaneRecords

\* The listener moves before or after the handshake, or gives up.
LEMMA ListenerMoves ==
    ASSUME UpgradeInv, NEW to \in ListenerStates, ListenerGoes(to), UNCHANGED <<answering, lane>>,
           control' \in SUBSET {"offer", "ready", "decline"},
           listening.at \in {"stream", "writing", "reading", "direct", "relay"} => to \in {"writing", "reading", "direct", "relay"},
           to = "stream" => listening.at = "connecting",
           to = "reading" => listening.at = "stream"
    PROVE  UpgradeInv'
  <1>1. listening' \in OfferingRecords /\ listening'.at = to
    BY UpgradeKnown DEF ListenerGoes, OfferingRecords
  <1>2. DialTaken(listening', answering)
    BY <1>1, UpgradeKnown DEF DialTaken
  <1>3. FirstFlight(listening', answering, lane)
    BY <1>1, UpgradeKnown DEF DialTaken, FirstFlight
  <1> QED
    BY <1>1, <1>2, <1>3, UpgradeKnown, UpgradeAgain

\* The dialer moves before or after the handshake, or gives up.
LEMMA DialerMoves ==
    ASSUME UpgradeInv, NEW to \in DialerStates, DialerGoes(to), listening' = listening, lane' \in LaneRecords,
           control' \in SUBSET {"offer", "ready", "decline"}, to # "reading",
           to \in {"opening", "writing", "direct"} => listening.at \in {"stream", "writing", "reading", "direct", "relay"}
    PROVE  UpgradeInv'
  <1>1. answering' \in AnsweringRecords /\ answering'.at = to
    BY UpgradeKnown DEF DialerGoes, AnsweringRecords
  <1>2. DialTaken(listening, answering') /\ FirstFlight(listening, answering', lane')
    BY <1>1, UpgradeKnown DEF DialTaken, FirstFlight
  <1> QED
    BY <1>1, <1>2, UpgradeKnown, UpgradeAgain

\* The lane changes while neither has read or written in it.
LEMMA LaneMoves ==
    ASSUME UpgradeInv, lane' \in LaneRecords, UNCHANGED <<listening, answering, control>>,
           lane'.by # "peer" \/ ~lane'.up \/ answering.at = "dialing"
    PROVE  UpgradeInv'
  <1>1. FirstFlight(listening, answering, lane')
    BY DEF FirstFlight
  <1> QED
    BY <1>1, UpgradeKnown, UpgradeAgain

\* A lane that a dial opens, and one that is lost.
LEMMA OpenLane ==
    ASSUME NEW who \in {"peer", "stranger"}, NEW n, n = [NoLane EXCEPT !.by = who, !.up = TRUE]
    PROVE  n \in LaneRecords /\ n.by = who
  <1>0. PICK z \in 0 .. 1 : z = 0
    OBVIOUS
  <1>1. PICK b \in BOOLEAN : b = TRUE
    BY Zenon
  <1>2. n = [by |-> who, up |-> b, toListener |-> z, toDialer |-> z]
    BY <1>0, <1>1 DEF NoLane
  <1>3. who \in {"none", "peer", "stranger"} /\ b \in BOOLEAN /\ z \in 0 .. 1
    BY <1>0, <1>1
  <1> QED
    BY <1>2, <1>3 DEF LaneRecords

\* A lane that is lost has nothing more on its way.
LEMMA LostLane ==
    ASSUME lane \in LaneRecords, NEW n, n = [lane EXCEPT !.up = FALSE, !.toListener = 0, !.toDialer = 0]
    PROVE  n \in LaneRecords /\ ~n.up
  <1>0. PICK z \in 0 .. 1 : z = 0
    OBVIOUS
  <1>1. PICK b \in BOOLEAN : b = FALSE
    BY Zenon
  <1>2. n = [lane EXCEPT !.up = b, !.toListener = z, !.toDialer = z]
    BY <1>0, <1>1
  <1>3. n \in LaneRecords /\ n.up = b
    BY <1>0, <1>2 DEF LaneRecords
  <1> QED
    BY <1>1, <1>3

\* The steps of the initiator up to the stream.
LEMMA ListenerSteps ==
    ASSUME UpgradeInv,
           BuildsCandidate \/ QueryTarget \/ Answered \/ TakesDial \/ NoDialInTime \/ IncomingConnects \/ AcceptsStream \/ ListenerFails
    PROVE  UpgradeInv'
  <1> USE DEF ListenerStates
  <1>1. CASE BuildsCandidate
    BY <1>1, UpgradeKnown, ListenerMoves DEF BuildsCandidate
  <1>2. CASE QueryTarget
    BY <1>2, UpgradeKnown, ListenerMoves DEF QueryTarget
  <1>3. CASE Answered
    <2>1. PICK frame \in control \ {"offer"} :
            control' = control \ {frame} /\ ListenerGoes(IF frame = "ready" THEN "accepting" ELSE "relay")
      BY <1>3 DEF Answered
    <2>2. control' \in SUBSET {"offer", "ready", "decline"} /\ UNCHANGED <<answering, lane>> /\ listening.at = "offered"
      BY <1>3, <2>1, UpgradeKnown DEF Answered
    <2> QED
      BY <2>1, <2>2, ListenerMoves
  <1>4. CASE TakesDial
    BY <1>4, UpgradeKnown, ListenerMoves DEF TakesDial
  <1>5. CASE NoDialInTime
    BY <1>5, UpgradeKnown, ListenerMoves DEF NoDialInTime
  <1>6. CASE IncomingConnects
    BY <1>6, UpgradeKnown, ListenerMoves DEF IncomingConnects
  <1>7. CASE AcceptsStream
    BY <1>7, UpgradeKnown, ListenerMoves DEF AcceptsStream, NoiseInitiator
  <1>8. CASE ListenerFails
    BY <1>8, UpgradeKnown, ListenerMoves DEF ListenerFails
  <1> QED
    BY <1>1, <1>2, <1>3, <1>4, <1>5, <1>6, <1>7, <1>8

\* An offer is made.
LEMMA OfferSteps ==
    ASSUME UpgradeInv, Offer \/ OlderPeerOffers
    PROVE  UpgradeInv'
  <1>1. PICK to \in ListenerStates, o \in Offers :
          /\ to \in {"offered", "relay"} /\ ListenerGoes(to) /\ answering' = [answering EXCEPT !.offer = o]
          /\ control' \in SUBSET {"offer", "ready", "decline"} /\ lane' = lane /\ listening.at \in {"joined", "asked"}
    <2>1. CASE OlderPeerOffers
      BY <2>1 DEF OlderPeerOffers, ListenerStates
    <2>2. CASE Offer
      <3>1. PICK reflexive \in Reach :
              IF reflexive = "global"
                THEN /\ ListenerGoes("offered")
                     /\ answering' = [answering EXCEPT !.offer = [NoOffer EXCEPT !.reflexive = reflexive]]
                     /\ control' = {"offer"}
                ELSE ListenerGoes("relay") /\ UNCHANGED <<answering, control>>
        BY <2>2 DEF Offer, Whoami
      <3>2. lane' = lane /\ listening.at = "asked"
        BY <2>2 DEF Offer
      <3>3. [NoOffer EXCEPT !.reflexive = reflexive] \in Offers
        BY DEF NoOffer, Offers, Reach
      <3>4. CASE reflexive = "global"
        BY <3>1, <3>2, <3>3, <3>4 DEF ListenerStates
      <3>5. CASE reflexive # "global"
        <4>1. answering' = [answering EXCEPT !.offer = answering.offer] /\ answering.offer \in Offers
          BY <3>1, <3>5, UpgradeKnown DEF AnsweringRecords
        <4> QED
          BY <3>1, <3>2, <3>5, <4>1, UpgradeKnown DEF ListenerStates
      <3> QED
        BY <3>4, <3>5
    <2> QED
      BY <2>1, <2>2
  <1>2. listening' \in OfferingRecords /\ listening'.at = to
    BY <1>1, UpgradeKnown DEF ListenerGoes, OfferingRecords
  <1>3. answering' \in AnsweringRecords /\ answering'.at = answering.at
    BY <1>1, UpgradeKnown DEF AnsweringRecords
  <1>4. DialTaken(listening', answering') /\ FirstFlight(listening', answering', lane)
    BY <1>1, <1>2, <1>3, UpgradeKnown DEF DialTaken, FirstFlight
  <1> QED
    BY <1>1, <1>2, <1>3, <1>4, UpgradeKnown, UpgradeAgain

\* The listener reads and writes.
LEMMA ListenerTalks ==
    ASSUME UpgradeInv, ListenerWrites \/ ListenerReads
    PROVE  UpgradeInv'
  <1>1. PICK to \in {"direct", "relay", "writing"}, n \in LaneRecords :
          ListenerGoes(to) /\ lane' = n /\ UNCHANGED <<answering, control>> /\ listening.at \in {"writing", "reading"}
    <2>1. CASE ListenerWrites
      <3>1. [lane EXCEPT !.toDialer = 1] \in LaneRecords
        BY UpgradeKnown DEF LaneRecords
      <3> QED
        BY <2>1, <3>1 DEF ListenerWrites, NoiseInitiator
    <2>2. CASE ListenerReads
      <3>1. [lane EXCEPT !.toListener = 0] \in LaneRecords
        BY UpgradeKnown DEF LaneRecords
      <3>2. CASE lane.by = "stranger"
        BY <2>2, <3>1, <3>2 DEF ListenerReads, NoiseInitiator
      <3>3. CASE lane.by # "stranger"
        BY <2>2, <3>1, <3>3 DEF ListenerReads, NoiseInitiator
      <3> QED
        BY <3>2, <3>3
    <2> QED
      BY <2>1, <2>2
  <1>2. listening' \in OfferingRecords /\ listening'.at = to
    BY <1>1, UpgradeKnown DEF ListenerGoes, OfferingRecords, ListenerStates
  <1>3. DialTaken(listening', answering) /\ FirstFlight(listening', answering, n)
    BY <1>1, <1>2, UpgradeKnown DEF DialTaken, FirstFlight
  <1> QED
    BY <1>1, <1>2, <1>3, UpgradeKnown, UpgradeAgain

\* The steps of the responder.
LEMMA DialerSteps ==
    ASSUME UpgradeInv, Considers \/ Dials \/ OpensStream \/ DialerWrites \/ DialerReads \/ DialerFails
    PROVE  UpgradeInv'
  <1> USE DEF DialerStates
  <1>1. CASE Considers
    BY <1>1, UpgradeKnown, DialerMoves DEF Considers
  <1>2. CASE Dials
    <2>1. listening' = listening /\ control' = control /\ answering.at = "dialing"
      BY <1>2 DEF Dials
    <2>2. ASSUME lane' = [NoLane EXCEPT !.by = "peer", !.up = TRUE], answering' = answering PROVE UpgradeInv'
      <3>1. [NoLane EXCEPT !.by = "peer", !.up = TRUE] \in LaneRecords
        BY OpenLane
      <3> QED
        BY <2>1, <2>2, <3>1, LaneMoves
    <2>3. ASSUME DialerGoes("opening"), lane' = lane, listening.at \in {"stream", "writing", "reading"} PROVE UpgradeInv'
      BY <2>1, <2>3, UpgradeKnown, DialerMoves
    <2>4. ASSUME DialerGoes("relay"), lane' = IF lane.by = "peer" THEN [lane EXCEPT !.up = FALSE] ELSE lane PROVE UpgradeInv'
      <3>1. [lane EXCEPT !.up = FALSE] \in LaneRecords
        BY UpgradeKnown DEF LaneRecords
      <3>2. lane' \in LaneRecords
        BY <2>4, <3>1, UpgradeKnown
      <3> QED
        BY <2>1, <2>4, <3>2, UpgradeKnown, DialerMoves
    <2> QED
      BY <1>2, <2>2, <2>3, <2>4 DEF Dials
  <1>3. CASE OpensStream
    BY <1>3, UpgradeKnown, DialerMoves DEF OpensStream, NoiseInitiator, DialTaken
  <1>4. CASE DialerWrites
    <2>1. PICK n : n = [lane EXCEPT !.toListener = 1]
      OBVIOUS
    <2>2. n \in LaneRecords /\ n.toListener = 1
      BY <2>1, UpgradeKnown DEF LaneRecords
    <2>3. lane' = n /\ DialerGoes("reading") /\ UNCHANGED <<listening, control>> /\ answering.at = "writing"
      BY <1>4, <2>1 DEF DialerWrites, NoiseInitiator
    <2>4. answering' \in AnsweringRecords /\ answering'.at = "reading"
      BY <2>3, UpgradeKnown DEF DialerGoes, AnsweringRecords
    <2>5. DialTaken(listening, answering') /\ FirstFlight(listening, answering', n)
      BY <2>2, <2>3, <2>4, UpgradeKnown DEF DialTaken, FirstFlight
    <2> QED
      BY <2>2, <2>3, <2>4, <2>5, UpgradeKnown, UpgradeAgain
  <1>5. CASE DialerReads
    <2>1. [lane EXCEPT !.toDialer = 0] \in LaneRecords
      BY UpgradeKnown DEF LaneRecords
    <2> QED
      BY <1>5, <2>1, UpgradeKnown, DialerMoves DEF DialerReads, NoiseInitiator, DialTaken
  <1>6. CASE DialerFails
    BY <1>6, UpgradeKnown, DialerMoves DEF DialerFails
  <1> QED
    BY <1>1, <1>2, <1>3, <1>4, <1>5, <1>6

\* A stranger, and the loss of the lane.
LEMMA LaneSteps ==
    ASSUME UpgradeInv, StrangerDials \/ StrangerWrites \/ LaneDies
    PROVE  UpgradeInv'
  <1>1. CASE StrangerDials
    <2>1. PICK n : n = [NoLane EXCEPT !.by = "stranger", !.up = TRUE]
      OBVIOUS
    <2>2. n \in LaneRecords /\ n.by = "stranger"
      BY <2>1, OpenLane
    <2> QED
      BY <1>1, <2>1, <2>2, LaneMoves DEF StrangerDials
  <1>2. CASE StrangerWrites
    <2>1. PICK n : n = [lane EXCEPT !.toListener = 1]
      OBVIOUS
    <2>2. n \in LaneRecords /\ n.by = lane.by
      BY <2>1, UpgradeKnown DEF LaneRecords
    <2> QED
      BY <1>2, <2>1, <2>2, LaneMoves DEF StrangerWrites
  <1>3. CASE LaneDies
    <2>1. PICK n : n = [lane EXCEPT !.up = FALSE, !.toListener = 0, !.toDialer = 0]
      OBVIOUS
    <2>2. n \in LaneRecords /\ ~n.up
      BY <2>1, UpgradeKnown, LostLane
    <2> QED
      BY <1>3, <2>1, <2>2, LaneMoves DEF LaneDies
  <1> QED
    BY <1>1, <1>2, <1>3

\* Once the two peers are in the handshake on a living direct connection, they never both wait for the other
\* to write: the listener is past nothing the dialer wrote unless it read it (connectivity.rs, dialing.rs).
THEOREM NeverBlockedForGood == UpgradeSpec => []NeverBlockEachOther
  <1>1. UpgradeInit => UpgradeInv
    <2> SUFFICES ASSUME UpgradeInit PROVE UpgradeInv
      OBVIOUS
    <2>1. UpgradeTypeOK
      BY DEF UpgradeInit, UpgradeTypeOK, ListenerStates, DialerStates, Reach, Offers, NoOffer, NoLane
    <2>2. answering.at = "joined"
      BY DEF UpgradeInit
    <2> QED
      BY <2>1, <2>2 DEF UpgradeInv, DialTaken, FirstFlight
  <1>2. UpgradeInv /\ [UpgradeNext]_upgradeVars => UpgradeInv'
    <2> SUFFICES ASSUME UpgradeInv, [UpgradeNext]_upgradeVars PROVE UpgradeInv'
      OBVIOUS
    <2>1. CASE UNCHANGED upgradeVars
      BY <2>1 DEF upgradeVars, UpgradeInv, UpgradeTypeOK
    <2>2. CASE UpgradeNext
      BY <2>2, ListenerSteps, OfferSteps, ListenerTalks, DialerSteps, LaneSteps DEF UpgradeNext
    <2> QED
      BY <2>1, <2>2
  <1>3. UpgradeInv => NeverBlockEachOther
    <2> SUFFICES ASSUME UpgradeInv PROVE NeverBlockEachOther
      OBVIOUS
    <2>1. lane.toListener \in 0 .. 1 /\ lane.toDialer \in 0 .. 1
      BY UpgradeKnown DEF LaneRecords
    <2> QED
      BY <2>1 DEF UpgradeInv, FirstFlight, NeverBlockEachOther
  <1> QED
    BY <1>1, <1>2, <1>3, PTL DEF UpgradeSpec

-----------------------------------------------------------------------------
(* The two joints of an ssh session (SshAccess). *)

SshItems == {"byte", "magic", "nonce", "yes", "no", "right", "wrong", "eof"} \X Nat
SshPlaces == {"dial", "head", "challenge", "verdict", "pump", "drain", "exited"}
SshWhys == {"none", "unreachable", "preamble", "broken", "eof", "drained"}

SshTyped ==
    /\ setting \in [asks : BOOLEAN, key : {"right", "wrong", "none"}]
    /\ client \in [at : SshPlaces, why : SshWhys]
    /\ door \in {"accept", "ask", "relay", "closed"}
    /\ wire \in [up : Seq(SshItems), down : Seq(SshItems)]
    /\ ssh \in [sent : Nat, closed : BOOLEAN, got : Seq(Nat)]
    /\ sshd \in [sent : Nat, got : Seq(Nat), eof : BOOLEAN]

\* One direction of the wire: what is left of the preamble, then the bytes that are written and not
\* yet read, in order, and nothing but ends of the stream after them.
LaidOut(q, pre, read, written) ==
    /\ read <= written /\ Len(q) >= Len(pre) + (written - read)
    /\ \A i \in 1..Len(pre) : q[i] = pre[i]
    /\ \A i \in 1..(written - read) : q[Len(pre) + i] = SshByte(read + i)
    /\ \A i \in 1..Len(q) : i > Len(pre) + (written - read) => q[i] = Part("eof")

\* No end of the stream is under way.
Bare(q, pre, read, written) == Len(q) = Len(pre) + (written - read)

\* The writer goes on.
LEMMA LaidByte ==
    ASSUME NEW q \in Seq(SshItems), NEW pre \in Seq(SshItems), NEW g \in Nat, NEW n \in Nat,
           LaidOut(q, pre, g, n), Bare(q, pre, g, n)
    PROVE  LaidOut(Append(q, SshByte(n + 1)), pre, g, n + 1) /\ Bare(Append(q, SshByte(n + 1)), pre, g, n + 1)
  <1>1. PICK l \in Nat : l = Len(pre)
    OBVIOUS
  <1>2. g <= n /\ Len(q) = l + (n - g)
    BY <1>1 DEF LaidOut, Bare
  <1>3. PICK x : x = SshByte(n + 1)
    OBVIOUS
  <1>4. PICK a : a = Append(q, x)
    OBVIOUS
  <1>5. Len(a) = Len(q) + 1 /\ a[Len(q) + 1] = x /\ \A i \in 1..Len(q) : a[i] = q[i]
    BY <1>4
  <1>6. ASSUME NEW i \in 1..l PROVE a[i] = pre[i]
    <2>1. q[i] = pre[i]
      BY <1>1 DEF LaidOut
    <2>2. i \in 1..Len(q)
      BY <1>1, <1>2
    <2> QED
      BY <1>5, <2>1, <2>2
  <1>7. ASSUME NEW i \in 1..((n + 1) - g) PROVE a[l + i] = SshByte(g + i)
    <2>1. CASE i \in 1..(n - g)
      <3>1. q[l + i] = SshByte(g + i)
        BY <1>1, <2>1 DEF LaidOut
      <3>2. l + i \in 1..Len(q)
        BY <1>2, <2>1
      <3> QED
        BY <1>5, <3>1, <3>2
    <2>2. CASE i = (n + 1) - g
      <3>1. l + i = Len(q) + 1 /\ g + i = n + 1
        BY <1>2, <2>2
      <3> QED
        BY <1>3, <1>5, <3>1
    <2> QED
      BY <1>2, <2>1, <2>2
  <1>8. \A i \in 1..Len(a) : ~(i > l + ((n + 1) - g))
    BY <1>2, <1>5
  <1>9. g <= n + 1 /\ Len(a) = l + ((n + 1) - g)
    BY <1>2, <1>5
  <1>10. LaidOut(a, pre, g, n + 1) /\ Bare(a, pre, g, n + 1)
    BY <1>1, <1>6, <1>7, <1>8, <1>9 DEF LaidOut, Bare
  <1> QED
    BY <1>3, <1>4, <1>10, Zenon

\* The stream ends.
LEMMA LaidOutEnd ==
    ASSUME NEW q \in Seq(SshItems), NEW pre \in Seq(SshItems), NEW g \in Nat, NEW n \in Nat, LaidOut(q, pre, g, n)
    PROVE  LaidOut(Append(q, Part("eof")), pre, g, n)
  <1>1. PICK l \in Nat : l = Len(pre)
    OBVIOUS
  <1>2. g <= n /\ Len(q) >= l + (n - g) /\ Len(q) \in Nat
    BY <1>1 DEF LaidOut
  <1>3. PICK x : x = Part("eof")
    OBVIOUS
  <1>4. PICK a : a = Append(q, x)
    OBVIOUS
  <1>5. Len(a) = Len(q) + 1 /\ a[Len(q) + 1] = x /\ \A i \in 1..Len(q) : a[i] = q[i]
    BY <1>4
  <1>6. ASSUME NEW i \in 1..l PROVE a[i] = pre[i]
    <2>1. q[i] = pre[i]
      BY <1>1 DEF LaidOut
    <2>2. i \in 1..Len(q)
      BY <1>1, <1>2
    <2> QED
      BY <1>5, <2>1, <2>2
  <1>7. ASSUME NEW i \in 1..(n - g) PROVE a[l + i] = SshByte(g + i)
    <2>1. q[l + i] = SshByte(g + i)
      BY <1>1 DEF LaidOut
    <2>2. l + i \in 1..Len(q)
      BY <1>2
    <2> QED
      BY <1>5, <2>1, <2>2
  <1>8. ASSUME NEW i \in 1..Len(a), i > l + (n - g) PROVE a[i] = x
    <2>1. CASE i = Len(q) + 1
      BY <1>5, <2>1
    <2>2. CASE i \in 1..Len(q)
      <3>1. q[i] = x
        BY <1>1, <1>3, <1>8, <2>2 DEF LaidOut
      <3> QED
        BY <1>5, <2>2, <3>1
    <2>3. i = Len(q) + 1 \/ i \in 1..Len(q)
      BY <1>2, <1>5, SMTT(30)
    <2> QED
      BY <2>1, <2>2, <2>3
  <1>9. Len(a) >= l + (n - g)
    BY <1>2, <1>5
  <1>10. LaidOut(a, pre, g, n)
    BY <1>1, <1>2, <1>3, <1>6, <1>7, <1>8, <1>9 DEF LaidOut
  <1> QED
    BY <1>3, <1>4, <1>10, Zenon

\* The preamble goes on, before any byte.
LEMMA LaidMore ==
    ASSUME NEW q \in Seq(SshItems), NEW pre \in Seq(SshItems), NEW x \in SshItems,
           LaidOut(q, pre, 0, 0), Bare(q, pre, 0, 0)
    PROVE  LaidOut(Append(q, x), Append(pre, x), 0, 0) /\ Bare(Append(q, x), Append(pre, x), 0, 0)
  <1>1. PICK l \in Nat : l = Len(pre) /\ Len(q) = l
    BY DEF Bare
  <1>2. PICK a : a = Append(q, x)
    OBVIOUS
  <1>3. PICK b : b = Append(pre, x)
    OBVIOUS
  <1>4. Len(a) = l + 1 /\ a[l + 1] = x /\ (\A i \in 1..l : a[i] = q[i])
    BY <1>1, <1>2
  <1>5. Len(b) = l + 1 /\ b[l + 1] = x /\ (\A i \in 1..l : b[i] = pre[i])
    BY <1>1, <1>3
  <1>6. \A i \in 1..l : q[i] = pre[i]
    BY <1>1 DEF LaidOut
  <1>7. \A i \in 1..(l + 1) : a[i] = b[i]
    BY <1>4, <1>5, <1>6
  <1>8. LaidOut(a, b, 0, 0) /\ Bare(a, b, 0, 0)
    BY <1>4, <1>5, <1>7 DEF LaidOut, Bare
  <1> QED
    BY <1>2, <1>3, <1>8

\* The reader takes a part of the preamble.
LEMMA LaidPart ==
    ASSUME NEW q \in Seq(SshItems), NEW pre \in Seq(SshItems), NEW g \in Nat, NEW n \in Nat,
           LaidOut(q, pre, g, n), pre # << >>
    PROVE  /\ q # << >> /\ Head(q) = Head(pre) /\ LaidOut(Tail(q), Tail(pre), g, n)
           /\ Bare(q, pre, g, n) => Bare(Tail(q), Tail(pre), g, n)
  <1>1. PICK l \in Nat : l = Len(pre) /\ l > 0
    OBVIOUS
  <1>2. g <= n /\ Len(q) >= l + (n - g) /\ Len(q) \in Nat /\ q[1] = pre[1]
    BY <1>1 DEF LaidOut
  <1>3. q # << >> /\ Head(q) = Head(pre)
    BY <1>1, <1>2
  <1>4. PICK a : a = Tail(q)
    OBVIOUS
  <1>5. PICK b : b = Tail(pre)
    OBVIOUS
  <1>6. Len(a) = Len(q) - 1 /\ (\A i \in 1..(Len(q) - 1) : a[i] = q[i + 1])
    BY <1>3, <1>4
  <1>7. Len(b) = l - 1 /\ (\A i \in 1..(l - 1) : b[i] = pre[i + 1])
    BY <1>1, <1>5
  <1>8. ASSUME NEW i \in 1..(l - 1) PROVE a[i] = b[i]
    <2>1. i + 1 \in 1..l /\ i \in 1..(Len(q) - 1)
      BY <1>1, <1>2
    <2>2. q[i + 1] = pre[i + 1]
      BY <1>1, <2>1 DEF LaidOut
    <2> QED
      BY <1>6, <1>7, <2>1, <2>2
  <1>9. ASSUME NEW i \in 1..(n - g) PROVE a[(l - 1) + i] = SshByte(g + i)
    <2>1. q[l + i] = SshByte(g + i)
      BY <1>1 DEF LaidOut
    <2>2. (l - 1) + i \in 1..(Len(q) - 1) /\ ((l - 1) + i) + 1 = l + i
      BY <1>1, <1>2
    <2> QED
      BY <1>6, <2>1, <2>2
  <1>10. ASSUME NEW i \in 1..Len(a), i > (l - 1) + (n - g) PROVE a[i] = Part("eof")
    <2>a. i \in 1..(Len(q) - 1) /\ i \in Nat
      BY <1>2, <1>6
    <2>b. a[i] = q[i + 1]
      BY <1>6, <2>a
    <2>c. i + 1 \in 1..Len(q) /\ i + 1 > l + (n - g)
      BY <1>1, <1>2, <1>10, <2>a
    <2>1. i + 1 \in 1..Len(q) /\ i + 1 > l + (n - g) /\ a[i] = q[i + 1]
      BY <2>b, <2>c
    <2> QED
      BY <1>1, <2>1 DEF LaidOut
  <1>11. Len(a) >= (l - 1) + (n - g)
    BY <1>1, <1>2, <1>6
  <1>12. LaidOut(a, b, g, n)
    BY <1>2, <1>7, <1>8, <1>9, <1>10, <1>11 DEF LaidOut
  <1>13. Bare(q, pre, g, n) => Bare(a, b, g, n)
    BY <1>1, <1>2, <1>6, <1>7 DEF Bare
  <1> QED
    BY <1>3, <1>4, <1>5, <1>12, <1>13

\* The reader takes a byte, or the end after the last one.
LEMMA LaidFirst ==
    ASSUME NEW q \in Seq(SshItems), NEW g \in Nat, NEW n \in Nat, LaidOut(q, << >>, g, n), q # << >>
    PROVE  \/ /\ g < n /\ Head(q) = SshByte(g + 1) /\ LaidOut(Tail(q), << >>, g + 1, n)
              /\ Bare(q, << >>, g, n) => Bare(Tail(q), << >>, g + 1, n)
           \/ g = n /\ Head(q) = Part("eof") /\ LaidOut(Tail(q), << >>, g, n) /\ ~Bare(q, << >>, g, n)
  <1>0. Len(<< >>) = 0
    OBVIOUS
  <1>1. g <= n /\ Len(q) >= n - g /\ Len(q) \in Nat /\ Len(q) > 0
    BY <1>0 DEF LaidOut
  <1>2. PICK a : a = Tail(q)
    OBVIOUS
  <1>3. Len(a) = Len(q) - 1 /\ (\A i \in 1..(Len(q) - 1) : a[i] = q[i + 1]) /\ Head(q) = q[1]
    BY <1>1, <1>2
  <1>4. \A i \in 1..(n - g) : q[i] = SshByte(g + i)
    BY <1>0 DEF LaidOut
  <1>5. \A i \in 1..Len(q) : i > n - g => q[i] = Part("eof")
    BY <1>0 DEF LaidOut
  <1>6. CASE g < n
    <2>1. Head(q) = SshByte(g + 1)
      BY <1>1, <1>3, <1>4, <1>6
    <2>2. ASSUME NEW i \in 1..(n - (g + 1)) PROVE a[0 + i] = SshByte((g + 1) + i)
      <3>1. q[i + 1] = SshByte(g + (i + 1)) /\ i \in 1..(Len(q) - 1) /\ g + (i + 1) = (g + 1) + i /\ 0 + i = i
        BY <1>1, <1>4, <1>6
      <3> QED
        BY <1>3, <3>1
    <2>3. ASSUME NEW i \in 1..Len(a), i > 0 + (n - (g + 1)) PROVE a[i] = Part("eof")
      <3>1. i + 1 \in 1..Len(q) /\ i + 1 > n - g /\ a[i] = q[i + 1]
        BY <1>1, <1>3, <2>3
      <3> QED
        BY <1>5, <3>1
    <2>4. g + 1 <= n /\ Len(a) >= 0 + (n - (g + 1))
      BY <1>1, <1>3, <1>6
    <2>5. LaidOut(a, << >>, g + 1, n)
      BY <1>0, <2>2, <2>3, <2>4 DEF LaidOut
    <2>6. Bare(q, << >>, g, n) => Bare(a, << >>, g + 1, n)
      BY <1>0, <1>1, <1>3 DEF Bare
    <2> QED
      BY <1>2, <1>6, <2>1, <2>5, <2>6
  <1>7. CASE ~(g < n)
    <2>0. g = n
      BY <1>1, <1>7
    <2>1. Head(q) = Part("eof") /\ ~Bare(q, << >>, g, n)
      BY <1>0, <1>1, <1>3, <1>5, <2>0 DEF Bare
    <2>2. ASSUME NEW i \in 1..Len(a) PROVE a[i] = Part("eof")
      BY <1>1, <1>3, <1>5, <2>0
    <2>3. g <= n /\ Len(a) >= 0 + (n - g) /\ 1..(n - g) = {} /\ 1..0 = {}
      BY <1>1, <1>3, <2>0
    <2>4. LaidOut(a, << >>, g, n)
      BY <1>0, <2>2, <2>3 DEF LaidOut
    <2> QED
      BY <1>2, <2>0, <2>1, <2>4
  <1> QED
    BY <1>6, <1>7

-----------------------------------------------------------------------------

\* What is left of the preamble for a client at a place, when the verdict is not written yet or is v.
Ahead(asks, at, v) ==
    IF ~asks \/ at \in {"pump", "drain"} THEN << >>
    ELSE IF at = "head" THEN IF v = "none" THEN <<Part("magic"), Part("nonce")>>
                             ELSE <<Part("magic"), Part("nonce"), Part(v)>>
    ELSE IF at = "challenge" THEN IF v = "none" THEN <<Part("nonce")>> ELSE <<Part("nonce"), Part(v)>>
    ELSE IF v = "none" THEN << >> ELSE <<Part(v)>>

SshVerdicts == {"none", "yes", "no"}
SshReading == {"head", "challenge", "verdict", "pump", "drain"}

\* The wire to the client.
DownIs(asks, key, at, dr, q, g, n) ==
    \E v \in SshVerdicts :
      /\ LaidOut(q, Ahead(asks, at, v), g, n)
      /\ dr # "closed" => Bare(q, Ahead(asks, at, v), g, n)
      /\ asks => /\ dr = "ask" => v = "none"
                 /\ dr = "relay" => v = "yes"
                 /\ v = "yes" => key = "right"
                 /\ v # "yes" => at \notin {"pump", "drain"} /\ n = 0

\* The wire to the agent, with or without the tag of the key first.
Tag(k, key) == IF k THEN <<Part(key)>> ELSE << >>
UpIs(key, at, dr, q, h, s) ==
    \E k \in BOOLEAN :
      /\ LaidOut(q, Tag(k, key), h, s)
      /\ at \notin {"drain", "exited"} => Bare(q, Tag(k, key), h, s)
      /\ k => dr = "ask" /\ key # "none" /\ at \notin {"head", "challenge"}
      /\ at = "verdict" /\ dr = "ask" => k

DownSays ==
    client.at \in SshReading /\ door # "accept" =>
      DownIs(setting.asks, setting.key, client.at, door, wire.down, Len(ssh.got), sshd.sent)
UpSays == door \in {"ask", "relay"} /\ ~sshd.eof => UpIs(setting.key, client.at, door, wire.up, Len(sshd.got), ssh.sent)

\* Who can be where, and what has not begun by then.
SshWhere ==
    /\ client.at = "dial" => door = "accept"
    /\ door = "accept" => /\ client.at \in {"dial", "head", "exited"}
                          /\ client.at # "exited" => wire.up = << >> /\ wire.down = << >>
    /\ door \in {"accept", "ask"} => /\ sshd.sent = 0 /\ sshd.got = << >> /\ ~sshd.eof
                                     /\ ssh.sent = 0 /\ ssh.got = << >>
    /\ door = "ask" => setting.asks /\ client.at \notin {"dial", "pump", "drain"}
    /\ client.at \in {"dial", "head", "challenge", "verdict"} => ssh.sent = 0 /\ ssh.got = << >>
    /\ client.at \in {"challenge", "verdict"} => setting.asks /\ door # "accept"
    /\ client.at = "verdict" => setting.key # "none"
    /\ setting.asks /\ door = "relay" => client.at \notin {"head", "challenge"}
    /\ setting.asks /\ (door = "relay" \/ client.at \in {"pump", "drain"}) => setting.key = "right"
    /\ setting.asks /\ setting.key # "right" => ssh.got = << >> /\ sshd.got = << >>
    /\ client.why = "eof" => client.at = "exited" /\ door = "closed" /\ Len(ssh.got) = sshd.sent

SshInv == SshTyped /\ Numbered(ssh.got) /\ Numbered(sshd.got) /\ SshWhere /\ DownSays /\ UpSays

\* The parts of the preamble are items, and tell themselves apart.
LEMMA PartsAre ==
    /\ \A k \in {"magic", "nonce", "yes", "no", "right", "wrong", "eof"} : Part(k) \in SshItems /\ Part(k)[1] = k
    /\ \A n \in Nat : SshByte(n) \in SshItems /\ SshByte(n)[1] = "byte" /\ SshByte(n)[2] = n
  BY DEF Part, SshByte, SshItems

\* What is ahead, place by place.
LEMMA AheadIs ==
    ASSUME NEW v \in SshVerdicts, NEW asks \in BOOLEAN, NEW at \in SshReading
    PROVE  /\ Ahead(asks, at, v) \in Seq(SshItems)
           /\ Ahead(TRUE, "head", v) # << >> /\ Head(Ahead(TRUE, "head", v)) = Part("magic")
           /\ Tail(Ahead(TRUE, "head", v)) = Ahead(TRUE, "challenge", v)
           /\ Ahead(TRUE, "challenge", v) # << >> /\ Head(Ahead(TRUE, "challenge", v)) = Part("nonce")
           /\ Tail(Ahead(TRUE, "challenge", v)) = Ahead(TRUE, "verdict", v)
           /\ v = "none" => Ahead(TRUE, "verdict", v) = << >>
           /\ v # "none" => /\ Ahead(TRUE, "verdict", v) # << >> /\ Head(Ahead(TRUE, "verdict", v)) = Part(v)
                            /\ Tail(Ahead(TRUE, "verdict", v)) = << >>
           /\ Ahead(FALSE, at, v) = << >> /\ Ahead(asks, "pump", v) = << >> /\ Ahead(asks, "drain", v) = << >>
  <1>1. PICK m \in SshItems : m = Part("magic")
    BY PartsAre
  <1>2. PICK c \in SshItems : c = Part("nonce")
    BY PartsAre
  <1>3. CASE v = "none"
    <2>1. /\ Ahead(TRUE, "head", v) = <<m, c>> /\ Ahead(TRUE, "challenge", v) = <<c>> /\ Ahead(TRUE, "verdict", v) = << >>
          /\ Ahead(FALSE, at, v) = << >> /\ Ahead(asks, "pump", v) = << >> /\ Ahead(asks, "drain", v) = << >>
      BY <1>1, <1>2, <1>3 DEF Ahead
    <2>2. Tail(<<m, c>>) = <<c>> /\ Tail(<<c>>) = << >> /\ Head(<<m, c>>) = m /\ Head(<<c>>) = c
          /\ <<m, c>> # << >> /\ <<c>> # << >> /\ <<m, c>> \in Seq(SshItems) /\ <<c>> \in Seq(SshItems)
          /\ << >> \in Seq(SshItems)
      OBVIOUS
    <2>3. Ahead(asks, at, v) \in Seq(SshItems)
      BY <1>1, <1>2, <1>3, <2>2 DEF Ahead
    <2> QED
      BY <1>1, <1>2, <1>3, <2>1, <2>2, <2>3
  <1>4. CASE v # "none"
    <2>0. PICK x \in SshItems : x = Part(v)
      BY <1>4, PartsAre DEF SshVerdicts
    <2>1. /\ Ahead(TRUE, "head", v) = <<m, c, x>> /\ Ahead(TRUE, "challenge", v) = <<c, x>> /\ Ahead(TRUE, "verdict", v) = <<x>>
          /\ Ahead(FALSE, at, v) = << >> /\ Ahead(asks, "pump", v) = << >> /\ Ahead(asks, "drain", v) = << >>
      BY <1>1, <1>2, <1>4, <2>0 DEF Ahead
    <2>2. /\ Tail(<<m, c, x>>) = <<c, x>> /\ Tail(<<c, x>>) = <<x>> /\ Head(<<m, c, x>>) = m /\ Head(<<c, x>>) = c
          /\ Tail(<<x>>) = << >> /\ Head(<<x>>) = x
          /\ <<m, c, x>> # << >> /\ <<c, x>> # << >> /\ <<x>> # << >>
          /\ <<m, c, x>> \in Seq(SshItems) /\ <<c, x>> \in Seq(SshItems) /\ <<x>> \in Seq(SshItems) /\ << >> \in Seq(SshItems)
      OBVIOUS
    <2>3. Ahead(asks, at, v) \in Seq(SshItems)
      BY <1>1, <1>2, <1>4, <2>0, <2>2 DEF Ahead
    <2> QED
      BY <1>1, <1>2, <1>4, <2>0, <2>1, <2>2, <2>3
  <1> QED
    BY <1>3, <1>4

\* The verdict is written after what is ahead.
LEMMA AheadMore ==
    ASSUME NEW v \in {"yes", "no"}, NEW at \in {"head", "challenge", "verdict"}
    PROVE  Append(Ahead(TRUE, at, "none"), Part(v)) = Ahead(TRUE, at, v)
  <1>1. PICK m \in SshItems : m = Part("magic")
    BY PartsAre
  <1>2. PICK c \in SshItems : c = Part("nonce")
    BY PartsAre
  <1>3. PICK x \in SshItems : x = Part(v)
    BY PartsAre
  <1>a. Append(<<m, c>>, x) = <<m, c, x>>
    <2>1. PICK s : s = Append(<<m, c>>, x)
      OBVIOUS
    <2>2. PICK t : t = <<m, c, x>>
      OBVIOUS
    <2>3. s \in Seq(SshItems) /\ Len(s) = 3 /\ s[1] = m /\ s[2] = c /\ s[3] = x
      BY <2>1
    <2>4. t \in Seq(SshItems) /\ Len(t) = 3 /\ t[1] = m /\ t[2] = c /\ t[3] = x
      BY <2>2
    <2>5. \A i \in 1..3 : s[i] = t[i]
      BY <2>3, <2>4
    <2>6. s = t
      BY <2>3, <2>4, <2>5, SeqEqual
    <2> QED
      BY <2>1, <2>2, <2>6, Zenon
  <1>b. Append(<<c>>, x) = <<c, x>>
    <2>1. PICK s : s = Append(<<c>>, x)
      OBVIOUS
    <2>2. PICK t : t = <<c, x>>
      OBVIOUS
    <2>3. s \in Seq(SshItems) /\ Len(s) = 2 /\ s[1] = c /\ s[2] = x
      BY <2>1
    <2>4. t \in Seq(SshItems) /\ Len(t) = 2 /\ t[1] = c /\ t[2] = x
      BY <2>2
    <2>5. \A i \in 1..2 : s[i] = t[i]
      BY <2>3, <2>4
    <2>6. s = t
      BY <2>3, <2>4, <2>5, SeqEqual
    <2> QED
      BY <2>1, <2>2, <2>6, Zenon
  <1>c. Append(<< >>, x) = <<x>>
    OBVIOUS
  <1>4. Append(<<m, c>>, x) = <<m, c, x>> /\ Append(<<c>>, x) = <<c, x>> /\ Append(<< >>, x) = <<x>>
    BY <1>a, <1>b, <1>c
  <1>5. CASE at = "head"
    BY <1>1, <1>2, <1>3, <1>4, <1>5 DEF Ahead
  <1>6. CASE at = "challenge"
    BY <1>2, <1>3, <1>4, <1>6 DEF Ahead
  <1>7. CASE at = "verdict"
    BY <1>3, <1>4, <1>7 DEF Ahead
  <1> QED
    BY <1>5, <1>6, <1>7

\* The client takes the first part of the challenge ...
LEMMA DownHead ==
    ASSUME NEW key, NEW dr, NEW q \in Seq(SshItems), NEW n \in Nat, DownIs(TRUE, key, "head", dr, q, 0, n)
    PROVE  Head(q) = Part("magic") /\ DownIs(TRUE, key, "challenge", dr, Tail(q), 0, n)
  <1>1. PICK v \in SshVerdicts :
           /\ LaidOut(q, Ahead(TRUE, "head", v), 0, n) /\ (dr # "closed" => Bare(q, Ahead(TRUE, "head", v), 0, n))
           /\ (dr = "ask" => v = "none") /\ (dr = "relay" => v = "yes") /\ (v = "yes" => key = "right")
           /\ (v # "yes" => n = 0)
    BY DEF DownIs
  <1>2. PICK pre \in Seq(SshItems) : pre = Ahead(TRUE, "head", v) /\ pre # << >> /\ Head(pre) = Part("magic")
                                     /\ Tail(pre) = Ahead(TRUE, "challenge", v)
    BY AheadIs DEF SshReading
  <1>3. Head(q) = Head(pre) /\ LaidOut(Tail(q), Tail(pre), 0, n) /\ (Bare(q, pre, 0, n) => Bare(Tail(q), Tail(pre), 0, n))
    BY <1>1, <1>2, LaidPart
  <1> QED
    BY <1>1, <1>2, <1>3 DEF DownIs

\* ... the second of them ...
LEMMA DownNonce ==
    ASSUME NEW key, NEW dr, NEW q \in Seq(SshItems), NEW n \in Nat, DownIs(TRUE, key, "challenge", dr, q, 0, n)
    PROVE  DownIs(TRUE, key, "verdict", dr, Tail(q), 0, n)
  <1>1. PICK v \in SshVerdicts :
           /\ LaidOut(q, Ahead(TRUE, "challenge", v), 0, n) /\ (dr # "closed" => Bare(q, Ahead(TRUE, "challenge", v), 0, n))
           /\ (dr = "ask" => v = "none") /\ (dr = "relay" => v = "yes") /\ (v = "yes" => key = "right")
           /\ (v # "yes" => n = 0)
    BY DEF DownIs
  <1>2. PICK pre \in Seq(SshItems) : pre = Ahead(TRUE, "challenge", v) /\ pre # << >>
                                     /\ Tail(pre) = Ahead(TRUE, "verdict", v)
    BY AheadIs DEF SshReading
  <1>3. LaidOut(Tail(q), Tail(pre), 0, n) /\ (Bare(q, pre, 0, n) => Bare(Tail(q), Tail(pre), 0, n))
    BY <1>1, <1>2, LaidPart
  <1> QED
    BY <1>1, <1>2, <1>3 DEF DownIs

\* The verdict it takes is a yes only for the right key.
LEMMA DownVerdict ==
    ASSUME NEW key, NEW dr, NEW q \in Seq(SshItems), NEW n \in Nat, DownIs(TRUE, key, "verdict", dr, q, 0, n),
           q # << >>, Head(q)[1] = "yes"
    PROVE  key = "right" /\ DownIs(TRUE, key, "pump", dr, Tail(q), 0, n) /\ dr # "ask"
  <1>1. PICK v \in SshVerdicts :
           /\ LaidOut(q, Ahead(TRUE, "verdict", v), 0, n) /\ (dr # "closed" => Bare(q, Ahead(TRUE, "verdict", v), 0, n))
           /\ (dr = "ask" => v = "none") /\ (dr = "relay" => v = "yes") /\ (v = "yes" => key = "right")
           /\ (v # "yes" => n = 0)
    BY DEF DownIs
  <1>2. v # "none"
    <2> SUFFICES ASSUME v = "none" PROVE FALSE
      OBVIOUS
    <2>1. LaidOut(q, << >>, 0, n) /\ n = 0
      BY <1>1, AheadIs DEF SshReading
    <2>2. Head(q) = Part("eof")
      BY <2>1, LaidFirst
    <2> QED
      BY <2>2, PartsAre
  <1>3. PICK pre \in Seq(SshItems) : pre = Ahead(TRUE, "verdict", v) /\ pre # << >> /\ Head(pre) = Part(v) /\ Tail(pre) = << >>
    BY <1>2, AheadIs DEF SshReading
  <1>a. Head(q) = Head(pre) /\ LaidOut(Tail(q), Tail(pre), 0, n) /\ (Bare(q, pre, 0, n) => Bare(Tail(q), Tail(pre), 0, n))
    BY <1>1, <1>3, LaidPart
  <1>4. Head(q) = Head(pre) /\ LaidOut(Tail(q), << >>, 0, n) /\ (Bare(q, pre, 0, n) => Bare(Tail(q), << >>, 0, n))
    BY <1>3, <1>a, Zenon
  <1>5. v = "yes"
    BY <1>2, <1>3, <1>4, PartsAre DEF SshVerdicts
  <1>6. Ahead(TRUE, "pump", v) = << >>
    BY AheadIs DEF SshReading
  <1> QED
    BY <1>1, <1>3, <1>4, <1>5, <1>6 DEF DownIs

\* Without a preamble ahead it takes the next byte, or the end after the last.
LEMMA DownByte ==
    ASSUME NEW asks \in BOOLEAN, NEW key, NEW dr, NEW q \in Seq(SshItems), NEW g \in Nat, NEW n \in Nat,
           NEW at \in SshReading, ~asks \/ at \in {"pump", "drain"}, NEW to \in {"pump", "drain"},
           DownIs(asks, key, at, dr, q, g, n), q # << >>
    PROVE  \/ Head(q) = SshByte(g + 1) /\ DownIs(asks, key, to, dr, Tail(q), g + 1, n)
           \/ Head(q) = Part("eof") /\ g = n /\ dr = "closed"
  <1>1. PICK v \in SshVerdicts :
           /\ LaidOut(q, Ahead(asks, at, v), g, n) /\ (dr # "closed" => Bare(q, Ahead(asks, at, v), g, n))
           /\ asks => /\ (dr = "ask" => v = "none") /\ (dr = "relay" => v = "yes") /\ (v = "yes" => key = "right")
                      /\ (v # "yes" => at \notin {"pump", "drain"} /\ n = 0)
    BY DEF DownIs
  <1>2. Ahead(asks, at, v) = << >> /\ Ahead(asks, to, v) = << >>
    BY DEF Ahead
  <1>3. \/ /\ g < n /\ Head(q) = SshByte(g + 1) /\ LaidOut(Tail(q), << >>, g + 1, n)
           /\ Bare(q, << >>, g, n) => Bare(Tail(q), << >>, g + 1, n)
        \/ g = n /\ Head(q) = Part("eof") /\ ~Bare(q, << >>, g, n)
    BY <1>1, <1>2, LaidFirst
  <1> QED
    BY <1>1, <1>2, <1>3 DEF DownIs

\* sshd writes a byte ...
LEMMA DownGrows ==
    ASSUME NEW asks \in BOOLEAN, NEW key, NEW q \in Seq(SshItems), NEW g \in Nat, NEW n \in Nat,
           NEW at \in SshReading, DownIs(asks, key, at, "relay", q, g, n)
    PROVE  DownIs(asks, key, at, "relay", Append(q, SshByte(n + 1)), g, n + 1)
  <1>1. PICK v \in SshVerdicts :
           /\ LaidOut(q, Ahead(asks, at, v), g, n) /\ Bare(q, Ahead(asks, at, v), g, n)
           /\ asks => v = "yes" /\ key = "right"
    BY DEF DownIs
  <1>2. Ahead(asks, at, v) \in Seq(SshItems)
    BY AheadIs
  <1>3. /\ LaidOut(Append(q, SshByte(n + 1)), Ahead(asks, at, v), g, n + 1)
        /\ Bare(Append(q, SshByte(n + 1)), Ahead(asks, at, v), g, n + 1)
    BY <1>1, <1>2, LaidByte
  <1> QED
    BY <1>1, <1>3 DEF DownIs

\* ... or the stream ends after what is written.
LEMMA DownEnds ==
    ASSUME NEW asks \in BOOLEAN, NEW key, NEW dr, NEW q \in Seq(SshItems), NEW g \in Nat, NEW n \in Nat,
           NEW at \in SshReading, DownIs(asks, key, at, dr, q, g, n)
    PROVE  DownIs(asks, key, at, "closed", Append(q, Part("eof")), g, n)
  <1>1. PICK v \in SshVerdicts :
           /\ LaidOut(q, Ahead(asks, at, v), g, n)
           /\ asks => (v = "yes" => key = "right") /\ (v # "yes" => at \notin {"pump", "drain"} /\ n = 0)
    BY DEF DownIs
  <1>2. Ahead(asks, at, v) \in Seq(SshItems)
    BY AheadIs
  <1>3. LaidOut(Append(q, Part("eof")), Ahead(asks, at, v), g, n)
    BY <1>1, <1>2, LaidOutEnd
  <1> QED
    BY <1>1, <1>3 DEF DownIs

\* The agent writes its verdict, before sshd has written anything.
LEMMA DownJudged ==
    ASSUME NEW key, NEW q \in Seq(SshItems), NEW at \in {"head", "challenge", "verdict"},
           DownIs(TRUE, key, at, "ask", q, 0, 0)
    PROVE  /\ key = "right" => DownIs(TRUE, key, at, "relay", Append(q, Part("yes")), 0, 0)
           /\ DownIs(TRUE, key, at, "closed", Append(Append(q, Part("no")), Part("eof")), 0, 0)
  <1>0. at \in SshReading /\ at \notin {"pump", "drain"}
    BY DEF SshReading
  <1>1. LaidOut(q, Ahead(TRUE, at, "none"), 0, 0) /\ Bare(q, Ahead(TRUE, at, "none"), 0, 0)
    BY DEF DownIs
  <1>2. Ahead(TRUE, at, "none") \in Seq(SshItems) /\ Ahead(TRUE, at, "no") \in Seq(SshItems)
    BY <1>0, AheadIs DEF SshVerdicts
  <1>3. PICK y \in SshItems : y = Part("yes")
    BY PartsAre
  <1>4. PICK o \in SshItems : o = Part("no")
    BY PartsAre
  <1>5. LaidOut(Append(q, y), Append(Ahead(TRUE, at, "none"), y), 0, 0) /\ Bare(Append(q, y), Append(Ahead(TRUE, at, "none"), y), 0, 0)
    BY <1>1, <1>2, LaidMore
  <1>6. LaidOut(Append(q, o), Append(Ahead(TRUE, at, "none"), o), 0, 0)
    BY <1>1, <1>2, LaidMore
  <1>7. Append(Ahead(TRUE, at, "none"), y) = Ahead(TRUE, at, "yes") /\ Append(Ahead(TRUE, at, "none"), o) = Ahead(TRUE, at, "no")
    BY <1>3, <1>4, AheadMore
  <1>8. LaidOut(Append(q, y), Ahead(TRUE, at, "yes"), 0, 0) /\ Bare(Append(q, y), Ahead(TRUE, at, "yes"), 0, 0)
    BY <1>5, <1>7, Zenon
  <1>9. PICK r \in Seq(SshItems) : r = Append(q, o)
    <2>1. Append(q, o) \in Seq(SshItems)
      OBVIOUS
    <2> QED
      BY <2>1
  <1>10. LaidOut(r, Ahead(TRUE, at, "no"), 0, 0)
    BY <1>6, <1>7, <1>9, Zenon
  <1>11. LaidOut(Append(r, Part("eof")), Ahead(TRUE, at, "no"), 0, 0)
    BY <1>2, <1>10, LaidOutEnd
  <1>12. key = "right" => DownIs(TRUE, key, at, "relay", Append(q, y), 0, 0)
    BY <1>0, <1>8 DEF DownIs, SshVerdicts
  <1>13. DownIs(TRUE, key, at, "closed", Append(r, Part("eof")), 0, 0)
    BY <1>0, <1>11 DEF DownIs, SshVerdicts
  <1> QED
    BY <1>3, <1>4, <1>9, <1>12, <1>13, Zenon

-----------------------------------------------------------------------------

\* Nothing is laid out on an empty wire.
LEMMA LaidNothing ==
    ASSUME NEW q, q = << >> PROVE LaidOut(q, << >>, 0, 0) /\ Bare(q, << >>, 0, 0)
  <1>1. Len(<< >>) = 0 /\ 1..0 = {}
    OBVIOUS
  <1> QED
    BY <1>1 DEF LaidOut, Bare

\* The tag is an item.
LEMMA TagIs ==
    ASSUME NEW k \in BOOLEAN, NEW key \in {"right", "wrong", "none"}, k => key # "none"
    PROVE  /\ Tag(k, key) \in Seq(SshItems) /\ (~k => Tag(k, key) = << >>)
           /\ k => Tag(k, key) # << >> /\ Head(Tag(k, key)) = Part(key) /\ Tail(Tag(k, key)) = << >>
  <1>1. CASE k
    <2>1. PICK x \in SshItems : x = Part(key)
      BY <1>1, PartsAre
    <2>2. Tag(k, key) = <<x>>
      BY <1>1, <2>1 DEF Tag
    <2>3. <<x>> \in Seq(SshItems) /\ <<x>> # << >> /\ Head(<<x>>) = x /\ Tail(<<x>>) = << >>
      OBVIOUS
    <2> QED
      BY <1>1, <2>1, <2>2, <2>3
  <1>2. CASE ~k
    <2>1. << >> \in Seq(SshItems)
      OBVIOUS
    <2> QED
      BY <1>2, <2>1 DEF Tag
  <1> QED
    BY <1>1, <1>2

\* The client sends the tag first.
LEMMA UpTagged ==
    ASSUME NEW key \in {"right", "wrong"}, NEW q \in Seq(SshItems), UpIs(key, "challenge", "ask", q, 0, 0)
    PROVE  UpIs(key, "verdict", "ask", Append(q, Part(key)), 0, 0)
  <1>1. LaidOut(q, << >>, 0, 0) /\ Bare(q, << >>, 0, 0)
    BY DEF UpIs, Tag
  <1>2. PICK x \in SshItems : x = Part(key)
    BY PartsAre
  <1>3. << >> \in Seq(SshItems)
    OBVIOUS
  <1>4. LaidOut(Append(q, x), Append(<< >>, x), 0, 0) /\ Bare(Append(q, x), Append(<< >>, x), 0, 0)
    BY <1>1, <1>3, LaidMore
  <1>5. Append(<< >>, x) = <<x>>
    OBVIOUS
  <1>6. Tag(TRUE, key) = <<x>>
    BY <1>2 DEF Tag
  <1>7. LaidOut(Append(q, x), Tag(TRUE, key), 0, 0) /\ Bare(Append(q, x), Tag(TRUE, key), 0, 0)
    BY <1>4, <1>5, <1>6, Zenon
  <1>8. UpIs(key, "verdict", "ask", Append(q, x), 0, 0)
    BY <1>7 DEF UpIs
  <1> QED
    BY <1>2, <1>8, Zenon

\* The agent reads the tag, or the end of a client that left.
LEMMA UpJudged ==
    ASSUME NEW key \in {"right", "wrong", "none"}, NEW at, NEW q \in Seq(SshItems), q # << >>,
           UpIs(key, at, "ask", q, 0, 0), Head(q)[1] = "right"
    PROVE  key = "right" /\ UpIs(key, at, "relay", Tail(q), 0, 0) /\ at \notin {"head", "challenge"}
  <1>1. PICK k \in BOOLEAN : /\ LaidOut(q, Tag(k, key), 0, 0) /\ (at \notin {"drain", "exited"} => Bare(q, Tag(k, key), 0, 0))
                             /\ (k => key # "none" /\ at \notin {"head", "challenge"})
    BY DEF UpIs
  <1>2. k
    <2> SUFFICES ASSUME ~k PROVE FALSE
      OBVIOUS
    <2>1. LaidOut(q, << >>, 0, 0)
      BY <1>1 DEF Tag
    <2>2. Head(q) = Part("eof")
      BY <2>1, LaidFirst
    <2> QED
      BY <2>2, PartsAre
  <1>3. PICK pre \in Seq(SshItems) : pre = Tag(k, key) /\ pre # << >> /\ Head(pre) = Part(key) /\ Tail(pre) = << >>
    BY <1>1, <1>2, TagIs
  <1>a. Head(q) = Head(pre) /\ LaidOut(Tail(q), Tail(pre), 0, 0) /\ (Bare(q, pre, 0, 0) => Bare(Tail(q), Tail(pre), 0, 0))
    BY <1>1, <1>3, LaidPart
  <1>4. Head(q) = Head(pre) /\ LaidOut(Tail(q), << >>, 0, 0) /\ (Bare(q, pre, 0, 0) => Bare(Tail(q), << >>, 0, 0))
    BY <1>3, <1>a, Zenon
  <1>5. key = "right"
    BY <1>1, <1>2, <1>3, <1>4, PartsAre
  <1>6. Tag(FALSE, key) = << >>
    BY DEF Tag
  <1>7. LaidOut(Tail(q), Tag(FALSE, key), 0, 0) /\ (at \notin {"drain", "exited"} => Bare(Tail(q), Tag(FALSE, key), 0, 0))
    BY <1>1, <1>3, <1>4, <1>6
  <1> QED
    BY <1>1, <1>2, <1>5, <1>7 DEF UpIs

\* The agent passes on the next byte, or reads the end after the last.
LEMMA UpByte ==
    ASSUME NEW key, NEW at, NEW q \in Seq(SshItems), NEW h \in Nat, NEW s \in Nat, q # << >>,
           UpIs(key, at, "relay", q, h, s)
    PROVE  \/ Head(q) = SshByte(h + 1) /\ UpIs(key, at, "relay", Tail(q), h + 1, s)
           \/ Head(q) = Part("eof")
  <1>0. Tag(FALSE, key) = << >>
    BY DEF Tag
  <1>1. LaidOut(q, << >>, h, s) /\ (at \notin {"drain", "exited"} => Bare(q, << >>, h, s))
    BY <1>0 DEF UpIs
  <1>2. \/ /\ h < s /\ Head(q) = SshByte(h + 1) /\ LaidOut(Tail(q), << >>, h + 1, s)
           /\ Bare(q, << >>, h, s) => Bare(Tail(q), << >>, h + 1, s)
        \/ h = s /\ Head(q) = Part("eof")
    BY <1>1, LaidFirst
  <1>3. CASE Head(q) = Part("eof")
    BY <1>3
  <1>4. CASE Head(q) # Part("eof")
    <2>1. /\ Head(q) = SshByte(h + 1) /\ LaidOut(Tail(q), Tag(FALSE, key), h + 1, s)
          /\ (at \notin {"drain", "exited"} => Bare(Tail(q), Tag(FALSE, key), h + 1, s))
      BY <1>0, <1>1, <1>2, <1>4
    <2> QED
      BY <2>1 DEF UpIs
  <1> QED
    BY <1>3, <1>4

\* The client sends a byte ...
LEMMA UpGrows ==
    ASSUME NEW key, NEW q \in Seq(SshItems), NEW h \in Nat, NEW s \in Nat, UpIs(key, "pump", "relay", q, h, s)
    PROVE  UpIs(key, "pump", "relay", Append(q, SshByte(s + 1)), h, s + 1)
  <1>0. Tag(FALSE, key) = << >>
    BY DEF Tag
  <1>1. LaidOut(q, << >>, h, s) /\ Bare(q, << >>, h, s)
    BY <1>0 DEF UpIs
  <1>2. << >> \in Seq(SshItems)
    OBVIOUS
  <1>3. PICK a : a = Append(q, SshByte(s + 1))
    OBVIOUS
  <1>4. LaidOut(a, << >>, h, s + 1) /\ Bare(a, << >>, h, s + 1)
    BY <1>1, <1>2, <1>3, LaidByte
  <1>5. UpIs(key, "pump", "relay", a, h, s + 1)
    BY <1>0, <1>4 DEF UpIs
  <1> QED
    BY <1>3, <1>5, Zenon

\* ... or the end of its stream.
LEMMA UpEnds ==
    ASSUME NEW key \in {"right", "wrong", "none"}, NEW at, NEW dr \in {"ask", "relay"}, NEW q \in Seq(SshItems),
           NEW h \in Nat, NEW s \in Nat, NEW to \in {"drain", "exited"}, UpIs(key, at, dr, q, h, s)
    PROVE  UpIs(key, to, dr, Append(q, Part("eof")), h, s)
  <1>1. PICK k \in BOOLEAN : LaidOut(q, Tag(k, key), h, s) /\ (k => dr = "ask" /\ key # "none")
    BY DEF UpIs
  <1>2. Tag(k, key) \in Seq(SshItems)
    BY <1>1, TagIs
  <1>3. LaidOut(Append(q, Part("eof")), Tag(k, key), h, s)
    BY <1>1, <1>2, LaidOutEnd
  <1> QED
    BY <1>1, <1>3 DEF UpIs

\* A client that moves on without writing leaves the wire to the agent as it is.
LEMMA UpStays ==
    ASSUME NEW key, NEW at, NEW dr, NEW q, NEW h, NEW s, NEW to, UpIs(key, at, dr, q, h, s),
           \/ to = "exited"
           \/ at = "head" /\ to \in {"challenge", "pump"}
           \/ at = "verdict" /\ to = "pump" /\ dr = "relay"
    PROVE  UpIs(key, to, dr, q, h, s)
  <1>1. PICK k \in BOOLEAN :
           /\ LaidOut(q, Tag(k, key), h, s) /\ (at \notin {"drain", "exited"} => Bare(q, Tag(k, key), h, s))
           /\ (k => dr = "ask" /\ key # "none" /\ at \notin {"head", "challenge"})
    BY DEF UpIs
  <1> QED
    BY <1>1 DEF UpIs
-----------------------------------------------------------------------------
(* The steps. *)

\* What the invariant says, for use one by one.
LEMMA SshKnown ==
    ASSUME SshInv
    PROVE  /\ setting.asks \in BOOLEAN /\ setting.key \in {"right", "wrong", "none"}
           /\ client.at \in SshPlaces /\ client.why \in SshWhys
           /\ door \in {"accept", "ask", "relay", "closed"}
           /\ wire.up \in Seq(SshItems) /\ wire.down \in Seq(SshItems)
           /\ ssh.sent \in Nat /\ ssh.closed \in BOOLEAN /\ ssh.got \in Seq(Nat) /\ Len(ssh.got) \in Nat
           /\ sshd.sent \in Nat /\ sshd.eof \in BOOLEAN /\ sshd.got \in Seq(Nat) /\ Len(sshd.got) \in Nat
           /\ Numbered(ssh.got) /\ Numbered(sshd.got) /\ SshWhere
           /\ (client.at # "exited" => client.why # "eof")
  <1>1. /\ setting.asks \in BOOLEAN /\ setting.key \in {"right", "wrong", "none"}
        /\ client.at \in SshPlaces /\ client.why \in SshWhys
        /\ door \in {"accept", "ask", "relay", "closed"}
        /\ wire.up \in Seq(SshItems) /\ wire.down \in Seq(SshItems)
    BY DEF SshInv, SshTyped
  <1>2. /\ ssh.sent \in Nat /\ ssh.closed \in BOOLEAN /\ ssh.got \in Seq(Nat)
        /\ sshd.sent \in Nat /\ sshd.eof \in BOOLEAN /\ sshd.got \in Seq(Nat)
    BY DEF SshInv, SshTyped
  <1>3. Len(ssh.got) \in Nat /\ Len(sshd.got) \in Nat
    BY <1>2
  <1>4. Numbered(ssh.got) /\ Numbered(sshd.got) /\ SshWhere
    BY DEF SshInv
  <1>5. client.at # "exited" => client.why # "eof"
    BY <1>4 DEF SshWhere
  <1> QED
    BY <1>1, <1>2, <1>3, <1>4, <1>5

\* One more byte in order.
LEMMA NumberedMore ==
    ASSUME NEW q \in Seq(Nat), Numbered(q)
    PROVE  /\ Append(q, Len(q) + 1) \in Seq(Nat) /\ Numbered(Append(q, Len(q) + 1))
           /\ Len(Append(q, Len(q) + 1)) = Len(q) + 1
  BY DEF Numbered

\* The client's process exits, with or without an end of the stream for the agent.
LEMMA SshExitKeeps ==
    ASSUME SshInv, NEW why \in SshWhys, why = "eof" => door = "closed" /\ Len(ssh.got) = sshd.sent,
           client' = [at |-> "exited", why |-> why], wire' \in [up : Seq(SshItems), down : Seq(SshItems)],
           wire'.up = wire.up \/ wire'.up = Append(wire.up, Part("eof")),
           UNCHANGED <<setting, door, ssh, sshd>>
    PROVE  SshInv'
  <1>0. client'.at = "exited" /\ client'.why = why
    OBVIOUS
  <1>1. client' \in [at : SshPlaces, why : SshWhys]
    BY DEF SshPlaces
  <1>2. SshTyped'
    BY <1>1 DEF SshInv, SshTyped
  <1>3. SshWhere'
    BY <1>0, SshKnown DEF SshWhere
  <1>4. DownSays'
    BY <1>0 DEF DownSays, SshReading
  <1>5. UpSays'
    <2> SUFFICES ASSUME door \in {"ask", "relay"}, ~sshd.eof
                 PROVE  UpIs(setting.key, "exited", door, wire'.up, Len(sshd.got), ssh.sent)
      BY <1>0 DEF UpSays
    <2>1. UpIs(setting.key, client.at, door, wire.up, Len(sshd.got), ssh.sent)
      BY DEF SshInv, UpSays
    <2>2. UpIs(setting.key, "exited", door, wire.up, Len(sshd.got), ssh.sent)
      BY <2>1, UpStays
    <2>3. UpIs(setting.key, "exited", door, Append(wire.up, Part("eof")), Len(sshd.got), ssh.sent)
      BY <2>1, SshKnown, UpEnds, ZenonT(40)
    <2> QED
      BY <2>2, <2>3
  <1>6. Numbered(ssh.got)' /\ Numbered(sshd.got)'
    BY SshKnown
  <1> QED
    BY <1>2, <1>3, <1>4, <1>5, <1>6 DEF SshInv

\* ExitsWith leaves such a wire.
LEMMA ExitsWithKeeps ==
    ASSUME SshInv, NEW why \in SshWhys \ {"eof"}, ExitsWith(why), UNCHANGED <<setting, door, ssh, sshd>>
    PROVE  SshInv'
  <1>1. PICK e \in SshItems : e = Part("eof")
    BY PartsAre
  <1>2. PICK u \in Seq(SshItems) : u = Append(wire.up, e)
    <2>1. Append(wire.up, e) \in Seq(SshItems)
      BY SshKnown
    <2> QED
      BY <2>1
  <1>3. PICK d \in Seq(SshItems) : d = << >>
    <2>1. << >> \in Seq(SshItems)
      OBVIOUS
    <2> QED
      BY <2>1
  <1>4. wire' = [wire EXCEPT !.up = u, !.down = d] /\ client' = [at |-> "exited", why |-> why]
    BY <1>1, <1>2, <1>3, Zenon DEF ExitsWith, Exits
  <1>5. wire \in [up : Seq(SshItems), down : Seq(SshItems)]
    BY DEF SshInv, SshTyped
  <1>6. wire' \in [up : Seq(SshItems), down : Seq(SshItems)] /\ wire'.up = u
    BY <1>4, <1>5
  <1>7. wire'.up = Append(wire.up, Part("eof"))
    BY <1>1, <1>2, <1>6, Zenon
  <1> QED
    BY <1>4, <1>6, <1>7, SshExitKeeps

\* What is read of the wire to the client leaves the other direction.
LEMMA TakesDownIs ==
    ASSUME SshInv, TakesDown
    PROVE  /\ wire.down # << >> /\ wire'.down = Tail(wire.down) /\ wire'.up = wire.up
           /\ wire' \in [up : Seq(SshItems), down : Seq(SshItems)]
  <1>0. wire.down # << >> /\ wire' = [wire EXCEPT !.down = Tail(wire.down)]
    BY DEF TakesDown
  <1>1. PICK d \in Seq(SshItems) : d = Tail(wire.down)
    <2>1. Tail(wire.down) \in Seq(SshItems)
      BY <1>0, SshKnown
    <2> QED
      BY <2>1
  <1>2. wire \in [up : Seq(SshItems), down : Seq(SshItems)]
    BY DEF SshInv, SshTyped
  <1>3. wire' = [wire EXCEPT !.down = d]
    BY <1>0, <1>1, Zenon
  <1>4. wire' \in [up : Seq(SshItems), down : Seq(SshItems)] /\ wire'.up = wire.up /\ wire'.down = d
    BY <1>2, <1>3
  <1> QED
    BY <1>0, <1>1, <1>4, Zenon

\* What a client that reads knows of the wire.
LEMMA DownKnown ==
    ASSUME SshInv, client.at \in SshReading, wire.down # << >>
    PROVE  /\ door # "accept"
           /\ DownIs(setting.asks, setting.key, client.at, door, wire.down, Len(ssh.got), sshd.sent)
           /\ client.at \in {"head", "challenge", "verdict"} => Len(ssh.got) = 0
  <1>1. door # "accept"
    BY SshKnown DEF SshWhere, SshReading
  <1>2. DownIs(setting.asks, setting.key, client.at, door, wire.down, Len(ssh.got), sshd.sent)
    BY <1>1 DEF SshInv, DownSays
  <1>3. Len(<< >>) = 0
    OBVIOUS
  <1>4. client.at \in {"head", "challenge", "verdict"} => ssh.got = << >>
    BY SshKnown DEF SshWhere
  <1>5. client.at \in {"head", "challenge", "verdict"} => Len(ssh.got) = 0
    BY <1>3, <1>4
  <1> QED
    BY <1>1, <1>2, <1>5

\* A client that reads on without a byte for ssh.
LEMMA ClientMovesKeeps ==
    ASSUME SshInv, NEW to \in {"challenge", "verdict", "pump"},
           client' = [client EXCEPT !.at = to], client.at # "exited",
           wire' \in [up : Seq(SshItems), down : Seq(SshItems)],
           UNCHANGED <<setting, door, ssh, sshd>>, door # "accept", setting.asks = TRUE,
           ssh.sent = 0, ssh.got = << >>,
           to = "challenge" => client.at = "head", to = "verdict" => setting.key # "none" /\ door # "relay",
           to = "pump" => setting.key = "right" /\ door # "ask",
           DownIs(setting.asks, setting.key, to, door, wire'.down, Len(ssh.got), sshd.sent),
           door \in {"ask", "relay"} /\ ~sshd.eof => UpIs(setting.key, to, door, wire'.up, Len(sshd.got), ssh.sent)
    PROVE  SshInv'
  <1>1. client' \in [at : SshPlaces, why : SshWhys] /\ client'.at = to /\ client'.why = client.why
    BY DEF SshInv, SshTyped, SshPlaces
  <1>2. SshTyped'
    BY <1>1 DEF SshInv, SshTyped
  <1>3. SshWhere'
    BY <1>1, SshKnown DEF SshWhere
  <1>4. DownSays'
    BY <1>1 DEF DownSays
  <1>5. UpSays'
    BY <1>1 DEF UpSays
  <1>6. Numbered(ssh.got)' /\ Numbered(sshd.got)'
    BY SshKnown
  <1> QED
    BY <1>2, <1>3, <1>4, <1>5, <1>6 DEF SshInv

\* A client that passes a byte on to ssh.
LEMMA ClientPassesKeeps ==
    ASSUME SshInv, NEW to \in {"pump", "drain"}, (client.at = "head" /\ ~setting.asks /\ to = "pump") \/ client.at = to,
           client' = [client EXCEPT !.at = to], door # "accept",
           wire' \in [up : Seq(SshItems), down : Seq(SshItems)], wire'.up = wire.up,
           UNCHANGED <<setting, door, sshd>>, ssh' = [ssh EXCEPT !.got = Append(ssh.got, Len(ssh.got) + 1)],
           DownIs(setting.asks, setting.key, to, door, wire'.down, Len(ssh.got) + 1, sshd.sent)
    PROVE  SshInv'
  <1>0. client.at # "exited" /\ client.why # "eof"
    BY SshKnown
  <1>1. client' \in [at : SshPlaces, why : SshWhys] /\ client'.at = to /\ client'.why = client.why
    BY DEF SshInv, SshTyped, SshPlaces
  <1>2. PICK r \in Seq(Nat) : r = Append(ssh.got, Len(ssh.got) + 1) /\ Numbered(r) /\ Len(r) = Len(ssh.got) + 1
    BY SshKnown, NumberedMore
  <1>3. ssh' = [ssh EXCEPT !.got = r]
    BY <1>2, Zenon
  <1>4. /\ ssh' \in [sent : Nat, closed : BOOLEAN, got : Seq(Nat)] /\ ssh'.got = r
        /\ ssh'.sent = ssh.sent
    BY <1>3, ZenonT(40) DEF SshInv, SshTyped
  <1>5. SshTyped'
    BY <1>1, <1>4 DEF SshInv, SshTyped
  <1>6. door # "ask"
    BY SshKnown DEF SshWhere
  <1>7. SshWhere'
    BY <1>0, <1>1, <1>4, <1>6, SshKnown DEF SshWhere
  <1>8. DownSays'
    BY <1>1, <1>2, <1>4 DEF DownSays
  <1>9. UpSays'
    <2> SUFFICES ASSUME door \in {"ask", "relay"}, ~sshd.eof
                 PROVE  UpIs(setting.key, to, door, wire.up, Len(sshd.got), ssh.sent)
      BY <1>1, <1>4 DEF UpSays
    <2>1. UpIs(setting.key, client.at, door, wire.up, Len(sshd.got), ssh.sent)
      BY DEF SshInv, UpSays
    <2> QED
      BY <2>1, UpStays
  <1>10. Numbered(ssh.got)' /\ Numbered(sshd.got)'
    BY <1>2, <1>4, SshKnown
  <1> QED
    BY <1>5, <1>7, <1>8, <1>9, <1>10 DEF SshInv

\* The client connects, or does not.
LEMMA SshConnectsKeeps == ASSUME SshInv, SshConnects PROVE SshInv'
  <1>0. client.at = "dial" /\ UNCHANGED <<setting, door, wire, ssh, sshd>>
    BY DEF SshConnects
  <1>1. CASE Exits("unreachable")
    <2>1. client' = [at |-> "exited", why |-> "unreachable"] /\ "unreachable" \in SshWhys
      BY <1>1 DEF Exits, SshWhys
    <2>2. wire' \in [up : Seq(SshItems), down : Seq(SshItems)] /\ wire'.up = wire.up
      BY <1>0 DEF SshInv, SshTyped
    <2> QED
      BY <1>0, <2>1, <2>2, SshExitKeeps
  <1>2. CASE client' = [client EXCEPT !.at = "head"]
    <2>1. client' \in [at : SshPlaces, why : SshWhys] /\ client'.at = "head" /\ client'.why = client.why
      BY <1>2 DEF SshInv, SshTyped, SshPlaces
    <2>2. door = "accept"
      BY <1>0, SshKnown DEF SshWhere
    <2>3. SshTyped'
      BY <1>0, <2>1 DEF SshInv, SshTyped
    <2>4. SshWhere'
      BY <1>0, <2>1, <2>2, SshKnown DEF SshWhere
    <2>5. DownSays' /\ UpSays'
      BY <1>0, <2>2 DEF DownSays, UpSays
    <2>6. Numbered(ssh.got)' /\ Numbered(sshd.got)'
      BY <1>0, SshKnown
    <2> QED
      BY <2>3, <2>4, <2>5, <2>6 DEF SshInv
  <1> QED
    BY <1>1, <1>2 DEF SshConnects

\* The first read: a challenge, sshd's first byte, or the end.
LEMMA ReadsHeadKeeps == ASSUME SshInv, ReadsHead PROVE SshInv'
  <1>0. client.at = "head" /\ TakesDown /\ UNCHANGED <<setting, door, sshd>> /\ client.at \in SshReading
    BY DEF ReadsHead, SshReading
  <1>1. /\ wire.down # << >> /\ wire'.down = Tail(wire.down) /\ wire'.up = wire.up
        /\ wire' \in [up : Seq(SshItems), down : Seq(SshItems)]
    BY <1>0, TakesDownIs
  <1>2. door # "accept" /\ DownIs(setting.asks, setting.key, "head", door, wire.down, 0, sshd.sent) /\ Len(ssh.got) = 0
    <2>1. /\ door # "accept" /\ Len(ssh.got) = 0
          /\ DownIs(setting.asks, setting.key, client.at, door, wire.down, Len(ssh.got), sshd.sent)
      BY <1>0, <1>1, DownKnown
    <2> QED
      BY <1>0, <2>1
  <1>3. CASE setting.asks = TRUE
    <2>1. Head(wire.down) = Part("magic") /\ DownIs(TRUE, setting.key, "challenge", door, Tail(wire.down), 0, sshd.sent)
      BY <1>2, <1>3, SshKnown, DownHead
    <2>2. NextDown = "magic"
      BY <2>1, PartsAre DEF NextDown
    <2>3. client' = [client EXCEPT !.at = "challenge"] /\ UNCHANGED ssh
      BY <2>2 DEF ReadsHead
    <2>4. ssh.sent = 0 /\ ssh.got = << >>
      BY <1>0, SshKnown DEF SshWhere
    <2>5. DownIs(setting.asks, setting.key, "challenge", door, wire'.down, Len(ssh.got), sshd.sent)
      BY <1>1, <1>2, <1>3, <2>1
    <2>6. door \in {"ask", "relay"} /\ ~sshd.eof => UpIs(setting.key, "challenge", door, wire'.up, Len(sshd.got), ssh.sent)
      <3> SUFFICES ASSUME door \in {"ask", "relay"}, ~sshd.eof
                   PROVE  UpIs(setting.key, "challenge", door, wire.up, Len(sshd.got), ssh.sent)
        BY <1>1
      <3>1. UpIs(setting.key, "head", door, wire.up, Len(sshd.got), ssh.sent)
        BY <1>0 DEF SshInv, UpSays
      <3> QED
        BY <3>1, UpStays
    <2> QED
      BY <1>0, <1>1, <1>2, <1>3, <2>3, <2>4, <2>5, <2>6, ClientMovesKeeps
  <1>4. CASE setting.asks = FALSE
    <2>1. \/ Head(wire.down) = SshByte(0 + 1) /\ DownIs(setting.asks, setting.key, "pump", door, Tail(wire.down), 0 + 1, sshd.sent)
          \/ Head(wire.down) = Part("eof") /\ 0 = sshd.sent /\ door = "closed"
      BY <1>0, <1>1, <1>2, <1>4, SshKnown, DownByte DEF SshReading
    <2>2. CASE Head(wire.down) = Part("eof")
      <3>1. NextDown = "eof"
        BY <2>2, PartsAre DEF NextDown
      <3>2. client' = [at |-> "exited", why |-> "preamble"] /\ UNCHANGED ssh /\ "preamble" \in SshWhys
        BY <3>1 DEF ReadsHead, Exits, SshWhys
      <3> QED
        BY <1>0, <1>1, <3>2, SshExitKeeps
    <2>3. CASE Head(wire.down) # Part("eof")
      <3>0. Head(wire.down) = SshByte(1) /\ DownIs(setting.asks, setting.key, "pump", door, Tail(wire.down), 1, sshd.sent)
        BY <2>1, <2>3
      <3>1. NextDown = "byte" /\ Head(wire.down)[2] = 1
        BY <3>0, PartsAre DEF NextDown
      <3>2. client' = [client EXCEPT !.at = "pump"] /\ ssh' = [ssh EXCEPT !.got = Append(@, Head(wire.down)[2])]
        BY <3>1 DEF ReadsHead
      <3>3. ssh' = [ssh EXCEPT !.got = Append(ssh.got, Len(ssh.got) + 1)]
        BY <1>2, <3>1, <3>2
      <3>4. DownIs(setting.asks, setting.key, "pump", door, wire'.down, Len(ssh.got) + 1, sshd.sent)
        BY <1>1, <1>2, <3>0
      <3> QED
        BY <1>0, <1>1, <1>2, <1>4, <3>2, <3>3, <3>4, ClientPassesKeeps
    <2> QED
      BY <2>2, <2>3
  <1> QED
    BY <1>3, <1>4, SshKnown

\* The rest of the challenge.
LEMMA AnswersKeeps == ASSUME SshInv, AnswersChallenge PROVE SshInv'
  <1>0. client.at = "challenge" /\ wire.down # << >> /\ UNCHANGED <<setting, door, ssh, sshd>> /\ client.at \in SshReading
    BY DEF AnswersChallenge, SshReading
  <1>1. CASE setting.key = "none"
    BY <1>0, <1>1, ExitsWithKeeps DEF AnswersChallenge, SshWhys
  <1>2. CASE setting.key # "none"
    <2>1. client' = [client EXCEPT !.at = "verdict"] /\ setting.key \in {"right", "wrong"}
      BY <1>2, SshKnown DEF AnswersChallenge
    <2>2. PICK x \in SshItems : x = Part(setting.key)
      BY <2>1, PartsAre
    <2>3. PICK u \in Seq(SshItems) : u = Append(wire.up, x)
      <3>1. Append(wire.up, x) \in Seq(SshItems)
        BY SshKnown
      <3> QED
        BY <3>1
    <2>4. PICK d \in Seq(SshItems) : d = Tail(wire.down)
      <3>1. Tail(wire.down) \in Seq(SshItems)
        BY <1>0, SshKnown
      <3> QED
        BY <3>1
    <2>5. wire' = [up |-> u, down |-> d]
      BY <1>2, <2>2, <2>3, <2>4, Zenon DEF AnswersChallenge
    <2>6. wire' \in [up : Seq(SshItems), down : Seq(SshItems)] /\ wire'.up = u /\ wire'.down = d
      BY <2>5
    <2>7. setting.asks = TRUE /\ door # "accept" /\ ssh.sent = 0 /\ ssh.got = << >>
      BY <1>0, SshKnown DEF SshWhere
    <2>8. DownIs(TRUE, setting.key, "challenge", door, wire.down, 0, sshd.sent) /\ Len(ssh.got) = 0
      <3>1. /\ DownIs(setting.asks, setting.key, client.at, door, wire.down, Len(ssh.got), sshd.sent)
            /\ Len(ssh.got) = 0
        BY <1>0, DownKnown
      <3> QED
        BY <1>0, <2>7, <3>1
    <2>9. DownIs(TRUE, setting.key, "verdict", door, d, 0, sshd.sent)
      BY <2>4, <2>8, SshKnown, DownNonce
    <2>10. DownIs(setting.asks, setting.key, "verdict", door, wire'.down, Len(ssh.got), sshd.sent)
      BY <2>6, <2>7, <2>8, <2>9
    <2>11. door # "relay"
      BY <1>0, <2>7, SshKnown DEF SshWhere
    <2>12. door \in {"ask", "relay"} /\ ~sshd.eof => UpIs(setting.key, "verdict", door, wire'.up, Len(sshd.got), ssh.sent)
      <3> SUFFICES ASSUME door = "ask", ~sshd.eof
                   PROVE  UpIs(setting.key, "verdict", "ask", wire'.up, Len(sshd.got), ssh.sent)
        BY <2>11
      <3>1. UpIs(setting.key, "challenge", "ask", wire.up, Len(sshd.got), ssh.sent)
        BY <1>0 DEF SshInv, UpSays
      <3>2. sshd.got = << >> /\ Len(<< >>) = 0
        BY SshKnown DEF SshWhere
      <3>3. Len(sshd.got) = 0
        BY <3>2
      <3>4. UpIs(setting.key, "challenge", "ask", wire.up, 0, 0)
        BY <2>7, <3>1, <3>3
      <3>5. UpIs(setting.key, "verdict", "ask", Append(wire.up, Part(setting.key)), 0, 0)
        BY <2>1, <3>4, SshKnown, UpTagged
      <3>6. wire'.up = Append(wire.up, Part(setting.key))
        BY <2>2, <2>3, <2>6, Zenon
      <3> QED
        BY <2>7, <3>3, <3>5, <3>6
    <2> QED
      BY <1>0, <1>2, <2>1, <2>6, <2>7, <2>10, <2>11, <2>12, ClientMovesKeeps
  <1> QED
    BY <1>1, <1>2

\* The verdict.
LEMMA HearsKeeps == ASSUME SshInv, HearsVerdict PROVE SshInv'
  <1>0. client.at = "verdict" /\ TakesDown /\ UNCHANGED <<setting, door, ssh, sshd>> /\ client.at \in SshReading
    BY DEF HearsVerdict, SshReading
  <1>1. /\ wire.down # << >> /\ wire'.down = Tail(wire.down) /\ wire'.up = wire.up
        /\ wire' \in [up : Seq(SshItems), down : Seq(SshItems)]
    BY <1>0, TakesDownIs
  <1>2. CASE NextDown = "yes"
    <2>1. setting.asks = TRUE /\ door # "accept" /\ ssh.sent = 0 /\ ssh.got = << >>
      BY <1>0, SshKnown DEF SshWhere
    <2>2. DownIs(TRUE, setting.key, "verdict", door, wire.down, 0, sshd.sent) /\ Len(ssh.got) = 0
      <3>1. /\ DownIs(setting.asks, setting.key, client.at, door, wire.down, Len(ssh.got), sshd.sent)
            /\ Len(ssh.got) = 0
        BY <1>0, <1>1, DownKnown
      <3> QED
        BY <1>0, <2>1, <3>1
    <2>3. setting.key = "right" /\ DownIs(TRUE, setting.key, "pump", door, Tail(wire.down), 0, sshd.sent) /\ door # "ask"
      BY <1>1, <1>2, <2>2, SshKnown, DownVerdict DEF NextDown
    <2>4. DownIs(setting.asks, setting.key, "pump", door, wire'.down, Len(ssh.got), sshd.sent)
      BY <1>1, <2>1, <2>2, <2>3
    <2>5. client' = [client EXCEPT !.at = "pump"]
      BY <1>2 DEF HearsVerdict
    <2>6. door \in {"ask", "relay"} /\ ~sshd.eof => UpIs(setting.key, "pump", door, wire'.up, Len(sshd.got), ssh.sent)
      <3> SUFFICES ASSUME door = "relay", ~sshd.eof
                   PROVE  UpIs(setting.key, "pump", "relay", wire.up, Len(sshd.got), ssh.sent)
        BY <1>1, <2>3
      <3>1. UpIs(setting.key, "verdict", "relay", wire.up, Len(sshd.got), ssh.sent)
        BY <1>0 DEF SshInv, UpSays
      <3> QED
        BY <3>1, UpStays
    <2> QED
      BY <1>0, <1>1, <2>1, <2>3, <2>4, <2>5, <2>6, ClientMovesKeeps
  <1>3. CASE NextDown # "yes"
    <2>1. client' = [at |-> "exited", why |-> "preamble"] /\ "preamble" \in SshWhys
      BY <1>3 DEF HearsVerdict, Exits, SshWhys
    <2> QED
      BY <1>0, <1>1, <2>1, SshExitKeeps
  <1> QED
    BY <1>2, <1>3

\* The timeouts and the break end it.
LEMMA GivesUpKeeps == ASSUME SshInv, PreambleTimesOut \/ UpstreamBreaks \/ DrainTimesOut PROVE SshInv'
  <1>1. PICK why \in SshWhys \ {"eof"} : ExitsWith(why) /\ UNCHANGED <<setting, door, ssh, sshd>>
    BY DEF PreambleTimesOut, UpstreamBreaks, DrainTimesOut, SshWhys
  <1> QED
    BY <1>1, ExitsWithKeeps

\* ssh's bytes, and the end of its input.
LEMMA PumpsUpKeeps == ASSUME SshInv, PumpsUp PROVE SshInv'
  <1>0. client.at = "pump" /\ UNCHANGED <<setting, door, sshd>> /\ client.at \in SshReading
    BY DEF PumpsUp, SshReading
  <1>1. wire \in [up : Seq(SshItems), down : Seq(SshItems)] /\ wire.up \in Seq(SshItems)
    BY DEF SshInv, SshTyped
  <1>a. door # "accept" /\ door # "ask"
    BY <1>0, SshKnown DEF SshWhere
  <1>b. DownIs(setting.asks, setting.key, "pump", door, wire.down, Len(ssh.got), sshd.sent)
    BY <1>0, <1>a DEF SshInv, DownSays
  <1>2. CASE /\ ssh.sent < SshBytes /\ ~ssh.closed
             /\ ssh' = [ssh EXCEPT !.sent = @ + 1]
             /\ wire' = [wire EXCEPT !.up = Append(@, SshByte(ssh.sent + 1))]
             /\ UNCHANGED client
    <2>1. PICK x \in SshItems : x = SshByte(ssh.sent + 1)
      BY SshKnown, PartsAre
    <2>2. PICK u \in Seq(SshItems) : u = Append(wire.up, x)
      <3>1. Append(wire.up, x) \in Seq(SshItems)
        BY <1>1
      <3> QED
        BY <3>1
    <2>3. wire' = [wire EXCEPT !.up = u]
      BY <1>2, <2>1, <2>2, Zenon
    <2>4. wire' \in [up : Seq(SshItems), down : Seq(SshItems)] /\ wire'.up = u /\ wire'.down = wire.down
      BY <1>1, <2>3
    <2>a. PICK m \in Nat : m = ssh.sent + 1
      BY SshKnown
    <2>b. ssh' = [ssh EXCEPT !.sent = m]
      BY <1>2, <2>a
    <2>5. /\ ssh' \in [sent : Nat, closed : BOOLEAN, got : Seq(Nat)]
          /\ ssh'.sent = ssh.sent + 1 /\ ssh'.got = ssh.got
      BY <2>a, <2>b DEF SshInv, SshTyped
    <2>6. SshTyped'
      BY <1>0, <1>2, <2>4, <2>5 DEF SshInv, SshTyped
    <2>7. SshWhere'
      BY <1>0, <1>a, <1>2, <2>4, <2>5, SshKnown DEF SshWhere
    <2>8. DownSays'
      BY <1>0, <1>2, <1>b, <2>4, <2>5 DEF DownSays
    <2>9. UpSays'
      <3> SUFFICES ASSUME door = "relay", ~sshd.eof
                   PROVE  UpIs(setting.key, "pump", "relay", u, Len(sshd.got), ssh.sent + 1)
        BY <1>0, <1>a, <1>2, <2>4, <2>5 DEF UpSays
      <3>1. UpIs(setting.key, "pump", "relay", wire.up, Len(sshd.got), ssh.sent)
        BY <1>0 DEF SshInv, UpSays
      <3>2. UpIs(setting.key, "pump", "relay", Append(wire.up, SshByte(ssh.sent + 1)), Len(sshd.got), ssh.sent + 1)
        BY <3>1, SshKnown, UpGrows
      <3> QED
        BY <2>1, <2>2, <3>2, Zenon
    <2>10. Numbered(ssh.got)' /\ Numbered(sshd.got)'
      BY <1>0, <2>5, SshKnown
    <2> QED
      BY <2>6, <2>7, <2>8, <2>9, <2>10 DEF SshInv
  <1>3. CASE /\ ssh.closed
             /\ wire' = [wire EXCEPT !.up = Append(@, Part("eof"))]
             /\ client' = [client EXCEPT !.at = "drain"] /\ UNCHANGED ssh
    <2>1. PICK x \in SshItems : x = Part("eof")
      BY PartsAre
    <2>2. PICK u \in Seq(SshItems) : u = Append(wire.up, x)
      <3>1. Append(wire.up, x) \in Seq(SshItems)
        BY <1>1
      <3> QED
        BY <3>1
    <2>3. wire' = [wire EXCEPT !.up = u]
      BY <1>3, <2>1, <2>2, Zenon
    <2>4. wire' \in [up : Seq(SshItems), down : Seq(SshItems)] /\ wire'.up = u /\ wire'.down = wire.down
      BY <1>1, <2>3
    <2>5. client' \in [at : SshPlaces, why : SshWhys] /\ client'.at = "drain" /\ client'.why = client.why
      BY <1>3 DEF SshInv, SshTyped, SshPlaces
    <2>6. SshTyped'
      BY <1>0, <1>3, <2>4, <2>5 DEF SshInv, SshTyped
    <2>7. SshWhere'
      BY <1>0, <1>a, <1>3, <2>4, <2>5, SshKnown DEF SshWhere
    <2>8. DownSays'
      <3>1. DownIs(setting.asks, setting.key, "drain", door, wire.down, Len(ssh.got), sshd.sent)
        BY <1>b DEF DownIs, Ahead
      <3> QED
        BY <1>0, <1>3, <2>4, <2>5, <3>1 DEF DownSays
    <2>9. UpSays'
      <3> SUFFICES ASSUME door = "relay", ~sshd.eof
                   PROVE  UpIs(setting.key, "drain", "relay", u, Len(sshd.got), ssh.sent)
        BY <1>0, <1>a, <1>3, <2>4, <2>5 DEF UpSays
      <3>1. UpIs(setting.key, "pump", "relay", wire.up, Len(sshd.got), ssh.sent)
        BY <1>0 DEF SshInv, UpSays
      <3>2. UpIs(setting.key, "drain", "relay", Append(wire.up, Part("eof")), Len(sshd.got), ssh.sent)
        BY <3>1, SshKnown, UpEnds
      <3> QED
        BY <2>1, <2>2, <3>2, Zenon
    <2>10. Numbered(ssh.got)' /\ Numbered(sshd.got)'
      BY <1>0, <1>3, SshKnown
    <2> QED
      BY <2>6, <2>7, <2>8, <2>9, <2>10 DEF SshInv
  <1> QED
    BY <1>2, <1>3 DEF PumpsUp

\* What sshd says, until its end.
LEMMA PumpsDownKeeps == ASSUME SshInv, PumpsDown PROVE SshInv'
  <1>0. client.at \in {"pump", "drain"} /\ TakesDown /\ UNCHANGED <<setting, door, sshd>> /\ client.at \in SshReading
    BY DEF PumpsDown, SshReading
  <1>1. /\ wire.down # << >> /\ wire'.down = Tail(wire.down) /\ wire'.up = wire.up
        /\ wire' \in [up : Seq(SshItems), down : Seq(SshItems)]
    BY <1>0, TakesDownIs
  <1>2. /\ door # "accept"
        /\ DownIs(setting.asks, setting.key, client.at, door, wire.down, Len(ssh.got), sshd.sent)
    BY <1>0, <1>1, DownKnown
  <1>3. \/ /\ Head(wire.down) = SshByte(Len(ssh.got) + 1)
           /\ DownIs(setting.asks, setting.key, client.at, door, Tail(wire.down), Len(ssh.got) + 1, sshd.sent)
        \/ Head(wire.down) = Part("eof") /\ Len(ssh.got) = sshd.sent /\ door = "closed"
    <2>1. PICK q \in Seq(SshItems) : q = wire.down
      BY SshKnown
    <2>2. PICK g \in Nat : g = Len(ssh.got)
      BY SshKnown
    <2>3. PICK n \in Nat : n = sshd.sent
      BY SshKnown
    <2>4. PICK at \in {"pump", "drain"} : at = client.at /\ at \in SshReading
      BY <1>0
    <2>5. DownIs(setting.asks, setting.key, at, door, q, g, n) /\ q # << >> /\ setting.asks \in BOOLEAN
      BY <1>1, <1>2, <2>1, <2>2, <2>3, <2>4, SshKnown
    <2>6. \/ Head(q) = SshByte(g + 1) /\ DownIs(setting.asks, setting.key, at, door, Tail(q), g + 1, n)
          \/ Head(q) = Part("eof") /\ g = n /\ door = "closed"
      BY <2>4, <2>5, DownByte
    <2> QED
      BY <2>1, <2>2, <2>3, <2>4, <2>6, Zenon
  <1>4. CASE Head(wire.down) = Part("eof")
    <2>1. NextDown = "eof"
      BY <1>4, PartsAre DEF NextDown
    <2>2. client' = [at |-> "exited", why |-> "eof"] /\ UNCHANGED ssh /\ "eof" \in SshWhys
      BY <2>1 DEF PumpsDown, Exits, SshWhys
    <2>3. Len(ssh.got) = sshd.sent /\ door = "closed"
      <3>1. Len(ssh.got) + 1 \in Nat
        BY SshKnown
      <3>2. Part("eof")[1] # SshByte(Len(ssh.got) + 1)[1]
        BY <3>1, PartsAre
      <3> QED
        BY <1>3, <1>4, <3>2
    <2> QED
      BY <1>0, <1>1, <2>2, <2>3, SshExitKeeps
  <1>5. CASE Head(wire.down) # Part("eof")
    <2>0. /\ Head(wire.down) = SshByte(Len(ssh.got) + 1)
          /\ DownIs(setting.asks, setting.key, client.at, door, Tail(wire.down), Len(ssh.got) + 1, sshd.sent)
      BY <1>3, <1>5
    <2>1. Len(ssh.got) + 1 \in Nat
      BY SshKnown
    <2>2. NextDown = "byte" /\ Head(wire.down)[2] = Len(ssh.got) + 1
      BY <2>0, <2>1, PartsAre DEF NextDown
    <2>3. UNCHANGED client /\ ssh' = [ssh EXCEPT !.got = Append(ssh.got, Len(ssh.got) + 1)]
      BY <2>2 DEF PumpsDown
    <2>4. client' = [client EXCEPT !.at = client.at]
      BY <2>3 DEF SshInv, SshTyped
    <2>5. DownIs(setting.asks, setting.key, client.at, door, wire'.down, Len(ssh.got) + 1, sshd.sent)
      BY <1>1, <2>0
    <2> QED
      BY <1>0, <1>1, <1>2, <2>3, <2>4, <2>5, ClientPassesKeeps
  <1> QED
    BY <1>4, <1>5

\* Hangs, spelled out.
LEMMA HangIs ==
    ASSUME NEW q \in Seq(SshItems), NEW x \in SshItems, NEW e \in SshItems
    PROVE  (q \o << >>) \o <<e>> = Append(q, e) /\ (q \o <<x>>) \o <<e>> = Append(Append(q, x), e)
  <1>1. q \o << >> = q
    BY ConcatEmptySeq
  <1>2. Append(q, e) = q \o <<e>> /\ Append(q, x) = q \o <<x>>
    BY AppendIsConcat
  <1>3. PICK r \in Seq(SshItems) : r = Append(q, x)
    <2>1. Append(q, x) \in Seq(SshItems)
      OBVIOUS
    <2> QED
      BY <2>1
  <1>4. Append(r, e) = r \o <<e>>
    BY AppendIsConcat
  <1> QED
    BY <1>1, <1>2, <1>3, <1>4, Zenon

\* The agent ends the stream.
LEMMA DoorEndsKeeps ==
    ASSUME SshInv, door \in {"ask", "relay"}, NEW d \in Seq(SshItems), door' = "closed", wire' = [up |-> << >>, down |-> d],
           UNCHANGED <<setting, client, ssh, sshd>>,
           client.at \in SshReading =>
             DownIs(setting.asks, setting.key, client.at, "closed", d, Len(ssh.got), sshd.sent)
    PROVE  SshInv'
  <1>0. << >> \in Seq(SshItems)
    OBVIOUS
  <1>1. wire' \in [up : Seq(SshItems), down : Seq(SshItems)] /\ wire'.down = d
    BY <1>0
  <1>2. SshTyped'
    BY <1>1 DEF SshInv, SshTyped
  <1>3. SshWhere'
    BY <1>1, SshKnown DEF SshWhere
  <1>4. DownSays'
    BY <1>1 DEF DownSays
  <1>5. UpSays'
    BY DEF UpSays
  <1>6. Numbered(ssh.got)' /\ Numbered(sshd.got)'
    BY SshKnown
  <1> QED
    BY <1>2, <1>3, <1>4, <1>5, <1>6 DEF SshInv

\* It does without a word.
LEMMA HangsKeeps ==
    ASSUME SshInv, door \in {"ask", "relay"}, Hangs(<< >>), UNCHANGED <<setting, client, ssh, sshd>> PROVE SshInv'
  <1>1. PICK e \in SshItems : e = Part("eof")
    BY PartsAre
  <1>2. (wire.down \o << >>) \o <<e>> = Append(wire.down, e)
    BY SshKnown, HangIs
  <1>3. PICK d \in Seq(SshItems) : d = Append(wire.down, e)
    <2>1. Append(wire.down, e) \in Seq(SshItems)
      BY SshKnown
    <2> QED
      BY <2>1
  <1>4. door' = "closed" /\ wire' = [up |-> << >>, down |-> d]
    BY <1>1, <1>2, <1>3, Zenon DEF Hangs
  <1>5. client.at \in SshReading =>
          DownIs(setting.asks, setting.key, client.at, "closed", d, Len(ssh.got), sshd.sent)
    <2> SUFFICES ASSUME client.at \in SshReading
                 PROVE  DownIs(setting.asks, setting.key, client.at, "closed", d, Len(ssh.got), sshd.sent)
      OBVIOUS
    <2>1. DownIs(setting.asks, setting.key, client.at, door, wire.down, Len(ssh.got), sshd.sent)
      BY DEF SshInv, DownSays
    <2>2. DownIs(setting.asks, setting.key, client.at, "closed", Append(wire.down, Part("eof")), Len(ssh.got), sshd.sent)
      BY <2>1, SshKnown, DownEnds
    <2> QED
      BY <1>1, <1>3, <2>2, Zenon
  <1> QED
    BY <1>4, <1>5, DoorEndsKeeps

\* The agent's side opens.
LEMMA DoorOpensKeeps == ASSUME SshInv, DoorOpens PROVE SshInv'
  <1>0. door = "accept" /\ client.at \notin {"dial", "exited"} /\ UNCHANGED <<setting, client, ssh, sshd>>
    BY DEF DoorOpens
  <1>1. client.at = "head" /\ wire.up = << >> /\ wire.down = << >>
    BY <1>0, SshKnown DEF SshWhere
  <1>2. ssh.got = << >> /\ sshd.got = << >> /\ ssh.sent = 0 /\ sshd.sent = 0 /\ ~sshd.eof
    BY <1>0, SshKnown DEF SshWhere
  <1>3. Len(ssh.got) = 0 /\ Len(sshd.got) = 0
    <2>1. Len(<< >>) = 0
      OBVIOUS
    <2> QED
      BY <1>2, <2>1
  <1>4. wire \in [up : Seq(SshItems), down : Seq(SshItems)]
    BY DEF SshInv, SshTyped
  <1>5. LaidOut(wire.up, << >>, 0, 0) /\ Bare(wire.up, << >>, 0, 0) /\ LaidOut(wire.down, << >>, 0, 0) /\ Bare(wire.down, << >>, 0, 0)
    BY <1>1, LaidNothing
  <1>6. Numbered(ssh.got)' /\ Numbered(sshd.got)'
    BY <1>0, SshKnown
  <1>7. Tag(FALSE, setting.key) = << >>
    BY DEF Tag
  <1>8. \A dr \in {"ask", "relay"} : UpIs(setting.key, "head", dr, wire.up, 0, 0)
    BY <1>5, <1>7 DEF UpIs
  <1>9. CASE setting.asks = TRUE
    <2>1. PICK m \in SshItems : m = Part("magic")
      BY PartsAre
    <2>2. PICK c \in SshItems : c = Part("nonce")
      BY PartsAre
    <2>3. PICK d \in Seq(SshItems) : d = <<m, c>>
      <3>1. <<m, c>> \in Seq(SshItems)
        OBVIOUS
      <3> QED
        BY <3>1
    <2>4. door' = "ask" /\ wire' = [wire EXCEPT !.down = d]
      BY <1>9, <2>1, <2>2, <2>3, Zenon DEF DoorOpens
    <2>5. wire' \in [up : Seq(SshItems), down : Seq(SshItems)] /\ wire'.up = wire.up /\ wire'.down = d
      BY <1>4, <2>4
    <2>6. Ahead(TRUE, "head", "none") = d
      BY <2>1, <2>2, <2>3 DEF Ahead
    <2>7. LaidOut(d, d, 0, 0) /\ Bare(d, d, 0, 0)
      <3>1. Len(d) = 2 /\ 0 <= 0 /\ 1..(0 - 0) = {} /\ Len(d) >= Len(d) + (0 - 0)
        BY <2>3
      <3> QED
        BY <3>1 DEF LaidOut, Bare
    <2>8. DownIs(TRUE, setting.key, "head", "ask", d, 0, 0)
      BY <2>6, <2>7 DEF DownIs, SshVerdicts
    <2>9. SshTyped'
      BY <1>0, <2>4, <2>5 DEF SshInv, SshTyped
    <2>10. SshWhere'
      BY <1>0, <1>1, <1>2, <1>9, <2>4, <2>5, SshKnown DEF SshWhere
    <2>11. DownSays'
      BY <1>0, <1>1, <1>2, <1>3, <1>9, <2>4, <2>5, <2>8 DEF DownSays
    <2>12. UpSays'
      BY <1>0, <1>1, <1>2, <1>3, <1>8, <2>4, <2>5 DEF UpSays
    <2> QED
      BY <1>6, <2>9, <2>10, <2>11, <2>12 DEF SshInv
  <1>10. CASE setting.asks = FALSE
    <2>1. door' = "relay" /\ UNCHANGED wire
      BY <1>10 DEF DoorOpens
    <2>2. Ahead(FALSE, "head", "yes") = << >>
      BY DEF Ahead
    <2>3. DownIs(FALSE, setting.key, "head", "relay", wire.down, 0, 0)
      BY <1>5, <2>2 DEF DownIs, SshVerdicts
    <2>4. SshTyped'
      BY <1>0, <2>1 DEF SshInv, SshTyped
    <2>5. SshWhere'
      BY <1>0, <1>1, <1>2, <1>10, <2>1, SshKnown DEF SshWhere
    <2>6. DownSays'
      BY <1>0, <1>1, <1>2, <1>3, <1>10, <2>1, <2>3 DEF DownSays
    <2>7. UpSays'
      BY <1>0, <1>1, <1>2, <1>3, <1>8, <2>1 DEF UpSays
    <2> QED
      BY <1>6, <2>4, <2>5, <2>6, <2>7 DEF SshInv
  <1> QED
    BY <1>9, <1>10, SshKnown

\* The agent's verdict.
LEMMA JudgesKeeps == ASSUME SshInv, DoorJudges PROVE SshInv'
  <1>0. door = "ask" /\ wire.up # << >> /\ UNCHANGED <<setting, client, ssh, sshd>>
    BY DEF DoorJudges
  <1>1. /\ setting.asks = TRUE /\ client.at \notin {"dial", "pump", "drain"} /\ sshd.sent = 0 /\ ssh.sent = 0
        /\ ssh.got = << >> /\ sshd.got = << >> /\ ~sshd.eof
    BY <1>0, SshKnown DEF SshWhere
  <1>2. Len(ssh.got) = 0 /\ Len(sshd.got) = 0
    <2>1. Len(<< >>) = 0
      OBVIOUS
    <2> QED
      BY <1>1, <2>1
  <1>3. client.at \in SshReading => client.at \in {"head", "challenge", "verdict"}
    BY <1>1 DEF SshReading
  <1>4. client.at \in SshReading =>
          /\ setting.key = "right" => DownIs(TRUE, setting.key, client.at, "relay", Append(wire.down, Part("yes")), 0, 0)
          /\ DownIs(TRUE, setting.key, client.at, "closed", Append(Append(wire.down, Part("no")), Part("eof")), 0, 0)
    <2> SUFFICES ASSUME client.at \in SshReading
                 PROVE  /\ setting.key = "right" => DownIs(TRUE, setting.key, client.at, "relay", Append(wire.down, Part("yes")), 0, 0)
                        /\ DownIs(TRUE, setting.key, client.at, "closed", Append(Append(wire.down, Part("no")), Part("eof")), 0, 0)
      OBVIOUS
    <2>1. DownIs(setting.asks, setting.key, client.at, door, wire.down, Len(ssh.got), sshd.sent)
      BY <1>0 DEF SshInv, DownSays
    <2>2. DownIs(TRUE, setting.key, client.at, "ask", wire.down, 0, 0)
      BY <1>0, <1>1, <1>2, <2>1
    <2> QED
      BY <1>3, <2>2, SshKnown, DownJudged
  <1>5. CASE NextUp = "right"
    <2>1. UpIs(setting.key, client.at, "ask", wire.up, 0, 0)
      <3>1. UpIs(setting.key, client.at, door, wire.up, Len(sshd.got), ssh.sent)
        BY <1>0, <1>1 DEF SshInv, UpSays
      <3> QED
        BY <1>0, <1>1, <1>2, <3>1
    <2>2. /\ setting.key = "right" /\ UpIs(setting.key, client.at, "relay", Tail(wire.up), 0, 0)
          /\ client.at \notin {"head", "challenge"}
      BY <1>0, <1>5, <2>1, SshKnown, UpJudged DEF NextUp
    <2>3. PICK y \in SshItems : y = Part("yes")
      BY PartsAre
    <2>4. PICK d \in Seq(SshItems) : d = Append(wire.down, y)
      <3>1. Append(wire.down, y) \in Seq(SshItems)
        BY SshKnown
      <3> QED
        BY <3>1
    <2>5. PICK u \in Seq(SshItems) : u = Tail(wire.up)
      <3>1. Tail(wire.up) \in Seq(SshItems)
        BY <1>0, SshKnown
      <3> QED
        BY <3>1
    <2>6. door' = "relay" /\ wire' = [up |-> u, down |-> d]
      BY <1>5, <2>3, <2>4, <2>5 DEF DoorJudges
    <2>7. wire' \in [up : Seq(SshItems), down : Seq(SshItems)] /\ wire'.up = u /\ wire'.down = d
      BY <2>6
    <2>8. SshTyped'
      BY <1>0, <2>6, <2>7 DEF SshInv, SshTyped
    <2>9. SshWhere'
      BY <1>0, <1>1, <2>2, <2>6, <2>7, SshKnown DEF SshWhere
    <2>10. DownSays'
      <3>1. client.at \in SshReading => DownIs(TRUE, setting.key, client.at, "relay", d, 0, 0)
        BY <1>4, <2>2, <2>3, <2>4, Zenon
      <3> QED
        BY <1>0, <1>1, <1>2, <2>6, <2>7, <3>1 DEF DownSays
    <2>11. UpSays'
      <3>1. UpIs(setting.key, client.at, "relay", u, 0, 0)
        BY <2>2, <2>5, Zenon
      <3> QED
        BY <1>0, <1>1, <1>2, <2>6, <2>7, <3>1 DEF UpSays
    <2>12. Numbered(ssh.got)' /\ Numbered(sshd.got)'
      BY <1>0, SshKnown
    <2> QED
      BY <2>8, <2>9, <2>10, <2>11, <2>12 DEF SshInv
  <1>6. CASE NextUp = "wrong"
    <2>1. Hangs(<<Part("no")>>)
      BY <1>6 DEF DoorJudges
    <2>2. PICK o \in SshItems : o = Part("no")
      BY PartsAre
    <2>3. PICK e \in SshItems : e = Part("eof")
      BY PartsAre
    <2>4. (wire.down \o <<o>>) \o <<e>> = Append(Append(wire.down, o), e)
      BY SshKnown, HangIs
    <2>5. PICK d \in Seq(SshItems) : d = Append(Append(wire.down, o), e)
      <3>1. Append(Append(wire.down, o), e) \in Seq(SshItems)
        BY SshKnown
      <3> QED
        BY <3>1
    <2>6. door' = "closed" /\ wire' = [up |-> << >>, down |-> d]
      BY <2>1, <2>2, <2>3, <2>4, <2>5, Zenon DEF Hangs
    <2>7. client.at \in SshReading => DownIs(TRUE, setting.key, client.at, "closed", d, 0, 0)
      BY <1>4, <2>2, <2>3, <2>5, Zenon
    <2>8. client.at \in SshReading =>
            DownIs(setting.asks, setting.key, client.at, "closed", d, Len(ssh.got), sshd.sent)
      BY <1>1, <1>2, <2>7
    <2> QED
      BY <1>0, <2>6, <2>8, DoorEndsKeeps
  <1>7. CASE NextUp \notin {"right", "wrong"}
    <2>1. Hangs(<< >>)
      BY <1>7 DEF DoorJudges
    <2> QED
      BY <1>0, <2>1, HangsKeeps
  <1> QED
    BY <1>5, <1>6, <1>7

\* The agent passes ssh's bytes on.
LEMMA RelaysUpKeeps == ASSUME SshInv, DoorRelaysUp PROVE SshInv'
  <1>0. door = "relay" /\ wire.up # << >> /\ ~sshd.eof /\ UNCHANGED <<setting, client, door, ssh>>
    BY DEF DoorRelaysUp
  <1>1. PICK u \in Seq(SshItems) : u = Tail(wire.up)
    <2>1. Tail(wire.up) \in Seq(SshItems)
      BY <1>0, SshKnown
    <2> QED
      BY <2>1
  <1>2. wire' = [wire EXCEPT !.up = u]
    BY <1>1, Zenon DEF DoorRelaysUp
  <1>3. wire' \in [up : Seq(SshItems), down : Seq(SshItems)] /\ wire'.up = u /\ wire'.down = wire.down
    BY <1>2 DEF SshInv, SshTyped
  <1>4. UpIs(setting.key, client.at, "relay", wire.up, Len(sshd.got), ssh.sent)
    BY <1>0 DEF SshInv, UpSays
  <1>5. \/ /\ Head(wire.up) = SshByte(Len(sshd.got) + 1)
           /\ UpIs(setting.key, client.at, "relay", u, Len(sshd.got) + 1, ssh.sent)
        \/ Head(wire.up) = Part("eof")
    <2>1. PICK q \in Seq(SshItems) : q = wire.up
      BY SshKnown
    <2>2. PICK h \in Nat : h = Len(sshd.got)
      BY SshKnown
    <2>3. PICK s \in Nat : s = ssh.sent
      BY SshKnown
    <2>4. UpIs(setting.key, client.at, "relay", q, h, s) /\ q # << >>
      BY <1>0, <1>4, <2>1, <2>2, <2>3
    <2>5. \/ Head(q) = SshByte(h + 1) /\ UpIs(setting.key, client.at, "relay", Tail(q), h + 1, s)
          \/ Head(q) = Part("eof")
      BY <2>4, UpByte
    <2> QED
      BY <1>1, <2>1, <2>2, <2>3, <2>5, Zenon
  <1>6. CASE Head(wire.up) = Part("eof")
    <2>1. NextUp = "eof"
      BY <1>6, PartsAre DEF NextUp
    <2>2. sshd' = [sshd EXCEPT !.eof = TRUE]
      BY <2>1 DEF DoorRelaysUp
    <2>3. /\ sshd' \in [sent : Nat, got : Seq(Nat), eof : BOOLEAN] /\ sshd'.got = sshd.got /\ sshd'.sent = sshd.sent
          /\ sshd'.eof = TRUE
      BY <2>2 DEF SshInv, SshTyped
    <2>4. SshTyped'
      BY <1>0, <1>3, <2>3 DEF SshInv, SshTyped
    <2>5. SshWhere'
      BY <1>0, <1>3, <2>3, SshKnown DEF SshWhere
    <2>6. DownSays'
      BY <1>0, <1>3, <2>3 DEF DownSays, SshInv
    <2>7. UpSays'
      BY <2>3 DEF UpSays
    <2>8. Numbered(ssh.got)' /\ Numbered(sshd.got)'
      BY <1>0, <2>3, SshKnown
    <2> QED
      BY <2>4, <2>5, <2>6, <2>7, <2>8 DEF SshInv
  <1>7. CASE Head(wire.up) # Part("eof")
    <2>0. Len(sshd.got) + 1 \in Nat
      BY SshKnown
    <2>1. NextUp = "byte" /\ Head(wire.up)[2] = Len(sshd.got) + 1
      BY <1>5, <1>7, <2>0, PartsAre DEF NextUp
    <2>2. PICK r \in Seq(Nat) : r = Append(sshd.got, Len(sshd.got) + 1) /\ Numbered(r) /\ Len(r) = Len(sshd.got) + 1
      BY SshKnown, NumberedMore
    <2>3. sshd' = [sshd EXCEPT !.got = r]
      BY <2>1, <2>2 DEF DoorRelaysUp
    <2>4. /\ sshd' \in [sent : Nat, got : Seq(Nat), eof : BOOLEAN] /\ sshd'.got = r /\ sshd'.sent = sshd.sent
          /\ sshd'.eof = sshd.eof
      BY <2>3 DEF SshInv, SshTyped
    <2>5. SshTyped'
      BY <1>0, <1>3, <2>4 DEF SshInv, SshTyped
    <2>6. SshWhere'
      BY <1>0, <1>3, <2>4, SshKnown DEF SshWhere
    <2>7. DownSays'
      BY <1>0, <1>3, <2>4 DEF DownSays, SshInv
    <2>8. UpSays'
      BY <1>0, <1>3, <1>5, <1>7, <2>2, <2>4 DEF UpSays
    <2>9. Numbered(ssh.got)' /\ Numbered(sshd.got)'
      BY <1>0, <2>2, <2>4, SshKnown
    <2> QED
      BY <2>5, <2>6, <2>7, <2>8, <2>9 DEF SshInv
  <1> QED
    BY <1>6, <1>7

\* sshd writes on.
LEMMA SshdWritesKeeps == ASSUME SshInv, SshdWrites PROVE SshInv'
  <1>0. door = "relay" /\ UNCHANGED <<setting, client, door, ssh>>
    BY DEF SshdWrites
  <1>1. PICK m \in Nat : m = sshd.sent + 1
    BY SshKnown
  <1>2. sshd' = [sshd EXCEPT !.sent = m]
    BY <1>1 DEF SshdWrites
  <1>3. /\ sshd' \in [sent : Nat, got : Seq(Nat), eof : BOOLEAN] /\ sshd'.got = sshd.got /\ sshd'.sent = m
        /\ sshd'.eof = sshd.eof
    BY <1>2 DEF SshInv, SshTyped
  <1>4. PICK x \in SshItems : x = SshByte(sshd.sent + 1)
    BY <1>1, PartsAre
  <1>5. PICK d \in Seq(SshItems) : d = Append(wire.down, x)
    <2>1. Append(wire.down, x) \in Seq(SshItems)
      BY SshKnown
    <2> QED
      BY <2>1
  <1>6. wire' = IF client.at = "exited" THEN wire ELSE [wire EXCEPT !.down = d]
    BY <1>4, <1>5, Zenon DEF SshdWrites
  <1>7. /\ wire' \in [up : Seq(SshItems), down : Seq(SshItems)] /\ wire'.up = wire.up
        /\ client.at # "exited" => wire'.down = d
    BY <1>6 DEF SshInv, SshTyped
  <1>8. SshTyped'
    BY <1>0, <1>3, <1>7 DEF SshInv, SshTyped
  <1>9. SshWhere'
    BY <1>0, <1>3, <1>7, SshKnown DEF SshWhere
  <1>10. DownSays'
    <2> SUFFICES ASSUME client.at \in SshReading
                 PROVE  DownIs(setting.asks, setting.key, client.at, "relay", d, Len(ssh.got), m)
      BY <1>0, <1>3, <1>7 DEF DownSays, SshReading
    <2>1. DownIs(setting.asks, setting.key, client.at, "relay", wire.down, Len(ssh.got), sshd.sent)
      BY <1>0 DEF SshInv, DownSays
    <2>2. DownIs(setting.asks, setting.key, client.at, "relay", Append(wire.down, SshByte(sshd.sent + 1)), Len(ssh.got), sshd.sent + 1)
      BY <2>1, SshKnown, DownGrows
    <2> QED
      BY <1>1, <1>4, <1>5, <2>2, Zenon
  <1>11. UpSays'
    BY <1>0, <1>3, <1>7 DEF UpSays, SshInv
  <1>12. Numbered(ssh.got)' /\ Numbered(sshd.got)'
    BY <1>0, <1>3, SshKnown
  <1> QED
    BY <1>8, <1>9, <1>10, <1>11, <1>12 DEF SshInv

\* ssh closes its input.
LEMMA SshClosesKeeps == ASSUME SshInv, SshCloses PROVE SshInv'
  <1>0. UNCHANGED <<setting, client, door, wire, sshd>> /\ ssh' = [ssh EXCEPT !.closed = TRUE]
    BY DEF SshCloses
  <1>1. ssh' \in [sent : Nat, closed : BOOLEAN, got : Seq(Nat)] /\ ssh'.sent = ssh.sent /\ ssh'.got = ssh.got
    BY <1>0 DEF SshInv, SshTyped
  <1>2. SshTyped'
    BY <1>0, <1>1 DEF SshInv, SshTyped
  <1>3. SshWhere'
    BY <1>0, <1>1, SshKnown DEF SshWhere
  <1>4. DownSays' /\ UpSays'
    BY <1>0, <1>1 DEF DownSays, UpSays, SshInv
  <1>5. Numbered(ssh.got)' /\ Numbered(sshd.got)'
    BY <1>0, <1>1, SshKnown
  <1> QED
    BY <1>2, <1>3, <1>4, <1>5 DEF SshInv

\* Every step keeps the session whole.
LEMMA SshKeeps == SshInv /\ [SshNext]_sshVars => SshInv'
  <1> SUFFICES ASSUME SshInv, [SshNext]_sshVars PROVE SshInv'
    OBVIOUS
  <1>1. CASE SshConnects \/ ReadsHead \/ AnswersChallenge \/ HearsVerdict
    BY <1>1, SshConnectsKeeps, ReadsHeadKeeps, AnswersKeeps, HearsKeeps
  <1>2. CASE PreambleTimesOut \/ UpstreamBreaks \/ DrainTimesOut
    BY <1>2, GivesUpKeeps
  <1>3. CASE PumpsUp \/ PumpsDown
    BY <1>3, PumpsUpKeeps, PumpsDownKeeps
  <1>4. CASE DoorOpens \/ DoorJudges
    BY <1>4, DoorOpensKeeps, JudgesKeeps
  <1>5. CASE DoorTimesOut \/ SshdEnds
    BY <1>5, HangsKeeps DEF DoorTimesOut, SshdEnds
  <1>6. CASE DoorRelaysUp \/ SshdWrites \/ SshCloses
    BY <1>6, RelaysUpKeeps, SshdWritesKeeps, SshClosesKeeps
  <1>7. CASE UNCHANGED sshVars
    <2>1. UNCHANGED <<setting, client, door, wire, ssh, sshd>>
      BY <1>7 DEF sshVars
    <2> QED
      BY <2>1 DEF SshInv, SshTyped, SshWhere, DownSays, UpSays
  <1> QED
    BY <1>1, <1>2, <1>3, <1>4, <1>5, <1>6, <1>7 DEF SshNext

\* A session begins with nothing on the wire.
LEMMA SshStarts == SshInit => SshInv
  <1> SUFFICES ASSUME SshInit PROVE SshInv
    OBVIOUS
  <1>1. PICK e : e = << >> /\ e \in Seq(SshItems) /\ e \in Seq(Nat)
    <2>1. << >> \in Seq(SshItems) /\ << >> \in Seq(Nat)
      OBVIOUS
    <2> QED
      BY <2>1
  <1>2. /\ client = [at |-> "dial", why |-> "none"] /\ door = "accept" /\ wire = [up |-> e, down |-> e]
        /\ ssh = [sent |-> 0, closed |-> FALSE, got |-> e] /\ sshd = [sent |-> 0, got |-> e, eof |-> FALSE]
    BY <1>1, Zenon DEF SshInit
  <1>3. SshTyped
    BY <1>1, <1>2 DEF SshInit, SshTyped, SshPlaces, SshWhys
  <1>4. SshWhere
    BY <1>1, <1>2 DEF SshWhere
  <1>5. DownSays /\ UpSays
    BY <1>2 DEF DownSays, UpSays
  <1>6. Numbered(e)
    BY <1>1 DEF Numbered
  <1>7. ssh.got = e /\ sshd.got = e
    BY <1>2
  <1> QED
    BY <1>3, <1>4, <1>5, <1>6, <1>7 DEF SshInv

\* Nothing is lost, added or passed on unproved between ssh and sshd, however the timeouts, the
\* verdict and the two ends fall (pipe_over_tls, client_handshake, server_handshake): for any
\* number of bytes in each direction.
THEOREM SessionAlwaysWhole == SshSpec => []SessionWhole
  <1>1. SshInv => SessionWhole
    BY SshKnown DEF SessionWhole, SshWhere
  <1> QED
    BY <1>1, SshStarts, SshKeeps, PTL DEF SshSpec

=============================================================================
