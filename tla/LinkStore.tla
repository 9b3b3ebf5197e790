------------------------------ MODULE LinkStore -----------------------------
(***************************************************************************)
(* The share links of the local-auth gate (local_auth.rs): one file, read  *)
(* anew by every operation and written back whole.  The agent's tasks      *)
(* redeem links under its mutex; the command line mints and revokes in a   *)
(* process of its own, whose mutex is another one.  Tokens are the links   *)
(* themselves, session secrets numbers; a task's request is served once.   *)
(***************************************************************************)
EXTENDS Naturals, FiniteSets, Sequences

CONSTANTS
    LinkTasks,    \* redeeming connections of the agent
    Cli,          \* the command line's process
    LinkIds,      \* links that may be minted
    MaxActive,    \* MAX_ACTIVE_LINKS
    MaxSessions,  \* MAX_SESSIONS_PER_LINK
    LinkOps       \* bound: operations started in a behaviour

ASSUME LinkAssumption ==
    Cli \notin LinkTasks /\ {MaxActive, MaxSessions, LinkOps} \subseteq Nat \ {0}

VARIABLES
    links,     \* the file: per link, absent or its record
    mutex,     \* the agent's in-process lock: its holder, or Cli
    linkOp,    \* per process or task: the operation and the file as it was loaded
    linkCount, \* operations started, and the next session secret
    granted,   \* history: URL redemptions granted per link
    overran    \* history: the process that wrote last; whether a write replaced a write of
               \* the other process that it had not read

linkVars == <<links, mutex, linkOp, linkCount, granted, overran>>

Actors == LinkTasks \cup {Cli}
NoLink == [on |-> FALSE, once |-> FALSE, used |-> FALSE, expired |-> FALSE, revoked |-> FALSE, sessions |-> <<>>]
NoLinkOp == [does |-> "none", link |-> "none", secret |-> 0, seen |-> <<>>]

LinkInit ==
    /\ links = [l \in LinkIds |-> NoLink]
    /\ mutex = Cli
    /\ linkOp = [p \in Actors |-> NoLinkOp]
    /\ linkCount = 0
    /\ granted = [l \in LinkIds |-> 0]
    /\ overran = [last |-> Cli, yes |-> FALSE]

\* is_active.
Active(file) == {l \in LinkIds : file[l].on /\ ~file[l].revoked /\ ~file[l].expired}

Starts(p, does, l, secret) ==
    /\ linkOp[p] = NoLinkOp /\ linkCount < LinkOps
    /\ linkCount' = linkCount + 1
    /\ linkOp' = [linkOp EXCEPT ![p] = [does |-> does, link |-> l, secret |-> secret, seen |-> links]]
    /\ UNCHANGED <<links, granted, overran>>

Finishes(p) == linkOp' = [linkOp EXCEPT ![p] = NoLinkOp] /\ UNCHANGED linkCount

\* save: the whole file, as this operation read it, with its own change.
Saves(p, file) ==
    /\ links' = file
    /\ overran' = [last |-> p, yes |-> overran.yes \/ (links # linkOp[p].seen /\ (p = Cli) # (overran.last = Cli))]

\* The command line: mint and link-revoke load the file ...
CliStarts(does, l) == Starts(Cli, does, l, 0) /\ UNCHANGED mutex

\* ... and write it back.  mint_at, with its cap on active links; an id is never minted twice.
Mints(once) ==
    LET op == linkOp[Cli]
    IN  /\ op.does = "mint" /\ ~op.seen[op.link].on
        /\ Cardinality(Active(op.seen)) < MaxActive
        /\ Saves(Cli, [op.seen EXCEPT ![op.link] = [NoLink EXCEPT !.on = TRUE, !.once = once]])
        /\ Finishes(Cli)
        /\ UNCHANGED <<mutex, granted>>

\* revoke_at.
Revokes ==
    LET op == linkOp[Cli]
    IN  /\ op.does = "revoke" /\ op.seen[op.link].on /\ ~op.seen[op.link].revoked
        /\ Saves(Cli, [op.seen EXCEPT ![op.link].revoked = TRUE])
        /\ Finishes(Cli)
        /\ UNCHANGED <<mutex, granted>>

\* The refusals of mint_at and revoke_at.
CliRefuses ==
    LET op == linkOp[Cli]
    IN  /\ \/ op.does = "mint" /\ (op.seen[op.link].on \/ Cardinality(Active(op.seen)) >= MaxActive)
           \/ op.does = "revoke" /\ (~op.seen[op.link].on \/ op.seen[op.link].revoked)
        /\ Finishes(Cli)
        /\ UNCHANGED <<links, mutex, granted, overran>>

-----------------------------------------------------------------------------
(* redeem_at. *)

\* Mutation: the mutex is not taken.
LocksLinksNot(t) == UNCHANGED mutex

LocksLinks(t) == mutex = Cli /\ mutex' = t

\* looks_like_link_token, the mutex, load: the URL's token, or a session secret from a cookie.
RedeemStarts(t, l, secret) ==
    /\ LocksLinks(t)
    /\ Starts(t, IF secret = 0 THEN "query" ELSE "cookie", l, secret)

InSeq(x, s) == \E i \in 1 .. Len(s) : s[i] = x

\* The record the token or the secret belongs to, unrevoked, unexpired; a once link's URL unused.
Accepted(op) ==
    LET r == op.seen[op.link]
    IN  /\ r.on /\ ~r.revoked /\ ~r.expired
        /\ IF op.does = "query" THEN ~(r.once /\ r.used) ELSE InSeq(op.secret, r.sessions)

\* A URL redemption stamps used_at, issues a session secret, keeps the newest ones, and saves.
RedeemsUrl(t) ==
    LET op == linkOp[t]
        s  == Append(op.seen[op.link].sessions, linkCount)
    IN  /\ op.does = "query" /\ Accepted(op)
        /\ Saves(t, [op.seen EXCEPT ![op.link].used = TRUE,
                                    ![op.link].sessions = IF Len(s) > MaxSessions THEN Tail(s) ELSE s])
        /\ granted' = [granted EXCEPT ![op.link] = @ + 1]
        /\ mutex' = Cli
        /\ Finishes(t)

\* A cookie changes nothing; neither does a refusal.
RedeemEnds(t) ==
    LET op == linkOp[t]
    IN  /\ op.does \in {"query", "cookie"} /\ (op.does = "query" => ~Accepted(op))
        /\ mutex' = Cli
        /\ Finishes(t)
        /\ UNCHANGED <<links, granted, overran>>

\* The clock passes a link's expires_at; nobody has to write for that.
LinkExpires(l) ==
    /\ links[l].on /\ ~links[l].expired /\ \A p \in Actors : linkOp[p] = NoLinkOp
    /\ links' = [links EXCEPT ![l].expired = TRUE]
    /\ UNCHANGED <<mutex, linkOp, linkCount, granted, overran>>

\* Any save may fail: nothing is written, and the operation is refused.
LinkSaveFails(p) ==
    /\ linkOp[p] # NoLinkOp
    /\ Finishes(p)
    /\ mutex' = IF p = mutex THEN Cli ELSE mutex
    /\ UNCHANGED <<links, granted, overran>>

LinkNext ==
    \/ \E l \in LinkIds :
         \/ (\E does \in {"mint", "revoke"} : CliStarts(does, l)) \/ LinkExpires(l)
         \/ \E t \in LinkTasks, secret \in 0 .. LinkOps : RedeemStarts(t, l, secret)
    \/ (\E once \in BOOLEAN : Mints(once)) \/ Revokes \/ CliRefuses
    \/ (\E t \in LinkTasks : RedeemsUrl(t) \/ RedeemEnds(t))
    \/ (\E p \in Actors : LinkSaveFails(p))

LinkSpec == LinkInit /\ [][LinkNext]_linkVars

-----------------------------------------------------------------------------
(* Properties. *)

\* A --once link's URL is redeemed once, however many connections present it at the same time,
\* as long as no command-line write crosses the agent's (the window LinkStore's doc admits).
OnceMeansOnce == ~overran.yes => \A l \in LinkIds : links[l].once => granted[l] <= 1
=============================================================================
