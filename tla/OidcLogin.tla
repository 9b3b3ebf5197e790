------------------------------ MODULE OidcLogin ------------------------------
(***************************************************************************)
(* The stored login (login.rs): `ct-agent login` runs the device flow and  *)
(* saves the tokens; the tasks of a running agent that need an access      *)
(* token, and other ct-agent commands, take it from the file and refresh   *)
(* it when it is stale.  The lock on that is of one process: a command     *)
(* beside the agent takes no part in it.  Refresh tokens are numbered; an  *)
(* identity provider may hand out none, or a new one with every refresh,   *)
(* and then takes the old one no more, or leave it out of its answer.      *)
(***************************************************************************)
EXTENDS Naturals, FiniteSets

CONSTANTS
    Needy,        \* what resolves a token: tasks of the agent, and other ct-agent commands
    AgentTasks,   \* the tasks of the agent among them
    RetryTries,   \* OIDC_REFRESH_RETRY_ATTEMPTS
    RefreshTokens \* bound: refresh tokens handed out

ASSUME LoginAssumption == RetryTries \in Nat \ {0} /\ RefreshTokens \in Nat /\ AgentTasks \subseteq Needy

VARIABLES
    login,    \* the saved file: there, its refresh token (0: none), its access token stale or not
    provider, \* whether it rotates refresh tokens, and the number handed out last
    fate,     \* per refresh token: what has become of it
    flow,     \* the device flow of `ct-agent login`, and the refresh token it was handed
    needs,    \* per resolver: where resolve_oidc_token is, its try, the refresh token it read
    degraded, \* the agent has said that the login can no longer be refreshed (note_degraded)
    spurned   \* the provider handed out no refresh token, or refused one that it takes

loginVars == <<login, provider, fate, flow, needs, degraded, spurned>>

\* A token is live until it is spent by an agent that saved its successor, lost (spent, and the
\* successor went elsewhere or nowhere) or over (its session or its own life has ended).
Fates == {"unused", "live", "spent", "lost", "over"}

NoFlow == [at |-> "none", token |-> 0]
NoLogin == [there |-> FALSE, refresh |-> 0, fresh |-> FALSE]
Content == [at |-> "done", try |-> 0, read |-> 0]

LoginInit ==
    /\ login = NoLogin
    /\ \E rotates \in BOOLEAN : provider = [last |-> 0, rotates |-> rotates]
    /\ fate = [r \in 1 .. RefreshTokens |-> "unused"]
    /\ flow = NoFlow /\ needs = [t \in Needy |-> Content]
    /\ degraded = FALSE /\ spurned = FALSE

-----------------------------------------------------------------------------
(* ct-agent login. *)

\* run_login: a device code is asked for, and the token endpoint polled until the user has decided,
\* the code has expired or a request fails.
AsksCode ==
    /\ flow.at = "none" /\ provider.last < RefreshTokens /\ flow' = [flow EXCEPT !.at = "polls"]
    /\ UNCHANGED <<login, provider, fate, needs, degraded, spurned>>

PollEnds ==
    /\ flow.at = "polls"
    /\ \/ flow' = NoFlow /\ UNCHANGED <<provider, fate, spurned>>
       \/ flow' = [at |-> "saves", token |-> 0] /\ spurned' = TRUE /\ UNCHANGED <<provider, fate>>
       \/ /\ provider.last < RefreshTokens
          /\ flow' = [at |-> "saves", token |-> provider.last + 1]
          /\ provider' = [provider EXCEPT !.last = @ + 1]
          /\ fate' = [fate EXCEPT ![provider.last + 1] = "live"]
          /\ UNCHANGED spurned
    /\ UNCHANGED <<login, needs, degraded>>

\* The login takes no lock: a task of the agent may be refreshing the one it replaces.  A save that
\* fails leaves the earlier login.
SavesLogin ==
    /\ flow.at = "saves" /\ flow' = NoFlow
    /\ login' \in {login, [there |-> TRUE, refresh |-> flow.token, fresh |-> TRUE]}
    /\ UNCHANGED <<provider, fate, needs, degraded, spurned>>

-----------------------------------------------------------------------------
(* resolve_oidc_token, and resolve_oidc_token_with_retry for the tasks of the agent. *)

Starts(t) ==
    /\ needs[t].at = "done"
    /\ needs' = [needs EXCEPT ![t] = [at |-> "lock", try |-> 1, read |-> 0]]
    /\ UNCHANGED <<login, provider, fate, flow, degraded, spurned>>

\* REFRESH is a static of the process.
Holds(t) == needs[t].at \in {"read", "ask"}

\* Mutation: the refresh lock is not taken.
LocksRefreshNot(t) ==
    /\ needs[t].at = "lock"
    /\ needs' = [needs EXCEPT ![t].at = "read"]
    /\ UNCHANGED <<login, provider, fate, flow, degraded, spurned>>

LocksRefresh(t) ==
    /\ needs[t].at = "lock"
    /\ t \in AgentTasks => \A o \in AgentTasks : ~Holds(o)
    /\ needs' = [needs EXCEPT ![t].at = "read"]
    /\ UNCHANGED <<login, provider, fate, flow, degraded, spurned>>

LoginEnds(t) == needs' = [needs EXCEPT ![t] = Content]

\* The stored login is stale, and its refresh token missing or past the life recorded with it.
NotRefreshable == login.there /\ ~login.fresh /\ (login.refresh # 0 => fate[login.refresh] = "over")

\* note_degraded, of which an agent's own log speaks; a command says so to its user.
Notes(t) == degraded' = (degraded \/ t \in AgentTasks)

\* The file is read under the lock: fresh and it serves; stale and its refresh token is tried; no
\* login, or none that can be refreshed, is definitive.
ReadsLogin(t) ==
    /\ needs[t].at = "read"
    /\ \/ (~login.there \/ login.fresh) /\ LoginEnds(t) /\ UNCHANGED degraded
       \/ NotRefreshable /\ LoginEnds(t) /\ Notes(t)
       \/ /\ login.there /\ ~login.fresh /\ login.refresh # 0
          /\ needs' = [needs EXCEPT ![t].at = "ask", ![t].read = login.refresh] /\ UNCHANGED degraded
    /\ UNCHANGED <<login, provider, fate, flow, spurned>>

\* oidc_credential_state: a look at the file alone, without the lock.
LooksAtState ==
    /\ NotRefreshable /\ degraded' = TRUE
    /\ UNCHANGED <<login, provider, fate, flow, needs, spurned>>

\* What the provider hands out: with rotation a new refresh token, and of the old one becomes end.
Hands(t, end) ==
    IF provider.rotates
    THEN /\ provider.last < RefreshTokens
         /\ provider' = [provider EXCEPT !.last = @ + 1]
         /\ fate' = [fate EXCEPT ![needs[t].read] = end, ![provider.last + 1] = "live"]
    ELSE UNCHANGED <<provider, fate>>

\* after_refresh: the stored refresh token stays when the answer brings none.
AfterRefresh(t) == 
    [there |-> TRUE, refresh |-> IF provider.rotates THEN provider.last + 1 ELSE needs[t].read, fresh |-> TRUE]

\* refresh_access_token answered: the tokens are saved, or the save fails and is definitive.  To the
\* agent a token spent by a command is lost: the agent may have read it before.
Refreshes(t) ==
    /\ needs[t].at = "ask" /\ fate[needs[t].read] = "live"
    /\ \/ Hands(t, IF t \in AgentTasks THEN "spent" ELSE "lost") /\ login' = AfterRefresh(t)
       \/ Hands(t, "lost") /\ UNCHANGED login
    /\ LoginEnds(t) /\ UNCHANGED <<flow, degraded, spurned>>

\* Transport errors, a server error or an unreadable answer are transient: the lock is dropped, and
\* a task of the agent tries again while tries remain.  The provider may have acted on the request
\* all the same.
AnswerLost(t) ==
    /\ needs[t].at = "ask"
    /\ \/ UNCHANGED <<provider, fate>>
       \/ fate[needs[t].read] = "live" /\ Hands(t, "lost")
    /\ needs' = IF t \in AgentTasks /\ needs[t].try < RetryTries
                THEN [needs EXCEPT ![t] = [at |-> "lock", try |-> needs[t].try + 1, read |-> 0]]
                ELSE [needs EXCEPT ![t] = Content]
    /\ UNCHANGED <<login, flow, degraded, spurned>>

\* Any other refusal is definitive, also of a token the provider would take (a client it no longer
\* knows, a request it finds malformed).
RefreshRefused(t) ==
    /\ needs[t].at = "ask"
    /\ spurned' = (spurned \/ fate[needs[t].read] = "live")
    /\ Notes(t) /\ LoginEnds(t)
    /\ UNCHANGED <<login, provider, fate, flow>>

-----------------------------------------------------------------------------

AccessExpires ==
    /\ login.fresh /\ login' = [login EXCEPT !.fresh = FALSE]
    /\ UNCHANGED <<provider, fate, flow, needs, degraded, spurned>>

\* The session ends at the provider, or the refresh token's own life does.
LoginOver ==
    /\ \E r \in DOMAIN fate : fate[r] = "live" /\ fate' = [fate EXCEPT ![r] = "over"]
    /\ UNCHANGED <<login, provider, flow, needs, degraded, spurned>>

LoginNext ==
    \/ AsksCode \/ PollEnds \/ SavesLogin
    \/ \E t \in Needy :
         \/ Starts(t) \/ LocksRefresh(t) \/ ReadsLogin(t)
         \/ Refreshes(t) \/ AnswerLost(t) \/ RefreshRefused(t)
    \/ LooksAtState \/ AccessExpires \/ LoginOver

LoginSpec == LoginInit /\ [][LoginNext]_loginVars

-----------------------------------------------------------------------------
(* Properties. *)

\* An agent never presents a refresh token that it has itself exchanged for another: of a provider
\* that rotates them that is an invalid_grant, and some providers end the session over it.  Two of
\* its tasks that find the access token stale at once, a retry, and a `ct-agent login` that saves
\* over a refresh under way are all no reason for one (REFRESH, after_refresh).
NeverPresentsSpent == \A t \in AgentTasks : needs[t].at = "ask" => fate[needs[t].read] # "spent"

\* The agent gives a login up for a cause outside it only: a token's life or session is over, the
\* answer that brought its successor was lost, could not be saved or went to another process, or the
\* provider handed out no refresh token or refused one that it takes.
DegradedHasCause ==
    /\ NeverPresentsSpent
    /\ degraded => spurned \/ \E r \in 1 .. provider.last : fate[r] \in {"lost", "over"}
=============================================================================
