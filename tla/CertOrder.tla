------------------------------ MODULE CertOrder ------------------------------
(***************************************************************************)
(* `ct-agent certificate`: the renewal loop (acme_orchestrate.rs), one     *)
(* ACME order after another (acme_client.rs), the check that the zone's    *)
(* own name servers serve the challenge record (dns01_authoritative.rs),   *)
(* and the promotion of the new key and certificate.  A certificate, and   *)
(* the key of its signing request, is the number of the order it came      *)
(* from; a challenge token likewise.  The broker, the CA and the zone's    *)
(* replication answer as they please, and a query may go unanswered.  A    *)
(* request to the CA succeeds or fails after its one retry on a spent      *)
(* nonce (post_signed).                                                    *)
(***************************************************************************)
EXTENDS Naturals, FiniteSets

CONSTANTS
    Addresses,     \* addresses of the zone's authoritative name servers
    HostOf(_),     \* the name server an address belongs to
    OrderAttempts, \* DNS01_ATTEMPTS, or what the operator configured (0 is read as 1)
    Orders         \* bound: orders in a behaviour

ASSUME CertAssumption == OrderAttempts \in Nat /\ Orders \in Nat

VARIABLES
    issue,   \* the loop: where it is, its order, the attempt, how the check went
    zone,    \* the published token, what every address serves, those looked up, the probes of a round
    store,   \* privkey.pem, fullchain.pem, their staged siblings; whether a power loss reordered renames
    earlier, \* the states of the directory a power loss may bring back
    stale    \* certificates that are two thirds through their life

certVars == <<issue, zone, store, earlier, stale>>
Unasked == [a \in Addresses |-> "unasked"]
Sleeping == [at |-> "sleep", order |-> 0, attempt |-> 0]

CertInit ==
    /\ issue = Sleeping
    /\ zone = [published |-> 0, serves |-> [a \in Addresses |-> 0], asked |-> {}, probe |-> Unasked]
    /\ store = [key |-> 0, crt |-> 0, keyNew |-> 0, crtNew |-> 0, skewed |-> FALSE]
    /\ earlier = {} /\ stale = {}

Reaches(step) == issue' = [issue EXCEPT !.at = step]
Doing(step) == issue.at = step
LastOrder == issue.order

\* needs_renewal: no certificate, or one past two thirds of its life.
Due == store.crt = 0 \/ store.crt \in stale

\* The tick of run_renewal_loop: not due and it goes back to sleep; due, and obtain_or_renew asks
\* the admission broker, which may not answer, say "not yet", or name no CA.
Checks ==
    /\ Doing("sleep") /\ UNCHANGED <<zone, store, earlier, stale>>
    /\ IF Due THEN issue' \in {issue, [issue EXCEPT !.at = "account", !.attempt = 1]}
       ELSE UNCHANGED issue

\* An attempt has failed: a DNS-01 failure gets a fresh order while attempts remain, anything else
\* ends obtain_or_renew, and the loop sleeps.
Fails(dns) ==
    issue' = IF dns /\ issue.attempt < OrderAttempts
             THEN [issue EXCEPT !.at = "account", !.attempt = @ + 1]
             ELSE [issue EXCEPT !.at = "sleep", !.attempt = 0]

\* A request that is not answered with success ends the attempt, and no fresh order can help.
Unanswered ==
    /\ issue.at \in {"account", "authz", "respond", "poll", "finalize", "download"}
    /\ Fails(FALSE) /\ UNCHANGED <<zone, store, earlier, stale>>

\* register_account, generate_csr and new_order: the order's key is made here.
PlacesOrder ==
    /\ Doing("account") /\ LastOrder < Orders
    /\ issue' = [issue EXCEPT !.at = "authz", !.order = @ + 1]
    /\ UNCHANGED <<zone, store, earlier, stale>>

\* validate_authorization publishes the token; a failed publish is cleared like any other.
Publishes ==
    /\ Doing("authz")
    /\ zone' = [zone EXCEPT !.published = LastOrder]
    /\ Reaches("lookup")
    /\ UNCHANGED <<store, earlier, stale>>

\* clear_txt after every outcome, itself best effort.
ClearsRecord == \E left \in {0, zone.published} :
                  zone' = [zone EXCEPT !.published = left, !.probe = Unasked, !.asked = {}]

PublishFails ==
    /\ Doing("authz")
    /\ ClearsRecord /\ Fails(TRUE) /\ UNCHANGED <<store, earlier, stale>>

\* Replication reaches one address.
Replicates(a) ==
    /\ zone.serves[a] # zone.published
    /\ zone' = [zone EXCEPT !.serves[a] = zone.published]
    /\ UNCHANGED <<issue, store, earlier, stale>>

\* zone_of and authoritative_addrs: the addresses the system's resolver finds for the zone's name
\* servers.  A server whose lookup fails is left out without a word, and so is an address.
FindsServers ==
    /\ Doing("lookup") /\ Reaches("probe")
    /\ \E found \in SUBSET Addresses \ {{}} : zone' = [zone EXCEPT !.asked = found]
    /\ UNCHANGED <<store, earlier, stale>>

\* It knows no zone, or no address at all for it.
NoServers ==
    /\ Doing("lookup")
    /\ Fails(TRUE) /\ ClearsRecord /\ UNCHANGED <<store, earlier, stale>>

\* Mutation: any TXT value under the name counts as the expected one.
AnswerOfAny(a) == IF zone.serves[a] # 0 THEN "present" ELSE "absent"

\* txt_at: the expected value is there, or it is not.
AnswerOf(a) == IF zone.serves[a] = LastOrder THEN "present" ELSE "absent"

\* probe: what the server answers, if it can be reached.
Probes(a) ==
    /\ Doing("probe") /\ a \in zone.asked /\ zone.probe[a] = "unasked"
    /\ \E answer \in {AnswerOf(a), "unreachable"} : zone' = [zone EXCEPT !.probe[a] = answer]
    /\ UNCHANGED <<issue, store, earlier, stale>>

\* pending_servers: an address that cannot be reached is excused by a sibling that answered.
Answered(h) == \E a \in zone.asked : HostOf(a) = h /\ zone.probe[a] \in {"present", "absent"}
MissingAt == {a \in zone.asked : zone.probe[a] = "absent"}
Unreached == {a \in zone.asked : zone.probe[a] = "unreachable" /\ ~Answered(HostOf(a))}

\* wait_for_all at the end of a round: nobody answered and the public resolvers are asked instead;
\* every server serves the record; the deadline has passed; or another round with the same servers.
JudgesRound ==
    /\ Doing("probe") /\ \A a \in zone.asked : zone.probe[a] # "unasked"
    /\ \/ /\ Unreached = zone.asked
          /\ Reaches("resolvers") /\ zone' = [zone EXCEPT !.probe = Unasked, !.asked = {}]
       \/ /\ Unreached # zone.asked /\ MissingAt = {} /\ Unreached = {}
          /\ Reaches("respond") /\ zone' = [zone EXCEPT !.probe = Unasked, !.asked = {}]
       \/ /\ Unreached # zone.asked /\ MissingAt \cup Unreached # {}
          /\ \/ UNCHANGED issue /\ zone' = [zone EXCEPT !.probe = Unasked]
             \/ Fails(TRUE) /\ ClearsRecord
    /\ UNCHANGED <<store, earlier, stale>>

\* Without a usable checker (the operator's switch, or no system resolver) the public resolvers
\* are asked at once.
AsksResolvers ==
    /\ Doing("lookup")
    /\ Reaches("resolvers") /\ UNCHANGED <<zone, store, earlier, stale>>

\* PropagationWaiter::wait_for: every resolver agrees, or the deadline passes first.
ResolversAgree ==
    /\ Doing("resolvers")
    /\ issue' = [issue EXCEPT !.at = "respond"] /\ UNCHANGED <<zone, store, earlier, stale>>

ResolversDisagree ==
    /\ Doing("resolvers")
    /\ Fails(TRUE) /\ ClearsRecord /\ UNCHANGED <<store, earlier, stale>>

\* complete_challenge: the CA is asked to validate, and its verdict polled.  The record is cleared
\* whatever the verdict: valid, invalid for a reason a fresh order can mend, or invalid for good.
Validates ==
    /\ Doing("respond") /\ ClearsRecord
    /\ Reaches("poll") \/ Fails(TRUE) \/ Fails(FALSE)
    /\ UNCHANGED <<store, earlier, stale>>

\* poll_order, finalize, poll_order and the download: any other status fails the order.
OrderReady ==
    /\ Doing("poll")
    /\ Reaches("finalize") /\ UNCHANGED <<zone, store, earlier, stale>>

Finalizes ==
    /\ Doing("finalize")
    /\ Reaches("download") /\ UNCHANGED <<zone, store, earlier, stale>>

Downloads ==
    /\ Doing("download")
    /\ Reaches("stageKey") /\ UNCHANGED <<zone, store, earlier, stale>>

\* Both files are staged and synced under .new names, each with its directory.
StagesKey ==
    /\ Doing("stageKey") /\ Reaches("stageCert")
    /\ store' = [store EXCEPT !.keyNew = LastOrder] /\ earlier' = {}
    /\ UNCHANGED <<zone, stale>>

StagesCert ==
    /\ Doing("stageCert") /\ Reaches("renameKey")
    /\ store' = [store EXCEPT !.crtNew = LastOrder] /\ earlier' = {}
    /\ UNCHANGED <<zone, stale>>

\* A power loss may keep this rename, or lose it; and keep it though it loses one before it.
Promotes(file, staged, next) ==
    /\ store' = [store EXCEPT ![file] = store[staged], ![staged] = 0, !.skewed = FALSE]
    /\ earlier' = earlier \cup {store}
                   \cup {[s EXCEPT ![file] = store[staged], ![staged] = 0, !.skewed = TRUE] : s \in earlier}
    /\ Reaches(next) /\ UNCHANGED <<zone, stale>>

\* The renames, key before certificate.
Renames ==
    \/ Doing("renameKey") /\ Promotes("key", "keyNew", "renameCert")
    \/ Doing("renameCert") /\ Promotes("crt", "crtNew", "syncDir")

\* sync_parent_dir, the completion callback (whose failure changes nothing) and back to sleep.
SyncsAndNotifies ==
    /\ Doing("syncDir") /\ earlier' = {}
    /\ issue' = [issue EXCEPT !.at = "sleep", !.attempt = 0]
    /\ UNCHANGED <<zone, store, stale>>

\* A file operation fails: only a failed certificate stage takes the staged key back.
WriteFailed ==
    /\ issue.at \in {"stageKey", "stageCert", "renameKey", "renameCert", "syncDir"}
    /\ issue' = [issue EXCEPT !.at = "sleep", !.attempt = 0]
    /\ store' = IF Doing("stageCert") THEN [store EXCEPT !.keyNew = 0] ELSE store
    /\ UNCHANGED <<zone, earlier, stale>>

\* The process is killed and started again; a power loss may also undo any of the renames.
Restarts ==
    /\ issue' = [issue EXCEPT !.at = "sleep", !.attempt = 0]
    /\ store' \in {store} \cup earlier
    /\ earlier' = IF store' = store THEN earlier ELSE {}
    /\ zone' = [zone EXCEPT !.probe = Unasked, !.asked = {}]
    /\ UNCHANGED stale

Ages ==
    /\ store.crt # 0 /\ store.crt \notin stale
    /\ stale' = stale \cup {store.crt}
    /\ UNCHANGED <<issue, zone, store, earlier>>

CertNext ==
    \/ Checks \/ Unanswered \/ PlacesOrder \/ Publishes \/ PublishFails
    \/ \E a \in Addresses : Replicates(a) \/ Probes(a)
    \/ FindsServers \/ JudgesRound \/ NoServers \/ AsksResolvers \/ ResolversAgree \/ ResolversDisagree
    \/ Validates \/ OrderReady \/ Finalizes \/ Downloads
    \/ StagesKey \/ StagesCert \/ Renames \/ SyncsAndNotifies \/ WriteFailed
    \/ Restarts \/ Ages

CertSpec == CertInit /\ [][CertNext]_certVars

-----------------------------------------------------------------------------
(* Properties. *)

\* Wherever the promotion is cut (a kill, a failed rename, a power loss), a key on disk that is
\* not the certificate's own comes with a certificate that is due: the next tick replaces both,
\* and no mismatched pair is taken for a fresh one (obtain_or_renew).  Not so if a power loss keeps
\* the second rename and loses the first: nothing syncs the directory between them.
MismatchIsDue == store.crt # store.key /\ ~store.skewed => Due

\* When the authoritative check, not the public resolvers, let the CA be asked, every name server
\* an address was found for serves this order's token at one of the addresses found: a token an
\* earlier order left behind, a server that merely answers, or a lone server that does not answer,
\* is not enough.  A server whose lookup failed is not asked (authoritative_addrs, wait_for_all,
\* pending_servers).
AskedWhereServed ==
    [][Doing("probe") /\ issue'.at = "respond" =>
         /\ zone.asked # {}
         /\ \A a \in zone.asked : \E b \in zone.asked : HostOf(a) = HostOf(b) /\ zone.serves[b] = LastOrder]_certVars
=============================================================================
