----------------------------- MODULE AtomicFile -----------------------------
(***************************************************************************)
(* What write_private and write_durable (secret_file.rs) promise the       *)
(* callers that keep keys, credentials and certificates with them: the     *)
(* file holds the old content or the new one, whole, and a write that      *)
(* reported success survives a power loss.                                 *)
(***************************************************************************)
EXTENDS Naturals

CONSTANTS FileValues, NoValue

VARIABLES
    content,  \* what a reader of the path finds
    kept,     \* what a reader finds after a power loss now
    pending,  \* the content being written, or NoValue
    ok        \* the last write has returned Ok

fileVars == <<content, kept, pending, ok>>

FileInit == content = NoValue /\ kept = NoValue /\ pending = NoValue /\ ok = FALSE

Begin(v) == pending = NoValue /\ pending' = v /\ ok' = FALSE /\ UNCHANGED <<content, kept>>

Replace == pending # NoValue /\ content' = pending /\ UNCHANGED <<kept, pending, ok>>

\* Ok: the content is in place, and a power loss leaves it there.
Succeeds ==
    /\ pending # NoValue /\ content = pending
    /\ kept' = content /\ pending' = NoValue /\ ok' = TRUE
    /\ UNCHANGED content

\* An error says nothing about which of the two contents is there.
Fails == pending # NoValue /\ pending' = NoValue /\ UNCHANGED <<content, kept, ok>>

\* The process dies, or the machine loses power.
Loses(power) ==
    /\ pending' = NoValue /\ ok' = FALSE
    /\ \/ power /\ content' \in {content, kept} /\ kept' = content'
       \/ ~power /\ UNCHANGED <<content, kept>>

FileNext == (\E v \in FileValues : Begin(v)) \/ Replace \/ Succeeds \/ Fails \/ (\E p \in BOOLEAN : Loses(p))

FileSpec == FileInit /\ [][FileNext]_fileVars
=============================================================================
