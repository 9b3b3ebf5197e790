----------------------------- MODULE SecretFile -----------------------------
(***************************************************************************)
(* replace_atomically (secret_file.rs) at the level of directory entries   *)
(* and inodes: a temp sibling of a fixed name, written, synced and renamed *)
(* over the path.  Writers are processes (the agent and its command line)  *)
(* that write the same path; a process may be killed between two system    *)
(* calls, and the machine may lose power: an unsynced inode is then torn   *)
(* and an unsynced directory may be back at its last synced state.         *)
(***************************************************************************)
EXTENDS Naturals, FiniteSets

CONSTANTS
    Writers,    \* processes that write the path, each one content after another
    Writes,     \* bound: files created in a behaviour
    FileValues, \* contents
    NoValue     \* no file, or no write under way

ASSUME FileAssumption == Writes \in Nat /\ NoValue \notin FileValues

VARIABLES
    entries,  \* the directory as processes see it: path and temp sibling, inode numbers, 0 = none
    synced,   \* the directory as of its last fsync
    inode,    \* content, whole (all bytes written), durable (fsync of the file)
    writer    \* per process: the system call that is next, the content, its inode, Ok returned

secretVars == <<entries, synced, inode, writer>>

Inodes == 1 .. Writes
NoInode == [val |-> NoValue, whole |-> FALSE, durable |-> FALSE]
NoWrite == [at |-> "idle", val |-> NoValue, ino |-> 0, ok |-> FALSE]
Reported == [NoWrite EXCEPT !.ok = TRUE]

SecretInit ==
    /\ entries = [path |-> 0, tmp |-> 0] /\ synced = [path |-> 0, tmp |-> 0]
    /\ inode = [i \in Inodes |-> NoInode]
    /\ writer = [w \in Writers |-> NoWrite]

FreeInodes == {i \in Inodes : inode[i].val = NoValue}
At(w, call) == writer[w].at = call
Goes(w, call) == writer' = [writer EXCEPT ![w].at = call]

\* The first system call removes a temp sibling, whoever left it.
StartsWrite(w, v) ==
    /\ At(w, "idle")
    /\ entries' = [entries EXCEPT !.tmp = 0]
    /\ writer' = [writer EXCEPT ![w] = [NoWrite EXCEPT !.at = "open", !.val = v]]
    /\ UNCHANGED <<synced, inode>>

\* create_new: refused when another writer's temp file is there.
OpensTemp(w) ==
    /\ At(w, "open") /\ entries.tmp = 0
    /\ \E i \in FreeInodes :
         /\ \A j \in FreeInodes : i <= j
         /\ inode' = [inode EXCEPT ![i].val = writer[w].val]
         /\ entries' = [entries EXCEPT !.tmp = i]
         /\ writer' = [writer EXCEPT ![w].at = "write", ![w].ino = i]
    /\ UNCHANGED synced

WritesAll(w) ==
    /\ At(w, "write")
    /\ inode' = [inode EXCEPT ![writer[w].ino].whole = TRUE]
    /\ Goes(w, "sync")
    /\ UNCHANGED <<entries, synced>>

SyncsFile(w) ==
    /\ At(w, "sync")
    /\ inode' = [inode EXCEPT ![writer[w].ino].durable = TRUE]
    /\ Goes(w, "rename")
    /\ UNCHANGED <<entries, synced>>

\* rename works on the name: it moves whatever file bears it.
RenamesOver(w) ==
    /\ At(w, "rename") /\ entries.tmp # 0
    /\ entries' = [path |-> entries.tmp, tmp |-> 0]
    /\ Goes(w, "syncdir")
    /\ UNCHANGED <<synced, inode>>

\* Mutation: the directory is not synced.
SyncsDirNot(w) ==
    /\ At(w, "syncdir") /\ writer' = [writer EXCEPT ![w] = Reported] /\ UNCHANGED <<entries, synced, inode>>

SyncsDir(w) ==
    /\ At(w, "syncdir")
    /\ synced' = entries
    /\ writer' = [writer EXCEPT ![w] = Reported]
    /\ UNCHANGED <<entries, inode>>

\* Any call may fail (a full disk; create_new and rename also as above): the temp file is removed.
WriteFails(w) ==
    /\ ~At(w, "idle")
    /\ entries' = [entries EXCEPT !.tmp = 0]
    /\ writer' = [writer EXCEPT ![w] = NoWrite]
    /\ UNCHANGED <<synced, inode>>

Killed(w) ==
    /\ ~At(w, "idle")
    /\ writer' = [writer EXCEPT ![w] = NoWrite]
    /\ UNCHANGED <<entries, synced, inode>>

PowerLoss ==
    /\ entries' \in {entries, synced} /\ synced' = entries'
    /\ inode' = [i \in Inodes |-> IF inode[i].durable THEN inode[i] ELSE [inode[i] EXCEPT !.whole = FALSE]]
    /\ writer' = [w \in Writers |-> NoWrite]

SecretNext ==
    \/ \E w \in Writers :
         \/ \E v \in FileValues : StartsWrite(w, v)
         \/ OpensTemp(w) \/ WritesAll(w) \/ SyncsFile(w) \/ RenamesOver(w) \/ SyncsDir(w)
         \/ WriteFails(w) \/ Killed(w)
    \/ PowerLoss

SecretSpec == SecretInit /\ [][SecretNext]_secretVars

-----------------------------------------------------------------------------
(* Properties. *)

Torn == "torn"
Seen(i) == IF i = 0 THEN NoValue ELSE IF inode[i].whole THEN inode[i].val ELSE Torn

\* With one process writing, replace_atomically implements the atomic file its callers rely on,
\* and a write that returned Ok survives a power loss.
OneWriter == CHOOSE w \in Writers : TRUE
File == INSTANCE AtomicFile WITH
    content <- Seen(entries.path),
    kept    <- IF synced.path # 0 /\ ~inode[synced.path].durable THEN Torn ELSE Seen(synced.path),
    pending <- writer[OneWriter].val,
    ok      <- writer[OneWriter].ok
Implements == File!FileSpec
=============================================================================
