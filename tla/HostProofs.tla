----------------------------- MODULE HostProofs -----------------------------
(***************************************************************************)
(* Proofs about what an agent keeps on its own machine: the atomic         *)
(* replacement of a file, with one writer, implements what its callers     *)
(* rely on (SecretFile), and the parts that keep several files come right  *)
(* wherever they are cut: onboarding, the activation of a bundle, the      *)
(* renewal of certificates and the terminator that reads them, the update  *)
(* of the binary itself under its supervisor, the share links that several *)
(* processes write, the guesses a credential gate lets through, the        *)
(* identity an agent serves, and the events it counts and keeps.           *)
(***************************************************************************)
EXTENDS Integers, SecretFile, Onboard, Activation, OriginTls, SelfUpdate, LinkStore, RateLimiter, OriginKeys,
        EventRing, FiniteSetTheorems, SequenceTheorems, WellFoundedInduction, TLAPS

-----------------------------------------------------------------------------
(* SecretFile implements AtomicFile. *)

Calls == {"idle", "open", "write", "sync", "rename", "syncdir"}

Directories == [path : Inodes \cup {0}, tmp : Inodes \cup {0}]
InodeRecords == [val : FileValues \cup {NoValue}, whole : BOOLEAN, durable : BOOLEAN]
WriterRecords == [at : Calls, val : FileValues \cup {NoValue}, ino : Inodes \cup {0}, ok : BOOLEAN]

SecretTypeOK ==
    /\ entries \in Directories /\ synced \in Directories
    /\ inode \in [Inodes -> InodeRecords]
    /\ writer \in [Writers -> WriterRecords]

\* What a name points to that a power loss leaves as it is: written, synced, with a content.
Solid(i) == i # 0 => inode[i].whole /\ inode[i].durable /\ inode[i].val # NoValue

\* An inode that was never opened was never synced.
Fresh(i) == inode[i].val = NoValue => ~inode[i].durable

\* What a writer knows before each of its system calls.
Knows(w) ==
    /\ At(w, "idle") => writer[w].val = NoValue
    /\ ~At(w, "idle") => writer[w].val # NoValue /\ ~writer[w].ok
    /\ At(w, "open") => entries.tmp = 0
    /\ writer[w].at \in {"write", "sync", "rename"} =>
         /\ writer[w].ino # 0 /\ entries.tmp = writer[w].ino
         /\ inode[writer[w].ino].val = writer[w].val
    /\ writer[w].at \in {"write", "sync"} => ~inode[writer[w].ino].durable
    /\ writer[w].at \in {"sync", "rename"} => inode[writer[w].ino].whole
    /\ At(w, "rename") => inode[writer[w].ino].durable
    /\ At(w, "syncdir") => entries.path # 0 /\ inode[entries.path].val = writer[w].val

\* The two names of the path are solid, and the writer is where its calls have led it.
SecretInv ==
    /\ SecretTypeOK
    /\ Solid(entries.path) /\ Solid(synced.path)
    /\ \A i \in Inodes : Fresh(i)
    /\ \A w \in Writers : Knows(w)

\* 0 is no inode.
LEMMA ZeroIsNone == 0 \notin Inodes
  BY FileAssumption DEF Inodes

\* Nothing is written yet.
LEMMA SecretInitInv == SecretInit => SecretInv
  BY FileAssumption
     DEF SecretInit, SecretInv, SecretTypeOK, Directories, InodeRecords, WriterRecords, Calls, Solid,
         Fresh, Knows, At, NoInode, NoWrite

\* With one writer, each of its system calls, its failure, its death and a power loss keep the
\* invariant: nobody else removes or renames its temp file.
LEMMA SecretNextInv ==
    ASSUME NEW w, Writers = {w}, SecretInv, [SecretNext]_secretVars
    PROVE  SecretInv'
  <1> USE ZeroIsNone, FileAssumption DEF At
  <1> DEFINE Rest == Solid(entries.path) /\ Solid(synced.path) /\ Knows(w) /\ \A i \in Inodes : Fresh(i)
  <1>0. w \in Writers /\ SecretTypeOK /\ Rest
    BY DEF SecretInv
  <1>N. NoWrite \in WriterRecords
    BY DEF NoWrite, WriterRecords, Calls
  <1> SUFFICES SecretTypeOK' /\ Rest'
    BY DEF SecretInv
  <1>1. ASSUME NEW v \in FileValues, StartsWrite(w, v)
        PROVE  SecretTypeOK' /\ Rest'
    <2>0. [NoWrite EXCEPT !.at = "open", !.val = v] \in WriterRecords
      BY <1>N DEF WriterRecords, Calls
    <2>1. SecretTypeOK'
      BY <1>0, <2>0, <1>1 DEF SecretTypeOK, Directories, InodeRecords, WriterRecords, Calls, StartsWrite
    <2>2. Rest'
      BY <1>0, <1>1, <2>1 DEF SecretTypeOK, Directories, InodeRecords, WriterRecords, Solid, Fresh, Knows, StartsWrite, NoWrite
    <2> QED
      BY <2>1, <2>2
  <1>2. CASE OpensTemp(w)
    <2>0. PICK i \in Inodes :
            /\ inode[i].val = NoValue
            /\ inode' = [inode EXCEPT ![i].val = writer[w].val]
            /\ entries' = [entries EXCEPT !.tmp = i]
            /\ writer' = [writer EXCEPT ![w].at = "write", ![w].ino = i]
            /\ synced' = synced /\ At(w, "open")
      BY <1>2 DEF OpensTemp, FreeInodes
    <2>1. SecretTypeOK'
      <3>0. writer[w].val \in FileValues \cup {NoValue}
        BY <1>0 DEF SecretTypeOK, WriterRecords
      <3>1. inode' \in [Inodes -> InodeRecords]
        BY <1>0, <2>0, <3>0 DEF SecretTypeOK, InodeRecords
      <3>2. writer' \in [Writers -> WriterRecords]
        <4>1. writer \in [Writers -> WriterRecords] /\ w \in Writers
          BY <1>0 DEF SecretTypeOK
        <4>2. "write" \in Calls /\ i \in Inodes \cup {0}
          BY DEF Calls
        <4>3. PICK r \in WriterRecords : r = [writer[w] EXCEPT !.at = "write", !.ino = i]
          BY <4>1, <4>2 DEF WriterRecords
        <4>4. writer' = [writer EXCEPT ![w] = r]
          BY <2>0, <4>3
        <4> QED
          BY <4>1, <4>4
      <3>3. entries' \in Directories
        BY <1>0, <2>0 DEF SecretTypeOK, Directories
      <3> QED
        BY <1>0, <2>0, <3>1, <3>2, <3>3 DEF SecretTypeOK
    <2>2. /\ writer'[w].at = "write" /\ writer'[w].ino = i /\ writer'[w].val = writer[w].val
          /\ writer'[w].ok = writer[w].ok
      BY <1>0, <2>0 DEF SecretTypeOK, WriterRecords
    <2>3. /\ inode'[i].val = writer[w].val /\ inode'[i].durable = inode[i].durable
          /\ \A j \in Inodes : j # i => inode'[j] = inode[j]
      BY <1>0, <2>0 DEF SecretTypeOK, InodeRecords
    <2>5. i # 0 /\ i # entries.path /\ i # synced.path /\ entries'.tmp = i /\ entries'.path = entries.path
      BY <1>0, <2>0 DEF SecretTypeOK, Directories, Solid
    <2>4. Rest'
      BY <1>0, <2>0, <2>1, <2>2, <2>3, <2>5 DEF SecretTypeOK, Directories, InodeRecords, Solid, Fresh, Knows
    <2> QED
      BY <2>1, <2>4
  <1>3. CASE WritesAll(w)
    <2>0. writer[w].ino \in Inodes
      BY <1>0, <1>3 DEF SecretTypeOK, WriterRecords, Knows, WritesAll
    <2>1. SecretTypeOK'
      <3>1. PICK n \in InodeRecords : n = [inode[writer[w].ino] EXCEPT !.whole = TRUE]
        BY <1>0, <2>0, ZenonT(40) DEF SecretTypeOK, InodeRecords
      <3>2. PICK r \in WriterRecords : r = [writer[w] EXCEPT !.at = "sync"]
        BY <1>0, ZenonT(40) DEF SecretTypeOK, WriterRecords, Calls
      <3>3. /\ inode' = [inode EXCEPT ![writer[w].ino] = n] /\ writer' = [writer EXCEPT ![w] = r]
            /\ entries' = entries /\ synced' = synced
        BY <1>3, <3>1, <3>2 DEF WritesAll, Goes
      <3> QED
        BY <1>0, <2>0, <3>3 DEF SecretTypeOK
    <2>2. Rest'
      BY <1>0, <1>3, <2>0, <2>1 DEF SecretTypeOK, Directories, InodeRecords, WriterRecords, Solid, Fresh, Knows, WritesAll, Goes
    <2> QED
      BY <2>1, <2>2
  <1>4. CASE SyncsFile(w)
    <2>0. writer[w].ino \in Inodes
      BY <1>0, <1>4 DEF SecretTypeOK, WriterRecords, Knows, SyncsFile
    <2>1. SecretTypeOK'
      <3>1. PICK n \in InodeRecords : n = [inode[writer[w].ino] EXCEPT !.durable = TRUE]
        BY <1>0, <2>0, ZenonT(40) DEF SecretTypeOK, InodeRecords
      <3>2. PICK r \in WriterRecords : r = [writer[w] EXCEPT !.at = "rename"]
        BY <1>0 DEF SecretTypeOK, WriterRecords, Calls
      <3>3. /\ inode' = [inode EXCEPT ![writer[w].ino] = n] /\ writer' = [writer EXCEPT ![w] = r]
            /\ entries' = entries /\ synced' = synced
        BY <1>4, <3>1, <3>2 DEF SyncsFile, Goes
      <3> QED
        BY <1>0, <2>0, <3>3 DEF SecretTypeOK
    <2>2. Rest'
      BY <1>0, <1>4, <2>0, <2>1 DEF SecretTypeOK, Directories, InodeRecords, WriterRecords, Solid, Fresh, Knows, SyncsFile, Goes
    <2> QED
      BY <2>1, <2>2
  <1>5. CASE RenamesOver(w)
    <2>0. entries' \in Directories
      BY <1>0, <1>5 DEF SecretTypeOK, Directories, RenamesOver
    <2>1. SecretTypeOK'
      BY <1>0, <1>5, <2>0 DEF SecretTypeOK, Directories, InodeRecords, WriterRecords, Calls, RenamesOver, Goes
    <2>2. Rest'
      BY <1>0, <1>5, <2>1 DEF SecretTypeOK, Directories, InodeRecords, WriterRecords, Solid, Fresh, Knows, RenamesOver, Goes
    <2> QED
      BY <2>1, <2>2
  <1>6. CASE SyncsDir(w)
    <2>1. SecretTypeOK'
      BY <1>0, <1>N, <1>6 DEF SecretTypeOK, Directories, InodeRecords, WriterRecords, Calls, SyncsDir, Reported
    <2>2. Rest'
      BY <1>0, <1>6, <2>1 DEF SecretTypeOK, Directories, InodeRecords, WriterRecords, Solid, Fresh, Knows, SyncsDir, Reported, NoWrite
    <2> QED
      BY <2>1, <2>2
  <1>7. CASE WriteFails(w)
    <2>1. SecretTypeOK'
      BY <1>0, <1>N, <1>7 DEF SecretTypeOK, Directories, WriteFails
    <2>2. Rest'
      BY <1>0, <1>7, <2>1 DEF SecretTypeOK, Directories, InodeRecords, WriterRecords, Solid, Fresh, Knows, WriteFails, NoWrite
    <2> QED
      BY <2>1, <2>2
  <1>8. CASE Killed(w)
    <2>1. SecretTypeOK'
      BY <1>0, <1>N, <1>8 DEF SecretTypeOK, Directories, InodeRecords, WriterRecords, Calls, Killed
    <2>2. Rest'
      BY <1>0, <1>8, <2>1 DEF SecretTypeOK, Directories, InodeRecords, WriterRecords, Solid, Fresh, Knows, Killed, NoWrite
    <2> QED
      BY <2>1, <2>2
  <1>9. CASE PowerLoss
    <2>1. SecretTypeOK'
      <3>1. entries' \in Directories /\ synced' \in Directories
        BY <1>0, <1>9 DEF SecretTypeOK, PowerLoss
      <3>2. writer' \in [Writers -> WriterRecords]
        BY <1>N, <1>9 DEF PowerLoss
      <3>3. \A n \in InodeRecords : [n EXCEPT !.whole = FALSE] \in InodeRecords
        BY DEF InodeRecords
      <3>4. inode' \in [Inodes -> InodeRecords]
        BY <1>0, <1>9, <3>3 DEF SecretTypeOK, PowerLoss
      <3> QED
        BY <3>1, <3>2, <3>4 DEF SecretTypeOK
    <2>2. Rest'
      BY <1>0, <1>9, <2>1 DEF SecretTypeOK, Directories, InodeRecords, WriterRecords, Solid, Fresh, Knows, PowerLoss, NoWrite
    <2> QED
      BY <2>1, <2>2
  <1>10. CASE UNCHANGED secretVars
    <2>1. SecretTypeOK'
      BY <1>0, <1>10 DEF SecretTypeOK, Directories, InodeRecords, WriterRecords, Calls, secretVars
    <2>2. Rest'
      BY <1>0, <1>10, <2>1 DEF SecretTypeOK, Directories, InodeRecords, WriterRecords, Solid, Fresh, Knows, secretVars
    <2> QED
      BY <2>1, <2>2
  <1> QED
    BY <1>1, <1>2, <1>3, <1>4, <1>5, <1>6, <1>7, <1>8, <1>9, <1>10 DEF SecretNext

\* Each step is one of the atomic file's, or none of its business.
LEMMA SecretStepRefines ==
    ASSUME NEW w, Writers = {w}, SecretInv, [SecretNext]_secretVars
    PROVE  [File!FileNext]_(File!fileVars)
  <1> USE ZeroIsNone, FileAssumption
  <1> USE DEF SecretInv, SecretTypeOK, Directories, InodeRecords, WriterRecords, Solid, Fresh, Knows, At, NoWrite, Seen
  <1>0. OneWriter = w
    BY DEF OneWriter
  <1> USE <1>0
  <1>1. ASSUME NEW v \in FileValues, StartsWrite(w, v)
        PROVE  File!Begin(v)
    BY <1>1 DEF StartsWrite, File!Begin
  <1>2. CASE OpensTemp(w)
    <2>1. UNCHANGED File!fileVars
      BY <1>2 DEF OpensTemp, FreeInodes, File!fileVars
    <2> QED
      BY <2>1
  <1>3. CASE WritesAll(w)
    BY <1>3 DEF WritesAll, Goes, File!fileVars
  <1>4. CASE SyncsFile(w)
    BY <1>4 DEF SyncsFile, Goes, File!fileVars
  <1>5. CASE RenamesOver(w)
    <2>1. File!Replace
      BY <1>5 DEF RenamesOver, Goes, File!Replace
    <2> QED
      BY <2>1 DEF File!FileNext
  <1>6. CASE SyncsDir(w)
    <2>1. File!Succeeds
      BY <1>6 DEF SyncsDir, Reported, File!Succeeds
    <2> QED
      BY <2>1 DEF File!FileNext
  <1>7. CASE WriteFails(w)
    <2>1. File!Fails
      BY <1>7 DEF WriteFails, File!Fails
    <2> QED
      BY <2>1 DEF File!FileNext
  <1>8. CASE Killed(w)
    <2>1. File!Loses(FALSE)
      BY <1>8 DEF Killed, File!Loses
    <2> QED
      BY <2>1 DEF File!FileNext
  <1>9. CASE PowerLoss
    <2>1. File!Loses(TRUE)
      BY <1>9 DEF PowerLoss, File!Loses
    <2> QED
      BY <2>1 DEF File!FileNext
  <1>10. CASE UNCHANGED secretVars
    BY <1>10 DEF secretVars, File!fileVars
  <1> QED
    BY <1>1, <1>2, <1>3, <1>4, <1>5, <1>6, <1>7, <1>8, <1>9, <1>10 DEF SecretNext, File!FileNext

\* With one process writing, replace_atomically is the atomic file its callers rely on, through
\* failed calls, kills and power losses, for any contents and any number of writes: a reader finds
\* the old content or the new one, and what was reported written is there after a power loss.
THEOREM OneWriterImplements ==
    ASSUME NEW w, Writers = {w}
    PROVE  SecretSpec => Implements
  <1>1. SecretInit => File!FileInit
    BY DEF SecretInit, File!FileInit, Seen, OneWriter, NoWrite
  <1>2. SecretInv /\ [SecretNext]_secretVars => SecretInv'
    BY SecretNextInv
  <1>3. SecretInv /\ [SecretNext]_secretVars => [File!FileNext]_(File!fileVars)
    BY SecretStepRefines
  <1> QED
    BY SecretInitInv, <1>1, <1>2, <1>3, PTL DEF SecretSpec, Implements, File!FileSpec
-----------------------------------------------------------------------------
(* Onboarding (Onboard).  Outside the three renames the files are those of one redemption and a    *)
(* crash brings the same ones back; within them, what is not renamed yet is staged.                *)

Steps3 == {"renamed1", "renamed2", "renamed3"}
OnboardStages == {"down", "restore", "agent", "redeem", "stage", "staged", "running", "failed"} \cup Steps3
FileMaps == [Names -> 0 .. Redemptions]
StarterRecords == [at : OnboardStages, id : AgentIds, identity : 0 .. Redemptions, tenant : 0 .. Redemptions]
StateDirs == [names : FileMaps, older : FileMaps, staged : FileMaps]

OnboardTyped ==
    /\ starter \in StarterRecords /\ stateDir \in StateDirs
    /\ registry \in [1 .. Redemptions -> AgentIds \cup {"unused"}] /\ halfway \in BOOLEAN

\* All files are of one redemption, or there is none.
OfOne(f) == f["identity"] = f["agent"] /\ f["agent"] = f["tenant"]

\* Only a start that is cut among its renames leaves files of two.
FilesWhole == (~halfway /\ starter.at \notin Steps3) => OfOne(stateDir.names) /\ stateDir.older = stateDir.names

\* What a start has redeemed is its own, and is where the renames have brought it.
Owns == starter.identity = starter.tenant /\ starter.identity # 0 /\ registry[starter.identity] = starter.id
Redeemed == starter.at \in {"stage", "staged"} \cup Steps3 => Owns
Carried ==
    /\ starter.at \in {"staged"} \cup Steps3 =>
         \A n \in Names : starter.identity = IF \/ n = "identity" /\ starter.at \in Steps3
                                                \/ n = "agent" /\ starter.at \in {"renamed2", "renamed3"}
                                                \/ n = "tenant" /\ starter.at = "renamed3"
                                             THEN stateDir.names[n] ELSE stateDir.staged[n]

\* A start that has looked for an identity has found one.
Found == starter.at = "agent" => stateDir.names["identity"] # 0
Running == starter.at = "running" /\ ~halfway => Owns

OnboardInv == OnboardTyped /\ FilesWhole /\ Redeemed /\ Carried /\ Found /\ Running

\* An agent that is not started is down.
LEMMA NoStartTyped == NoStart \in StarterRecords /\ NoStart.at = "down"
  <1>1. (CHOOSE a \in AgentIds : TRUE) \in AgentIds
    BY OnboardAssumption
  <1> QED
    BY <1>1, OnboardAssumption DEF NoStart, StarterRecords, OnboardStages, Nothing

\* A fresh state directory has no files.
LEMMA OnboardStarts == OnboardInit => OnboardInv
  <1> SUFFICES ASSUME OnboardInit PROVE OnboardInv
    OBVIOUS
  <1>1. NoFiles \in FileMaps /\ \A n \in Names : NoFiles[n] = 0
    BY OnboardAssumption DEF NoFiles, FileMaps, Nothing
  <1>2. OnboardTyped
    BY <1>1, NoStartTyped DEF OnboardInit, OnboardTyped, StateDirs
  <1>3. starter.at = "down" /\ stateDir.names = NoFiles /\ stateDir.older = NoFiles
    BY NoStartTyped DEF OnboardInit
  <1>4. FilesWhole
    BY <1>1, <1>3 DEF FilesWhole, OfOne, Names
  <1> QED
    BY <1>2, <1>3, <1>4 DEF OnboardInv, Redeemed, Carried, Found, Running, Steps3

\* A step that leaves the files alone.
LEMMA StarterMoves ==
    ASSUME OnboardInv, UNCHANGED <<stateDir, registry, halfway>>, starter' \in StarterRecords,
           starter'.at \notin {"staged"} \cup Steps3, starter.at \notin Steps3,
           starter'.at = "stage" => Owns',
           starter'.at = "agent" => stateDir.names["identity"] # 0,
           starter'.at = "running" /\ ~halfway => Owns'
    PROVE  OnboardInv'
  BY DEF OnboardInv, OnboardTyped, FilesWhole, Redeemed, Carried, Found, Running

\* Starting, looking for an identity and loading change no file.
LEMMA StartsKeep ==
    ASSUME OnboardInv, StartsAs \/ LooksForIdentity \/ Exits \/ Restores
    PROVE  OnboardInv'
  <1>0. /\ starter \in StarterRecords /\ stateDir \in StateDirs /\ UNCHANGED <<stateDir, registry, halfway>>
        /\ registry \in [1 .. Redemptions -> AgentIds \cup {"unused"}]
    BY DEF OnboardInv, OnboardTyped, StartsAs, LooksForIdentity, Exits, Restores
  <1>1. CASE StartsAs
    <2>1. PICK a \in AgentIds : starter' = [NoStart EXCEPT !.at = "restore", !.id = a]
      BY <1>1 DEF StartsAs
    <2>2. starter' \in StarterRecords /\ starter'.at = "restore"
      BY <2>1, NoStartTyped DEF StarterRecords, OnboardStages
    <2> QED
      BY <1>0, <1>1, <2>2, StarterMoves DEF StartsAs, Steps3
  <1>2. CASE LooksForIdentity
    <2>1. PICK to \in {"redeem", "agent"} :
            starter' = [starter EXCEPT !.at = to] /\ (to = "agent" => stateDir.names["identity"] # 0)
      BY <1>2 DEF LooksForIdentity, StarterGoes, Nothing
    <2>2. starter' \in StarterRecords /\ starter'.at = to
      BY <1>0, <2>1 DEF StarterRecords, OnboardStages
    <2> QED
      BY <1>0, <1>2, <2>1, <2>2, StarterMoves DEF LooksForIdentity, Steps3
  <1>3. CASE Exits
    BY <1>0, <1>3, NoStartTyped, StarterMoves DEF Exits, Steps3
  <1>4. CASE Restores
    <2>0. PICK f \in FileMaps : f = stateDir.names
      BY <1>0 DEF StateDirs
    <2>1. f["agent"] \in 0 .. Redemptions /\ f["identity"] \in 0 .. Redemptions /\ f["tenant"] \in 0 .. Redemptions
      BY <2>0 DEF FileMaps, Names
    <2>2. CASE \E to \in {"failed", "redeem"} : StarterGoes(to)
      <3>1. PICK to \in {"failed", "redeem"} : starter' = [starter EXCEPT !.at = to]
        BY <2>2 DEF StarterGoes
      <3>2. starter' \in StarterRecords /\ starter'.at = to
        BY <1>0, <3>1 DEF StarterRecords, OnboardStages
      <3> QED
        BY <1>0, <1>4, <3>2, StarterMoves DEF Restores, Steps3
    <2>3. CASE ~ \E to \in {"failed", "redeem"} : StarterGoes(to)
      <3>1. /\ f["agent"] # 0 /\ registry[f["agent"]] = starter.id
            /\ starter' = [starter EXCEPT !.at = "running", !.identity = f["identity"], !.tenant = f["tenant"]]
        BY <1>4, <2>0, <2>3 DEF Restores, Nothing
      <3>2. PICK i \in 0 .. Redemptions, t \in 0 .. Redemptions : i = f["identity"] /\ t = f["tenant"]
        BY <2>1
      <3>3. /\ starter' \in StarterRecords /\ starter'.at = "running" /\ starter'.identity = i
            /\ starter'.tenant = t /\ starter'.id = starter.id
        BY <1>0, <3>1, <3>2 DEF StarterRecords, OnboardStages
      <3>4. ~halfway => Owns'
        <4>1. ~halfway => OfOne(f)
          BY <1>4, <2>0 DEF OnboardInv, FilesWhole, Restores, Steps3
        <4> QED
          BY <1>0, <3>1, <3>2, <3>3, <4>1 DEF OfOne, Owns
      <3> QED
        BY <1>0, <1>4, <3>3, <3>4, StarterMoves DEF Restores, Steps3
    <2> QED
      BY <2>2, <2>3
  <1> QED
    BY <1>1, <1>2, <1>3, <1>4

\* A redemption is of a token that nobody used, and is the start's own.
LEMMA RedeemsKeeps == ASSUME OnboardInv, Redeems PROVE OnboardInv'
  <1>0. /\ starter \in StarterRecords /\ starter.at = "redeem" /\ UNCHANGED <<stateDir, halfway>>
        /\ registry \in [1 .. Redemptions -> AgentIds \cup {"unused"}] /\ starter.id \in AgentIds
    BY DEF OnboardInv, OnboardTyped, Redeems, StarterRecords
  <1>1. CASE StarterGoes("failed") /\ UNCHANGED registry
    <2>1. starter' \in StarterRecords /\ starter'.at = "failed"
      BY <1>0, <1>1 DEF StarterGoes, StarterRecords, OnboardStages
    <2> QED
      BY <1>0, <1>1, <2>1, StarterMoves DEF Steps3
  <1>2. CASE ~(StarterGoes("failed") /\ UNCHANGED registry)
    <2>1. PICK r \in 1 .. Redemptions :
            /\ registry' = [registry EXCEPT ![r] = starter.id]
            /\ starter' = [starter EXCEPT !.at = "stage", !.identity = r, !.tenant = r]
      BY <1>2 DEF Redeems
    <2>2. r \in 0 .. Redemptions /\ r # 0
      BY OnboardAssumption
    <2>3. /\ starter' \in StarterRecords /\ starter'.at = "stage" /\ starter'.identity = r
          /\ starter'.tenant = r /\ starter'.id = starter.id
      BY <1>0, <2>1, <2>2 DEF StarterRecords, OnboardStages
    <2>4. Owns' /\ registry' \in [1 .. Redemptions -> AgentIds \cup {"unused"}]
      BY <1>0, <2>1, <2>2, <2>3 DEF Owns
    <2> QED
      BY <1>0, <2>3, <2>4
         DEF OnboardInv, OnboardTyped, FilesWhole, Redeemed, Carried, Found, Running, Steps3
  <1> QED
    BY <1>1, <1>2

\* Staging writes the redeemed files beside the ones in use.
LEMMA StagesKeeps == ASSUME OnboardInv, Stages PROVE OnboardInv'
  <1>0. /\ starter \in StarterRecords /\ stateDir \in StateDirs /\ starter.at = "stage" /\ Owns
        /\ UNCHANGED <<registry, halfway>> /\ starter.identity \in 0 .. Redemptions
    BY DEF OnboardInv, OnboardTyped, Stages, Redeemed, StarterRecords
  <1>1. PICK g \in FileMaps, to \in {"staged", "failed"} :
          /\ stateDir' = [stateDir EXCEPT !.staged = g] /\ starter' = [starter EXCEPT !.at = to]
          /\ to = "staged" => \A n \in Names : g[n] = starter.identity
    <2>1. NoFiles \in FileMaps /\ [n \in Names |-> starter.identity] \in FileMaps
      BY <1>0, OnboardAssumption DEF NoFiles, FileMaps, Nothing
    <2> QED
      BY <2>1 DEF Stages, StarterGoes
  <1>2. /\ starter' \in StarterRecords /\ starter'.at = to /\ starter'.identity = starter.identity
        /\ starter'.tenant = starter.tenant /\ starter'.id = starter.id
    BY <1>0, <1>1 DEF StarterRecords, OnboardStages
  <1>3. /\ stateDir' \in StateDirs /\ stateDir'.names = stateDir.names /\ stateDir'.older = stateDir.older
        /\ stateDir'.staged = g
    BY <1>0, <1>1 DEF StateDirs
  <1>4. OnboardTyped' /\ FilesWhole'
    BY <1>0, <1>2, <1>3 DEF OnboardInv, OnboardTyped, FilesWhole, Steps3
  <1>5. Owns' /\ Redeemed' /\ Found' /\ Running'
    BY <1>0, <1>2 DEF Owns, Redeemed, Found, Running
  <1>6. Carried'
    BY <1>1, <1>2, <1>3 DEF Carried, Steps3
  <1> QED
    BY <1>4, <1>5, <1>6 DEF OnboardInv

\* One rename: the name gets the staged file, which is gone from there.
LEMMA RenamedDoes ==
    ASSUME stateDir \in StateDirs, NEW n \in Names, Renamed(n)
    PROVE  /\ stateDir' \in StateDirs /\ stateDir'.older = stateDir.older
           /\ stateDir'.names[n] = stateDir.staged[n]
           /\ \A m \in Names : m # n => /\ stateDir'.names[m] = stateDir.names[m]
                                        /\ stateDir'.staged[m] = stateDir.staged[m]
  <1>1. PICK f \in FileMaps, g \in FileMaps : f = stateDir.names /\ g = stateDir.staged
    BY DEF StateDirs
  <1>2. [f EXCEPT ![n] = g[n]] \in FileMaps /\ [g EXCEPT ![n] = 0] \in FileMaps
    BY OnboardAssumption DEF FileMaps
  <1>3. PICK f1 \in FileMaps, g1 \in FileMaps : f1 = [f EXCEPT ![n] = g[n]] /\ g1 = [g EXCEPT ![n] = 0]
    BY <1>2
  <1>4. stateDir' = [stateDir EXCEPT !.names = f1, !.staged = g1]
    BY <1>1, <1>3 DEF Renamed, Nothing
  <1>5. /\ stateDir' \in StateDirs /\ stateDir'.older = stateDir.older
        /\ stateDir'.names = f1 /\ stateDir'.staged = g1
    BY <1>4 DEF StateDirs
  <1> QED
    BY <1>1, <1>3, <1>5 DEF FileMaps

\* Each rename brings one file of the redemption to its name.
LEMMA RenamesKeep == ASSUME OnboardInv, RenamesNext PROVE OnboardInv'
  <1>0. /\ starter \in StarterRecords /\ stateDir \in StateDirs /\ Carried /\ Owns
        /\ UNCHANGED <<registry, halfway>>
    BY DEF OnboardInv, OnboardTyped, RenamesNext, Redeemed, Steps3
  <1>1. PICK to \in Steps3 :
          /\ starter' = [starter EXCEPT !.at = to]
          /\ \/ starter.at = "staged" /\ Renamed("identity") /\ to = "renamed1"
             \/ starter.at = "renamed1" /\ Renamed("agent") /\ to = "renamed2"
             \/ starter.at = "renamed2" /\ Renamed("tenant") /\ to = "renamed3"
    BY DEF RenamesNext, StarterGoes, Steps3
  <1>2. /\ starter' \in StarterRecords /\ starter'.at = to /\ starter'.identity = starter.identity
        /\ starter'.tenant = starter.tenant /\ starter'.id = starter.id
    BY <1>0, <1>1 DEF StarterRecords, OnboardStages
  <1>3. {"identity", "agent", "tenant"} = Names
    BY DEF Names
  <1>4. stateDir' \in StateDirs
    BY <1>0, <1>1, <1>3, RenamedDoes
  <1>5. Carried'
    <2>1. CASE starter.at = "staged"
      <3>1. Renamed("identity") /\ to = "renamed1"
        BY <1>1, <2>1
      <3>2. \A n \in Names : stateDir.staged[n] = starter.identity
        BY <1>0, <2>1 DEF Carried, Steps3
      <3> QED
        BY <1>0, <1>2, <1>3, <3>1, <3>2, RenamedDoes DEF Carried, Steps3
    <2>2. CASE starter.at = "renamed1"
      <3>1. Renamed("agent") /\ to = "renamed2"
        BY <1>1, <2>2
      <3>2. /\ stateDir.names["identity"] = starter.identity
            /\ stateDir.staged["agent"] = starter.identity /\ stateDir.staged["tenant"] = starter.identity
        BY <1>0, <1>3, <2>2 DEF Carried, Steps3
      <3> QED
        BY <1>0, <1>2, <1>3, <3>1, <3>2, RenamedDoes DEF Carried, Steps3
    <2>3. CASE starter.at = "renamed2"
      <3>1. Renamed("tenant") /\ to = "renamed3"
        BY <1>1, <2>3
      <3>2. /\ stateDir.names["identity"] = starter.identity
            /\ stateDir.names["agent"] = starter.identity /\ stateDir.staged["tenant"] = starter.identity
        BY <1>0, <1>3, <2>3 DEF Carried, Steps3
      <3> QED
        BY <1>0, <1>2, <1>3, <3>1, <3>2, RenamedDoes DEF Carried, Steps3
    <2> QED
      BY <1>1, <2>1, <2>2, <2>3
  <1>6. Owns' /\ Redeemed' /\ Found' /\ Running' /\ FilesWhole'
    BY <1>0, <1>2 DEF Owns, Redeemed, Found, Running, FilesWhole, Steps3
  <1>7. OnboardTyped'
    BY <1>0, <1>2, <1>4 DEF OnboardInv, OnboardTyped
  <1> QED
    BY <1>5, <1>6, <1>7 DEF OnboardInv

\* A failure or a crash among the renames is what halfway records.
LEMMA CutKeeps == ASSUME OnboardInv, RenameFails \/ Crashes PROVE OnboardInv'
  <1>0. /\ starter \in StarterRecords /\ stateDir \in StateDirs /\ halfway \in BOOLEAN /\ FilesWhole
        /\ registry' = registry
    BY DEF OnboardInv, OnboardTyped, RenameFails, Crashes
  <1>1. CASE RenameFails
    <2>1. starter' \in StarterRecords /\ starter'.at = "failed" /\ stateDir' = stateDir
      BY <1>0, <1>1 DEF RenameFails, StarterGoes, StarterRecords, OnboardStages
    <2>2. halfway' \in BOOLEAN /\ (~halfway' => ~halfway /\ starter.at = "staged")
      BY <1>0, <1>1 DEF RenameFails
    <2>3. FilesWhole'
      BY <1>0, <2>1, <2>2 DEF FilesWhole, Steps3
    <2> QED
      BY <1>0, <2>1, <2>2, <2>3 DEF OnboardInv, OnboardTyped, Redeemed, Carried, Found, Running, Steps3
  <1>2. CASE Crashes
    <2>0. starter' \in StarterRecords /\ starter'.at = "down"
      BY <1>2, NoStartTyped, ZenonT(40) DEF Crashes
    <2>1. PICK back \in SUBSET Names :
            stateDir' = [stateDir EXCEPT
              !.names = [n \in Names |-> IF n \in back THEN stateDir.older[n] ELSE stateDir.names[n]],
              !.older = [n \in Names |-> IF n \in back THEN stateDir.older[n] ELSE stateDir.names[n]]]
      BY <1>2 DEF Crashes
    <2>2. stateDir.names \in FileMaps /\ stateDir.older \in FileMaps
      BY <1>0 DEF StateDirs
    <2>3. PICK kept \in FileMaps :
            kept = [n \in Names |-> IF n \in back THEN stateDir.older[n] ELSE stateDir.names[n]]
      BY <2>2 DEF FileMaps
    <2>4. stateDir' = [stateDir EXCEPT !.names = kept, !.older = kept]
      BY <2>1, <2>3
    <2>5. stateDir' \in StateDirs /\ stateDir'.names = kept /\ stateDir'.older = kept
      BY <1>0, <2>4 DEF StateDirs
    <2>6. halfway' \in BOOLEAN /\ (~halfway' => ~halfway /\ starter.at \notin Steps3)
      BY <1>0, <1>2 DEF Crashes, Steps3
    <2>7. FilesWhole'
      <3>1. ~halfway' => OfOne(stateDir.names) /\ stateDir.older = stateDir.names
        BY <1>0, <2>6 DEF FilesWhole
      <3>2. ~halfway' => OfOne(kept)
        BY <2>3, <3>1 DEF OfOne, Names
      <3> QED
        BY <2>5, <3>2 DEF FilesWhole
    <2> QED
      BY <1>0, <2>0, <2>5, <2>6, <2>7
         DEF OnboardInv, OnboardTyped, Redeemed, Carried, Found, Running, Steps3
  <1> QED
    BY <1>1, <1>2

\* A synced directory is what a crash brings back.
LEMMA SyncKeeps == ASSUME OnboardInv, SyncsStateDir PROVE OnboardInv'
  <1>0. /\ starter \in StarterRecords /\ stateDir \in StateDirs /\ Owns /\ starter.at = "renamed3"
        /\ registry' = registry /\ halfway' = FALSE /\ stateDir.names \in FileMaps
        /\ \A n \in Names : stateDir.names[n] = starter.identity
    BY DEF OnboardInv, OnboardTyped, SyncsStateDir, Redeemed, Carried, Steps3, StateDirs, Names
  <1>1. /\ starter' \in StarterRecords /\ starter'.at = "running" /\ starter'.identity = starter.identity
        /\ starter'.tenant = starter.tenant /\ starter'.id = starter.id
    BY <1>0 DEF SyncsStateDir, StarterGoes, StarterRecords, OnboardStages
  <1>2. stateDir' \in StateDirs /\ stateDir'.names = stateDir.names /\ stateDir'.older = stateDir.names
    BY <1>0 DEF SyncsStateDir, StateDirs
  <1>3. FilesWhole'
    BY <1>0, <1>2 DEF FilesWhole, OfOne, Names
  <1>4. Owns'
    BY <1>0, <1>1 DEF Owns
  <1> QED
    BY <1>0, <1>1, <1>2, <1>3, <1>4
       DEF OnboardInv, OnboardTyped, Redeemed, Carried, Found, Running, Steps3

\* Every step keeps the invariant of onboarding.
LEMMA OnboardKeeps == OnboardInv /\ [OnboardNext]_onboardVars => OnboardInv'
  <1> SUFFICES ASSUME OnboardInv, [OnboardNext]_onboardVars PROVE OnboardInv'
    OBVIOUS
  <1>1. CASE UNCHANGED onboardVars
    BY <1>1 DEF onboardVars, OnboardInv, OnboardTyped, FilesWhole, Redeemed, Carried, Found, Running, Owns
  <1> QED
    BY <1>1, StartsKeep, RedeemsKeeps, StagesKeeps, RenamesKeep, CutKeeps, SyncKeeps DEF OnboardNext

\* For any number of agent ids and redemptions, and whatever fails or crashes: an agent that runs has
\* the identity and the tenant of one redemption for its own id, unless a start was cut between its
\* first rename and its sync (onboard.rs: restore, redeem and the staged renames).
THEOREM AlwaysRunsAsOne == OnboardSpec => []RunsAsOneOnboarding
  <1>1. OnboardInv => RunsAsOneOnboarding
    BY DEF OnboardInv, OnboardTyped, Running, Owns, RunsAsOneOnboarding, OnboardTypeOK, StarterRecords,
           StateDirs, FileMaps, OnboardStages, Steps3
  <1> QED
    BY <1>1, OnboardStarts, OnboardKeeps, PTL DEF OnboardSpec

-----------------------------------------------------------------------------
(* Activation of a bundle (Activation).  While no second activation has slipped in between another's *)
(* look and its first file, one activation at most has the directory, what it holds follows from     *)
(* where that one is, and a whole marker is only ever on the whole bundle it names.                  *)

BundleRecords == [there : BOOLEAN, of : SUBSET Manifests, installed : SUBSET Manifests,
                  marker : {"none", "torn", "whole"}, named : Manifests \cup {NoManifest}, crowded : BOOLEAN]
ActivatorRecords == [at : {"idle", "create", "fetch", "install", "mark", "ledger"},
                     m : Manifests \cup {NoManifest}]

Has(a) == activator[a].at \in {"fetch", "install", "mark"}

\* A directory that is not there is in nobody's hands, and an activation has a manifest.
Grounded ==
    /\ ~bundle.there => bundle = Absent /\ task = NoTask /\ \A a \in Activators : ~Has(a)
    /\ \A a \in Activators : activator[a].at # "idle" => activator[a].m \in Manifests

\* Where an activation is and what the directory holds then.
Follows(r) ==
    /\ r.at = "fetch" => Empty
    /\ r.at \in {"install", "mark"} => bundle.of = {r.m} /\ bundle.marker = "none"
    /\ r.at = "install" => bundle.installed = {}
    /\ r.at = "mark" => bundle.installed = {r.m}

\* What holds of a directory that no second activation has slipped into.
Orderly ==
    /\ \A a, b \in Activators : Has(a) /\ Has(b) => a = b
    /\ \A a \in Activators : Follows(activator[a])
    /\ bundle.of = {} => bundle.installed = {}
    /\ bundle.marker = "whole" => bundle.of = {bundle.named} /\ bundle.installed = {bundle.named}
    /\ task # NoTask /\ ~task.lax => bundle.marker = "whole" /\ bundle.named = task.m

ActivationInv ==
    /\ bundle \in BundleRecords /\ activator \in [Activators -> ActivatorRecords]
    /\ Grounded /\ (~bundle.crowded => Orderly)

\* An empty directory has no marker.
LEMMA ActivationStarts == ActivationInit => ActivationInv
  <1> SUFFICES ASSUME ActivationInit PROVE ActivationInv
    OBVIOUS
  <1>0. Absent \in BundleRecords /\ Absent.of = {} /\ Absent.marker = "none" /\ Absent.installed = {}
    BY DEF Absent, BundleRecords
  <1>1. bundle \in BundleRecords /\ bundle.of = {} /\ bundle.marker = "none" /\ bundle.installed = {}
    BY <1>0 DEF ActivationInit, BundleRecords
  <1>2. Idle \in ActivatorRecords /\ Idle.at = "idle"
    BY DEF Idle, ActivatorRecords
  <1>3. activator \in [Activators -> ActivatorRecords] /\ \A a \in Activators : activator[a].at = "idle"
    BY <1>2 DEF ActivationInit
  <1>4. \A a \in Activators : Follows(activator[a]) /\ ~Has(a)
    BY <1>3 DEF Follows, Has
  <1>5. task = NoTask /\ (~bundle.there => bundle = Absent)
    <2>1. [Absent EXCEPT !.there = TRUE].there
      BY DEF Absent
    <2> QED
      BY <2>1 DEF ActivationInit
  <1> QED
    BY <1>1, <1>3, <1>4, <1>5 DEF ActivationInv, Orderly, Grounded

\* Activator x goes on to r: what is left to show of the directory.
LEMMA ActivatorGoes ==
    ASSUME ActivationInv, NEW x \in Activators, NEW r \in ActivatorRecords,
           activator' = [activator EXCEPT ![x] = r], task' = task,
           bundle' \in BundleRecords, r.at # "idle" => r.m \in Manifests,
           ~bundle'.there => bundle' = bundle /\ r.at \notin {"fetch", "install", "mark"},
           ~bundle'.crowded => ~bundle.crowded,
           ~bundle'.crowded /\ r.at \in {"fetch", "install", "mark"} => \A o \in Activators \ {x} : ~Has(o),
           ~bundle'.crowded => Follows(r)',
           \/ \A o \in Activators \ {x} : ~Has(o)
           \/ bundle' = bundle
           \/ bundle'.crowded,
           ~bundle'.crowded /\ bundle'.of = {} => bundle'.installed = {},
           ~bundle'.crowded /\ bundle'.marker = "whole" =>
             bundle'.of = {bundle'.named} /\ bundle'.installed = {bundle'.named},
           ~bundle'.crowded /\ task # NoTask /\ ~task.lax => bundle'.marker = "whole" /\ bundle'.named = task.m
    PROVE  ActivationInv'
  <1>0. /\ bundle \in BundleRecords /\ activator \in [Activators -> ActivatorRecords]
        /\ Grounded /\ (~bundle.crowded => Orderly)
    BY DEF ActivationInv
  <1>1. /\ activator' \in [Activators -> ActivatorRecords] /\ activator'[x] = r
        /\ \A o \in Activators \ {x} : activator'[o] = activator[o]
    BY <1>0
  <1>2. /\ Has(x)' <=> r.at \in {"fetch", "install", "mark"}
        /\ \A o \in Activators \ {x} : Has(o)' <=> Has(o)
    BY <1>1 DEF Has
  <1>3. Grounded'
    <2>1. ~bundle'.there => \A a \in Activators : ~Has(a)'
      BY <1>0, <1>2 DEF Grounded
    <2>2. ~bundle'.there => bundle' = Absent /\ task' = NoTask
      BY <1>0 DEF Grounded
    <2>3. \A a \in Activators : activator'[a].at # "idle" => activator'[a].m \in Manifests
      BY <1>0, <1>1 DEF Grounded
    <2> QED
      BY <2>1, <2>2, <2>3 DEF Grounded
  <1>4. ASSUME ~bundle'.crowded PROVE Orderly'
    <2>1. Orderly
      BY <1>0, <1>4
    <2>2. \A a, b \in Activators : Has(a)' /\ Has(b)' => a = b
      BY <1>2, <1>4, <2>1 DEF Orderly
    <2>3. \A a \in Activators : Follows(activator[a])'
      <3>1. Follows(activator[x])'
        BY <1>1, <1>4 DEF Follows
      <3>2. ASSUME NEW a \in Activators \ {x} PROVE Follows(activator[a])'
        <4>1. CASE ~Has(a)
          BY <1>1, <4>1 DEF Follows, Has
        <4>2. CASE bundle' = bundle
          BY <1>1, <2>1, <4>2 DEF Orderly, Follows, Empty
        <4> QED
          BY <1>4, <4>1, <4>2
      <3> QED
        BY <3>1, <3>2
    <2> QED
      BY <1>4, <2>2, <2>3 DEF Orderly
  <1> QED
    BY <1>1, <1>3, <1>4 DEF ActivationInv

\* Each step of an activation leaves the directory as its next step expects it.
LEMMA ActivatorKeeps ==
    ASSUME ActivationInv, NEW x \in Activators,
           \/ \E m \in Manifests : Inspects(x, m)
           \/ CreatesDir(x) \/ Rejects(x) \/ Unpacks(x) \/ InstallEnds(x) \/ Marks(x) \/ PostsLedger(x)
           \/ ActivatorDies(x)
    PROVE  ActivationInv'
  <1>0. /\ bundle \in BundleRecords /\ activator \in [Activators -> ActivatorRecords]
        /\ Grounded /\ (~bundle.crowded => Orderly)
    BY DEF ActivationInv
  <1>I. Idle \in ActivatorRecords /\ Idle.at = "idle"
    BY DEF Idle, ActivatorRecords
  <1>T. task' = task
    BY DEF Inspects, CreatesDir, Rejects, Unpacks, InstallEnds, Marks, PostsLedger, ActivatorDies
  <1>R. PICK p \in ActivatorRecords : p = activator[x]
    BY <1>0
  <1>P. \A at \in {"fetch", "install", "mark", "ledger"} :
          /\ [p EXCEPT !.at = at] \in ActivatorRecords
          /\ [p EXCEPT !.at = at].at = at /\ [p EXCEPT !.at = at].m = p.m
    BY DEF ActivatorRecords
  <1>M. p.at # "idle" => p.m \in Manifests
    BY <1>0, <1>R DEF Grounded
  <1>H. p.at \in {"fetch", "install", "mark"} =>
          bundle.there /\ (~bundle.crowded => \A o \in Activators \ {x} : ~Has(o))
    BY <1>0, <1>R DEF Grounded, Orderly, Has
  <1>O. ~bundle.crowded =>
          /\ Follows(p) /\ (bundle.of = {} => bundle.installed = {})
          /\ bundle.marker = "whole" => bundle.of = {bundle.named} /\ bundle.installed = {bundle.named}
          /\ task # NoTask /\ ~task.lax => bundle.marker = "whole" /\ bundle.named = task.m
    BY <1>0, <1>R DEF Orderly
  <1>1. CASE Leaves(x) /\ UNCHANGED bundle
    <2>1. Follows(Idle)'
      BY <1>I DEF Follows
    <2>2. activator' = [activator EXCEPT ![x] = Idle] /\ bundle' = bundle
      BY <1>1 DEF Leaves
    <2> QED
      BY <1>0, <1>I, <1>O, <1>T, <2>1, <2>2, ActivatorGoes
  <1>2. CASE \E m \in Manifests : Inspects(x, m)
    <2>1. PICK m \in Manifests, at \in {"create", "fetch"} :
            /\ activator' = [activator EXCEPT ![x] = [at |-> at, m |-> m]]
            /\ bundle' = [bundle EXCEPT !.crowded = @ \/ (bundle.there /\ Claimed)]
            /\ (at = "fetch" <=> bundle.there) /\ (bundle.there => Empty)
      BY <1>2 DEF Inspects
    <2>2. PICK r \in ActivatorRecords : r = [at |-> at, m |-> m]
      BY DEF ActivatorRecords
    <2>3. r.at = at /\ r.m = m /\ activator' = [activator EXCEPT ![x] = r]
      BY <2>1, <2>2
    <2>4. PICK c \in BOOLEAN : c = (bundle.crowded \/ (bundle.there /\ Claimed))
      BY <1>0 DEF BundleRecords
    <2>5. bundle' = [bundle EXCEPT !.crowded = c]
      BY <2>1, <2>4
    <2>6. /\ bundle' \in BundleRecords /\ bundle'.there = bundle.there /\ bundle'.of = bundle.of
          /\ bundle'.installed = bundle.installed /\ bundle'.marker = bundle.marker
          /\ bundle'.named = bundle.named /\ bundle'.crowded = c /\ (c = bundle.crowded => bundle' = bundle)
      BY <1>0, <2>5 DEF BundleRecords
    <2>7. ~bundle.there => bundle' = bundle
      <3>1. ~bundle.there => c = bundle.crowded
        <4>1. bundle.crowded \in BOOLEAN
          BY <1>0 DEF BundleRecords
        <4> QED
          BY <2>4, <4>1
      <3> QED
        BY <2>6, <3>1
    <2>8. ~c => ~bundle.crowded /\ bundle' = bundle
      BY <1>0, <2>4, <2>6 DEF BundleRecords
    <2>9. ~c /\ r.at = "fetch" => \A o \in Activators \ {x} : ~Has(o)
      <3>1. SUFFICES ASSUME ~c, r.at = "fetch", NEW o \in Activators \ {x}, Has(o) PROVE FALSE
        OBVIOUS
      <3>2. bundle.there /\ Empty /\ ~Claimed /\ ~bundle.crowded /\ Follows(activator[o])
        BY <1>0, <2>1, <2>3, <2>4, <3>1 DEF Orderly
      <3> QED
        BY <3>1, <3>2 DEF Claimed, Has, Follows, Empty
    <2>10. Follows(r)'
      BY <2>1, <2>3, <2>6 DEF Follows, Empty
    <2>11. c => bundle'.crowded
      BY <2>6
    <2>12. r.at \in {"create", "fetch"} /\ r.m \in Manifests /\ (~bundle'.there => r.at # "fetch")
      BY <2>1, <2>3, <2>6
    <2> QED
      BY <1>O, <1>T, <2>3, <2>6, <2>7, <2>8, <2>9, <2>10, <2>11, <2>12, ActivatorGoes
  <1>3. CASE CreatesDir(x) /\ ~bundle.there
    <2>1. /\ activator' = [activator EXCEPT ![x] = [p EXCEPT !.at = "fetch"]]
          /\ bundle' = [Absent EXCEPT !.there = TRUE] /\ p.at = "create" /\ ~bundle.there
      BY <1>0, <1>3, <1>R DEF CreatesDir, Steps
    <2>2. /\ bundle' \in BundleRecords /\ bundle'.there /\ bundle'.of = {} /\ bundle'.marker = "none"
          /\ bundle'.installed = {}
      BY <2>1 DEF Absent, BundleRecords
    <2>3. PICK r \in ActivatorRecords : r = [p EXCEPT !.at = "fetch"] /\ r.at = "fetch" /\ r.m = p.m
      BY <1>P
    <2>4. task = NoTask /\ ~bundle.crowded /\ \A o \in Activators \ {x} : ~Has(o)
      BY <1>0, <2>1 DEF Grounded, Absent
    <2>5. Follows(r)'
      BY <2>2, <2>3 DEF Follows, Empty
    <2>6. r.m \in Manifests /\ activator' = [activator EXCEPT ![x] = r]
      BY <1>M, <2>1, <2>3
    <2> QED
      BY <1>T, <2>2, <2>3, <2>4, <2>5, <2>6, ActivatorGoes
  <1>4. CASE Unpacks(x)
    <2>1. /\ activator' = [activator EXCEPT ![x] = [p EXCEPT !.at = "install"]]
          /\ bundle' = [bundle EXCEPT !.of = bundle.of \cup {p.m}, !.installed = {}]
          /\ p.at = "fetch" /\ p.m \in Manifests
      BY <1>0, <1>4, <1>M, <1>R DEF Unpacks, Steps
    <2>2. PICK S \in SUBSET Manifests : S = bundle.of \cup {p.m} /\ bundle' = [bundle EXCEPT !.of = S, !.installed = {}]
      BY <1>0, <2>1 DEF BundleRecords
    <2>3. /\ bundle' \in BundleRecords /\ bundle'.there = bundle.there /\ bundle'.of = S
          /\ bundle'.marker = bundle.marker /\ bundle'.crowded = bundle.crowded /\ bundle'.installed = {}
      BY <1>0, <2>2 DEF BundleRecords
    <2>4. ~bundle.crowded => bundle'.of = {p.m} /\ bundle'.marker = "none"
      BY <1>O, <2>1, <2>2, <2>3 DEF Follows, Empty
    <2>5. PICK r \in ActivatorRecords : r = [p EXCEPT !.at = "install"] /\ r.at = "install" /\ r.m = p.m
      BY <1>P
    <2>6. ~bundle'.crowded => Follows(r)'
      BY <2>3, <2>4, <2>5 DEF Follows
    <2>7. activator' = [activator EXCEPT ![x] = r] /\ bundle'.there
      BY <1>H, <2>1, <2>3, <2>5
    <2>8. ~bundle.crowded => /\ \A o \in Activators \ {x} : ~Has(o)
                             /\ ~(task # NoTask /\ ~task.lax)
      BY <1>H, <1>O, <2>1, <2>3, <2>4
    <2>9. \/ \A o \in Activators \ {x} : ~Has(o)
          \/ bundle'.crowded
      BY <2>3, <2>8
    <2> QED
      BY <1>T, <2>1, <2>3, <2>4, <2>5, <2>6, <2>7, <2>8, <2>9, ActivatorGoes, ZenonT(40)
  <1>5. CASE InstallEnds(x) /\ Steps(x, "mark") /\ bundle' = [bundle EXCEPT !.installed = @ \cup {activator[x].m}]
    <2>1. /\ activator' = [activator EXCEPT ![x] = [p EXCEPT !.at = "mark"]]
          /\ bundle' = [bundle EXCEPT !.installed = bundle.installed \cup {p.m}]
          /\ p.at = "install" /\ p.m \in Manifests
      BY <1>0, <1>5, <1>M, <1>R DEF InstallEnds, Steps
    <2>2. PICK S \in SUBSET Manifests : S = bundle.installed \cup {p.m} /\ bundle' = [bundle EXCEPT !.installed = S]
      BY <1>0, <2>1 DEF BundleRecords
    <2>3. /\ bundle' \in BundleRecords /\ bundle'.there = bundle.there /\ bundle'.of = bundle.of
          /\ bundle'.installed = S /\ bundle'.marker = bundle.marker /\ bundle'.crowded = bundle.crowded
      BY <1>0, <2>2 DEF BundleRecords
    <2>4. ~bundle.crowded => bundle.of = {p.m} /\ bundle.marker = "none" /\ bundle.installed = {}
      BY <1>O, <2>1 DEF Follows
    <2>5. PICK r \in ActivatorRecords : r = [p EXCEPT !.at = "mark"] /\ r.at = "mark" /\ r.m = p.m
      BY <1>P
    <2>I. ~bundle.crowded => S = {p.m}
      BY <1>H, <2>1, <2>2, <2>4
    <2>6. ~bundle'.crowded => Follows(r)'
      BY <2>3, <2>4, <2>5, <2>I DEF Follows
    <2>7. activator' = [activator EXCEPT ![x] = r] /\ bundle'.there
      BY <1>H, <2>1, <2>3, <2>5
    <2>8. ~bundle.crowded => /\ \A o \in Activators \ {x} : ~Has(o)
                             /\ ~(task # NoTask /\ ~task.lax)
      BY <1>H, <1>O, <2>1, <2>4
    <2>9. \/ \A o \in Activators \ {x} : ~Has(o)
          \/ bundle'.crowded
      BY <2>3, <2>8
    <2> QED
      BY <1>T, <2>1, <2>3, <2>4, <2>5, <2>6, <2>7, <2>8, <2>9, ActivatorGoes, ZenonT(40)
  <1>6. CASE /\ Marks(x) /\ Steps(x, "ledger")
             /\ bundle' = [bundle EXCEPT !.marker = "whole", !.named = activator[x].m]
    <2>1. /\ activator' = [activator EXCEPT ![x] = [p EXCEPT !.at = "ledger"]]
          /\ bundle' = [bundle EXCEPT !.marker = "whole", !.named = p.m] /\ p.at = "mark" /\ p.m \in Manifests
      BY <1>0, <1>6, <1>M, <1>R DEF Marks, Steps
    <2>2. /\ bundle' \in BundleRecords /\ bundle'.there = bundle.there /\ bundle'.of = bundle.of
          /\ bundle'.named = p.m /\ bundle'.installed = bundle.installed /\ bundle'.crowded = bundle.crowded
      BY <1>0, <2>1 DEF BundleRecords
    <2>3. ~bundle.crowded => bundle.of = {p.m} /\ bundle.marker = "none" /\ bundle.installed = {p.m}
      BY <1>O, <2>1 DEF Follows
    <2>4. PICK r \in ActivatorRecords : r = [p EXCEPT !.at = "ledger"] /\ r.at = "ledger" /\ r.m = p.m
      BY <1>P
    <2>5. Follows(r)'
      BY <2>4 DEF Follows
    <2>6. activator' = [activator EXCEPT ![x] = r] /\ bundle'.there
      BY <1>H, <2>1, <2>2, <2>4
    <2>7. ~bundle.crowded => /\ \A o \in Activators \ {x} : ~Has(o)
                             /\ ~(task # NoTask /\ ~task.lax)
      BY <1>H, <1>O, <2>1, <2>3
    <2>8. \/ \A o \in Activators \ {x} : ~Has(o)
          \/ bundle'.crowded
      BY <2>2, <2>7
    <2>9. ~bundle'.crowded => /\ bundle'.of = {bundle'.named} /\ bundle'.installed = {bundle'.named}
                              /\ bundle'.of # {} /\ ~bundle.crowded
      BY <2>2, <2>3
    <2>10. r.m \in Manifests /\ r.at \notin {"fetch", "install", "mark"}
      BY <2>1, <2>4
    <2>11. bundle' \in BundleRecords /\ bundle'.crowded = bundle.crowded
      BY <2>2
    <2> QED
      BY <1>T, <2>5, <2>6, <2>7, <2>8, <2>9, <2>10, <2>11, ActivatorGoes
  <1>7. CASE /\ Leaves(x) /\ activator[x].at = "mark"
             /\ bundle' = [bundle EXCEPT !.marker = "torn", !.named = NoManifest]
    <2>1. /\ bundle' \in BundleRecords /\ bundle'.there = bundle.there /\ bundle'.marker = "torn"
          /\ bundle'.of = bundle.of /\ bundle'.installed = bundle.installed /\ bundle'.crowded = bundle.crowded
      BY <1>0, <1>7 DEF BundleRecords
    <2>2. ~bundle.crowded => bundle.marker = "none"
      BY <1>7, <1>O, <1>R DEF Follows
    <2>3. Follows(Idle)'
      BY <1>I DEF Follows
    <2>4. activator' = [activator EXCEPT ![x] = Idle] /\ bundle'.there
      BY <1>7, <1>H, <1>R, <2>1 DEF Leaves
    <2>5. ~bundle.crowded => /\ \A o \in Activators \ {x} : ~Has(o)
                             /\ ~(task # NoTask /\ ~task.lax) /\ (bundle.of = {} => bundle.installed = {})
      BY <1>7, <1>H, <1>O, <1>R, <2>2
    <2>6. \/ \A o \in Activators \ {x} : ~Has(o)
          \/ bundle'.crowded
      BY <2>1, <2>5
    <2> QED
      BY <1>I, <1>T, <2>1, <2>3, <2>4, <2>5, <2>6, ActivatorGoes
  <1>D. CASE /\ Leaves(x) /\ activator[x].at = "install"
             /\ bundle' = [bundle EXCEPT !.installed = @ \cup {activator[x].m}]
    <2>1. p.at = "install" /\ p.m \in Manifests /\ bundle' = [bundle EXCEPT !.installed = bundle.installed \cup {p.m}]
      BY <1>D, <1>M, <1>R
    <2>2. PICK S \in SUBSET Manifests : S = bundle.installed \cup {p.m} /\ bundle' = [bundle EXCEPT !.installed = S]
      BY <1>0, <2>1 DEF BundleRecords
    <2>3. /\ bundle' \in BundleRecords /\ bundle'.there = bundle.there /\ bundle'.of = bundle.of
          /\ bundle'.installed = S /\ bundle'.marker = bundle.marker /\ bundle'.crowded = bundle.crowded
      BY <1>0, <2>2 DEF BundleRecords
    <2>4. ~bundle.crowded => bundle.of = {p.m} /\ bundle.marker = "none"
      BY <1>O, <2>1 DEF Follows
    <2>5. Follows(Idle)'
      BY <1>I DEF Follows
    <2>6. activator' = [activator EXCEPT ![x] = Idle] /\ bundle'.there
      BY <1>D, <1>H, <2>1, <2>3 DEF Leaves
    <2>7. ~bundle.crowded => /\ \A o \in Activators \ {x} : ~Has(o)
                             /\ ~(task # NoTask /\ ~task.lax)
      BY <1>H, <1>O, <2>1, <2>4
    <2>8. \/ \A o \in Activators \ {x} : ~Has(o)
          \/ bundle'.crowded
      BY <2>3, <2>7
    <2> QED
      BY <1>I, <1>T, <2>3, <2>4, <2>5, <2>6, <2>7, <2>8, ActivatorGoes
  <1>8. CASE Rejects(x) \/ PostsLedger(x)
    BY <1>1, <1>8 DEF Rejects, PostsLedger
  <1>9. CASE CreatesDir(x)
    BY <1>1, <1>3, <1>9 DEF CreatesDir
  <1>10. CASE InstallEnds(x)
    BY <1>1, <1>5, <1>10 DEF InstallEnds
  <1>11. CASE Marks(x)
    BY <1>1, <1>6, <1>7, <1>11 DEF Marks
  <1>12. CASE ActivatorDies(x)
    BY <1>1, <1>7, <1>D, <1>12 DEF ActivatorDies
  <1> QED
    BY <1>2, <1>4, <1>8, <1>9, <1>10, <1>11, <1>12

\* Every step keeps the invariant of the activation.
LEMMA ActivationKeeps == ActivationInv /\ [ActivationNext]_activationVars => ActivationInv'
  <1> SUFFICES ASSUME ActivationInv, [ActivationNext]_activationVars PROVE ActivationInv'
    OBVIOUS
  <1>0. /\ bundle \in BundleRecords /\ activator \in [Activators -> ActivatorRecords]
        /\ Grounded /\ (~bundle.crowded => Orderly)
    BY DEF ActivationInv
  <1>A. /\ Absent \in BundleRecords /\ Absent.of = {} /\ Absent.marker = "none" /\ Absent.installed = {}
        /\ [Absent EXCEPT !.there = TRUE] \in BundleRecords
        /\ [Absent EXCEPT !.there = TRUE].of = {} /\ [Absent EXCEPT !.there = TRUE].marker = "none"
        /\ [Absent EXCEPT !.there = TRUE].installed = {} /\ [Absent EXCEPT !.there = TRUE].there
        /\ ~Absent.there
    BY DEF Absent, BundleRecords
  <1>1. CASE UNCHANGED <<bundle, activator, task>>
    BY <1>1 DEF ActivationInv, Grounded, Orderly, Follows, Has, Empty
  <1>2. CASE OperatorMakes
    <2>1. /\ bundle' = [Absent EXCEPT !.there = TRUE] /\ UNCHANGED <<activator, task>> /\ ~bundle.there
      BY <1>2 DEF OperatorMakes
    <2>2. task = NoTask /\ \A a \in Activators : ~Has(a)
      BY <1>0, <2>1 DEF Grounded
    <2>3. /\ bundle' \in BundleRecords /\ bundle'.of = {} /\ bundle'.marker = "none" /\ bundle'.there
          /\ bundle'.installed = {}
      BY <1>A, <2>1
    <2>4. \A a \in Activators : ~Has(a)' /\ Follows(activator[a])'
      BY <2>1, <2>2 DEF Follows, Has
    <2>5. Orderly'
      BY <2>1, <2>2, <2>3, <2>4 DEF Orderly
    <2>6. Grounded'
      BY <1>0, <2>1, <2>3 DEF Grounded
    <2> QED
      BY <1>0, <2>1, <2>3, <2>5, <2>6 DEF ActivationInv
  <1>3. CASE OperatorClears
    <2>1. /\ bundle' = Absent /\ UNCHANGED <<activator, task>> /\ task = NoTask
          /\ \A a \in Activators : activator[a].at = "idle"
      BY <1>0, <1>3 DEF OperatorClears, Idle
    <2>2. bundle' \in BundleRecords /\ bundle'.of = {} /\ bundle'.marker = "none" /\ bundle'.installed = {}
      BY <1>A, <2>1
    <2>3. \A a \in Activators : ~Has(a)' /\ Follows(activator[a])'
      BY <2>1 DEF Follows, Has
    <2>4. Orderly' /\ Grounded'
      BY <2>1, <2>2, <2>3 DEF Orderly, Grounded
    <2> QED
      BY <1>0, <2>1, <2>2, <2>4 DEF ActivationInv
  <1>4. CASE \E m \in Manifests, lax \in BOOLEAN : TaskRuns(m, lax)
    <2>1. PICK m \in Manifests, lax \in BOOLEAN : TaskRuns(m, lax)
      BY <1>4
    <2>2. PICK b \in BOOLEAN : b = (lax /\ bundle.marker = "none")
      OBVIOUS
    <2>3. /\ task' = [at |-> "runs", m |-> m, lax |-> b] /\ UNCHANGED <<bundle, activator>> /\ Accepts(m, lax)
          /\ bundle.of # {}
      BY <2>1, <2>2 DEF TaskRuns
    <2>4. task'.m = m /\ (task'.lax <=> b)
      BY <2>3
    <2>5. task'.lax \/ (bundle.marker = "whole" /\ bundle.named = m)
      BY <2>2, <2>3, <2>4 DEF Accepts
    <2>6. bundle.there
      BY <1>0, <1>A, <2>3 DEF Grounded
    <2>7. Grounded'
      BY <1>0, <2>3, <2>6 DEF Grounded
    <2>8. ~bundle.crowded => Orderly'
      BY <1>0, <2>3, <2>4, <2>5 DEF Orderly, Follows, Has, Empty
    <2> QED
      BY <1>0, <2>3, <2>7, <2>8 DEF ActivationInv
  <1>5. CASE TaskEnds
    BY <1>0, <1>5 DEF TaskEnds, ActivationInv, Grounded, Orderly, Follows, Has, Empty
  <1>6. CASE \E m \in Manifests : Creates(m) \/ Signs(m) \/ PublishesManifest(m) \/ ManifestExpires(m)
    BY <1>1, <1>6 DEF Creates, Signs, PublishesManifest, ManifestExpires
  <1>7. ASSUME NEW a \in Activators,
               \/ \E m \in Manifests : Inspects(a, m)
               \/ CreatesDir(a) \/ Rejects(a) \/ Unpacks(a) \/ InstallEnds(a) \/ Marks(a) \/ PostsLedger(a)
               \/ ActivatorDies(a)
        PROVE  ActivationInv'
    BY <1>7, ActivatorKeeps
  <1> QED
    BY <1>1, <1>2, <1>3, <1>4, <1>5, <1>6, <1>7 DEF ActivationNext, activationVars

\* For any number of activators, manifests and activations: a task that was not let in on the
\* operator's own word has the whole bundle of its own manifest and nothing else, whatever activation
\* was cut short or raced for the directory before it, unless one looked at it between another's
\* look and its first file (run_activate, check_activation_marker, run_harness_blocking).
THEOREM TaskAlwaysOnItsOwn == ActivationSpec => []TaskOnItsOwnBundle
  <1>1. ActivationInv => TaskOnItsOwnBundle
    BY DEF ActivationInv, Orderly, TaskOnItsOwnBundle
  <1> QED
    BY <1>1, ActivationStarts, ActivationKeeps, PTL DEF ActivationSpec

-----------------------------------------------------------------------------
(* Certificates (CertOrder).  A renewal is under way only while the certificate on disk is due,    *)
(* and a power loss brings back only directories of which that is true as well.                    *)

Staging == {"stageCert", "renameKey", "renameCert", "syncDir"}
Ordering == {"account", "authz", "lookup", "probe", "resolvers", "respond", "poll", "finalize", "download", "stageKey"}
IssueRecords == [at : {"sleep"} \cup Ordering \cup Staging, order : Nat, attempt : Nat]
StoreRecords == [key : Nat, crt : Nat, keyNew : Nat, crtNew : Nat, skewed : BOOLEAN]

\* A directory that the next tick puts right, of orders placed so far, or one in which a power loss
\* kept the later rename only.
Mendable(s, last, old) ==
    /\ s \in StoreRecords /\ s.crt <= last
    /\ s.crt # s.key => s.crt = 0 \/ s.crt \in old \/ s.skewed

Renewing ==
    /\ issue \in IssueRecords /\ Mendable(store, issue.order, stale)
    /\ \A s \in earlier : Mendable(s, issue.order, stale)
    /\ issue.at \notin {"sleep", "syncDir"} => Due
    /\ issue.at \in {"stageCert", "renameKey"} => store.keyNew = issue.order
    /\ issue.at \in {"renameKey", "renameCert"} => store.crtNew = issue.order
    /\ issue.at = "renameCert" => store.key = issue.order

\* A step that leaves the files alone: what it may do to the loop.
Quiet ==
    /\ UNCHANGED <<store, earlier, stale>>
    /\ \/ issue' = issue
       \/ /\ issue' \in IssueRecords /\ issue'.at = "sleep" /\ issue'.order = issue.order
       \/ /\ issue' \in IssueRecords /\ issue'.at \in Ordering
          /\ issue'.order \in {issue.order, issue.order + 1} /\ (issue.at \in Ordering \/ Due)

\* Steps that leave the files alone keep the invariant.
LEMMA QuietKeeps == ASSUME Renewing, Quiet PROVE Renewing'
  <1>1. issue.order \in Nat /\ issue \in IssueRecords
    BY DEF Renewing, IssueRecords
  <1>2. CASE issue' = issue
    BY <1>2 DEF Renewing, Quiet, Due
  <1>3. CASE issue' # issue
    <2>1. /\ issue' \in IssueRecords /\ issue'.at \in {"sleep"} \cup Ordering
          /\ issue'.order \in {issue.order, issue.order + 1} /\ (issue'.at # "sleep" => Due')
      BY <1>3 DEF Quiet, Renewing, Due, Ordering
    <2>2. issue'.order \in Nat /\ issue'.order >= issue.order
      BY <1>1, <2>1
    <2>3. \A s : Mendable(s, issue.order, stale) => Mendable(s, issue'.order, stale)
      BY <1>1, <2>2 DEF Mendable, StoreRecords
    <2>4. Mendable(store', issue'.order, stale') /\ \A s \in earlier' : Mendable(s, issue'.order, stale')
      BY <2>3 DEF Quiet, Renewing
    <2> QED
      BY <2>1, <2>4 DEF Renewing, Ordering
  <1> QED
    BY <1>2, <1>3

\* A step of the loop to another place, within the same order or to the next.
LEMMA IssueGoes ==
    ASSUME issue \in IssueRecords, NEW at \in {"sleep"} \cup Ordering \cup Staging, NEW n \in Nat, NEW k \in Nat
    PROVE  /\ issue' = [issue EXCEPT !.at = at] =>
                issue' \in IssueRecords /\ issue'.at = at /\ issue'.order = issue.order
           /\ issue' = [issue EXCEPT !.at = at, !.attempt = n] =>
                issue' \in IssueRecords /\ issue'.at = at /\ issue'.order = issue.order
           /\ issue' = [issue EXCEPT !.at = at, !.order = k] =>
                issue' \in IssueRecords /\ issue'.at = at /\ issue'.order = k
  BY DEF IssueRecords

\* A failed order is tried again or left until the next check.
LEMMA FailsGoes ==
    ASSUME issue \in IssueRecords, NEW dns, Fails(dns)
    PROVE  /\ issue' \in IssueRecords /\ issue'.order = issue.order
           /\ issue'.at \in {"sleep", "account"}
  <1>1. PICK n \in Nat, k \in Nat : n = issue.attempt + 1 /\ k = 0
    BY DEF IssueRecords
  <1>2. \/ issue' = [issue EXCEPT !.at = "account", !.attempt = n]
        \/ issue' = [issue EXCEPT !.at = "sleep", !.attempt = k]
    BY <1>1 DEF Fails
  <1> QED
    BY <1>2, IssueGoes DEF Ordering

\* Everything up to the download of the certificate leaves the files alone.
LEMMA RenewalQuiet ==
    ASSUME Renewing,
           \/ Checks \/ Unanswered \/ PlacesOrder \/ Publishes \/ PublishFails
           \/ \E a \in Addresses : Replicates(a) \/ Probes(a)
           \/ FindsServers \/ JudgesRound \/ NoServers \/ AsksResolvers \/ ResolversAgree \/ ResolversDisagree
           \/ Validates \/ OrderReady \/ Finalizes \/ Downloads
    PROVE  Quiet
  <1>0. issue \in IssueRecords /\ issue.order \in Nat
    BY DEF Renewing, IssueRecords
  <1>1. CASE Checks
    <2>1. PICK n \in Nat : n = 1
      OBVIOUS
    <2>2. issue' = issue \/ (Due /\ issue' = [issue EXCEPT !.at = "account", !.attempt = n])
      BY <1>1, <2>1 DEF Checks
    <2> QED
      BY <1>0, <1>1, <2>2, IssueGoes DEF Checks, Quiet, Ordering
  <1>2. CASE \E dns : Fails(dns) /\ issue.at \in Ordering /\ UNCHANGED <<store, earlier, stale>>
    BY <1>0, <1>2, FailsGoes DEF Quiet, Ordering
  <1>3. CASE PlacesOrder
    <2>1. PICK k \in Nat : k = issue.order + 1
      BY <1>0
    <2>2. issue' = [issue EXCEPT !.at = "authz", !.order = k] /\ issue.at = "account"
      BY <1>3, <2>1 DEF PlacesOrder, Doing
    <2> QED
      BY <1>0, <1>3, <2>1, <2>2, IssueGoes DEF PlacesOrder, Quiet, Ordering
  <1>4. CASE issue' = issue /\ UNCHANGED <<store, earlier, stale>>
    BY <1>4 DEF Quiet
  <1>5. CASE \E at \in Ordering : Reaches(at) /\ issue.at \in Ordering /\ UNCHANGED <<store, earlier, stale>>
    BY <1>0, <1>5, IssueGoes DEF Quiet, Reaches
  <1>6. CASE Unanswered
    BY <1>2, <1>6 DEF Unanswered, Ordering
  <1>7. CASE PublishFails \/ NoServers \/ ResolversDisagree
    BY <1>2, <1>7 DEF PublishFails, NoServers, ResolversDisagree, Doing, Ordering
  <1>8. CASE Publishes \/ AsksResolvers \/ ResolversAgree \/ FindsServers
    BY <1>5, <1>8 DEF Publishes, AsksResolvers, ResolversAgree, FindsServers, Doing, Reaches, Ordering
  <1>9. CASE OrderReady \/ Finalizes \/ Downloads
    BY <1>5, <1>9 DEF OrderReady, Finalizes, Downloads, Doing, Reaches, Ordering
  <1>10. CASE \E a \in Addresses : Replicates(a) \/ Probes(a)
    BY <1>4, <1>10 DEF Replicates, Probes
  <1>11. CASE JudgesRound
    <2>1. issue.at \in Ordering /\ UNCHANGED <<store, earlier, stale>>
      BY <1>11 DEF JudgesRound, Doing, Ordering
    <2>2. Reaches("resolvers") \/ Reaches("respond") \/ issue' = issue \/ Fails(TRUE)
      BY <1>11 DEF JudgesRound
    <2>3. "resolvers" \in Ordering /\ "respond" \in Ordering
      BY DEF Ordering
    <2> QED
      BY <1>2, <1>4, <1>5, <2>1, <2>2, <2>3
  <1>12. CASE Validates
    <2>1. issue.at \in Ordering /\ "poll" \in Ordering /\ UNCHANGED <<store, earlier, stale>>
      BY <1>12 DEF Validates, Doing, Ordering
    <2>2. Reaches("poll") \/ Fails(TRUE) \/ Fails(FALSE)
      BY <1>12 DEF Validates
    <2> QED
      BY <1>2, <1>5, <2>1, <2>2
  <1> QED
    BY <1>1, <1>3, <1>6, <1>7, <1>8, <1>9, <1>10, <1>11, <1>12

\* Staging puts the new pair beside the one in use.
LEMMA StagesKeepRenewing == ASSUME Renewing, StagesKey \/ StagesCert \/ WriteFailed PROVE Renewing'
  <1>0. /\ issue \in IssueRecords /\ store \in StoreRecords /\ stale' = stale
        /\ Mendable(store, issue.order, stale) /\ \A s \in earlier : Mendable(s, issue.order, stale)
        /\ 0 \in Nat /\ issue.order \in Nat
    BY DEF Renewing, IssueRecords, Mendable, StagesKey, StagesCert, WriteFailed
  <1>1. \A n \in Nat : store' = [store EXCEPT !.keyNew = n] =>
          /\ store' \in StoreRecords /\ store'.key = store.key /\ store'.crt = store.crt
          /\ store'.keyNew = n /\ store'.crtNew = store.crtNew /\ store'.skewed = store.skewed
    BY <1>0 DEF StoreRecords
  <1>2. \A n \in Nat : store' = [store EXCEPT !.crtNew = n] =>
          /\ store' \in StoreRecords /\ store'.key = store.key /\ store'.crt = store.crt
          /\ store'.keyNew = store.keyNew /\ store'.crtNew = n /\ store'.skewed = store.skewed
    BY <1>0 DEF StoreRecords
  <1>3. CASE StagesKey
    <2>1. issue' = [issue EXCEPT !.at = "stageCert"] /\ earlier' = {} /\ issue.at = "stageKey"
      BY <1>3 DEF StagesKey, Reaches, Doing
    <2>2. issue' \in IssueRecords /\ issue'.at = "stageCert" /\ issue'.order = issue.order
      BY <1>0, <2>1, IssueGoes DEF Staging
    <2>3. /\ store' \in StoreRecords /\ store'.key = store.key /\ store'.crt = store.crt
          /\ store'.keyNew = issue.order /\ store'.skewed = store.skewed
      BY <1>0, <1>1, <1>3 DEF StagesKey, LastOrder
    <2> QED
      BY <1>0, <2>1, <2>2, <2>3 DEF Renewing, Mendable, Due
  <1>4. CASE StagesCert
    <2>1. issue' = [issue EXCEPT !.at = "renameKey"] /\ earlier' = {} /\ issue.at = "stageCert"
      BY <1>4 DEF StagesCert, Reaches, Doing
    <2>2. issue' \in IssueRecords /\ issue'.at = "renameKey" /\ issue'.order = issue.order
      BY <1>0, <2>1, IssueGoes DEF Staging
    <2>3. /\ store' \in StoreRecords /\ store'.key = store.key /\ store'.crt = store.crt
          /\ store'.keyNew = store.keyNew /\ store'.crtNew = issue.order /\ store'.skewed = store.skewed
      BY <1>0, <1>2, <1>4 DEF StagesCert, LastOrder
    <2> QED
      BY <1>0, <2>1, <2>2, <2>3 DEF Renewing, Mendable, Due
  <1>5. CASE WriteFailed
    <2>1. issue' = [issue EXCEPT !.at = "sleep", !.attempt = 0] /\ earlier' = earlier
      BY <1>5 DEF WriteFailed
    <2>2. issue' \in IssueRecords /\ issue'.at = "sleep" /\ issue'.order = issue.order
      BY <1>0, <2>1, IssueGoes
    <2>3. /\ store' \in StoreRecords /\ store'.key = store.key /\ store'.crt = store.crt
          /\ store'.skewed = store.skewed
      BY <1>0, <1>1, <1>5 DEF WriteFailed
    <2> QED
      BY <1>0, <2>1, <2>2, <2>3 DEF Renewing, Mendable
  <1> QED
    BY <1>3, <1>4, <1>5

\* The renames: the certificate that is replaced is due, and the one that replaces it has its key.
LEMMA RenamesDo ==
    ASSUME Renewing, Renames
    PROVE  /\ issue' \in IssueRecords /\ issue'.order = issue.order /\ store' \in StoreRecords
           /\ stale' = stale
           /\ \/ /\ issue.at = "renameKey" /\ issue'.at = "renameCert" /\ store'.key = issue.order
                 /\ store'.crt = store.crt /\ store'.crtNew = store.crtNew
              \/ /\ issue.at = "renameCert" /\ issue'.at = "syncDir" /\ store'.crt = issue.order
                 /\ store'.key = store.key
  <1>0. issue \in IssueRecords /\ store \in StoreRecords /\ issue.order \in Nat /\ 0 \in Nat
    BY DEF Renewing, IssueRecords, Mendable
  <1>1. CASE Doing("renameKey") /\ Promotes("key", "keyNew", "renameCert")
    <2>1. issue' = [issue EXCEPT !.at = "renameCert"] /\ issue.at = "renameKey" /\ store.keyNew = issue.order
      BY <1>1 DEF Promotes, Reaches, Doing, Renewing
    <2>2. PICK n \in Nat : n = issue.order /\ store' = [store EXCEPT !.key = n, !.keyNew = 0, !.skewed = FALSE]
      BY <1>0, <1>1, <2>1 DEF Promotes
    <2>3. /\ store' \in StoreRecords /\ store'.key = n /\ store'.crt = store.crt
          /\ store'.crtNew = store.crtNew
      BY <1>0, <2>2 DEF StoreRecords
    <2>4. issue' \in IssueRecords /\ issue'.at = "renameCert" /\ issue'.order = issue.order
      BY <1>0, <2>1, IssueGoes DEF Staging
    <2> QED
      BY <1>1, <2>1, <2>2, <2>3, <2>4 DEF Promotes
  <1>2. CASE Doing("renameCert") /\ Promotes("crt", "crtNew", "syncDir")
    <2>1. issue' = [issue EXCEPT !.at = "syncDir"] /\ issue.at = "renameCert" /\ store.crtNew = issue.order
      BY <1>2 DEF Promotes, Reaches, Doing, Renewing
    <2>2. PICK n \in Nat : n = issue.order /\ store' = [store EXCEPT !.crt = n, !.crtNew = 0, !.skewed = FALSE]
      BY <1>0, <1>2, <2>1 DEF Promotes
    <2>3. store' \in StoreRecords /\ store'.crt = n /\ store'.key = store.key
      BY <1>0, <2>2 DEF StoreRecords
    <2>4. issue' \in IssueRecords /\ issue'.at = "syncDir" /\ issue'.order = issue.order
      BY <1>0, <2>1, IssueGoes DEF Staging
    <2> QED
      BY <1>2, <2>1, <2>2, <2>3, <2>4 DEF Promotes
  <1> QED
    BY <1>1, <1>2 DEF Renames

\* What a power loss may bring back after a rename: what it could before, the directory the rename
\* found, or one that has this rename and lacks an earlier one.
LEMMA RenamesMayBeLost ==
    ASSUME Renewing, Renames, NEW t \in earlier'
    PROVE  Mendable(t, issue.order, stale)
  <1>0. /\ store \in StoreRecords /\ issue.order \in Nat /\ Mendable(store, issue.order, stale)
        /\ \A s \in earlier : Mendable(s, issue.order, stale)
    BY DEF Renewing, IssueRecords, Mendable
  <1>1. PICK n \in Nat : n = issue.order
    BY <1>0
  <1>2. CASE t \in earlier \cup {store}
    BY <1>0, <1>2
  <1>3. CASE \E s \in earlier : t = [s EXCEPT !.key = n, !.keyNew = 0, !.skewed = TRUE]
    <2>1. PICK s \in earlier : t = [s EXCEPT !.key = n, !.keyNew = 0, !.skewed = TRUE]
      BY <1>3
    <2>2. s \in StoreRecords /\ s.crt <= issue.order
      BY <1>0 DEF Mendable
    <2>3. t \in StoreRecords /\ t.crt = s.crt /\ t.skewed
      BY <1>1, <2>1, <2>2 DEF StoreRecords
    <2> QED
      BY <2>2, <2>3 DEF Mendable
  <1>4. CASE \E s \in earlier : t = [s EXCEPT !.crt = n, !.crtNew = 0, !.skewed = TRUE]
    <2>1. PICK s \in earlier : t = [s EXCEPT !.crt = n, !.crtNew = 0, !.skewed = TRUE]
      BY <1>4
    <2>2. s \in StoreRecords
      BY <1>0 DEF Mendable
    <2>3. t \in StoreRecords /\ t.crt = n /\ t.skewed
      BY <1>1, <2>1, <2>2 DEF StoreRecords
    <2> QED
      BY <1>0, <1>1, <2>3 DEF Mendable
  <1>5. CASE Doing("renameKey") /\ Promotes("key", "keyNew", "renameCert")
    <2>1. store.keyNew = n
      BY <1>1, <1>5 DEF Doing, Renewing
    <2> QED
      BY <1>2, <1>3, <1>5, <2>1 DEF Promotes
  <1>6. CASE Doing("renameCert") /\ Promotes("crt", "crtNew", "syncDir")
    <2>1. store.crtNew = n
      BY <1>1, <1>6 DEF Doing, Renewing
    <2> QED
      BY <1>2, <1>4, <1>6, <2>1 DEF Promotes
  <1> QED
    BY <1>5, <1>6 DEF Renames

\* Between the renames the key is newer than its certificate, which is due.
LEMMA RenamesKeepRenewing == ASSUME Renewing, Renames PROVE Renewing'
  <1>0. issue.order \in Nat /\ Mendable(store, issue.order, stale)
    BY DEF Renewing, IssueRecords
  <1>1. /\ issue' \in IssueRecords /\ issue'.order = issue.order /\ store' \in StoreRecords
        /\ stale' = stale
    BY RenamesDo
  <1>2. \A s \in earlier' : Mendable(s, issue'.order, stale')
    BY <1>1, RenamesMayBeLost
  <1>3. CASE issue.at = "renameKey"
    <2>1. /\ issue'.at = "renameCert" /\ store'.key = issue.order
          /\ store'.crt = store.crt /\ store'.crtNew = store.crtNew
      BY <1>3, RenamesDo
    <2>2. Due /\ store.crtNew = issue.order
      BY <1>3 DEF Renewing
    <2> QED
      BY <1>0, <1>1, <1>2, <2>1, <2>2 DEF Renewing, Mendable, Due
  <1>4. CASE issue.at = "renameCert"
    <2>1. issue'.at = "syncDir" /\ store'.crt = issue.order /\ store'.key = store.key
      BY <1>4, RenamesDo
    <2>2. store.key = issue.order
      BY <1>4 DEF Renewing
    <2> QED
      BY <1>0, <1>1, <1>2, <2>1, <2>2 DEF Renewing, Mendable
  <1> QED
    BY <1>3, <1>4, RenamesDo

\* A restart finds a directory that is put right; certificates only become due.
LEMMA RestKeepRenewing == ASSUME Renewing, SyncsAndNotifies \/ Restarts \/ Ages PROVE Renewing'
  <1>0. /\ issue \in IssueRecords /\ issue.order \in Nat /\ Mendable(store, issue.order, stale)
        /\ \A s \in earlier : Mendable(s, issue.order, stale) /\ 0 \in Nat
    BY DEF Renewing, IssueRecords
  <1>1. CASE SyncsAndNotifies \/ Restarts
    <2>1. issue' = [issue EXCEPT !.at = "sleep", !.attempt = 0] /\ stale' = stale
      BY <1>1 DEF SyncsAndNotifies, Restarts
    <2>2. issue' \in IssueRecords /\ issue'.at = "sleep" /\ issue'.order = issue.order
      BY <1>0, <2>1, IssueGoes
    <2>3. store' \in {store} \cup earlier /\ earlier' \subseteq earlier
      BY <1>1 DEF SyncsAndNotifies, Restarts
    <2> QED
      BY <1>0, <2>1, <2>2, <2>3 DEF Renewing
  <1>2. CASE Ages
    <2>1. UNCHANGED <<issue, store, earlier>> /\ stale \subseteq stale'
      BY <1>2 DEF Ages
    <2>2. \A s : Mendable(s, issue.order, stale) => Mendable(s, issue.order, stale')
      BY <2>1 DEF Mendable
    <2> QED
      BY <1>0, <2>1, <2>2 DEF Renewing, Due
  <1> QED
    BY <1>1, <1>2

\* The agent starts without a pair.
LEMMA RenewingStarts == CertInit => Renewing
  <1> SUFFICES ASSUME CertInit PROVE Renewing
    OBVIOUS
  <1>1. issue \in IssueRecords /\ issue.at = "sleep" /\ issue.order = 0
    BY DEF CertInit, Sleeping, IssueRecords
  <1>2. store \in StoreRecords /\ store.crt = 0
    BY DEF CertInit, StoreRecords
  <1>3. earlier = {}
    BY DEF CertInit
  <1> QED
    BY <1>1, <1>2, <1>3 DEF Renewing, Mendable

\* Every step of the renewal keeps its invariant.
LEMMA RenewingKeeps == Renewing /\ [CertNext]_certVars => Renewing'
  <1> SUFFICES ASSUME Renewing, [CertNext]_certVars PROVE Renewing'
    OBVIOUS
  <1>1. CASE UNCHANGED certVars
    BY <1>1 DEF certVars, Renewing, Due
  <1>2. CASE StagesKey \/ StagesCert \/ WriteFailed \/ Renames \/ SyncsAndNotifies \/ Restarts \/ Ages
    BY <1>2, StagesKeepRenewing, RenamesKeepRenewing, RestKeepRenewing
  <1> QED
    BY <1>1, <1>2, RenewalQuiet, QuietKeeps DEF CertNext

-----------------------------------------------------------------------------
(* The TLS terminator beside the renewal (OriginTls).  The times it records were read before the   *)
(* pair, and orders only grow: a certificate whose time was seen is not newer than the one served. *)

\* A rename puts a certificate of the latest order in place; only a power loss brings back another.
LEMMA CertsGrow ==
    ASSUME Renewing, [CertNext]_certVars
    PROVE  \/ store' # store /\ store' \in earlier
           \/ store.crt <= store'.crt /\ store'.crt \in Nat
  <1>0. /\ issue.order \in Nat /\ store \in StoreRecords /\ store.crt \in Nat /\ store.crt <= issue.order
        /\ 0 \in Nat
    BY DEF Renewing, IssueRecords, Mendable, StoreRecords
  <1>1. CASE StagesKey \/ StagesCert \/ WriteFailed
    <2>1. \/ \E n : store' = [store EXCEPT !.keyNew = n] \/ store' = [store EXCEPT !.crtNew = n]
          \/ store' = store
      <3>1. CASE StagesKey
        BY <3>1 DEF StagesKey
      <3>2. CASE StagesCert
        BY <3>2 DEF StagesCert
      <3>3. CASE WriteFailed
        BY <3>3 DEF WriteFailed
      <3> QED
        BY <1>1, <3>1, <3>2, <3>3
    <2>2. store'.crt = store.crt
      <3>1. CASE \E n : store' = [store EXCEPT !.keyNew = n]
        BY <1>0, <3>1 DEF StoreRecords
      <3>2. CASE \E n : store' = [store EXCEPT !.crtNew = n]
        BY <1>0, <3>2 DEF StoreRecords
      <3> QED
        BY <2>1, <3>1, <3>2
    <2> QED
      BY <1>0, <2>2
  <1>2. CASE Renames
    BY <1>0, <1>2, RenamesDo
  <1>3. CASE SyncsAndNotifies \/ Restarts \/ Ages \/ UNCHANGED certVars
    BY <1>0, <1>3 DEF SyncsAndNotifies, Restarts, Ages, certVars
  <1>4. CASE Quiet
    BY <1>0, <1>4 DEF Quiet
  <1> QED
    BY <1>1, <1>2, <1>3, <1>4, RenewalQuiet DEF CertNext

TermStages == {"down", "loadKey", "loadTimes", "serving", "cert", "key"}
TermRecords == [at : TermStages, pair : Nat, seenKey : Nat, seenCrt : Nat, key : Nat, crt : Nat, got : Nat,
                reloaded : BOOLEAN]

\* What was read first is not newer than what was read next, nor than what is there.
Read(t, crt) ==
    /\ t \in TermRecords
    /\ t.at \in {"down", "loadKey", "loadTimes"} => ~t.reloaded
    /\ t.at = "cert" => t.crt <= crt
    /\ t.at = "key" => t.crt <= t.got /\ t.got <= crt
    /\ t.reloaded => t.seenCrt <= t.pair /\ t.pair <= crt

OriginInv == Renewing /\ Read(term, store.crt)

\* A terminator that is down has read nothing.
LEMMA DownRead == \A n : Read(Down, n)
  <1>1. Down \in TermRecords /\ Down.at = "down" /\ ~Down.reloaded
    BY DEF Down, TermRecords, TermStages
  <1> QED
    BY <1>1 DEF Read

\* What the terminator reads next is not older than what it read before.
LEMMA TermKeeps ==
    ASSUME OriginInv,
           LoadsCert \/ LoadsKey \/ LoadsTimes \/ ReadsTimes \/ ReadsCert \/ ReadsKey
    PROVE  Read(term', store.crt)
  <1>0. /\ term \in TermRecords /\ store.key \in Nat /\ store.crt \in Nat /\ Read(term, store.crt)
        /\ term.pair \in Nat /\ term.got \in Nat /\ term.key \in Nat /\ term.crt \in Nat /\ term.seenCrt \in Nat
    BY DEF OriginInv, Read, Renewing, Mendable, StoreRecords, TermRecords
  <1>1. CASE LoadsCert
    <2>1. PICK n \in Nat : n = store.crt
      BY <1>0
    <2>2. term' = [term EXCEPT !.at = "loadKey", !.got = n] /\ term.at = "down"
      BY <1>1, <2>1 DEF LoadsCert
    <2>3. term' \in TermRecords /\ term'.at = "loadKey" /\ (term'.reloaded <=> term.reloaded)
      BY <1>0, <2>2 DEF TermRecords, TermStages
    <2> QED
      BY <1>0, <2>2, <2>3 DEF Read
  <1>2. CASE LoadsKey
    <2>1. CASE term' = Down
      BY <2>1, DownRead
    <2>2. CASE term' # Down
      <3>1. PICK n \in Nat : n = term.got
        BY <1>0
      <3>2. term' = [term EXCEPT !.at = "loadTimes", !.pair = n] /\ term.at = "loadKey"
        BY <1>2, <2>2, <3>1 DEF LoadsKey
      <3>3. term' \in TermRecords /\ term'.at = "loadTimes" /\ (term'.reloaded <=> term.reloaded)
        BY <1>0, <3>2 DEF TermRecords, TermStages
      <3> QED
        BY <1>0, <3>2, <3>3 DEF Read
    <2> QED
      BY <2>1, <2>2
  <1>3. CASE LoadsTimes
    <2>1. PICK n \in Nat : n = store.crt
      BY <1>0
    <2>2. PICK k \in Nat : k = store.key
      BY <1>0
    <2>3. /\ term' = [term EXCEPT !.at = "serving", !.seenKey = k, !.seenCrt = n, !.got = 0]
          /\ term.at = "loadTimes"
      BY <1>3, <2>1, <2>2 DEF LoadsTimes
    <2>4. term' \in TermRecords /\ term'.at = "serving" /\ (term'.reloaded <=> term.reloaded)
      BY <1>0, <2>3 DEF TermRecords, TermStages
    <2> QED
      BY <1>0, <2>3, <2>4 DEF Read
  <1>4. CASE ReadsTimes
    <2>1. PICK n \in Nat : n = store.crt
      BY <1>0
    <2>2. PICK k \in Nat : k = store.key
      BY <1>0
    <2>3. term' = [term EXCEPT !.at = "cert", !.key = k, !.crt = n] /\ term.at = "serving"
      BY <1>4, <2>1, <2>2 DEF ReadsTimes
    <2>4. /\ term' \in TermRecords /\ term'.at = "cert" /\ (term'.reloaded <=> term.reloaded)
          /\ term'.crt = n /\ term'.pair = term.pair /\ term'.seenCrt = term.seenCrt
      BY <1>0, <2>3 DEF TermRecords, TermStages
    <2> QED
      BY <1>0, <2>1, <2>3, <2>4 DEF Read
  <1>5. CASE ReadsCert
    <2>1. PICK n \in Nat : n = store.crt
      BY <1>0
    <2>2. term' = [term EXCEPT !.at = "key", !.got = n] /\ term.at = "cert"
      BY <1>5, <2>1 DEF ReadsCert
    <2>3. /\ term' \in TermRecords /\ term'.at = "key" /\ (term'.reloaded <=> term.reloaded)
          /\ term'.got = n /\ term'.pair = term.pair /\ term'.seenCrt = term.seenCrt /\ term'.crt = term.crt
      BY <1>0, <2>2 DEF TermRecords, TermStages
    <2> QED
      BY <1>0, <2>1, <2>2, <2>3 DEF Read
  <1>6. CASE ReadsKey
    <2>0. term.at = "key" /\ term.crt <= term.got /\ term.got <= store.crt
      BY <1>0, <1>6 DEF ReadsKey, Read
    <2>1. CASE store.key = term.got
      <3>1. PICK p \in Nat : p = term.got
        BY <1>0
      <3>2. PICK c \in Nat : c = term.crt
        BY <1>0
      <3>3. PICK k \in Nat : k = term.key
        BY <1>0
      <3>4. PICK t : t = [term EXCEPT !.pair = p, !.seenKey = k, !.seenCrt = c, !.reloaded = TRUE]
        OBVIOUS
      <3>5. t \in TermRecords /\ t.pair = p /\ t.seenCrt = c /\ t.reloaded
        BY <1>0, <3>4 DEF TermRecords
      <3>6. term' = [t EXCEPT !.at = "serving", !.key = 0, !.crt = 0, !.got = 0]
        BY <1>6, <2>1, <3>1, <3>2, <3>3, <3>4 DEF ReadsKey, Settled
      <3>7. term' \in TermRecords /\ term'.at = "serving" /\ term'.pair = p /\ term'.seenCrt = c
        BY <3>5, <3>6 DEF TermRecords, TermStages
      <3> QED
        BY <2>0, <3>1, <3>2, <3>7 DEF Read
    <2>2. CASE store.key # term.got
      <3>1. term' = [term EXCEPT !.at = "serving", !.key = 0, !.crt = 0, !.got = 0]
        BY <1>6, <2>2 DEF ReadsKey, Settled
      <3>2. /\ term' \in TermRecords /\ term'.at = "serving" /\ term'.pair = term.pair
            /\ term'.seenCrt = term.seenCrt /\ (term'.reloaded <=> term.reloaded)
        BY <1>0, <3>1 DEF TermRecords, TermStages
      <3> QED
        BY <1>0, <3>2 DEF Read
    <2> QED
      BY <2>1, <2>2
  <1> QED
    BY <1>1, <1>2, <1>3, <1>4, <1>5, <1>6

\* Every step of renewal and terminator keeps the invariant.
LEMMA OriginKeeps == OriginInv /\ [OriginNext]_originVars => OriginInv'
  <1> SUFFICES ASSUME OriginInv, [OriginNext]_originVars PROVE OriginInv'
    OBVIOUS
  <1>1. CASE LoadsCert \/ LoadsKey \/ LoadsTimes \/ ReadsTimes \/ ReadsCert \/ ReadsKey
    <2>1. UNCHANGED certVars
      BY <1>1 DEF LoadsCert, LoadsKey, LoadsTimes, ReadsTimes, ReadsCert, ReadsKey, TermStep, Returns
    <2>2. Renewing' /\ store' = store
      BY <2>1, RenewingKeeps DEF OriginInv, certVars
    <2> QED
      BY <1>1, <2>2, TermKeeps DEF OriginInv
  <1>2. CASE TermStops
    <2>1. UNCHANGED certVars /\ term' = Down
      BY <1>2 DEF TermStops
    <2> QED
      BY <2>1, RenewingKeeps, DownRead DEF OriginInv, certVars
  <1>3. CASE ConnStarts \/ TakesConfig \/ TlsAgreed \/ OwnerProven \/ ConnEnds \/ UNCHANGED originVars
    <2>1. UNCHANGED <<certVars, term>>
      BY <1>3 DEF ConnStarts, TakesConfig, TlsAgreed, OwnerProven, ConnEnds, ConnGoes, Returns, originVars
    <2>2. Renewing' /\ store' = store
      BY <2>1, RenewingKeeps DEF OriginInv, certVars
    <2> QED
      BY <2>1, <2>2 DEF OriginInv
  <1>4. CASE CertSteps
    <2>1. Renewing'
      BY <1>4, RenewingKeeps DEF CertSteps, OriginInv
    <2>2. CASE store' # store /\ store' \in earlier
      BY <1>4, <2>1, <2>2, DownRead DEF CertSteps, OriginInv
    <2>3. CASE ~(store' # store /\ store' \in earlier)
      <3>1. term' = term /\ store.crt <= store'.crt /\ store'.crt \in Nat /\ store.crt \in Nat
        BY <1>4, <2>3, CertsGrow DEF CertSteps, OriginInv, Renewing, Mendable, StoreRecords
      <3>2. term.crt \in Nat /\ term.got \in Nat /\ term.pair \in Nat
        BY DEF OriginInv, Read, TermRecords
      <3>3. Read(term, store'.crt)
        BY <3>1, <3>2 DEF OriginInv, Read
      <3> QED
        BY <2>1, <3>1, <3>3 DEF OriginInv
    <2> QED
      BY <2>2, <2>3
  <1> QED
    BY <1>1, <1>2, <1>3, <1>4 DEF OriginNext

\* For any number of orders, name servers and connections, and wherever the renewal is cut or read in
\* the middle: a reloaded terminator that sees no change serves the pair on disk, and a pair that
\* does not match comes with a certificate that is due, unless a power loss kept the certificate's
\* rename and not the key's (OriginTerminator::acceptor, obtain_or_renew).
THEOREM PairAlwaysComesRight == OriginSpec => []PairComesRight
  <1>1. OriginInit => OriginInv
    BY RenewingStarts, DownRead DEF OriginInit, OriginInv
  <1>2. OriginInv => PairComesRight
    <2> SUFFICES ASSUME OriginInv PROVE PairComesRight
      OBVIOUS
    <2>1. MismatchIsDue
      BY DEF OriginInv, Renewing, Mendable, MismatchIsDue, Due
    <2>2. /\ term.seenCrt \in Nat /\ term.pair \in Nat /\ store.crt \in Nat
          /\ term.reloaded => term.seenCrt <= term.pair /\ term.pair <= store.crt
      BY DEF OriginInv, Read, TermRecords, Renewing, Mendable, StoreRecords
    <2>3. ReloadCatchesUp
      BY <2>2 DEF ReloadCatchesUp, UpToDate
    <2> QED
      BY <2>1, <2>3 DEF PairComesRight
  <1> QED
    BY <1>1, <1>2, OriginKeeps, PTL DEF OriginSpec

-----------------------------------------------------------------------------
(* The check of the zone's name servers (CertOrder).  A server that was found to serve the token   *)
(* of this order goes on serving it: nothing else is published while the round lasts.              *)

ZoneRecords == [published : Nat, serves : [Addresses -> Nat], asked : SUBSET Addresses,
                probe : [Addresses -> {"unasked", "present", "absent", "unreachable"}]]

Asking ==
    /\ zone \in ZoneRecords
    /\ issue.at \in {"lookup", "probe"} => zone.published = issue.order
    /\ \A a \in Addresses : zone.probe[a] = "present" => issue.at = "probe" /\ zone.serves[a] = issue.order

\* The end of a round, and the end of the check, clear the answers.
LEMMA ZoneClears ==
    ASSUME zone \in ZoneRecords, NEW n \in Nat
    PROVE  /\ zone' = [zone EXCEPT !.probe = Unasked] =>
                zone' \in ZoneRecords /\ zone'.published = zone.published
                /\ \A a \in Addresses : zone'.probe[a] = "unasked"
           /\ zone' = [zone EXCEPT !.probe = Unasked, !.asked = {}] =>
                zone' \in ZoneRecords /\ \A a \in Addresses : zone'.probe[a] = "unasked"
           /\ zone' = [zone EXCEPT !.published = n, !.probe = Unasked, !.asked = {}] =>
                zone' \in ZoneRecords /\ \A a \in Addresses : zone'.probe[a] = "unasked"
  <1>1. PICK u \in [Addresses -> {"unasked", "present", "absent", "unreachable"}] :
          u = Unasked /\ \A a \in Addresses : u[a] = "unasked"
    <2>1. /\ Unasked \in [Addresses -> {"unasked", "present", "absent", "unreachable"}]
          /\ \A a \in Addresses : Unasked[a] = "unasked"
      BY DEF Unasked
    <2> QED
      BY <2>1
  <1>2. PICK e \in SUBSET Addresses : e = {}
    OBVIOUS
  <1>3. /\ zone' = [zone EXCEPT !.probe = u] =>
             zone' \in ZoneRecords /\ zone'.published = zone.published /\ zone'.probe = u
        /\ zone' = [zone EXCEPT !.probe = u, !.asked = e] =>
             zone' \in ZoneRecords /\ zone'.probe = u
        /\ zone' = [zone EXCEPT !.published = n, !.probe = u, !.asked = e] =>
             zone' \in ZoneRecords /\ zone'.probe = u
    BY ZenonT(40) DEF ZoneRecords
  <1> QED
    BY <1>1, <1>2, <1>3

\* Nobody was asked at first.
LEMMA AskingStarts == CertInit => Asking
  <1> SUFFICES ASSUME CertInit PROVE Asking
    OBVIOUS
  <1>1. zone = [published |-> 0, serves |-> [a \in Addresses |-> 0], asked |-> {}, probe |-> Unasked]
    BY DEF CertInit
  <1>2. zone \in ZoneRecords /\ \A a \in Addresses : zone.probe[a] = "unasked"
    BY <1>1 DEF ZoneRecords, Unasked
  <1>3. issue.at = "sleep"
    BY DEF CertInit, Sleeping
  <1> QED
    BY <1>2, <1>3 DEF Asking

\* Every step of the renewal keeps what the answers of this round say.
LEMMA AskingKeeps == Renewing /\ Asking /\ [CertNext]_certVars => Asking'
  <1> SUFFICES ASSUME Renewing, Asking, [CertNext]_certVars PROVE Asking'
    OBVIOUS
  <1>0. zone \in ZoneRecords /\ issue \in IssueRecords /\ issue.order \in Nat /\ 0 \in Nat
    BY DEF Asking, Renewing, IssueRecords
  <1>1. CASE UNCHANGED <<issue, zone>>
    BY <1>1 DEF Asking
  <1>2. CASE UNCHANGED zone /\ issue.at # "probe" /\ issue'.at \notin {"lookup", "probe"}
    BY <1>2 DEF Asking
  <1>3. CASE (zone' = [zone EXCEPT !.probe = Unasked, !.asked = {}] \/ ClearsRecord)
             /\ issue'.at \notin {"lookup", "probe"}
    <2>1. zone.published \in Nat
      BY <1>0 DEF ZoneRecords
    <2>2. zone' \in ZoneRecords /\ \A a \in Addresses : zone'.probe[a] = "unasked"
      <3>1. CASE zone' = [zone EXCEPT !.probe = Unasked, !.asked = {}]
        BY <1>0, <3>1, ZoneClears
      <3>2. CASE ClearsRecord
        <4>1. PICK n \in Nat : zone' = [zone EXCEPT !.published = n, !.probe = Unasked, !.asked = {}]
          BY <1>0, <2>1, <3>2 DEF ClearsRecord
        <4> QED
          BY <1>0, <4>1, ZoneClears
      <3> QED
        BY <1>3, <3>1, <3>2
    <2> QED
      BY <1>3, <2>2 DEF Asking
  <1>4. CASE zone' = [zone EXCEPT !.probe = Unasked] /\ issue' = issue
    BY <1>0, <1>4, ZoneClears DEF Asking
  <1>5. CASE Publishes \/ FindsServers
    <2>1. CASE Publishes
      <3>1. PICK n \in Nat : n = issue.order /\ zone' = [zone EXCEPT !.published = n]
        BY <1>0, <2>1 DEF Publishes, LastOrder
      <3>2. issue' = [issue EXCEPT !.at = "lookup"] /\ issue.at = "authz"
        BY <2>1 DEF Publishes, Reaches, Doing
      <3>3. issue'.order = issue.order /\ issue'.at = "lookup"
        BY <1>0, <3>2, IssueGoes DEF Ordering
      <3>4. zone' \in ZoneRecords /\ zone'.published = n /\ zone'.probe = zone.probe
        BY <1>0, <3>1 DEF ZoneRecords
      <3> QED
        BY <3>1, <3>2, <3>3, <3>4 DEF Asking
    <2>2. CASE FindsServers
      <3>1. PICK found \in SUBSET Addresses : zone' = [zone EXCEPT !.asked = found]
        BY <2>2 DEF FindsServers
      <3>2. issue' = [issue EXCEPT !.at = "probe"] /\ issue.at = "lookup"
        BY <2>2 DEF FindsServers, Reaches, Doing
      <3>3. issue'.order = issue.order /\ issue'.at = "probe"
        BY <1>0, <3>2, IssueGoes DEF Ordering
      <3>4. zone' \in ZoneRecords /\ zone'.published = zone.published /\ zone'.probe = zone.probe
        BY <1>0, <3>1 DEF ZoneRecords
      <3> QED
        BY <3>2, <3>3, <3>4 DEF Asking
    <2> QED
      BY <1>5, <2>1, <2>2
  <1>6. CASE \E a \in Addresses : Replicates(a)
    <2>1. PICK a \in Addresses : zone' = [zone EXCEPT !.serves[a] = zone.published] /\ issue' = issue
      BY <1>6 DEF Replicates
    <2>2. PICK f \in [Addresses -> Nat] : f = [zone.serves EXCEPT ![a] = zone.published]
      BY <1>0 DEF ZoneRecords
    <2>3. zone' = [zone EXCEPT !.serves = f]
      BY <2>1, <2>2
    <2>4. /\ zone' \in ZoneRecords /\ zone'.published = zone.published /\ zone'.probe = zone.probe
          /\ zone'.serves = f
      BY <1>0, <2>3 DEF ZoneRecords
    <2>5. \A b \in Addresses : f[b] = zone.serves[b] \/ f[b] = zone.published
      BY <1>0, <2>2 DEF ZoneRecords
    <2> QED
      BY <2>1, <2>4, <2>5 DEF Asking
  <1>7. CASE \E a \in Addresses : Probes(a)
    <2>0. PICK a \in Addresses : Probes(a)
      BY <1>7
    <2>1. PICK w \in {AnswerOf(a), "unreachable"} :
            zone' = [zone EXCEPT !.probe[a] = w] /\ issue' = issue /\ issue.at = "probe"
      BY <2>0 DEF Probes, Doing
    <2>2. w \in {"present", "absent", "unreachable"} /\ (w = "present" => zone.serves[a] = issue.order)
      BY DEF AnswerOf, LastOrder
    <2>3. PICK f \in [Addresses -> {"unasked", "present", "absent", "unreachable"}] : f = [zone.probe EXCEPT ![a] = w]
      BY <1>0, <2>2 DEF ZoneRecords
    <2>4. zone' = [zone EXCEPT !.probe = f]
      BY <2>1, <2>3
    <2>5. /\ zone' \in ZoneRecords /\ zone'.published = zone.published /\ zone'.probe = f
          /\ zone'.serves = zone.serves
      BY <1>0, <2>4 DEF ZoneRecords
    <2>6. \A b \in Addresses : f[b] = IF b = a THEN w ELSE zone.probe[b]
      BY <1>0, <2>3 DEF ZoneRecords
    <2> QED
      BY <2>1, <2>2, <2>5, <2>6 DEF Asking
  <1>8. CASE Checks \/ Unanswered \/ PlacesOrder
    <2>1. UNCHANGED zone /\ issue.at # "probe"
      BY <1>8 DEF Checks, Unanswered, PlacesOrder, Doing
    <2>2. issue' = issue \/ issue'.at \notin {"lookup", "probe"}
      <3>1. CASE Checks
        <4>1. issue' = issue \/ issue' = [issue EXCEPT !.at = "account", !.attempt = 1]
          BY <3>1 DEF Checks
        <4> QED
          BY <1>0, <4>1 DEF IssueRecords
      <3>2. CASE Unanswered
        BY <1>0, <3>2, FailsGoes DEF Unanswered
      <3>3. CASE PlacesOrder
        BY <1>0, <3>3 DEF PlacesOrder, IssueRecords
      <3> QED
        BY <1>8, <3>1, <3>2, <3>3
    <2> QED
      BY <1>1, <1>2, <2>1, <2>2
  <1>9. CASE PublishFails \/ NoServers \/ ResolversDisagree
    <2>1. ClearsRecord /\ Fails(TRUE)
      BY <1>9 DEF PublishFails, NoServers, ResolversDisagree
    <2>2. issue'.at \notin {"lookup", "probe"}
      BY <1>0, <2>1, FailsGoes
    <2> QED
      BY <1>3, <2>1, <2>2
  <1>10. CASE Validates
    <2>1. ClearsRecord /\ (Reaches("poll") \/ Fails(TRUE) \/ Fails(FALSE))
      BY <1>10 DEF Validates
    <2>2. issue'.at \notin {"lookup", "probe"}
      BY <1>0, <2>1, FailsGoes, IssueGoes DEF Reaches, Ordering
    <2> QED
      BY <1>3, <2>1, <2>2
  <1>11. CASE JudgesRound
    <2>1. \/ /\ zone' = [zone EXCEPT !.probe = Unasked, !.asked = {}]
             /\ Reaches("resolvers") \/ Reaches("respond")
          \/ zone' = [zone EXCEPT !.probe = Unasked] /\ issue' = issue
          \/ ClearsRecord /\ Fails(TRUE)
      BY <1>11 DEF JudgesRound
    <2>2. Reaches("resolvers") => issue'.at \notin {"lookup", "probe"}
      BY <1>0 DEF Reaches, IssueRecords
    <2>3. Reaches("respond") => issue'.at \notin {"lookup", "probe"}
      BY <1>0 DEF Reaches, IssueRecords
    <2>4. Fails(TRUE) => issue'.at \notin {"lookup", "probe"}
      BY <1>0, FailsGoes
    <2> QED
      BY <1>3, <1>4, <2>1, <2>2, <2>3, <2>4
  <1>12. CASE AsksResolvers \/ ResolversAgree \/ OrderReady \/ Finalizes \/ Downloads
    <2>1. UNCHANGED zone /\ issue.at # "probe"
      BY <1>12 DEF AsksResolvers, ResolversAgree, OrderReady, Finalizes, Downloads, Doing
    <2>2. \E at \in {"resolvers", "respond", "finalize", "download", "stageKey"} : issue' = [issue EXCEPT !.at = at]
      BY <1>12 DEF AsksResolvers, ResolversAgree, OrderReady, Finalizes, Downloads, Reaches
    <2>3. issue'.at \notin {"lookup", "probe"}
      BY <1>0, <2>2 DEF IssueRecords
    <2> QED
      BY <1>2, <2>1, <2>3
  <1>13. CASE StagesKey \/ StagesCert \/ Renames \/ SyncsAndNotifies \/ WriteFailed
    <2>1. UNCHANGED zone /\ issue.at # "probe"
      BY <1>13 DEF StagesKey, StagesCert, Renames, Promotes, SyncsAndNotifies, WriteFailed, Doing
    <2>2. \/ \E at \in {"stageCert", "renameKey", "renameCert", "syncDir"} : issue' = [issue EXCEPT !.at = at]
          \/ issue' = [issue EXCEPT !.at = "sleep", !.attempt = 0]
      BY <1>13 DEF StagesKey, StagesCert, Renames, Promotes, SyncsAndNotifies, WriteFailed, Reaches
    <2>3. issue'.at \notin {"lookup", "probe"}
      BY <1>0, <2>2 DEF IssueRecords
    <2> QED
      BY <1>2, <2>1, <2>3
  <1>14. CASE Restarts
    <2>1. /\ zone' = [zone EXCEPT !.probe = Unasked, !.asked = {}]
          /\ issue' = [issue EXCEPT !.at = "sleep", !.attempt = 0]
      BY <1>14 DEF Restarts
    <2>2. issue'.at \notin {"lookup", "probe"}
      BY <1>0, <2>1 DEF IssueRecords
    <2> QED
      BY <1>3, <2>1, <2>2
  <1>15. CASE Ages \/ UNCHANGED certVars
    BY <1>1, <1>15 DEF Ages, certVars
  <1> QED
    BY <1>5, <1>6, <1>7, <1>8, <1>9, <1>10, <1>11, <1>12, <1>13, <1>14, <1>15 DEF CertNext

\* The step from the authoritative check to the CA, and no other, is a round in which every server
\* that was found answered with this order's token.
LEMMA RoundServed ==
    ASSUME Renewing, Asking, [CertNext]_certVars, Doing("probe"), issue'.at = "respond"
    PROVE  /\ zone.asked # {}
           /\ \A a \in zone.asked : \E b \in zone.asked : HostOf(a) = HostOf(b) /\ zone.serves[b] = LastOrder
  <1>0. zone \in ZoneRecords /\ issue \in IssueRecords /\ issue.at = "probe" /\ issue.order \in Nat
    BY DEF Asking, Renewing, IssueRecords, Doing
  <1>1. JudgesRound
    <2>1. CASE \E a \in Addresses : Replicates(a) \/ Probes(a)
      BY <1>0, <2>1 DEF Replicates, Probes
    <2>2. CASE Restarts
      BY <1>0, <2>2 DEF Restarts, IssueRecords
    <2>3. CASE Ages \/ UNCHANGED certVars
      BY <1>0, <2>3 DEF Ages, certVars
    <2> QED
      BY <1>0, <2>1, <2>2, <2>3
         DEF CertNext, Checks, Unanswered, PlacesOrder, Publishes, PublishFails, FindsServers, NoServers,
             AsksResolvers, ResolversAgree, ResolversDisagree, Validates, OrderReady, Finalizes, Downloads,
             StagesKey, StagesCert, Renames, SyncsAndNotifies, WriteFailed, Doing
  <1>2. MissingAt = {} /\ Unreached = {} /\ Unreached # zone.asked
    <2>1. Reaches("resolvers") => issue'.at = "resolvers"
      BY <1>0, IssueGoes DEF Reaches, Ordering
    <2>2. Fails(TRUE) => issue'.at # "respond"
      BY <1>0, FailsGoes
    <2> QED
      BY <1>0, <1>1, <2>1, <2>2 DEF JudgesRound
  <1>3. zone.asked \subseteq Addresses
    BY <1>0 DEF ZoneRecords
  <1>4. \A a \in zone.asked : zone.probe[a] \in {"present", "absent", "unreachable"}
    BY <1>0, <1>1, <1>3 DEF JudgesRound, ZoneRecords
  <1>5. \A a \in zone.asked : zone.probe[a] = "present" => zone.serves[a] = issue.order
    BY <1>3 DEF Asking
  <1>6. ASSUME NEW a \in zone.asked
        PROVE  \E b \in zone.asked : HostOf(a) = HostOf(b) /\ zone.serves[b] = LastOrder
    <2>1. zone.probe[a] # "absent"
      BY <1>2, <1>6 DEF MissingAt
    <2>2. CASE zone.probe[a] = "present"
      BY <1>5, <1>6, <2>2 DEF LastOrder
    <2>3. CASE zone.probe[a] = "unreachable"
      <3>1. Answered(HostOf(a))
        BY <1>2, <1>6, <2>3 DEF Unreached
      <3>2. PICK b \in zone.asked : HostOf(b) = HostOf(a) /\ zone.probe[b] \in {"present", "absent"}
        BY <3>1 DEF Answered
      <3>3. zone.probe[b] = "present"
        BY <1>2, <3>2 DEF MissingAt
      <3> QED
        BY <1>5, <3>2, <3>3 DEF LastOrder
    <2> QED
      BY <1>4, <1>6, <2>1, <2>2, <2>3
  <1> QED
    BY <1>2, <1>6

\* For any number of servers, addresses and orders, whichever of them the resolver finds and however
\* replication runs between the probes: the CA is asked after the authoritative check only when every
\* name server that was found serves this order's token at an address that was found (wait_for_all,
\* pending_servers, authoritative_addrs).
THEOREM AlwaysAskedWhereServed == CertSpec => AskedWhereServed
  <1>1. Renewing /\ Asking /\ [CertNext]_certVars =>
          [Doing("probe") /\ issue'.at = "respond" =>
             /\ zone.asked # {}
             /\ \A a \in zone.asked : \E b \in zone.asked : HostOf(a) = HostOf(b) /\ zone.serves[b] = LastOrder]_certVars
    BY RoundServed
  <1> QED
    BY <1>1, RenewingStarts, RenewingKeeps, AskingStarts, AskingKeeps, PTL DEF CertSpec, AskedWhereServed

-----------------------------------------------------------------------------
(* The update of the agent's own binary (SelfUpdate).  The supervisor is not looked into: whatever  *)
(* it does leaves the files alone, and an updater that it stops is gone.                            *)

Digests == {"none", "a1"} \cup {r.sha : r \in Releases} \cup {r.asset : r \in Releases}
Binaries == [tag : Nat, asset : Digests, x : BOOLEAN]
UpdateRecords == [ver : Nat, at : {"sleep", "sha", "manifest", "asset", "write", "chmod", "aside", "install", "exit"},
                  tag : Nat, digest : Digests, asset : Digests]

UpdateTyped ==
    /\ machine \in [windows : BOOLEAN, pinned : BOOLEAN, verify : BOOLEAN] /\ release \in Releases
    /\ disk \in [exe : Binaries, new : Binaries, old : Binaries]
    /\ upd \in UpdateRecords

\* With a key pinned the three answers of the release, each of which may be of another publication,
\* are tied to one tag by the digest: what goes to the disk was signed for it.
Guarded == machine.pinned /\ machine.verify

Tied ==
    Guarded =>
      /\ upd.at = "asset" => <<upd.tag, upd.digest>> \in Signed
      /\ upd.at = "write" => <<upd.tag, upd.asset>> \in Signed
      /\ upd.at \in {"chmod", "aside", "install"} => <<disk.new.tag, disk.new.asset>> \in Signed

\* What is renamed into place runs, and what is in place runs unless Windows moved it aside.
Ready ==
    /\ upd.at \in {"aside", "install"} => disk.new.x
    /\ upd.at = "aside" => machine.windows
    /\ ~machine.windows => disk.exe.x
    /\ disk.exe = NoBinary \/ disk.exe.x

UpdateInv == UpdateTyped /\ Tied /\ Ready /\ InstallSound

\* What a release offers.
LEMMA ReleaseIs ==
    ASSUME NEW r \in Releases
    PROVE  /\ r.tag \in Nat /\ r.sha \in Digests /\ r.asset \in Digests
           /\ r.man.signed => <<r.man.tag, r.man.digest>> \in Signed
  BY ReleasesAssumption DEF Digests

\* An updater that rests holds nothing.
LEMMA AtRestIs ==
    ASSUME NEW ver \in Nat PROVE NoUpdate(ver) \in UpdateRecords /\ NoUpdate(ver).at = "sleep"
  <1>1. "none" \in Digests
    BY DEF Digests
  <1> QED
    BY <1>1 DEF NoUpdate, UpdateRecords

\* The binary an agent was installed with, and none.
LEMMA BinariesAre == NoBinary \in Binaries /\ Installed \in Binaries /\ ~NoBinary.x /\ Installed.x
                     /\ NoBinary.tag = 0 /\ NoBinary.asset = "none" /\ Installed.tag = 1 /\ Installed.asset = "a1"
  <1>1. "none" \in Digests /\ "a1" \in Digests
    BY DEF Digests
  <1> QED
    BY <1>1 DEF NoBinary, Installed, Binaries

\* The installed binary runs.
LEMMA UpdateStarts == UpdateInit => UpdateInv
  <1> SUFFICES ASSUME UpdateInit PROVE UpdateInv
    OBVIOUS
  <1>1. /\ disk \in [exe : Binaries, new : Binaries, old : Binaries] /\ disk.exe = Installed
    BY BinariesAre DEF UpdateInit
  <1>2. upd \in UpdateRecords /\ upd.at = "sleep"
    BY AtRestIs DEF UpdateInit
  <1>3. UpdateTyped
    BY <1>1, <1>2 DEF UpdateInit, UpdateTyped
  <1>4. Tied /\ Ready /\ InstallSound
    BY <1>1, <1>2, BinariesAre DEF Tied, Ready, InstallSound, BinarySurvives, Runnable, InstalledWasSigned
  <1> QED
    BY <1>3, <1>4 DEF UpdateInv

\* The files stay as they are, and the updater goes on to a step that asks no more of them.
LEMMA DiskStays ==
    ASSUME UpdateInv, UNCHANGED <<machine, disk>>, release' \in Releases, upd' \in UpdateRecords,
           Guarded => /\ upd'.at = "asset" => <<upd'.tag, upd'.digest>> \in Signed
                      /\ upd'.at = "write" => <<upd'.tag, upd'.asset>> \in Signed,
           upd'.at \in {"chmod", "aside", "install"} => upd' = upd
    PROVE  UpdateInv'
  <1>1. UpdateTyped /\ Tied /\ Ready /\ InstallSound
    BY DEF UpdateInv
  <1>2. UpdateTyped'
    BY <1>1 DEF UpdateTyped
  <1>3. Tied' /\ Ready'
    BY <1>1 DEF Tied, Ready, Guarded
  <1>4. InstallSound'
    BY <1>1 DEF InstallSound, BinarySurvives, InstalledWasSigned
  <1> QED
    BY <1>2, <1>3, <1>4 DEF UpdateInv

\* An updater that gives up, dies or is stopped leaves the files where they are.
LEMMA Rests ==
    ASSUME UpdateInv, UNCHANGED <<machine, disk>>, release' \in Releases, NEW ver \in Nat, upd' = NoUpdate(ver)
    PROVE  UpdateInv'
  <1>1. upd' \in UpdateRecords /\ upd'.at = "sleep"
    BY AtRestIs
  <1> QED
    BY <1>1, DiskStays

\* The requests, each to the release as it is at that time.
LEMMA RequestsKeep ==
    ASSUME UpdateInv, ChecksForUpdate \/ FetchesSha \/ FetchesManifest \/ FetchesAsset
    PROVE  UpdateInv'
  <1>0. UpdateTyped /\ Tied /\ UNCHANGED <<machine, release, disk>>
    BY DEF UpdateInv, ChecksForUpdate, FetchesSha, FetchesManifest, FetchesAsset, Gives
  <1>1. /\ upd \in UpdateRecords /\ release \in Releases /\ release.tag \in Nat /\ release.sha \in Digests
        /\ release.asset \in Digests
        /\ release.man.signed => <<release.man.tag, release.man.digest>> \in Signed
    BY <1>0, ReleaseIs DEF UpdateTyped
  <1>2. CASE ChecksForUpdate
    <2>1. PICK step \in {"sha", "asset"} :
            /\ machine.verify => step = "sha"
            /\ upd' = [NoUpdate(upd.ver) EXCEPT !.at = step, !.tag = release.tag]
      BY <1>2 DEF ChecksForUpdate, Gives
    <2>2. PICK u \in UpdateRecords : u = NoUpdate(upd.ver)
      BY <1>1, AtRestIs DEF UpdateRecords
    <2>3. upd' \in UpdateRecords /\ upd'.at = step
      BY <1>1, <2>1, <2>2 DEF UpdateRecords
    <2> QED
      BY <1>0, <1>1, <2>1, <2>3, DiskStays DEF Guarded
  <1>3. CASE FetchesSha
    <2>1. upd' \in UpdateRecords /\ upd'.at = "manifest"
      BY <1>1, <1>3 DEF FetchesSha, Gives, UpdateRecords
    <2> QED
      BY <1>0, <1>1, <2>1, DiskStays
  <1>4. CASE FetchesManifest
    <2>1. upd' \in UpdateRecords /\ upd'.at = "asset" /\ upd'.tag = upd.tag /\ upd'.digest = upd.digest
      BY <1>1, <1>4 DEF FetchesManifest, Gives, UpdateRecords
    <2>2. machine.pinned => <<upd.tag, upd.digest>> \in Signed
      BY <1>1, <1>4 DEF FetchesManifest, Proven
    <2> QED
      BY <1>0, <1>1, <2>1, <2>2, DiskStays DEF Guarded
  <1>5. CASE FetchesAsset
    <2>1. upd' \in UpdateRecords /\ upd'.at = "write" /\ upd'.tag = upd.tag /\ upd'.asset = release.asset
      BY <1>1, <1>5 DEF FetchesAsset, Gives, UpdateRecords
    <2>2. Guarded => <<upd.tag, release.asset>> \in Signed
      BY <1>0, <1>5 DEF FetchesAsset, UpdateSteps, Tied, Guarded
    <2> QED
      BY <1>0, <1>1, <2>1, <2>2, DiskStays
  <1> QED
    BY <1>2, <1>3, <1>4, <1>5

\* The files: the new binary is whole, signed and runnable before the old one gives way.
LEMMA WritesKeep ==
    ASSUME UpdateInv, WritesNew \/ SetsMode \/ MovesAside \/ Installs
    PROVE  UpdateInv'
  <1>0. UpdateTyped /\ Tied /\ Ready /\ InstallSound /\ UNCHANGED <<machine, release>>
    BY DEF UpdateInv, WritesNew, SetsMode, MovesAside, Installs, Gives
  <1>1. /\ upd \in UpdateRecords /\ disk \in [exe : Binaries, new : Binaries, old : Binaries]
        /\ machine \in [windows : BOOLEAN, pinned : BOOLEAN, verify : BOOLEAN]
    BY <1>0 DEF UpdateTyped
  <1>2. PICK none \in Binaries : none = NoBinary /\ ~none.x /\ none.tag = 0 /\ none.asset = "none"
    BY BinariesAre
  <1>3. CASE WritesNew
    <2>1. PICK b \in Binaries : b.tag = upd.tag /\ b.asset = upd.asset /\ b.x = machine.windows
                                /\ disk' = [disk EXCEPT !.new = b]
      <3>1. PICK b : b = [tag |-> upd.tag, asset |-> upd.asset, x |-> machine.windows]
        OBVIOUS
      <3>2. b \in Binaries /\ b.tag = upd.tag /\ b.asset = upd.asset /\ b.x = machine.windows
        BY <1>1, <3>1 DEF Binaries, UpdateRecords
      <3>3. disk' = [disk EXCEPT !.new = b]
        BY <1>3, <3>1 DEF WritesNew
      <3> QED
        BY <3>2, <3>3
    <2>2. /\ disk' \in [exe : Binaries, new : Binaries, old : Binaries] /\ disk'.new = b
          /\ disk'.exe = disk.exe /\ disk'.old = disk.old
      BY <1>1, <2>1
    <2>3. /\ upd' \in UpdateRecords /\ upd'.at \in {"aside", "chmod"}
          /\ upd'.at = "aside" <=> machine.windows
      BY <1>1, <1>3 DEF WritesNew, Gives, UpdateRecords
    <2>4. Guarded => <<upd.tag, upd.asset>> \in Signed
      BY <1>0, <1>3 DEF WritesNew, UpdateSteps, Tied
    <2>5. UpdateTyped'
      BY <1>0, <2>2, <2>3 DEF UpdateTyped
    <2>6. Tied' /\ Ready'
      BY <1>0, <2>1, <2>2, <2>3, <2>4 DEF Tied, Ready, Guarded
    <2>7. InstallSound'
      BY <1>0, <2>2 DEF InstallSound, BinarySurvives, Runnable, InstalledWasSigned
    <2> QED
      BY <2>5, <2>6, <2>7 DEF UpdateInv
  <1>4. CASE SetsMode
    <2>1. PICK b \in Binaries : b.tag = disk.new.tag /\ b.asset = disk.new.asset /\ b.x
                                /\ disk' = [disk EXCEPT !.new = b]
      <3>1. PICK b : b = [disk.new EXCEPT !.x = TRUE]
        OBVIOUS
      <3>2. b \in Binaries /\ b.tag = disk.new.tag /\ b.asset = disk.new.asset /\ b.x
        BY <1>1, <3>1 DEF Binaries
      <3>3. disk' = [disk EXCEPT !.new = b]
        BY <1>4, <3>1 DEF SetsMode
      <3> QED
        BY <3>2, <3>3
    <2>2. /\ disk' \in [exe : Binaries, new : Binaries, old : Binaries] /\ disk'.new = b
          /\ disk'.exe = disk.exe /\ disk'.old = disk.old
      BY <1>1, <2>1
    <2>3. upd' \in UpdateRecords /\ upd'.at = "install" /\ upd.at = "chmod"
      BY <1>1, <1>4 DEF SetsMode, UpdateSteps, Gives, UpdateRecords
    <2>4. UpdateTyped'
      BY <1>0, <2>2, <2>3 DEF UpdateTyped
    <2>5. Tied' /\ Ready'
      BY <1>0, <2>1, <2>2, <2>3 DEF Tied, Ready, Guarded
    <2>6. InstallSound'
      BY <1>0, <2>2 DEF InstallSound, BinarySurvives, Runnable, InstalledWasSigned
    <2> QED
      BY <2>4, <2>5, <2>6 DEF UpdateInv
  <1>5. CASE MovesAside
    <2>1. disk' = [disk EXCEPT !.old = disk.exe, !.exe = none] /\ disk.exe # none
      BY <1>2, <1>5 DEF MovesAside
    <2>2. /\ disk' \in [exe : Binaries, new : Binaries, old : Binaries] /\ disk'.new = disk.new
          /\ disk'.exe = none /\ disk'.old = disk.exe
      BY <1>1, <2>1
    <2>3. upd' \in UpdateRecords /\ upd'.at = "install" /\ upd.at = "aside"
      BY <1>1, <1>5 DEF MovesAside, UpdateSteps, Gives, UpdateRecords
    <2>4. disk.exe.x /\ machine.windows /\ disk.new.x
      BY <1>0, <1>2, <2>1, <2>3 DEF Ready
    <2>5. UpdateTyped'
      BY <1>0, <2>2, <2>3 DEF UpdateTyped
    <2>6. Tied' /\ Ready'
      BY <1>0, <1>2, <2>2, <2>3, <2>4 DEF Tied, Ready, Guarded
    <2>7. InstallSound'
      BY <1>0, <1>2, <2>2, <2>4 DEF InstallSound, BinarySurvives, Runnable, InstalledWasSigned
    <2> QED
      BY <2>5, <2>6, <2>7 DEF UpdateInv
  <1>6. CASE Installs
    <2>1. disk' = [disk EXCEPT !.exe = disk.new, !.new = none]
      BY <1>2, <1>6 DEF Installs
    <2>2. /\ disk' \in [exe : Binaries, new : Binaries, old : Binaries] /\ disk'.exe = disk.new
          /\ disk'.old = disk.old
      BY <1>1, <2>1
    <2>3. upd' \in UpdateRecords /\ upd'.at = "exit" /\ upd.at = "install"
      BY <1>1, <1>6 DEF Installs, UpdateSteps, Gives, UpdateRecords
    <2>4. disk.new.x /\ (Guarded => <<disk.new.tag, disk.new.asset>> \in Signed)
      BY <1>0, <2>3 DEF Ready, Tied
    <2>5. UpdateTyped'
      BY <1>0, <2>2, <2>3 DEF UpdateTyped
    <2>6. Tied' /\ Ready'
      BY <1>0, <2>2, <2>3, <2>4 DEF Tied, Ready
    <2>7. InstallSound'
      BY <1>0, <2>2, <2>4 DEF InstallSound, BinarySurvives, Runnable, InstalledWasSigned, Guarded
    <2> QED
      BY <2>5, <2>6, <2>7 DEF UpdateInv
  <1> QED
    BY <1>3, <1>4, <1>5, <1>6

\* Every step keeps the invariant.
LEMMA UpdateKeeps == UpdateInv /\ [UpdateNext]_updateVars => UpdateInv'
  <1> SUFFICES ASSUME UpdateInv, [UpdateNext]_updateVars PROVE UpdateInv'
    OBVIOUS
  <1>0. /\ UpdateTyped /\ release \in Releases /\ upd.ver \in Nat /\ disk.exe.tag \in Nat /\ 0 \in Nat
        /\ upd \in UpdateRecords
    BY DEF UpdateInv, UpdateTyped, UpdateRecords, Binaries
  <1>1. CASE Supervises
    <2>1. CASE upd' = upd
      BY <1>0, <1>1, <2>1, DiskStays DEF Supervises, UpdateInv, Tied, Guarded
    <2>2. CASE \E ver \in Nat : upd' = NoUpdate(ver)
      BY <1>0, <1>1, <2>2, Rests DEF Supervises
    <2> QED
      BY <1>0, <1>1, <2>1, <2>2 DEF Supervises
  <1>2. CASE (\E status \in Statuses : Dies(status)) \/ ExitsForUpdate
    BY <1>0, <1>2, Rests DEF Dies, ExitsForUpdate
  <1>3. CASE PublishesRelease
    BY <1>0, <1>3, DiskStays DEF PublishesRelease, UpdateInv, Tied, Guarded
  <1>4. CASE UpdateFails
    BY <1>0, <1>4, Rests DEF UpdateFails, GivesUp, Gives
  <1>5. CASE UNCHANGED updateVars
    BY <1>0, <1>5, DiskStays DEF updateVars, UpdateInv, Tied, Guarded
  <1> QED
    BY <1>1, <1>2, <1>3, <1>4, <1>5, RequestsKeep, WritesKeep DEF UpdateNext

\* For any releases, published anew between any two requests, and wherever the update is cut: the
\* host keeps a binary that runs, and with a key pinned what is installed was signed for its tag
\* (perform_update_into, evaluate_provenance).
THEOREM InstallAlwaysSound == UpdateSpec => []InstallSound
  <1>1. UpdateInv => InstallSound
    BY DEF UpdateInv
  <1> QED
    BY <1>1, UpdateStarts, UpdateKeeps, PTL DEF UpdateSpec

-----------------------------------------------------------------------------
(* The supervisor and the agent it restarts (Supervisor, SelfUpdate). *)

SupPlaces == {"start", "run", "pump", "stopping", "wait", "stopped", "final"}
SupRecords == [at : SupPlaces, left : Int, attempt : Nat, up : Nat, down : Nat]

\* Where the loop stands, there is a child or there is none.
ChildWhere ==
    /\ sup.at \in {"start", "wait", "stopped", "final"} => child = "none"
    /\ sup.at \in {"run", "stopping"} => child \in Statuses \cup {"up"}
    /\ sup.at = "pump" => child \in Statuses

\* The time without a child, and what the timer that runs can still add to it.  A child that has
\* exited is seen before time passes, so that none goes by at the select or in the grace.
DownBound ==
    ~machine.windows =>
      /\ sup.at \in {"run", "stopping"} => sup.down = 0
      /\ sup.at = "pump" => sup.left >= 0 /\ sup.down + sup.left <= PumpWait
      /\ sup.at \in {"start", "wait"} => sup.down <= MaxDelay + PumpWait
      /\ sup.at = "wait" /\ sup.left > 0 => sup.down + sup.left <= MaxDelay + PumpWait

SupInv == sup \in SupRecords /\ ChildWhere /\ DownBound

\* The delays are numbers, and the longest is the longest.
LEMMA DelayIs == ASSUME NEW n \in Nat PROVE Delay(n) \in Int /\ Delay(n) <= MaxDelay
  <1>1. BaseDelay \in Nat /\ MaxDelay \in Nat
    BY SupervisorAssumption
  <1>2. 2 ^ n \in Int
    OBVIOUS
  <1>3. PICK p \in Int : p = 2 ^ n
    BY <1>2
  <1>4. PICK q \in Int : q = BaseDelay * p
    BY <1>1, <1>3
  <1>5. Delay(n) = IF q < MaxDelay THEN q ELSE MaxDelay
    BY <1>3, <1>4 DEF Delay, Lesser
  <1> QED
    BY <1>1, <1>4, <1>5

\* The places.
LEMMA PlacesAre ==
    /\ "start" \in SupPlaces /\ "run" \in SupPlaces /\ "pump" \in SupPlaces /\ "stopping" \in SupPlaces
    /\ "wait" \in SupPlaces /\ "stopped" \in SupPlaces /\ "final" \in SupPlaces
  BY DEF SupPlaces

\* The backoff schedules a restart after at most the longest delay, and forgets nothing of the
\* time that has passed.
LEMMA BacksOffIs ==
    ASSUME NEW s \in SupRecords
    PROVE  /\ BacksOff(s) \in SupRecords /\ BacksOff(s).at = "wait" /\ BacksOff(s).down = s.down
           /\ BacksOff(s).left <= MaxDelay
  <1>1. PICK attempt \in Nat : attempt = IF s.up >= Healthy THEN 0 ELSE s.attempt
    BY DEF SupRecords
  <1>2. PICK left \in Int : left = Delay(attempt) /\ left <= MaxDelay
    BY DelayIs
  <1>3. PICK next \in Nat : next = Lesser(attempt + 1, Doublings)
    BY SupervisorAssumption DEF Lesser
  <1>4. BacksOff(s) = [s EXCEPT !.at = "wait", !.left = left, !.attempt = next, !.up = 0]
    BY <1>1, <1>2, <1>3, Zenon DEF BacksOff
  <1>5. PICK r : r = [s EXCEPT !.at = "wait", !.left = left, !.attempt = next, !.up = 0]
    OBVIOUS
  <1>6. r \in SupRecords /\ r.at = "wait" /\ r.down = s.down /\ r.left = left
    BY <1>5, PlacesAre DEF SupRecords
  <1> QED
    BY <1>2, <1>4, <1>5, <1>6

\* No child, and nothing has passed yet.
LEMMA SupStarts == UpdateInit => SupInv
  <1> SUFFICES ASSUME UpdateInit PROVE SupInv
    OBVIOUS
  <1>1. sup = [at |-> "start", left |-> 0, attempt |-> 0, up |-> 0, down |-> 0] /\ child = "none"
    BY DEF UpdateInit, SupervisorInit
  <1>2. sup \in SupRecords /\ sup.at = "start" /\ sup.down = 0
    BY <1>1, PlacesAre DEF SupRecords
  <1>3. MaxDelay + PumpWait >= 0
    BY SupervisorAssumption
  <1> QED
    BY <1>1, <1>2, <1>3 DEF SupInv, ChildWhere, DownBound

\* The steps of the loop at the child.
LEMMA LoopKeeps ==
    ASSUME SupInv, SeesExit \/ SeesStop \/ ChildStops \/ StopsWaiting \/ WaitOver \/ StopAsked, UNCHANGED machine
    PROVE  SupInv'
  <1>0. sup \in SupRecords /\ ChildWhere /\ DownBound /\ PumpWait \in Nat /\ Grace \in Nat
    BY SupervisorAssumption DEF SupInv
  <1>1. CASE SeesExit
    <2>0. PICK left \in Int : left = PumpWait
      BY <1>0
    <2>a. sup' = [sup EXCEPT !.at = "pump", !.left = left]
      BY <2>0, <1>1, Zenon DEF SeesExit
    <2>1. sup' \in SupRecords /\ sup'.at = "pump" /\ sup'.left = PumpWait /\ sup'.down = sup.down
      BY <1>0, <1>1, <2>0, <2>a, PlacesAre DEF SeesExit, SupRecords
    <2> QED
      BY <1>0, <1>1, <2>1 DEF SeesExit, SupInv, ChildWhere, DownBound, SupRecords
  <1>2. CASE SeesStop
    <2>0. PICK left \in Int : left = Grace
      BY <1>0
    <2>a. sup' = [sup EXCEPT !.at = "stopping", !.left = left]
      BY <2>0, <1>2, Zenon DEF SeesStop
    <2>1. sup' \in SupRecords /\ sup'.at = "stopping" /\ sup'.down = sup.down
      BY <1>0, <1>2, <2>0, <2>a, PlacesAre DEF SeesStop, SupRecords
    <2> QED
      BY <1>0, <1>2, <2>1 DEF SeesStop, SupInv, ChildWhere, DownBound, SupRecords
  <1>3. CASE ChildStops
    <2>0. PICK left \in Int : left = 0
      BY <1>0
    <2>a. sup' = [sup EXCEPT !.at = "stopped", !.left = left]
      BY <2>0, <1>3, Zenon DEF ChildStops
    <2>1. sup' \in SupRecords /\ sup'.at = "stopped" /\ child' = "none"
      BY <1>0, <1>3, <2>0, <2>a, PlacesAre DEF ChildStops, SupRecords
    <2> QED
      BY <2>1 DEF SupInv, ChildWhere, DownBound
  <1>4. CASE StopsWaiting
    <2>0. PICK left \in Int : left = 0
      BY <1>0
    <2>a. sup' = [sup EXCEPT !.at = "stopped", !.left = left]
      BY <2>0, <1>4, Zenon DEF StopsWaiting
    <2>1. sup' \in SupRecords /\ sup'.at = "stopped" /\ child' = "none"
      BY <1>0, <1>4, <2>0, <2>a, PlacesAre DEF StopsWaiting, ChildWhere, SupRecords
    <2> QED
      BY <2>1 DEF SupInv, ChildWhere, DownBound
  <1>5. CASE WaitOver
    <2>1. sup' \in SupRecords /\ sup'.at = "start" /\ child' = "none" /\ sup'.down = sup.down /\ sup.at = "wait"
      BY <1>0, <1>5, PlacesAre DEF WaitOver, SupRecords, ChildWhere
    <2> QED
      BY <1>0, <2>1 DEF SupInv, ChildWhere, DownBound
  <1>6. CASE StopAsked
    BY <1>0, <1>6 DEF StopAsked, SupInv, ChildWhere, DownBound
  <1> QED
    BY <1>1, <1>2, <1>3, <1>4, <1>5, <1>6

\* The exit is classified: the end, or a restart after a delay.
LEMMA ClassifyKeeps == ASSUME SupInv, Classifies, UNCHANGED machine PROVE SupInv'
  <1>0. /\ sup \in SupRecords /\ ChildWhere /\ DownBound /\ PumpWait \in Nat /\ MaxDelay \in Nat
        /\ sup.at = "pump" /\ child' = "none" /\ sup.down \in Nat /\ sup.left \in Int
    BY SupervisorAssumption DEF SupInv, Classifies, SupRecords
  <1>1. CASE child = "grant"
    <2>0. PICK left \in Int : left = 0
      BY <1>0
    <2>a. sup' = [sup EXCEPT !.at = "final", !.left = left]
      BY <2>0, <1>1, Zenon DEF Classifies
    <2>1. sup' \in SupRecords /\ sup'.at = "final"
      BY <1>0, <2>0, <2>a, PlacesAre DEF SupRecords
    <2> QED
      BY <1>0, <2>1 DEF SupInv, ChildWhere, DownBound
  <1>2. CASE child # "grant"
    <2>1. sup' \in SupRecords /\ sup'.at = "wait" /\ sup'.down = sup.down /\ sup'.left <= MaxDelay /\ sup'.left \in Int
      BY <1>0, <1>2, BacksOffIs DEF Classifies, SupRecords
    <2>2. ~machine.windows => sup.down <= PumpWait
      BY <1>0 DEF DownBound
    <2> QED
      BY <1>0, <2>1, <2>2 DEF SupInv, ChildWhere, DownBound
  <1> QED
    BY <1>1, <1>2

\* A start with a binary under the name that is started, and one without.
LEMMA SpawnKeeps ==
    ASSUME SupInv, Ready, Spawns(Runnable(disk.exe)), UNCHANGED machine PROVE SupInv'
  <1>0. sup \in SupRecords /\ ChildWhere /\ DownBound /\ sup.at = "start" /\ child = "none"
    BY DEF SupInv, Spawns, ChildWhere
  <1>1. CASE Runnable(disk.exe)
    <2>0. sup' = [sup EXCEPT !.at = "run", !.up = 0, !.down = 0] /\ child' = "up"
      BY <1>1 DEF Spawns
    <2>1. sup' \in SupRecords /\ sup'.at = "run" /\ sup'.down = 0
      BY <1>0, <2>0, PlacesAre DEF SupRecords
    <2> QED
      BY <2>0, <2>1 DEF SupInv, ChildWhere, DownBound
  <1>2. CASE ~Runnable(disk.exe)
    <2>1. sup' \in SupRecords /\ sup'.at = "wait" /\ child' = "none" /\ machine.windows
      BY <1>0, <1>2, BacksOffIs DEF Spawns, Ready, Runnable
    <2> QED
      BY <2>1 DEF SupInv, ChildWhere, DownBound
  <1> QED
    BY <1>1, <1>2

\* Time passes only where the supervisor waits.
LEMMA SupTickKeeps == ASSUME SupInv, SupervisorTick, UNCHANGED machine PROVE SupInv'
  <1>0. sup \in SupRecords /\ ChildWhere /\ DownBound /\ SupervisorIdle /\ child' = child
    BY DEF SupInv, SupervisorTick
  <1>1. /\ sup.left \in Int /\ sup.up \in Nat /\ sup.down \in Nat
        /\ Healthy \in Nat /\ MaxDelay \in Nat /\ PumpWait \in Nat
    BY <1>0, SupervisorAssumption DEF SupRecords
  <1>2. PICK left \in Int : left = IF sup.left = 0 THEN 0 ELSE sup.left - 1
    BY <1>1
  <1>3. PICK up \in Nat : up = IF child = "up" THEN Lesser(sup.up + 1, Healthy) ELSE sup.up
    BY <1>1 DEF Lesser
  <1>4. PICK down \in Nat : down = IF child = "up" THEN 0 ELSE Lesser(sup.down + 1, MaxDelay + PumpWait + 1)
    BY <1>1 DEF Lesser
  <1>5. sup' = [sup EXCEPT !.left = left, !.up = up, !.down = down]
    BY <1>2, <1>3, <1>4 DEF SupervisorTick
  <1>6. sup' \in SupRecords /\ sup'.at = sup.at /\ sup'.left = left /\ sup'.down = down
    BY <1>0, <1>5 DEF SupRecords
  <1>7. ChildWhere'
    BY <1>0, <1>6 DEF ChildWhere
  <1>8. child # "up" => down <= sup.down + 1
    BY <1>1, <1>4 DEF Lesser
  <1>9. DownBound'
    <2> SUFFICES ASSUME ~machine.windows PROVE
        /\ sup.at \in {"run", "stopping"} => down = 0
        /\ sup.at = "pump" => left >= 0 /\ down + left <= PumpWait
        /\ sup.at \in {"start", "wait"} => down <= MaxDelay + PumpWait
        /\ sup.at = "wait" /\ left > 0 => down + left <= MaxDelay + PumpWait
      BY <1>6 DEF DownBound
    <2>1. CASE sup.at \in {"run", "stopping"}
      BY <1>0, <1>4, <2>1 DEF SupervisorIdle
    <2>2. CASE sup.at = "pump"
      <3>1. sup.left > 0 /\ child # "up" /\ sup.down + sup.left <= PumpWait
        BY <1>0, <2>2 DEF SupervisorIdle, ChildWhere, Statuses, DownBound
      <3> QED
        BY <1>1, <1>2, <1>8, <2>2, <3>1
    <2>3. CASE sup.at = "wait"
      <3>1. sup.left > 0 /\ child # "up" /\ sup.down + sup.left <= MaxDelay + PumpWait
        BY <1>0, <2>3 DEF SupervisorIdle, ChildWhere, DownBound
      <3> QED
        BY <1>1, <1>2, <1>8, <2>3, <3>1
    <2> QED
      BY <1>0, <2>1, <2>2, <2>3 DEF SupervisorIdle
  <1> QED
    BY <1>6, <1>7, <1>9 DEF SupInv

\* Every step keeps it.
LEMMA SupKeeps == ASSUME SupInv, Ready, [UpdateNext]_updateVars PROVE SupInv'
  <1>1. CASE Supervises
    <2>1. UNCHANGED machine /\ (SupervisorSteps \/ Spawns(Runnable(disk.exe)))
      BY <1>1 DEF Supervises
    <2> QED
      BY <2>1, LoopKeeps, ClassifyKeeps, SpawnKeeps, SupTickKeeps DEF SupervisorSteps
  <1>2. CASE \E status \in Statuses : ChildExits(status) /\ UNCHANGED machine
    <2>1. child = "up" /\ child' \in Statuses /\ sup' = sup /\ machine' = machine
      BY <1>2 DEF ChildExits
    <2>2. sup.at \in {"run", "stopping"}
      BY <2>1 DEF SupInv, ChildWhere, SupRecords, SupPlaces, Statuses
    <2> QED
      BY <2>1, <2>2 DEF SupInv, ChildWhere, DownBound
  <1>3. CASE UNCHANGED <<sup, child, machine>>
    BY <1>3 DEF SupInv, ChildWhere, DownBound
  <1>4. (\E status \in Statuses : Dies(status)) \/ ExitsForUpdate =>
           \E status \in Statuses : ChildExits(status) /\ UNCHANGED machine
    BY DEF Dies, ExitsForUpdate, Statuses
  <1>5. UNCHANGED updateVars \/ PublishesRelease \/ ChecksForUpdate \/ FetchesSha \/ FetchesManifest \/ FetchesAsset
        \/ WritesNew \/ SetsMode \/ MovesAside \/ Installs \/ UpdateFails => UNCHANGED <<sup, child, machine>>
    BY DEF updateVars, supervisorVars, PublishesRelease, ChecksForUpdate, FetchesSha, FetchesManifest, FetchesAsset,
           WritesNew, SetsMode, MovesAside, Installs, UpdateFails, GivesUp, Gives
  <1> QED
    BY <1>1, <1>2, <1>3, <1>4, <1>5 DEF UpdateNext

\* It says what is wanted of the supervisor.
LEMMA SupSays == SupInv => SupervisionHolds
  <1> SUFFICES ASSUME SupInv PROVE NoOrphan /\ BackInTime
    BY DEF SupervisionHolds
  <1>0. /\ sup \in SupRecords /\ sup.down \in Nat /\ sup.left \in Int /\ MaxDelay \in Nat /\ PumpWait \in Nat
        /\ sup.at \in SupPlaces /\ ChildWhere /\ DownBound
    BY SupervisorAssumption DEF SupInv, SupRecords
  <1>1. NoOrphan
    BY <1>0 DEF NoOrphan, Ended, ChildWhere
  <1>2. BackInTime
    BY <1>0 DEF BackInTime, Ended, DownBound, SupPlaces
  <1> QED
    BY <1>1, <1>2


\* A supervisor that has ended left no agent running, and on unix an agent that died is back within the
\* longest delay and one wait of the pump: for any delays, grace and waits, whatever the updater does
\* to the binary meanwhile (ct-agent-supervisor.rs, supervise).
THEOREM SupervisionAlwaysHolds == UpdateSpec => []SupervisionHolds
  <1>1. UpdateInit => UpdateInv /\ SupInv
    BY UpdateStarts, SupStarts
  <1>2. (UpdateInv /\ SupInv) /\ [UpdateNext]_updateVars => (UpdateInv /\ SupInv)'
    <2>1. UpdateInv => Ready
      BY DEF UpdateInv
    <2> QED
      BY <2>1, UpdateKeeps, SupKeeps
  <1> QED
    BY <1>1, <1>2, SupSays, PTL DEF UpdateSpec

-----------------------------------------------------------------------------
(* The share links (LinkStore).  A write that crosses nobody's finds the file as it was loaded, and  *)
(* so adds its own change to what is there.                                                        *)

LinkRecs == [on : BOOLEAN, once : BOOLEAN, used : BOOLEAN, expired : BOOLEAN, revoked : BOOLEAN, sessions : Seq(Nat)]
LinkFiles == [LinkIds -> LinkRecs]
LinkOpRecs == [does : {"mint", "revoke", "query", "cookie"}, link : LinkIds, secret : Nat, seen : LinkFiles]

StoreTyped ==
    /\ links \in LinkFiles /\ linkCount \in Nat /\ granted \in [LinkIds -> Nat]
    /\ overran \in [last : Actors, yes : BOOLEAN]
    /\ linkOp \in [Actors -> LinkOpRecs \cup {NoLinkOp}]

\* The command line mints and revokes, the agent's tasks redeem, one at a time.
OpsApart ==
    /\ \A t \in LinkTasks : linkOp[t] # NoLinkOp => mutex = t
    /\ linkOp[Cli] # NoLinkOp => linkOp[Cli].does \in {"mint", "revoke"}
    /\ \A t \in LinkTasks : linkOp[t] # NoLinkOp => linkOp[t].does \in {"query", "cookie"}

\* Whoever finds the file changed since it loaded it finds a write of the other process.
ChangedByOther ==
    \A p \in Actors : linkOp[p] # NoLinkOp /\ linkOp[p].seen # links => (p = Cli) # (overran.last = Cli)

\* A link that may still be redeemed by its URL has not been.
GrantsStamped ==
    ~overran.yes => \A l \in LinkIds :
        /\ ~links[l].on => granted[l] = 0
        /\ links[l].once => granted[l] <= 1 /\ (~links[l].used => granted[l] = 0)

StoreInv == StoreTyped /\ OpsApart /\ ChangedByOther /\ GrantsStamped

\* No operation is told from one under way.
LEMMA NoOpIs == NoLinkOp \notin LinkOpRecs /\ NoLinkOp.does = "none"
  BY DEF NoLinkOp, LinkOpRecs

\* The parts of an operation under way.
LEMMA OpIs ==
    ASSUME StoreInv, NEW p \in Actors, linkOp[p] # NoLinkOp
    PROVE  /\ linkOp[p] \in LinkOpRecs /\ linkOp[p].link \in LinkIds /\ linkOp[p].seen \in LinkFiles
           /\ linkOp[p].seen # links => (p = Cli) # (overran.last = Cli)
  BY DEF StoreInv, StoreTyped, ChangedByOther, LinkOpRecs

\* An operation is over and the file as it was.
LEMMA FinishKeeps ==
    ASSUME StoreInv, NEW p \in Actors, Finishes(p), UNCHANGED <<links, granted, overran>>,
           mutex' = mutex \/ p = mutex \/ (p \in LinkTasks /\ linkOp[p] # NoLinkOp)
    PROVE  StoreInv'
  <1>0. /\ linkOp \in [Actors -> LinkOpRecs \cup {NoLinkOp}] /\ linkOp' = [linkOp EXCEPT ![p] = NoLinkOp]
        /\ linkCount' = linkCount
    BY DEF StoreInv, StoreTyped, Finishes
  <1>1. /\ linkOp' \in [Actors -> LinkOpRecs \cup {NoLinkOp}] /\ linkOp'[p] = NoLinkOp
        /\ \A q \in Actors : q # p => linkOp'[q] = linkOp[q]
    BY <1>0
  <1>2. StoreTyped'
    BY <1>0, <1>1 DEF StoreInv, StoreTyped
  <1>3. OpsApart'
    BY <1>1, LinkAssumption DEF StoreInv, OpsApart, Actors
  <1>4. ChangedByOther'
    BY <1>1 DEF StoreInv, ChangedByOther
  <1>5. GrantsStamped'
    BY DEF StoreInv, GrantsStamped
  <1> QED
    BY <1>2, <1>3, <1>4, <1>5 DEF StoreInv

\* An operation starts: it loads the file.
LEMMA StartKeeps ==
    ASSUME StoreInv, NEW p \in Actors, NEW does \in {"mint", "revoke", "query", "cookie"}, NEW l \in LinkIds,
           NEW secret \in Nat, Starts(p, does, l, secret),
           IF p = Cli THEN does \in {"mint", "revoke"} /\ mutex' = mutex
           ELSE does \in {"query", "cookie"} /\ mutex = Cli /\ mutex' = p
    PROVE  StoreInv'
  <1>1. PICK op : op = [does |-> does, link |-> l, secret |-> secret, seen |-> links]
    OBVIOUS
  <1>2. op \in LinkOpRecs /\ op.does = does /\ op.seen = links
    BY <1>1 DEF LinkOpRecs, StoreInv, StoreTyped
  <1>3. linkOp' = [linkOp EXCEPT ![p] = op] /\ linkCount' = linkCount + 1 /\ UNCHANGED <<links, granted, overran>>
    BY <1>1 DEF Starts
  <1>4. /\ linkOp' \in [Actors -> LinkOpRecs \cup {NoLinkOp}] /\ linkOp'[p] = op
        /\ \A q \in Actors : q # p => linkOp'[q] = linkOp[q]
    BY <1>2, <1>3 DEF StoreInv, StoreTyped
  <1>5. StoreTyped'
    BY <1>3, <1>4 DEF StoreInv, StoreTyped
  <1>6. OpsApart'
    <2>1. CASE p = Cli
      BY <1>2, <1>4, <2>1, LinkAssumption DEF StoreInv, OpsApart, Actors
    <2>2. CASE p # Cli
      <3>1. \A t \in LinkTasks : t # Cli /\ t \in Actors
        BY LinkAssumption DEF Actors
      <3>2. \A t \in LinkTasks : linkOp[t] = NoLinkOp
        BY <2>2, <3>1 DEF StoreInv, OpsApart
      <3>3. linkOp'[Cli] = linkOp[Cli]
        BY <1>4, <2>2 DEF Actors
      <3>4. \A t \in LinkTasks : t # p => linkOp'[t] = NoLinkOp
        BY <1>4, <3>1, <3>2
      <3> QED
        BY <1>2, <1>4, <2>2, <3>3, <3>4 DEF StoreInv, OpsApart
    <2> QED
      BY <2>1, <2>2
  <1>7. ChangedByOther'
    BY <1>2, <1>3, <1>4 DEF StoreInv, ChangedByOther
  <1>8. GrantsStamped'
    BY <1>3 DEF StoreInv, GrantsStamped
  <1> QED
    BY <1>5, <1>6, <1>7, <1>8 DEF StoreInv

\* A write: what it replaces it has read, or it is on record that it had not.
LEMMA SaveKeeps ==
    ASSUME StoreInv, NEW p \in Actors, linkOp[p] # NoLinkOp, NEW file \in LinkFiles, Saves(p, file), Finishes(p),
           granted' \in [LinkIds -> Nat],
           linkOp[p].seen = links /\ ~overran.yes =>
               \A l \in LinkIds : /\ ~file[l].on => granted'[l] = 0
                                  /\ file[l].once => granted'[l] <= 1 /\ (~file[l].used => granted'[l] = 0),
           IF p = Cli THEN mutex' = mutex ELSE mutex' = Cli
    PROVE  StoreInv'
  <1>1. /\ links' = file /\ overran'.last = p
        /\ overran'.yes = (overran.yes \/ (links # linkOp[p].seen /\ (p = Cli) # (overran.last = Cli)))
        /\ overran' \in [last : Actors, yes : BOOLEAN]
    BY DEF Saves, StoreInv, StoreTyped
  <1>2. /\ linkOp' \in [Actors -> LinkOpRecs \cup {NoLinkOp}] /\ linkOp'[p] = NoLinkOp /\ linkCount' = linkCount
        /\ \A q \in Actors : q # p => linkOp'[q] = linkOp[q]
    BY DEF StoreInv, StoreTyped, Finishes
  <1>3. StoreTyped'
    BY <1>1, <1>2 DEF StoreInv, StoreTyped
  <1>4. OpsApart' /\ (p # Cli => \A t \in LinkTasks : linkOp'[t] = NoLinkOp)
    <2>1. CASE p = Cli
      BY <1>2, <2>1, LinkAssumption DEF StoreInv, OpsApart, Actors
    <2>2. CASE p # Cli
      <3>1. p \in LinkTasks /\ mutex = p /\ Cli \in Actors
        BY <2>2 DEF StoreInv, OpsApart, Actors
      <3>2. \A t \in LinkTasks : linkOp'[t] = NoLinkOp
        BY <1>2, <3>1 DEF StoreInv, OpsApart, Actors
      <3>3. linkOp'[Cli] = linkOp[Cli]
        BY <1>2, <2>2, <3>1
      <3> QED
        BY <3>2, <3>3 DEF StoreInv, OpsApart
    <2> QED
      BY <2>1, <2>2
  <1>5. ChangedByOther'
    <2>1. ASSUME NEW q \in Actors, linkOp'[q] # NoLinkOp PROVE (q = Cli) # (overran'.last = Cli)
      BY <1>1, <1>2, <1>4, <2>1, LinkAssumption DEF Actors
    <2> QED
      BY <2>1 DEF ChangedByOther
  <1>6. GrantsStamped'
    <2>1. ~overran'.yes => linkOp[p].seen = links /\ ~overran.yes
      BY <1>1, OpIs
    <2> QED
      BY <1>1, <2>1 DEF GrantsStamped
  <1> QED
    BY <1>3, <1>4, <1>5, <1>6 DEF StoreInv

\* The command line's writes.
LEMMA CliKeeps ==
    ASSUME StoreInv, (\E once \in BOOLEAN : Mints(once)) \/ Revokes \/ CliRefuses
    PROVE  StoreInv'
  <1>0. Cli \in Actors
    BY SMTT(30) DEF Actors
  <1>1. linkOp[Cli] # NoLinkOp
    BY NoOpIs DEF Mints, Revokes, CliRefuses
  <1>2. PICK l \in LinkIds, seen \in LinkFiles : l = linkOp[Cli].link /\ seen = linkOp[Cli].seen
    BY <1>0, <1>1, OpIs
  <1>3. ASSUME NEW once \in BOOLEAN, Mints(once) PROVE StoreInv'
    <2>1. PICK r : r = [NoLink EXCEPT !.on = TRUE, !.once = once]
      OBVIOUS
    <2>2. r \in LinkRecs /\ r.on = TRUE /\ r.used = FALSE
      <3>1. NoLink \in LinkRecs /\ NoLink.used = FALSE
        BY DEF NoLink, LinkRecs
      <3> QED
        BY <2>1, <3>1 DEF LinkRecs
    <2>3. PICK file : file = [seen EXCEPT ![l] = r]
      OBVIOUS
    <2>4. file \in LinkFiles /\ file[l] = r /\ \A k \in LinkIds : k # l => file[k] = seen[k]
      BY <2>2, <2>3 DEF LinkFiles
    <2>5. /\ Saves(Cli, file) /\ Finishes(Cli) /\ UNCHANGED <<mutex, granted>> /\ ~seen[l].on
      BY <1>2, <1>3, <2>1, <2>3 DEF Mints
    <2>6. granted \in [LinkIds -> Nat]
      BY DEF StoreInv, StoreTyped
    <2>7. ASSUME seen = links, ~overran.yes, NEW k \in LinkIds
          PROVE  /\ ~file[k].on => granted[k] = 0
                 /\ file[k].once => granted[k] <= 1 /\ (~file[k].used => granted[k] = 0)
      BY <2>2, <2>4, <2>5, <2>6, <2>7 DEF StoreInv, GrantsStamped
    <2> QED
      BY <1>0, <1>1, <1>2, <2>4, <2>5, <2>6, <2>7, SaveKeeps
  <1>4. CASE Revokes
    <2>1. PICK r : r = [seen[l] EXCEPT !.revoked = TRUE]
      OBVIOUS
    <2>2. r \in LinkRecs /\ r.on = seen[l].on /\ r.used = seen[l].used /\ r.once = seen[l].once
      BY <2>1 DEF LinkRecs, LinkFiles
    <2>3. PICK file : file = [seen EXCEPT ![l] = r]
      OBVIOUS
    <2>4. file \in LinkFiles /\ file[l] = r /\ \A k \in LinkIds : k # l => file[k] = seen[k]
      BY <2>2, <2>3 DEF LinkFiles
    <2>5. /\ Saves(Cli, file) /\ Finishes(Cli) /\ UNCHANGED <<mutex, granted>>
      BY <1>2, <1>4, <2>1, <2>3 DEF Revokes, LinkFiles
    <2>6. granted \in [LinkIds -> Nat]
      BY DEF StoreInv, StoreTyped
    <2>7. ASSUME seen = links, ~overran.yes, NEW k \in LinkIds
          PROVE  /\ ~file[k].on => granted[k] = 0
                 /\ file[k].once => granted[k] <= 1 /\ (~file[k].used => granted[k] = 0)
      BY <2>2, <2>4, <2>5, <2>6, <2>7 DEF StoreInv, GrantsStamped
    <2> QED
      BY <1>0, <1>1, <1>2, <2>4, <2>5, <2>6, <2>7, SaveKeeps
  <1>5. CASE CliRefuses
    BY <1>0, <1>5, FinishKeeps DEF CliRefuses
  <1> QED
    BY <1>3, <1>4, <1>5

\* A task's redemption.
LEMMA RedeemKeeps ==
    ASSUME StoreInv, NEW t \in LinkTasks, RedeemsUrl(t) \/ RedeemEnds(t)
    PROVE  StoreInv'
  <1>0. t \in Actors /\ t # Cli
    BY LinkAssumption, SMTT(30) DEF Actors
  <1>1. linkOp[t] # NoLinkOp
    BY NoOpIs DEF RedeemsUrl, RedeemEnds
  <1>2. PICK l \in LinkIds, seen \in LinkFiles : l = linkOp[t].link /\ seen = linkOp[t].seen
    BY <1>0, <1>1, OpIs
  <1>3. CASE RedeemsUrl(t)
    <2>1. PICK more : more = IF Len(Append(seen[l].sessions, linkCount)) > MaxSessions
                             THEN Tail(Append(seen[l].sessions, linkCount)) ELSE Append(seen[l].sessions, linkCount)
      OBVIOUS
    <2>2. more \in Seq(Nat)
      <3>1. PICK s \in Seq(Nat) : s = seen[l].sessions
        BY DEF LinkFiles, LinkRecs
      <3>2. PICK a \in Seq(Nat) : a = Append(s, linkCount) /\ a # <<>>
        <4>1. PICK n \in Nat : n = linkCount
          BY DEF StoreInv, StoreTyped
        <4>2. Append(s, n) \in Seq(Nat) /\ Append(s, n) # <<>>
          <5>1. PICK b : b = Append(s, n)
            OBVIOUS
          <5>2. b \in Seq(Nat) /\ Len(b) = Len(s) + 1 /\ Len(s) \in Nat
            BY <5>1
          <5> QED
            BY <5>1, <5>2
        <4> QED
          BY <4>1, <4>2, Zenon
      <3>3. Tail(a) \in Seq(Nat)
        BY <3>2
      <3> QED
        BY <2>1, <3>1, <3>2, <3>3
    <2>3. PICK r : r = [seen[l] EXCEPT !.used = TRUE, !.sessions = more]
      OBVIOUS
    <2>4. r \in LinkRecs /\ r.on = seen[l].on /\ r.used = TRUE /\ r.once = seen[l].once
      BY <2>2, <2>3 DEF LinkRecs, LinkFiles
    <2>5. PICK file : file = [seen EXCEPT ![l] = r]
      OBVIOUS
    <2>6. file \in LinkFiles /\ file[l] = r /\ \A k \in LinkIds : k # l => file[k] = seen[k]
      BY <2>4, <2>5 DEF LinkFiles
    <2>7. Saves(t, file)
      <3>1. PICK other : other = [seen EXCEPT ![l].used = TRUE, ![l].sessions = more]
        OBVIOUS
      <3>2. other = file
        BY <2>3, <2>5, <3>1 DEF LinkFiles, LinkRecs
      <3>3. Saves(t, other)
        BY <1>2, <1>3, <2>1, <3>1, ZenonT(40) DEF RedeemsUrl
      <3> QED
        BY <3>2, <3>3
    <2>8. /\ Finishes(t) /\ mutex' = Cli /\ seen[l].on /\ ~(seen[l].once /\ seen[l].used)
          /\ granted' = [granted EXCEPT ![l] = granted[l] + 1]
      BY <1>2, <1>3 DEF RedeemsUrl, Accepted
    <2>9. granted' \in [LinkIds -> Nat] /\ granted'[l] = granted[l] + 1 /\ \A k \in LinkIds : k # l => granted'[k] = granted[k]
      BY <2>8 DEF StoreInv, StoreTyped
    <2>10. ASSUME seen = links, ~overran.yes, NEW k \in LinkIds
           PROVE  /\ ~file[k].on => granted'[k] = 0
                  /\ file[k].once => granted'[k] <= 1 /\ (~file[k].used => granted'[k] = 0)
      <3>1. /\ ~links[k].on => granted[k] = 0
            /\ links[k].once => granted[k] <= 1 /\ (~links[k].used => granted[k] = 0)
        BY <2>10 DEF StoreInv, GrantsStamped
      <3> QED
        <4>1. CASE k = l
          <5>1. granted[l] \in Nat
            BY DEF StoreInv, StoreTyped
          <5>2. links[l].once => granted[l] = 0
            BY <2>8, <2>10, <3>1, <4>1
          <5>3. PICK n \in Nat : n = granted[l] /\ granted'[l] = n + 1
            BY <2>9, <5>1
          <5>4. file[l].on = links[l].on /\ file[l].used = TRUE /\ file[l].once = links[l].once /\ links[l].on
            BY <2>4, <2>6, <2>8, <2>10
          <5>5. links[l].once => n + 1 <= 1
            BY <5>2, <5>3
          <5> QED
            BY <4>1, <5>3, <5>4, <5>5, Zenon
        <4>2. CASE k # l
          BY <2>6, <2>9, <2>10, <3>1, <4>2
        <4> QED
          BY <4>1, <4>2
    <2> QED
      BY <1>0, <1>1, <1>2, <2>6, <2>7, <2>8, <2>9, <2>10, SaveKeeps
  <1>4. CASE RedeemEnds(t)
    BY <1>0, <1>1, <1>4, FinishKeeps DEF RedeemEnds
  <1> QED
    BY <1>3, <1>4

\* A link expires while nobody has the file loaded.
LEMMA ExpiryKeeps == ASSUME StoreInv, NEW l \in LinkIds, LinkExpires(l) PROVE StoreInv'
  <1>1. PICK r : r = [links[l] EXCEPT !.expired = TRUE]
    OBVIOUS
  <1>2. r \in LinkRecs /\ r.on = links[l].on /\ r.used = links[l].used /\ r.once = links[l].once
    BY <1>1, ZenonT(40) DEF LinkRecs, StoreInv, StoreTyped, LinkFiles
  <1>3. links' = [links EXCEPT ![l] = r] /\ UNCHANGED <<mutex, linkOp, linkCount, granted, overran>>
        /\ \A p \in Actors : linkOp[p] = NoLinkOp
    BY <1>1 DEF LinkExpires
  <1>4. links' \in LinkFiles /\ links'[l] = r /\ \A k \in LinkIds : k # l => links'[k] = links[k]
    BY <1>2, <1>3 DEF StoreInv, StoreTyped, LinkFiles
  <1>5. StoreTyped' /\ OpsApart' /\ ChangedByOther'
    BY <1>3, <1>4 DEF StoreInv, StoreTyped, OpsApart, ChangedByOther
  <1>6. GrantsStamped'
    BY <1>2, <1>3, <1>4 DEF StoreInv, GrantsStamped
  <1> QED
    BY <1>5, <1>6 DEF StoreInv

\* Every step keeps the invariant.
LEMMA StoreKeeps == StoreInv /\ [LinkNext]_linkVars => StoreInv'
  <1> SUFFICES ASSUME StoreInv, [LinkNext]_linkVars PROVE StoreInv'
    OBVIOUS
  <1>0. Cli \in Actors /\ \A t \in LinkTasks : t \in Actors /\ t # Cli
    BY LinkAssumption DEF Actors
  <1>1. CASE UNCHANGED linkVars
    BY <1>1 DEF linkVars, StoreInv, StoreTyped, OpsApart, ChangedByOther, GrantsStamped
  <1>2. ASSUME NEW l \in LinkIds, NEW does \in {"mint", "revoke"}, CliStarts(does, l) PROVE StoreInv'
    <2>1. Starts(Cli, does, l, 0) /\ mutex' = mutex /\ 0 \in Nat /\ does \in {"mint", "revoke", "query", "cookie"}
      BY <1>2 DEF CliStarts
    <2> QED
      BY <1>0, <2>1, StartKeeps
  <1>3. ASSUME NEW l \in LinkIds, NEW t \in LinkTasks, NEW secret \in 0 .. LinkOps, RedeemStarts(t, l, secret)
        PROVE  StoreInv'
    <2>1. PICK does \in {"query", "cookie"} : Starts(t, does, l, secret)
      BY <1>3 DEF RedeemStarts
    <2>2. mutex = Cli /\ mutex' = t /\ does \in {"mint", "revoke", "query", "cookie"} /\ secret \in Nat
      BY <1>3, LinkAssumption DEF RedeemStarts, LocksLinks
    <2> QED
      BY <1>0, <2>1, <2>2, StartKeeps
  <1>4. ASSUME NEW p \in Actors, LinkSaveFails(p) PROVE StoreInv'
    BY <1>4, FinishKeeps DEF LinkSaveFails
  <1> QED
    BY <1>1, <1>2, <1>3, <1>4, CliKeeps, RedeemKeeps, ExpiryKeeps DEF LinkNext

\* For any number of connections, links and sessions kept per link: a --once link's URL is redeemed
\* once, as long as no write of one process crosses the other's (redeem_at, save, mint_at, revoke_at).
THEOREM AlwaysOnce == LinkSpec => []OnceMeansOnce
  <1>1. LinkInit => StoreInv
    <2> SUFFICES ASSUME LinkInit PROVE StoreInv
      OBVIOUS
    <2>1. NoLink \in LinkRecs /\ NoLink.on = FALSE /\ NoLink.once = FALSE /\ Cli \in Actors
      BY DEF NoLink, LinkRecs, Actors
    <2>2. StoreTyped
      BY <2>1 DEF LinkInit, StoreTyped, LinkFiles
    <2>3. OpsApart /\ ChangedByOther
      BY <2>1 DEF LinkInit, OpsApart, ChangedByOther, Actors
    <2>4. GrantsStamped
      BY <2>1 DEF LinkInit, GrantsStamped
    <2> QED
      BY <2>2, <2>3, <2>4 DEF StoreInv
  <1>2. StoreInv => OnceMeansOnce
    BY DEF StoreInv, GrantsStamped, OnceMeansOnce
  <1> QED
    BY <1>1, <1>2, StoreKeeps, PTL DEF LinkSpec

-----------------------------------------------------------------------------
(* The failure lockout (RateLimiter).  Every wrong credential of a window is in the count, in the hands of *)
(* a connection that has not recorded it, or lost; and what is lost is lost by a connection that read the   *)
(* window before it was opened, once each.                                                                 *)

GateRecords == [at : {"rest", "compare", "load", "open", "first", "count", "lock", "zero", "close"}, now : Nat]
GuessRecords == [n : Nat, since : Nat]

\* A guess that is not recorded yet; and the connections that will not throw the count away.
Recording == {"load", "open", "first", "count", "lock"}
Reading == {"load", "open"}
Harmless == {"rest", "compare", "load", "count", "lock", "zero", "close"}

TallyOf(g, S) == Cardinality({t \in GateTasks : g[t].at \in S})
Unit(b) == IF b THEN 1 ELSE 0

\* The count, as far as it may go before the lockout.
Counted == IF failures < MaxFailures THEN failures ELSE MaxFailures - 1

LimiterTyped ==
    /\ failures \in Nat /\ window \in Nat /\ lockedUntil \in Nat /\ secs \in Nat \ {0}
    /\ gate \in [GateTasks -> GateRecords] /\ guesses \in GuessRecords

\* Time stands still while a guess is recorded.
GateClock ==
    /\ guesses.since <= secs /\ window <= secs
    /\ \A t \in GateTasks : gate[t].at \in Recording => gate[t].now = secs /\ secs - guesses.since <= Window
    /\ \A t \in GateTasks : gate[t].at = "first" => window \in {0, secs}

\* Before the window is opened, each connection has at most the guess it holds; in a window older than the
\* guesses nothing is lost; in one as young as they are, a budget for each connection that can no longer
\* throw the count away.
GuessesPlaced ==
    /\ window = 0 => guesses.n <= TallyOf(gate, Reading)
    /\ window # 0 /\ secs - guesses.since <= Window /\ window < guesses.since =>
         guesses.n <= Counted + TallyOf(gate, Recording)
    /\ window # 0 /\ secs - guesses.since <= Window /\ window >= guesses.since =>
         guesses.n <= TallyOf(gate, Harmless) * (MaxFailures - 1) + Counted + TallyOf(gate, Recording)

LimiterInv == LimiterTyped /\ GateClock /\ GuessesPlaced /\ GuessesBounded

\* The constants.
LEMMA LimiterConstants ==
    /\ IsFiniteSet(GateTasks) /\ Cardinality(GateTasks) \in Nat /\ Window \in Nat /\ Lockout \in Nat /\ LimiterTime \in Nat
    /\ MaxFailures \in Nat /\ MaxFailures - 1 \in Nat /\ MaxFailures - 1 >= 1
  BY LimiterAssumption, FS_CardinalityType

\* A tally is a number, and no more than there are connections.
LEMMA TallyIs ==
    ASSUME NEW g, NEW S
    PROVE  /\ IsFiniteSet({t \in GateTasks : g[t].at \in S}) /\ TallyOf(g, S) \in Nat
           /\ TallyOf(g, S) <= Cardinality(GateTasks)
  <1>1. PICK A : A = {t \in GateTasks : g[t].at \in S}
    OBVIOUS
  <1>2. A \subseteq GateTasks
    BY <1>1
  <1>3. IsFiniteSet(A) /\ Cardinality(A) <= Cardinality(GateTasks)
    BY <1>2, LimiterConstants, FS_Subset
  <1>4. Cardinality(A) \in Nat
    BY <1>3, FS_CardinalityType
  <1> QED
    BY <1>1, <1>3, <1>4 DEF TallyOf

\* One connection moves.
LEMMA TallyMoves ==
    ASSUME NEW g, NEW h, NEW t \in GateTasks, NEW S, \A u \in GateTasks : u # t => h[u] = g[u]
    PROVE  TallyOf(h, S) + Unit(g[t].at \in S) = TallyOf(g, S) + Unit(h[t].at \in S)
  <1>1. PICK B : B = {u \in GateTasks \ {t} : g[u].at \in S}
    OBVIOUS
  <1>2. PICK G, H : G = {u \in GateTasks : g[u].at \in S} /\ H = {u \in GateTasks : h[u].at \in S}
    OBVIOUS
  <1>3. B \subseteq GateTasks /\ t \notin B
    BY <1>1
  <1>4. IsFiniteSet(B)
    BY <1>3, LimiterConstants, FS_Subset
  <1>5. Cardinality(B) \in Nat
    BY <1>4, FS_CardinalityType
  <1>6. Cardinality(B \cup {t}) = Cardinality(B) + 1
    BY <1>3, <1>4, FS_AddElement
  <1>7. G = IF g[t].at \in S THEN B \cup {t} ELSE B
    BY <1>1, <1>2
  <1>8. H = IF h[t].at \in S THEN B \cup {t} ELSE B
    BY <1>1, <1>2
  <1>9. Cardinality(G) = Cardinality(B) + Unit(g[t].at \in S)
    BY <1>5, <1>6, <1>7 DEF Unit
  <1>10. Cardinality(H) = Cardinality(B) + Unit(h[t].at \in S)
    BY <1>5, <1>6, <1>8 DEF Unit
  <1>11. Unit(g[t].at \in S) \in Nat /\ Unit(h[t].at \in S) \in Nat
    BY DEF Unit
  <1> QED
    BY <1>2, <1>5, <1>9, <1>10, <1>11 DEF TallyOf

\* The guesses being read are among the ones not recorded.
LEMMA ReadingRecords == ASSUME NEW g PROVE TallyOf(g, Reading) <= TallyOf(g, Recording)
  <1>1. PICK A, B : A = {t \in GateTasks : g[t].at \in Reading} /\ B = {t \in GateTasks : g[t].at \in Recording}
    OBVIOUS
  <1>2. A \subseteq B
    BY <1>1 DEF Reading, Recording
  <1>3. IsFiniteSet(B)
    BY <1>1, TallyIs
  <1>4. Cardinality(A) <= Cardinality(B)
    BY <1>2, <1>3, FS_Subset
  <1> QED
    BY <1>1, <1>4 DEF TallyOf

\* What a budget for every connection and one more allows.
LEMMA BudgetSuffices ==
    ASSUME NEW a \in Nat, NEW h \in Nat, NEW i \in Nat, NEW c \in Nat, NEW m \in Nat, NEW n \in Nat,
           h <= a, i <= a, c <= m, n <= h * m + c + i
    PROVE  n <= (a + 1) * (m + 1)
  <1>1. PICK d \in Nat : a = h + d
    <2>1. a - h \in Nat /\ a = h + (a - h)
      OBVIOUS
    <2> QED
      BY <2>1
  <1>2. PICK x \in Nat, y \in Nat, z \in Nat : x = h * m /\ y = d * m /\ z = a * m
    OBVIOUS
  <1>3. z = x + y
    BY <1>1, <1>2
  <1>4. (a + 1) * (m + 1) = z + a + m + 1
    BY <1>2
  <1> QED
    BY <1>2, <1>3, <1>4

\* The parts of the invariant.
LEMMA LimiterKnown ==
    ASSUME LimiterInv
    PROVE  /\ failures \in Nat /\ window \in Nat /\ lockedUntil \in Nat /\ secs \in Nat /\ secs # 0
           /\ gate \in [GateTasks -> GateRecords] /\ guesses \in GuessRecords /\ guesses.n \in Nat /\ guesses.since \in Nat
           /\ GateClock /\ GuessesPlaced /\ GuessesBounded
           /\ Counted \in Nat /\ Counted <= MaxFailures - 1
  <1>1. failures \in Nat /\ window \in Nat /\ lockedUntil \in Nat /\ secs \in Nat /\ secs # 0
    BY DEF LimiterInv, LimiterTyped
  <1>2. gate \in [GateTasks -> GateRecords] /\ guesses \in GuessRecords
    BY DEF LimiterInv, LimiterTyped
  <1>3. guesses.n \in Nat /\ guesses.since \in Nat
    BY <1>2 DEF GuessRecords
  <1>4. GateClock /\ GuessesPlaced /\ GuessesBounded
    BY DEF LimiterInv
  <1>5. Counted \in Nat /\ Counted <= MaxFailures - 1
    BY <1>1, LimiterConstants DEF Counted
  <1> QED
    BY <1>1, <1>2, <1>3, <1>4, <1>5

\* The bound follows where the guesses are placed, and where they do not grow.
LEMMA BoundKeeps ==
    ASSUME LimiterInv, LimiterTyped', GuessesPlaced',
           guesses'.n <= guesses.n \/ window' = 0 \/ secs' - guesses'.since <= Window
    PROVE  GuessesBounded'
  <1>0. failures' \in Nat /\ window' \in Nat /\ guesses'.n \in Nat /\ guesses'.since \in Nat /\ secs' \in Nat
    BY DEF LimiterTyped, GuessRecords
  <1>1. PICK a \in Nat, m \in Nat : a = Cardinality(GateTasks) /\ m = MaxFailures - 1 /\ m + 1 = MaxFailures
    BY LimiterConstants
  <1>2. PICK h \in Nat, i \in Nat, r \in Nat : /\ h = TallyOf(gate', Harmless) /\ i = TallyOf(gate', Recording)
                                               /\ r = TallyOf(gate', Reading) /\ h <= a /\ i <= a /\ r <= i
    BY <1>1, TallyIs, ReadingRecords
  <1>3. PICK c \in Nat : c = Counted' /\ c <= m
    <2>1. Counted' \in Nat /\ Counted' <= m
      BY <1>0, <1>1 DEF Counted
    <2> QED
      BY <2>1
  <1>4. PICK n \in Nat : n = guesses'.n
    BY <1>0
  <1>5. PICK x \in Nat : x = h * m
    OBVIOUS
  <1>6. CASE n <= x + c + i
    <2>1. n <= h * m + c + i
      BY <1>5, <1>6
    <2>2. n <= (a + 1) * (m + 1)
      BY <1>2, <1>3, <2>1, BudgetSuffices
    <2> QED
      BY <1>1, <1>4, <2>2 DEF GuessesBounded
  <1>7. CASE guesses'.n <= guesses.n
    <2>1. guesses.n <= (a + 1) * (m + 1)
      BY <1>1, LimiterKnown DEF GuessesBounded
    <2>2. PICK b \in Nat : b = (a + 1) * (m + 1)
      OBVIOUS
    <2>3. n <= b
      BY <1>4, <1>7, <2>1, <2>2, LimiterKnown
    <2> QED
      BY <1>1, <1>4, <2>2, <2>3 DEF GuessesBounded
  <1>8. CASE window' = 0
    <2>1. n <= r
      BY <1>2, <1>4, <1>8 DEF GuessesPlaced
    <2> QED
      BY <1>2, <1>6, <2>1
  <1>9. CASE window' # 0 /\ secs' - guesses'.since <= Window
    <2>1. n <= c + i \/ n <= x + c + i
      BY <1>0, <1>1, <1>2, <1>3, <1>4, <1>5, <1>9 DEF GuessesPlaced
    <2> QED
      BY <1>6, <2>1
  <1> QED
    BY <1>7, <1>8, <1>9

-----------------------------------------------------------------------------
(* The accesses. *)

\* One connection moves: the map of them and the tallies.
LEMMA GateMoves ==
    ASSUME LimiterInv, NEW t \in GateTasks, NEW r \in GateRecords, gate' = [gate EXCEPT ![t] = r]
    PROVE  /\ gate' \in [GateTasks -> GateRecords] /\ gate'[t] = r /\ \A u \in GateTasks : u # t => gate'[u] = gate[u]
           /\ \A S : TallyOf(gate', S) + Unit(gate[t].at \in S) = TallyOf(gate, S) + Unit(r.at \in S)
  <1>1. gate' \in [GateTasks -> GateRecords] /\ gate'[t] = r /\ \A u \in GateTasks : u # t => gate'[u] = gate[u]
    BY LimiterKnown
  <1>2. ASSUME NEW S PROVE TallyOf(gate', S) + Unit(gate[t].at \in S) = TallyOf(gate, S) + Unit(r.at \in S)
    <2>1. PICK g, h : g = gate /\ h = gate'
      OBVIOUS
    <2>2. \A u \in GateTasks : u # t => h[u] = g[u]
      BY <1>1, <2>1
    <2>3. TallyOf(h, S) + Unit(g[t].at \in S) = TallyOf(g, S) + Unit(h[t].at \in S)
      BY <2>2, TallyMoves
    <2> QED
      BY <1>1, <2>1, <2>3
  <1> QED
    BY <1>1, <1>2

\* A connection that goes on to its next access keeps the time it read.
LEMMA GoesIs ==
    ASSUME LimiterInv, NEW t \in GateTasks, NEW x \in {"rest", "compare", "load", "open", "first", "count", "lock", "zero", "close"},
           GateGoes(t, x)
    PROVE  \E r \in GateRecords : r.at = x /\ r.now = gate[t].now /\ gate' = [gate EXCEPT ![t] = r]
  <1>1. PICK q \in GateRecords : q = gate[t]
    BY LimiterKnown
  <1>2. PICK r : r = [q EXCEPT !.at = x]
    OBVIOUS
  <1>3. r \in GateRecords /\ r.at = x /\ r.now = q.now
    BY <1>2 DEF GateRecords
  <1>4. gate' = [gate EXCEPT ![t] = r]
    BY <1>1, <1>2 DEF GateGoes
  <1> QED
    BY <1>1, <1>3, <1>4

\* A connection at rest.
LEMMA RestingIs == Resting \in GateRecords /\ Resting.at = "rest"
  BY DEF Resting, GateRecords

\* The guesses start over: after a correct password, and with a lockout.
LEMMA StartsOver ==
    ASSUME LimiterInv, NEW t \in GateTasks, NEW r \in GateRecords, gate' = [gate EXCEPT ![t] = r], r.at \notin Recording,
           guesses' = [n |-> 0, since |-> secs], secs' = secs, window' = window \/ window' = 0, failures' \in Nat,
           lockedUntil' \in Nat
    PROVE  LimiterInv'
  <1>1. gate' \in [GateTasks -> GateRecords] /\ gate'[t] = r /\ \A u \in GateTasks : u # t => gate'[u] = gate[u]
    BY GateMoves
  <1>2. guesses' \in GuessRecords /\ guesses'.n = 0 /\ guesses'.since = secs
    BY LimiterKnown DEF GuessRecords
  <1>3. window' \in Nat /\ window' <= secs
    BY LimiterKnown DEF GateClock
  <1>4. LimiterTyped'
    BY <1>1, <1>2, <1>3, LimiterKnown DEF LimiterTyped
  <1>5. GateClock'
    <2>1. secs - secs <= Window /\ secs <= secs
      BY LimiterKnown, LimiterConstants
    <2>2. ASSUME NEW u \in GateTasks, gate'[u].at \in Recording PROVE gate'[u].now = secs
      BY <1>1, <2>2, LimiterKnown DEF GateClock
    <2>3. ASSUME NEW u \in GateTasks, gate'[u].at = "first" PROVE window' \in {0, secs}
      BY <1>1, <2>3, LimiterKnown DEF GateClock, Recording
    <2> QED
      BY <1>2, <1>3, <2>1, <2>2, <2>3 DEF GateClock
  <1>6. GuessesPlaced'
    <2>1. PICK h \in Nat, i \in Nat, k \in Nat : h = TallyOf(gate', Harmless) /\ i = TallyOf(gate', Recording) /\ k = TallyOf(gate', Reading)
      BY TallyIs
    <2>2. Counted' \in Nat
      BY LimiterConstants DEF Counted
    <2>3. PICK m \in Nat : m = MaxFailures - 1
      BY LimiterConstants
    <2>4. PICK x \in Nat : x = h * m
      OBVIOUS
    <2>5. 0 <= k /\ 0 <= Counted' + i /\ 0 <= x + Counted' + i
      BY <2>1, <2>2, <2>4
    <2> QED
      BY <1>2, <2>1, <2>3, <2>4, <2>5 DEF GuessesPlaced
  <1>7. GuessesBounded'
    BY <1>2, <1>4, <1>6, LimiterKnown, BoundKeeps
  <1> QED
    BY <1>4, <1>5, <1>6, <1>7 DEF LimiterInv

\* The two stores of a correct password, and the lockout.
LEMMA StartsOverKeeps ==
    ASSUME LimiterInv, NEW t \in GateTasks, ZeroesFailures(t) \/ ClosesWindow(t) \/ LocksFor(t) PROVE LimiterInv'
  <1>1. CASE ZeroesFailures(t)
    <2>1. PICK r \in GateRecords : r.at = "close" /\ gate' = [gate EXCEPT ![t] = r]
      BY <1>1, GoesIs DEF ZeroesFailures
    <2>2. r.at \notin Recording
      BY <2>1 DEF Recording
    <2>3. /\ guesses' = [n |-> 0, since |-> secs] /\ secs' = secs /\ window' = window /\ failures' \in Nat
          /\ lockedUntil' \in Nat
      BY <1>1, LimiterKnown DEF ZeroesFailures
    <2> QED
      BY <2>1, <2>2, <2>3, StartsOver
  <1>2. CASE ClosesWindow(t) \/ LocksFor(t)
    <2>1. PICK r \in GateRecords : r = Resting /\ r.at = "rest"
      BY RestingIs
    <2>2. gate' = [gate EXCEPT ![t] = r]
      BY <1>2, <2>1 DEF ClosesWindow, LocksFor, GateRests
    <2>3. r.at \notin Recording
      BY <2>1 DEF Recording
    <2>4. gate[t].now \in Nat
      BY LimiterKnown DEF GateRecords
    <2>5. /\ guesses' = [n |-> 0, since |-> secs] /\ secs' = secs /\ (window' = window \/ window' = 0) /\ failures' \in Nat
          /\ lockedUntil' \in Nat
      BY <1>2, <2>4, LimiterKnown, LimiterConstants DEF ClosesWindow, LocksFor
    <2> QED
      BY <2>2, <2>3, <2>5, StartsOver
  <1> QED
    BY <1>1, <1>2

\* The three tallies of one step, as numbers.
LEMMA Tallies ==
    ASSUME LimiterInv, NEW t \in GateTasks, NEW r \in GateRecords, gate' = [gate EXCEPT ![t] = r]
    PROVE  \E h, i, k, h2, i2, k2 \in Nat :
             /\ h = TallyOf(gate, Harmless) /\ i = TallyOf(gate, Recording) /\ k = TallyOf(gate, Reading) /\ k <= i
             /\ h2 = TallyOf(gate', Harmless) /\ i2 = TallyOf(gate', Recording) /\ k2 = TallyOf(gate', Reading) /\ k2 <= i2
             /\ h2 + Unit(gate[t].at \in Harmless) = h + Unit(r.at \in Harmless)
             /\ i2 + Unit(gate[t].at \in Recording) = i + Unit(r.at \in Recording)
             /\ k2 + Unit(gate[t].at \in Reading) = k + Unit(r.at \in Reading)
  <1> DEFINE P(a, b, c, d, e, f) ==
               /\ a = TallyOf(gate, Harmless) /\ b = TallyOf(gate, Recording) /\ c = TallyOf(gate, Reading) /\ c <= b
               /\ d = TallyOf(gate', Harmless) /\ e = TallyOf(gate', Recording) /\ f = TallyOf(gate', Reading) /\ f <= e
               /\ d + Unit(gate[t].at \in Harmless) = a + Unit(r.at \in Harmless)
               /\ e + Unit(gate[t].at \in Recording) = b + Unit(r.at \in Recording)
               /\ f + Unit(gate[t].at \in Reading) = c + Unit(r.at \in Reading)
  <1> SUFFICES \E h, i, k, h2, i2, k2 \in Nat : P(h, i, k, h2, i2, k2)
    OBVIOUS
  <1>1. PICK h \in Nat, i \in Nat, k \in Nat :
          h = TallyOf(gate, Harmless) /\ i = TallyOf(gate, Recording) /\ k = TallyOf(gate, Reading) /\ k <= i
    BY TallyIs, ReadingRecords
  <1>2. PICK h2 \in Nat, i2 \in Nat, k2 \in Nat :
          h2 = TallyOf(gate', Harmless) /\ i2 = TallyOf(gate', Recording) /\ k2 = TallyOf(gate', Reading) /\ k2 <= i2
    BY TallyIs, ReadingRecords
  <1>3. /\ h2 + Unit(gate[t].at \in Harmless) = h + Unit(r.at \in Harmless)
        /\ i2 + Unit(gate[t].at \in Recording) = i + Unit(r.at \in Recording)
        /\ k2 + Unit(gate[t].at \in Reading) = k + Unit(r.at \in Reading)
    BY <1>1, <1>2, GateMoves, ZenonT(40)
  <1>4. h \in Nat /\ i \in Nat /\ k \in Nat /\ h2 \in Nat /\ i2 \in Nat /\ k2 \in Nat
    BY <1>1, <1>2
  <1>5. P(h, i, k, h2, i2, k2)
    BY <1>1, <1>2, <1>3
  <1> HIDE DEF P
  <1> QED
    BY <1>4, <1>5

\* The clock, when one connection moves within a tick.
LEMMA ClockMoves ==
    ASSUME LimiterInv, NEW t \in GateTasks, NEW r \in GateRecords, gate' = [gate EXCEPT ![t] = r], secs' = secs,
           guesses'.since = guesses.since \/ guesses'.since = secs, window' = window \/ window' = secs,
           r.at \in Recording => r.now = secs /\ secs - guesses'.since <= Window, r.at = "first" => window' = secs
    PROVE  GateClock'
  <1>1. gate' \in [GateTasks -> GateRecords] /\ gate'[t] = r /\ \A u \in GateTasks : u # t => gate'[u] = gate[u]
    BY GateMoves
  <1>2. guesses'.since <= secs /\ window' <= secs /\ secs - secs <= Window
    BY LimiterKnown, LimiterConstants DEF GateClock
  <1>3. ASSUME NEW u \in GateTasks, gate'[u].at \in Recording PROVE gate'[u].now = secs /\ secs - guesses'.since <= Window
    BY <1>1, <1>2, <1>3, LimiterKnown DEF GateClock
  <1>4. ASSUME NEW u \in GateTasks, gate'[u].at = "first" PROVE window' \in {0, secs}
    BY <1>1, <1>4, LimiterKnown DEF GateClock
  <1> QED
    BY <1>2, <1>3, <1>4 DEF GateClock

\* A move that counts nothing and loses nothing.
LEMMA QuietMoves ==
    ASSUME LimiterInv, NEW t \in GateTasks, NEW r \in GateRecords, gate' = [gate EXCEPT ![t] = r],
           UNCHANGED <<failures, window, secs, guesses>>, lockedUntil' \in Nat,
           r.at \in Recording => gate[t].at \in Recording /\ r.now = gate[t].now, r.at # "first",
           gate[t].at \in Recording => r.at \in Recording, window = 0 /\ gate[t].at \in Reading => r.at \in Reading,
           window # 0 /\ window >= guesses.since /\ gate[t].at \in Harmless => r.at \in Harmless
    PROVE  LimiterInv'
  <1>1. PICK h, i, k, h2, i2, k2 \in Nat :
             /\ h = TallyOf(gate, Harmless) /\ i = TallyOf(gate, Recording) /\ k = TallyOf(gate, Reading) /\ k <= i
             /\ h2 = TallyOf(gate', Harmless) /\ i2 = TallyOf(gate', Recording) /\ k2 = TallyOf(gate', Reading) /\ k2 <= i2
             /\ h2 + Unit(gate[t].at \in Harmless) = h + Unit(r.at \in Harmless)
             /\ i2 + Unit(gate[t].at \in Recording) = i + Unit(r.at \in Recording)
             /\ k2 + Unit(gate[t].at \in Reading) = k + Unit(r.at \in Reading)
    BY Tallies
  <1>2. i2 = i
    BY <1>1 DEF Unit
  <1>3. window = 0 => k <= k2
    BY <1>1 DEF Unit
  <1>4. window # 0 /\ window >= guesses.since => h <= h2
    BY <1>1 DEF Unit
  <1>5. LimiterTyped'
    BY GateMoves, LimiterKnown DEF LimiterTyped
  <1>6. GateClock'
    <2>1. r.at \in Recording => r.now = secs /\ secs - guesses.since <= Window
      BY LimiterKnown DEF GateClock
    <2> QED
      BY <2>1, ClockMoves
  <1>7. GuessesPlaced'
    <2>1. PICK m \in Nat : m = MaxFailures - 1
      BY LimiterConstants
    <2>2. window = 0 => guesses.n <= k2
      BY <1>1, <1>3, LimiterKnown DEF GuessesPlaced
    <2>3. window # 0 /\ secs - guesses.since <= Window /\ window < guesses.since => guesses.n <= Counted + i2
      BY <1>1, <1>2, LimiterKnown DEF GuessesPlaced
    <2>4. ASSUME window # 0, secs - guesses.since <= Window, window >= guesses.since PROVE guesses.n <= h2 * m + Counted + i2
      <3>1. guesses.n <= h * m + Counted + i
        BY <1>1, <2>1, <2>4, LimiterKnown DEF GuessesPlaced
      <3>2. PICK d \in Nat : h2 = h + d
        <4>1. h2 - h \in Nat /\ h2 = h + (h2 - h)
          BY <1>4, <2>4
        <4> QED
          BY <4>1
      <3>3. PICK x \in Nat, y \in Nat, z \in Nat : x = h * m /\ y = d * m /\ z = h2 * m
        OBVIOUS
      <3>4. z = x + y
        BY <3>2, <3>3
      <3>5. guesses.n <= z + Counted + i2
        BY <1>2, <3>1, <3>3, <3>4, LimiterKnown
      <3> QED
        BY <3>3, <3>5
    <2>5. Counted' = Counted
      BY DEF Counted
    <2> QED
      BY <1>1, <2>1, <2>2, <2>3, <2>4, <2>5 DEF GuessesPlaced
  <1>8. GuessesBounded'
    BY LimiterKnown DEF GuessesBounded
  <1> QED
    BY <1>5, <1>6, <1>7, <1>8 DEF LimiterInv

\* An attempt is allowed.
LEMMA LimiterChecksKeeps == ASSUME LimiterInv, NEW t \in GateTasks, LimiterChecks(t) PROVE LimiterInv'
  <1>1. PICK r \in GateRecords : r.at = "compare" /\ gate' = [gate EXCEPT ![t] = r]
    BY GoesIs DEF LimiterChecks
  <1>2. gate[t].at = "rest" /\ UNCHANGED <<failures, window, secs, guesses>> /\ lockedUntil' \in Nat
    BY LimiterKnown DEF LimiterChecks, GateAt, Atomics
  <1>3. r.at \notin Recording /\ gate[t].at \notin Recording /\ gate[t].at \notin Reading /\ r.at \in Harmless /\ r.at # "first"
    BY <1>1, <1>2 DEF Recording, Reading, Harmless
  <1> QED
    BY <1>1, <1>2, <1>3, QuietMoves

\* The window is read: nobody opens one that is as young as the guesses.
LEMMA LoadsWindowKeeps == ASSUME LimiterInv, NEW t \in GateTasks, LoadsWindow(t) PROVE LimiterInv'
  <1>1. gate[t].at = "load" /\ UNCHANGED <<failures, window, secs, guesses>> /\ lockedUntil' \in Nat
    BY LimiterKnown DEF LoadsWindow, GateAt, Atomics
  <1>2. gate[t].at \in Recording /\ gate[t].at \in Reading
    BY <1>1 DEF Recording, Reading
  <1>3. gate[t].now = secs /\ secs - guesses.since <= Window
    BY <1>2, LimiterKnown DEF GateClock
  <1>4. PICK x \in {"open", "count"} :
          /\ x = IF window = 0 \/ (gate[t].now > window /\ gate[t].now - window > Window) THEN "open" ELSE "count"
          /\ GateGoes(t, x)
    BY DEF LoadsWindow
  <1>5. window = 0 => x = "open"
    BY <1>4
  <1>6. window # 0 /\ window >= guesses.since => x = "count"
    BY <1>3, <1>4, LimiterKnown, LimiterConstants
  <1>7. PICK r \in GateRecords : r.at = x /\ r.now = gate[t].now /\ gate' = [gate EXCEPT ![t] = r]
    BY <1>4, GoesIs
  <1>8. r.at \in Recording /\ r.at # "first"
    BY <1>7 DEF Recording
  <1>9. window = 0 => r.at \in Reading
    BY <1>5, <1>7 DEF Reading
  <1>10. window # 0 /\ window >= guesses.since => r.at \in Harmless
    BY <1>6, <1>7 DEF Harmless
  <1> QED
    BY <1>1, <1>2, <1>7, <1>8, <1>9, <1>10, QuietMoves

\* The comparison: a correct credential counts nothing ...
LEMMA ComparesRightKeeps == ASSUME LimiterInv, NEW t \in GateTasks, Compares(t, TRUE) PROVE LimiterInv'
  <1>1. PICK r \in GateRecords : r = [at |-> "zero", now |-> secs] /\ r.at = "zero"
    <2>1. [at |-> "zero", now |-> secs] \in GateRecords /\ [at |-> "zero", now |-> secs].at = "zero"
      BY LimiterKnown DEF GateRecords
    <2> QED
      BY <2>1
  <1>2. gate' = [gate EXCEPT ![t] = r] /\ gate[t].at = "compare" /\ UNCHANGED <<failures, window, secs, guesses>>
    BY <1>1 DEF Compares, GateAt, Atomics
  <1>3. lockedUntil' \in Nat
    BY LimiterKnown DEF Compares, Atomics
  <1>4. r.at \notin Recording /\ gate[t].at \notin Recording /\ gate[t].at \notin Reading /\ r.at \in Harmless /\ r.at # "first"
    BY <1>1, <1>2 DEF Recording, Reading, Harmless
  <1> QED
    BY <1>2, <1>3, <1>4, QuietMoves

\* ... a wrong one is one more guess, and one more to record.
LEMMA ComparesWrongKeeps == ASSUME LimiterInv, NEW t \in GateTasks, Compares(t, FALSE) PROVE LimiterInv'
  <1>1. PICK r \in GateRecords : r = [at |-> "load", now |-> secs] /\ r.at = "load" /\ r.now = secs
    <2>1. /\ [at |-> "load", now |-> secs] \in GateRecords /\ [at |-> "load", now |-> secs].at = "load"
          /\ [at |-> "load", now |-> secs].now = secs
      BY LimiterKnown DEF GateRecords
    <2> QED
      BY <2>1
  <1>2. /\ gate' = [gate EXCEPT ![t] = r] /\ gate[t].at = "compare" /\ UNCHANGED <<failures, window, secs>>
        /\ lockedUntil' = lockedUntil
    BY <1>1 DEF Compares, GateAt, Atomics
  <1>3. /\ r.at \in Recording /\ gate[t].at \notin Recording /\ gate[t].at \notin Reading /\ r.at \in Reading
        /\ r.at \in Harmless /\ gate[t].at \in Harmless /\ r.at # "first"
    BY <1>1, <1>2 DEF Recording, Reading, Harmless
  <1>4. PICK h, i, k, h2, i2, k2 \in Nat :
             /\ h = TallyOf(gate, Harmless) /\ i = TallyOf(gate, Recording) /\ k = TallyOf(gate, Reading) /\ k <= i
             /\ h2 = TallyOf(gate', Harmless) /\ i2 = TallyOf(gate', Recording) /\ k2 = TallyOf(gate', Reading) /\ k2 <= i2
             /\ h2 + Unit(gate[t].at \in Harmless) = h + Unit(r.at \in Harmless)
             /\ i2 + Unit(gate[t].at \in Recording) = i + Unit(r.at \in Recording)
             /\ k2 + Unit(gate[t].at \in Reading) = k + Unit(r.at \in Reading)
    BY <1>2, Tallies
  <1>5. i2 = i + 1 /\ k2 = k + 1 /\ h2 = h
    BY <1>3, <1>4 DEF Unit
  <1>6. /\ guesses' \in GuessRecords /\ guesses'.n \in Nat
        /\ \/ guesses'.n = 1 /\ guesses'.since = secs
           \/ guesses'.n = guesses.n + 1 /\ guesses'.since = guesses.since /\ secs - guesses.since <= Window
    <2>1. CASE guesses.n = 0 \/ secs - guesses.since > Window
      <3>1. guesses' = [n |-> 1, since |-> secs]
        BY <2>1 DEF Compares
      <3> QED
        BY <3>1, LimiterKnown DEF GuessRecords
    <2>2. CASE ~(guesses.n = 0 \/ secs - guesses.since > Window)
      <3>1. PICK n \in Nat : n = guesses.n + 1
        BY LimiterKnown
      <3>2. guesses' = [guesses EXCEPT !.n = n]
        BY <2>2, <3>1 DEF Compares
      <3>3. guesses' \in GuessRecords /\ guesses'.n = n /\ guesses'.since = guesses.since
        BY <3>2, LimiterKnown DEF GuessRecords
      <3>4. secs - guesses.since <= Window
        BY <2>2, LimiterKnown, LimiterConstants
      <3> QED
        BY <3>1, <3>3, <3>4
    <2> QED
      BY <2>1, <2>2
  <1>7. LimiterTyped'
    BY <1>2, <1>6, GateMoves, LimiterKnown DEF LimiterTyped
  <1>8. secs - guesses'.since <= Window
    BY <1>6, LimiterKnown, LimiterConstants
  <1>9. GateClock'
    BY <1>1, <1>2, <1>3, <1>6, <1>8, ClockMoves
  <1>10. GuessesPlaced'
    <2>1. PICK m \in Nat : m = MaxFailures - 1
      BY LimiterConstants
    <2>2. PICK x \in Nat : x = h * m
      OBVIOUS
    <2>3. PICK c \in Nat : c = Counted /\ c = Counted'
      BY <1>2, LimiterKnown DEF Counted
    <2>4. window = 0 => guesses'.n <= k2
      BY <1>4, <1>5, <1>6, LimiterKnown DEF GuessesPlaced
    <2>5. window # 0 /\ window < guesses'.since => guesses'.n <= c + i2
      BY <1>4, <1>5, <1>6, <2>3, LimiterKnown DEF GuessesPlaced
    <2>6. window # 0 /\ window >= guesses'.since => guesses'.n <= x + c + i2
      BY <1>4, <1>5, <1>6, <2>1, <2>2, <2>3, LimiterKnown DEF GuessesPlaced
    <2> QED
      BY <1>2, <1>4, <1>5, <2>1, <2>2, <2>3, <2>4, <2>5, <2>6 DEF GuessesPlaced
  <1>11. GuessesBounded'
    BY <1>2, <1>7, <1>8, <1>10, BoundKeeps
  <1> QED
    BY <1>7, <1>9, <1>10, <1>11 DEF LimiterInv

\* The window is opened: from here on it is as young as the guesses.
LEMMA OpensWindowKeeps == ASSUME LimiterInv, NEW t \in GateTasks, OpensWindow(t) PROVE LimiterInv'
  <1>1. PICK r \in GateRecords : r.at = "first" /\ r.now = gate[t].now /\ gate' = [gate EXCEPT ![t] = r]
    BY GoesIs DEF OpensWindow
  <1>2. gate[t].at = "open" /\ window' = gate[t].now /\ UNCHANGED <<failures, secs, guesses>> /\ lockedUntil' = lockedUntil
    BY DEF OpensWindow, GateAt
  <1>3. r.at \in Recording /\ gate[t].at \in Recording /\ r.at \notin Harmless /\ gate[t].at \notin Harmless
    BY <1>1, <1>2 DEF Recording, Harmless
  <1>4. gate[t].now = secs /\ secs - guesses.since <= Window /\ window' = secs /\ secs >= guesses.since
    BY <1>2, <1>3, LimiterKnown DEF GateClock
  <1>5. PICK h, i, k, h2, i2, k2 \in Nat :
             /\ h = TallyOf(gate, Harmless) /\ i = TallyOf(gate, Recording) /\ k = TallyOf(gate, Reading) /\ k <= i
             /\ h2 = TallyOf(gate', Harmless) /\ i2 = TallyOf(gate', Recording) /\ k2 = TallyOf(gate', Reading) /\ k2 <= i2
             /\ h2 + Unit(gate[t].at \in Harmless) = h + Unit(r.at \in Harmless)
             /\ i2 + Unit(gate[t].at \in Recording) = i + Unit(r.at \in Recording)
             /\ k2 + Unit(gate[t].at \in Reading) = k + Unit(r.at \in Reading)
    BY <1>1, Tallies
  <1>6. h2 = h /\ i2 = i
    BY <1>3, <1>5 DEF Unit
  <1>7. LimiterTyped'
    BY <1>1, <1>2, <1>4, GateMoves, LimiterKnown DEF LimiterTyped
  <1>8. GateClock'
    BY <1>1, <1>2, <1>4, ClockMoves
  <1>9. GuessesPlaced'
    <2>1. PICK m \in Nat : m = MaxFailures - 1
      BY LimiterConstants
    <2>2. PICK x \in Nat : x = h * m
      OBVIOUS
    <2>3. PICK c \in Nat : c = Counted /\ c = Counted'
      BY <1>2, LimiterKnown DEF Counted
    <2>4. guesses.n <= k \/ guesses.n <= c + i \/ guesses.n <= x + c + i
      <3>1. window = 0 => guesses.n <= k
        BY <1>5, LimiterKnown DEF GuessesPlaced
      <3>2. window # 0 /\ window < guesses.since => guesses.n <= c + i
        BY <1>4, <1>5, <2>3, LimiterKnown DEF GuessesPlaced
      <3>3. window # 0 /\ window >= guesses.since => guesses.n <= x + c + i
        BY <1>4, <1>5, <2>1, <2>2, <2>3, LimiterKnown DEF GuessesPlaced
      <3> QED
        BY <3>1, <3>2, <3>3, LimiterKnown
    <2>5. guesses.n <= x + c + i
      BY <1>5, <2>4, LimiterKnown
    <2>6. window' # 0 /\ ~(window' < guesses.since)
      BY <1>4, LimiterKnown
    <2> QED
      BY <1>2, <1>5, <1>6, <2>1, <2>2, <2>3, <2>5, <2>6 DEF GuessesPlaced
  <1>10. GuessesBounded'
    BY <1>2, <1>4, <1>7, <1>9, BoundKeeps
  <1> QED
    BY <1>7, <1>8, <1>9, <1>10 DEF LimiterInv

\* The count starts at one: what it held is lost, and this connection loses nothing more.
LEMMA CountsFirstKeeps == ASSUME LimiterInv, NEW t \in GateTasks, CountsFirst(t) PROVE LimiterInv'
  <1>1. PICK r \in GateRecords : r = Resting /\ r.at = "rest"
    BY RestingIs
  <1>2. /\ gate' = [gate EXCEPT ![t] = r] /\ gate[t].at = "first" /\ failures' = 1 /\ UNCHANGED <<window, secs, guesses>>
        /\ lockedUntil' = lockedUntil
    BY <1>1 DEF CountsFirst, GateRests, GateAt
  <1>3. /\ r.at \notin Recording /\ gate[t].at \in Recording /\ r.at \in Harmless /\ gate[t].at \notin Harmless
        /\ r.at \notin Reading /\ gate[t].at \notin Reading /\ r.at # "first"
    BY <1>1, <1>2 DEF Recording, Harmless, Reading
  <1>4. window \in {0, secs} /\ secs - guesses.since <= Window /\ secs >= guesses.since
    BY <1>2, <1>3, LimiterKnown DEF GateClock
  <1>5. PICK h, i, k, h2, i2, k2 \in Nat :
             /\ h = TallyOf(gate, Harmless) /\ i = TallyOf(gate, Recording) /\ k = TallyOf(gate, Reading) /\ k <= i
             /\ h2 = TallyOf(gate', Harmless) /\ i2 = TallyOf(gate', Recording) /\ k2 = TallyOf(gate', Reading) /\ k2 <= i2
             /\ h2 + Unit(gate[t].at \in Harmless) = h + Unit(r.at \in Harmless)
             /\ i2 + Unit(gate[t].at \in Recording) = i + Unit(r.at \in Recording)
             /\ k2 + Unit(gate[t].at \in Reading) = k + Unit(r.at \in Reading)
    BY <1>2, Tallies
  <1>6. h2 = h + 1 /\ i2 + 1 = i /\ k2 = k
    BY <1>3, <1>5 DEF Unit
  <1>7. LimiterTyped'
    BY <1>2, GateMoves, LimiterKnown DEF LimiterTyped
  <1>8. GateClock'
    BY <1>2, <1>3, ClockMoves
  <1>9. GuessesPlaced'
    <2>1. PICK m \in Nat : m = MaxFailures - 1 /\ m >= 1
      BY LimiterConstants
    <2>2. PICK x \in Nat, y \in Nat : x = h * m /\ y = h2 * m
      OBVIOUS
    <2>3. y = x + m
      BY <1>6, <2>2
    <2>4. PICK c \in Nat : c = Counted /\ c <= m
      BY <2>1, LimiterKnown
    <2>5. Counted' = 1
      BY <1>2, LimiterConstants DEF Counted
    <2>6. window = 0 => guesses.n <= k2
      BY <1>5, <1>6, LimiterKnown DEF GuessesPlaced
    <2>7. ASSUME window # 0 PROVE guesses.n <= y + 1 + i2
      <3>1. window >= guesses.since
        BY <1>4, <2>7, LimiterKnown
      <3>2. guesses.n <= x + c + i
        BY <1>4, <1>5, <2>1, <2>2, <2>4, <2>7, <3>1, LimiterKnown DEF GuessesPlaced
      <3> QED
        BY <1>6, <2>3, <2>4, <3>2, LimiterKnown
    <2>8. window # 0 => ~(window < guesses.since)
      BY <1>4, LimiterKnown
    <2> QED
      BY <1>2, <1>5, <2>1, <2>2, <2>5, <2>6, <2>7, <2>8 DEF GuessesPlaced
  <1>10. GuessesBounded'
    BY <1>2, <1>4, <1>7, <1>9, BoundKeeps
  <1> QED
    BY <1>7, <1>8, <1>9, <1>10 DEF LimiterInv

\* One more in the count.
LEMMA CountsKeeps == ASSUME LimiterInv, NEW t \in GateTasks, Counts(t) PROVE LimiterInv'
  <1>0. /\ gate[t].at = "count" /\ failures' = failures + 1 /\ failures' \in Nat /\ UNCHANGED <<window, secs, guesses>>
        /\ lockedUntil' = lockedUntil
    BY LimiterKnown DEF Counts, GateAt
  <1>1. PICK r \in GateRecords : /\ gate' = [gate EXCEPT ![t] = r]
                                 /\ IF failures + 1 >= MaxFailures THEN r.at = "lock" /\ r.now = gate[t].now ELSE r.at = "rest"
    <2>1. CASE failures + 1 >= MaxFailures
      BY <2>1, GoesIs DEF Counts
    <2>2. CASE ~(failures + 1 >= MaxFailures)
      BY <2>2, RestingIs DEF Counts, GateRests
    <2> QED
      BY <2>1, <2>2
  <1>2. gate[t].at \in Recording /\ gate[t].at \in Harmless /\ gate[t].at \notin Reading
    BY <1>0 DEF Recording, Harmless, Reading
  <1>3. /\ r.at \in Harmless /\ r.at \notin Reading /\ r.at # "first"
        /\ r.at \in Recording <=> failures + 1 >= MaxFailures
    BY <1>1 DEF Harmless, Reading, Recording
  <1>4. gate[t].now = secs /\ secs - guesses.since <= Window
    BY <1>2, LimiterKnown DEF GateClock
  <1>5. PICK h, i, k, h2, i2, k2 \in Nat :
             /\ h = TallyOf(gate, Harmless) /\ i = TallyOf(gate, Recording) /\ k = TallyOf(gate, Reading) /\ k <= i
             /\ h2 = TallyOf(gate', Harmless) /\ i2 = TallyOf(gate', Recording) /\ k2 = TallyOf(gate', Reading) /\ k2 <= i2
             /\ h2 + Unit(gate[t].at \in Harmless) = h + Unit(r.at \in Harmless)
             /\ i2 + Unit(gate[t].at \in Recording) = i + Unit(r.at \in Recording)
             /\ k2 + Unit(gate[t].at \in Reading) = k + Unit(r.at \in Reading)
    BY <1>1, Tallies
  <1>6. h2 = h /\ k2 = k /\ i2 = IF failures + 1 >= MaxFailures THEN i ELSE i - 1
    BY <1>2, <1>3, <1>5 DEF Unit
  <1>7. LimiterTyped'
    BY <1>0, <1>1, GateMoves, LimiterKnown DEF LimiterTyped
  <1>8. GateClock'
    <2>1. r.at \in Recording => r.now = secs /\ secs - guesses.since <= Window
      BY <1>1, <1>3, <1>4
    <2> QED
      BY <1>0, <1>1, <1>3, <2>1, ClockMoves
  <1>9. GuessesPlaced'
    <2>1. PICK m \in Nat : m = MaxFailures - 1
      BY LimiterConstants
    <2>2. PICK x \in Nat : x = h * m
      OBVIOUS
    <2>3. PICK c \in Nat, d \in Nat : c = Counted /\ d = Counted' /\ c + i <= d + i2
      <3>1. Counted' \in Nat /\ Counted + i <= Counted' + i2
        BY <1>0, <1>6, LimiterKnown, LimiterConstants DEF Counted
      <3> QED
        BY <3>1, LimiterKnown
    <2>4. window = 0 => guesses.n <= k2
      BY <1>5, <1>6, LimiterKnown DEF GuessesPlaced
    <2>5. window # 0 /\ window < guesses.since => guesses.n <= d + i2
      <3>1. window # 0 /\ window < guesses.since => guesses.n <= c + i
        BY <1>4, <1>5, <2>3, LimiterKnown DEF GuessesPlaced
      <3>2. PICK n \in Nat : n = guesses.n
        BY LimiterKnown
      <3>3. n <= c + i => n <= d + i2
        BY <1>5, <2>3
      <3> QED
        BY <3>1, <3>2, <3>3
    <2>6. window # 0 /\ window >= guesses.since => guesses.n <= x + d + i2
      <3>1. window # 0 /\ window >= guesses.since => guesses.n <= x + c + i
        BY <1>4, <1>5, <2>1, <2>2, <2>3, LimiterKnown DEF GuessesPlaced
      <3>2. PICK n \in Nat : n = guesses.n
        BY LimiterKnown
      <3>3. n <= x + c + i => n <= x + d + i2
        BY <1>5, <2>3
      <3> QED
        BY <3>1, <3>2, <3>3
    <2> QED
      BY <1>0, <1>5, <1>6, <2>1, <2>2, <2>3, <2>4, <2>5, <2>6 DEF GuessesPlaced
  <1>10. GuessesBounded'
    BY <1>0, LimiterKnown DEF GuessesBounded
  <1> QED
    BY <1>7, <1>8, <1>9, <1>10 DEF LimiterInv

\* Time passes between attempts.
LEMMA LimiterTickKeeps == ASSUME LimiterInv, LimiterTick PROVE LimiterInv'
  <1>1. secs' = secs + 1 /\ UNCHANGED <<failures, window, lockedUntil, gate, guesses>> /\ \A t \in GateTasks : gate[t].at = "rest"
    BY DEF LimiterTick, Atomics, GateAt
  <1>2. LimiterTyped'
    BY <1>1, LimiterKnown DEF LimiterTyped
  <1>3. GateClock'
    <2>1. guesses.since <= secs + 1 /\ window <= secs + 1
      BY LimiterKnown DEF GateClock
    <2> QED
      BY <1>1, <2>1 DEF GateClock, Recording
  <1>4. GuessesPlaced'
    <2>1. secs + 1 - guesses.since <= Window => secs - guesses.since <= Window
      BY LimiterKnown, LimiterConstants
    <2>2. Counted' = Counted
      BY <1>1 DEF Counted
    <2> QED
      BY <1>1, <2>1, <2>2, LimiterKnown DEF GuessesPlaced
  <1>5. GuessesBounded'
    BY <1>1, LimiterKnown DEF GuessesBounded
  <1> QED
    BY <1>2, <1>3, <1>4, <1>5 DEF LimiterInv

\* A limiter as it begins.
LEMMA LimiterStarts == LimiterInit => LimiterInv
  <1> SUFFICES ASSUME LimiterInit PROVE LimiterInv
    OBVIOUS
  <1>1. failures = 0 /\ window = 0 /\ lockedUntil = 0 /\ secs = 1 /\ guesses.n = 0 /\ guesses.since = 1 /\ guesses \in GuessRecords
    BY DEF LimiterInit, GuessRecords
  <1>2. gate \in [GateTasks -> GateRecords] /\ \A t \in GateTasks : gate[t].at = "rest"
    BY RestingIs DEF LimiterInit
  <1>3. LimiterTyped
    BY <1>1, <1>2 DEF LimiterTyped
  <1>4. GateClock
    BY <1>1, <1>2 DEF GateClock, Recording
  <1>5. PICK k \in Nat : k = TallyOf(gate, Reading)
    BY TallyIs
  <1>6. GuessesPlaced
    BY <1>1, <1>5 DEF GuessesPlaced
  <1>7. GuessesBounded
    <2>1. PICK a \in Nat, m \in Nat : a = Cardinality(GateTasks) /\ m = MaxFailures
      BY LimiterConstants
    <2>2. 0 <= (a + 1) * m
      OBVIOUS
    <2> QED
      BY <1>1, <2>1, <2>2 DEF GuessesBounded
  <1> QED
    BY <1>3, <1>4, <1>6, <1>7 DEF LimiterInv

\* Every access.
LEMMA LimiterStepKeeps == LimiterInv /\ [LimiterNext]_limiterVars => LimiterInv'
  <1> SUFFICES ASSUME LimiterInv, [LimiterNext]_limiterVars PROVE LimiterInv'
    OBVIOUS
  <1>1. ASSUME NEW t \in GateTasks, NEW ok \in BOOLEAN, Compares(t, ok) PROVE LimiterInv'
    BY <1>1, ComparesRightKeeps, ComparesWrongKeeps
  <1>2. ASSUME NEW t \in GateTasks,
               \/ LimiterChecks(t) \/ (\E ok \in BOOLEAN : Compares(t, ok))
               \/ ZeroesFailures(t) \/ ClosesWindow(t) \/ LoadsWindow(t) \/ OpensWindow(t)
               \/ CountsFirst(t) \/ Counts(t) \/ LocksFor(t)
        PROVE  LimiterInv'
    BY <1>1, <1>2, LimiterChecksKeeps, StartsOverKeeps, LoadsWindowKeeps, OpensWindowKeeps, CountsFirstKeeps, CountsKeeps
  <1>3. CASE UNCHANGED limiterVars
    <2>1. UNCHANGED <<failures, window, lockedUntil, gate, secs, guesses>>
      BY <1>3 DEF limiterVars
    <2>2. LimiterTyped' /\ GateClock'
      BY <2>1, LimiterKnown DEF LimiterTyped, GateClock
    <2>3. GuessesPlaced' /\ GuessesBounded'
      BY <2>1, LimiterKnown DEF GuessesPlaced, GuessesBounded, Counted
    <2> QED
      BY <2>2, <2>3 DEF LimiterInv
  <1> QED
    BY <1>2, <1>3, LimiterTickKeeps DEF LimiterNext

\* However many connections check credentials at once, and however their accesses to the three atomics interleave, the
\* wrong credentials compared in one window before a lockout stay within one budget of MAX_FAILURES for each connection
\* and one more (RateLimiter::record, local_auth.rs).
THEOREM GuessesAlwaysBounded == LimiterSpec => []GuessesBounded
  <1>1. LimiterInit => LimiterInv
    BY LimiterStarts
  <1>2. LimiterInv /\ [LimiterNext]_limiterVars => LimiterInv'
    BY LimiterStepKeeps
  <1>3. LimiterInv => GuessesBounded
    BY DEF LimiterInv
  <1> QED
    BY <1>1, <1>2, <1>3, PTL DEF LimiterSpec

-----------------------------------------------------------------------------
(* The serving identity (OriginKeys). *)

Ids == 0 .. Identities
Torns == {"no", "cut", "retried", "mended", "cutAgain"}
PairRecords == [key : Ids, cap : Ids, keyNew : Ids, capNew : Ids]
JobRecords == [at : {"none", "retire", "stageKey", "stageCap", "renameKey", "renameCap", "sync"},
               first : BOOLEAN, cap : Ids, key : Ids, new : Ids]
AgentRecords == [at : {"down", "cap", "first", "dir", "up"}, cap : Ids, key : Ids, keys : SUBSET Ids,
                 calm : BOOLEAN, torn : Torns]

KeysTyped ==
    /\ pair \in PairRecords /\ before \in SUBSET PairRecords /\ retired \in [1 .. Identities -> Ids]
    /\ job \in JobRecords /\ agent \in AgentRecords /\ made \in Ids /\ known \in SUBSET (1 .. Identities) /\ torn \in Torns

\* A pair the disk may come back with: its capability, and every one clients hold, is served by its key or a
\* retired one, until a cut rotation is tried again.
Serves(f, R, k, tn) ==
    tn \in {"no", "cut"} =>
      /\ \A i \in k : R[i] = i \/ f.key = i
      /\ f.cap # 0 => R[f.cap] = f.cap \/ f.key = f.cap

\* The key comes first, and nothing was handed out while there was no capability.
Ordered(f, k, tn, m) ==
    /\ f.key = 0 => f.cap = 0
    /\ f.cap = 0 => k = {} /\ tn = "no"
    /\ f.cap <= m

FilesSound == \A f \in {pair} \cup before : Serves(f, retired, known, torn) /\ Ordered(f, known, torn, made)

\* Between jobs the pair belongs together, unless a rotation was cut.
KeysAtRest(p, j, tn) == j.at = "none" => j = NoJob /\ (tn \in {"no", "mended"} /\ p.cap # 0 => p.key = p.cap)

\* What is staged is what was made.
Staged(p, j, m) ==
    /\ j.at # "none" => j.new = m /\ m # 0
    /\ j.at \in {"stageCap", "renameKey"} => p.keyNew = j.new
    /\ j.at \in {"renameKey", "renameCap"} => p.capNew = j.new
    /\ j.at \in {"renameCap", "sync"} => p.key = j.new
    /\ j.at = "sync" => p.cap = j.new

\* The first start works on a machine that has no capability.
First(p, j, a, tn) ==
    j.first => j.at \notin {"none", "retire"} /\ tn = "no" /\ a.at = "first" /\ (j.at # "sync" => p.cap = 0)

\* A rotation works on a pair, whose key it has retired under its name before it touches it.
Rotating(p, b, j, R, tn) ==
    ~j.first /\ j.at # "none" =>
      /\ p.key # 0 /\ p.cap # 0
      /\ j.at # "sync" => j.cap = p.cap
      /\ j.at = "retire" => j.key = p.key
      /\ j.at \in {"retire", "stageKey", "stageCap", "renameKey"} /\ tn = "no" => p.key = p.cap
      /\ j.at \in {"stageKey", "stageCap", "renameKey", "renameCap"} /\ tn = "no" => R[p.cap] = p.cap
      /\ j.at # "retire" => tn \notin {"cut", "cutAgain"}
      /\ j.at \notin {"retire", "stageKey"} => \A f \in b : f.cap # 0

\* What the agent read is what is there, when no rotation came between.
AsRead(p, j, a, m) ==
    /\ a.at = "cap" /\ a.key = 0 => p.key = 0
    /\ a.at = "dir" => p.cap # 0
    /\ a.calm /\ a.at \in {"cap", "dir"} => j.at = "none" /\ a.key = p.key
    /\ a.calm /\ a.at = "dir" => a.cap = p.cap
    /\ a.calm /\ a.at = "up" => a.cap <= m /\ (j.at # "none" => a.cap < j.new)

Upholds(a, k) ==
    a.at = "up" /\ a.calm =>
        /\ a.torn \in {"no", "cut", "mended"} => a.cap \in a.keys
        /\ a.torn \in {"no", "cut"} => \A i \in k : i <= a.cap => i \in a.keys

KeysInv ==
    /\ KeysTyped /\ FilesSound
    /\ KeysAtRest(pair, job, torn) /\ Staged(pair, job, made) /\ First(pair, job, agent, torn)
    /\ Rotating(pair, before, job, retired, torn) /\ AsRead(pair, job, agent, made) /\ Upholds(agent, known)

-----------------------------------------------------------------------------
(* The start. *)

\* The records there are at first.
LEMMA KeysConstants ==
    /\ 0 \in Ids /\ Identities \in Nat /\ Ids \subseteq Nat
    /\ NoJob \in JobRecords /\ NoJob.at = "none" /\ NoJob.first = FALSE
    /\ Stopped \in AgentRecords /\ Stopped.at = "down"
  <1>1. 0 \in Ids /\ Identities \in Nat /\ Ids \subseteq Nat
    BY KeysAssumption DEF Ids
  <1>2. NoJob \in JobRecords /\ NoJob.at = "none" /\ NoJob.first = FALSE
    BY <1>1 DEF NoJob, JobRecords
  <1>3. Stopped \in AgentRecords /\ Stopped.at = "down"
    BY <1>1 DEF Stopped, AgentRecords, Torns
  <1> QED
    BY <1>1, <1>2, <1>3

\* What is known of the files and the job.
LEMMA KeysKnown ==
    ASSUME KeysInv
    PROVE  /\ pair \in PairRecords /\ before \subseteq PairRecords /\ retired \in [1 .. Identities -> Ids]
           /\ job \in JobRecords /\ agent \in AgentRecords /\ made \in Ids /\ known \subseteq 1 .. Identities /\ torn \in Torns
           /\ pair.key \in Ids /\ pair.cap \in Ids /\ pair.keyNew \in Ids /\ pair.capNew \in Ids
           /\ Serves(pair, retired, known, torn) /\ Ordered(pair, known, torn, made)
           /\ KeysAtRest(pair, job, torn) /\ Staged(pair, job, made) /\ First(pair, job, agent, torn)
           /\ Rotating(pair, before, job, retired, torn) /\ AsRead(pair, job, agent, made) /\ Upholds(agent, known)
  BY DEF KeysInv, KeysTyped, FilesSound, PairRecords

\* An agent step leaves the files and the job alone.
LEMMA AgentMoves ==
    ASSUME KeysInv, agent' \in AgentRecords, UNCHANGED <<pair, before, retired, job, made, known, torn>>,
           First(pair, job, agent', torn), AsRead(pair, job, agent', made), Upholds(agent', known)
    PROVE  KeysInv'
  BY DEF KeysInv, KeysTyped, FilesSound

\* The agent reads the key ...
LEMMA LoadsPrimaryKeeps ==
    ASSUME KeysInv, LoadsPrimary
    PROVE  KeysInv'
  <1>1. PICK b \in BOOLEAN : b = (job = NoJob)
    OBVIOUS
  <1>2. PICK a : a = [Stopped EXCEPT !.at = "cap", !.key = pair.key, !.calm = b]
    OBVIOUS
  <1>3. a \in AgentRecords /\ a.at = "cap" /\ a.key = pair.key /\ (a.calm => job = NoJob)
    <2>1. pair.key \in Ids /\ 0 \in Ids
      BY KeysKnown, KeysConstants
    <2>2. a \in AgentRecords /\ a.at = "cap" /\ a.key = pair.key /\ a.calm = b
      BY <1>2, <2>1 DEF Stopped, AgentRecords, Torns
    <2>3. b => job = NoJob
      BY <1>1
    <2> QED
      BY <2>2, <2>3
  <1>4. agent' = a /\ ~job.first
    BY <1>1, <1>2 DEF LoadsPrimary
  <1>5. First(pair, job, a, torn)
    BY <1>4 DEF First
  <1>6. AsRead(pair, job, a, made)
    BY <1>3, KeysConstants DEF AsRead
  <1>7. Upholds(a, known)
    BY <1>3 DEF Upholds
  <1> QED
    BY <1>3, <1>4, <1>5, <1>6, <1>7, AgentMoves DEF LoadsPrimary

\* ... and the capability.
LEMMA LoadsCapabilityKeeps ==
    ASSUME KeysInv, LoadsCapability
    PROVE  KeysInv'
  <1>1. PICK a : a = [agent EXCEPT !.at = "dir", !.cap = pair.cap]
    OBVIOUS
  <1>2. a \in AgentRecords /\ a.at = "dir" /\ a.key = agent.key /\ a.cap = pair.cap /\ a.calm = agent.calm
    BY <1>1, KeysKnown DEF AgentRecords
  <1>3. agent' = a /\ agent.at = "cap" /\ pair.cap # 0 /\ UNCHANGED <<pair, before, retired, job, made, known, torn>>
    BY <1>1 DEF LoadsCapability
  <1>4. First(pair, job, a, torn)
    BY <1>2, <1>3, KeysKnown DEF First
  <1>5. AsRead(pair, job, a, made)
    BY <1>2, <1>3, KeysKnown DEF AsRead
  <1>6. Upholds(a, known)
    BY <1>2 DEF Upholds
  <1> QED
    BY <1>2, <1>3, <1>4, <1>5, <1>6, AgentMoves

\* It stops.
LEMMA AgentStopsKeeps ==
    ASSUME KeysInv, AgentStops
    PROVE  KeysInv'
  <1>1. agent' = Stopped /\ ~job.first /\ UNCHANGED <<pair, before, retired, job, made, known, torn>>
    BY DEF AgentStops
  <1>2. First(pair, job, Stopped, torn)
    BY <1>1 DEF First
  <1>3. AsRead(pair, job, Stopped, made)
    BY KeysConstants DEF AsRead
  <1>4. Upholds(Stopped, known)
    BY KeysConstants DEF Upholds
  <1> QED
    BY <1>1, <1>2, <1>3, <1>4, KeysConstants, AgentMoves

\* It is up: the keys it serves have its own capability and those clients hold.
LEMMA LoadsExtraKeeps ==
    ASSUME KeysInv, LoadsExtra
    PROVE  KeysInv'
  <1>1. PICK S : S = ({agent.key} \cup {retired[i] : i \in DOMAIN retired}) \ {0}
    OBVIOUS
  <1>2. PICK a : a = [agent EXCEPT !.at = "up", !.torn = torn, !.keys = S]
    OBVIOUS
  <1>3. S \in SUBSET Ids
    BY <1>1, KeysKnown DEF AgentRecords
  <1>4. a \in AgentRecords /\ a.at = "up" /\ a.torn = torn /\ a.keys = S /\ a.calm = agent.calm /\ a.cap = agent.cap
    BY <1>2, <1>3, KeysKnown DEF AgentRecords
  <1>5. /\ agent' = a /\ agent.at = "dir" /\ UNCHANGED <<pair, before, retired, job, made, torn>>
        /\ known' = IF before = {} THEN known \cup {pair.cap} ELSE known
    BY <1>1, <1>2 DEF LoadsExtra
  <1>6. pair.cap # 0 /\ pair.cap \in 1 .. Identities /\ ~job.first
    BY <1>5, KeysKnown DEF AsRead, First, Ids
  <1>7. known' \in SUBSET (1 .. Identities)
    BY <1>5, <1>6, KeysKnown
  <1>8. ASSUME NEW f \in {pair} \cup before PROVE Serves(f, retired, known', torn) /\ Ordered(f, known', torn, made)
    <2>1. Serves(f, retired, known, torn) /\ Ordered(f, known, torn, made)
      BY DEF KeysInv, FilesSound
    <2>2. CASE known' = known
      BY <2>1, <2>2
    <2>3. CASE f = pair /\ known' = known \cup {pair.cap}
      BY <1>6, <2>1, <2>3 DEF Serves, Ordered
    <2> QED
      BY <1>5, <2>2, <2>3
  <1>9. Upholds(a, known')
    <2>1. SUFFICES ASSUME a.calm PROVE /\ torn \in {"no", "cut", "mended"} => a.cap \in S
                                       /\ torn \in {"no", "cut"} => \A i \in known' : i <= a.cap => i \in S
      BY <1>4 DEF Upholds
    <2>2. agent.calm /\ agent.key = pair.key /\ agent.cap = pair.cap /\ job.at = "none"
      BY <1>4, <1>5, <2>1, KeysKnown DEF AsRead
    <2>3. \A i \in 1 .. Identities : retired[i] = i \/ pair.key = i => i \in S
      BY <1>1, <2>2, KeysKnown
    <2>4. torn \in {"no", "cut"} => \A i \in known' : i \in S
      BY <1>7, <1>8, <2>3 DEF Serves
    <2>5. torn \in {"no", "cut"} => pair.cap \in S
      BY <1>6, <2>3, KeysKnown DEF Serves
    <2>6. torn = "mended" => pair.cap \in S
      BY <1>6, <2>2, <2>3, KeysKnown DEF KeysAtRest
    <2> QED
      BY <1>4, <2>2, <2>4, <2>5, <2>6
  <1>10. First(pair, job, a, torn)
    BY <1>6 DEF First
  <1>11. AsRead(pair, job, a, made)
    <2>1. pair.cap <= made
      BY KeysKnown DEF Ordered
    <2>2. agent.calm => agent.cap = pair.cap /\ job.at = "none"
      BY <1>5, KeysKnown DEF AsRead
    <2> QED
      BY <1>4, <2>1, <2>2 DEF AsRead
  <1>12. FilesSound'
    BY <1>5, <1>8 DEF FilesSound
  <1>13. KeysTyped'
    BY <1>4, <1>5, <1>7 DEF KeysInv, KeysTyped
  <1> QED
    BY <1>5, <1>9, <1>10, <1>11, <1>12, <1>13 DEF KeysInv

-----------------------------------------------------------------------------
(* The job. *)

\* A first identity is made.
LEMMA MakesFirstKeeps ==
    ASSUME KeysInv, MakesFirst
    PROVE  KeysInv'
  <1>1. PICK n \in Nat : n = made + 1
    BY KeysKnown DEF Ids
  <1>2. n \in Ids /\ n # 0 /\ made \in Nat /\ made <= n
    <2>1. made \in 0 .. Identities /\ made < Identities
      BY KeysKnown DEF Ids, MakesFirst
    <2> QED
      BY <1>1, <2>1, KeysAssumption DEF Ids
  <1>3. PICK j : j = [NoJob EXCEPT !.at = "stageKey", !.first = TRUE, !.new = n]
    OBVIOUS
  <1>4. j \in JobRecords /\ j.at = "stageKey" /\ j.first = TRUE /\ j.new = n
    BY <1>2, <1>3, KeysConstants DEF NoJob, JobRecords
  <1>5. PICK a : a = [agent EXCEPT !.at = "first"]
    OBVIOUS
  <1>6. a \in AgentRecords /\ a.at = "first"
    BY <1>5, KeysKnown DEF AgentRecords
  <1>7. made' = n /\ job' = j /\ agent' = a /\ UNCHANGED <<pair, before, retired, known, torn>>
    BY <1>1, <1>3, <1>5 DEF MakesFirst
  <1>8. pair.cap = 0
    BY KeysKnown DEF MakesFirst, AsRead, Ordered
  <1>9. torn = "no"
    BY <1>8, KeysKnown DEF Ordered
  <1>10. FilesSound'
    <2>1. ASSUME NEW f \in {pair} \cup before PROVE Serves(f, retired, known, torn) /\ Ordered(f, known, torn, n)
      <3>1. Serves(f, retired, known, torn) /\ Ordered(f, known, torn, made) /\ f.cap \in Nat
        BY KeysKnown, KeysConstants DEF KeysInv, FilesSound, PairRecords
      <3> QED
        BY <1>2, <3>1 DEF Ordered
    <2> QED
      BY <1>7, <2>1 DEF FilesSound
  <1>11. KeysTyped'
    BY <1>2, <1>4, <1>6, <1>7 DEF KeysInv, KeysTyped
  <1>12. KeysAtRest(pair, j, torn) /\ Staged(pair, j, n)
    BY <1>2, <1>4 DEF KeysAtRest, Staged
  <1>13. First(pair, j, a, torn) /\ Rotating(pair, before, j, retired, torn)
    BY <1>4, <1>6, <1>8, <1>9 DEF First, Rotating
  <1>14. AsRead(pair, j, a, n) /\ Upholds(a, known)
    BY <1>6 DEF AsRead, Upholds
  <1> QED
    BY <1>7, <1>10, <1>11, <1>12, <1>13, <1>14 DEF KeysInv

\* A rotation starts.
LEMMA RotationStartsKeeps ==
    ASSUME KeysInv, RotationStarts
    PROVE  KeysInv'
  <1>1. PICK n \in Nat : n = made + 1
    BY KeysKnown DEF Ids
  <1>2. n \in Ids /\ n # 0 /\ made \in Nat /\ made < n
    <2>1. made \in 0 .. Identities /\ made < Identities
      BY KeysKnown DEF Ids, RotationStarts
    <2> QED
      BY <1>1, <2>1, KeysAssumption DEF Ids
  <1>3. PICK j : j = [NoJob EXCEPT !.at = "retire", !.cap = pair.cap, !.key = pair.key, !.new = n]
    OBVIOUS
  <1>4. j \in JobRecords /\ j.at = "retire" /\ j.first = FALSE /\ j.new = n /\ j.cap = pair.cap /\ j.key = pair.key
    BY <1>2, <1>3, KeysConstants, KeysKnown DEF NoJob, JobRecords
  <1>5. PICK a : a = IF agent.at \in {"cap", "dir"} THEN [agent EXCEPT !.calm = FALSE] ELSE agent
    OBVIOUS
  <1>6. /\ a \in AgentRecords /\ a.at = agent.at /\ a.cap = agent.cap /\ a.key = agent.key /\ a.keys = agent.keys /\ a.torn = agent.torn
        /\ (a.calm => agent.calm /\ agent.at \notin {"cap", "dir"})
    <2>1. CASE agent.at \in {"cap", "dir"}
      <3>1. a = [agent EXCEPT !.calm = FALSE]
        BY <1>5, <2>1
      <3>2. a \in AgentRecords /\ a.calm = FALSE
        BY <3>1, KeysKnown DEF AgentRecords
      <3>3. a.at = agent.at /\ a.cap = agent.cap /\ a.key = agent.key /\ a.keys = agent.keys /\ a.torn = agent.torn
        BY <3>1, KeysKnown DEF AgentRecords
      <3> QED
        BY <3>2, <3>3
    <2>2. CASE agent.at \notin {"cap", "dir"}
      <3>1. a = agent
        BY <1>5, <2>2
      <3> QED
        BY <2>2, <3>1, KeysKnown
    <2> QED
      BY <2>1, <2>2
  <1>7. made' = n /\ job' = j /\ agent' = a /\ UNCHANGED <<pair, before, retired, known, torn>>
    BY <1>1, <1>3, <1>5 DEF RotationStarts, Disturbs
  <1>8. pair.key # 0 /\ pair.cap # 0 /\ job.at = "none"
    BY KeysConstants DEF RotationStarts
  <1>9. FilesSound'
    <2>1. ASSUME NEW f \in {pair} \cup before PROVE Serves(f, retired, known, torn) /\ Ordered(f, known, torn, n)
      <3>1. Serves(f, retired, known, torn) /\ Ordered(f, known, torn, made) /\ f.cap \in Nat
        BY KeysKnown, KeysConstants DEF KeysInv, FilesSound, PairRecords
      <3> QED
        BY <1>2, <3>1 DEF Ordered
    <2> QED
      BY <1>7, <2>1 DEF FilesSound
  <1>10. KeysTyped'
    BY <1>2, <1>4, <1>6, <1>7 DEF KeysInv, KeysTyped
  <1>11. KeysAtRest(pair, j, torn) /\ Staged(pair, j, n)
    BY <1>2, <1>4 DEF KeysAtRest, Staged
  <1>12. First(pair, j, a, torn)
    BY <1>4 DEF First
  <1>13. Rotating(pair, before, j, retired, torn)
    <2>1. torn = "no" => pair.key = pair.cap
      BY <1>8, KeysKnown DEF KeysAtRest
    <2> QED
      BY <1>4, <1>8, <2>1 DEF Rotating
  <1>14. AsRead(pair, j, a, n)
    <2>1. agent.calm /\ agent.at = "up" => agent.cap <= made
      BY KeysKnown DEF AsRead
    <2>2. agent.cap \in Nat
      BY KeysKnown, KeysConstants DEF AgentRecords
    <2>3. (agent.at = "cap" /\ agent.key = 0 => pair.key = 0) /\ (agent.at = "dir" => pair.cap # 0)
      BY KeysKnown DEF AsRead
    <2>4. a.calm /\ a.at = "up" => a.cap < n
      BY <1>2, <1>6, <2>1, <2>2
    <2> QED
      BY <1>2, <1>4, <1>6, <2>2, <2>3, <2>4 DEF AsRead
  <1>15. Upholds(a, known)
    BY <1>6, KeysKnown DEF Upholds
  <1> QED
    BY <1>7, <1>9, <1>10, <1>11, <1>12, <1>13, <1>14, <1>15 DEF KeysInv

\* The agent is not touched by a step of a rotation or of the first start, as long as the pair keeps its capability.
LEMMA AgentLeftAlone ==
    ASSUME KeysInv, NEW p, NEW j, j.first = job.first, j.new = job.new, job.at # "none", j.at # "none",
           p.cap # 0 \/ job.first, job.first \/ p.key # 0
    PROVE  AsRead(p, j, agent, made)
  <1>1. job.first => agent.at = "first"
    BY KeysKnown DEF First
  <1>2. ~job.first => pair.key # 0
    BY KeysKnown DEF Rotating
  <1> QED
    BY <1>1, <1>2, KeysKnown DEF AsRead

\* The key is retired.
LEMMA RetiresKeeps ==
    ASSUME KeysInv, Retires
    PROVE  KeysInv'
  <1>1. PICK j : j = [job EXCEPT !.at = "stageKey"]
    OBVIOUS
  <1>2. /\ j \in JobRecords /\ j.at = "stageKey" /\ j.first = job.first /\ j.new = job.new /\ j.cap = job.cap /\ j.key = job.key
    BY <1>1, KeysKnown DEF JobRecords
  <1>3. PICK R : R = [retired EXCEPT ![job.cap] = job.key]
    OBVIOUS
  <1>4. /\ retired' = R /\ job' = j /\ job.at = "retire" /\ UNCHANGED <<pair, before, agent, made, known>>
        /\ torn' = IF torn \in {"cut", "cutAgain"} THEN "retried" ELSE torn
    BY <1>1, <1>3 DEF Retires, Working, Moves
  <1>5. ~job.first /\ job.cap = pair.cap /\ job.key = pair.key /\ pair.cap # 0 /\ pair.key # 0 /\ (torn = "no" => pair.key = pair.cap)
    BY <1>4, KeysKnown DEF First, Rotating
  <1>6. /\ R \in [1 .. Identities -> Ids] /\ R[pair.cap] = pair.key /\ pair.cap \in 1 .. Identities
        /\ \A i \in 1 .. Identities : i # pair.cap => R[i] = retired[i]
    BY <1>3, <1>5, KeysKnown DEF Ids
  <1>7. torn' \in Torns /\ torn' \notin {"cut", "cutAgain"} /\ (torn' = "no" => torn = "no") /\ (torn = "no" => torn' = "no")
    BY <1>4, KeysKnown DEF Torns
  <1>8. FilesSound'
    <2>1. ASSUME NEW f \in {pair} \cup before PROVE Serves(f, R, known, torn') /\ Ordered(f, known, torn', made)
      <3>1. Serves(f, retired, known, torn) /\ Ordered(f, known, torn, made) /\ f.cap \in Ids
        BY KeysKnown DEF KeysInv, FilesSound, PairRecords
      <3>2. torn' = "no" => \A i \in 1 .. Identities : retired[i] = i => R[i] = i
        BY <1>5, <1>6, <1>7
      <3>3. f.cap # 0 => f.cap \in 1 .. Identities
        BY <3>1, KeysConstants DEF Ids
      <3>4. Serves(f, R, known, torn')
        BY <1>7, <3>1, <3>2, <3>3, KeysKnown DEF Serves
      <3> QED
        BY <1>7, <3>1, <3>4 DEF Ordered
    <2> QED
      BY <1>4, <2>1 DEF FilesSound
  <1>9. KeysTyped'
    BY <1>2, <1>4, <1>6, <1>7 DEF KeysInv, KeysTyped
  <1>10. KeysAtRest(pair, j, torn') /\ Staged(pair, j, made)
    BY <1>2, <1>4, KeysKnown DEF KeysAtRest, Staged
  <1>11. First(pair, j, agent, torn')
    BY <1>2, <1>5 DEF First
  <1>12. Rotating(pair, before, j, R, torn')
    BY <1>2, <1>5, <1>6, <1>7 DEF Rotating
  <1>13. AsRead(pair, j, agent, made)
    BY <1>2, <1>4, <1>5, AgentLeftAlone
  <1> QED
    BY <1>4, <1>8, <1>9, <1>10, <1>11, <1>12, <1>13, KeysKnown DEF KeysInv

\* A file is staged: what the disk may come back with is the pair as it is.
LEMMA StagesFileKeeps ==
    ASSUME KeysInv, NEW p \in PairRecords, NEW j \in JobRecords, pair' = p, job' = j, before' = {},
           UNCHANGED <<retired, agent, made, known, torn>>,
           p.key = pair.key /\ p.cap = pair.cap, j.first = job.first /\ j.new = job.new /\ j.cap = job.cap,
           \/ job.at = "stageKey" /\ j.at = "stageCap" /\ p.keyNew = job.new
           \/ job.at = "stageCap" /\ j.at = "renameKey" /\ p.keyNew = pair.keyNew /\ p.capNew = job.new
    PROVE  KeysInv'
  <1>1. job.at \in {"stageKey", "stageCap"} /\ j.at \in {"stageCap", "renameKey"}
    OBVIOUS
  <1>2. FilesSound'
    BY KeysKnown DEF FilesSound, Serves, Ordered
  <1>3. KeysTyped'
    BY DEF KeysInv, KeysTyped
  <1>4. KeysAtRest(p, j, torn) /\ First(p, j, agent, torn)
    BY <1>1, KeysKnown DEF KeysAtRest, First
  <1>5. Staged(p, j, made)
    BY <1>1, KeysKnown DEF Staged
  <1>6. Rotating(p, {}, j, retired, torn)
    BY <1>1, KeysKnown DEF Rotating
  <1>7. AsRead(p, j, agent, made)
    <2>1. (pair.cap # 0 \/ job.first) /\ (job.first \/ pair.key # 0)
      BY <1>1, KeysKnown DEF Rotating
    <2> QED
      BY <1>1, <2>1, AgentLeftAlone
  <1> QED
    BY <1>2, <1>3, <1>4, <1>5, <1>6, <1>7, KeysKnown DEF KeysInv

\* The new key is staged first ...
LEMMA StagesNewKeyKeeps ==
    ASSUME KeysInv, StagesNewKey
    PROVE  KeysInv'
  <1>1. PICK p : p = [pair EXCEPT !.keyNew = job.new]
    OBVIOUS
  <1>2. job.new \in Ids
    BY KeysKnown DEF JobRecords
  <1>3. p \in PairRecords /\ p.key = pair.key /\ p.cap = pair.cap /\ p.keyNew = job.new
    BY <1>1, <1>2, KeysKnown DEF PairRecords
  <1>4. PICK j : j = [job EXCEPT !.at = "stageCap"]
    OBVIOUS
  <1>5. j \in JobRecords /\ j.at = "stageCap" /\ j.first = job.first /\ j.new = job.new /\ j.cap = job.cap
    BY <1>4, KeysKnown DEF JobRecords
  <1>6. pair' = p /\ job' = j /\ before' = {} /\ UNCHANGED <<retired, agent, made, known, torn>> /\ job.at = "stageKey"
    BY <1>1, <1>4 DEF StagesNewKey, Working, Moves
  <1> QED
    BY <1>3, <1>5, <1>6, StagesFileKeeps

\* ... then the capability that pins it.
LEMMA StagesNewCapKeeps ==
    ASSUME KeysInv, StagesNewCap
    PROVE  KeysInv'
  <1>1. PICK p : p = [pair EXCEPT !.capNew = job.new]
    OBVIOUS
  <1>2. job.new \in Ids
    BY KeysKnown DEF JobRecords
  <1>3. p \in PairRecords /\ p.key = pair.key /\ p.cap = pair.cap /\ p.keyNew = pair.keyNew /\ p.capNew = job.new
    BY <1>1, <1>2, KeysKnown DEF PairRecords
  <1>4. PICK j : j = [job EXCEPT !.at = "renameKey"]
    OBVIOUS
  <1>5. j \in JobRecords /\ j.at = "renameKey" /\ j.first = job.first /\ j.new = job.new /\ j.cap = job.cap
    BY <1>4, KeysKnown DEF JobRecords
  <1>6. pair' = p /\ job' = j /\ before' = {} /\ UNCHANGED <<retired, agent, made, known, torn>> /\ job.at = "stageCap"
    BY <1>1, <1>4 DEF StagesNewCap, Working, Moves
  <1> QED
    BY <1>3, <1>5, <1>6, StagesFileKeeps

\* The key is renamed into place: the one it replaces is retired.
LEMMA KeyInKeeps ==
    ASSUME KeysInv, job.at = "renameKey", MovesIn(KeyIn, "renameCap")
    PROVE  KeysInv'
  <1>1. PICK p : p = KeyIn
    OBVIOUS
  <1>2. p \in PairRecords /\ p.key = pair.keyNew /\ p.cap = pair.cap /\ p.capNew = pair.capNew
    BY <1>1, KeysKnown, KeysConstants DEF KeyIn, PairRecords
  <1>3. PICK j : j = [job EXCEPT !.at = "renameCap"]
    OBVIOUS
  <1>4. j \in JobRecords /\ j.at = "renameCap" /\ j.first = job.first /\ j.new = job.new /\ j.cap = job.cap
    BY <1>3, KeysKnown DEF JobRecords
  <1>5. pair' = p /\ job' = j /\ before' = before \cup {pair} /\ UNCHANGED <<retired, agent, made, known, torn>>
    BY <1>1, <1>3 DEF MovesIn, Moves
  <1>6. pair.keyNew = job.new /\ pair.capNew = job.new /\ job.new = made /\ made # 0
    BY KeysKnown DEF Staged
  <1>7. CASE job.first
    <2>1. pair.cap = 0 /\ torn = "no" /\ agent.at = "first"
      BY <1>7, KeysKnown DEF First
    <2>2. known = {}
      BY <2>1, KeysKnown DEF Ordered
    <2>3. Serves(p, retired, known, torn) /\ Ordered(p, known, torn, made)
      BY <1>2, <1>6, <2>1, <2>2, KeysKnown DEF Serves, Ordered
    <2>4. Rotating(p, before \cup {pair}, j, retired, torn)
      BY <1>4, <1>7 DEF Rotating
    <2>5. First(p, j, agent, torn)
      BY <1>2, <1>4, <2>1, KeysKnown DEF First
    <2> QED
      <3>1. FilesSound'
        BY <1>5, <2>3 DEF KeysInv, FilesSound
      <3>2. KeysTyped'
        BY <1>2, <1>4, <1>5 DEF KeysInv, KeysTyped
      <3>3. KeysAtRest(p, j, torn) /\ Staged(p, j, made)
        BY <1>2, <1>4, <1>6 DEF KeysAtRest, Staged
      <3>4. AsRead(p, j, agent, made)
        BY <1>4, <1>7, AgentLeftAlone
      <3> QED
        BY <1>5, <2>4, <2>5, <3>1, <3>2, <3>3, <3>4, KeysKnown DEF KeysInv
  <1>8. CASE ~job.first
    <2>1. /\ pair.cap # 0 /\ pair.key # 0 /\ job.cap = pair.cap /\ torn \notin {"cut", "cutAgain"} /\ \A f \in before : f.cap # 0
          /\ torn = "no" => pair.key = pair.cap /\ retired[pair.cap] = pair.cap
      BY <1>8, KeysKnown DEF Rotating
    <2>2. Serves(p, retired, known, torn)
      BY <1>2, <2>1, KeysKnown DEF Serves
    <2>3. Ordered(p, known, torn, made)
      BY <1>2, <1>6, <2>1, KeysKnown DEF Ordered
    <2>4. Rotating(p, before \cup {pair}, j, retired, torn)
      BY <1>2, <1>4, <1>6, <2>1 DEF Rotating
    <2>5. First(p, j, agent, torn)
      BY <1>4, <1>8 DEF First
    <2> QED
      <3>1. FilesSound'
        BY <1>5, <2>2, <2>3 DEF KeysInv, FilesSound
      <3>2. KeysTyped'
        BY <1>2, <1>4, <1>5 DEF KeysInv, KeysTyped
      <3>3. KeysAtRest(p, j, torn) /\ Staged(p, j, made)
        BY <1>2, <1>4, <1>6 DEF KeysAtRest, Staged
      <3>4. AsRead(p, j, agent, made)
        BY <1>2, <1>4, <1>6, <2>1, AgentLeftAlone
      <3> QED
        BY <1>5, <2>4, <2>5, <3>1, <3>2, <3>3, <3>4, KeysKnown DEF KeysInv
  <1> QED
    BY <1>7, <1>8

\* The capability follows.
LEMMA CapInKeeps ==
    ASSUME KeysInv, job.at = "renameCap", MovesIn(CapIn, "sync")
    PROVE  KeysInv'
  <1>1. PICK p : p = CapIn
    OBVIOUS
  <1>2. p \in PairRecords /\ p.key = pair.key /\ p.cap = pair.capNew
    BY <1>1, KeysKnown, KeysConstants DEF CapIn, PairRecords
  <1>3. PICK j : j = [job EXCEPT !.at = "sync"]
    OBVIOUS
  <1>4. j \in JobRecords /\ j.at = "sync" /\ j.first = job.first /\ j.new = job.new /\ j.cap = job.cap
    BY <1>3, KeysKnown DEF JobRecords
  <1>5. pair' = p /\ job' = j /\ before' = before \cup {pair} /\ UNCHANGED <<retired, agent, made, known, torn>>
    BY <1>1, <1>3 DEF MovesIn, Moves
  <1>6. pair.key = job.new /\ pair.capNew = job.new /\ job.new = made /\ made # 0 /\ made \in Nat
    BY KeysKnown, KeysConstants DEF Staged
  <1>7. Serves(p, retired, known, torn) /\ Ordered(p, known, torn, made)
    BY <1>2, <1>6, KeysKnown DEF Serves, Ordered
  <1>8. Rotating(p, before \cup {pair}, j, retired, torn)
    <2>1. ~job.first => pair.cap # 0 /\ torn \notin {"cut", "cutAgain"} /\ \A f \in before : f.cap # 0
      BY KeysKnown DEF Rotating
    <2> QED
      BY <1>2, <1>4, <1>6, <2>1 DEF Rotating
  <1>9. First(p, j, agent, torn)
    BY <1>4, KeysKnown DEF First
  <1>10. FilesSound'
    BY <1>5, <1>7 DEF KeysInv, FilesSound
  <1>11. KeysTyped'
    BY <1>2, <1>4, <1>5 DEF KeysInv, KeysTyped
  <1>12. KeysAtRest(p, j, torn) /\ Staged(p, j, made)
    BY <1>2, <1>4, <1>6 DEF KeysAtRest, Staged
  <1>13. AsRead(p, j, agent, made)
    BY <1>2, <1>4, <1>6, AgentLeftAlone
  <1> QED
    BY <1>5, <1>8, <1>9, <1>10, <1>11, <1>12, <1>13, KeysKnown DEF KeysInv

\* The job is done.
LEMMA SyncsPairKeeps ==
    ASSUME KeysInv, SyncsPair
    PROVE  KeysInv'
  <1>1. job.at = "sync" /\ before' = {} /\ job' = NoJob /\ UNCHANGED <<pair, retired, made>>
    BY DEF SyncsPair, Working
  <1>2. /\ pair.key = job.new /\ pair.cap = job.new /\ job.new = made /\ made # 0 /\ made \in Nat
        /\ job.new \in 1 .. Identities /\ job.new \in Ids
    BY <1>1, KeysKnown, KeysConstants DEF Staged, Ids
  <1>3. CASE job.first
    <2>1. PICK a : a = [agent EXCEPT !.at = "dir", !.cap = job.new, !.key = job.new]
      OBVIOUS
    <2>2. a \in AgentRecords /\ a.at = "dir" /\ a.cap = job.new /\ a.key = job.new
      BY <1>2, <2>1, KeysKnown DEF AgentRecords
    <2>3. agent' = a /\ UNCHANGED <<known, torn>>
      BY <1>3, <2>1 DEF SyncsPair
    <2>4. FilesSound'
      BY <1>1, <2>3 DEF KeysInv, FilesSound
    <2>5. KeysTyped'
      BY <1>1, <2>2, <2>3, KeysConstants DEF KeysInv, KeysTyped
    <2>6. KeysAtRest(pair, NoJob, torn) /\ Staged(pair, NoJob, made)
      BY <1>2, KeysConstants DEF KeysAtRest, Staged
    <2>7. First(pair, NoJob, a, torn) /\ Rotating(pair, {}, NoJob, retired, torn)
      BY KeysConstants DEF First, Rotating
    <2>8. AsRead(pair, NoJob, a, made) /\ Upholds(a, known)
      BY <1>2, <2>2, KeysConstants DEF AsRead, Upholds
    <2> QED
      BY <1>1, <2>3, <2>4, <2>5, <2>6, <2>7, <2>8 DEF KeysInv
  <1>4. CASE ~job.first
    <2>1. agent' = agent /\ known' = known \cup {job.new} /\ torn' = IF torn = "no" THEN "no" ELSE "mended"
      BY <1>4 DEF SyncsPair
    <2>2. torn' \in Torns /\ torn' # "cut" /\ (torn' = "no" => torn = "no")
      BY <2>1 DEF Torns
    <2>3. Serves(pair, retired, known', torn')
      BY <1>2, <2>1, <2>2, KeysKnown DEF Serves
    <2>4. Ordered(pair, known', torn', made)
      BY <1>2 DEF Ordered
    <2>5. FilesSound'
      BY <1>1, <2>3, <2>4 DEF FilesSound
    <2>6. KeysTyped'
      BY <1>1, <1>2, <2>1, <2>2, KeysConstants DEF KeysInv, KeysTyped
    <2>7. KeysAtRest(pair, NoJob, torn') /\ Staged(pair, NoJob, made)
      BY <1>2, KeysConstants DEF KeysAtRest, Staged
    <2>8. First(pair, NoJob, agent, torn') /\ Rotating(pair, {}, NoJob, retired, torn')
      BY KeysConstants DEF First, Rotating
    <2>9. AsRead(pair, NoJob, agent, made)
      BY <1>1, <1>2, KeysKnown, KeysConstants DEF AsRead
    <2>10. Upholds(agent, known')
      <3>1. agent.calm /\ agent.at = "up" => agent.cap < job.new /\ agent.cap \in Nat
        BY <1>1, KeysKnown, KeysConstants DEF AsRead, AgentRecords
      <3>2. agent.calm /\ agent.at = "up" => ~(job.new <= agent.cap)
        BY <1>2, <3>1
      <3> QED
        BY <2>1, <3>2, KeysKnown DEF Upholds
    <2> QED
      BY <1>1, <2>1, <2>5, <2>6, <2>7, <2>8, <2>9, <2>10 DEF KeysInv
  <1> QED
    BY <1>3, <1>4

-----------------------------------------------------------------------------
(* What may cut it short. *)

\* How a mixed pair is told from a whole one.
LEMMA CutIs ==
    ASSUME torn \in Torns, NEW f
    PROVE  /\ Cut(f) \in Torns
           /\ Cut(f) \in {"no", "mended"} => Cut(f) = torn /\ (f.cap # 0 => f.key = f.cap)
           /\ Cut(f) = "cut" => torn \in {"no", "cut"}
           /\ Cut(f) = torn \/ (f.cap # 0 /\ f.key # f.cap)
  <1>1. CASE f.cap = 0 \/ f.key = f.cap
    <2>1. Cut(f) = torn
      BY <1>1 DEF Cut
    <2> QED
      BY <1>1, <2>1 DEF Torns
  <1>2. CASE f.cap # 0 /\ f.key # f.cap
    <2>1. torn = "no" => Cut(f) = "cut"
      BY <1>2 DEF Cut
    <2>2. torn = "mended" => Cut(f) = "cutAgain"
      BY <1>2 DEF Cut
    <2>3. torn \notin {"no", "mended"} => Cut(f) = torn
      BY <1>2 DEF Cut
    <2> QED
      BY <1>2, <2>1, <2>2, <2>3 DEF Torns
  <1> QED
    BY <1>1, <1>2

\* The job ends where it is: a pair it leaves mixed was retired.
LEMMA LeavesPairKeeps ==
    ASSUME KeysInv, NEW f \in PairRecords, f.key = pair.key, f.cap = pair.cap, job # NoJob, LeavesPair(f), before' = before
    PROVE  KeysInv'
  <1>1. /\ pair' = f /\ torn' = Cut(f) /\ job' = NoJob /\ UNCHANGED <<retired, made, known>>
        /\ agent' = IF job.first THEN Stopped ELSE agent
    BY DEF LeavesPair
  <1>2. /\ torn' \in Torns
        /\ torn' \in {"no", "mended"} => torn' = torn /\ (f.cap # 0 => f.key = f.cap)
        /\ torn' = "cut" => torn \in {"no", "cut"}
        /\ torn' = torn \/ (f.cap # 0 /\ f.key # f.cap)
    BY <1>1, CutIs, KeysKnown
  <1>3. job.at # "none"
    BY KeysKnown DEF KeysAtRest
  <1>4. torn = "no" /\ pair.cap # 0 /\ pair.key # pair.cap => \A g \in before : g.cap # 0
    <2>1. job.first => pair.cap = 0 \/ pair.key = pair.cap
      BY KeysKnown DEF First, Staged
    <2>2. job.at \in {"retire", "stageKey", "stageCap", "renameKey", "renameCap", "sync"}
      BY <1>3, KeysKnown DEF JobRecords
    <2>3. job.at = "sync" => pair.key = pair.cap
      BY KeysKnown DEF Staged
    <2>4. ~job.first /\ job.at \in {"retire", "stageKey", "stageCap", "renameKey"} /\ torn = "no" => pair.key = pair.cap
      BY <1>3, KeysKnown DEF Rotating
    <2>5. ~job.first /\ job.at = "renameCap" => \A g \in before : g.cap # 0
      BY <1>3, KeysKnown DEF Rotating
    <2> QED
      BY <2>1, <2>2, <2>3, <2>4, <2>5
  <1>5. ASSUME NEW g \in {f} \cup before PROVE Serves(g, retired, known, torn') /\ Ordered(g, known, torn', made)
    <2>1. PICK h \in {pair} \cup before : h.key = g.key /\ h.cap = g.cap /\ (g \notin before => h = pair)
      BY <1>5
    <2>2. Serves(h, retired, known, torn) /\ Ordered(h, known, torn, made)
      BY <2>1 DEF KeysInv, FilesSound
    <2>3. Serves(g, retired, known, torn')
      BY <1>2, <2>1, <2>2 DEF Serves
    <2>4. g.cap = 0 => torn' = "no"
      <3>1. g.cap = 0 => torn = "no"
        BY <2>1, <2>2 DEF Ordered
      <3>2. g.cap = 0 /\ f.cap # 0 => g \in before
        BY <2>1
      <3> QED
        BY <1>2, <1>4, <3>1, <3>2
    <2>5. Ordered(g, known, torn', made)
      BY <2>1, <2>2, <2>4 DEF Ordered
    <2> QED
      BY <2>3, <2>5
  <1>6. FilesSound'
    BY <1>1, <1>5 DEF FilesSound
  <1>7. agent' \in AgentRecords
    BY <1>1, KeysKnown, KeysConstants
  <1>8. KeysTyped'
    BY <1>1, <1>2, <1>7, KeysConstants DEF KeysInv, KeysTyped
  <1>9. KeysAtRest(f, NoJob, torn') /\ Staged(f, NoJob, made)
    BY <1>2, KeysConstants DEF KeysAtRest, Staged
  <1>10. First(f, NoJob, agent', torn') /\ Rotating(f, before, NoJob, retired, torn')
    BY KeysConstants DEF First, Rotating
  <1>11. AsRead(f, NoJob, agent', made) /\ Upholds(agent', known)
    <2>1. CASE job.first
      <3>1. agent' = Stopped
        BY <1>1, <2>1
      <3>2. AsRead(f, NoJob, Stopped, made) /\ Upholds(Stopped, known)
        BY KeysConstants DEF AsRead, Upholds
      <3> QED
        BY <3>1, <3>2
    <2>2. CASE ~job.first
      <3>1. agent' = agent
        BY <1>1, <2>2
      <3>2. AsRead(f, NoJob, agent, made)
        BY <1>3, KeysKnown, KeysConstants DEF AsRead
      <3> QED
        BY <3>1, <3>2, KeysKnown
    <2> QED
      BY <2>1, <2>2
  <1> QED
    BY <1>1, <1>6, <1>8, <1>9, <1>10, <1>11 DEF KeysInv

\* A job that fails or is killed leaves the two files as they are.
LEMMA JobEndsKeeps ==
    ASSUME KeysInv, JobFails \/ JobKilled
    PROVE  KeysInv'
  <1>1. PICK p : p = [pair EXCEPT !.keyNew = 0]
    OBVIOUS
  <1>2. p \in PairRecords /\ p.key = pair.key /\ p.cap = pair.cap
    BY <1>1, KeysKnown, KeysConstants DEF PairRecords
  <1>3. job # NoJob /\ before' = before /\ (LeavesPair(p) \/ LeavesPair(pair))
    BY <1>1 DEF JobFails, JobKilled
  <1>4. LeavesPair(p) => KeysInv'
    BY <1>2, <1>3, LeavesPairKeeps
  <1>5. LeavesPair(pair) => KeysInv'
    BY <1>3, LeavesPairKeeps, KeysKnown
  <1> QED
    BY <1>3, <1>4, <1>5

\* The disk comes back with any pair it may.
LEMMA KeysPowerLossKeeps ==
    ASSUME KeysInv, KeysPowerLoss
    PROVE  KeysInv'
  <1>1. PICK f \in {pair} \cup before :
          /\ pair' = f /\ before' = {} /\ torn' = Cut(f) /\ job' = NoJob /\ agent' = Stopped
          /\ UNCHANGED <<retired, made, known>>
    BY DEF KeysPowerLoss
  <1>2. f \in PairRecords /\ Serves(f, retired, known, torn) /\ Ordered(f, known, torn, made)
    BY KeysKnown DEF KeysInv, FilesSound
  <1>3. /\ torn' \in Torns
        /\ torn' \in {"no", "mended"} => torn' = torn /\ (f.cap # 0 => f.key = f.cap)
        /\ torn' = "cut" => torn \in {"no", "cut"}
        /\ torn' = torn \/ (f.cap # 0 /\ f.key # f.cap)
    BY <1>1, CutIs, KeysKnown
  <1>4. Serves(f, retired, known, torn')
    BY <1>2, <1>3 DEF Serves
  <1>5. Ordered(f, known, torn', made)
    BY <1>2, <1>3 DEF Ordered
  <1>6. FilesSound'
    BY <1>1, <1>4, <1>5 DEF FilesSound
  <1>7. KeysTyped'
    BY <1>1, <1>2, <1>3, KeysConstants DEF KeysInv, KeysTyped
  <1>8. KeysAtRest(f, NoJob, torn') /\ Staged(f, NoJob, made)
    BY <1>3, KeysConstants DEF KeysAtRest, Staged
  <1>9. First(f, NoJob, Stopped, torn') /\ Rotating(f, {}, NoJob, retired, torn')
    BY KeysConstants DEF First, Rotating
  <1>10. AsRead(f, NoJob, Stopped, made) /\ Upholds(Stopped, known)
    BY KeysConstants DEF AsRead, Upholds
  <1> QED
    BY <1>1, <1>6, <1>7, <1>8, <1>9, <1>10 DEF KeysInv

\* A window closes: the identity is nobody's any more.
LEMMA WindowClosesKeeps ==
    ASSUME KeysInv, NEW i \in 1 .. Identities, WindowCloses(i)
    PROVE  KeysInv'
  <1>1. PICK R : R = [retired EXCEPT ![i] = 0]
    OBVIOUS
  <1>2. R \in [1 .. Identities -> Ids] /\ \A k \in 1 .. Identities : k # i => R[k] = retired[k]
    BY <1>1, KeysKnown, KeysConstants
  <1>3. /\ retired' = R /\ known' = known \ {i} /\ before = {} /\ job = NoJob /\ i # pair.cap
        /\ UNCHANGED <<pair, before, job, agent, made, torn>>
    BY <1>1 DEF WindowCloses
  <1>4. pair.cap # 0 => pair.cap \in 1 .. Identities
    BY KeysKnown, KeysAssumption DEF Ids
  <1>5. Serves(pair, R, known', torn)
    BY <1>2, <1>3, <1>4, KeysKnown DEF Serves
  <1>6. Ordered(pair, known', torn, made)
    BY <1>3, KeysKnown DEF Ordered
  <1>7. FilesSound'
    BY <1>3, <1>5, <1>6 DEF FilesSound
  <1>8. KeysTyped'
    BY <1>2, <1>3 DEF KeysInv, KeysTyped
  <1>9. Rotating(pair, before, job, R, torn)
    BY <1>3, KeysConstants DEF Rotating
  <1>10. Upholds(agent, known')
    BY <1>3, KeysKnown DEF Upholds
  <1> QED
    BY <1>3, <1>7, <1>8, <1>9, <1>10, KeysKnown DEF KeysInv

-----------------------------------------------------------------------------
\* An empty directory.
LEMMA KeysStarts == KeysInit => KeysInv
  <1> SUFFICES ASSUME KeysInit PROVE KeysInv
    OBVIOUS
  <1>1. PICK p : p = [key |-> 0, cap |-> 0, keyNew |-> 0, capNew |-> 0]
    OBVIOUS
  <1>2. p \in PairRecords /\ p.key = 0 /\ p.cap = 0
    BY <1>1, KeysConstants DEF PairRecords
  <1>3. /\ pair = p /\ before = {} /\ job = NoJob /\ agent = Stopped /\ made = 0 /\ known = {} /\ torn = "no"
        /\ retired \in [1 .. Identities -> Ids]
    BY <1>1, KeysConstants DEF KeysInit
  <1>4. KeysTyped
    BY <1>2, <1>3, KeysConstants DEF KeysTyped, Torns
  <1>5. FilesSound
    BY <1>2, <1>3 DEF FilesSound, Serves, Ordered
  <1>6. KeysAtRest(pair, job, torn) /\ Staged(pair, job, made) /\ First(pair, job, agent, torn)
    BY <1>2, <1>3, KeysConstants DEF KeysAtRest, Staged, First
  <1>7. Rotating(pair, before, job, retired, torn) /\ AsRead(pair, job, agent, made) /\ Upholds(agent, known)
    BY <1>2, <1>3, KeysConstants DEF Rotating, AsRead, Upholds
  <1> QED
    BY <1>4, <1>5, <1>6, <1>7 DEF KeysInv

\* Every step keeps the identity served.
LEMMA KeysKeeps == KeysInv /\ [KeysNext]_keysVars => KeysInv'
  <1> SUFFICES ASSUME KeysInv, [KeysNext]_keysVars PROVE KeysInv'
    OBVIOUS
  <1>1. CASE UNCHANGED keysVars
    BY <1>1 DEF keysVars, KeysInv, KeysTyped, FilesSound
  <1>2. CASE LoadsPrimary \/ LoadsCapability \/ MakesFirst \/ LoadsExtra \/ AgentStops
    BY <1>2, LoadsPrimaryKeeps, LoadsCapabilityKeeps, MakesFirstKeeps, LoadsExtraKeeps, AgentStopsKeeps
  <1>3. CASE RotationStarts \/ Retires \/ StagesNewKey \/ StagesNewCap \/ SyncsPair
    BY <1>3, RotationStartsKeeps, RetiresKeeps, StagesNewKeyKeeps, StagesNewCapKeeps, SyncsPairKeeps
  <1>4. CASE PromotesPair
    BY <1>4, KeyInKeeps, CapInKeeps DEF PromotesPair, Working
  <1>5. CASE JobFails \/ JobKilled \/ KeysPowerLoss
    BY <1>5, JobEndsKeeps, KeysPowerLossKeeps
  <1>6. CASE \E i \in 1 .. Identities : WindowCloses(i)
    BY <1>6, WindowClosesKeeps
  <1> QED
    BY <1>1, <1>2, <1>3, <1>4, <1>5, <1>6 DEF KeysNext

\* However many identities are made, and wherever a rotation, a first start or the power is cut: an agent that
\* starts with no rotation in between serves the identity its own capability pins, after one cut rotation and
\* after any complete ones, and every identity clients may hold until a cut rotation is tried again
\* (capability.rs: rotate_origin_key, resolve_serving_identity_with_token).
THEOREM OwnCapabilityAlwaysServed == KeysSpec => []OwnCapabilityServed
  <1>1. KeysInv => OwnCapabilityServed
    BY DEF KeysInv, Upholds, OwnCapabilityServed
  <1> QED
    BY <1>1, KeysStarts, KeysKeeps, PTL DEF KeysSpec

-----------------------------------------------------------------------------
(* Operator events and their ring (EventRing). *)

\* A set of numbers has a least one: the provers can use the library's induction on sets only.
LEMMA LeastNumber ==
    ASSUME NEW T, T \subseteq Nat, T # {}
    PROVE  \E n \in T : \A m \in T : n <= m
  <1>1. IsWellFoundedOn(OpToRel(<, Nat), Nat)
    BY NatLessThanWellFounded, Zenon
  <1>2. PICK n \in T : \A m \in T : ~(<<m, n>> \in OpToRel(<, Nat))
    BY <1>1, WFMin, Zenon
  <1>3. \A m \in T : ~(m < n)
    BY <1>2 DEF OpToRel
  <1> QED
    BY <1>3

\* The tasks at one of these places.
Emitters(places) == {t \in EventTasks : emitter[t].at \in places}

\* The lock is with the one task that is between taking and leaving it.
LockHeld == \A t \in EventTasks : emitter[t].at \in {"size", "line", "newline"} <=> ringLock = t

\* Only a task that was let through carries a count.
CarriesOnly == \A t \in EventTasks : emitter[t].at # "count" => emitter[t].withheld = 0

\* Every line printed was given to the ring, or will be; every error is of a line it was given.
GivenToRing ==
    /\ tally.lines = Len(attempts) + Cardinality(Emitters({"wait", "size", "line"}))
    /\ ringErrors + Cardinality(Emitters({"newline"})) <= Len(attempts)

\* The lines of a file that can be read.
WholeLines(file) == {file[i].lines[1] : i \in {j \in 1 .. Len(file) : Whole(file[j])}}

OnDisk == WholeLines(files.rotated) \cup WholeLines(files.current)

\* A file's lines rise.
Rising(file) ==
    /\ \A i \in 1 .. Len(file) : Len(file[i].lines) > 0
    /\ \A i, j \in 1 .. Len(file) : i < j /\ Whole(file[i]) /\ Whole(file[j]) => file[i].lines[1] < file[j].lines[1]

FilesInOrder ==
    /\ Rising(files.rotated) /\ Rising(files.current)
    /\ \A a \in WholeLines(files.rotated), b \in WholeLines(files.current) : a < b
    /\ OnDisk \subseteq 1 .. Len(attempts)

\* The lines after the first one on disk that are not there.
Lost == {k \in 1 .. Len(attempts) : k \notin OnDisk /\ \E j \in OnDisk : j < k}

\* What is open at the end of a file.
Open(file) == file # <<>> /\ ~file[Len(file)].ended

\* What the next line can still cost: itself, and the line it joins.
AtStake ==
    IF ~Open(files.current) \/ Emitters({"newline"}) # {} THEN 0
    ELSE IF Whole(files.current[Len(files.current)]) THEN 2 ELSE 1

LossesPaid == Cardinality(Lost) + AtStake <= 2 * ringErrors

NewlineDue == Emitters({"newline"}) # {} => Open(files.current)

\* Whole lines that come at or after a stretch that is no text.
Hidden(file) == {file[i].lines[1] : i \in {j \in 1 .. Len(file) : Whole(file[j]) /\ \E q \in 1 .. j : file[q].torn}}

\* The files keep to their cap, and a task about to write has room.
FilesCapped ==
    /\ Len(files.rotated) <= RingCap /\ Len(files.current) <= RingCap
    /\ Emitters({"line"}) # {} => Len(files.current) + 1 <= RingCap

\* A whole stretch is one line, with its number.
LEMMA WholeIsLine ==
    ASSUME NEW file \in Seq(Stretches), NEW i \in 1 .. Len(file), Whole(file[i])
    PROVE  file[i].lines[1] \in 1 .. Events
  <1>1. file[i] \in Stretches
    OBVIOUS
  <1>2. PICK s \in Seq(0 .. Events) : s = file[i].lines
    BY <1>1 DEF Stretches
  <1>3. 1 \in 1 .. Len(s) /\ s[1] # 0
    BY <1>2 DEF Whole, Fragment
  <1>4. s[1] \in 0 .. Events
    BY <1>2, <1>3, ElementOfSeq, Zenon
  <1> QED
    BY <1>2, <1>3, <1>4, RingAssumption

\* A file is read to its end, or to before the first stretch that is no text.
LEMMA ReadToIs ==
    ASSUME NEW file \in Seq(Stretches)
    PROVE  /\ ReadTo(file) \in 0 .. Len(file)
           /\ \A i \in 1 .. Len(file) : i > ReadTo(file) => \E q \in 1 .. i : file[q].torn
  <1>1. PICK n \in Nat : n = Len(file)
    OBVIOUS
  <1>2. CASE TornAt(file) = {}
    BY <1>1, <1>2 DEF ReadTo
  <1>3. CASE TornAt(file) # {}
    <2>1. TornAt(file) \subseteq Nat /\ TornAt(file) \subseteq 1 .. n
      BY <1>1 DEF TornAt
    <2>2. \E i \in TornAt(file) : \A j \in TornAt(file) : i <= j
      BY <1>3, <2>1, LeastNumber
    <2>3. PICK first : first = CHOOSE i \in TornAt(file) : \A j \in TornAt(file) : i <= j
      OBVIOUS
    <2>4. first \in TornAt(file)
      BY <2>2, <2>3, Zenon
    <2>5. first \in 1 .. n /\ file[first].torn
      BY <1>1, <2>4 DEF TornAt
    <2>6. ReadTo(file) = first - 1
      BY <1>3, <2>3 DEF ReadTo
    <2> QED
      BY <1>1, <2>5, <2>6
  <1> QED
    BY <1>2, <1>3

\* A file hides no more than it holds, and nothing if all of it is text.
LEMMA HiddenFew ==
    ASSUME NEW file \in Seq(Stretches)
    PROVE  /\ IsFiniteSet(Hidden(file)) /\ Cardinality(Hidden(file)) \in Nat /\ Cardinality(Hidden(file)) <= Len(file)
           /\ TornAt(file) = {} => Cardinality(Hidden(file)) = 0
  <1>1. PICK n \in Nat : n = Len(file)
    OBVIOUS
  <1>2. PICK I : I = {j \in 1 .. Len(file) : Whole(file[j]) /\ \E q \in 1 .. j : file[q].torn}
    OBVIOUS
  <1>3. IsFiniteSet(I) /\ Cardinality(I) <= n /\ Cardinality(I) \in Nat
    <2>1. IsFiniteSet(1 .. n) /\ Cardinality(1 .. n) = n
      BY FS_Interval
    <2>2. I \in SUBSET (1 .. n)
      BY <1>1, <1>2
    <2> QED
      BY <2>1, <2>2, FS_Subset, FS_CardinalityType
  <1>4. PICK H : H = Hidden(file)
    OBVIOUS
  <1>5. H = {file[i].lines[1] : i \in I}
    BY <1>2, <1>4 DEF Hidden
  <1>6. PICK f : f = [i \in I |-> file[i].lines[1]]
    OBVIOUS
  <1>7. f \in Surjection(I, H)
    BY <1>5, <1>6 DEF Surjection
  <1>8. IsFiniteSet(H) /\ Cardinality(H) <= Cardinality(I) /\ Cardinality(H) \in Nat
    BY <1>3, <1>7, FS_Surjection, FS_CardinalityType
  <1>9. ASSUME TornAt(file) = {} PROVE Cardinality(H) = 0
    <2>1. \A q \in 1 .. n : ~file[q].torn
      BY <1>1, <1>9 DEF TornAt
    <2>2. \A j \in 1 .. n : \A q \in 1 .. j : q \in 1 .. n
      OBVIOUS
    <2>3. I = {}
      BY <1>1, <1>2, <2>1, <2>2
    <2>4. H = {}
      BY <1>5, <2>3
    <2> QED
      BY <2>4, FS_EmptySet
  <1>10. Cardinality(H) <= n
    BY <1>3, <1>8
  <1> QED
    BY <1>1, <1>4, <1>8, <1>9, <1>10

\* Lines of a set, rising, each once, with no other but the hidden ones missing.
Lists(s, V, H) ==
    /\ s \in Seq(0 .. Events)
    /\ \A i, j \in 1 .. Len(s) : i < j /\ s[i] # 0 /\ s[j] # 0 => s[i] < s[j]
    /\ \A i \in 1 .. Len(s) : s[i] # 0 => s[i] \in V
    /\ \A k \in V : k \in H \/ \E i \in 1 .. Len(s) : s[i] = k

\* A reader of a file gets its whole lines, rising, each once, up to where the text ends.
LEMMA ReadableIs ==
    ASSUME NEW file \in Seq(Stretches), Rising(file)
    PROVE  Lists(Readable(file), WholeLines(file), Hidden(file))
  <1>1. PICK n, m \in Nat : n = Len(file) /\ m = ReadTo(file) /\ m <= n
    BY ReadToIs
  <1>2. PICK s : s = Readable(file)
    OBVIOUS
  <1>3. s = [i \in 1 .. m |-> IF Whole(file[i]) THEN file[i].lines[1] ELSE 0]
    BY <1>1, <1>2 DEF Readable, Fragment
  <1>4. ASSUME NEW i \in 1 .. m
        PROVE  /\ i \in 1 .. n /\ s[i] \in 0 .. Events
               /\ Whole(file[i]) => s[i] = file[i].lines[1]
               /\ s[i] # 0 => Whole(file[i]) /\ s[i] = file[i].lines[1]
    <2>1. i \in 1 .. n
      BY <1>1
    <2>2. Whole(file[i]) => file[i].lines[1] \in 1 .. Events
      BY <1>1, <2>1, WholeIsLine
    <2>3. s[i] = IF Whole(file[i]) THEN file[i].lines[1] ELSE 0
      BY <1>3
    <2> QED
      BY <2>1, <2>2, <2>3, RingAssumption
  <1>5. s \in Seq(0 .. Events) /\ Len(s) = m
    <2>1. s \in [1 .. m -> 0 .. Events]
      BY <1>3, <1>4
    <2>2. s \in Seq(0 .. Events)
      <3>1. s \in UNION {[1 .. i -> 0 .. Events] : i \in Nat}
        BY <2>1, Zenon
      <3> QED
        BY <3>1, SeqDef, Zenon
    <2>3. DOMAIN s = 1 .. m /\ DOMAIN s = 1 .. Len(s) /\ Len(s) \in Nat
      BY <2>1, <2>2, LenProperties
    <2>4. Len(s) = m
      BY <2>3
    <2> QED
      BY <2>2, <2>4
  <1>6. ASSUME NEW i \in 1 .. m, NEW j \in 1 .. m, i < j, s[i] # 0, s[j] # 0 PROVE s[i] < s[j]
    BY <1>1, <1>4, <1>6 DEF Rising
  <1>7. ASSUME NEW i \in 1 .. m, s[i] # 0 PROVE s[i] \in WholeLines(file)
    BY <1>1, <1>4, <1>7 DEF WholeLines
  <1>8. ASSUME NEW k \in WholeLines(file) PROVE k \in Hidden(file) \/ \E i \in 1 .. m : s[i] = k
    <2>1. PICK i \in 1 .. Len(file) : Whole(file[i]) /\ k = file[i].lines[1]
      BY DEF WholeLines
    <2>2. CASE i <= m
      <3>1. i \in 1 .. m
        BY <1>1, <2>1, <2>2
      <3> QED
        BY <1>4, <2>1, <3>1
    <2>3. CASE i > m
      <3>1. \E q \in 1 .. i : file[q].torn
        BY <1>1, <2>3, ReadToIs
      <3> QED
        BY <2>1, <3>1 DEF Hidden
    <2> QED
      BY <1>1, <2>2, <2>3
  <1> QED
    BY <1>2, <1>5, <1>6, <1>7, <1>8 DEF Lists

\* Two files that rise, one after the other.
LEMMA ReadsBoth ==
    ASSUME NEW s, NEW u, NEW V, NEW W, NEW G, NEW H, Lists(s, V, G), Lists(u, W, H), \A v \in V, w \in W : v < w
    PROVE  Lists(s \o u, V \cup W, G \cup H)
  <1>0. /\ s \in Seq(0 .. Events) /\ u \in Seq(0 .. Events)
        /\ \A i, j \in 1 .. Len(s) : i < j /\ s[i] # 0 /\ s[j] # 0 => s[i] < s[j]
        /\ \A i, j \in 1 .. Len(u) : i < j /\ u[i] # 0 /\ u[j] # 0 => u[i] < u[j]
        /\ \A i \in 1 .. Len(s) : s[i] # 0 => s[i] \in V
        /\ \A i \in 1 .. Len(u) : u[i] # 0 => u[i] \in W
        /\ \A k \in V : k \in G \/ \E i \in 1 .. Len(s) : s[i] = k
        /\ \A k \in W : k \in H \/ \E i \in 1 .. Len(u) : u[i] = k
    BY DEF Lists
  <1> DEFINE both == s \o u
  <1>1. PICK m, n \in Nat : m = Len(s) /\ n = Len(u)
    BY <1>0
  <1>2. both \in Seq(0 .. Events) /\ Len(both) = m + n
    BY <1>0, <1>1, ConcatProperties
  <1>3. \A i \in 1 .. m + n : both[i] = IF i <= m THEN s[i] ELSE u[i - m]
    BY <1>0, <1>1, ConcatProperties
  <1> HIDE DEF both
  <1>4. ASSUME NEW i \in 1 .. m + n, ~(i <= m) PROVE i - m \in 1 .. n /\ both[i] = u[i - m]
    BY <1>3, <1>4
  <1>5. ASSUME NEW i \in 1 .. m + n, NEW j \in 1 .. m + n, i < j, both[i] # 0, both[j] # 0 PROVE both[i] < both[j]
    <2>1. CASE j <= m
      <3>1. i \in 1 .. Len(s) /\ j \in 1 .. Len(s) /\ both[i] = s[i] /\ both[j] = s[j]
        BY <1>1, <1>3, <1>5, <2>1
      <3> QED
        BY <1>0, <1>5, <3>1
    <2>2. CASE i <= m /\ ~(j <= m)
      <3>1. i \in 1 .. Len(s) /\ both[i] = s[i]
        BY <1>1, <1>3, <2>2
      <3>2. j - m \in 1 .. Len(u) /\ both[j] = u[j - m]
        BY <1>1, <1>4, <2>2
      <3>3. both[i] \in V /\ both[j] \in W
        BY <1>0, <1>5, <3>1, <3>2
      <3> QED
        BY <3>3
    <2>3. CASE ~(i <= m)
      <3>1. i - m \in 1 .. Len(u) /\ both[i] = u[i - m]
        BY <1>1, <1>4, <2>3
      <3>2. j - m \in 1 .. Len(u) /\ both[j] = u[j - m] /\ i - m < j - m
        BY <1>1, <1>4, <1>5, <2>3
      <3> QED
        BY <1>0, <1>5, <3>1, <3>2
    <2> QED
      BY <1>5, <2>1, <2>2, <2>3
  <1>6. ASSUME NEW i \in 1 .. m + n, both[i] # 0 PROVE both[i] \in V \cup W
    <2>1. CASE i <= m
      <3>1. i \in 1 .. Len(s) /\ both[i] = s[i]
        BY <1>1, <1>3, <2>1
      <3> QED
        BY <1>0, <1>6, <3>1
    <2>2. CASE ~(i <= m)
      <3>1. i - m \in 1 .. Len(u) /\ both[i] = u[i - m]
        BY <1>1, <1>4, <2>2
      <3> QED
        BY <1>0, <1>6, <3>1
    <2> QED
      BY <2>1, <2>2
  <1>7. ASSUME NEW k \in V \cup W PROVE k \in G \cup H \/ \E i \in 1 .. m + n : both[i] = k
    <2>1. ASSUME NEW i \in 1 .. Len(s) PROVE i \in 1 .. m + n /\ both[i] = s[i]
      BY <1>1, <1>3
    <2>2. ASSUME NEW i \in 1 .. Len(u) PROVE m + i \in 1 .. m + n /\ both[m + i] = u[i]
      <3>1. m + i \in 1 .. m + n /\ ~(m + i <= m) /\ (m + i) - m = i
        BY <1>1
      <3> QED
        BY <1>3, <3>1
    <2> QED
      BY <1>0, <2>1, <2>2, ZenonT(40)
  <1> QED
    BY <1>2, <1>5, <1>6, <1>7 DEF both, Lists

\* The whole ring, as it is read.
LEMMA RecentLinesAre ==
    ASSUME RingTypeOK, FilesInOrder
    PROVE  Lists(RecentLines, OnDisk, Hidden(files.rotated) \cup Hidden(files.current))
  <1>1. files.rotated \in Seq(Stretches) /\ files.current \in Seq(Stretches)
    BY DEF RingTypeOK
  <1>2. PICK s, u : s = Readable(files.rotated) /\ u = Readable(files.current)
    OBVIOUS
  <1>3. PICK V, W : V = WholeLines(files.rotated) /\ W = WholeLines(files.current)
    OBVIOUS
  <1>4. PICK G, H : G = Hidden(files.rotated) /\ H = Hidden(files.current)
    OBVIOUS
  <1>5. Lists(s, V, G) /\ Lists(u, W, H)
    BY <1>1, <1>2, <1>3, <1>4, ReadableIs DEF FilesInOrder
  <1>6. \A v \in V, w \in W : v < w
    BY <1>3 DEF FilesInOrder
  <1>7. RecentLines = s \o u /\ OnDisk = V \cup W
    BY <1>2, <1>3 DEF RecentLines, OnDisk
  <1> QED
    BY <1>4, <1>5, <1>6, <1>7, ReadsBoth

\* The three causes for which a line is not shown, counted.
LEMMA CausesCounted ==
    ASSUME NEW A, NEW B, NEW C, IsFiniteSet(A), IsFiniteSet(B), IsFiniteSet(C), NEW M, M \subseteq A \cup B \cup C
    PROVE  /\ Cardinality(A) \in Nat /\ Cardinality(B) \in Nat /\ Cardinality(C) \in Nat /\ Cardinality(M) \in Nat
           /\ Cardinality(M) <= Cardinality(A) + Cardinality(B) + Cardinality(C)
  <1>1. ASSUME NEW S, NEW T, IsFiniteSet(S), IsFiniteSet(T)
        PROVE  /\ IsFiniteSet(S \cup T) /\ Cardinality(S \cup T) \in Nat /\ Cardinality(S) \in Nat /\ Cardinality(T) \in Nat
               /\ Cardinality(S \cup T) <= Cardinality(S) + Cardinality(T)
    <2>1. /\ IsFiniteSet(S \cup T) /\ Cardinality(S \cup T) = Cardinality(S) + Cardinality(T) - Cardinality(S \cap T)
          /\ IsFiniteSet(S \cap T)
      BY <1>1, FS_Union, FS_Intersection
    <2>2. Cardinality(S) \in Nat /\ Cardinality(T) \in Nat /\ Cardinality(S \cap T) \in Nat /\ Cardinality(S \cup T) \in Nat
      BY <1>1, <2>1, FS_CardinalityType
    <2> QED
      BY <2>1, <2>2
  <1>2. PICK D : D = A \cup B
    OBVIOUS
  <1>3. IsFiniteSet(D) /\ Cardinality(D) \in Nat /\ Cardinality(D) <= Cardinality(A) + Cardinality(B)
    BY <1>1, <1>2
  <1>4. /\ IsFiniteSet(D \cup C) /\ Cardinality(D \cup C) \in Nat
        /\ Cardinality(D \cup C) <= Cardinality(D) + Cardinality(C)
    BY <1>1, <1>3
  <1>5. M \in SUBSET (D \cup C)
    BY <1>2
  <1>6. Cardinality(M) <= Cardinality(D \cup C) /\ Cardinality(M) \in Nat
    BY <1>4, <1>5, FS_Subset, FS_CardinalityType
  <1>7. Cardinality(A) \in Nat /\ Cardinality(B) \in Nat /\ Cardinality(C) \in Nat
    BY FS_CardinalityType
  <1> QED
    BY <1>3, <1>4, <1>6, <1>7

RecentTyped == recent \in [lines : Seq(0 .. Events), upTo : 0 .. Events, torn : 0 .. 2]

\* What the next state shows, spelled out.
LEMMA NextShown ==
    ASSUME NEW s, NEW up, NEW cut, NEW e, recent'.lines = s, recent'.upTo = up, recent'.torn = cut, ringErrors' = e,
           \A i, j \in 1 .. Len(s) : i < j /\ s[i] # 0 /\ s[j] # 0 => s[i] < s[j],
           \A i \in 1 .. Len(s) : s[i] # 0 =>
              Cardinality({k \in s[i] .. up : \A j \in {j \in 1 .. Len(s) : s[j] # 0} : s[j] # k}) <= 2 * e + RingCap * cut
    PROVE  RecentInOrder'
  <1>1. ShownWhole' = {j \in 1 .. Len(s) : s[j] # 0}
    BY DEF ShownWhole, Fragment
  <1>2. ASSUME NEW i PROVE MissingFrom(i)' = {k \in s[i] .. up : \A j \in {j \in 1 .. Len(s) : s[j] # 0} : s[j] # k}
    BY <1>1 DEF MissingFrom
  <1> QED
    BY <1>1, <1>2 DEF RecentInOrder

\* A reader is shown the last of them, with no more missing than the errors and the files cut short account for.
LEMMA ShownInOrder ==
    ASSUME RingTypeOK, FilesInOrder, LossesPaid, FilesCapped, IsFiniteSet(Lost), ReadsRecent,
           Len(attempts) \in 0 .. Events
    PROVE  RecentTyped' /\ RecentInOrder'
  <1>0. /\ ringErrors \in Nat /\ ringErrors' = ringErrors /\ Shown \in Nat /\ Events \in Nat /\ RingCap \in Nat
        /\ files.rotated \in Seq(Stretches) /\ files.current \in Seq(Stretches)
    BY RingAssumption DEF RingTypeOK, ReadsRecent
  <1>1. PICK all, H : all = RecentLines /\ H = Hidden(files.rotated) \cup Hidden(files.current)
    OBVIOUS
  <1>2. /\ all \in Seq(0 .. Events)
        /\ \A i, j \in 1 .. Len(all) : i < j /\ all[i] # 0 /\ all[j] # 0 => all[i] < all[j]
        /\ \A i \in 1 .. Len(all) : all[i] # 0 => all[i] \in OnDisk
        /\ \A k \in OnDisk : k \in H \/ \E i \in 1 .. Len(all) : all[i] = k
    BY <1>1, RecentLinesAre DEF Lists
  <1>21. Len(all) \in Nat
    BY <1>2
  <1>3. PICK skip \in Nat : skip = (IF Len(all) > Shown THEN Len(all) - Shown ELSE 0)
    <2>1. Len(all) > Shown => Len(all) - Shown \in Nat
      BY <1>0, <1>21
    <2>2. (IF Len(all) > Shown THEN Len(all) - Shown ELSE 0) \in Nat
      BY <2>1
    <2> QED
      BY <2>2, Zenon
  <1>4. skip <= Len(all) /\ Len(all) \in Nat
    BY <1>0, <1>21, <1>3
  <1>5. PICK s : s = SubSeq(all, skip + 1, Len(all))
    OBVIOUS
  <1>51. PICK up, cut : up = Len(attempts) /\ cut = CutShort
    OBVIOUS
  <1>52. up \in 0 .. Events /\ up \in Nat /\ cut \in 0 .. 2
    BY <1>0, <1>51 DEF CutShort
  <1>6. recent' = [lines |-> s, upTo |-> up, torn |-> cut]
    BY <1>1, <1>3, <1>5, <1>51 DEF ReadsRecent
  <1>7. /\ s \in Seq(0 .. Events) /\ Len(s) = Len(all) - skip
        /\ \A i \in 1 .. Len(all) - skip : s[i] = all[skip + i]
    <2>1. ASSUME NEW i \in (skip + 1) .. Len(all) PROVE all[i] \in 0 .. Events
      <3>1. i \in 1 .. Len(all)
        BY <1>3, <1>4
      <3> QED
        BY <1>2, <3>1, ElementOfSeq, Zenon
    <2>2. s \in Seq(0 .. Events)
      BY <1>2, <1>5, <2>1, SubSeqProperties
    <2>3. Len(s) = Len(all) - skip
      BY <1>2, <1>4, <1>5, <2>1, SubSeqProperties
    <2>4. \A i \in 1 .. Len(all) - skip : s[i] = all[skip + i]
      BY <1>2, <1>3, <1>4, <1>5, <2>1, SubSeqProperties, SMTT(30)
    <2> QED
      BY <2>2, <2>3, <2>4
  <1>8. \A i, j \in 1 .. Len(s) : i < j /\ s[i] # 0 /\ s[j] # 0 => s[i] < s[j]
    BY <1>2, <1>4, <1>7, SMTT(30)
  <1>9. ASSUME NEW i \in 1 .. Len(s), s[i] # 0
        PROVE  Cardinality({k \in s[i] .. up : \A j \in {j \in 1 .. Len(s) : s[j] # 0} : s[j] # k})
                 <= 2 * ringErrors + RingCap * cut
    <2>1. PICK M : M = {k \in s[i] .. up : \A j \in {j \in 1 .. Len(s) : s[j] # 0} : s[j] # k}
      OBVIOUS
    <2>2. skip + i \in 1 .. Len(all) /\ s[i] = all[skip + i]
      BY <1>4, <1>7
    <2>3. s[i] \in OnDisk /\ s[i] \in 1 .. up
      BY <1>2, <1>9, <1>51, <2>2 DEF FilesInOrder
    <2>4. ASSUME NEW k \in M PROVE k \in Lost \cup H
      <3>1. k \in 1 .. up /\ s[i] <= k /\ k # 0
        BY <1>52, <2>1, <2>3, <2>4
      <3>2. k # s[i]
        BY <1>9, <2>1, <2>4
      <3>3. CASE k \notin OnDisk
        <4>1. s[i] < k
          BY <1>52, <2>3, <3>1, <3>2
        <4> QED
          BY <1>51, <2>3, <3>1, <3>3, <4>1 DEF Lost
      <3>4. CASE k \in OnDisk /\ k \notin H
        <4>1. PICK p \in 1 .. Len(all) : all[p] = k
          BY <1>2, <3>4
        <4>2. skip + i < p
          <5> SUFFICES ASSUME p <= skip + i PROVE FALSE
            BY <1>4, <2>2
          <5>1. p # skip + i
            BY <2>2, <3>2, <4>1
          <5>2. p < skip + i
            BY <1>4, <2>2, <5>1
          <5>3. k < s[i]
            BY <1>2, <1>9, <2>2, <3>1, <4>1, <5>2
          <5> QED
            BY <1>52, <2>3, <3>1, <5>3
        <4>3. p - skip \in 1 .. Len(s) /\ s[p - skip] = all[p]
          BY <1>4, <1>7, <4>1, <4>2, <2>2
        <4>4. s[p - skip] # k
          BY <2>1, <2>4, <3>1, <4>1, <4>3
        <4> QED
          BY <4>1, <4>3, <4>4
      <3> QED
        BY <3>3, <3>4
    <2>5. PICK A, B, C : A = Lost /\ B = Hidden(files.rotated) /\ C = Hidden(files.current)
      OBVIOUS
    <2>6. M \subseteq A \cup B \cup C
      BY <1>1, <2>4, <2>5
    <2>7. /\ IsFiniteSet(B) /\ Cardinality(B) <= Len(files.rotated)
          /\ TornAt(files.rotated) = {} => Cardinality(B) = 0
      BY <1>0, <2>5, HiddenFew
    <2>8. /\ IsFiniteSet(C) /\ Cardinality(C) <= Len(files.current)
          /\ TornAt(files.current) = {} => Cardinality(C) = 0
      BY <1>0, <2>5, HiddenFew
    <2>9. /\ Cardinality(A) \in Nat /\ Cardinality(B) \in Nat /\ Cardinality(C) \in Nat /\ Cardinality(M) \in Nat
          /\ Cardinality(M) <= Cardinality(A) + Cardinality(B) + Cardinality(C)
      BY <2>5, <2>6, <2>7, <2>8, CausesCounted
    <2>10. PICK a, b, c, m, e, cap \in Nat : /\ a = Cardinality(A) /\ b = Cardinality(B) /\ c = Cardinality(C)
                                             /\ m = Cardinality(M) /\ e = ringErrors /\ cap = RingCap
      BY <1>0, <2>9
    <2>11. m <= a + b + c
      BY <2>9, <2>10
    <2>12. a <= 2 * e
      <3>1. AtStake \in Nat
        BY DEF AtStake
      <3> QED
        BY <2>5, <2>10, <3>1, SMTT(30) DEF LossesPaid
    <2>13. b <= cap /\ c <= cap
      <3>1. Len(files.rotated) <= cap /\ Len(files.current) <= cap /\ Len(files.rotated) \in Nat /\ Len(files.current) \in Nat
        BY <1>0, <2>10, SMTT(30) DEF FilesCapped
      <3> QED
        BY <2>7, <2>8, <2>10, <3>1, SMTT(30)
    <2>14. PICK x, y \in 0 .. 1 : cut = x + y /\ (x = 0 => b = 0) /\ (y = 0 => c = 0)
      <3>1. PICK x \in 0 .. 1 : x = IF TornAt(files.rotated) = {} THEN 0 ELSE 1
        OBVIOUS
      <3>2. PICK y \in 0 .. 1 : y = IF TornAt(files.current) = {} THEN 0 ELSE 1
        OBVIOUS
      <3>3. cut = x + y
        BY <1>51, <3>1, <3>2 DEF CutShort
      <3> QED
        BY <2>7, <2>8, <2>10, <3>1, <3>2, <3>3
    <2>15. b + c <= cap * cut
      <3>1. cap * 0 = 0 /\ cap * 1 = cap /\ cap * 2 = cap + cap
        OBVIOUS
      <3>2. cut = 0 \/ cut = 1 \/ cut = 2
        BY <1>52
      <3> QED
        BY <2>13, <2>14, <3>1, <3>2
    <2>16. cap * cut \in Nat
      BY <1>52
    <2>17. m <= 2 * e + cap * cut
      BY <2>11, <2>12, <2>15, <2>16
    <2> QED
      BY <2>1, <2>10, <2>17
  <1>10. recent'.lines = s /\ recent'.upTo = up /\ recent'.torn = cut
    BY <1>6
  <1>11. RecentInOrder'
    BY <1>0, <1>8, <1>9, <1>10, NextShown, SMTT(30)
  <1>12. RecentTyped'
    BY <1>6, <1>7, <1>52 DEF RecentTyped
  <1> QED
    BY <1>11, <1>12

\* One task moves: how many are at some places changes by that one.
LEMMA EmittersCount ==
    ASSUME NEW t \in EventTasks, NEW P, \A u \in EventTasks \ {t} : emitter'[u].at = emitter[u].at
    PROVE  /\ IsFiniteSet(Emitters(P)) /\ Cardinality(Emitters(P)) \in Nat
           /\ IsFiniteSet(Emitters(P)') /\ Cardinality(Emitters(P)') \in Nat
           /\ Cardinality(Emitters(P)') = Cardinality(Emitters(P)) + (IF emitter'[t].at \in P THEN 1 ELSE 0)
                                                                  - (IF emitter[t].at \in P THEN 1 ELSE 0)
  <1>1. PICK A : A = Emitters(P)
    OBVIOUS
  <1>2. PICK B : B = Emitters(P)'
    OBVIOUS
  <1>3. A \in SUBSET EventTasks /\ IsFiniteSet(EventTasks)
    BY <1>1, RingAssumption DEF Emitters
  <1>4. IsFiniteSet(A) /\ Cardinality(A) \in Nat
    BY <1>3, FS_Subset, FS_CardinalityType
  <1>5. t \in A <=> emitter[t].at \in P
    BY <1>1 DEF Emitters
  <1>6. CASE emitter'[t].at \in P
    <2>1. B = A \cup {t}
      BY <1>1, <1>2, <1>6 DEF Emitters
    <2>2. IsFiniteSet(B) /\ Cardinality(B) = IF t \in A THEN Cardinality(A) ELSE Cardinality(A) + 1
      BY <1>4, <2>1, FS_AddElement
    <2> QED
      BY <1>1, <1>2, <1>4, <1>5, <1>6, <2>2
  <1>7. CASE emitter'[t].at \notin P
    <2>1. B = A \ {t}
      BY <1>1, <1>2, <1>7 DEF Emitters
    <2>2. IsFiniteSet(B) /\ Cardinality(B) = IF t \in A THEN Cardinality(A) - 1 ELSE Cardinality(A)
      BY <1>4, <2>1, FS_RemoveElement
    <2>3. Cardinality(B) \in Nat
      BY <2>2, FS_CardinalityType
    <2> QED
      BY <1>1, <1>2, <1>4, <1>5, <1>7, <2>2, <2>3
  <1> QED
    BY <1>6, <1>7

\* What tasks on their way to print will report, one element for each event withheld.
WithheldCarried == {p \in Emitters({"count"}) \X (1 .. Events) : p[2] <= emitter[p[1]].withheld}

\* The account, by its parts.
LEMMA AccountIs ==
    WithheldAccounted <=>
        /\ tally.calls = tally.lines + Cardinality(Emitters({"count"}))
                           + tally.reported + Cardinality(WithheldCarried) + budget.suppressed
        /\ tally.calls = tally.counted + Cardinality(Emitters({"count"})) + Cardinality(Emitters({"countOnly"}))
  <1>1. Emitters({"count"}) = {t \in EventTasks : emitter[t].at = "count"}
    BY DEF Emitters
  <1>2. Emitters({"countOnly"}) = {t \in EventTasks : emitter[t].at = "countOnly"}
    BY DEF Emitters
  <1> QED
    BY <1>1, <1>2, Zenon DEF WithheldAccounted, WithheldCarried

\* The load of one task beside the others'.
LEMMA OneLoad ==
    ASSUME NEW C, IsFiniteSet(C), NEW t, \A p \in C : p[1] # t, NEW w \in Nat
    PROVE  /\ IsFiniteSet(C \cup ({t} \X (1 .. w)))
           /\ Cardinality(C \cup ({t} \X (1 .. w))) = Cardinality(C) + w
  <1>1. IsFiniteSet(1 .. w) /\ Cardinality(1 .. w) = w
    BY FS_Interval
  <1>2. IsFiniteSet({t}) /\ Cardinality({t}) = 1
    BY FS_Singleton
  <1>3. PICK D : D = {t} \X (1 .. w)
    OBVIOUS
  <1>4. IsFiniteSet(D) /\ Cardinality(D) = w
    <2>1. Cardinality(D) = Cardinality({t}) * Cardinality(1 .. w) /\ IsFiniteSet(D)
      BY <1>1, <1>2, <1>3, FS_Product
    <2> QED
      BY <1>1, <1>2, <2>1
  <1>5. C \cap D = {}
    BY <1>3
  <1>6. IsFiniteSet(C \cup D) /\ Cardinality(C \cup D) = Cardinality(C) + Cardinality(D) - Cardinality(C \cap D)
    BY <1>4, FS_Union
  <1>7. Cardinality(C \cap D) = 0 /\ Cardinality(C) \in Nat
    BY <1>5, FS_EmptySet, FS_CardinalityType
  <1> QED
    BY <1>3, <1>4, <1>6, <1>7

LoadsOf(E, withheld) == {p \in E \X (1 .. Events) : p[2] <= withheld[p[1]]}

\* The load of a set of tasks with one more.
LEMMA LoadsAdd ==
    ASSUME NEW E, IsFiniteSet(E), NEW t, t \notin E, NEW f, NEW g, \A u \in E : g[u] = f[u], NEW w \in 0 .. Events, g[t] = w
    PROVE  /\ IsFiniteSet(LoadsOf(E, f)) /\ Cardinality(LoadsOf(E, f)) \in Nat
           /\ Cardinality(LoadsOf(E \cup {t}, g)) = Cardinality(LoadsOf(E, f)) + w
  <1>1. PICK C : C = LoadsOf(E, f)
    OBVIOUS
  <1>2. Events \in Nat
    BY RingAssumption
  <1>3. IsFiniteSet(C) /\ Cardinality(C) \in Nat
    <2>1. IsFiniteSet(1 .. Events)
      BY <1>2, FS_Interval
    <2>2. IsFiniteSet(E \X (1 .. Events))
      BY <2>1, FS_Product
    <2>3. C \in SUBSET (E \X (1 .. Events))
      BY <1>1 DEF LoadsOf
    <2> QED
      BY <2>2, <2>3, FS_Subset, FS_CardinalityType
  <1>4. \A p \in C : p[1] # t
    BY <1>1 DEF LoadsOf
  <1>5. LoadsOf(E \cup {t}, g) = C \cup ({t} \X (1 .. w))
    <2>1. ASSUME NEW p \in LoadsOf(E \cup {t}, g) PROVE p \in C \cup ({t} \X (1 .. w))
      <3>1. p \in (E \cup {t}) \X (1 .. Events) /\ p[2] <= g[p[1]]
        BY <2>1 DEF LoadsOf
      <3>2. CASE p[1] \in E
        BY <1>1, <3>1, <3>2 DEF LoadsOf
      <3>3. CASE p[1] = t
        <4>1. p[2] \in 1 .. w
          BY <1>2, <3>1, <3>3
        <4> QED
          BY <3>1, <3>3, <4>1
      <3> QED
        BY <3>1, <3>2, <3>3
    <2>2. ASSUME NEW p \in C PROVE p \in LoadsOf(E \cup {t}, g)
      BY <1>1, <2>2 DEF LoadsOf
    <2>3. ASSUME NEW p \in {t} \X (1 .. w) PROVE p \in LoadsOf(E \cup {t}, g)
      <3>1. p[1] = t /\ p[2] \in 1 .. Events /\ p[2] <= w /\ p = <<p[1], p[2]>>
        BY <1>2, <2>3
      <3> QED
        BY <3>1 DEF LoadsOf
    <2> QED
      BY <2>1, <2>2, <2>3
  <1>6. Cardinality(C \cup ({t} \X (1 .. w))) = Cardinality(C) + w
    <2>1. w \in Nat
      BY <1>2
    <2> QED
      BY <1>3, <1>4, <2>1, OneLoad, ZenonT(40)
  <1> QED
    BY <1>1, <1>3, <1>5, <1>6

Withheld == [t \in EventTasks |-> emitter[t].withheld]

\* What is carried, as loads.
LEMMA CarriedIs == WithheldCarried = LoadsOf(Emitters({"count"}), Withheld)
  <1>1. \A p \in Emitters({"count"}) \X (1 .. Events) : Withheld[p[1]] = emitter[p[1]].withheld
    BY DEF Emitters, Withheld
  <1> QED
    BY <1>1 DEF WithheldCarried, LoadsOf

\* A task that is let through takes its load on, one that prints takes it off, and the others keep theirs.
LEMMA CarriedMoves ==
    ASSUME NEW t \in EventTasks, \A u \in EventTasks \ {t} : emitter'[u] = emitter[u],
           emitter[t].withheld \in 0 .. Events, emitter'[t].withheld \in 0 .. Events
    PROVE  /\ Cardinality(WithheldCarried) \in Nat
           /\ Cardinality(WithheldCarried') = Cardinality(WithheldCarried)
                + (IF emitter'[t].at = "count" THEN emitter'[t].withheld ELSE 0)
                - (IF emitter[t].at = "count" THEN emitter[t].withheld ELSE 0)
           /\ emitter[t].at = "count" => emitter[t].withheld <= Cardinality(WithheldCarried)
  <1>1. PICK E : E = Emitters({"count"}) \ {t}
    OBVIOUS
  <1>2. E = Emitters({"count"})' \ {t}
    BY <1>1 DEF Emitters
  <1>3. IsFiniteSet(E)
    <2>1. E \in SUBSET EventTasks /\ IsFiniteSet(EventTasks)
      BY <1>1, RingAssumption DEF Emitters
    <2> QED
      BY <2>1, FS_Subset
  <1>4. PICK f : f = Withheld
    OBVIOUS
  <1>5. PICK g : g = Withheld'
    OBVIOUS
  <1>6. /\ f[t] = emitter[t].withheld /\ g[t] = emitter'[t].withheld
        /\ \A u \in E : g[u] = f[u]
    BY <1>1, <1>4, <1>5 DEF Withheld, Emitters
  <1>7. PICK v \in 0 .. Events, w \in 0 .. Events : v = f[t] /\ w = g[t]
    BY <1>6
  <1>8. PICK c \in Nat : c = Cardinality(LoadsOf(E, f))
    BY <1>1, <1>3, <1>6, <1>7, LoadsAdd
  <1>9. Cardinality(LoadsOf(E \cup {t}, f)) = c + v /\ Cardinality(LoadsOf(E \cup {t}, g)) = c + w
    <2>1. t \notin E /\ f[t] = v /\ g[t] = w
      BY <1>1, <1>7
    <2>2. Cardinality(LoadsOf(E \cup {t}, f)) = Cardinality(LoadsOf(E, f)) + v
      BY <1>3, <1>7, <2>1, LoadsAdd
    <2>3. Cardinality(LoadsOf(E \cup {t}, g)) = Cardinality(LoadsOf(E, f)) + w
      BY <1>3, <1>6, <1>7, <2>1, LoadsAdd, SMTT(30)
    <2> QED
      BY <1>8, <2>2, <2>3
  <1>10. LoadsOf(E, g) = LoadsOf(E, f)
    BY <1>6 DEF LoadsOf
  <1>11. Emitters({"count"}) = IF emitter[t].at = "count" THEN E \cup {t} ELSE E
    BY <1>1 DEF Emitters
  <1>12. Emitters({"count"})' = IF emitter'[t].at = "count" THEN E \cup {t} ELSE E
    BY <1>2 DEF Emitters
  <1>13. Cardinality(WithheldCarried) = c + (IF emitter[t].at = "count" THEN v ELSE 0)
    BY <1>4, <1>8, <1>9, <1>11, CarriedIs, RingAssumption
  <1>14. Cardinality(WithheldCarried') = c + (IF emitter'[t].at = "count" THEN w ELSE 0)
    <2>1. WithheldCarried' = LoadsOf(Emitters({"count"})', g)
      <3>1. \A p \in Emitters({"count"})' \X (1 .. Events) : g[p[1]] = emitter'[p[1]].withheld
        BY <1>5 DEF Emitters, Withheld
      <3> QED
        BY <3>1 DEF WithheldCarried, LoadsOf
    <2> QED
      BY <1>8, <1>9, <1>10, <1>12, <2>1, RingAssumption
  <1> QED
    BY <1>6, <1>7, <1>8, <1>13, <1>14, RingAssumption

EmitterPlaces == {"idle", "count", "countOnly", "wait", "size", "line", "newline"}

\* What is counted, with its kinds.
CountsTyped ==
    /\ emitter \in [EventTasks -> [at : EmitterPlaces, withheld : 0 .. Events]]
    /\ budget \in [window : 0 .. Windows, used : 0 .. BudgetLimit, suppressed : 0 .. Events]
    /\ tally \in [calls : 0 .. Events, counted : 0 .. Events, lines : 0 .. Events, reported : 0 .. Events]
    /\ ringLock \in EventTasks \cup {Free}
    /\ attempts \in Seq(1 .. Events)
    /\ ringErrors \in 0 .. Events

RingCounts == CountsTyped /\ LockHeld /\ CarriesOnly /\ GivenToRing /\ WithheldAccounted

Bit(b) == IF b THEN 1 ELSE 0

\* The five numbers of tasks and of events withheld that the counts depend on: at count, at countOnly, on the way
\* to a line, at newline, carried.
CountsAre(c, o, q, l, w) ==
    /\ c = Cardinality(Emitters({"count"})) /\ o = Cardinality(Emitters({"countOnly"}))
    /\ q = Cardinality(Emitters({"wait", "size", "line"})) /\ l = Cardinality(Emitters({"newline"}))
    /\ w = Cardinality(WithheldCarried)

\* The accounts, of these numbers.
Balance(calls, counted, lines, reported, suppressed, given, errors, c, o, q, l, w) ==
    /\ calls = lines + c + reported + w + suppressed
    /\ calls = counted + c + o
    /\ lines = given + q
    /\ errors + l <= given

\* The counts of a state balance.
Balanced(c, o, q, l, w) ==
    Balance(tally.calls, tally.counted, tally.lines, tally.reported, budget.suppressed, Len(attempts), ringErrors, c, o, q, l, w)

\* What a task's move does to these numbers.
Shifted(old, new, load, next, c, o, q, l, w, c1, o1, q1, l1, w1) ==
    /\ c1 = c + Bit(new = "count") - Bit(old = "count")
    /\ o1 = o + Bit(new = "countOnly") - Bit(old = "countOnly")
    /\ q1 = q + Bit(new \in {"wait", "size", "line"}) - Bit(old \in {"wait", "size", "line"})
    /\ l1 = l + Bit(new = "newline") - Bit(old = "newline")
    /\ w1 = w + (IF new = "count" THEN next ELSE 0) - (IF old = "count" THEN load ELSE 0)
    /\ old = "count" => load <= w

\* One task moves, and every count follows it.
LEMMA CountsMove ==
    ASSUME RingCounts, NEW t \in EventTasks, emitter' \in [EventTasks -> [at : EmitterPlaces, withheld : 0 .. Events]],
           \A u \in EventTasks \ {t} : emitter'[u] = emitter[u]
    PROVE  \E c, o, q, l, w, c1, o1, q1, l1, w1 \in Nat :
             /\ Balanced(c, o, q, l, w) /\ CountsAre(c1, o1, q1, l1, w1)'
             /\ Shifted(emitter[t].at, emitter'[t].at, emitter[t].withheld, emitter'[t].withheld,
                        c, o, q, l, w, c1, o1, q1, l1, w1)
  <1>0. PICK old, new : old = emitter[t].at /\ new = emitter'[t].at
    OBVIOUS
  <1>1. /\ emitter[t] \in [at : EmitterPlaces, withheld : 0 .. Events]
        /\ emitter'[t] \in [at : EmitterPlaces, withheld : 0 .. Events]
    BY DEF RingCounts, CountsTyped
  <1>2. emitter[t].withheld \in 0 .. Events /\ emitter'[t].withheld \in 0 .. Events /\ Events \in Nat
    BY <1>1, RingAssumption
  <1>3. \A u \in EventTasks \ {t} : emitter'[u].at = emitter[u].at
    OBVIOUS
  <1>4. ASSUME NEW P
        PROVE  /\ Cardinality(Emitters(P)) \in Nat /\ Cardinality(Emitters(P)') \in Nat
               /\ Cardinality(Emitters(P)') = Cardinality(Emitters(P)) + Bit(new \in P) - Bit(old \in P)
    BY <1>0, <1>3, EmittersCount DEF Bit
  <1>5. PICK c \in Nat, c1 \in Nat : /\ c = Cardinality(Emitters({"count"})) /\ c1 = Cardinality(Emitters({"count"})')
                                     /\ c1 = c + Bit(new \in {"count"}) - Bit(old \in {"count"})
    BY <1>4
  <1>6. PICK o \in Nat, o1 \in Nat : /\ o = Cardinality(Emitters({"countOnly"})) /\ o1 = Cardinality(Emitters({"countOnly"})')
                                     /\ o1 = o + Bit(new \in {"countOnly"}) - Bit(old \in {"countOnly"})
    BY <1>4
  <1>7. PICK q \in Nat, q1 \in Nat :
          /\ q = Cardinality(Emitters({"wait", "size", "line"})) /\ q1 = Cardinality(Emitters({"wait", "size", "line"})')
          /\ q1 = q + Bit(new \in {"wait", "size", "line"}) - Bit(old \in {"wait", "size", "line"})
    BY <1>4
  <1>8. PICK l \in Nat, l1 \in Nat : /\ l = Cardinality(Emitters({"newline"})) /\ l1 = Cardinality(Emitters({"newline"})')
                                     /\ l1 = l + Bit(new \in {"newline"}) - Bit(old \in {"newline"})
    BY <1>4
  <1>9. /\ Cardinality(WithheldCarried) \in Nat
        /\ Cardinality(WithheldCarried') = Cardinality(WithheldCarried) + (IF new = "count" THEN emitter'[t].withheld ELSE 0)
                                                        - (IF old = "count" THEN emitter[t].withheld ELSE 0)
        /\ old = "count" => emitter[t].withheld <= Cardinality(WithheldCarried)
    BY <1>0, <1>2, CarriedMoves
  <1>10. Cardinality(WithheldCarried') \in Nat
    <2>1. PICK x \in Nat, y \in Nat, z \in Nat :
            /\ x = Cardinality(WithheldCarried) /\ y = (IF new = "count" THEN emitter'[t].withheld ELSE 0)
            /\ z = (IF old = "count" THEN emitter[t].withheld ELSE 0) /\ z <= x
      BY <1>2, <1>9
    <2>2. Cardinality(WithheldCarried') = x + y - z
      BY <1>9, <2>1
    <2> QED
      BY <2>1, <2>2
  <1>11. PICK w \in Nat, w1 \in Nat : w = Cardinality(WithheldCarried) /\ w1 = Cardinality(WithheldCarried')
    BY <1>9, <1>10
  <1>12. Balanced(c, o, q, l, w)
    <2>1. /\ tally.calls = tally.lines + c + tally.reported + w + budget.suppressed
          /\ tally.calls = tally.counted + c + o
      BY <1>5, <1>6, <1>11, AccountIs DEF RingCounts
    <2>2. tally.lines = Len(attempts) + q /\ ringErrors + l <= Len(attempts)
      BY <1>7, <1>8 DEF RingCounts, GivenToRing
    <2> QED
      BY <2>1, <2>2 DEF Balanced, Balance
  <1>13. CountsAre(c1, o1, q1, l1, w1)'
    BY <1>5, <1>6, <1>7, <1>8, <1>11 DEF CountsAre
  <1>14. Shifted(old, new, emitter[t].withheld, emitter'[t].withheld, c, o, q, l, w, c1, o1, q1, l1, w1)
    BY <1>5, <1>6, <1>7, <1>8, <1>9, <1>11 DEF Shifted
  <1> QED
    BY <1>0, <1>12, <1>13, <1>14

\* The account in the next state.
LEMMA AccountNext ==
    ASSUME /\ tally'.calls = tally'.lines + Cardinality(Emitters({"count"})')
                               + tally'.reported + Cardinality(WithheldCarried') + budget'.suppressed
           /\ tally'.calls = tally'.counted + Cardinality(Emitters({"count"})') + Cardinality(Emitters({"countOnly"})')
    PROVE  WithheldAccounted'
  <1>1. Emitters({"count"})' = {t \in EventTasks : emitter'[t].at = "count"}
    BY DEF Emitters
  <1>2. Emitters({"countOnly"})' = {t \in EventTasks : emitter'[t].at = "countOnly"}
    BY DEF Emitters
  <1> QED
    BY <1>1, <1>2, Zenon DEF WithheldAccounted, WithheldCarried

\* The numbers of a state.
LEMMA RingNumbers ==
    ASSUME RingCounts
    PROVE  /\ tally.calls \in Nat /\ tally.calls <= Events /\ tally.counted \in Nat /\ tally.counted <= Events
           /\ tally.lines \in Nat /\ tally.lines <= Events /\ tally.reported \in Nat /\ tally.reported <= Events
           /\ budget.suppressed \in Nat /\ budget.suppressed <= Events
           /\ budget.used \in Nat /\ budget.used <= BudgetLimit
           /\ budget.window \in Nat /\ budget.window <= Windows
           /\ ringErrors \in Nat /\ ringErrors <= Events /\ Len(attempts) \in Nat
           /\ Events \in Nat /\ Windows \in Nat /\ BudgetLimit \in Nat /\ 0 \in 0 .. BudgetLimit /\ 0 \in 0 .. Events
  <1>1. Events \in Nat /\ Windows \in Nat /\ BudgetLimit \in Nat
    BY RingAssumption
  <1>2. CountsTyped
    BY DEF RingCounts
  <1>3. /\ tally.calls \in 0 .. Events /\ tally.counted \in 0 .. Events /\ tally.lines \in 0 .. Events
        /\ tally.reported \in 0 .. Events /\ budget.suppressed \in 0 .. Events
        /\ budget.used \in 0 .. BudgetLimit /\ budget.window \in 0 .. Windows /\ ringErrors \in 0 .. Events
        /\ Len(attempts) \in Nat
    BY <1>2 DEF CountsTyped
  <1> QED
    BY <1>1, <1>3, SMTT(30)

\* What a task that moves leaves to be shown: the counts of the next state.
LEMMA CountsNext ==
    ASSUME RingCounts, NEW t \in EventTasks, CountsTyped',
           \A u \in EventTasks \ {t} : emitter'[u] = emitter[u],
           emitter'[t].at # "count" => emitter'[t].withheld = 0,
           emitter'[t].at \in {"size", "line", "newline"} <=> ringLock' = t,
           ringLock' = ringLock \/ (ringLock' = Free /\ ringLock = t) \/ (ringLock = Free /\ ringLock' = t),
           NEW c1, NEW o1, NEW q1, NEW l1, NEW w1, CountsAre(c1, o1, q1, l1, w1)', Balanced(c1, o1, q1, l1, w1)'
    PROVE  RingCounts'
  <1>1. WithheldAccounted'
    BY AccountNext DEF CountsAre, Balanced, Balance
  <1>2. GivenToRing'
    BY DEF GivenToRing, CountsAre, Balanced, Balance
  <1>3. CarriesOnly'
    BY DEF RingCounts, CarriesOnly
  <1>4. LockHeld'
    <2>1. Free \notin EventTasks
      BY RingAssumption
    <2>2. LockHeld
      BY DEF RingCounts
    <2> SUFFICES ASSUME NEW u \in EventTasks
                 PROVE  emitter'[u].at \in {"size", "line", "newline"} <=> ringLock' = u
      BY DEF LockHeld
    <2>3. CASE u = t
      BY <2>3
    <2>4. CASE u # t
      <3>1. emitter'[u].at \in {"size", "line", "newline"} <=> ringLock = u
        BY <2>2, <2>4 DEF LockHeld
      <3>2. ringLock = u <=> ringLock' = u
        BY <2>1, <2>4
      <3> QED
        BY <3>1, <3>2
    <2> QED
      BY <2>3, <2>4
  <1> QED
    BY <1>1, <1>2, <1>3, <1>4 DEF RingCounts

\* Let through or withheld, an event is in one of the counts.
LEMMA AllowCounts ==
    ASSUME RingCounts, NEW t \in EventTasks, Allow(t)
    PROVE  RingCounts' /\ Emitters({"newline"})' = Emitters({"newline"})
  <1>0. RingCounts /\ CountsTyped /\ LockHeld /\ CarriesOnly /\ GivenToRing
    BY DEF RingCounts
  <1>1. PICK win \in budget.window .. Windows :
          LET b == Current(budget, win)
          IN IF b.used >= BudgetLimit
               THEN /\ budget' = [b EXCEPT !.suppressed = @ + 1]
                    /\ EmitterGoes(t, "countOnly")
               ELSE /\ budget' = [b EXCEPT !.used = @ + 1, !.suppressed = TakesSuppressed(b)]
                    /\ emitter' = [emitter EXCEPT ![t] = [at |-> "count", withheld |-> b.suppressed]]
    BY DEF Allow
  <1>2. PICK b : b = Current(budget, win)
    OBVIOUS
  <1>3. /\ b \in [window : 0 .. Windows, used : 0 .. BudgetLimit, suppressed : 0 .. Events]
        /\ b.suppressed = budget.suppressed
    <2>1. win \in 0 .. Windows /\ 0 \in 0 .. BudgetLimit
      BY RingNumbers, <1>1
    <2>2. b = [budget EXCEPT !.window = win, !.used = 0] \/ b = budget
      BY <1>2 DEF Current
    <2>3. budget \in [window : 0 .. Windows, used : 0 .. BudgetLimit, suppressed : 0 .. Events]
      BY <1>0 DEF CountsTyped
    <2> QED
      BY <2>1, <2>2, <2>3
  <1>4. /\ emitter[t].at = "idle" /\ tally.calls < Events /\ tally' = [tally EXCEPT !.calls = @ + 1]
        /\ UNCHANGED <<ringLock, files, attempts, ringErrors, recent>>
    BY DEF Allow
  <1>5. /\ tally' \in [calls : 0 .. Events, counted : 0 .. Events, lines : 0 .. Events, reported : 0 .. Events]
        /\ tally'.calls = tally.calls + 1 /\ tally'.counted = tally.counted
        /\ tally'.lines = tally.lines /\ tally'.reported = tally.reported
    <2>1. tally.calls + 1 \in 0 .. Events
      BY <1>4, RingNumbers, SMTT(30)
    <2>2. tally \in [calls : 0 .. Events, counted : 0 .. Events, lines : 0 .. Events, reported : 0 .. Events]
      BY <1>0 DEF CountsTyped
    <2> QED
      BY <1>4, <2>1, <2>2
  <1>6. emitter[t] \in [at : EmitterPlaces, withheld : 0 .. Events] /\ emitter[t].withheld = 0
    BY <1>0, <1>4 DEF CountsTyped, CarriesOnly
  <1>7. ringLock # t
    BY <1>0, <1>4 DEF LockHeld
  <1>8. PICK calls, counted, lines, reported, x, given, errors \in Nat :
          /\ calls = tally.calls /\ counted = tally.counted /\ lines = tally.lines /\ reported = tally.reported
          /\ x = budget.suppressed /\ given = Len(attempts) /\ errors = ringErrors
    BY RingNumbers
  <1>9. CASE b.used >= BudgetLimit
    <2>1. /\ budget' = [b EXCEPT !.suppressed = @ + 1]
          /\ emitter' = [emitter EXCEPT ![t].at = "countOnly"]
      BY <1>1, <1>2, <1>9 DEF EmitterGoes
    <2>2. /\ emitter' \in [EventTasks -> [at : EmitterPlaces, withheld : 0 .. Events]]
          /\ emitter'[t].at = "countOnly" /\ emitter'[t].withheld = 0
          /\ \A u \in EventTasks \ {t} : emitter'[u] = emitter[u]
      BY <1>0, <1>6, <2>1 DEF CountsTyped, EmitterPlaces
    <2>3. PICK c, o, q, l, w, c1, o1, q1, l1, w1 \in Nat :
             /\ Balanced(c, o, q, l, w) /\ CountsAre(c1, o1, q1, l1, w1)'
             /\ Shifted(emitter[t].at, emitter'[t].at, emitter[t].withheld, emitter'[t].withheld,
                        c, o, q, l, w, c1, o1, q1, l1, w1)
      BY <2>2, CountsMove
    <2>4. /\ Balance(calls, counted, lines, reported, x, given, errors, c, o, q, l, w)
          /\ c1 = c /\ o1 = o + 1 /\ q1 = q /\ l1 = l /\ w1 = w
      BY <1>4, <1>8, <2>2, <2>3 DEF Balanced, Shifted, Bit
    <2>5. x + 1 \in 0 .. Events
      <3>1. calls < Events /\ Events \in Nat
        BY <1>4, <1>8, RingNumbers
      <3> QED
        BY <2>4, <3>1 DEF Balance
    <2>6. /\ budget' \in [window : 0 .. Windows, used : 0 .. BudgetLimit, suppressed : 0 .. Events]
          /\ budget'.suppressed = x + 1
      BY <1>3, <1>8, <2>1, <2>5
    <2>7. CountsTyped'
      BY <1>0, <1>4, <1>5, <2>2, <2>6 DEF CountsTyped
    <2>8. Balance(calls + 1, counted, lines, reported, x + 1, given, errors, c1, o1, q1, l1, w1)
      BY <2>4 DEF Balance
    <2>9. Balanced(c1, o1, q1, l1, w1)'
      BY <1>4, <1>5, <1>8, <2>6, <2>8 DEF Balanced
    <2>10. emitter'[t].at \notin {"size", "line", "newline"} /\ ringLock' # t
      BY <1>4, <1>7, <2>2
    <2>11. RingCounts'
      BY <1>4, <2>2, <2>3, <2>7, <2>9, <2>10, CountsNext
    <2> QED
      BY <1>4, <2>2, <2>11 DEF Emitters
  <1>10. CASE ~(b.used >= BudgetLimit)
    <2>1. /\ budget' = [b EXCEPT !.used = @ + 1, !.suppressed = 0]
          /\ emitter' = [emitter EXCEPT ![t] = [at |-> "count", withheld |-> b.suppressed]]
      BY <1>1, <1>2, <1>10 DEF TakesSuppressed
    <2>2. /\ emitter' \in [EventTasks -> [at : EmitterPlaces, withheld : 0 .. Events]]
          /\ emitter'[t].at = "count" /\ emitter'[t].withheld = x
          /\ \A u \in EventTasks \ {t} : emitter'[u] = emitter[u]
      BY <1>0, <1>3, <1>6, <1>8, <2>1 DEF CountsTyped, EmitterPlaces
    <2>3. PICK c, o, q, l, w, c1, o1, q1, l1, w1 \in Nat :
             /\ Balanced(c, o, q, l, w) /\ CountsAre(c1, o1, q1, l1, w1)'
             /\ Shifted(emitter[t].at, emitter'[t].at, emitter[t].withheld, emitter'[t].withheld,
                        c, o, q, l, w, c1, o1, q1, l1, w1)
      BY <2>2, CountsMove
    <2>4. /\ Balance(calls, counted, lines, reported, x, given, errors, c, o, q, l, w)
          /\ c1 = c + 1 /\ o1 = o /\ q1 = q /\ l1 = l /\ w1 = w + x
      BY <1>4, <1>8, <2>2, <2>3 DEF Balanced, Shifted, Bit
    <2>5. b.used + 1 \in 0 .. BudgetLimit /\ 0 \in 0 .. Events
      BY <1>3, <1>10, RingNumbers, SMTT(30)
    <2>6. /\ budget' \in [window : 0 .. Windows, used : 0 .. BudgetLimit, suppressed : 0 .. Events]
          /\ budget'.suppressed = 0
      BY <1>3, <2>1, <2>5
    <2>7. CountsTyped'
      BY <1>0, <1>4, <1>5, <2>2, <2>6 DEF CountsTyped
    <2>8. Balance(calls + 1, counted, lines, reported, 0, given, errors, c1, o1, q1, l1, w1)
      BY <2>4 DEF Balance
    <2>9. Balanced(c1, o1, q1, l1, w1)'
      BY <1>4, <1>5, <1>8, <2>6, <2>8 DEF Balanced
    <2>10. emitter'[t].at \notin {"size", "line", "newline"} /\ ringLock' # t
      BY <1>4, <1>7, <2>2
    <2>11. RingCounts'
      BY <1>4, <2>2, <2>3, <2>7, <2>9, <2>10, CountsNext
    <2> QED
      BY <1>4, <2>2, <2>11 DEF Emitters
  <1> QED
    BY <1>9, <1>10

\* A task moves between places where nothing is carried, with so many more lines given to the ring and errors.
RingMove(t, to, more, failed) ==
    /\ emitter[t].at # "count" /\ to \in EmitterPlaces \ {"count", "countOnly"} /\ EmitterGoes(t, to) /\ UNCHANGED budget
    /\ tally' \in [calls : 0 .. Events, counted : 0 .. Events, lines : 0 .. Events, reported : 0 .. Events]
    /\ tally'.calls = tally.calls /\ tally'.lines = tally.lines /\ tally'.reported = tally.reported
    /\ tally'.counted = tally.counted + Bit(emitter[t].at = "countOnly")
    /\ attempts' \in Seq(1 .. Events) /\ ringErrors' \in 0 .. Events /\ ringLock' \in EventTasks \cup {Free}
    /\ Len(attempts') = Len(attempts) + more /\ ringErrors' = ringErrors + failed
    /\ Bit(to \in {"wait", "size", "line"}) + more = Bit(emitter[t].at \in {"wait", "size", "line"})
    /\ failed + Bit(to = "newline") <= more + Bit(emitter[t].at = "newline")
    /\ to \in {"size", "line", "newline"} <=> ringLock' = t
    /\ ringLock' = ringLock \/ (ringLock' = Free /\ ringLock = t) \/ (ringLock = Free /\ ringLock' = t)

\* Such a move keeps the counts.
LEMMA CountsGoes ==
    ASSUME RingCounts, NEW t \in EventTasks, NEW to, NEW more \in Nat, NEW failed \in Nat, RingMove(t, to, more, failed)
    PROVE  /\ RingCounts'
           /\ emitter'[t].at = to /\ \A u \in EventTasks \ {t} : emitter'[u] = emitter[u]
  <1> USE DEF RingMove
  <1>00. PICK old : old = emitter[t].at
    OBVIOUS
  <1>0. RingCounts /\ CountsTyped /\ CarriesOnly
    BY DEF RingCounts
  <1>1. emitter[t] \in [at : EmitterPlaces, withheld : 0 .. Events] /\ emitter[t].withheld = 0
    BY <1>0 DEF CountsTyped, CarriesOnly
  <1>2. /\ emitter' \in [EventTasks -> [at : EmitterPlaces, withheld : 0 .. Events]]
        /\ emitter'[t].at = to /\ emitter'[t].withheld = 0
        /\ \A u \in EventTasks \ {t} : emitter'[u] = emitter[u]
    BY <1>0, <1>1, ZenonT(40) DEF CountsTyped, EmitterGoes
  <1>3. PICK calls, counted, lines, reported, x, given, errors \in Nat :
          /\ calls = tally.calls /\ counted = tally.counted /\ lines = tally.lines /\ reported = tally.reported
          /\ x = budget.suppressed /\ given = Len(attempts) /\ errors = ringErrors
    BY RingNumbers
  <1>4. PICK c, o, q, l, w, c1, o1, q1, l1, w1 \in Nat :
           /\ Balanced(c, o, q, l, w) /\ CountsAre(c1, o1, q1, l1, w1)'
           /\ Shifted(emitter[t].at, emitter'[t].at, emitter[t].withheld, emitter'[t].withheld,
                      c, o, q, l, w, c1, o1, q1, l1, w1)
    BY <1>2, CountsMove
  <1>5. /\ Balance(calls, counted, lines, reported, x, given, errors, c, o, q, l, w)
        /\ c1 = c /\ o1 = o - Bit(old = "countOnly") /\ w1 = w
        /\ q1 = q + Bit(to \in {"wait", "size", "line"}) - Bit(old \in {"wait", "size", "line"})
        /\ l1 = l + Bit(to = "newline") - Bit(old = "newline")
    BY <1>00, <1>2, <1>3, <1>4 DEF Balanced, Shifted, Bit
  <1>6. PICK b1, b2, b3, b4, b5 \in 0 .. 1 :
          /\ b1 = Bit(old = "countOnly") /\ b2 = Bit(to \in {"wait", "size", "line"}) /\ b3 = Bit(old \in {"wait", "size", "line"})
          /\ b4 = Bit(to = "newline") /\ b5 = Bit(old = "newline")
    BY DEF Bit
  <1>7. b2 + more = b3 /\ failed + b4 <= more + b5
    BY <1>00, <1>6
  <1>8. Balance(calls, counted + b1, lines, reported, x, given + more, errors + failed, c1, o1, q1, l1, w1)
    <2>1. o1 = o - b1 /\ q1 = q + b2 - b3 /\ l1 = l + b4 - b5 /\ c1 = c /\ w1 = w
      BY <1>5, <1>6
    <2>2. Balance(calls, counted, lines, reported, x, given, errors, c, o, q, l, w)
      BY <1>5
    <2> QED
      BY <1>7, <2>1, <2>2 DEF Balance
  <1>9. Balanced(c1, o1, q1, l1, w1)'
    BY <1>00, <1>3, <1>6, <1>8 DEF Balanced
  <1>10. CountsTyped'
    BY <1>0, <1>2 DEF CountsTyped
  <1>11. RingCounts'
    BY <1>2, <1>4, <1>9, <1>10, CountsNext
  <1> QED
    BY <1>2, <1>11

\* There is a number for the line of a task that has not given it yet, and for its error.
LEMMA RoomForLine ==
    ASSUME RingCounts, NEW t \in EventTasks
    PROVE  /\ emitter[t].at \in {"wait", "size", "line"} => Len(attempts) + 1 \in 1 .. Events /\ ringErrors + 1 \in 0 .. Events
           /\ emitter[t].at = "newline" => ringErrors + 1 \in 0 .. Events
  <1>1. IsFiniteSet(EventTasks)
    BY RingAssumption
  <1>2. ASSUME NEW P, emitter[t].at \in P PROVE Cardinality(Emitters(P)) \in Nat /\ Cardinality(Emitters(P)) >= 1
    <2>1. Emitters(P) \in SUBSET EventTasks /\ t \in Emitters(P)
      BY <1>2 DEF Emitters
    <2>2. IsFiniteSet(Emitters(P)) /\ Cardinality(Emitters(P)) \in Nat
      BY <1>1, <2>1, FS_Subset, FS_CardinalityType
    <2>3. Cardinality(Emitters(P)) # 0
      BY <2>1, <2>2, FS_EmptySet
    <2> QED
      BY <2>2, <2>3
  <1>3. ASSUME NEW P PROVE Cardinality(Emitters(P)) \in Nat
    <2>1. Emitters(P) \in SUBSET EventTasks
      BY DEF Emitters
    <2> QED
      BY <1>1, <2>1, FS_Subset, FS_CardinalityType
  <1>4. PICK q, l, given, errors, lines, most \in Nat :
          /\ q = Cardinality(Emitters({"wait", "size", "line"})) /\ l = Cardinality(Emitters({"newline"}))
          /\ given = Len(attempts) /\ errors = ringErrors /\ lines = tally.lines /\ most = Events /\ lines <= most
    BY <1>3, RingNumbers
  <1>5. lines = given + q /\ errors + l <= given
    BY <1>4 DEF RingCounts, GivenToRing
  <1>6. CASE emitter[t].at \in {"wait", "size", "line"}
    <2>1. q >= 1
      BY <1>2, <1>4, <1>6
    <2>2. given + 1 \in 1 .. most /\ errors + 1 \in 0 .. most
      BY <1>4, <1>5, <2>1
    <2> QED
      BY <1>4, <1>6, <2>2
  <1>7. CASE emitter[t].at = "newline"
    <2>1. l >= 1
      BY <1>2, <1>4, <1>7
    <2>2. errors + 1 \in 0 .. most
      BY <1>4, <1>5, <2>1
    <2> QED
      BY <1>4, <1>7, <2>2
  <1> QED
    BY <1>6, <1>7

\* The counter of an event that was withheld.
LEMMA CountsOnlyCounts ==
    ASSUME RingCounts, NEW t \in EventTasks, CountsOnly(t)
    PROVE  RingCounts' /\ Emitters({"newline"})' = Emitters({"newline"})
  <1>0. CountsTyped /\ LockHeld
    BY DEF RingCounts
  <1>1. /\ emitter[t].at = "countOnly" /\ tally' = [tally EXCEPT !.counted = @ + 1] /\ EmitterGoes(t, "idle")
        /\ UNCHANGED <<budget, ringLock, files, attempts, ringErrors, recent>>
    BY DEF CountsOnly
  <1>2. tally.counted + 1 \in 0 .. Events
    <2>1. PICK c, o \in Nat : c = Cardinality(Emitters({"count"})) /\ o = Cardinality(Emitters({"countOnly"})) /\ o >= 1
      <3>1. IsFiniteSet(EventTasks) /\ Emitters({"count"}) \in SUBSET EventTasks /\ Emitters({"countOnly"}) \in SUBSET EventTasks
        BY RingAssumption DEF Emitters
      <3>2. /\ IsFiniteSet(Emitters({"count"})) /\ IsFiniteSet(Emitters({"countOnly"}))
            /\ Cardinality(Emitters({"count"})) \in Nat /\ Cardinality(Emitters({"countOnly"})) \in Nat
        BY <3>1, FS_Subset, FS_CardinalityType
      <3>3. t \in Emitters({"countOnly"})
        BY <1>1 DEF Emitters
      <3>4. Cardinality(Emitters({"countOnly"})) # 0
        BY <3>2, <3>3, FS_EmptySet
      <3> QED
        BY <3>2, <3>4
    <2>2. PICK calls, counted, most \in Nat : calls = tally.calls /\ counted = tally.counted /\ most = Events /\ calls <= most
      BY RingNumbers
    <2>3. calls = counted + c + o
      BY <2>1, <2>2, AccountIs DEF RingCounts
    <2>4. counted + 1 \in 0 .. most
      BY <2>1, <2>2, <2>3
    <2> QED
      BY <2>2, <2>4
  <1>3. /\ tally' \in [calls : 0 .. Events, counted : 0 .. Events, lines : 0 .. Events, reported : 0 .. Events]
        /\ tally'.calls = tally.calls /\ tally'.lines = tally.lines /\ tally'.reported = tally.reported
        /\ tally'.counted = tally.counted + 1
    <2>1. tally \in [calls : 0 .. Events, counted : 0 .. Events, lines : 0 .. Events, reported : 0 .. Events]
      BY <1>0 DEF CountsTyped
    <2> QED
      BY <1>1, <1>2, <2>1
  <1>4. /\ attempts' \in Seq(1 .. Events) /\ ringErrors' \in 0 .. Events /\ ringLock' \in EventTasks \cup {Free}
        /\ Len(attempts') = Len(attempts) + 0 /\ ringErrors' = ringErrors + 0
        /\ ringLock' # t
    <2>1. Len(attempts) \in Nat /\ ringErrors \in Nat
      BY RingNumbers
    <2>2. ringLock # t
      BY <1>0, <1>1 DEF LockHeld
    <2> QED
      BY <1>0, <1>1, <2>1, <2>2 DEF CountsTyped
  <1>5. /\ RingCounts' /\ emitter'[t].at = "idle" /\ \A u \in EventTasks \ {t} : emitter'[u] = emitter[u]
    <2>1. "idle" \in EmitterPlaces
      BY DEF EmitterPlaces
    <2>2. /\ Bit(emitter[t].at = "countOnly") = 1 /\ Bit("idle" \in {"wait", "size", "line"}) = 0
          /\ Bit(emitter[t].at \in {"wait", "size", "line"}) = 0 /\ Bit("idle" = "newline") = 0 /\ Bit(emitter[t].at = "newline") = 0
      BY <1>1 DEF Bit
    <2>3. tally'.counted = tally.counted + Bit(emitter[t].at = "countOnly")
      BY <1>3, <2>2
    <2>4. /\ Bit("idle" \in {"wait", "size", "line"}) + 0 = Bit(emitter[t].at \in {"wait", "size", "line"})
          /\ 0 + Bit("idle" = "newline") <= 0 + Bit(emitter[t].at = "newline")
      BY <2>2
    <2>5. RingMove(t, "idle", 0, 0)
      BY <1>1, <1>3, <1>4, <2>1, <2>3, <2>4 DEF RingMove
    <2> QED
      BY <2>5, CountsGoes
  <1> QED
    BY <1>1, <1>5 DEF Emitters

\* A line is printed: what it reports is no longer carried.
LEMMA EmitCounts ==
    ASSUME RingCounts, NEW t \in EventTasks, Emit(t)
    PROVE  RingCounts' /\ Emitters({"newline"})' = Emitters({"newline"})
  <1>0. CountsTyped /\ LockHeld
    BY DEF RingCounts
  <1>1. /\ emitter[t].at = "count"
        /\ tally' = [tally EXCEPT !.counted = @ + 1, !.lines = @ + 1, !.reported = @ + emitter[t].withheld]
        /\ emitter' = [emitter EXCEPT ![t] = [at |-> "wait", withheld |-> 0]]
        /\ UNCHANGED <<budget, ringLock, files, attempts, ringErrors, recent>>
    BY DEF Emit
  <1>2. /\ emitter' \in [EventTasks -> [at : EmitterPlaces, withheld : 0 .. Events]]
        /\ emitter'[t].at = "wait" /\ emitter'[t].withheld = 0
        /\ \A u \in EventTasks \ {t} : emitter'[u] = emitter[u]
    BY <1>0, <1>1, RingNumbers DEF CountsTyped, EmitterPlaces
  <1>3. PICK calls, counted, lines, reported, x, given, errors, most, load \in Nat :
          /\ calls = tally.calls /\ counted = tally.counted /\ lines = tally.lines /\ reported = tally.reported
          /\ x = budget.suppressed /\ given = Len(attempts) /\ errors = ringErrors /\ most = Events /\ calls <= most
          /\ load = emitter[t].withheld
    <2>1. emitter[t] \in [at : EmitterPlaces, withheld : 0 .. Events]
      BY <1>0 DEF CountsTyped
    <2>2. emitter[t].withheld \in Nat
      BY <2>1, RingNumbers
    <2> QED
      BY <2>2, RingNumbers
  <1>4. PICK c, o, q, l, w, c1, o1, q1, l1, w1 \in Nat :
           /\ Balanced(c, o, q, l, w) /\ CountsAre(c1, o1, q1, l1, w1)'
           /\ Shifted(emitter[t].at, emitter'[t].at, emitter[t].withheld, emitter'[t].withheld,
                      c, o, q, l, w, c1, o1, q1, l1, w1)
    BY <1>2, CountsMove
  <1>5. /\ Balance(calls, counted, lines, reported, x, given, errors, c, o, q, l, w)
        /\ c1 = c - 1 /\ o1 = o /\ q1 = q + 1 /\ l1 = l /\ w1 = w - load
    <2>1. Balance(calls, counted, lines, reported, x, given, errors, c, o, q, l, w)
      BY <1>3, <1>4 DEF Balanced
    <2>2. Shifted("count", "wait", load, 0, c, o, q, l, w, c1, o1, q1, l1, w1)
      BY <1>1, <1>2, <1>3, <1>4
    <2>3. c1 = c - 1 /\ o1 = o /\ q1 = q + 1 /\ l1 = l /\ w1 = w - load
      BY <2>2 DEF Shifted, Bit
    <2> QED
      BY <2>1, <2>3
  <1>6. Balance(calls, counted + 1, lines + 1, reported + load, x, given, errors, c1, o1, q1, l1, w1)
    BY <1>5 DEF Balance
  <1>7. counted + 1 \in 0 .. most /\ lines + 1 \in 0 .. most /\ reported + load \in 0 .. most
    <2>1. calls <= most
      BY <1>3
    <2> QED
      BY <1>6, <2>1 DEF Balance
  <1>8. /\ tally' \in [calls : 0 .. Events, counted : 0 .. Events, lines : 0 .. Events, reported : 0 .. Events]
        /\ tally'.calls = calls /\ tally'.counted = counted + 1 /\ tally'.lines = lines + 1 /\ tally'.reported = reported + load
    <2>1. tally \in [calls : 0 .. Events, counted : 0 .. Events, lines : 0 .. Events, reported : 0 .. Events]
      BY <1>0 DEF CountsTyped
    <2>2. tally' = [tally EXCEPT !.counted = counted + 1, !.lines = lines + 1, !.reported = reported + load]
      BY <1>1, <1>3
    <2> QED
      BY <1>3, <1>7, <2>1, <2>2
  <1>9. CountsTyped'
    BY <1>0, <1>1, <1>2, <1>8 DEF CountsTyped
  <1>10. Balanced(c1, o1, q1, l1, w1)'
    BY <1>1, <1>3, <1>6, <1>8 DEF Balanced
  <1>11. emitter'[t].at \notin {"size", "line", "newline"} /\ ringLock' # t
    BY <1>0, <1>1, <1>2 DEF LockHeld
  <1>12. RingCounts'
    BY <1>1, <1>2, <1>4, <1>9, <1>10, <1>11, CountsNext
  <1> QED
    BY <1>1, <1>2, <1>12 DEF Emitters

\* What is the same in every step of the ring.
LEMMA TallySame ==
    ASSUME RingCounts, UNCHANGED tally, NEW t \in EventTasks, emitter[t].at # "countOnly"
    PROVE  /\ tally' \in [calls : 0 .. Events, counted : 0 .. Events, lines : 0 .. Events, reported : 0 .. Events]
           /\ tally'.calls = tally.calls /\ tally'.lines = tally.lines /\ tally'.reported = tally.reported
           /\ tally'.counted = tally.counted + Bit(emitter[t].at = "countOnly")
  <1>1. tally.counted \in Nat
    BY RingNumbers
  <1> QED
    BY <1>1 DEF RingCounts, CountsTyped, Bit

\* The ring is given one more line, or none.
LEMMA AttemptsTyped ==
    ASSUME RingCounts
    PROVE  /\ attempts \in Seq(1 .. Events) /\ Len(attempts) = Len(attempts) + 0
           /\ ringErrors \in 0 .. Events /\ ringErrors = ringErrors + 0
           /\ NextLine \in 1 .. Events => /\ Append(attempts, NextLine) \in Seq(1 .. Events)
                                          /\ Len(Append(attempts, NextLine)) = Len(attempts) + 1
  <1>1. attempts \in Seq(1 .. Events) /\ ringErrors \in 0 .. Events
    BY DEF RingCounts, CountsTyped
  <1>2. Len(attempts) \in Nat /\ ringErrors \in Nat
    BY RingNumbers
  <1>3. ASSUME NextLine \in 1 .. Events
        PROVE  Append(attempts, NextLine) \in Seq(1 .. Events) /\ Len(Append(attempts, NextLine)) = Len(attempts) + 1
    BY <1>1, <1>3, AppendProperties
  <1> QED
    BY <1>1, <1>2, <1>3

\* The lock is taken.
LEMMA LocksRingCounts ==
    ASSUME RingCounts, NEW t \in EventTasks, LocksRing(t)
    PROVE  RingCounts' /\ Emitters({"newline"})' = Emitters({"newline"})
  <1>1. /\ emitter[t].at = "wait" /\ ringLock = Free /\ ringLock' = t /\ EmitterGoes(t, "size")
        /\ UNCHANGED <<budget, tally, files, attempts, ringErrors, recent>>
    BY DEF LocksRing, RingFree
  <1>2. RingMove(t, "size", 0, 0)
    BY <1>1, TallySame, AttemptsTyped DEF RingMove, EmitterPlaces, Bit
  <1>3. RingCounts' /\ emitter'[t].at = "size" /\ \A u \in EventTasks \ {t} : emitter'[u] = emitter[u]
    BY <1>2, CountsGoes
  <1> QED
    BY <1>1, <1>3 DEF Emitters

\* A task with the lock is the only one.
LEMMA AloneAtRing ==
    ASSUME RingCounts, NEW t \in EventTasks, emitter[t].at \in {"size", "line", "newline"}
    PROVE  /\ ringLock = t
           /\ Emitters({"newline"}) = IF emitter[t].at = "newline" THEN {t} ELSE {}
  <1>1. LockHeld
    BY DEF RingCounts
  <1>2. ringLock = t
    BY <1>1 DEF LockHeld
  <1>3. \A u \in EventTasks \ {t} : emitter[u].at # "newline"
    BY <1>1, <1>2 DEF LockHeld
  <1> QED
    BY <1>2, <1>3 DEF Emitters

\* The file is looked at, and perhaps rotated.
LEMMA RotatesCounts ==
    ASSUME RingCounts, NEW t \in EventTasks, Rotates(t)
    PROVE  RingCounts' /\ Emitters({"newline"}) = {} /\ Emitters({"newline"})' = {}
  <1>1. /\ emitter[t].at = "size" /\ EmitterGoes(t, "line")
        /\ UNCHANGED <<budget, tally, ringLock, attempts, ringErrors, recent>>
    BY DEF Rotates
  <1>2. ringLock = t /\ Emitters({"newline"}) = {}
    BY <1>1, AloneAtRing
  <1>3. RingMove(t, "line", 0, 0)
    BY <1>1, <1>2, TallySame, AttemptsTyped DEF RingMove, EmitterPlaces, Bit
  <1>4. RingCounts' /\ emitter'[t].at = "line" /\ \A u \in EventTasks \ {t} : emitter'[u] = emitter[u]
    BY <1>3, CountsGoes
  <1> QED
    BY <1>2, <1>4 DEF Emitters

\* The line is written.
LEMMA WritesLineCounts ==
    ASSUME RingCounts, NEW t \in EventTasks, WritesLine(t)
    PROVE  /\ RingCounts' /\ Emitters({"newline"}) = {} /\ Emitters({"newline"})' = {t}
           /\ NextLine \in 1 .. Events /\ Len(attempts') = NextLine
  <1>1. /\ emitter[t].at = "line" /\ EmitterGoes(t, "newline") /\ attempts' = Append(attempts, NextLine)
        /\ UNCHANGED <<budget, tally, ringLock, ringErrors, recent>>
    BY DEF WritesLine
  <1>2. ringLock = t /\ Emitters({"newline"}) = {}
    BY <1>1, AloneAtRing
  <1>3. NextLine \in 1 .. Events
    BY <1>1, RoomForLine DEF NextLine
  <1>4. RingMove(t, "newline", 1, 0)
    BY <1>1, <1>2, <1>3, TallySame, AttemptsTyped DEF RingMove, EmitterPlaces, Bit, RingCounts, CountsTyped
  <1>5. RingCounts' /\ emitter'[t].at = "newline" /\ \A u \in EventTasks \ {t} : emitter'[u] = emitter[u]
    BY <1>4, CountsGoes
  <1>6. Len(attempts') = NextLine
    BY <1>1, <1>3, AttemptsTyped DEF NextLine
  <1> QED
    BY <1>2, <1>3, <1>5, <1>6 DEF Emitters

\* The newline is written and the lock left.
LEMMA WritesNewlineCounts ==
    ASSUME RingCounts, NEW t \in EventTasks, WritesNewline(t)
    PROVE  RingCounts' /\ Emitters({"newline"}) = {t} /\ Emitters({"newline"})' = {}
  <1>1. /\ emitter[t].at = "newline" /\ EmitterGoes(t, "idle") /\ ringLock' = Free
        /\ UNCHANGED <<budget, tally, attempts, ringErrors, recent>>
    BY DEF WritesNewline, Unlocks
  <1>2. ringLock = t /\ Emitters({"newline"}) = {t} /\ Free # t
    BY <1>1, AloneAtRing, RingAssumption
  <1>3. RingMove(t, "idle", 0, 0)
    BY <1>1, <1>2, TallySame, AttemptsTyped DEF RingMove, EmitterPlaces, Bit
  <1>4. RingCounts' /\ emitter'[t].at = "idle" /\ \A u \in EventTasks \ {t} : emitter'[u] = emitter[u]
    BY <1>3, CountsGoes
  <1> QED
    BY <1>2, <1>4 DEF Emitters

\* A failure is counted and the lock left.
LEMMA AppendFailsCounts ==
    ASSUME RingCounts, NEW t \in EventTasks, AppendFails(t)
    PROVE  /\ RingCounts' /\ Emitters({"newline"})' = {}
           /\ emitter[t].at = "newline" => Len(attempts') = Len(attempts) /\ Emitters({"newline"}) = {t}
           /\ emitter[t].at # "newline" => Len(attempts') = NextLine /\ Emitters({"newline"}) = {}
  <1>1. /\ emitter[t].at \in {"size", "line", "newline"} /\ EmitterGoes(t, "idle") /\ ringLock' = Free
        /\ ringErrors' = ringErrors + 1
        /\ attempts' = IF emitter[t].at = "newline" THEN attempts ELSE Append(attempts, NextLine)
        /\ UNCHANGED <<budget, tally, recent>>
    BY DEF AppendFails, Unlocks
  <1>2. /\ ringLock = t /\ Free # t
        /\ Emitters({"newline"}) = IF emitter[t].at = "newline" THEN {t} ELSE {}
    BY <1>1, AloneAtRing, RingAssumption
  <1>3. ringErrors + 1 \in 0 .. Events
    BY <1>1, RoomForLine
  <1>4. CASE emitter[t].at = "newline"
    <2>1. RingMove(t, "idle", 0, 1)
      BY <1>1, <1>2, <1>3, <1>4, TallySame, AttemptsTyped DEF RingMove, EmitterPlaces, Bit
    <2>2. RingCounts' /\ emitter'[t].at = "idle" /\ \A u \in EventTasks \ {t} : emitter'[u] = emitter[u]
      BY <2>1, CountsGoes
    <2>3. Emitters({"newline"})' = {}
      BY <1>2, <1>4, <2>2 DEF Emitters
    <2> QED
      BY <1>1, <1>2, <1>4, <2>2, <2>3
  <1>5. CASE emitter[t].at # "newline"
    <2>1. NextLine \in 1 .. Events
      BY <1>1, <1>5, RoomForLine DEF NextLine
    <2>2. RingMove(t, "idle", 1, 1)
      BY <1>1, <1>2, <1>3, <1>5, <2>1, TallySame, AttemptsTyped DEF RingMove, EmitterPlaces, Bit
    <2>3. RingCounts' /\ emitter'[t].at = "idle" /\ \A u \in EventTasks \ {t} : emitter'[u] = emitter[u]
      BY <2>2, CountsGoes
    <2>4. Emitters({"newline"})' = {}
      BY <1>2, <1>5, <2>3 DEF Emitters
    <2>5. Len(attempts') = NextLine
      BY <1>1, <1>5, <2>1, AttemptsTyped DEF NextLine
    <2> QED
      BY <1>2, <1>5, <2>3, <2>4, <2>5
  <1> QED
    BY <1>4, <1>5

FilesTyped == files \in [rotated : Seq(Stretches), current : Seq(Stretches)]

RingDisk == FilesTyped /\ FilesInOrder /\ LossesPaid /\ NewlineDue

\* The lost lines are finitely many.
LEMMA LostFinite ==
    ASSUME RingCounts
    PROVE  IsFiniteSet(Lost) /\ Cardinality(Lost) \in Nat /\ AtStake \in 0 .. 2
  <1>1. Len(attempts) \in Nat
    BY RingNumbers
  <1>2. IsFiniteSet(1 .. Len(attempts))
    BY <1>1, FS_Interval
  <1>3. Lost \in SUBSET (1 .. Len(attempts))
    BY DEF Lost
  <1>4. IsFiniteSet(Lost) /\ Cardinality(Lost) \in Nat
    BY <1>2, <1>3, FS_Subset, FS_CardinalityType
  <1>5. AtStake \in 0 .. 2
    BY DEF AtStake
  <1> QED
    BY <1>4, <1>5

\* One element more, or two.
LEMMA FewMore ==
    ASSUME NEW A, IsFiniteSet(A), NEW B, NEW x, NEW y
    PROVE  /\ B \subseteq A => Cardinality(B) <= Cardinality(A)
           /\ B \subseteq A \cup {x} => Cardinality(B) <= Cardinality(A) + 1
           /\ B \subseteq A \cup {x, y} => Cardinality(B) <= Cardinality(A) + 2
  <1>0. Cardinality(A) \in Nat
    BY FS_CardinalityType
  <1>1. IsFiniteSet(A \cup {x}) /\ Cardinality(A \cup {x}) <= Cardinality(A) + 1 /\ Cardinality(A \cup {x}) \in Nat
    BY <1>0, FS_AddElement, FS_CardinalityType
  <1>2. PICK C : C = A \cup {x}
    OBVIOUS
  <1>3. IsFiniteSet(C \cup {y}) /\ Cardinality(C \cup {y}) <= Cardinality(C) + 1 /\ Cardinality(C \cup {y}) \in Nat
    <2>1. IsFiniteSet(C) /\ Cardinality(C) \in Nat
      BY <1>1, <1>2
    <2>2. IsFiniteSet(C \cup {y}) /\ Cardinality(C \cup {y}) = IF y \in C THEN Cardinality(C) ELSE Cardinality(C) + 1
      BY <2>1, FS_AddElement
    <2> QED
      BY <2>1, <2>2
  <1>4. A \cup {x, y} = C \cup {y}
    BY <1>2
  <1>5. ASSUME B \subseteq A PROVE Cardinality(B) <= Cardinality(A)
    BY <1>5, FS_Subset
  <1>6. ASSUME B \subseteq A \cup {x} PROVE Cardinality(B) <= Cardinality(A) + 1
    <2>1. Cardinality(B) <= Cardinality(A \cup {x}) /\ Cardinality(B) \in Nat
      BY <1>1, <1>6, FS_Subset, FS_CardinalityType
    <2> QED
      BY <1>0, <1>1, <2>1
  <1>7. ASSUME B \subseteq A \cup {x, y} PROVE Cardinality(B) <= Cardinality(A) + 2
    <2>1. Cardinality(B) <= Cardinality(C \cup {y}) /\ Cardinality(B) \in Nat
      BY <1>3, <1>4, <1>7, FS_Subset, FS_CardinalityType
    <2>2. PICK a, b, c, d \in Nat : a = Cardinality(A) /\ b = Cardinality(B) /\ c = Cardinality(C) /\ d = Cardinality(C \cup {y})
      BY <1>0, <1>1, <1>2, <1>3, <2>1
    <2>3. b <= d /\ d <= c + 1 /\ c <= a + 1
      BY <1>1, <1>2, <1>3, <2>1, <2>2
    <2>4. b <= a + 2
      BY <2>3
    <2> QED
      BY <2>2, <2>4
  <1> QED
    BY <1>5, <1>6, <1>7

\* What can be lost by a step: what it took away, and the line it was to write.
LEMMA LostMoves ==
    ASSUME RingCounts, NEW X, OnDisk \subseteq OnDisk' \cup X, OnDisk' \subseteq OnDisk \cup {NextLine},
           Len(attempts') = Len(attempts) \/ Len(attempts') = NextLine
    PROVE  /\ Lost' \subseteq Lost \cup X \cup {NextLine}
           /\ Len(attempts') = Len(attempts) \/ NextLine \in OnDisk' => Lost' \subseteq Lost \cup X
  <1>1. PICK n \in Nat : n = Len(attempts) /\ NextLine = n + 1
    BY RingNumbers DEF NextLine
  <1>2. ASSUME NEW j \in Lost', j # NextLine PROVE j \in Lost \cup X
    <2>1. j \in 1 .. n
      BY <1>1, <1>2 DEF Lost
    <2>2. j \notin OnDisk' /\ \E i \in OnDisk' : i < j
      BY <1>2 DEF Lost
    <2>3. PICK i \in OnDisk' : i < j
      BY <2>2
    <2>4. i \in OnDisk
      BY <1>1, <2>1, <2>3
    <2> QED
      BY <1>1, <2>1, <2>2, <2>3, <2>4 DEF Lost
  <1>3. ASSUME NextLine \in Lost' PROVE Len(attempts') # Len(attempts) /\ NextLine \notin OnDisk'
    BY <1>1, <1>3 DEF Lost
  <1> QED
    BY <1>2, <1>3

\* The same files with the same numbers.
LEMMA DiskSame ==
    ASSUME RingDisk, UNCHANGED <<files, attempts, ringErrors>>, Emitters({"newline"})' = Emitters({"newline"})
    PROVE  RingDisk'
  BY DEF RingDisk, FilesTyped, FilesInOrder, LossesPaid, NewlineDue, Lost, OnDisk, AtStake

\* A file without its last line's end.
LEMMA WithLineJoins ==
    ASSUME NEW file \in Seq(Stretches), Rising(file), Open(file), NEW k \in 0 .. Events,
           NEW cut \in BOOLEAN, NEW g, g = WithLine(file, k, cut)
    PROVE  /\ g \in Seq(Stretches) /\ Len(g) = Len(file) /\ Rising(g) /\ Open(g) /\ ~Whole(g[Len(g)])
           /\ WholeLines(g) \subseteq WholeLines(file)
           /\ WholeLines(file) \subseteq WholeLines(g) \cup {file[Len(file)].lines[1]}
           /\ ~Whole(file[Len(file)]) => WholeLines(file) \subseteq WholeLines(g)
  <1>1. PICK n \in Nat : n = Len(file) /\ n \in 1 .. Len(file)
    BY DEF Open
  <1>2. file[n] \in Stretches
    BY <1>1, ElementOfSeq
  <1>3. PICK s \in Seq(0 .. Events) : s = file[n].lines /\ Len(s) > 0
    BY <1>1, <1>2 DEF Stretches, Rising
  <1>4. PICK u : u = Append(s, k)
    OBVIOUS
  <1>5. u \in Seq(0 .. Events) /\ Len(u) = Len(s) + 1
    BY <1>3, <1>4, AppendProperties
  <1>6. g = [file EXCEPT ![n].lines = Append(@, k), ![n].torn = @ \/ cut]
    BY <1>1 DEF WithLine, Open
  <1>7. PICK last : last = [file[n] EXCEPT !.lines = u, !.torn = @ \/ cut]
    OBVIOUS
  <1>8. g = [file EXCEPT ![n] = last]
    BY <1>1, <1>2, <1>3, <1>4, <1>6, <1>7 DEF Stretches
  <1>9. last \in Stretches /\ last.lines = u /\ last.ended = file[n].ended
    BY <1>2, <1>5, <1>7 DEF Stretches
  <1>10. /\ g \in Seq(Stretches) /\ Len(g) = n /\ g[n] = last
         /\ \A i \in 1 .. n : i # n => g[i] = file[i]
    <2>1. g \in Seq(Stretches) /\ Len(g) = Len(file) /\ \A i \in 1 .. Len(file) : g[i] = IF i = n THEN last ELSE file[i]
      BY <1>1, <1>8, <1>9, ExceptSeq
    <2> QED
      BY <1>1, <2>1
  <1>11. ~Whole(last)
    <2>1. Len(u) # 1
      BY <1>3, <1>5
    <2> QED
      BY <1>9, <2>1 DEF Whole
  <1>12. Rising(g)
    <2>1. Len(u) > 0
      BY <1>3, <1>5
    <2> QED
      BY <1>1, <1>9, <1>10, <1>11, <2>1, SMTT(30) DEF Rising
  <1>13. Open(g)
    <2>1. g # <<>>
      BY <1>1, <1>10
    <2> QED
      BY <1>1, <1>9, <1>10, <2>1 DEF Open
  <1>14. WholeLines(g) \subseteq WholeLines(file)
    BY <1>1, <1>10, <1>11 DEF WholeLines
  <1>15. ASSUME NEW x \in WholeLines(file) PROVE x \in WholeLines(g) \/ (x = file[n].lines[1] /\ Whole(file[n]))
    <2>1. PICK i \in 1 .. Len(file) : Whole(file[i]) /\ x = file[i].lines[1]
      BY <1>15 DEF WholeLines
    <2>2. CASE i = n
      BY <2>1, <2>2
    <2>3. CASE i # n
      BY <1>1, <1>10, <2>1, <2>3 DEF WholeLines
    <2> QED
      BY <2>2, <2>3
  <1> QED
    BY <1>1, <1>10, <1>11, <1>12, <1>13, <1>14, <1>15

\* A file whose last line has its end.
LEMMA WithLineAdds ==
    ASSUME NEW file \in Seq(Stretches), Rising(file), ~Open(file), NEW k \in 0 .. Events,
           k # 0 => \A w \in WholeLines(file) : w < k, NEW cut \in BOOLEAN, NEW g, g = WithLine(file, k, cut)
    PROVE  /\ g \in Seq(Stretches) /\ Len(g) = Len(file) + 1 /\ Rising(g) /\ Open(g) /\ (Whole(g[Len(g)]) <=> k # 0)
           /\ WholeLines(g) = WholeLines(file) \cup ({k} \ {0})
  <1>1. PICK n \in Nat : n = Len(file)
    OBVIOUS
  <1>2. PICK last : last = [lines |-> <<k>>, ended |-> FALSE, torn |-> cut]
    OBVIOUS
  <1>3. g = Append(file, last)
    BY <1>2 DEF WithLine, Open
  <1>4. last \in Stretches /\ last.lines = <<k>> /\ ~last.ended
    BY <1>2 DEF Stretches
  <1>5. /\ g \in Seq(Stretches) /\ Len(g) = n + 1 /\ g[n + 1] = last
        /\ \A i \in 1 .. n : g[i] = file[i]
    <2>1. /\ g \in Seq(Stretches) /\ Len(g) = Len(file) + 1 /\ g[Len(file) + 1] = last
          /\ \A i \in 1 .. Len(file) : g[i] = file[i]
      BY <1>3, <1>4, AppendProperties
    <2> QED
      BY <1>1, <2>1
  <1>6. last.lines[1] = k /\ Len(last.lines) = 1
    BY <1>4
  <1>7. Whole(last) <=> k # 0
    BY <1>6 DEF Whole, Fragment
  <1>8. ASSUME NEW i \in 1 .. n, Whole(file[i]), k # 0 PROVE file[i].lines[1] < k
    BY <1>1, <1>8 DEF WholeLines
  <1>9. Rising(g)
    <2>1. ASSUME NEW i \in 1 .. n + 1 PROVE Len(g[i].lines) > 0
      <3>1. CASE i = n + 1
        BY <1>5, <1>6, <3>1
      <3>2. CASE i \in 1 .. n
        BY <1>1, <1>5, <3>2 DEF Rising
      <3> QED
        BY <3>1, <3>2
    <2>2. ASSUME NEW i \in 1 .. n + 1, NEW j \in 1 .. n + 1, i < j, Whole(g[i]), Whole(g[j])
          PROVE  g[i].lines[1] < g[j].lines[1]
      <3>1. CASE j = n + 1
        <4>1. i \in 1 .. n
          BY <2>2, <3>1
        <4> QED
          BY <1>5, <1>6, <1>7, <1>8, <2>2, <3>1, <4>1
      <3>2. CASE j \in 1 .. n
        <4>1. i \in 1 .. n
          BY <2>2, <3>2
        <4> QED
          BY <1>1, <1>5, <2>2, <3>2, <4>1 DEF Rising
      <3> QED
        BY <3>1, <3>2
    <2> QED
      BY <1>5, <2>1, <2>2 DEF Rising
  <1>10. Open(g)
    <2>1. g # <<>>
      BY <1>5
    <2> QED
      BY <1>4, <1>5, <2>1 DEF Open
  <1>11. WholeLines(g) = WholeLines(file) \cup ({k} \ {0})
    <2>1. ASSUME NEW x \in WholeLines(g) PROVE x \in WholeLines(file) \cup ({k} \ {0})
      <3>1. PICK i \in 1 .. n + 1 : Whole(g[i]) /\ x = g[i].lines[1]
        BY <1>5, <2>1 DEF WholeLines
      <3>2. CASE i = n + 1
        BY <1>5, <1>6, <1>7, <3>1, <3>2
      <3>3. CASE i \in 1 .. n
        BY <1>1, <1>5, <3>1, <3>3 DEF WholeLines
      <3> QED
        BY <3>2, <3>3
    <2>2. ASSUME NEW x \in WholeLines(file) PROVE x \in WholeLines(g)
      <3>1. PICK i \in 1 .. n : Whole(file[i]) /\ x = file[i].lines[1]
        BY <1>1, <2>2 DEF WholeLines
      <3>2. i \in 1 .. Len(g) /\ g[i] = file[i]
        BY <1>5, <3>1
      <3> QED
        BY <3>1, <3>2 DEF WholeLines
    <2>3. ASSUME k # 0 PROVE k \in WholeLines(g)
      <3>1. n + 1 \in 1 .. Len(g) /\ Whole(g[n + 1]) /\ g[n + 1].lines[1] = k
        BY <1>5, <1>6, <1>7, <2>3
      <3> QED
        BY <3>1 DEF WholeLines
    <2> QED
      BY <2>1, <2>2, <2>3
  <1> QED
    BY <1>1, <1>5, <1>7, <1>9, <1>10, <1>11

\* The rotation: the older file is gone, and what it had comes before all that is left.
LEMMA RotatesDisk ==
    ASSUME RingCounts, RingDisk, NEW t \in EventTasks, Rotates(t)
    PROVE  RingDisk'
  <1>0. FilesTyped /\ FilesInOrder /\ LossesPaid /\ NewlineDue
    BY DEF RingDisk
  <1>1. Emitters({"newline"}) = {} /\ Emitters({"newline"})' = {}
    BY RotatesCounts
  <1>2. UNCHANGED <<attempts, ringErrors>>
    BY DEF Rotates
  <1>3. CASE files' = files
    BY <1>1, <1>2, <1>3, DiskSame
  <1>4. CASE files' = [rotated |-> files.current, current |-> <<>>]
    <2>1. files'.rotated = files.current /\ files'.current = <<>> /\ files.current \in Seq(Stretches)
      BY <1>0, <1>4 DEF FilesTyped
    <2>2. <<>> \in Seq(Stretches) /\ Len(<<>>) = 0
      BY EmptySeq
    <2>3. FilesTyped'
      BY <1>4, <2>1, <2>2 DEF FilesTyped
    <2>4. PICK e : e = <<>> /\ Len(e) = 0
      BY <2>2
    <2>5. WholeLines(e) = {} /\ Rising(e) /\ ~Open(e)
      BY <2>4 DEF WholeLines, Rising, Open
    <2>6. OnDisk' = WholeLines(files.current)
      BY <2>1, <2>4, <2>5 DEF OnDisk
    <2>7. FilesInOrder'
      <3>1. Rising(files'.rotated) /\ Rising(files'.current)
        BY <1>0, <2>1, <2>4, <2>5 DEF FilesInOrder
      <3>2. WholeLines(files'.current) = {}
        BY <2>1, <2>4, <2>5
      <3>3. OnDisk' \subseteq 1 .. Len(attempts')
        BY <1>0, <1>2, <2>6 DEF FilesInOrder, OnDisk
      <3> QED
        BY <3>1, <3>2, <3>3 DEF FilesInOrder
    <2>8. Lost' \subseteq Lost
      <3> SUFFICES ASSUME NEW j \in Lost' PROVE j \in Lost
        OBVIOUS
      <3>1. j \in 1 .. Len(attempts) /\ j \notin WholeLines(files.current)
        BY <1>2, <2>6 DEF Lost
      <3>2. PICK i \in WholeLines(files.current) : i < j
        BY <2>6 DEF Lost
      <3>3. i \in OnDisk /\ i \in 1 .. Len(attempts)
        BY <1>0 DEF OnDisk, FilesInOrder
      <3>4. Len(attempts) \in Nat
        BY RingNumbers
      <3>5. j \notin WholeLines(files.rotated)
        <4> SUFFICES ASSUME j \in WholeLines(files.rotated) PROVE FALSE
          OBVIOUS
        <4>1. j < i
          BY <1>0 DEF FilesInOrder
        <4> QED
          BY <3>1, <3>2, <3>3, <3>4, <4>1
      <3> QED
        BY <3>1, <3>2, <3>3, <3>5 DEF Lost, OnDisk
    <2>9. AtStake' = 0
      BY <2>1, <2>4, <2>5 DEF AtStake
    <2>10. LossesPaid'
      <3>1. IsFiniteSet(Lost) /\ Cardinality(Lost) \in Nat /\ AtStake \in 0 .. 2
        BY LostFinite
      <3>2. Cardinality(Lost') \in Nat
        BY RotatesCounts, <2>8, <3>1, FS_Subset, FS_CardinalityType
      <3>3. Cardinality(Lost') <= Cardinality(Lost)
        BY <2>8, <3>1, FewMore
      <3>4. PICK a, b, s, e2 \in Nat : a = Cardinality(Lost) /\ b = Cardinality(Lost') /\ s = AtStake /\ e2 = ringErrors
        BY <3>1, <3>2, RingNumbers, SMTT(30)
      <3>5. a + s <= 2 * e2 /\ b <= a
        BY <1>0, <3>3, <3>4 DEF LossesPaid
      <3>6. b + 0 <= 2 * e2
        BY <3>5
      <3> QED
        BY <1>2, <2>9, <3>4, <3>6 DEF LossesPaid
    <2>11. NewlineDue'
      BY <1>1 DEF NewlineDue
    <2> QED
      BY <2>3, <2>7, <2>10, <2>11 DEF RingDisk
  <1>5. files' = files \/ files' = [rotated |-> files.current, current |-> <<>>]
    BY DEF Rotates
  <1> QED
    BY <1>3, <1>4, <1>5

\* Whatever is written to the current file next keeps the order, if it is the next line, or part of a line.
LEMMA WithLineInOrder ==
    ASSUME RingCounts, FilesTyped, FilesInOrder, NEW k, k = NextLine \/ k = 0, NextLine \in 1 .. Events,
           NEW cut \in BOOLEAN, files' = [files EXCEPT !.current = WithLine(@, k, cut)], Len(attempts') = NextLine
    PROVE  /\ FilesTyped' /\ FilesInOrder' /\ Open(files'.current)
           /\ files'.rotated = files.rotated /\ Len(files'.current) <= Len(files.current) + 1
           /\ ~Open(files.current) => /\ Whole(files'.current[Len(files'.current)]) <=> k # 0
                                      /\ OnDisk' = OnDisk \cup ({k} \ {0})
           /\ Open(files.current) => /\ ~Whole(files'.current[Len(files'.current)])
                                     /\ OnDisk' \subseteq OnDisk
                                     /\ OnDisk \subseteq OnDisk' \cup {files.current[Len(files.current)].lines[1]}
                                     /\ ~Whole(files.current[Len(files.current)]) => OnDisk \subseteq OnDisk'
  <1>1. files.current \in Seq(Stretches) /\ files.rotated \in Seq(Stretches) /\ Rising(files.current)
    BY DEF FilesTyped, FilesInOrder
  <1>2. PICK file \in Seq(Stretches), g \in {WithLine(files.current, k, cut)} :
           file = files.current /\ g = WithLine(file, k, cut)
    BY <1>1
  <1>3. files'.current = g /\ files'.rotated = files.rotated
    BY <1>2 DEF FilesTyped
  <1>4. PICK n \in Nat : n = Len(attempts) /\ NextLine = n + 1 /\ Len(attempts') = n + 1
    BY RingNumbers DEF NextLine
  <1>5. k \in 0 .. Events /\ (k # 0 => k = n + 1)
    BY <1>4, RingNumbers, SMTT(30)
  <1>6. WholeLines(files.rotated) \subseteq 1 .. n /\ WholeLines(file) \subseteq 1 .. n
    BY <1>2, <1>4 DEF FilesInOrder, OnDisk
  <1>7. \A a \in WholeLines(files.rotated), b \in WholeLines(file) : a < b
    BY <1>2 DEF FilesInOrder
  <1>8. CASE ~Open(file)
    <2>1. k # 0 => \A w \in WholeLines(file) : w < k
      BY <1>5, <1>6
    <2>2. /\ g \in Seq(Stretches) /\ Len(g) = Len(file) + 1 /\ Rising(g) /\ Open(g) /\ (Whole(g[Len(g)]) <=> k # 0)
          /\ WholeLines(g) = WholeLines(file) \cup ({k} \ {0})
      BY <1>1, <1>2, <1>5, <1>8, <2>1, WithLineAdds
    <2>3. OnDisk' = OnDisk \cup ({k} \ {0})
      BY <1>2, <1>3, <2>2 DEF OnDisk
    <2>4. FilesTyped'
      BY <1>1, <1>3, <2>2 DEF FilesTyped
    <2>5. FilesInOrder'
      <3>1. \A a \in WholeLines(files.rotated), b \in WholeLines(g) : a < b
        <4> SUFFICES ASSUME NEW a \in WholeLines(files.rotated), NEW b \in WholeLines(g) PROVE a < b
          OBVIOUS
        <4>1. a \in 1 .. n
          BY <1>6
        <4>2. CASE b \in WholeLines(file)
          BY <1>7, <4>2
        <4>3. CASE b = k /\ k # 0
          BY <1>5, <4>1, <4>3
        <4> QED
          BY <2>2, <4>2, <4>3
      <3>2. OnDisk' \subseteq 1 .. n + 1
        BY <1>2, <1>5, <1>6, <2>3 DEF OnDisk
      <3> QED
        BY <1>3, <1>4, <2>2, <3>1, <3>2 DEF FilesInOrder
    <2>6. Len(files'.current) <= Len(files.current) + 1
      <3>1. Len(file) \in Nat
        OBVIOUS
      <3> QED
        BY <1>2, <1>3, <2>2, <3>1
    <2> QED
      BY <1>2, <1>3, <1>8, <2>2, <2>3, <2>4, <2>5, <2>6
  <1>9. CASE Open(file)
    <2>1. /\ g \in Seq(Stretches) /\ Len(g) = Len(file) /\ Rising(g) /\ Open(g) /\ ~Whole(g[Len(g)])
          /\ WholeLines(g) \subseteq WholeLines(file)
          /\ WholeLines(file) \subseteq WholeLines(g) \cup {file[Len(file)].lines[1]}
          /\ ~Whole(file[Len(file)]) => WholeLines(file) \subseteq WholeLines(g)
      <3>1. Rising(file) /\ file \in Seq(Stretches) /\ g = WithLine(file, k, cut) /\ k \in 0 .. Events
        BY <1>1, <1>2, <1>5
      <3> QED
        BY <1>9, <3>1, WithLineJoins, Zenon
    <2>2. /\ OnDisk' \subseteq OnDisk
          /\ OnDisk \subseteq OnDisk' \cup {file[Len(file)].lines[1]}
          /\ ~Whole(file[Len(file)]) => OnDisk \subseteq OnDisk'
      BY <1>2, <1>3, <2>1 DEF OnDisk
    <2>3. FilesTyped'
      BY <1>1, <1>3, <2>1 DEF FilesTyped
    <2>4. FilesInOrder'
      <3>1. \A a \in WholeLines(files.rotated), b \in WholeLines(g) : a < b
        BY <1>7, <2>1
      <3>2. OnDisk' \subseteq 1 .. n + 1
        <4>1. OnDisk \subseteq 1 .. n
          BY <1>2, <1>6 DEF OnDisk
        <4> QED
          BY <2>2, <4>1
      <3> QED
        BY <1>3, <1>4, <2>1, <3>1, <3>2 DEF FilesInOrder
    <2>5. Len(files'.current) <= Len(files.current) + 1
      <3>1. Len(file) \in Nat
        OBVIOUS
      <3> QED
        BY <1>2, <1>3, <2>1, <3>1
    <2> QED
      BY <1>2, <1>3, <1>9, <2>1, <2>2, <2>3, <2>4, <2>5
  <1> QED
    BY <1>2, <1>8, <1>9

\* The errors pay for what a step loses and leaves at stake.
LEMMA StillPaid ==
    ASSUME RingCounts, RingCounts', LossesPaid, NEW more \in Nat, NEW failed \in Nat,
           Cardinality(Lost') <= Cardinality(Lost) + more, ringErrors' = ringErrors + failed,
           more + AtStake' <= AtStake + 2 * failed
    PROVE  LossesPaid'
  <1>1. /\ Cardinality(Lost) \in Nat /\ AtStake \in 0 .. 2 /\ Cardinality(Lost') \in Nat /\ AtStake' \in 0 .. 2
    <2>1. RingCounts => IsFiniteSet(Lost) /\ Cardinality(Lost) \in Nat /\ AtStake \in 0 .. 2
      BY LostFinite
    <2>2. RingCounts' => (IsFiniteSet(Lost) /\ Cardinality(Lost) \in Nat /\ AtStake \in 0 .. 2)'
      BY LostFinite, PTL
    <2> QED
      BY <2>1, <2>2
  <1>2. PICK a, b, s, s1, e \in Nat :
          a = Cardinality(Lost) /\ b = Cardinality(Lost') /\ s = AtStake /\ s1 = AtStake' /\ e = ringErrors
    <2>1. ringErrors \in Nat
      BY RingNumbers
    <2>2. AtStake \in Nat /\ AtStake' \in Nat
      BY <1>1
    <2> QED
      BY <1>1, <2>1, <2>2, Zenon
  <1>3. a + s <= 2 * e /\ b <= a + more /\ more + s1 <= s + 2 * failed
    BY <1>2 DEF LossesPaid
  <1>4. b + s1 <= 2 * (e + failed)
    BY <1>3
  <1> QED
    BY <1>2, <1>4 DEF LossesPaid

\* The line is on disk, or it and the one it joins are lost, which is what was at stake.
LEMMA WritesLineDisk ==
    ASSUME RingCounts, RingDisk, NEW t \in EventTasks, WritesLine(t)
    PROVE  RingDisk'
  <1>0. FilesTyped /\ FilesInOrder /\ LossesPaid /\ NewlineDue
    BY DEF RingDisk
  <1>1. /\ RingCounts' /\ Emitters({"newline"}) = {} /\ Emitters({"newline"})' = {t}
        /\ NextLine \in 1 .. Events /\ Len(attempts') = NextLine
    BY WritesLineCounts
  <1>2. files' = [files EXCEPT !.current = WithLine(@, NextLine, FALSE)] /\ ringErrors' = ringErrors
    BY DEF WritesLine
  <1>3. NextLine # 0 /\ ringErrors' = ringErrors + 0 /\ ringErrors \in Nat
    BY <1>1, <1>2, RingNumbers, SMTT(30)
  <1>4. PICK lost : lost = files.current[Len(files.current)].lines[1]
    OBVIOUS
  <1>5. /\ FilesTyped' /\ FilesInOrder' /\ Open(files'.current)
        /\ ~Open(files.current) => OnDisk' = OnDisk \cup {NextLine}
        /\ Open(files.current) => /\ OnDisk' \subseteq OnDisk /\ OnDisk \subseteq OnDisk' \cup {lost}
                                  /\ ~Whole(files.current[Len(files.current)]) => OnDisk \subseteq OnDisk'
    BY <1>0, <1>1, <1>2, <1>3, <1>4, WithLineInOrder
  <1>6. AtStake' = 0
    BY <1>1 DEF AtStake
  <1>7. IsFiniteSet(Lost)
    BY LostFinite
  <1>8. LossesPaid'
    <2>1. CASE ~Open(files.current)
      <3>1. Lost' \subseteq Lost
        <4>1. OnDisk \subseteq OnDisk' \cup {} /\ OnDisk' \subseteq OnDisk \cup {NextLine} /\ NextLine \in OnDisk'
          BY <1>5, <2>1
        <4>2. Lost' \subseteq Lost \cup {}
          BY <1>1, <4>1, LostMoves
        <4> QED
          BY <4>2
      <3>2. Cardinality(Lost') <= Cardinality(Lost) + 0
        BY <1>7, <3>1, FewMore, LostFinite
      <3>3. AtStake = 0
        BY <2>1 DEF AtStake
      <3> QED
        BY <1>0, <1>1, <1>3, <1>6, <3>2, <3>3, StillPaid
    <2>2. CASE Open(files.current) /\ Whole(files.current[Len(files.current)])
      <3>1. Lost' \subseteq Lost \cup {lost, NextLine}
        <4>1. Lost' \subseteq Lost \cup {lost} \cup {NextLine}
          BY <1>1, <1>5, <2>2, LostMoves
        <4> QED
          BY <4>1
      <3>2. Cardinality(Lost') <= Cardinality(Lost) + 2
        BY <1>7, <3>1, FewMore
      <3>3. AtStake = 2
        BY <1>1, <2>2 DEF AtStake
      <3> QED
        BY <1>0, <1>1, <1>3, <1>6, <3>2, <3>3, StillPaid
    <2>3. CASE Open(files.current) /\ ~Whole(files.current[Len(files.current)])
      <3>1. Lost' \subseteq Lost \cup {NextLine}
        <4>1. OnDisk \subseteq OnDisk' \cup {} /\ OnDisk' \subseteq OnDisk \cup {NextLine}
          BY <1>5, <2>3
        <4>2. Lost' \subseteq Lost \cup {} \cup {NextLine}
          BY <1>1, <4>1, LostMoves
        <4> QED
          BY <4>2
      <3>2. Cardinality(Lost') <= Cardinality(Lost) + 1
        BY <1>7, <3>1, FewMore
      <3>3. AtStake = 1
        BY <1>1, <2>3 DEF AtStake
      <3> QED
        BY <1>0, <1>1, <1>3, <1>6, <3>2, <3>3, StillPaid
    <2> QED
      BY <2>1, <2>2, <2>3
  <1>9. NewlineDue'
    BY <1>5 DEF NewlineDue
  <1> QED
    BY <1>5, <1>8, <1>9 DEF RingDisk

\* The newline ends the last stretch, and adds none.
LEMMA NewlineLength ==
    ASSUME FilesTyped, NEW t, WritesNewline(t)
    PROVE  files'.rotated = files.rotated /\ Len(files'.current) = Len(files.current)
  <1>1. files.current \in Seq(Stretches)
    BY DEF FilesTyped
  <1>2. CASE files.current = <<>>
    BY <1>2 DEF WritesNewline
  <1>3. CASE files.current # <<>>
    <2>1. PICK file \in Seq(Stretches), n \in Nat : file = files.current /\ n = Len(file) /\ n \in 1 .. Len(file)
      BY <1>1, <1>3
    <2>2. PICK last : last = [file[n] EXCEPT !.ended = TRUE]
      OBVIOUS
    <2>3. last \in Stretches
      <3>1. file[n] \in Stretches
        BY <2>1, ElementOfSeq
      <3> QED
        BY <2>2, <3>1 DEF Stretches
    <2>4. files' = [files EXCEPT !.current[Len(files.current)].ended = TRUE]
      BY <1>3 DEF WritesNewline
    <2>5. files'.current = [file EXCEPT ![n] = last] /\ files'.rotated = files.rotated
      BY <2>1, <2>2, <2>4 DEF FilesTyped
    <2>6. Len([file EXCEPT ![n] = last]) = Len(file)
      BY <2>1, <2>3, ExceptSeq
    <2> QED
      BY <2>1, <2>5, <2>6
  <1> QED
    BY <1>2, <1>3

\* The newline: the line on disk stays what it is, and nothing is at stake any more.
LEMMA WritesNewlineDisk ==
    ASSUME RingCounts, RingDisk, NEW t \in EventTasks, WritesNewline(t)
    PROVE  RingDisk'
  <1>0. FilesTyped /\ FilesInOrder /\ LossesPaid /\ NewlineDue
    BY DEF RingDisk
  <1>1. RingCounts' /\ Emitters({"newline"}) = {t} /\ Emitters({"newline"})' = {}
    BY WritesNewlineCounts
  <1>2. UNCHANGED <<attempts, ringErrors>>
    BY DEF WritesNewline
  <1>3. Open(files.current) /\ files.current \in Seq(Stretches) /\ files.rotated \in Seq(Stretches)
    BY <1>0, <1>1 DEF NewlineDue, FilesTyped
  <1>4. PICK file \in Seq(Stretches), n \in Nat : file = files.current /\ n = Len(file) /\ n \in 1 .. Len(file) /\ file # <<>>
    <2>1. Len(files.current) \in Nat /\ Len(files.current) \in 1 .. Len(files.current) /\ files.current # <<>>
      BY <1>3 DEF Open
    <2> QED
      BY <1>3, <2>1, Zenon
  <1>5. PICK last : last = [file[n] EXCEPT !.ended = TRUE]
    OBVIOUS
  <1>6. last \in Stretches /\ last.lines = file[n].lines /\ last.ended
    <2>1. file[n] \in Stretches
      BY <1>4, ElementOfSeq
    <2> QED
      BY <1>5, <2>1 DEF Stretches
  <1>7. PICK g : g = [file EXCEPT ![n] = last]
    OBVIOUS
  <1>8. files'.current = g /\ files'.rotated = files.rotated /\ files' = [files EXCEPT !.current = g]
    <2>1. files' = [files EXCEPT !.current[Len(files.current)].ended = TRUE]
      BY <1>4 DEF WritesNewline
    <2> QED
      BY <1>0, <1>4, <1>5, <1>7, <2>1 DEF FilesTyped
  <1>9. /\ g \in Seq(Stretches) /\ Len(g) = Len(file) /\ g[n] = last
        /\ \A i \in 1 .. Len(file) : i # n => g[i] = file[i]
    <2>1. /\ g \in Seq(Stretches) /\ Len(g) = Len(file)
          /\ \A i \in 1 .. Len(file) : g[i] = IF i = n THEN last ELSE file[i]
      BY <1>4, <1>6, <1>7, ExceptSeq
    <2> QED
      BY <1>4, <2>1
  <1>10. \A i \in 1 .. Len(file) : g[i].lines = file[i].lines
    BY <1>4, <1>6, <1>9
  <1>11. \A i \in 1 .. Len(file) : Whole(g[i]) <=> Whole(file[i])
    BY <1>10 DEF Whole
  <1>12. WholeLines(g) = WholeLines(file)
    BY <1>9, <1>10, <1>11 DEF WholeLines
  <1>13. Rising(g)
    BY <1>0, <1>4, <1>9, <1>10, <1>11 DEF FilesInOrder, Rising
  <1>14. OnDisk' = OnDisk
    BY <1>4, <1>8, <1>12 DEF OnDisk
  <1>15. FilesTyped'
    BY <1>0, <1>8, <1>9 DEF FilesTyped
  <1>16. FilesInOrder'
    BY <1>0, <1>2, <1>4, <1>8, <1>12, <1>13, <1>14 DEF FilesInOrder
  <1>17. AtStake' = 0 /\ AtStake = 0
    <2>1. ~Open(files'.current)
      BY <1>4, <1>6, <1>8, <1>9 DEF Open
    <2> QED
      BY <1>1, <2>1 DEF AtStake
  <1>18. LossesPaid'
    <2>1. Lost' = Lost
      BY <1>2, <1>14 DEF Lost
    <2> QED
      BY <1>0, <1>2, <1>17, <2>1 DEF LossesPaid
  <1>19. NewlineDue'
    BY <1>1 DEF NewlineDue
  <1> QED
    BY <1>15, <1>16, <1>18, <1>19 DEF RingDisk

\* A failure: its line is lost, and what is left without an end is at stake; the error pays for two.
LEMMA AppendFailsDisk ==
    ASSUME RingCounts, RingDisk, NEW t \in EventTasks, AppendFails(t)
    PROVE  RingDisk'
  <1>0. FilesTyped /\ FilesInOrder /\ LossesPaid /\ NewlineDue
    BY DEF RingDisk
  <1>1. /\ RingCounts' /\ Emitters({"newline"})' = {}
        /\ emitter[t].at = "newline" => Len(attempts') = Len(attempts) /\ Emitters({"newline"}) = {t}
        /\ emitter[t].at # "newline" => Len(attempts') = NextLine /\ Emitters({"newline"}) = {}
    BY AppendFailsCounts
  <1>2. ringErrors' = ringErrors + 1 /\ emitter[t].at \in {"size", "line", "newline"}
    BY DEF AppendFails
  <1>3. IsFiniteSet(Lost) /\ AtStake \in 0 .. 2
    BY LostFinite
  <1>4. NewlineDue'
    BY <1>1 DEF NewlineDue
  <1>5. AtStake' \in 0 .. 2
    BY DEF AtStake
  <1>6. PICK n \in Nat : n = Len(attempts) /\ NextLine = n + 1
    BY RingNumbers DEF NextLine
  <1>7. CASE files' = files
    <2>1. OnDisk' = OnDisk /\ OnDisk \subseteq OnDisk' \cup {} /\ OnDisk' \subseteq OnDisk \cup {NextLine}
      BY <1>7 DEF OnDisk
    <2>2. FilesTyped' /\ FilesInOrder'
      <3>1. OnDisk' \subseteq 1 .. Len(attempts')
        <4>1. OnDisk \subseteq 1 .. n /\ (Len(attempts') = n \/ Len(attempts') = n + 1)
          BY <1>0, <1>1, <1>2, <1>6 DEF FilesInOrder
        <4> QED
          BY <1>6, <2>1, <4>1
      <3> QED
        BY <1>0, <1>7, <3>1 DEF FilesTyped, FilesInOrder
    <2>3. CASE emitter[t].at = "newline"
      <3>1. Lost' = Lost
        BY <1>1, <2>1, <2>3 DEF Lost
      <3>2. Cardinality(Lost') <= Cardinality(Lost) + 0
        BY <3>1, LostFinite
      <3>3. 0 + AtStake' <= AtStake + 2 * 1
        <4>1. PICK s, s1 \in 0 .. 2 : s = AtStake /\ s1 = AtStake'
          BY <1>3, <1>5
        <4>2. 0 + s1 <= s + 2 * 1
          OBVIOUS
        <4> QED
          BY <4>1, <4>2
      <3>4. LossesPaid'
        BY <1>0, <1>1, <1>2, <3>2, <3>3, StillPaid
      <3> QED
        BY <1>4, <2>2, <3>4 DEF RingDisk
    <2>4. CASE emitter[t].at # "newline"
      <3>1. Lost' \subseteq Lost \cup {NextLine}
        <4>1. Lost' \subseteq Lost \cup {} \cup {NextLine}
          BY <1>1, <2>1, <2>4, LostMoves
        <4> QED
          BY <4>1
      <3>2. Cardinality(Lost') <= Cardinality(Lost) + 1
        BY <1>3, <3>1, FewMore
      <3>3. AtStake' = AtStake
        BY <1>1, <1>7, <2>4 DEF AtStake
      <3>4. 1 + AtStake' <= AtStake + 2 * 1
        BY <1>3, <3>3
      <3>5. LossesPaid'
        BY <1>0, <1>1, <1>2, <3>2, <3>4, StillPaid
      <3> QED
        BY <1>4, <2>2, <3>5 DEF RingDisk
    <2> QED
      BY <2>3, <2>4
  <1>8. CASE emitter[t].at = "line" /\ \E cut \in BOOLEAN : files' = [files EXCEPT !.current = WithLine(@, Fragment, cut)]
    <2>00. PICK cut \in BOOLEAN : files' = [files EXCEPT !.current = WithLine(@, 0, cut)]
      BY <1>8 DEF Fragment
    <2>0. Len(attempts') = NextLine /\ Emitters({"newline"}) = {}
      BY <1>1, <1>8
    <2>1. NextLine \in 1 .. Events
      BY <1>8, RoomForLine DEF NextLine
    <2>2. PICK lost : lost = files.current[Len(files.current)].lines[1]
      OBVIOUS
    <2>3. /\ FilesTyped' /\ FilesInOrder' /\ Open(files'.current) /\ ~Whole(files'.current[Len(files'.current)])
          /\ ~Open(files.current) => OnDisk' = OnDisk
          /\ Open(files.current) => /\ OnDisk' \subseteq OnDisk /\ OnDisk \subseteq OnDisk' \cup {lost}
                                    /\ ~Whole(files.current[Len(files.current)]) => OnDisk \subseteq OnDisk'
      <3>1. /\ FilesTyped' /\ FilesInOrder' /\ Open(files'.current)
            /\ ~Open(files.current) => /\ ~Whole(files'.current[Len(files'.current)])
                                       /\ OnDisk' = OnDisk \cup ({0} \ {0})
            /\ Open(files.current) => /\ ~Whole(files'.current[Len(files'.current)])
                                      /\ OnDisk' \subseteq OnDisk /\ OnDisk \subseteq OnDisk' \cup {lost}
                                      /\ ~Whole(files.current[Len(files.current)]) => OnDisk \subseteq OnDisk'
        BY <1>0, <2>00, <2>0, <2>1, <2>2, WithLineInOrder
      <3> QED
        BY <3>1
    <2>4. AtStake' = 1
      BY <1>1, <2>3 DEF AtStake
    <2>5. CASE Open(files.current) /\ Whole(files.current[Len(files.current)])
      <3>1. Lost' \subseteq Lost \cup {lost, NextLine}
        <4>1. Lost' \subseteq Lost \cup {lost} \cup {NextLine}
          BY <2>0, <2>3, <2>5, LostMoves
        <4> QED
          BY <4>1
      <3>2. Cardinality(Lost') <= Cardinality(Lost) + 2
        BY <1>3, <3>1, FewMore
      <3>3. AtStake = 2
        BY <2>0, <2>5 DEF AtStake
      <3>4. 2 + AtStake' <= AtStake + 2 * 1
        BY <2>4, <3>3
      <3>5. LossesPaid'
        BY <1>0, <1>1, <1>2, <3>2, <3>4, StillPaid
      <3> QED
        BY <1>4, <2>3, <3>5 DEF RingDisk
    <2>6. CASE ~(Open(files.current) /\ Whole(files.current[Len(files.current)]))
      <3>1. Lost' \subseteq Lost \cup {NextLine}
        <4>1. OnDisk \subseteq OnDisk' \cup {} /\ OnDisk' \subseteq OnDisk \cup {NextLine}
          BY <2>3, <2>6
        <4>2. Lost' \subseteq Lost \cup {} \cup {NextLine}
          BY <2>0, <4>1, LostMoves
        <4> QED
          BY <4>2
      <3>2. Cardinality(Lost') <= Cardinality(Lost) + 1
        BY <1>3, <3>1, FewMore
      <3>3. 1 + AtStake' <= AtStake + 2 * 1
        BY <1>3, <2>4
      <3>4. LossesPaid'
        BY <1>0, <1>1, <1>2, <3>2, <3>3, StillPaid
      <3> QED
        BY <1>4, <2>3, <3>4 DEF RingDisk
    <2> QED
      BY <2>5, <2>6
  <1>9. \/ files' = files
        \/ emitter[t].at = "line" /\ \E cut \in BOOLEAN : files' = [files EXCEPT !.current = WithLine(@, Fragment, cut)]
    BY DEF AppendFails
  <1> QED
    BY <1>7, <1>8, <1>9

\* With the lock free, or with a task that is elsewhere, nobody is about to write.
LEMMA NobodyAtLine ==
    ASSUME RingCounts', NEW t \in EventTasks, ringLock' = Free \/ (ringLock' = t /\ emitter'[t].at # "line")
    PROVE  Emitters({"line"})' = {}
  <1>1. LockHeld' /\ Free \notin EventTasks
    BY RingAssumption DEF RingCounts
  <1>2. ASSUME NEW u \in EventTasks PROVE emitter'[u].at # "line"
    BY <1>1 DEF LockHeld
  <1> QED
    BY <1>2 DEF Emitters

\* Every step of a task keeps the files to their cap.
LEMMA CappedStays ==
    ASSUME RingCounts, RingCounts', RingDisk, FilesCapped, NEW t \in EventTasks,
           \/ Allow(t) \/ CountsOnly(t) \/ Emit(t) \/ LocksRing(t)
           \/ Rotates(t) \/ WritesLine(t) \/ WritesNewline(t) \/ AppendFails(t)
    PROVE  FilesCapped'
  <1>0. FilesTyped /\ FilesInOrder /\ NewlineDue /\ emitter \in [EventTasks -> [at : EmitterPlaces, withheld : 0 .. Events]]
    BY DEF RingDisk, RingCounts, CountsTyped
  <1>1. PICK cap, r, c \in Nat : cap = RingCap /\ cap > 0 /\ r = Len(files.rotated) /\ c = Len(files.current)
    <2>1. files.rotated \in Seq(Stretches) /\ files.current \in Seq(Stretches)
      BY <1>0 DEF FilesTyped
    <2> QED
      BY <2>1, RingAssumption
  <1>2. r <= cap /\ c <= cap /\ (Emitters({"line"}) # {} => c + 1 <= cap)
    BY <1>1 DEF FilesCapped
  <1>3. ASSUME Allow(t) \/ CountsOnly(t) \/ Emit(t) \/ LocksRing(t) PROVE FilesCapped'
    <2>1. UNCHANGED files
      BY <1>3 DEF Allow, CountsOnly, Emit, LocksRing
    <2>2. \A u \in EventTasks \ {t} : emitter'[u] = emitter[u]
      BY <1>0, <1>3 DEF Allow, CountsOnly, Emit, LocksRing, EmitterGoes
    <2>3. emitter'[t].at # "line"
      <3>1. CASE Allow(t)
        <4>1. \/ EmitterGoes(t, "countOnly")
              \/ \E x : emitter' = [emitter EXCEPT ![t] = [at |-> "count", withheld |-> x]]
          BY <3>1, Zenon DEF Allow
        <4> QED
          BY <1>0, <4>1 DEF EmitterGoes
      <3>2. CASE CountsOnly(t)
        BY <1>0, <3>2 DEF CountsOnly, EmitterGoes
      <3>3. CASE Emit(t)
        BY <1>0, <3>3 DEF Emit
      <3>4. CASE LocksRing(t)
        BY <1>0, <3>4 DEF LocksRing, EmitterGoes
      <3> QED
        BY <1>3, <3>1, <3>2, <3>3, <3>4
    <2>4. Emitters({"line"})' \subseteq Emitters({"line"})
      BY <2>2, <2>3 DEF Emitters
    <2> QED
      BY <2>1, <2>4 DEF FilesCapped
  <1>4. CASE Rotates(t)
    <2>1. CASE files' = files /\ (c = 0 \/ c + 1 <= cap)
      <3>1. c + 1 <= cap
        BY <1>1, <2>1
      <3> QED
        BY <1>1, <1>2, <2>1, <3>1 DEF FilesCapped
    <2>2. CASE files' = [rotated |-> files.current, current |-> <<>>]
      <3>1. files'.rotated = files.current /\ Len(files'.current) = 0
        BY <2>2
      <3>2. Len(files'.rotated) <= cap /\ Len(files'.current) <= cap /\ Len(files'.current) + 1 <= cap
        BY <1>1, <1>2, <3>1
      <3> QED
        BY <1>1, <3>2 DEF FilesCapped
    <2>3. (files' = files /\ (c = 0 \/ c + 1 <= cap)) \/ files' = [rotated |-> files.current, current |-> <<>>]
      <3>1. files' = IF c > 0 /\ c + 1 > cap THEN [rotated |-> files.current, current |-> <<>>] ELSE files
        BY <1>1, <1>4 DEF Rotates
      <3> QED
        BY <1>1, <3>1
    <2> QED
      BY <2>1, <2>2, <2>3
  <1>5. ASSUME Emitters({"line"})' = {}, files'.rotated = files.rotated, Len(files'.current) <= cap PROVE FilesCapped'
    BY <1>1, <1>2, <1>5 DEF FilesCapped
  <1>6. CASE WritesLine(t)
    <2>1. /\ emitter[t].at = "line" /\ EmitterGoes(t, "newline") /\ UNCHANGED ringLock
          /\ files' = [files EXCEPT !.current = WithLine(@, NextLine, FALSE)]
      BY <1>6 DEF WritesLine
    <2>2. NextLine \in 1 .. Events /\ Len(attempts') = NextLine
      BY <1>6, WritesLineCounts
    <2>3. files'.rotated = files.rotated /\ Len(files'.current) <= c + 1 /\ files'.current \in Seq(Stretches)
      BY <1>0, <1>1, <2>1, <2>2, WithLineInOrder DEF FilesTyped
    <2>4. ringLock' = t /\ emitter'[t].at = "newline"
      BY <1>0, <2>1, AloneAtRing DEF EmitterGoes
    <2>5. Emitters({"line"})' = {}
      BY <2>4, NobodyAtLine
    <2>6. c + 1 <= cap
      BY <1>2, <2>1 DEF Emitters
    <2>7. Len(files'.current) <= cap
      <3>1. Len(files'.current) \in Nat
        BY <2>3
      <3> QED
        BY <2>3, <2>6, <3>1
    <2> QED
      BY <1>5, <2>3, <2>5, <2>7
  <1>7. CASE WritesNewline(t)
    <2>1. Emitters({"line"})' = {}
      BY <1>7, NobodyAtLine DEF WritesNewline, Unlocks
    <2>2. files'.rotated = files.rotated /\ Len(files'.current) = c
      BY <1>0, <1>1, <1>7, NewlineLength DEF FilesTyped
    <2> QED
      BY <1>2, <1>5, <2>1, <2>2
  <1>8. CASE AppendFails(t)
    <2>1. Emitters({"line"})' = {}
      BY <1>8, NobodyAtLine DEF AppendFails, Unlocks
    <2>2. CASE files' = files
      BY <1>1, <1>2, <1>5, <2>1, <2>2
    <2>3. CASE emitter[t].at = "line" /\ \E cut \in BOOLEAN : files' = [files EXCEPT !.current = WithLine(@, Fragment, cut)]
      <3>1. PICK cut \in BOOLEAN : files' = [files EXCEPT !.current = WithLine(@, 0, cut)]
        BY <2>3 DEF Fragment
      <3>2. NextLine \in 1 .. Events
        BY <2>3, RoomForLine DEF NextLine
      <3>3. Len(attempts') = NextLine
        BY <1>8, <2>3, AppendFailsCounts
      <3>4. files'.rotated = files.rotated /\ Len(files'.current) <= c + 1 /\ files'.current \in Seq(Stretches)
        BY <1>0, <1>1, <3>1, <3>2, <3>3, WithLineInOrder DEF FilesTyped
      <3>5. c + 1 <= cap
        BY <1>2, <2>3 DEF Emitters
      <3>6. Len(files'.current) <= cap
        <4>1. Len(files'.current) \in Nat
          BY <3>4
        <4> QED
          BY <3>4, <3>5, <4>1
      <3> QED
        BY <1>5, <2>1, <3>4, <3>6
    <2> QED
      BY <1>8, <2>2, <2>3 DEF AppendFails
  <1> QED
    BY <1>3, <1>4, <1>6, <1>7, <1>8

\* What a reader was shown stays in order, however many errors come after it.
LEMMA ShownStays ==
    ASSUME RingCounts, RecentTyped, RecentInOrder, UNCHANGED recent,
           ringErrors' = ringErrors \/ ringErrors' = ringErrors + 1
    PROVE  RecentTyped' /\ RecentInOrder'
  <1>1. PICK e, e1, m \in Nat : e = ringErrors /\ e1 = ringErrors' /\ m = RingCap * recent.torn /\ e <= e1
    <2>1. ringErrors \in Nat /\ RingCap \in Nat /\ recent.torn \in 0 .. 2
      BY RingNumbers, RingAssumption DEF RecentTyped
    <2>2. PICK m \in Nat : m = RingCap * recent.torn
      BY <2>1
    <2>3. ringErrors' \in Nat /\ ringErrors <= ringErrors'
      BY <2>1
    <2> QED
      BY <2>1, <2>2, <2>3, Zenon
  <1>2. ShownWhole' = ShownWhole
    BY DEF ShownWhole
  <1>3. ASSUME NEW i \in ShownWhole PROVE Cardinality(MissingFrom(i)') <= 2 * ringErrors' + RingCap * recent'.torn
    <2>1. MissingFrom(i)' = MissingFrom(i)
      BY <1>2 DEF MissingFrom
    <2>2. Cardinality(MissingFrom(i)) <= 2 * e + m
      BY <1>1 DEF RecentInOrder
    <2>3. Cardinality(MissingFrom(i)) \in Nat
      <3>1. recent.lines \in Seq(0 .. Events) /\ recent.upTo \in 0 .. Events /\ i \in 1 .. Len(recent.lines)
        BY DEF RecentTyped, ShownWhole
      <3>2. recent.lines[i] \in 0 .. Events
        BY <3>1, ElementOfSeq
      <3>3. PICK a, b \in Int : a = recent.lines[i] /\ b = recent.upTo
        BY <3>1, <3>2, RingAssumption
      <3>4. IsFiniteSet(a .. b)
        BY FS_Interval
      <3>5. MissingFrom(i) \in SUBSET (a .. b)
        BY <3>3 DEF MissingFrom
      <3> QED
        BY <3>4, <3>5, FS_Subset, FS_CardinalityType
    <2>4. PICK c \in Nat : c = Cardinality(MissingFrom(i))
      BY <2>3
    <2>5. c <= 2 * e1 + m
      BY <1>1, <2>2, <2>4
    <2> QED
      BY <1>1, <2>1, <2>4, <2>5
  <1>4. \A i, j \in ShownWhole : i < j => recent'.lines[i] < recent'.lines[j]
    BY DEF RecentInOrder
  <1> QED
    BY <1>2, <1>3, <1>4 DEF RecentInOrder, RecentTyped

RingKept == RingCounts /\ RingDisk /\ FilesCapped /\ RecentTyped /\ RecentInOrder

\* The start.
LEMMA RingStarts == RingInit => RingKept
  <1> SUFFICES ASSUME RingInit PROVE RingKept
    OBVIOUS
  <1>0. Events \in Nat /\ Windows \in Nat /\ BudgetLimit \in Nat /\ Free \notin EventTasks
    BY RingAssumption
  <1>1. /\ emitter = [t \in EventTasks |-> [at |-> "idle", withheld |-> 0]]
        /\ budget = [window |-> 0, used |-> 0, suppressed |-> 0]
        /\ tally = [calls |-> 0, counted |-> 0, lines |-> 0, reported |-> 0]
        /\ ringLock = Free /\ files = [rotated |-> <<>>, current |-> <<>>]
        /\ attempts = <<>> /\ ringErrors = 0 /\ recent = [lines |-> <<>>, upTo |-> 0, torn |-> 0]
    BY DEF RingInit, AtRest
  <1>2. PICK e : e = <<>> /\ e \in Seq(Stretches) /\ e \in Seq(1 .. Events) /\ e \in Seq(0 .. Events) /\ Len(e) = 0
    BY EmptySeq, Zenon
  <1>3. CountsTyped
    BY <1>0, <1>1, <1>2 DEF CountsTyped, EmitterPlaces
  <1>4. LockHeld /\ CarriesOnly
    BY <1>0, <1>1 DEF LockHeld, CarriesOnly
  <1>5. ASSUME NEW P, "idle" \notin P PROVE Emitters(P) = {}
    BY <1>1, <1>5 DEF Emitters
  <1>6. /\ Emitters({"count"}) = {} /\ Emitters({"countOnly"}) = {} /\ Emitters({"newline"}) = {}
        /\ Emitters({"wait", "size", "line"}) = {}
    BY <1>5
  <1>7. WithheldCarried = {}
    BY <1>6 DEF WithheldCarried
  <1>70. /\ Cardinality(Emitters({"count"})) = 0 /\ Cardinality(Emitters({"countOnly"})) = 0 /\ Cardinality(WithheldCarried) = 0
         /\ Cardinality(Emitters({"newline"})) = 0 /\ Cardinality(Emitters({"wait", "size", "line"})) = 0
    <2>1. Cardinality({}) = 0
      BY FS_EmptySet
    <2> QED
      BY <1>6, <1>7, <2>1
  <1>71. /\ tally.calls = 0 /\ tally.lines = 0 /\ tally.reported = 0 /\ tally.counted = 0 /\ budget.suppressed = 0
         /\ Len(attempts) = 0 /\ ringErrors = 0
    BY <1>1, <1>2
  <1>8. WithheldAccounted
    BY <1>70, <1>71, AccountIs
  <1>9. GivenToRing
    BY <1>70, <1>71 DEF GivenToRing
  <1>10. files.rotated = e /\ files.current = e
    BY <1>1, <1>2
  <1>11. WholeLines(e) = {} /\ Rising(e) /\ ~Open(e)
    BY <1>2 DEF WholeLines, Rising, Open
  <1>12. FilesTyped
    BY <1>1, <1>2 DEF FilesTyped
  <1>13. OnDisk = {}
    BY <1>10, <1>11 DEF OnDisk
  <1>14. FilesInOrder
    BY <1>10, <1>11, <1>13 DEF FilesInOrder
  <1>15. LossesPaid
    <2>1. Lost = {} /\ AtStake = 0
      BY <1>10, <1>11, <1>13 DEF Lost, AtStake
    <2> QED
      BY <1>1, <2>1, FS_EmptySet DEF LossesPaid
  <1>16. NewlineDue
    BY <1>6 DEF NewlineDue
  <1>17. RecentTyped /\ RecentInOrder
    <2>1. RecentTyped
      BY <1>0, <1>1, <1>2 DEF RecentTyped
    <2>2. ShownWhole = {}
      <3>1. recent.lines = e
        BY <1>1, <1>2
      <3> QED
        BY <1>2, <3>1 DEF ShownWhole
    <2> QED
      BY <2>1, <2>2 DEF RecentInOrder
  <1>18. FilesCapped
    <2>1. Emitters({"line"}) = {}
      BY <1>5
    <2>2. RingCap \in Nat
      BY RingAssumption
    <2> QED
      BY <1>2, <1>10, <2>1, <2>2 DEF FilesCapped
  <1> QED
    BY <1>3, <1>4, <1>8, <1>9, <1>12, <1>14, <1>15, <1>16, <1>17, <1>18 DEF RingKept, RingCounts, RingDisk

\* The ring was given no more lines than there are events.
LEMMA GivenFew == RingCounts => Len(attempts) \in 0 .. Events
  <1> SUFFICES ASSUME RingCounts PROVE Len(attempts) \in 0 .. Events
    OBVIOUS
  <1>1. Emitters({"wait", "size", "line"}) \in SUBSET EventTasks /\ IsFiniteSet(EventTasks)
    BY RingAssumption DEF Emitters
  <1>2. Cardinality(Emitters({"wait", "size", "line"})) \in Nat
    BY <1>1, FS_Subset, FS_CardinalityType
  <1>3. PICK q, given, lines, most \in Nat :
          /\ q = Cardinality(Emitters({"wait", "size", "line"})) /\ given = Len(attempts)
          /\ lines = tally.lines /\ most = Events /\ lines <= most
    BY <1>2, RingNumbers
  <1>4. lines = given + q
    BY <1>3 DEF RingCounts, GivenToRing
  <1>5. given \in 0 .. most
    BY <1>3, <1>4
  <1> QED
    BY <1>3, <1>5

\* Reading, and what leaves everything as it is.
LEMMA RingSame ==
    ASSUME RingCounts, RingDisk, UNCHANGED <<emitter, budget, tally, ringLock, files, attempts, ringErrors>>
    PROVE  RingCounts' /\ RingDisk'
  <1>1. Emitters({"newline"})' = Emitters({"newline"}) /\ UNCHANGED <<files, attempts, ringErrors>>
    BY DEF Emitters
  <1>2. RingDisk'
    BY <1>1, DiskSame
  <1>3. CountsTyped' /\ LockHeld' /\ CarriesOnly' /\ GivenToRing'
    BY DEF RingCounts, CountsTyped, LockHeld, CarriesOnly, GivenToRing, Emitters
  <1>4. WithheldAccounted'
    BY DEF RingCounts, WithheldAccounted
  <1> QED
    BY <1>2, <1>3, <1>4 DEF RingCounts

\* Every step of a task or a reader.
LEMMA RingKeeps == RingKept /\ [RingNext]_ringVars => RingKept'
  <1> SUFFICES ASSUME RingKept, [RingNext]_ringVars PROVE RingKept'
    OBVIOUS
  <1>0. RingCounts /\ RingDisk /\ FilesCapped /\ RecentTyped /\ RecentInOrder /\ ringErrors \in Nat
    BY RingNumbers DEF RingKept
  <1>1. ASSUME NEW t \in EventTasks, Allow(t) \/ CountsOnly(t) \/ Emit(t) \/ LocksRing(t) PROVE RingKept'
    <2>1. RingCounts' /\ Emitters({"newline"})' = Emitters({"newline"})
      BY <1>0, <1>1, AllowCounts, CountsOnlyCounts, EmitCounts, LocksRingCounts
    <2>2. UNCHANGED <<files, attempts, ringErrors>> /\ UNCHANGED recent
      BY <1>1 DEF Allow, CountsOnly, Emit, LocksRing
    <2>3. RingDisk'
      BY <1>0, <2>1, <2>2, DiskSame
    <2>4. RecentTyped' /\ RecentInOrder'
      BY <1>0, <2>2, ShownStays
    <2>5. FilesCapped'
      BY <1>0, <1>1, <2>1, CappedStays
    <2> QED
      BY <2>1, <2>3, <2>4, <2>5 DEF RingKept
  <1>2. ASSUME NEW t \in EventTasks, Rotates(t) \/ WritesLine(t) \/ WritesNewline(t) \/ AppendFails(t) PROVE RingKept'
    <2>1. RingCounts' /\ RingDisk'
      BY <1>0, <1>2, RotatesCounts, WritesLineCounts, WritesNewlineCounts, AppendFailsCounts,
         RotatesDisk, WritesLineDisk, WritesNewlineDisk, AppendFailsDisk
    <2>2. UNCHANGED recent /\ (ringErrors' = ringErrors \/ ringErrors' = ringErrors + 1)
      BY <1>2 DEF Rotates, WritesLine, WritesNewline, AppendFails
    <2>3. RecentTyped' /\ RecentInOrder'
      BY <1>0, <2>2, ShownStays
    <2>4. FilesCapped'
      BY <1>0, <1>2, <2>1, CappedStays
    <2> QED
      BY <2>1, <2>3, <2>4 DEF RingKept
  <1>3. CASE ReadsRecent
    <2>1. UNCHANGED <<emitter, budget, tally, ringLock, files, attempts, ringErrors>>
      BY <1>3 DEF ReadsRecent
    <2>2. RingCounts' /\ RingDisk'
      BY <1>0, <2>1, RingSame
    <2>3. RecentTyped' /\ RecentInOrder'
      <3>1. IsFiniteSet(Lost)
        BY <1>0, LostFinite
      <3>2. RingTypeOK
        BY <1>0 DEF RingTypeOK, RingCounts, CountsTyped, RingDisk, FilesTyped, EmitterPlaces, RecentTyped
      <3>3. Len(attempts) \in 0 .. Events
        BY <1>0, GivenFew
      <3> QED
        BY <1>0, <1>3, <3>1, <3>2, <3>3, ShownInOrder DEF RingDisk
    <2>4. FilesCapped'
      BY <1>0, <2>1 DEF FilesCapped, Emitters
    <2> QED
      BY <2>2, <2>3, <2>4 DEF RingKept
  <1>4. CASE UNCHANGED ringVars
    <2>1. UNCHANGED <<emitter, budget, tally, ringLock, files, attempts, ringErrors>> /\ UNCHANGED recent /\ ringErrors' = ringErrors
      BY <1>4 DEF ringVars
    <2>2. RingCounts' /\ RingDisk'
      BY <1>0, <2>1, RingSame
    <2>3. RecentTyped' /\ RecentInOrder'
      BY <1>0, <2>1, ShownStays
    <2>4. FilesCapped'
      BY <1>0, <2>1 DEF FilesCapped, Emitters
    <2> QED
      BY <2>2, <2>3, <2>4 DEF RingKept
  <1> QED
    BY <1>1, <1>2, <1>3, <1>4 DEF RingNext

\* However many tasks emit, whatever is withheld, wherever an append fails and the files are rotated: no event is lost
\* from the counts or counted twice, and a reader sees lines in the order the ring took them, with at most two missing
\* for each write error counted and, for each file in which a write was cut inside a character, at most what that file
\* holds (Budget::allow_at, emit_limited, Ring::append, Ring::recent, read_lines in events.rs).
THEOREM EventsAlwaysAccounted == RingSpec => []EventsAccounted
  <1>1. RingKept => EventsAccounted
    BY DEF RingKept, EventsAccounted, RingTypeOK, RingCounts, CountsTyped, RingDisk, FilesTyped, EmitterPlaces, RecentTyped
  <1> QED
    BY <1>1, RingStarts, RingKeeps, PTL DEF RingSpec
=============================================================================
