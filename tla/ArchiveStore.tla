---------------------------- MODULE ArchiveStore ----------------------------
(***************************************************************************)
(* FileRunArchiveStore (packages/prototype/src/archive.ts): one archive    *)
(* file of one run, replaced by a rename under a lock file that nothing    *)
(* else removes, and clients that load, extend and save it again, with or  *)
(* without the digest of the state they expect.  Nothing is synced.        *)
(*                                                                         *)
(* An archive is the sequence of the run's events.  Its digest is that of  *)
(* the state the events lead to: events with one effect are one to it.     *)
(***************************************************************************)
EXTENDS Naturals, Sequences

CONSTANTS
    Savers,         \* processes with a store on the same directory
    ArchiveEvents,  \* events a client may append
    Effect,         \* what an event does to the state
    MaxBytes,       \* the size limit, in events
    MaxArchiveFaults,
    NoArchive,      \* there is no file
    TornArchive     \* a file with only part of its bytes

ASSUME ArchiveConstants ==
    /\ MaxBytes \in Nat \ {0} /\ MaxArchiveFaults \in Nat
    /\ DOMAIN Effect = ArchiveEvents

VARIABLES
    archive,        \* what a reader of the file sees
    onDisk,         \* what a power loss may leave under its name
    archiveLock,    \* the lock file exists
    saver,          \* the client of each process and its save
    offered,        \* history: the archives that some save was given
    archiveFaults

archiveVars == <<archive, onDisk, archiveLock, saver, offered, archiveFaults>>

ArchiveFiles == Seq(ArchiveEvents)
IsArchive(a) == a \notin {NoArchive, TornArchive}
StateDigest(a) == [i \in DOMAIN a |-> Effect[a[i]]]

\* The client holds nothing, "any" state may be replaced, nothing is under way.
IdleSaver == [at |-> "idle", seen |-> NoArchive, draft |-> NoArchive,
              expected |-> NoArchive, saved |-> FALSE]

\* Between two saves a client keeps what it knows of the archive.
Client(seen) == [IdleSaver EXCEPT !.seen = seen]

ArchiveInit ==
    /\ archive = NoArchive
    /\ onDisk = {NoArchive}
    /\ archiveLock = FALSE
    /\ saver = [p \in Savers |-> IdleSaver]
    /\ offered = {}
    /\ archiveFaults = 0

-----------------------------------------------------------------------------
\* parsePortableRunArchive accepts whole files only; ENOENT is no archive.
Readable == archive # TornArchive

\* load without a lock: one open, so one version of the file.
LoadArchive(p) ==
    /\ saver[p].at = "idle"
    /\ saver' = [saver EXCEPT ![p] =
          IF Readable THEN Client(archive) ELSE @]
    /\ UNCHANGED <<archive, onDisk, archiveLock, offered, archiveFaults>>

\* The caller extends what it loaded; a caller that loaded nothing has no
\* digest to expect.
BeginSave(p) ==
    LET seen == saver[p].seen IN
    \E e \in ArchiveEvents, guarded \in BOOLEAN :
       LET draft == IF seen = NoArchive THEN <<e>> ELSE Append(seen, e) IN
       /\ saver[p].at = "idle"
       /\ seen = NoArchive => ~guarded
       /\ Len(draft) <= MaxBytes
       /\ saver' = [saver EXCEPT ![p] = [at |-> "lock", seen |-> seen, draft |-> draft,
             expected |-> IF guarded THEN StateDigest(seen) ELSE NoArchive,
             saved |-> FALSE]]
       /\ offered' = offered \union {draft}
       /\ UNCHANGED <<archive, onDisk, archiveLock, archiveFaults>>

\* Mutation of TakeArchiveLock: the lock file is opened without "wx".
TakeArchiveLockShared(p) ==
    /\ saver[p].at = "lock"
    /\ archiveLock' = TRUE
    /\ saver' = [saver EXCEPT ![p].at = "compare"]
    /\ UNCHANGED <<archive, onDisk, offered, archiveFaults>>

\* The exclusive open of the lock file.
TakeArchiveLock(p) ==
    /\ saver[p].at = "lock"
    /\ archiveLock' = TRUE
    /\ saver' = [saver EXCEPT ![p] = IF archiveLock THEN Client(@.seen)
                                     ELSE [@ EXCEPT !.at = "compare"]]
    /\ UNCHANGED <<archive, onDisk, offered, archiveFaults>>

\* A load under the lock, if a state is expected.
CompareArchive(p) ==
    /\ saver[p].at = "compare"
    /\ saver' = [saver EXCEPT ![p] =
          IF \/ @.expected = NoArchive
             \/ IsArchive(archive) /\ StateDigest(archive) = @.expected
          THEN [@ EXCEPT !.at = "rename"]
          ELSE [@ EXCEPT !.at = "release"]]
    /\ UNCHANGED <<archive, onDisk, archiveLock, offered, archiveFaults>>

\* The temporary is written under a random name, then renamed; neither its
\* bytes nor the directory are synced.
RenameArchive(p) ==
    /\ saver[p].at = "rename"
    /\ archive' = saver[p].draft
    /\ onDisk' = onDisk \union {saver[p].draft, TornArchive}
    /\ saver' = [saver EXCEPT ![p].at = "release", ![p].saved = TRUE]
    /\ UNCHANGED <<archiveLock, offered, archiveFaults>>

\* The finally clause: the temporary is removed, then the lock.
ReleaseArchiveLock(p) ==
    /\ saver[p].at = "release"
    /\ archiveLock' = FALSE
    /\ saver' = [saver EXCEPT ![p] = Client(IF @.saved THEN @.draft ELSE @.seen)]
    /\ UNCHANGED <<archive, onDisk, offered, archiveFaults>>

-----------------------------------------------------------------------------
ArchiveFault ==
    /\ archiveFaults < MaxArchiveFaults
    /\ archiveFaults' = archiveFaults + 1
    /\ UNCHANGED offered

\* An I/O error under the lock, before the rename.
SaveFails(p) ==
    /\ ArchiveFault
    /\ saver[p].at \in {"compare", "rename"}
    /\ saver' = [saver EXCEPT ![p].at = "release"]
    /\ UNCHANGED <<archive, onDisk, archiveLock>>

\* An error in the finally clause: the lock file stays.
ReleaseArchiveFails(p) ==
    /\ ArchiveFault
    /\ saver[p].at = "release"
    /\ saver' = [saver EXCEPT ![p] = Client(@.seen)]
    /\ UNCHANGED <<archive, onDisk, archiveLock>>

SaverCrashes(p) ==
    /\ ArchiveFault
    /\ saver[p] # IdleSaver
    /\ saver' = [saver EXCEPT ![p] = IdleSaver]
    /\ UNCHANGED <<archive, onDisk, archiveLock>>

\* Every process dies; file and lock are what reached the disk.
ArchivePowerLoss ==
    /\ ArchiveFault
    /\ archive' \in onDisk
    /\ onDisk' = {archive'}
    /\ archiveLock' \in BOOLEAN
    /\ saver' = [p \in Savers |-> IdleSaver]

ArchiveNext ==
    \/ \E p \in Savers :
          \/ LoadArchive(p) \/ BeginSave(p) \/ TakeArchiveLock(p)
          \/ CompareArchive(p) \/ RenameArchive(p) \/ ReleaseArchiveLock(p)
          \/ SaveFails(p) \/ ReleaseArchiveFails(p) \/ SaverCrashes(p)
    \/ ArchivePowerLoss

ArchiveSpec == ArchiveInit /\ [][ArchiveNext]_archiveVars

-----------------------------------------------------------------------------
\* The type of the state.
Saver ==
    [at : {"idle", "lock", "compare", "rename", "release"},
     seen : ArchiveFiles \cup {NoArchive}, draft : ArchiveFiles \cup {NoArchive},
     expected : {StateDigest(a) : a \in ArchiveFiles} \cup {NoArchive}, saved : BOOLEAN]

ArchiveTypeOK ==
    /\ archive \in ArchiveFiles \cup {NoArchive, TornArchive}
    /\ onDisk \subseteq ArchiveFiles \cup {NoArchive, TornArchive}
    /\ archiveLock \in BOOLEAN
    /\ saver \in [Savers -> Saver]
    /\ offered \subseteq ArchiveFiles
    /\ archiveFaults \in 0..MaxArchiveFaults

\* A save that expects a state replaces exactly that state, although the
\* comparison is a read of its own before the rename (archive.ts, save).
GuardedSavesSwap ==
    [][\A p \in Savers :
          /\ saver[p].at = "rename" /\ saver'[p].at = "release" /\ archive' # archive
          /\ saver[p].expected # NoArchive
          => IsArchive(archive) /\ StateDigest(archive) = saver[p].expected]_archiveVars

=============================================================================
