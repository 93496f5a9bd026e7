-------------------------- MODULE SnapshotFileStore --------------------------
(***************************************************************************)
(* The file-backed store of workspace session snapshots                    *)
(* (apps/api/src/workspaceSessionStoreFileAdapter.ts): processes that      *)
(* share a directory create a snapshot record by writing a temporary file, *)
(* linking it to its final name and removing the temporary one, under an   *)
(* advisory lock file where they are configured to use it.                 *)
(*                                                                         *)
(* One action is one file-system call.  The content of a record is its     *)
(* identity; a file whose content never reached the disk is "torn".        *)
(***************************************************************************)
CONSTANTS
  Processes,    \* the processes that share the directory
  Locking,      \* those configured with useLockFile
  SnapshotIds,
  Records,      \* contents of a record
  Faults        \* what may go wrong: "crash", "io", "power"

ASSUME FileStoreAssumption ==
  /\ Locking \subseteq Processes
  /\ Faults \subseteq {"crash", "io", "power"}
  /\ "torn" \notin Records

VARIABLES
  files,      \* per snapshot id: the content of its file, a set of at most one
  unsynced,   \* the ids whose file has not reached the disk
  temps,      \* temporary files on disk
  lock,       \* the lock file: who created it, a set of at most one
  pc, job,    \* per process: where it is in a call, and the call's argument
              \* and answer, a set of at most one
  told        \* the answers create has given since the power was last on

vars == <<files, unsynced, temps, lock, pc, job, told>>

Job == [id : SnapshotIds, record : Records, answer : {"created", "duplicate", "error"}]

Go(p, step) == pc' = [pc EXCEPT ![p] = step]

Answer(p, answer) == job' = [job EXCEPT ![p] = {[j EXCEPT !.answer = answer] : j \in @}]

(* The call returns or throws.                                              *)
Leave(p) == Go(p, "idle") /\ job' = [job EXCEPT ![p] = {}]

-----------------------------------------------------------------------------
Init ==
  /\ files = [id \in SnapshotIds |-> {}]
  /\ unsynced = {}
  /\ temps = {}
  /\ lock = {}
  /\ pc = [p \in Processes |-> "idle"]
  /\ job = [p \in Processes |-> {}]
  /\ told = {}

(* create(record)                                                           *)
Create(p, id, record) ==
  /\ pc[p] = "idle"
  /\ job' = [job EXCEPT ![p] = {[id |-> id, record |-> record, answer |-> "error"]}]
  /\ Go(p, IF p \in Locking THEN "lock" ELSE "write")
  /\ UNCHANGED <<files, unsynced, temps, lock, told>>

(* Mutant: the lock file is opened whether or not it exists.                *)
TakeLockAnyway(p) ==
  /\ pc[p] = "lock"
  /\ lock' = {p}
  /\ Go(p, "write")
  /\ UNCHANGED <<files, unsynced, temps, job, told>>

(* withOptionalLock: openSync(lockPath, "wx").  When writing the lock       *)
(* file's content fails the call throws and the file stays.                 *)
TakeLock(p) ==
  /\ pc[p] = "lock"
  /\ lock = {}
  /\ lock' = {p}
  /\ \/ Go(p, "write") /\ UNCHANGED job
     \/ "io" \in Faults /\ Leave(p)
  /\ UNCHANGED <<files, unsynced, temps, told>>

(* EEXIST: the store is locked, the call throws without trying again.       *)
LockedOut(p) ==
  /\ pc[p] = "lock"
  /\ lock # {}
  /\ Leave(p)
  /\ UNCHANGED <<files, unsynced, temps, lock, told>>

(* writeRecordFile: writeFileSync(tempPath).  It stands outside the try, so *)
(* a failure leaves the temporary file behind.                              *)
WriteTemp(p) ==
  /\ pc[p] = "write"
  /\ temps' = temps \cup {<<p, j.id>> : j \in job[p]}
  /\ \/ Go(p, "link")
     \/ "io" \in Faults /\ Go(p, "unlock")
  /\ UNCHANGED <<files, unsynced, lock, job, told>>

(* Mutant: rename instead of link, which replaces a file that is there.     *)
LinkOver(p) ==
  /\ pc[p] = "link"
  /\ \E j \in job[p] : /\ files' = [files EXCEPT ![j.id] = {j.record}]
                       /\ unsynced' = unsynced \cup {j.id}
  /\ Answer(p, "created")
  /\ Go(p, "clean")
  /\ UNCHANGED <<temps, lock, told>>

(* linkSync(tempPath, filePath): the file appears whole, or EEXIST.         *)
Link(p) ==
  /\ pc[p] = "link"
  /\ \E j \in job[p] :
       \/ /\ files[j.id] = {}
          /\ files' = [files EXCEPT ![j.id] = {j.record}]
          /\ unsynced' = unsynced \cup {j.id}
          /\ Answer(p, "created")
       \/ /\ files[j.id] # {}
          /\ Answer(p, "duplicate")
          /\ UNCHANGED <<files, unsynced>>
  /\ Go(p, "clean")
  /\ UNCHANGED <<temps, lock, told>>

(* linkSync fails for another reason.                                       *)
LinkFails(p) ==
  /\ pc[p] = "link" /\ "io" \in Faults
  /\ Go(p, "clean")
  /\ UNCHANGED <<files, unsynced, temps, lock, job, told>>

(* finally: rmSync(tempPath); where it throws, create throws in its turn.   *)
RemoveTemp(p) ==
  /\ pc[p] = "clean"
  /\ \/ temps' = temps \ {<<p, j.id>> : j \in job[p]} /\ UNCHANGED job
     \/ "io" \in Faults /\ Answer(p, "error") /\ UNCHANGED temps
  /\ Go(p, "unlock")
  /\ UNCHANGED <<files, unsynced, lock, told>>

(* finally: closeSync, rmSync(lockPath), and create answers its caller.     *)
(* Where one of them throws create throws and the lock file stays.          *)
Release(p) ==
  /\ pc[p] = "unlock"
  /\ \/ /\ lock' = IF p \in Locking THEN {} ELSE lock
        /\ told' = told \cup job[p]
     \/ /\ "io" \in Faults /\ p \in Locking
        /\ told' = told \cup {[j EXCEPT !.answer = "error"] : j \in job[p]}
        /\ UNCHANGED lock
  /\ Leave(p)
  /\ UNCHANGED <<files, unsynced, temps>>

(* get(snapshotId): existsSync, then, where there is a file, readFileSync.  *)
Get(p, id) ==
  /\ pc[p] = "idle"
  /\ files[id] # {}
  /\ Go(p, "read")
  /\ UNCHANGED <<files, unsynced, temps, lock, job, told>>

ReadRecord(p) ==
  /\ pc[p] = "read"
  /\ Leave(p)
  /\ UNCHANGED <<files, unsynced, temps, lock, told>>

Step(p) == TakeLock(p) \/ LockedOut(p) \/ WriteTemp(p) \/ Link(p) \/ LinkFails(p)
           \/ RemoveTemp(p) \/ Release(p) \/ ReadRecord(p)

-----------------------------------------------------------------------------
(* The environment.                                                         *)

(* A process is killed in the middle of a call.                             *)
Crash(p) ==
  /\ "crash" \in Faults
  /\ pc[p] # "idle"
  /\ Leave(p)
  /\ UNCHANGED <<files, unsynced, temps, lock, told>>

(* The operating system writes a file back in its own time.                 *)
Writeback(id) ==
  /\ "power" \in Faults
  /\ id \in unsynced
  /\ unsynced' = unsynced \ {id}
  /\ UNCHANGED <<files, temps, lock, pc, job, told>>

(* The power fails.  Nothing was ever flushed, so a file that has not been  *)
(* written back is there, torn or gone.                                     *)
PowerLoss ==
  /\ "power" \in Faults
  /\ pc' = [p \in Processes |-> "idle"]
  /\ job' = [p \in Processes |-> {}]
  /\ \E torn, gone \in SUBSET unsynced :
       files' = [id \in SnapshotIds |->
                   IF id \in gone THEN {} ELSE IF id \in torn THEN {"torn"} ELSE files[id]]
  /\ unsynced' = {}
  /\ told' = {}
  /\ UNCHANGED <<temps, lock>>

Next ==
  \/ \E p \in Processes :
       \/ Step(p)
       \/ Crash(p)
       \/ \E id \in SnapshotIds :
            Get(p, id) \/ \E record \in Records : Create(p, id, record)
  \/ \E id \in SnapshotIds : Writeback(id)
  \/ PowerLoss

Spec == Init /\ [][Next]_vars

-----------------------------------------------------------------------------
TypeOK ==
  /\ files \in [SnapshotIds -> SUBSET (Records \cup {"torn"})]
  /\ unsynced \subseteq SnapshotIds
  /\ temps \subseteq Processes \X SnapshotIds
  /\ lock \subseteq Processes
  /\ pc \in [Processes -> {"idle", "lock", "write", "link", "clean", "unlock", "read"}]
  /\ job \in [Processes -> SUBSET Job]
  /\ \A p \in Processes : /\ (job[p] = {}) = (pc[p] \in {"idle", "read"})
                           /\ \A i, j \in job[p] : i = j
  /\ told \subseteq Job

(* Of creates racing for one id at most one is told it created the record,  *)
(* and then it is its record that is stored; who is told "duplicate" finds  *)
(* a record there.  Locked, unlocked and killed processes alike.            *)
AnswersAreTrue ==
  \A t \in told :
    /\ t.answer = "created" => files[t.id] = {t.record}
    /\ t.answer = "duplicate" => files[t.id] # {}

(* A stored record is never replaced nor removed, unless the power fails    *)
(* before it has reached the disk.                                          *)
RecordsAreImmutable ==
  [][\A id \in SnapshotIds :
       files[id] # {} => files'[id] = files[id] \/ (PowerLoss /\ id \in unsynced)]_vars

(* Two processes that use the lock are never both inside it, and nobody who *)
(* is inside it finds its file gone.                                        *)
LockExcludes ==
  \A p, q \in Locking :
    pc[p] \in {"write", "link", "clean", "unlock"} =>
      /\ lock = {p}
      /\ pc[q] \in {"write", "link", "clean", "unlock"} => p = q

(* "partialWritesVisible: false", "On recovery, ignore temporary files and  *)
(* read the last committed JSON file": a read never finds a partial file,   *)
(* and list, which parses every file there is, does not throw on one.       *)
ReadsFindWholeRecords == \A id \in SnapshotIds : "torn" \notin files[id]

=============================================================================
