--------------------------- MODULE BundleFileStore ---------------------------
(***************************************************************************)
(* The SDK's file store of one workspace session bundle                    *)
(* (packages/sdk-js/src/localWorkspaceSessionFileStore.ts).  A write goes  *)
(* to a temporary file that is renamed over the bundle's; writes and       *)
(* deletes take an advisory lock file when the call, or else the store,    *)
(* says so; reads never do.  A call is refused at once when the lock file  *)
(* is there, whoever left it.                                              *)
(*                                                                         *)
(* One action is one file-system call.                                     *)
(***************************************************************************)
CONSTANTS
  Callers,        \* the calls of one caller follow one another
  Bundles,        \* contents, serialized
  BundleFaults    \* what may go wrong: "crash", "io"

ASSUME BundleAssumption == BundleFaults \subseteq {"crash", "io"}

VARIABLES
  bundle,      \* the file's content, a set of at most one
  bundleLock,  \* the lock file: who made it, a set of at most one
  bundleTemps, \* temporary files: whose, and of its present call or an ended one
  at, call,    \* per caller: where it is, and its call, a set of at most one
  said,        \* per caller: what its last call answered
  blamed       \* history: callers killed in a call, or whose clean-up failed

bundleVars == <<bundle, bundleLock, bundleTemps, at, call, said, blamed>>

io == "io" \in BundleFaults

To(p, step) == at' = [at EXCEPT ![p] = step]

Took(p) == call' = [call EXCEPT ![p] = {[c EXCEPT !.done = TRUE] : c \in @}]

(* The call returns ("ok") or throws.                                       *)
Return(p, answer) ==
  /\ To(p, "idle")
  /\ call' = [call EXCEPT ![p] = {}]
  /\ said' = [said EXCEPT ![p] = answer]

(* What is left is the finally of withLockFile, and its answer after that.  *)
Finish(p, answer) ==
  \/ /\ \E c \in call[p] : ~c.locked
     /\ Return(p, answer)
  \/ /\ \E c \in call[p] : c.locked
     /\ To(p, "unlock")
     /\ said' = [said EXCEPT ![p] = answer]
     /\ UNCHANGED call

BundleInit ==
  /\ bundle = {} /\ bundleLock = {} /\ bundleTemps = {}
  /\ at = [p \in Callers |-> "idle"]
  /\ call = [p \in Callers |-> {}]
  /\ said = [p \in Callers |-> "none"]
  /\ blamed = {}

(* writeBundle, deleteBundle, readBundle: the first step of each.           *)
Begin(p, op, content, locked) ==
  /\ at[p] = "idle"
  /\ call' = [call EXCEPT ![p] = {[op |-> op, content |-> content, locked |-> locked, done |-> FALSE]}]
  /\ said' = [said EXCEPT ![p] = "none"]
  /\ To(p, IF locked THEN "lock" ELSE op)
  /\ UNCHANGED <<bundle, bundleLock, bundleTemps, blamed>>

-----------------------------------------------------------------------------
(* Mutant: the lock file is opened whether or not it exists.                *)
OpenLockAnyway(p) ==
  /\ at[p] = "lock"
  /\ bundleLock' = {p}
  /\ To(p, "lock contents")
  /\ UNCHANGED <<bundle, bundleTemps, call, said, blamed>>

(* withLockFile: open(lockPath, "wx").                                      *)
OpenLock(p) ==
  /\ at[p] = "lock" /\ bundleLock = {}
  /\ bundleLock' = {p}
  /\ To(p, "lock contents")
  /\ UNCHANGED <<bundle, bundleTemps, call, said, blamed>>

(* EEXIST: LOCKED; mkdir or open fails for another reason: LOCK_FAILED.     *)
LockRefused(p) ==
  /\ at[p] = "lock"
  /\ bundleLock # {} \/ io
  /\ Return(p, "failed")
  /\ UNCHANGED <<bundle, bundleLock, bundleTemps, blamed>>

(* lock.writeFile: when it fails the call throws LOCK_FAILED from outside   *)
(* the try whose finally removes the lock, so the lock file stays.          *)
WriteLock(p) ==
  /\ at[p] = "lock contents"
  /\ \/ /\ \E c \in call[p] : To(p, c.op)
        /\ UNCHANGED <<call, said, blamed>>
     \/ io /\ Return(p, "failed") /\ blamed' = blamed \cup {p}
  /\ UNCHANGED <<bundle, bundleLock, bundleTemps>>

(* finally: lock.close and rm(lockPath), failures of either ignored.        *)
Unlock(p) ==
  /\ at[p] = "unlock"
  /\ \/ bundleLock' = {} /\ UNCHANGED blamed
     \/ io /\ blamed' = blamed \cup {p} /\ UNCHANGED bundleLock
  /\ Return(p, said[p])
  /\ UNCHANGED <<bundle, bundleTemps>>

-----------------------------------------------------------------------------
(* Mutant: the bundle's own file is opened for writing.                     *)
WriteInPlace(p) ==
  /\ at[p] = "write"
  /\ bundle' = {"partial"}
  /\ To(p, "rename")
  /\ UNCHANGED <<bundleLock, bundleTemps, call, said, blamed>>

(* writeFileAtomic: mkdir, then writeFile(tempPath) under a fresh name.  A  *)
(* write that fails may have made the file.                                 *)
WriteBundleTemp(p) ==
  /\ at[p] = "write"
  /\ \/ bundleTemps' = bundleTemps \cup {<<p, "live">>} /\ To(p, "rename")
     \/ io /\ bundleTemps' \in {bundleTemps, bundleTemps \cup {<<p, "live">>}} /\ To(p, "sweep")
  /\ UNCHANGED <<bundle, bundleLock, call, said, blamed>>

(* rename(tempPath, absolutePath)                                           *)
Rename(p) ==
  /\ at[p] = "rename"
  /\ \E c \in call[p] : bundle' = c.content
  /\ Took(p)
  /\ bundleTemps' = bundleTemps \ {<<p, "live">>}
  /\ To(p, "written")
  /\ UNCHANGED <<bundleLock, said, blamed>>

RenameFails(p) ==
  /\ at[p] = "rename" /\ io
  /\ To(p, "sweep")
  /\ UNCHANGED <<bundle, bundleLock, bundleTemps, call, said, blamed>>

Written(p) ==
  /\ at[p] = "written"
  /\ Finish(p, "ok")
  /\ UNCHANGED <<bundle, bundleLock, bundleTemps, blamed>>

(* The catch of writeFileAtomic: rm(tempPath), its own failure ignored,     *)
(* then WRITE_FAILED.                                                       *)
SweepTemp(p) ==
  /\ at[p] = "sweep"
  /\ \/ bundleTemps' = bundleTemps \ {<<p, "live">>} /\ UNCHANGED blamed
     \/ /\ io /\ <<p, "live">> \in bundleTemps
        /\ bundleTemps' = (bundleTemps \ {<<p, "live">>}) \cup {<<p, "left">>}
        /\ blamed' = blamed \cup {p}
  /\ Finish(p, "failed")
  /\ UNCHANGED <<bundle, bundleLock>>

(* deleteBundle: rm(absolutePath, {force: true})                            *)
RemoveBundle(p) ==
  /\ at[p] = "delete"
  /\ bundle' = {}
  /\ Took(p)
  /\ To(p, "written")
  /\ UNCHANGED <<bundleLock, bundleTemps, said, blamed>>

RemoveFails(p) ==
  /\ at[p] = "delete" /\ io
  /\ Finish(p, "failed")
  /\ UNCHANGED <<bundle, bundleLock, bundleTemps, blamed>>

(* readBundle: the file that is opened is read to its end, even when        *)
(* another is renamed over its name meanwhile; ENOENT reads as nothing.     *)
OpenBundle(p) ==
  /\ at[p] = "read"
  /\ call' = [call EXCEPT ![p] = {[c EXCEPT !.content = bundle, !.done = TRUE] : c \in @}]
  /\ To(p, "written")
  /\ UNCHANGED <<bundle, bundleLock, bundleTemps, said, blamed>>

ReadFails(p) ==
  /\ at[p] = "read" /\ io
  /\ Return(p, "failed")
  /\ UNCHANGED <<bundle, bundleLock, bundleTemps, blamed>>

(* The caller's process is killed in the middle of a call.                  *)
KillCaller(p) ==
  /\ "crash" \in BundleFaults /\ at[p] # "idle"
  /\ Return(p, "none")
  /\ bundleTemps' = {IF t = <<p, "live">> THEN <<p, "left">> ELSE t : t \in bundleTemps}
  /\ blamed' = blamed \cup {p}
  /\ UNCHANGED <<bundle, bundleLock>>

BundleNext ==
  \E p \in Callers :
    \/ \E b \in Bundles, locked \in BOOLEAN : Begin(p, "write", {b}, locked)
    \/ \E locked \in BOOLEAN : Begin(p, "delete", {}, locked)
    \/ Begin(p, "read", {}, FALSE)
    \/ OpenLock(p) \/ LockRefused(p) \/ WriteLock(p) \/ Unlock(p)
    \/ WriteBundleTemp(p) \/ Rename(p) \/ RenameFails(p) \/ Written(p) \/ SweepTemp(p)
    \/ RemoveBundle(p) \/ RemoveFails(p) \/ OpenBundle(p) \/ ReadFails(p)
    \/ KillCaller(p)

BundleSpec == BundleInit /\ [][BundleNext]_bundleVars

-----------------------------------------------------------------------------
Holds(p) == (\E c \in call[p] : c.locked) /\ at[p] # "lock"

(* Between opening the lock file and removing it a call has the file to     *)
(* itself among the calls that lock; and a lock file or a temporary file    *)
(* with no call to it was left by a caller that was killed in a call or     *)
(* whose file system failed: no mix of calls locks the store up by itself.  *)
LockIsHeldOrBlamed ==
  \A p \in Callers :
    /\ Holds(p) => bundleLock = {p}
    /\ p \in bundleLock => Holds(p) \/ p \in blamed
    /\ <<p, "live">> \in bundleTemps => at[p] \in {"rename", "sweep"}
    /\ <<p, "left">> \in bundleTemps => p \in blamed

(* A call as the register sees it: its lock is its own affair, and it has   *)
(* answered when it has left the lock.                                      *)
CellCall(c) == [op |-> c.op, content |-> c.content, done |-> c.done]
CellCalls == [p \in Callers |-> {CellCall(c) : c \in call[p]}]
CellAnswers == [p \in Callers |-> IF at[p] = "unlock" THEN "none" ELSE said[p]]

Cell == INSTANCE BundleRegister WITH
  value <- bundle, calls <- CellCalls, answers <- CellAnswers

(* Locked or not, killed or failing, the calls are those of one cell that   *)
(* holds a whole bundle or none: a read finds a whole bundle that was       *)
(* current during the read, a call that throws has changed nothing, a call  *)
(* that returns has taken effect, once.                                     *)
ImplementsBundleRegister == Cell!RegisterSpec
=============================================================================
