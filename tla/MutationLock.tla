---------------------------- MODULE MutationLock ----------------------------
(***************************************************************************)
(* The task runtime's mutation lock: the file mutation.lock in the shared  *)
(* runtime directory and the guard file mutation.lock.reclaim beside it    *)
(* (internal/taskruntime/lock.go).  Every command that changes the task    *)
(* runtime ledger creates mutation.lock with O_EXCL, writes its pid and    *)
(* host into it and removes it again by path.  A command that finds the    *)
(* file may remove it when the recorded process is dead on this host; the  *)
(* guard serializes those reclaimers.  Each file operation of lock() and   *)
(* reclaimDeadLock() is a step of its own.                                 *)
(*                                                                         *)
(* An Invocation is one run of a command.  The bytes of the lock file name *)
(* the invocation that created it: two never write the same bytes (the     *)
(* file holds pid, host and creation second), so a restarted command is    *)
(* another Invocation.                                                     *)
(***************************************************************************)
EXTENDS Naturals, FiniteSets

CONSTANTS Invocation,    \* command invocations that use the lock
          NoInvocation,  \* none of them: no file, or no bytes in it
          HostName,      \* lockHost() values
          UnknownHost,   \* lockHost() when os.Hostname fails: the empty string
          HostChoices    \* the placements of invocations on hosts to consider

ASSUME LockAssumption ==
  /\ NoInvocation \notin Invocation
  /\ HostChoices \subseteq [Invocation -> HostName \cup {UnknownHost}]

VARIABLES
  hostOf,     \* the host each invocation runs on; fixed
  lockFile,   \* mutation.lock: who created it, and whether its bytes are written
  guardFile,  \* mutation.lock.reclaim: who created it
  up,         \* the processes that are running
  place,      \* the next step of each invocation
  seenOwner   \* the owner that reclaimDeadLock read from the lock file

lockVars == <<hostOf, lockFile, guardFile, up, place, seenOwner>>

-----------------------------------------------------------------------------
(* Type definitions.                                                       *)

Owner == Invocation \cup {NoInvocation}

LockFiles == [owner : Owner, written : BOOLEAN]

NoLockFile == [owner |-> NoInvocation, written |-> FALSE]

\* Steps of a process that holds the guard.
GuardSteps == {"reread", "remove", "dropRetry", "dropFail"}

\* Steps of a process that has created mutation.lock.
HolderSteps == {"write", "critical"}

LockSteps == {"idle", "create", "inspect", "judge", "guard", "poll", "recreate"}
           \cup GuardSteps \cup HolderSteps

-----------------------------------------------------------------------------
(* What the code reads off the lock file.                                  *)

\* os.O_EXCL: the file can be created only while the path is free.
LockFree == lockFile.owner = NoInvocation

\* The pid in the file's bytes; an unwritten file parses to pid 0.
RecordedOwner == IF lockFile.written THEN lockFile.owner ELSE NoInvocation

\* pidRunning: signal 0 reaches only processes of p's own host, so the pid of a
\* process that runs elsewhere names no process here.
PidRunning(p, q) == q \in up /\ hostOf[q] = hostOf[p]

\* Mutant of Reclaimable: the recorded host is not compared with this one.
ReclaimableAnyHost(p, q) == q # NoInvocation /\ ~PidRunning(p, q)

\* parseLockInfo(...).Reclaimable, evaluated by process p for recorded owner q.
Reclaimable(p, q) ==
  /\ q # NoInvocation
  /\ ~PidRunning(p, q)
  /\ hostOf[q] # UnknownHost
  /\ hostOf[q] = hostOf[p]

\* Mutant of LockBlocks: a lock without readable bytes does not block.
LockBlocksParsed(p) ==
  RecordedOwner # NoInvocation /\ ~Reclaimable(p, RecordedOwner)

\* lockBlocks: whether a reader run by p treats the ledger as mid-mutation.
LockBlocks(p) == ~LockFree /\ ~Reclaimable(p, RecordedOwner)

-----------------------------------------------------------------------------
(* Helpers for the actions.                                                *)

At(p, step) == p \in up /\ place[p] = step

MoveTo(p, step) == place' = [place EXCEPT ![p] = step]

\* os.Remove(path): removes whatever file is at the path.
RemoveLockFile == lockFile' = NoLockFile

CreateLockFile(p) == lockFile' = [owner |-> p, written |-> FALSE]

-----------------------------------------------------------------------------
LockInit ==
  /\ hostOf \in HostChoices
  /\ lockFile = NoLockFile
  /\ guardFile = NoInvocation
  /\ up = Invocation
  /\ place = [p \in Invocation |-> "idle"]
  /\ seenOwner = [p \in Invocation |-> NoInvocation]

\* A command, or lockWait's next attempt, enters lock().
EnterLock(p) ==
  /\ At(p, "idle")
  /\ MoveTo(p, "create")
  /\ UNCHANGED <<hostOf, lockFile, guardFile, up, seenOwner>>

\* The first O_EXCL open of lock().
Create(p) ==
  /\ At(p, "create")
  /\ IF LockFree
     THEN CreateLockFile(p) /\ MoveTo(p, "write")
     ELSE MoveTo(p, "inspect") /\ UNCHANGED lockFile
  /\ UNCHANGED <<hostOf, guardFile, up, seenOwner>>

\* reclaimDeadLock reads the lock file; a file that vanished is not an error.
Inspect(p) ==
  /\ At(p, "inspect")
  /\ IF LockFree
     THEN MoveTo(p, "recreate") /\ UNCHANGED seenOwner
     ELSE /\ seenOwner' = [seenOwner EXCEPT ![p] = RecordedOwner]
          /\ MoveTo(p, "judge")
  /\ UNCHANGED <<hostOf, lockFile, guardFile, up>>

\* parseLockInfo probes the recorded pid.  The attempt ends with
\* errMutationLockExists unless the owner is dead on this host.
Judge(p) ==
  /\ At(p, "judge")
  /\ MoveTo(p, IF Reclaimable(p, seenOwner[p]) THEN "guard" ELSE "idle")
  /\ UNCHANGED <<hostOf, lockFile, guardFile, up, seenOwner>>

\* The O_EXCL open of the guard file.
OpenGuard(p) ==
  /\ At(p, "guard")
  /\ IF guardFile = NoInvocation
     THEN guardFile' = p /\ MoveTo(p, "reread")
     ELSE MoveTo(p, "poll") /\ UNCHANGED guardFile
  /\ UNCHANGED <<hostOf, lockFile, up, seenOwner>>

\* One round of the guard poll: sleep, stat the lock, then try the guard again.
PollGuard(p) ==
  /\ At(p, "poll")
  /\ MoveTo(p, IF LockFree THEN "recreate" ELSE "guard")
  /\ UNCHANGED <<hostOf, lockFile, guardFile, up, seenOwner>>

\* reclaimGuardWait ran out: "reclaim is in progress or was interrupted".
GuardTimeout(p) ==
  /\ At(p, "poll")
  /\ MoveTo(p, "idle")
  /\ UNCHANGED <<hostOf, lockFile, guardFile, up, seenOwner>>

\* Mutant of Reread: the second read does not compare the bytes.
RereadWithoutCompare(p) ==
  /\ At(p, "reread")
  /\ MoveTo(p, IF LockFree THEN "dropRetry" ELSE "remove")
  /\ UNCHANGED <<hostOf, lockFile, guardFile, up, seenOwner>>

\* Under the guard, the bytes are read again and compared with what was seen.
Reread(p) ==
  /\ At(p, "reread")
  /\ MoveTo(p, IF LockFree THEN "dropRetry"
               ELSE IF RecordedOwner = seenOwner[p] THEN "remove" ELSE "dropFail")
  /\ UNCHANGED <<hostOf, lockFile, guardFile, up, seenOwner>>

\* The reclaimer removes the lock file by path.
RemoveDead(p) ==
  /\ At(p, "remove")
  /\ RemoveLockFile
  /\ MoveTo(p, "dropRetry")
  /\ UNCHANGED <<hostOf, guardFile, up, seenOwner>>

\* Mutant of DropGuard: the guard is not removed after a successful reclaim.
DropGuardOnFailure(p) ==
  /\ p \in up
  /\ \/ place[p] = "dropRetry" /\ MoveTo(p, "recreate") /\ UNCHANGED guardFile
     \/ place[p] = "dropFail" /\ MoveTo(p, "idle") /\ guardFile' = NoInvocation
  /\ UNCHANGED <<hostOf, lockFile, up, seenOwner>>

\* The deferred removal of the guard; lock() then retries its create once,
\* or returns the refusal.
DropGuard(p) ==
  /\ p \in up
  /\ \/ place[p] = "dropRetry" /\ MoveTo(p, "recreate")
     \/ place[p] = "dropFail" /\ MoveTo(p, "idle")
  /\ guardFile' = NoInvocation
  /\ UNCHANGED <<hostOf, lockFile, up, seenOwner>>

\* The second and last O_EXCL open of lock().
Recreate(p) ==
  /\ At(p, "recreate")
  /\ IF LockFree
     THEN CreateLockFile(p) /\ MoveTo(p, "write")
     ELSE MoveTo(p, "idle") /\ UNCHANGED lockFile
  /\ UNCHANGED <<hostOf, guardFile, up, seenOwner>>

\* pid and host are written to the file this process created, then synced.
WriteOwner(p) ==
  /\ At(p, "write")
  /\ lockFile' = IF lockFile.owner = p
                 THEN [lockFile EXCEPT !.written = TRUE] ELSE lockFile
  /\ MoveTo(p, "critical")
  /\ UNCHANGED <<hostOf, guardFile, up, seenOwner>>

\* A failed write, sync or close removes the lock by path and reports failure.
WriteFails(p) ==
  /\ At(p, "write")
  /\ RemoveLockFile
  /\ MoveTo(p, "idle")
  /\ UNCHANGED <<hostOf, guardFile, up, seenOwner>>

\* The unlock function lock() returned; lockWait calls it too when its
\* context was cancelled while it acquired.
Unlock(p) ==
  /\ At(p, "critical")
  /\ RemoveLockFile
  /\ MoveTo(p, "idle")
  /\ UNCHANGED <<hostOf, guardFile, up, seenOwner>>

\* The process is killed at any step; its files stay behind.
Crash(p) ==
  /\ p \in up
  /\ up' = up \ {p}
  /\ UNCHANGED <<hostOf, lockFile, guardFile, place, seenOwner>>

Step(p) ==
  \/ EnterLock(p) \/ Create(p) \/ Inspect(p) \/ Judge(p) \/ OpenGuard(p)
  \/ PollGuard(p) \/ GuardTimeout(p) \/ Reread(p) \/ RemoveDead(p)
  \/ DropGuard(p) \/ Recreate(p) \/ WriteOwner(p) \/ WriteFails(p) \/ Unlock(p)

LockNext == \E p \in Invocation : Step(p) \/ Crash(p)

LockSpec == LockInit /\ [][LockNext]_lockVars

\* The operating system schedules every running process.
FairLockSpec == LockSpec /\ \A p \in Invocation : WF_lockVars(Step(p))

-----------------------------------------------------------------------------
(* Properties.                                                             *)

LockTypeOK ==
  /\ hostOf \in HostChoices
  /\ lockFile \in LockFiles
  /\ guardFile \in Owner
  /\ up \subseteq Invocation
  /\ place \in [Invocation -> LockSteps]
  /\ seenOwner \in [Invocation -> Owner]

\* At most one running process is between a successful lock() and its unlock,
\* however creation, reclaim, guard polling and crashes interleave ("two
\* reclaimers serialize ... so the slower one cannot remove the lock the
\* faster one just took", lock.go:135-137).
MutualExclusion ==
  \A p, q \in up :
    place[p] \in HolderSteps /\ place[q] \in HolderSteps => p = q

\* "A live lock is never removed" (lock.go:16): while the process that created
\* the lock file runs, the file goes away only by that process's own unlock or
\* failed write.
LiveLockKept ==
  [][\A p \in up : lockFile.owner = p /\ lockFile'.owner # p
       => place[p] \in HolderSteps /\ place'[p] = "idle"]_lockVars

\* A reader that consults lockBlocks while a running command mutates the
\* ledger is told to wait, whatever reclaimers are doing at the time.
MutationBlocksReaders ==
  \A p, r \in up : place[p] \in HolderSteps => LockBlocks(r)

\* The lock of a dead process that reached its critical section does not stay:
\* it is reclaimed as long as one process of its host runs and no reclaimer
\* died holding the guard (which the code leaves to the operator).
OrphanGuard == guardFile # NoInvocation /\ guardFile \notin up

DeadLockReclaimed ==
  \A q \in Invocation :
    (lockFile.owner = q /\ lockFile.written /\ q \notin up
       /\ hostOf[q] # UnknownHost)
      ~> \/ lockFile.owner # q
         \/ OrphanGuard
         \/ \A p \in up : hostOf[p] # hostOf[q]

=============================================================================
