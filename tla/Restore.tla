-------------------------------- MODULE Restore --------------------------------
(***************************************************************************)
(* Database files under the processes that open, back up and restore them: *)
(* storage.Open, the CLI's backup and verify, and KoraDB-restore.  A       *)
(* directory maps paths to inodes; bbolt's lock is on the inode that was   *)
(* opened, whatever the path names later.  Processes may be killed, and    *)
(* the power may fail, which spoils what was not synced.                   *)
(*                                                                         *)
(* Each process runs once.  The file it stages bears its name, as does the *)
(* path of it; one that opens may create a database.  The file system keeps*)
(* renames in order: losing the last of them in a power failure is a       *)
(* failure before them.  Restores are run one at a time (docs/RESTORE.md); *)
(* servers and the CLI are started at any time.                            *)
(***************************************************************************)
EXTENDS Naturals

CONSTANTS
  Restorers, Servers, Backups,  \* the processes of each kind
  Turn,                         \* the order in which restores are run
  Rollbacks,                    \* the --rollback each restorer may be given, if any
  Sources,                      \* the snapshot paths each restorer may be given
  Snapshots,                    \* what an earlier backup may hold
  Created,                      \* the inode of the database each opener may create
  MaxBytes,                     \* --max-bytes
  None

Openers == Servers \cup Backups
Procs == Restorers \cup Openers
CreatedInodes == {Created[o] : o \in Openers}
Inodes == Procs \cup CreatedInodes \cup {"old", "snap"}
RollbackPaths == (UNION {Rollbacks[p] : p \in Restorers}) \ {None}
Paths == Procs \cup {"dest", "out"} \cup RollbackPaths

\* What a file holds: nothing, a database, or a torn one.
Contents == [state : {"empty", "whole", "torn"}, size : Nat, synced : BOOLEAN]
File(state, size, synced) == [state |-> state, size |-> size, synced |-> synced]

ASSUME RestoreAssumption ==
  /\ MaxBytes \in Nat \ {0}
  /\ Turn \in [Restorers -> Nat]
  /\ \A p, q \in Restorers : Turn[p] = Turn[q] => p = q
  /\ Restorers \cap Openers = {} /\ Servers \cap Backups = {}
  /\ \A o, u \in Openers : Created[o] = Created[u] => o = u
  /\ CreatedInodes \cap (Procs \cup {"old", "snap"}) = {}
  /\ {"dest", "out", "old", "snap"} \cap Procs = {}
  /\ RollbackPaths \cap (Procs \cup {"dest", "out"}) = {}
  /\ \A p \in Restorers : Sources[p] \subseteq Paths
  /\ None \notin Inodes \cup Paths
  /\ Snapshots \subseteq Contents

VARIABLES
  dir,    \* the inode each path names
  file,   \* the contents of each inode
  lock,   \* the process with the exclusive lock on each inode
  proc,   \* the processes
  power   \* FALSE once the power has failed

vars == <<dir, file, lock, proc, power>>

RestoreStages == {"inspect", "rollback", "offline", "stage", "sync", "verify", "move",
                  "publish", "undo", "cleanup", "abandon"}
BackupStages == {"lstat", "temp", "snapshot", "rename", "discard"}
Stages ==
  RestoreStages \cup BackupStages \cup {"new", "lock", "open", "ok", "failed", "lost", "dead"}

\* from: the snapshot read, or the file opened; was: what the destination
\* named at first; checked: the restorers that had found the destination
\* offline when this process got its lock.
New == [stage |-> "new", from |-> None, was |-> None, rollback |-> None, checked |-> {}]

\* There may be a database, and an earlier backup.
Init ==
  /\ \E d \in {None, "old"}, s \in Snapshots \cup {None} :
       /\ file = [i \in Inodes |-> CASE i = "old" -> File("whole", 1, TRUE)
                                     [] i = "snap" /\ s # None -> s
                                     [] OTHER -> File("empty", 0, TRUE)]
       /\ dir = [q \in Paths |-> CASE q = "dest" -> d
                                   [] q = "out" /\ s # None -> "snap"
                                   [] OTHER -> None]
  /\ lock = [i \in Inodes |-> None]
  /\ proc = [p \in Procs |-> New]
  /\ power = TRUE

At(p, s) == proc[p].stage = s
Ends == {"ok", "failed", "lost", "dead"}
Go(p, s) == proc' = [proc EXCEPT ![p] = [(IF s \in Ends THEN New ELSE @) EXCEPT !.stage = s]]
Rename(a, b) == dir' = [dir EXCEPT ![b] = dir[a], ![a] = None]
Ended(p) == proc[p].stage \in Ends

-------------------------------------------------------------------------------
\* KoraDB-restore, RestoreFile: the snapshot must exist and not be the
\* destination itself; it is opened.  (The command line is an input.)
RestoreFile(p) ==
  /\ At(p, "new")
  /\ \A q \in Restorers : Turn[q] < Turn[p] => Ended(q)
  /\ \E src \in Sources[p], rb \in Rollbacks[p] :
       proc' = [proc EXCEPT ![p] =
         IF dir[src] = None \/ dir[src] = dir["dest"]
         THEN [New EXCEPT !.stage = "failed"]
         ELSE [New EXCEPT !.stage = "inspect", !.from = dir[src], !.rollback = rb]]
  /\ UNCHANGED <<dir, file, lock, power>>

\* Restore: the destination must be absent, or to be overwritten.  (A restorer
\* given a rollback path was also given --overwrite.)
Inspect(p) ==
  /\ At(p, "inspect")
  /\ \/ /\ dir["dest"] # None /\ proc[p].rollback = None
        /\ Go(p, "failed")
     \/ /\ dir["dest"] = None \/ proc[p].rollback # None
        /\ proc' = [proc EXCEPT ![p].was = dir["dest"], ![p].stage = "rollback"]
  /\ UNCHANGED <<dir, file, lock, power>>

\* A plausible bug: a rollback path in use is accepted.
validateRollbackPathAny(p) ==
  /\ At(p, "rollback")
  /\ Go(p, CASE proc[p].was = None /\ proc[p].rollback # None -> "failed"
             [] proc[p].was = None /\ proc[p].rollback = None -> "stage"
             [] OTHER -> "offline")
  /\ UNCHANGED <<dir, file, lock, power>>

\* A rollback path is required to overwrite, only then, and must be unused.
validateRollbackPath(p) ==
  /\ At(p, "rollback")
  /\ Go(p, CASE proc[p].was = None /\ proc[p].rollback # None -> "failed"
             [] proc[p].was = None /\ proc[p].rollback = None -> "stage"
             [] proc[p].was # None /\ dir[proc[p].rollback] # None -> "failed"
             [] OTHER -> "offline")
  /\ UNCHANGED <<dir, file, lock, power>>

\* Opening a file read-only creates none, and needs a database in it.
Readable(i) == i # None /\ file[i].state = "whole"

\* A plausible bug: the file is only read, not locked.
verifyDestinationIsOfflineUnlocked(p) ==
  /\ At(p, "offline")
  /\ Go(p, IF Readable(dir["dest"]) THEN "stage" ELSE "failed")
  /\ UNCHANGED <<dir, file, lock, power>>

\* A plausible bug: no timeout, it waits as long as the lock is held.
verifyDestinationIsOfflineForever(p) ==
  /\ At(p, "offline")
  /\ Readable(dir["dest"]) => lock[dir["dest"]] = None
  /\ Go(p, IF Readable(dir["dest"]) THEN "stage" ELSE "failed")
  /\ UNCHANGED <<dir, file, lock, power>>

\* The shared lock is had and given back, or not had in five seconds.
verifyDestinationIsOffline(p) ==
  /\ At(p, "offline")
  /\ Go(p, IF Readable(dir["dest"]) /\ lock[dir["dest"]] = None THEN "stage" ELSE "failed")
  /\ UNCHANGED <<dir, file, lock, power>>

\* io.LimitReader stops one byte past the limit.
limited(c) == IF c.size > MaxBytes + 1 THEN File("torn", MaxBytes + 1, FALSE)
              ELSE [c EXCEPT !.synced = FALSE]

\* The staging file is created and the snapshot copied; either may fail.
Stage(p) ==
  /\ At(p, "stage")
  /\ \/ /\ dir' = [dir EXCEPT ![p] = p]
        /\ file' = [file EXCEPT ![p] = limited(file[proc[p].from])]
        /\ Go(p, IF file'[p].size > MaxBytes THEN "cleanup" ELSE "sync")
     \/ /\ dir' = [dir EXCEPT ![p] = p]
        /\ file' = [file EXCEPT ![p] = File("torn", 0, FALSE)]
        /\ Go(p, "cleanup")
     \/ /\ Go(p, "failed")
        /\ UNCHANGED <<dir, file>>
  /\ UNCHANGED <<lock, power>>

\* A plausible bug: the file is closed without being synced.
SyncNot(p) ==
  /\ At(p, "sync")
  /\ Go(p, "verify")
  /\ UNCHANGED <<dir, file, lock, power>>

Sync(p) ==
  /\ At(p, "sync")
  /\ \/ /\ file' = [file EXCEPT ![p].synced = TRUE]
        /\ Go(p, "verify")
     \/ /\ Go(p, "cleanup")
        /\ UNCHANGED file
  /\ UNCHANGED <<dir, lock, power>>

verifySnapshot(p) ==
  /\ At(p, "verify")
  /\ Go(p, IF ~ Readable(p) THEN "cleanup" ELSE IF proc[p].was # None THEN "move" ELSE "publish")
  /\ UNCHANGED <<dir, file, lock, power>>

\* The existing database makes room, then the new one takes its place; if it
\* cannot, the old one is put back, if that can be done.
MoveOld(p) ==
  /\ At(p, "move")
  /\ \/ /\ dir["dest"] # None
        /\ Rename("dest", proc[p].rollback)
        /\ Go(p, "publish")
     \/ /\ Go(p, "cleanup")
        /\ UNCHANGED dir
  /\ UNCHANGED <<file, lock, power>>

\* A plausible bug: a failed publication is not undone.
PublishOrLeave(p) ==
  /\ At(p, "publish")
  /\ \/ /\ Rename(p, "dest")
        /\ Go(p, "ok")
     \/ /\ Go(p, "cleanup")
        /\ UNCHANGED dir
  /\ UNCHANGED <<file, lock, power>>

Publish(p) ==
  /\ At(p, "publish")
  /\ \/ /\ Rename(p, "dest")
        /\ Go(p, "ok")
     \/ /\ Go(p, IF proc[p].was # None THEN "undo" ELSE "cleanup")
        /\ UNCHANGED dir
  /\ UNCHANGED <<file, lock, power>>

Undo(p) ==
  /\ At(p, "undo")
  /\ \/ /\ Rename(proc[p].rollback, "dest")
        /\ Go(p, "cleanup")
     \/ /\ Go(p, "abandon")
        /\ UNCHANGED dir
  /\ UNCHANGED <<file, lock, power>>

\* The deferred removal of what was not published.
Cleanup(p) ==
  /\ At(p, "cleanup") \/ At(p, "abandon")
  /\ dir' = [dir EXCEPT ![p] = None]
  /\ Go(p, IF At(p, "cleanup") THEN "failed" ELSE "lost")
  /\ UNCHANGED <<file, lock, power>>

-------------------------------------------------------------------------------
\* storage.Open, for a server or the CLI: bbolt opens the file, creating it if
\* there is none, and then locks what it opened.
OpenFile(o) ==
  /\ At(o, "new")
  /\ dir' = IF dir["dest"] = None THEN [dir EXCEPT !["dest"] = Created[o]] ELSE dir
  /\ proc' = [proc EXCEPT ![o].stage = "lock", ![o].from = dir'["dest"]]
  /\ UNCHANGED <<file, lock, power>>

PastCheck == {p \in Restorers : proc[p].was # None
                                /\ proc[p].stage \in {"stage", "sync", "verify", "move"}}

\* The lock is had, and an empty file made into a database; or it is not had
\* in five seconds, or the file is not a database.
Lock(o) ==
  LET i == proc[o].from
  IN  /\ At(o, "lock")
      /\ \/ /\ lock[i] = None /\ file[i].state # "torn"
            /\ lock' = [lock EXCEPT ![i] = o]
            /\ file' = IF file[i].state = "empty" THEN [file EXCEPT ![i] = File("whole", 1, TRUE)]
                       ELSE file
            /\ proc' = [proc EXCEPT ![o].stage = IF o \in Servers THEN "open" ELSE "lstat",
                                    ![o].checked = PastCheck]
         \/ /\ lock[i] # None \/ file[i].state = "torn"
            /\ Go(o, "failed")
            /\ UNCHANGED <<lock, file>>
      /\ UNCHANGED <<dir, power>>

Unlocked(o) == [i \in Inodes |-> IF lock[i] = o THEN None ELSE lock[i]]

CloseStore(o) ==
  /\ At(o, "open")
  /\ lock' = Unlocked(o)
  /\ Go(o, "ok")
  /\ UNCHANGED <<dir, file, power>>

\* cmdBackup, with the database open throughout.
Lstat(b) ==
  /\ At(b, "lstat")
  /\ Go(b, IF dir["out"] # None THEN "open" ELSE "temp")
  /\ UNCHANGED <<dir, file, lock, power>>

\* A plausible bug: the backup is written in place.
CreateTempInPlace(b) ==
  /\ At(b, "temp")
  /\ dir' = [dir EXCEPT !["out"] = b]
  /\ Go(b, "snapshot")
  /\ UNCHANGED <<file, lock, power>>

CreateTemp(b) ==
  /\ At(b, "temp")
  /\ \/ /\ dir' = [dir EXCEPT ![b] = b]
        /\ Go(b, "snapshot")
     \/ /\ Go(b, "open")
        /\ UNCHANGED dir
  /\ UNCHANGED <<file, lock, power>>

Snapshot(b) ==
  /\ At(b, "snapshot")
  /\ \/ /\ file' = [file EXCEPT ![b] = [file[proc[b].from] EXCEPT !.synced = FALSE]]
        /\ Go(b, "rename")
     \/ /\ file' = [file EXCEPT ![b] = File("torn", 0, FALSE)]
        /\ Go(b, "discard")
  /\ UNCHANGED <<dir, lock, power>>

RenameBackup(b) ==
  /\ At(b, "rename")
  /\ \/ /\ Rename(b, "out")
        /\ Go(b, "open")
     \/ /\ Go(b, "discard")
        /\ UNCHANGED dir
  /\ UNCHANGED <<file, lock, power>>

Discard(b) ==
  /\ At(b, "discard")
  /\ dir' = [dir EXCEPT ![b] = None]
  /\ Go(b, "open")
  /\ UNCHANGED <<file, lock, power>>

-------------------------------------------------------------------------------
Running(p) == ~ At(p, "new") /\ ~ Ended(p)

\* A process is killed: its deferred calls do not run.
Kill(p) ==
  /\ Running(p)
  /\ Go(p, "dead")
  /\ lock' = Unlocked(p)
  /\ UNCHANGED <<dir, file, power>>

\* What was not synced is spoilt.
PowerFails ==
  /\ power
  /\ power' = FALSE
  /\ proc' = [p \in Procs |-> IF Running(p) THEN [New EXCEPT !.stage = "dead"] ELSE proc[p]]
  /\ lock' = [i \in Inodes |-> None]
  /\ file' = [i \in Inodes |-> IF file[i].synced THEN file[i] ELSE File("torn", file[i].size, TRUE)]
  /\ UNCHANGED dir

RestoreStep(p) ==
  \/ Inspect(p) \/ validateRollbackPath(p) \/ verifyDestinationIsOffline(p) \/ Stage(p) \/ Sync(p)
  \/ verifySnapshot(p) \/ MoveOld(p) \/ Publish(p) \/ Undo(p) \/ Cleanup(p)

BackupStep(b) ==
  \/ Lock(b) \/ Lstat(b) \/ CreateTemp(b) \/ Snapshot(b) \/ RenameBackup(b) \/ Discard(b)
  \/ CloseStore(b)

Next ==
  \/ \E p \in Restorers : RestoreFile(p) \/ RestoreStep(p)
  \/ \E o \in Servers : OpenFile(o) \/ Lock(o) \/ CloseStore(o)
  \/ \E b \in Backups : OpenFile(b) \/ BackupStep(b)
  \/ \E p \in Procs : Kill(p)
  \/ PowerFails

\* A command that runs goes on; a server runs as long as it likes.
Spec ==
  /\ Init /\ [][Next]_vars
  /\ \A p \in Restorers : WF_vars(RestoreStep(p))
  /\ \A b \in Backups : WF_vars(BackupStep(b))
  /\ \A o \in Servers : WF_vars(Lock(o))

-------------------------------------------------------------------------------
ProcRecord == [stage : Stages, from : Inodes \cup {None}, was : Inodes \cup {None},
               rollback : Paths \cup {None}, checked : SUBSET Restorers]

\* The variables have their types; in particular a restore holds no lock
\* between its steps.
TypeOK ==
  /\ dir \in [Paths -> Inodes \cup {None}]
  /\ file \in [Inodes -> Contents]
  /\ lock \in [Inodes -> Openers \cup {None}]
  /\ proc \in [Procs -> ProcRecord]
  /\ power \in BOOLEAN

\* restore.go: through restores that fail, are killed at any point or lose
\* power, and through repeated ones, a database that was at the destination
\* stays under some name, there or at a rollback path.
Named(i) == \E q \in Paths : dir[q] = i
OriginalKept == [][Named("old") => Named("old")']_vars

\* A file the restore put at the destination is a whole database within the
\* limit, also after the power has failed; and so is what it put aside.
PublishedWhole ==
  \A p \in Restorers : \A q \in Paths \ {p} :
    dir[q] = p => file[p].state = "whole" /\ file[p].size <= MaxBytes

\* A restore that reports success has put its snapshot at the destination and
\* what was there at the rollback path; one that reports failure has left (or
\* put back) what was there, unless it reports that this failed too.
AllOrNothing ==
  [][\A p \in Restorers :
       /\ ~ At(p, "ok") /\ At(p, "ok")' =>
            dir'["dest"] = p /\ (proc[p].was # None => dir'[proc[p].rollback] = proc[p].was)
       /\ ~ At(p, "failed") /\ At(p, "failed")' =>
            (proc[p].was # None => dir'["dest"] = proc[p].was)]_vars

\* verifyDestinationIsOffline: no restore moves a file that a process has had
\* open since before the restore made sure that there was none.
LockRespected ==
  [][\A p \in Restorers :
       At(p, "move") /\ At(p, "publish")' /\ lock[dir["dest"]] # None =>
         p \in proc[lock[dir["dest"]]].checked]_vars

\* cmdBackup: what has the name of a backup is a whole database, as long as
\* the power did not fail.  (The file is not synced.)
BackupWhole ==
  power => \A b \in Backups : dir["out"] = b => file[b].state = "whole"

\* Commands end, also when a server holds the database.
CommandsEnd == \A p \in Restorers \cup Backups : Running(p) ~> Ended(p)
===============================================================================
