----------------------------- MODULE RestoreProofs -----------------------------
(***************************************************************************)
(* Restores, backups and servers over the same files, for any processes,   *)
(* rollback paths, snapshots and limit.                                    *)
(***************************************************************************)
EXTENDS Restore, TLAPS

\* First-order steps; those that need arithmetic, records or functions name SMT.
USE Zenon

Staged == {"sync", "verify", "move", "publish", "undo", "cleanup", "abandon"}
Checked == {"stage", "sync", "verify", "move"}
LockedStages == BackupStages \cup {"open"}

WholeFile(p) == file[p].state = "whole" /\ file[p].size <= MaxBytes /\ file[p].synced

\* The inodes of databases: the first one, those openers create, those restored.
Databases == {"old"} \cup CreatedInodes \cup {p \in Restorers : At(p, "ok")}

\* A restore: what it found at the destination stays there until it is moved,
\* and then at the rollback path, which was unused; what it overwrites is at
\* most a database created after the destination was found empty.
RestorerOK(p) ==
  LET s == proc[p].stage
      was == proc[p].was
      rb == proc[p].rollback
  IN  /\ s \in RestoreStages \cup Ends \cup {"new"}
      /\ rb \in Rollbacks[p] \cup {None}
      /\ was # None => rb # None
      /\ s \in Ends \cup {"new", "inspect"} => was = None
      /\ s \in RestoreStages => proc[p].from \in Inodes
      /\ s \in {"offline", "move", "undo", "abandon"} => was # None
      /\ s \in Staged => dir[p] = p
      /\ was # None /\ s \in Checked \cup {"rollback", "offline", "cleanup"} => dir["dest"] = was
      /\ was # None /\ s \in Checked \cup {"offline"} => dir[rb] = None
      /\ was # None /\ s \in {"publish", "undo"} => dir[rb] = was
      /\ s \in {"publish", "undo"} => dir["dest"] \in CreatedInodes \cup {None}
      /\ was = None /\ s \in Checked \cup {"rollback"} => dir["dest"] \in CreatedInodes \cup {None}
      /\ s = "sync" => file[p].size <= MaxBytes
      /\ s = "verify" => file[p].size <= MaxBytes /\ file[p].synced
      /\ s \in {"move", "publish", "ok"} => WholeFile(p)
      /\ was # None /\ s \in Checked => \A o \in Openers : lock[was] = o => p \in proc[o].checked

\* Restores run one at a time.
Turns == \A p, q \in Restorers : Turn[q] < Turn[p] /\ ~ At(p, "new") => Ended(q)

DirOK ==
  /\ \A q \in Procs : dir[q] \in {q, None}
  /\ dir["out"] \in Backups \cup {"snap", None}
  /\ \A q \in RollbackPaths \cup {"dest"} : dir[q] \in Databases \cup {None}

\* A server or backup has the lock of the database it opened.
OpenerOK(o) ==
  /\ proc[o].stage \in {"lock"} \cup LockedStages => proc[o].from \in Databases
  /\ proc[o].stage \in LockedStages => lock[proc[o].from] = o
  /\ o \in Backups /\ proc[o].stage = "rename" => file[o].state = "whole"
  /\ o \in Backups /\ dir["out"] = o =>
       proc[o].stage \in Ends \cup {"open"} /\ (power => file[o].state = "whole")

LockOK ==
  \A i \in Inodes : lock[i] # None =>
    /\ proc[lock[i]].stage \in LockedStages /\ proc[lock[i]].from = i
    /\ file[i].state = "whole"

FilesOK ==
  /\ file["old"].state = "whole" /\ file["old"].synced
  /\ \A i \in CreatedInodes : file[i].state \in {"empty", "whole"} /\ file[i].synced

\* The inductive invariant.
RInv ==
  /\ TypeOK /\ (\A p \in Restorers : RestorerOK(p)) /\ Turns /\ DirOK
  /\ (\A o \in Openers : OpenerOK(o)) /\ LockOK /\ FilesOK

-------------------------------------------------------------------------------
LEMMA Constants ==
  /\ Restorers \subseteq Procs /\ Openers \subseteq Procs /\ Restorers \cap Openers = {}
  /\ Procs = Restorers \cup Openers /\ Backups \subseteq Openers /\ Servers \subseteq Openers
  /\ Procs \subseteq Paths /\ Procs \subseteq Inodes /\ RollbackPaths \subseteq Paths
  /\ "dest" \in Paths /\ "out" \in Paths /\ "old" \in Inodes /\ "snap" \in Inodes
  /\ CreatedInodes \subseteq Inodes /\ None \notin Inodes /\ None \notin Paths
  /\ {"dest", "out", "old", "snap"} \cap Procs = {}
  /\ CreatedInodes \cap (Procs \cup {"old", "snap"}) = {}
  /\ RollbackPaths \cap (Procs \cup {"dest", "out"}) = {}
  /\ MaxBytes \in Nat
  BY RestoreAssumption DEF Procs, Openers, Paths, Inodes, CreatedInodes

LEMMA RollbackFacts ==
  ASSUME NEW p \in Restorers, NEW rb \in Rollbacks[p], rb # None
  PROVE  rb \in RollbackPaths
  BY DEF RollbackPaths

LEMMA StageFacts ==
  /\ RestoreStages \subseteq Stages /\ BackupStages \subseteq Stages /\ Ends \subseteq Stages
  /\ "new" \in Stages /\ "lock" \in Stages /\ "open" \in Stages
  BY DEF Stages, Ends

\* What a step of process p leaves alone.
Others(p) == \A q \in Procs \ {p} : proc'[q] = proc[q]

LEMMA GoFacts ==
  ASSUME TypeOK, NEW p \in Procs, NEW s \in Stages, Go(p, s)
  PROVE  /\ proc' \in [Procs -> ProcRecord] /\ Others(p) /\ proc'[p].stage = s
         /\ s \in Ends => /\ proc'[p].from = None /\ proc'[p].was = None
                          /\ proc'[p].rollback = None /\ proc'[p].checked = {}
         /\ s \notin Ends => /\ proc'[p].from = proc[p].from /\ proc'[p].was = proc[p].was
                             /\ proc'[p].rollback = proc[p].rollback
                             /\ proc'[p].checked = proc[p].checked
  <1>1. proc \in [Procs -> ProcRecord] /\ New \in ProcRecord
    BY StageFacts DEF TypeOK, New, ProcRecord
  <1>2. CASE s \in Ends
    <2> DEFINE r == [New EXCEPT !.stage = s]
    <2>1. /\ r \in ProcRecord /\ r.stage = s /\ r.from = None /\ r.was = None
          /\ r.rollback = None /\ r.checked = {}
      BY <1>1 DEF New, ProcRecord
    <2>2. proc' = [proc EXCEPT ![p] = r]
      BY <1>2 DEF Go
    <2> HIDE DEF r
    <2>3. QED
      BY <1>1, <1>2, <2>1, <2>2 DEF Others
  <1>3. CASE s \notin Ends
    <2> DEFINE r == [proc[p] EXCEPT !.stage = s]
    <2>1. /\ r \in ProcRecord /\ r.stage = s /\ r.from = proc[p].from /\ r.was = proc[p].was
          /\ r.rollback = proc[p].rollback /\ r.checked = proc[p].checked
      BY <1>1 DEF ProcRecord
    <2>2. proc' = [proc EXCEPT ![p] = r]
      BY <1>3 DEF Go
    <2> HIDE DEF r
    <2>3. QED
      BY <1>1, <1>3, <2>1, <2>2 DEF Others
  <1>4. QED
    BY <1>2, <1>3

-------------------------------------------------------------------------------
\* No other restore runs when one takes a step.
Asleep(q) == proc[q].stage \in Ends \cup {"new"}
MayStep(p) == Running(p) \/ (At(p, "new") /\ \A q \in Restorers : Turn[q] < Turn[p] => Ended(q))

LEMMA Alone ==
  ASSUME RInv, NEW p \in Restorers, MayStep(p), NEW q \in Restorers \ {p}
  PROVE  Asleep(q) /\ (Turn[q] < Turn[p] => Ended(q)) /\ (Turn[p] < Turn[q] => At(q, "new"))
  <1>1. Turn[q] < Turn[p] \/ Turn[p] < Turn[q]
    <2>1. Turn[p] \in Nat /\ Turn[q] \in Nat /\ Turn[p] # Turn[q]
      BY RestoreAssumption
    <2>2. QED
      BY <2>1, SMT
  <1>2. ~ Ended(p)
    BY DEF MayStep, Running, Ended, At, Ends
  <1>3. Turn[q] < Turn[p] => Ended(q)
    BY DEF RInv, Turns, MayStep, Running
  <1>4. Turn[p] < Turn[q] => At(q, "new")
    BY <1>2 DEF RInv, Turns
  <1>5. QED
    BY <1>1, <1>3, <1>4 DEF Asleep, Ended, At

LEMMA AsleepKept ==
  ASSUME NEW q \in Restorers, RestorerOK(q), Asleep(q), proc'[q] = proc[q],
         file'[q] = file[q] \/ (WholeFile(q) => WholeFile(q)')
  PROVE  RestorerOK(q)'
  BY DEF RestorerOK, Asleep, WholeFile, Ends, Staged, Checked, RestoreStages

\* A restorer's step keeps the invariant if it keeps what is about the
\* restorer itself and about the directory.
LEMMA RestorerKeeps ==
  ASSUME RInv, NEW p \in Restorers, MayStep(p), Others(p), TypeOK', RestorerOK(p)', DirOK',
         ~ At(p, "new")', UNCHANGED <<lock, power>>, dir'["out"] = dir["out"],
         \A i \in Inodes \ {p} : file'[i] = file[i]
  PROVE  RInv'
  <1>1. ~ At(p, "ok")
    BY DEF MayStep, Running, Ended, At, Ends
  <1>2. Databases \subseteq Databases'
    BY <1>1, Constants DEF Databases, At, Others
  <1>3. \A q \in Restorers : RestorerOK(q)'
    <2>1. ASSUME NEW q \in Restorers \ {p} PROVE RestorerOK(q)'
      BY Alone, AsleepKept, Constants DEF RInv, Others
    <2>2. QED
      BY <2>1
  <1>4. Turns'
    <2>1. \A q \in Restorers \ {p} : proc'[q] = proc[q]
      BY Constants DEF Others
    <2>2. ASSUME NEW a \in Restorers, NEW b \in Restorers, Turn[b] < Turn[a], ~ At(a, "new")'
          PROVE  Ended(b)'
      <3>1. a # b
        BY <2>2, RestoreAssumption, SMT
      <3>2. CASE a = p
        BY <2>1, <2>2, <3>1, <3>2, Alone DEF Ended
      <3>3. CASE a # p /\ b = p
        BY <2>1, <2>2, <3>3, Alone DEF At
      <3>4. CASE a # p /\ b # p
        BY <2>1, <2>2, <3>4 DEF RInv, Turns, At, Ended
      <3>5. QED
        BY <3>2, <3>3, <3>4
    <2>3. QED
      BY <2>2 DEF Turns
  <1>5. ASSUME NEW o \in Openers PROVE OpenerOK(o)'
    <2>1. proc'[o] = proc[o] /\ file'[o] = file[o] /\ OpenerOK(o)
      BY Constants DEF Others, RInv
    <2>2. QED
      BY <1>2, <2>1 DEF OpenerOK
  <1>6. LockOK'
    <2>1. ASSUME NEW i \in Inodes, lock[i] # None
          PROVE  /\ proc'[lock[i]] = proc[lock[i]] /\ file'[i] = file[i]
      <3>1. lock[i] \in Openers /\ proc[lock[i]].stage \in LockedStages /\ proc[lock[i]].from = i
        BY <2>1 DEF RInv, TypeOK, LockOK
      <3>2. i \in Databases
        BY <3>1 DEF RInv, OpenerOK
      <3>3. i # p
        BY <1>1, <3>2, Constants DEF Databases
      <3>4. QED
        BY <3>1, <3>3, Constants, SMT DEF Others
    <2>2. QED
      BY <2>1 DEF RInv, LockOK
  <1>7. FilesOK'
    BY Constants DEF RInv, FilesOK
  <1>8. QED
    BY <1>3, <1>4, <1>5, <1>6, <1>7 DEF RInv

\* A restore under way.
LEMMA Acting ==
  ASSUME RInv, NEW p \in Restorers, proc[p].stage \in RestoreStages
  PROVE  /\ MayStep(p) /\ proc[p].stage \notin Ends \cup {"new"} /\ RestorerOK(p) /\ TypeOK
         /\ p \in Procs /\ p \in Paths /\ p \in Inodes /\ p \notin Openers
  <1>1. proc[p].stage \notin Ends \cup {"new"}
    BY DEF RestoreStages, Ends
  <1>2. QED
    BY <1>1, Constants DEF RInv, MayStep, Running, At, Ended

\* Steps that change neither the directory nor the files.
LEMMA QuietKeeps ==
  ASSUME RInv, NEW p \in Restorers, MayStep(p), proc' \in [Procs -> ProcRecord], Others(p),
         ~ At(p, "new")', UNCHANGED <<dir, file, lock, power>>, RestorerOK(p)'
  PROVE  RInv'
  <1>1. ~ At(p, "ok")
    BY DEF MayStep, Running, Ended, At, Ends
  <1>2. Databases \subseteq Databases'
    BY <1>1, Constants DEF Databases, At, Others
  <1>3. DirOK'
    BY <1>2 DEF RInv, DirOK
  <1>4. TypeOK'
    BY DEF RInv, TypeOK
  <1>5. QED
    BY <1>3, <1>4, RestorerKeeps

LEMMA FailKeeps ==
  ASSUME RInv, NEW p \in Restorers, MayStep(p), proc' \in [Procs -> ProcRecord], Others(p),
         proc'[p].stage = "failed", proc'[p].was = None, proc'[p].rollback = None,
         UNCHANGED <<dir, file, lock, power>>
  PROVE  RInv'
  <1>1. RestorerOK(p)'
    BY DEF RestorerOK, Ends, RestoreStages, Staged, Checked
  <1>2. ~ At(p, "new")'
    BY DEF At
  <1>3. QED
    BY <1>1, <1>2, QuietKeeps

LEMMA RestoreFileKeeps ==
  ASSUME RInv, NEW p \in Restorers, RestoreFile(p)
  PROVE  RInv'
  <1>1. MayStep(p) /\ UNCHANGED <<dir, file, lock, power>> /\ p \in Procs /\ TypeOK
    BY Constants DEF RestoreFile, MayStep, RInv
  <1>2. PICK src \in Sources[p], rb \in Rollbacks[p] :
          proc' = [proc EXCEPT ![p] =
            IF dir[src] = None \/ dir[src] = dir["dest"]
            THEN [New EXCEPT !.stage = "failed"]
            ELSE [New EXCEPT !.stage = "inspect", !.from = dir[src], !.rollback = rb]]
    BY DEF RestoreFile
  <1>3. proc \in [Procs -> ProcRecord]
    BY <1>1 DEF TypeOK
  <1>4. CASE dir[src] = None \/ dir[src] = dir["dest"]
    <2> DEFINE r == [New EXCEPT !.stage = "failed"]
    <2>1. r \in ProcRecord /\ r.stage = "failed" /\ r.was = None /\ r.rollback = None
      BY StageFacts DEF New, ProcRecord, Ends
    <2>2. proc' = [proc EXCEPT ![p] = r]
      BY <1>2, <1>4
    <2> HIDE DEF r
    <2>3. proc' \in [Procs -> ProcRecord] /\ Others(p) /\ proc'[p] = r
      BY <1>1, <1>3, <2>1, <2>2 DEF Others
    <2>4. QED
      BY <1>1, <2>1, <2>3, FailKeeps
  <1>5. CASE ~ (dir[src] = None \/ dir[src] = dir["dest"])
    <2> DEFINE r == [New EXCEPT !.stage = "inspect", !.from = dir[src], !.rollback = rb]
    <2>1. dir[src] \in Inodes /\ rb \in Paths \cup {None}
      BY <1>1, <1>5, RestoreAssumption, RollbackFacts, Constants DEF TypeOK
    <2>2. /\ r \in ProcRecord /\ r.stage = "inspect" /\ r.was = None /\ r.rollback = rb
          /\ r.from \in Inodes
      BY <2>1, StageFacts DEF New, ProcRecord, RestoreStages
    <2>3. proc' = [proc EXCEPT ![p] = r]
      BY <1>2, <1>5
    <2> HIDE DEF r
    <2>4. proc' \in [Procs -> ProcRecord] /\ Others(p) /\ proc'[p] = r
      BY <1>1, <1>3, <2>2, <2>3 DEF Others
    <2>5. RestorerOK(p)'
      BY <2>2, <2>4 DEF RestorerOK, Ends, RestoreStages, Staged, Checked
    <2>6. ~ At(p, "new")'
      BY <2>2, <2>4 DEF At
    <2>7. QED
      BY <1>1, <2>4, <2>5, <2>6, QuietKeeps
  <1>6. QED
    BY <1>4, <1>5

LEMMA InspectKeeps ==
  ASSUME RInv, NEW p \in Restorers, Inspect(p)
  PROVE  RInv'
  <1>1. proc[p].stage = "inspect" /\ UNCHANGED <<dir, file, lock, power>>
    BY DEF Inspect, At
  <1>2. MayStep(p) /\ RestorerOK(p) /\ TypeOK /\ p \in Procs
    BY <1>1, Acting DEF RestoreStages
  <1>3. CASE Go(p, "failed")
    BY <1>1, <1>2, <1>3, GoFacts, StageFacts, FailKeeps DEF Ends
  <1>4. CASE /\ dir["dest"] = None \/ proc[p].rollback # None
             /\ proc' = [proc EXCEPT ![p].was = dir["dest"], ![p].stage = "rollback"]
    <2> DEFINE r == [proc[p] EXCEPT !.was = dir["dest"], !.stage = "rollback"]
    <2>1. proc[p] \in ProcRecord /\ dir["dest"] \in Inodes \cup {None}
          /\ proc \in [Procs -> ProcRecord]
      BY <1>2, Constants DEF TypeOK
    <2>2. /\ r \in ProcRecord /\ r.stage = "rollback" /\ r.was = dir["dest"]
          /\ r.rollback = proc[p].rollback /\ r.from = proc[p].from
      BY <2>1, StageFacts DEF ProcRecord, RestoreStages
    <2>3. proc' = [proc EXCEPT ![p] = r]
      BY <1>4, <2>1
    <2> HIDE DEF r
    <2>4. proc' \in [Procs -> ProcRecord] /\ Others(p) /\ proc'[p] = r
      BY <1>2, <2>1, <2>2, <2>3 DEF Others
    <2>5. RestorerOK(p)'
      BY <1>1, <1>2, <1>4, <2>2, <2>4 DEF RestorerOK, Ends, RestoreStages, Staged, Checked
    <2>6. ~ At(p, "new")'
      BY <2>2, <2>4 DEF At
    <2>7. QED
      BY <1>1, <1>2, <2>4, <2>5, <2>6, QuietKeeps
  <1>5. QED
    BY <1>3, <1>4 DEF Inspect

\* A step to another stage, with everything else left alone.
Stays(p, s) ==
  /\ Go(p, s) /\ UNCHANGED <<dir, file, lock, power>> /\ s \in RestoreStages
  /\ proc[p].stage \in RestoreStages

LEMMA StaysFacts ==
  ASSUME RInv, NEW p \in Restorers, NEW s, Stays(p, s)
  PROVE  /\ MayStep(p) /\ RestorerOK(p) /\ ~ At(p, "new")' /\ Others(p)
         /\ proc' \in [Procs -> ProcRecord] /\ proc'[p].stage = s
         /\ proc'[p].from = proc[p].from /\ proc'[p].was = proc[p].was
         /\ proc'[p].rollback = proc[p].rollback
         /\ \A o \in Openers : proc'[o] = proc[o]
  <1>1. s \in Stages /\ s \notin Ends /\ s # "new" /\ Go(p, s)
    BY StageFacts DEF Stays, RestoreStages, Ends
  <1>2. MayStep(p) /\ RestorerOK(p) /\ TypeOK /\ p \in Procs
    BY Acting DEF Stays
  <1>3. /\ proc' \in [Procs -> ProcRecord] /\ Others(p) /\ proc'[p].stage = s
        /\ proc'[p].from = proc[p].from /\ proc'[p].was = proc[p].was
        /\ proc'[p].rollback = proc[p].rollback
    BY <1>1, <1>2, GoFacts
  <1>4. \A o \in Openers : proc'[o] = proc[o]
    BY <1>3, Constants DEF Others
  <1>5. ~ At(p, "new")'
    BY <1>1, <1>3 DEF At
  <1>6. QED
    BY <1>2, <1>3, <1>4, <1>5

LEMMA validateRollbackPathKeeps ==
  ASSUME RInv, NEW p \in Restorers, validateRollbackPath(p)
  PROVE  RInv'
  <1>1. proc[p].stage = "rollback" /\ UNCHANGED <<dir, file, lock, power>>
    BY DEF validateRollbackPath, At
  <1>2. MayStep(p) /\ RestorerOK(p) /\ TypeOK /\ p \in Procs
    BY <1>1, Acting DEF RestoreStages
  <1>3. CASE Go(p, "failed")
    BY <1>1, <1>2, <1>3, GoFacts, StageFacts, FailKeeps DEF Ends
  <1>4. CASE Go(p, "stage") /\ proc[p].was = None
    <2>1. Stays(p, "stage")
      BY <1>1, <1>4 DEF Stays, RestoreStages
    <2>2. RestorerOK(p)'
      BY <1>1, <1>2, <1>4, <2>1, StaysFacts, SMT DEF RestorerOK, Ends, RestoreStages, Staged, Checked
    <2>3. QED
      BY <1>1, <2>1, <2>2, StaysFacts, QuietKeeps
  <1>5. CASE Go(p, "offline") /\ proc[p].was # None /\ dir[proc[p].rollback] = None
    <2>1. Stays(p, "offline")
      BY <1>1, <1>5 DEF Stays, RestoreStages
    <2>2. RestorerOK(p)'
      BY <1>1, <1>2, <1>5, <2>1, StaysFacts, SMT DEF RestorerOK, Ends, RestoreStages, Staged, Checked
    <2>3. QED
      BY <1>1, <2>1, <2>2, StaysFacts, QuietKeeps
  <1>6. QED
    BY <1>3, <1>4, <1>5 DEF validateRollbackPath

LEMMA verifyDestinationIsOfflineKeeps ==
  ASSUME RInv, NEW p \in Restorers, verifyDestinationIsOffline(p)
  PROVE  RInv'
  <1>1. proc[p].stage = "offline" /\ UNCHANGED <<dir, file, lock, power>>
    BY DEF verifyDestinationIsOffline, At
  <1>2. MayStep(p) /\ RestorerOK(p) /\ TypeOK /\ p \in Procs
    BY <1>1, Acting DEF RestoreStages
  <1>3. CASE Go(p, "failed")
    BY <1>1, <1>2, <1>3, GoFacts, StageFacts, FailKeeps DEF Ends
  <1>4. CASE Go(p, "stage") /\ lock[dir["dest"]] = None
    <2>1. Stays(p, "stage")
      BY <1>1, <1>4 DEF Stays, RestoreStages
    <2>2. RestorerOK(p)'
      BY <1>1, <1>2, <1>4, <2>1, StaysFacts, Constants, SMT
      DEF RestorerOK, Ends, RestoreStages, Staged, Checked
    <2>3. QED
      BY <1>1, <2>1, <2>2, StaysFacts, QuietKeeps
  <1>5. QED
    BY <1>3, <1>4 DEF verifyDestinationIsOffline

LEMMA verifySnapshotKeeps ==
  ASSUME RInv, NEW p \in Restorers, verifySnapshot(p)
  PROVE  RInv'
  <1>1. proc[p].stage = "verify" /\ UNCHANGED <<dir, file, lock, power>>
    BY DEF verifySnapshot, At
  <1>2. RestorerOK(p)
    BY <1>1, Acting DEF RestoreStages
  <1>3. ASSUME NEW s, Stays(p, s),
               \/ s = "cleanup"
               \/ s = "move" /\ file[p].state = "whole" /\ proc[p].was # None
               \/ s = "publish" /\ file[p].state = "whole" /\ proc[p].was = None
        PROVE  RInv'
    <2>1. RestorerOK(p)'
      BY <1>1, <1>2, <1>3, StaysFacts, SMT DEF RestorerOK, WholeFile, Ends, RestoreStages, Staged, Checked
    <2>2. QED
      BY <1>1, <1>3, <2>1, StaysFacts, QuietKeeps
  <1>4. QED
    BY <1>1, <1>3 DEF verifySnapshot, Readable, Stays, RestoreStages

\* Steps that fail and leave what they found.
LEMMA GiveUpKeeps ==
  ASSUME RInv, NEW p \in Restorers, NEW s, Stays(p, s),
         \/ s = "cleanup" /\ proc[p].stage \in {"sync", "move"}
         \/ s = "cleanup" /\ proc[p].stage = "publish" /\ proc[p].was = None
         \/ s = "undo" /\ proc[p].stage = "publish" /\ proc[p].was # None
         \/ s = "abandon" /\ proc[p].stage = "undo"
  PROVE  RInv'
  <1>1. UNCHANGED <<dir, file, lock, power>>
    BY DEF Stays
  <1>2. RestorerOK(p)'
    BY <1>1, StaysFacts, SMT DEF RestorerOK, WholeFile, Ends, RestoreStages, Staged, Checked
  <1>3. QED
    BY <1>1, <1>2, StaysFacts, QuietKeeps

\* The databases, when p does not become one of them.
LEMMA DatabasesKept ==
  ASSUME RInv, NEW p \in Restorers, MayStep(p), Others(p)
  PROVE  Databases \subseteq Databases'
  <1>1. ~ At(p, "ok")
    BY DEF MayStep, Running, Ended, At, Ends
  <1>2. QED
    BY <1>1, Constants DEF Databases, At, Others

LEMMA LimitedFacts ==
  ASSUME NEW c \in Contents
  PROVE  limited(c) \in Contents
  <1>1. [c EXCEPT !.synced = FALSE] \in Contents
    BY DEF Contents
  <1>2. MaxBytes + 1 \in Nat
    BY Constants, SMT
  <1>3. File("torn", MaxBytes + 1, FALSE) \in Contents
    <2> DEFINE n == MaxBytes + 1
    <2> HIDE DEF n
    <2>1. n \in Nat => File("torn", n, FALSE) \in Contents
      BY DEF File, Contents
    <2>2. QED
      BY <1>2, <2>1 DEF n
  <1>4. QED
    BY <1>1, <1>3 DEF limited

LEMMA StageKeeps ==
  ASSUME RInv, NEW p \in Restorers, Stage(p)
  PROVE  RInv'
  <1>1. proc[p].stage = "stage" /\ UNCHANGED <<lock, power>>
    BY DEF Stage, At
  <1>2. MayStep(p) /\ RestorerOK(p) /\ TypeOK /\ p \in Procs /\ p \in Paths /\ p \in Inodes
    BY <1>1, Acting DEF RestoreStages
  <1>3. CASE Go(p, "failed") /\ UNCHANGED <<dir, file>>
    BY <1>1, <1>2, <1>3, GoFacts, StageFacts, FailKeeps DEF Ends
  <1>4. ASSUME NEW c \in Contents, file' = [file EXCEPT ![p] = c], dir' = [dir EXCEPT ![p] = p],
               NEW s, Go(p, s), s = "cleanup" \/ (s = "sync" /\ c.size <= MaxBytes)
        PROVE  RInv'
    <2>1. s \in Stages /\ s \notin Ends /\ s # "new"
      BY <1>4, StageFacts DEF RestoreStages, Ends
    <2>2. /\ proc' \in [Procs -> ProcRecord] /\ Others(p) /\ proc'[p].stage = s
          /\ proc'[p].from = proc[p].from /\ proc'[p].was = proc[p].was
          /\ proc'[p].rollback = proc[p].rollback
      BY <1>2, <1>4, <2>1, GoFacts
    <2>3. /\ dir \in [Paths -> Inodes \cup {None}] /\ file \in [Inodes -> Contents]
          /\ file'[p] = c /\ dir'[p] = p
          /\ \A i \in Inodes \ {p} : file'[i] = file[i]
          /\ \A q \in Paths \ {p} : dir'[q] = dir[q]
      BY <1>2, <1>4 DEF TypeOK
    <2>4. TypeOK'
      BY <1>1, <1>2, <1>4, <2>2 DEF TypeOK
    <2>5. /\ dir'["dest"] = dir["dest"] /\ dir'["out"] = dir["out"]
          /\ \A q \in RollbackPaths : dir'[q] = dir[q]
      BY <2>3, Constants
    <2>6. DirOK'
      <3>1. Databases \subseteq Databases'
        BY <1>2, <2>2, DatabasesKept
      <3>2. \A q \in Procs : dir'[q] \in {q, None}
        BY <2>3, Constants DEF RInv, DirOK
      <3>3. QED
        BY <2>5, <3>1, <3>2 DEF RInv, DirOK
    <2>7. proc[p].was # None => proc[p].rollback \in RollbackPaths
      BY <1>2, RollbackFacts DEF RestorerOK
    <2>8. \A o \in Openers : proc'[o] = proc[o]
      BY <2>2, Constants DEF Others
    <2>9. RestorerOK(p)'
      BY <1>1, <1>2, <1>4, <2>2, <2>3, <2>5, <2>7, <2>8, SMT
      DEF RestorerOK, Ends, RestoreStages, Staged, Checked
    <2>10. ~ At(p, "new")'
      BY <2>1, <2>2 DEF At
    <2>11. QED
      BY <1>1, <1>2, <2>2, <2>3, <2>4, <2>5, <2>6, <2>9, <2>10, RestorerKeeps
  <1>5. CASE /\ dir' = [dir EXCEPT ![p] = p]
             /\ file' = [file EXCEPT ![p] = limited(file[proc[p].from])]
             /\ Go(p, IF file'[p].size > MaxBytes THEN "cleanup" ELSE "sync")
    <2> DEFINE c == limited(file[proc[p].from])
    <2>1. proc[p].from \in Inodes /\ file \in [Inodes -> Contents]
      BY <1>1, <1>2 DEF RestorerOK, RestoreStages, TypeOK
    <2>2. c \in Contents
      BY <2>1, LimitedFacts
    <2>3. file' = [file EXCEPT ![p] = c]
      BY <1>5
    <2> HIDE DEF c
    <2>4. file'[p] = c /\ c.size \in Nat
      BY <1>2, <2>1, <2>2, <2>3 DEF Contents
    <2>5. CASE c.size > MaxBytes
      BY <1>4, <1>5, <2>2, <2>3, <2>4, <2>5
    <2>6. CASE ~ (c.size > MaxBytes)
      <3>1. c.size <= MaxBytes
        BY <2>4, <2>6, Constants, SMT
      <3>2. Go(p, "sync")
        BY <1>5, <2>4, <2>6
      <3>3. QED
        BY <1>4, <1>5, <2>2, <2>3, <3>1, <3>2
    <2>7. QED
      BY <2>5, <2>6
  <1>6. CASE /\ dir' = [dir EXCEPT ![p] = p]
             /\ file' = [file EXCEPT ![p] = File("torn", 0, FALSE)]
             /\ Go(p, "cleanup")
    <2>1. File("torn", 0, FALSE) \in Contents
      BY DEF File, Contents
    <2>2. QED
      BY <1>4, <1>6, <2>1
  <1>7. QED
    BY <1>3, <1>5, <1>6 DEF Stage

LEMMA SyncKeeps ==
  ASSUME RInv, NEW p \in Restorers, Sync(p)
  PROVE  RInv'
  <1>1. proc[p].stage = "sync" /\ UNCHANGED <<dir, lock, power>>
    BY DEF Sync, At
  <1>2. MayStep(p) /\ RestorerOK(p) /\ TypeOK /\ p \in Procs /\ p \in Paths /\ p \in Inodes
    BY <1>1, Acting DEF RestoreStages
  <1>3. CASE Go(p, "cleanup") /\ UNCHANGED file
    <2>1. Stays(p, "cleanup")
      BY <1>1, <1>3 DEF Stays, RestoreStages
    <2>2. QED
      BY <1>1, <2>1, GiveUpKeeps
  <1>4. CASE file' = [file EXCEPT ![p].synced = TRUE] /\ Go(p, "verify")
    <2> DEFINE c == [file[p] EXCEPT !.synced = TRUE]
    <2>1. file \in [Inodes -> Contents] /\ file[p] \in Contents
      BY <1>2 DEF TypeOK
    <2>2. c \in Contents /\ c.size = file[p].size /\ c.synced
      BY <2>1 DEF Contents
    <2>3. file' = [file EXCEPT ![p] = c]
      BY <1>4
    <2> HIDE DEF c
    <2>4. /\ file' \in [Inodes -> Contents] /\ file'[p] = c
          /\ \A i \in Inodes \ {p} : file'[i] = file[i]
      BY <1>2, <2>1, <2>2, <2>3
    <2>5. "verify" \in Stages /\ "verify" \notin Ends
      BY StageFacts DEF RestoreStages, Ends
    <2>6. /\ proc' \in [Procs -> ProcRecord] /\ Others(p) /\ proc'[p].stage = "verify"
          /\ proc'[p].from = proc[p].from /\ proc'[p].was = proc[p].was
          /\ proc'[p].rollback = proc[p].rollback
      BY <1>2, <1>4, <2>5, GoFacts
    <2>7. TypeOK'
      BY <1>1, <1>2, <2>4, <2>6 DEF TypeOK
    <2>8. DirOK'
      BY <1>1, <1>2, <2>6, DatabasesKept DEF RInv, DirOK
    <2>9. \A o \in Openers : proc'[o] = proc[o]
      BY <2>6, Constants DEF Others
    <2>10. RestorerOK(p)'
      BY <1>1, <1>2, <2>2, <2>4, <2>6, <2>9, SMT DEF RestorerOK, Ends, RestoreStages, Staged, Checked
    <2>11. ~ At(p, "new")'
      BY <2>6 DEF At
    <2>12. QED
      BY <1>1, <1>2, <2>4, <2>6, <2>7, <2>8, <2>10, <2>11, RestorerKeeps
  <1>5. QED
    BY <1>3, <1>4 DEF Sync

LEMMA CleanupKeeps ==
  ASSUME RInv, NEW p \in Restorers, Cleanup(p)
  PROVE  RInv'
  <1>1. proc[p].stage \in {"cleanup", "abandon"} /\ UNCHANGED <<file, lock, power>>
        /\ dir' = [dir EXCEPT ![p] = None]
    BY DEF Cleanup, At
  <1>2. MayStep(p) /\ RestorerOK(p) /\ TypeOK /\ p \in Procs /\ p \in Paths /\ p \in Inodes
    BY <1>1, Acting DEF RestoreStages
  <1>3. PICK s \in {"failed", "lost"} : Go(p, s)
    BY DEF Cleanup
  <1>4. s \in Stages /\ s \in Ends
    BY StageFacts DEF Ends
  <1>5. /\ proc' \in [Procs -> ProcRecord] /\ Others(p) /\ proc'[p].stage = s
        /\ proc'[p].was = None /\ proc'[p].rollback = None
    BY <1>2, <1>3, <1>4, GoFacts
  <1>6. /\ dir' \in [Paths -> Inodes \cup {None}] /\ dir'[p] = None
        /\ \A q \in Paths \ {p} : dir'[q] = dir[q]
    BY <1>1, <1>2 DEF TypeOK
  <1>7. TypeOK'
    BY <1>1, <1>2, <1>5, <1>6 DEF TypeOK
  <1>8. /\ dir'["dest"] = dir["dest"] /\ dir'["out"] = dir["out"]
        /\ \A q \in RollbackPaths : dir'[q] = dir[q]
    BY <1>6, Constants
  <1>9. DirOK'
    <2>1. Databases \subseteq Databases'
      BY <1>2, <1>5, DatabasesKept
    <2>2. \A q \in Procs : dir'[q] \in {q, None}
      BY <1>6, Constants DEF RInv, DirOK
    <2>3. QED
      BY <1>8, <2>1, <2>2 DEF RInv, DirOK
  <1>10. RestorerOK(p)'
    BY <1>5 DEF RestorerOK, Ends, RestoreStages, Staged, Checked
  <1>11. ~ At(p, "new")'
    BY <1>5 DEF At
  <1>12. QED
    BY <1>1, <1>2, <1>5, <1>7, <1>8, <1>9, <1>10, <1>11, RestorerKeeps

\* A rename within the restore: from the paths a and b to b.
LEMMA RenameFacts ==
  ASSUME TypeOK, NEW a \in Paths, NEW b \in Paths, a # b, Rename(a, b)
  PROVE  /\ dir' \in [Paths -> Inodes \cup {None}] /\ dir'[b] = dir[a] /\ dir'[a] = None
         /\ \A q \in Paths \ {a, b} : dir'[q] = dir[q]
  BY DEF TypeOK, Rename

LEMMA MoveKeeps ==
  ASSUME RInv, NEW p \in Restorers, NEW a \in Paths, NEW b \in Paths, NEW s \in Stages,
         proc[p].stage \in RestoreStages, a # b, Rename(a, b), Go(p, s),
         UNCHANGED <<file, lock, power>>, RestorerOK(p)', s # "new",
         {a, b} \subseteq RollbackPaths \cup {"dest", p}, b # p,
         dir[a] \in Databases' \cup {None}
  PROVE  RInv'
  <1>1. MayStep(p) /\ TypeOK /\ p \in Procs
    BY Acting
  <1>2. /\ dir' \in [Paths -> Inodes \cup {None}] /\ dir'[b] = dir[a] /\ dir'[a] = None
        /\ \A q \in Paths \ {a, b} : dir'[q] = dir[q]
    BY <1>1, RenameFacts
  <1>3. proc' \in [Procs -> ProcRecord] /\ Others(p) /\ proc'[p].stage = s
    BY <1>1, GoFacts
  <1>4. TypeOK'
    BY <1>1, <1>2, <1>3 DEF TypeOK
  <1>5. dir'["out"] = dir["out"]
    BY <1>2, Constants
  <1>6. DirOK'
    <2>1. Databases \subseteq Databases'
      BY <1>1, <1>3, DatabasesKept
    <2>2. \A q \in Procs : dir'[q] \in {q, None}
      BY <1>2, Constants, SMT DEF RInv, DirOK
    <2>3. \A q \in RollbackPaths \cup {"dest"} : dir'[q] \in Databases' \cup {None}
      BY <1>2, <2>1, Constants, SMT DEF RInv, DirOK
    <2>4. QED
      BY <1>5, <2>2, <2>3 DEF RInv, DirOK
  <1>7. ~ At(p, "new")'
    BY <1>3 DEF At
  <1>8. QED
    BY <1>1, <1>3, <1>4, <1>5, <1>6, <1>7, RestorerKeeps

LEMMA MoveOldKeeps ==
  ASSUME RInv, NEW p \in Restorers, MoveOld(p)
  PROVE  RInv'
  <1>1. proc[p].stage = "move" /\ UNCHANGED <<file, lock, power>>
    BY DEF MoveOld, At
  <1>2. MayStep(p) /\ RestorerOK(p) /\ TypeOK /\ p \in Procs /\ p \in Paths
    BY <1>1, Acting DEF RestoreStages
  <1>3. CASE Go(p, "cleanup") /\ UNCHANGED dir
    <2>1. Stays(p, "cleanup")
      BY <1>1, <1>3 DEF Stays, RestoreStages
    <2>2. QED
      BY <1>1, <2>1, GiveUpKeeps
  <1>4. CASE Rename("dest", proc[p].rollback) /\ Go(p, "publish")
    <2> DEFINE rb == proc[p].rollback
    <2>1. proc[p].was # None /\ rb \in RollbackPaths /\ dir["dest"] = proc[p].was
      BY <1>1, <1>2, RollbackFacts DEF RestorerOK, Checked
    <2>2. rb \in Paths /\ "dest" \in Paths /\ rb # "dest" /\ rb # p /\ "dest" # p
      BY <1>2, <2>1, Constants
    <2>3. /\ dir'[rb] = dir["dest"] /\ dir'["dest"] = None
          /\ \A q \in Paths \ {"dest", rb} : dir'[q] = dir[q]
      BY <1>2, <1>4, <2>2, RenameFacts
    <2>4. "publish" \in Stages /\ "publish" \notin Ends
      BY StageFacts DEF RestoreStages, Ends
    <2>5. /\ Others(p) /\ proc'[p].stage = "publish" /\ proc'[p].from = proc[p].from
          /\ proc'[p].was = proc[p].was /\ proc'[p].rollback = rb
      BY <1>2, <1>4, <2>4, GoFacts
    <2>6. RestorerOK(p)'
      BY <1>1, <1>2, <2>1, <2>2, <2>3, <2>5, SMT
      DEF RestorerOK, WholeFile, Ends, RestoreStages, Staged, Checked
    <2>7. dir["dest"] \in Databases' \cup {None}
      BY <1>2, <2>5, DatabasesKept DEF RInv, DirOK
    <2>8. QED
      BY <1>1, <1>4, <2>1, <2>2, <2>4, <2>6, <2>7, MoveKeeps DEF RestoreStages
  <1>5. QED
    BY <1>3, <1>4 DEF MoveOld

LEMMA PublishKeeps ==
  ASSUME RInv, NEW p \in Restorers, Publish(p)
  PROVE  RInv'
  <1>1. proc[p].stage = "publish" /\ UNCHANGED <<file, lock, power>>
    BY DEF Publish, At
  <1>2. MayStep(p) /\ RestorerOK(p) /\ TypeOK /\ p \in Procs /\ p \in Paths
    BY <1>1, Acting DEF RestoreStages
  <1>3. CASE Go(p, IF proc[p].was # None THEN "undo" ELSE "cleanup") /\ UNCHANGED dir
    <2>1. CASE proc[p].was # None
      <3>1. Stays(p, "undo")
        BY <1>1, <1>3, <2>1 DEF Stays, RestoreStages
      <3>2. QED
        BY <1>1, <2>1, <3>1, GiveUpKeeps
    <2>2. CASE proc[p].was = None
      <3>1. Stays(p, "cleanup")
        BY <1>1, <1>3, <2>2 DEF Stays, RestoreStages
      <3>2. QED
        BY <1>1, <2>2, <3>1, GiveUpKeeps
    <2>3. QED
      BY <2>1, <2>2
  <1>4. CASE Rename(p, "dest") /\ Go(p, "ok")
    <2>1. "dest" \in Paths /\ "dest" # p /\ dir[p] = p
      BY <1>1, <1>2, Constants DEF RestorerOK, Staged
    <2>2. "ok" \in Stages /\ "ok" \in Ends
      BY StageFacts DEF Ends
    <2>3. /\ Others(p) /\ proc'[p].stage = "ok" /\ proc'[p].was = None
          /\ proc'[p].rollback = None
      BY <1>2, <1>4, <2>2, GoFacts
    <2>4. RestorerOK(p)'
      BY <1>1, <1>2, <2>3 DEF RestorerOK, WholeFile, Ends, RestoreStages, Staged, Checked
    <2>5. dir[p] \in Databases'
      BY <2>1, <2>3 DEF Databases, At
    <2>6. QED
      BY <1>1, <1>2, <1>4, <2>1, <2>2, <2>4, <2>5, MoveKeeps DEF RestoreStages
  <1>5. QED
    BY <1>3, <1>4 DEF Publish

LEMMA UndoKeeps ==
  ASSUME RInv, NEW p \in Restorers, Undo(p)
  PROVE  RInv'
  <1>1. proc[p].stage = "undo" /\ UNCHANGED <<file, lock, power>>
    BY DEF Undo, At
  <1>2. MayStep(p) /\ RestorerOK(p) /\ TypeOK /\ p \in Procs /\ p \in Paths
    BY <1>1, Acting DEF RestoreStages
  <1>3. CASE Go(p, "abandon") /\ UNCHANGED dir
    <2>1. Stays(p, "abandon")
      BY <1>1, <1>3 DEF Stays, RestoreStages
    <2>2. QED
      BY <1>1, <2>1, GiveUpKeeps
  <1>4. CASE Rename(proc[p].rollback, "dest") /\ Go(p, "cleanup")
    <2> DEFINE rb == proc[p].rollback
    <2>1. proc[p].was # None /\ rb \in RollbackPaths /\ dir[rb] = proc[p].was
      BY <1>1, <1>2, RollbackFacts DEF RestorerOK
    <2>2. rb \in Paths /\ "dest" \in Paths /\ rb # "dest" /\ rb # p /\ "dest" # p
      BY <1>2, <2>1, Constants
    <2>3. /\ dir'["dest"] = dir[rb] /\ dir'[rb] = None
          /\ \A q \in Paths \ {"dest", rb} : dir'[q] = dir[q]
      BY <1>2, <1>4, <2>2, RenameFacts, SMT
    <2>4. "cleanup" \in Stages /\ "cleanup" \notin Ends
      BY StageFacts DEF RestoreStages, Ends
    <2>5. /\ Others(p) /\ proc'[p].stage = "cleanup" /\ proc'[p].from = proc[p].from
          /\ proc'[p].was = proc[p].was /\ proc'[p].rollback = rb
      BY <1>2, <1>4, <2>4, GoFacts
    <2>6. RestorerOK(p)'
      BY <1>1, <1>2, <2>1, <2>2, <2>3, <2>5
      DEF RestorerOK, WholeFile, Ends, RestoreStages, Staged, Checked
    <2>7. dir[rb] \in Databases' \cup {None}
      BY <1>2, <2>1, <2>5, DatabasesKept DEF RInv, DirOK
    <2>8. QED
      BY <1>1, <1>4, <2>1, <2>2, <2>4, <2>6, <2>7, MoveKeeps DEF RestoreStages
  <1>5. QED
    BY <1>3, <1>4 DEF Undo

-------------------------------------------------------------------------------
\* A step of a server or backup keeps the invariant if it keeps what is about
\* itself, the directory, the locks and the files, and disturbs no restore.
Harmless(o) ==
  /\ Others(o) /\ power' = power
  /\ \A q \in Restorers \cup RollbackPaths : dir'[q] = dir[q]
  /\ \/ dir'["dest"] = dir["dest"]
     \/ dir["dest"] = None /\ dir'["dest"] \in CreatedInodes
  /\ \A u \in Openers \ {o} : dir'["out"] = u => dir["out"] = u
  /\ \A i \in Restorers \cup (Openers \ {o}) : file'[i] = file[i]
  /\ \A u \in Openers \ {o}, i \in Inodes : lock'[i] = u <=> lock[i] = u
  /\ \A i \in Inodes : lock'[i] = o =>
       \/ lock[i] = o /\ proc'[o].checked = proc[o].checked
       \/ proc'[o].checked = PastCheck

LEMMA DatabasesSame ==
  ASSUME NEW o \in Openers, Others(o)
  PROVE  Databases' = Databases /\ \A p \in Restorers : proc'[p] = proc[p]
  <1>1. \A p \in Restorers : proc'[p] = proc[p]
    BY Constants DEF Others
  <1>2. QED
    BY <1>1 DEF Databases, At

LEMMA OpenerKeeps ==
  ASSUME RInv, NEW o \in Openers, Harmless(o), TypeOK', DirOK', OpenerOK(o)', LockOK', FilesOK'
  PROVE  RInv'
  <1>1. Databases' = Databases /\ \A p \in Restorers : proc'[p] = proc[p]
    BY DatabasesSame DEF Harmless
  <1>2. ASSUME NEW p \in Restorers PROVE RestorerOK(p)'
    <2>1. /\ RestorerOK(p) /\ proc'[p] = proc[p] /\ dir'[p] = dir[p] /\ file'[p] = file[p]
          /\ proc[p].was \in Inodes \cup {None}
      BY <1>1, Constants DEF RInv, Harmless, TypeOK, ProcRecord
    <2>2. proc[p].was # None => dir'[proc[p].rollback] = dir[proc[p].rollback]
      BY <2>1, RollbackFacts DEF RestorerOK, Harmless
    <2>3. /\ dir["dest"] # None => dir'["dest"] = dir["dest"]
          /\ dir["dest"] \in CreatedInodes \cup {None} => dir'["dest"] \in CreatedInodes \cup {None}
      BY Constants DEF Harmless
    <2>4. ASSUME proc[p].was # None, proc[p].stage \in Checked,
                 NEW u \in Openers, lock'[proc[p].was] = u
          PROVE  p \in proc'[u].checked
      <3>1. CASE u = o
        <4>1. lock[proc[p].was] = o => p \in proc[o].checked
          BY <2>1, <2>4 DEF RestorerOK
        <4>2. p \in PastCheck
          BY <2>4 DEF PastCheck, Checked
        <4>3. QED
          BY <2>1, <2>4, <3>1, <4>1, <4>2, SMT DEF Harmless
      <3>2. CASE u # o
        <4>1. lock[proc[p].was] = u /\ proc'[u] = proc[u]
          BY <2>1, <2>4, <3>2, Constants, SMT DEF Harmless, Others
        <4>2. QED
          BY <2>1, <2>4, <4>1 DEF RestorerOK
      <3>3. QED
        BY <3>1, <3>2
    <2>5. QED
      BY <2>1, <2>2, <2>3, <2>4, SMT DEF RestorerOK, WholeFile, Ends, RestoreStages, Staged, Checked
  <1>3. Turns'
    BY <1>1 DEF RInv, Turns, At, Ended
  <1>4. ASSUME NEW u \in Openers PROVE OpenerOK(u)'
    <2>1. CASE u = o
      BY <2>1
    <2>2. CASE u # o
      <3>1. proc'[u] = proc[u] /\ file'[u] = file[u] /\ OpenerOK(u) /\ power' = power
        BY <2>2, Constants DEF Harmless, Others, RInv
      <3>2. proc[u].stage \in LockedStages => lock'[proc[u].from] = u
        <4>1. \A i \in Databases : i \in Inodes
          BY Constants DEF Databases
        <4>2. proc[u].stage \in LockedStages => proc[u].from \in Inodes
          BY <3>1, <4>1 DEF OpenerOK
        <4>3. QED
          BY <2>2, <3>1, <4>2 DEF OpenerOK, Harmless
      <3>3. dir'["out"] = u => dir["out"] = u
        BY <2>2 DEF Harmless
      <3>4. QED
        BY <1>1, <3>1, <3>2, <3>3 DEF OpenerOK
    <2>3. QED
      BY <2>1, <2>2
  <1>5. QED
    BY <1>2, <1>3, <1>4 DEF RInv

\* The directory, when only an opener's own path changes.
LEMMA OpenerFacts ==
  ASSUME RInv, NEW o \in Openers
  PROVE  /\ TypeOK /\ o \in Procs /\ o \in Paths /\ o \in Inodes /\ o \notin Restorers
         /\ o \notin Databases /\ OpenerOK(o) /\ Databases \subseteq Inodes
         /\ \A i \in Inodes : lock[i] = o => proc[o].stage \in LockedStages
         /\ \A i \in Inodes : lock[i] # None => i \in Databases
  <1>1. /\ TypeOK /\ o \in Procs /\ o \in Paths /\ o \in Inodes /\ o \notin Restorers
        /\ o \notin Databases /\ OpenerOK(o) /\ Databases \subseteq Inodes /\ o # None
    BY Constants DEF RInv, Databases
  <1>2. \A i \in Inodes : lock[i] = o => proc[o].stage \in LockedStages
    BY <1>1 DEF RInv, LockOK
  <1>3. \A i \in Inodes : lock[i] # None => i \in Databases
    BY SMT DEF RInv, LockOK, OpenerOK, TypeOK
  <1>4. QED
    BY <1>1, <1>2, <1>3

LEMMA BackupMoves ==
  ASSUME RInv, NEW b \in Backups, proc[b].stage \in BackupStages, NEW s, Go(b, s),
         s \in LockedStages, s # "rename", UNCHANGED <<file, lock, power>>,
         dir' \in [Paths -> Inodes \cup {None}], \A q \in Paths \ {b} : dir'[q] = dir[q],
         dir'[b] \in {b, None}
  PROVE  RInv'
  <1>1. b \in Openers /\ TypeOK /\ b \in Procs /\ OpenerOK(b)
    BY OpenerFacts, Constants
  <1>2. s \in Stages /\ s \notin Ends
    BY StageFacts DEF LockedStages, BackupStages, Ends
  <1>3. /\ proc' \in [Procs -> ProcRecord] /\ Others(b) /\ proc'[b].stage = s
        /\ proc'[b].from = proc[b].from /\ proc'[b].checked = proc[b].checked
    BY <1>1, <1>2, GoFacts
  <1>4. TypeOK'
    BY <1>1, <1>3 DEF TypeOK
  <1>5. /\ dir'["out"] = dir["out"] /\ dir'["dest"] = dir["dest"]
        /\ \A q \in Restorers \cup RollbackPaths : dir'[q] = dir[q]
        /\ \A q \in Procs : dir'[q] \in {q, None}
    BY <1>1, Constants, SMT DEF RInv, DirOK
  <1>6. Databases' = Databases
    BY <1>1, <1>3, DatabasesSame
  <1>7. DirOK'
    BY <1>5, <1>6 DEF RInv, DirOK
  <1>8. dir["out"] # b
    BY <1>1 DEF OpenerOK, BackupStages, Ends
  <1>9. OpenerOK(b)'
    BY <1>1, <1>3, <1>5, <1>6, <1>8 DEF OpenerOK, LockedStages
  <1>10. LockOK'
    <2>1. \A i \in Inodes : lock[i] # None => lock[i] \in Procs
      BY Constants DEF RInv, TypeOK
    <2>2. QED
      BY <1>3, <2>1, SMT DEF RInv, LockOK, Others
  <1>11. FilesOK'
    BY DEF RInv, FilesOK
  <1>12. Harmless(b)
    BY <1>3, <1>5 DEF Harmless
  <1>13. QED
    BY <1>1, <1>4, <1>7, <1>9, <1>10, <1>11, <1>12, OpenerKeeps

LEMMA BackupQuietKeeps ==
  ASSUME RInv, NEW b \in Backups, Lstat(b) \/ CreateTemp(b) \/ Discard(b)
  PROVE  RInv'
  <1>1. TypeOK /\ b \in Paths /\ b \in Inodes /\ dir \in [Paths -> Inodes \cup {None}]
        /\ dir[b] \in {b, None}
    BY Constants DEF RInv, TypeOK, DirOK
  <1>2. CASE Lstat(b)
    <2>1. PICK s \in {"open", "temp"} : Go(b, s)
      BY <1>2 DEF Lstat
    <2>2. QED
      BY <1>1, <1>2, <2>1, BackupMoves DEF Lstat, At, BackupStages, LockedStages
  <1>3. CASE CreateTemp(b)
    <2>1. PICK s \in {"open", "snapshot"} : Go(b, s)
      BY <1>3 DEF CreateTemp
    <2>2. /\ dir' \in [Paths -> Inodes \cup {None}] /\ dir'[b] \in {b, None}
          /\ \A q \in Paths \ {b} : dir'[q] = dir[q]
      BY <1>1, <1>3 DEF CreateTemp
    <2>3. QED
      BY <1>3, <2>1, <2>2, BackupMoves DEF CreateTemp, At, BackupStages, LockedStages
  <1>4. CASE Discard(b)
    <2>1. Go(b, "open")
      BY <1>4 DEF Discard
    <2>2. /\ dir' \in [Paths -> Inodes \cup {None}] /\ dir'[b] \in {b, None}
          /\ \A q \in Paths \ {b} : dir'[q] = dir[q]
      BY <1>1, <1>4 DEF Discard
    <2>3. QED
      BY <1>4, <2>1, <2>2, BackupMoves DEF Discard, At, BackupStages, LockedStages
  <1>5. QED
    BY <1>2, <1>3, <1>4

LEMMA SnapshotKeeps ==
  ASSUME RInv, NEW b \in Backups, Snapshot(b)
  PROVE  RInv'
  <1>1. proc[b].stage = "snapshot" /\ UNCHANGED <<dir, lock, power>>
    BY DEF Snapshot, At
  <1>2. /\ b \in Openers /\ TypeOK /\ b \in Procs /\ b \in Inodes /\ OpenerOK(b)
        /\ b \notin Databases /\ b \notin Restorers /\ Databases \subseteq Inodes
        /\ \A i \in Inodes : lock[i] # None => i \in Databases
    BY OpenerFacts, Constants
  <1>3. proc[b].from \in Databases /\ file[proc[b].from].state = "whole"
        /\ file[proc[b].from] \in Contents
    <2>1. proc[b].from \in Databases /\ lock[proc[b].from] = b
      BY <1>1, <1>2 DEF OpenerOK, LockedStages, BackupStages
    <2>2. QED
      BY <1>2, <2>1, Constants, SMT DEF RInv, LockOK, TypeOK
  <1>4. ASSUME NEW c \in Contents, file' = [file EXCEPT ![b] = c], NEW s, Go(b, s),
               \/ s = "rename" /\ c.state = "whole"
               \/ s = "discard"
        PROVE  RInv'
    <2>1. s \in Stages /\ s \notin Ends /\ s \in LockedStages
      BY <1>4, StageFacts DEF LockedStages, BackupStages, Ends
    <2>2. /\ proc' \in [Procs -> ProcRecord] /\ Others(b) /\ proc'[b].stage = s
          /\ proc'[b].from = proc[b].from /\ proc'[b].checked = proc[b].checked
      BY <1>2, <1>4, <2>1, GoFacts
    <2>3. /\ file' \in [Inodes -> Contents] /\ file'[b] = c
          /\ \A i \in Inodes \ {b} : file'[i] = file[i]
      BY <1>2, <1>4 DEF TypeOK
    <2>4. TypeOK'
      BY <1>1, <1>2, <2>2, <2>3 DEF TypeOK
    <2>5. Databases' = Databases
      BY <1>2, <2>2, DatabasesSame
    <2>6. DirOK'
      BY <1>1, <2>5 DEF RInv, DirOK
    <2>7. dir["out"] # b
      BY <1>1, <1>2 DEF OpenerOK, Ends
    <2>8. OpenerOK(b)'
      BY <1>1, <1>2, <1>4, <2>1, <2>2, <2>3, <2>5, <2>7
      DEF OpenerOK, LockedStages, BackupStages
    <2>9. LockOK'
      <3>1. \A i \in Inodes : lock[i] # None => lock[i] \in Procs /\ i # b
        BY <1>2, Constants DEF RInv, TypeOK
      <3>2. QED
        BY <1>1, <2>1, <2>2, <2>3, <3>1, SMT DEF RInv, LockOK, Others
    <2>10. FilesOK'
      BY <1>2, <2>3, Constants, SMT DEF RInv, FilesOK
    <2>11. Harmless(b)
      BY <1>1, <1>2, <2>2, <2>3, Constants DEF Harmless
    <2>12. QED
      BY <1>2, <2>4, <2>6, <2>8, <2>9, <2>10, <2>11, OpenerKeeps
  <1>5. CASE /\ file' = [file EXCEPT ![b] = [file[proc[b].from] EXCEPT !.synced = FALSE]]
             /\ Go(b, "rename")
    <2> DEFINE c == [file[proc[b].from] EXCEPT !.synced = FALSE]
    <2>1. c \in Contents /\ c.state = "whole"
      BY <1>3 DEF Contents
    <2>2. QED
      BY <1>4, <1>5, <2>1
  <1>6. CASE file' = [file EXCEPT ![b] = File("torn", 0, FALSE)] /\ Go(b, "discard")
    <2>1. File("torn", 0, FALSE) \in Contents
      BY DEF File, Contents
    <2>2. QED
      BY <1>4, <1>6, <2>1
  <1>7. QED
    BY <1>5, <1>6 DEF Snapshot

LEMMA RenameBackupKeeps ==
  ASSUME RInv, NEW b \in Backups, RenameBackup(b)
  PROVE  RInv'
  <1>1. proc[b].stage = "rename" /\ UNCHANGED <<file, lock, power>>
    BY DEF RenameBackup, At
  <1>2. /\ b \in Openers /\ TypeOK /\ b \in Procs /\ b \in Paths /\ OpenerOK(b)
        /\ b # "out" /\ "out" \in Paths /\ b \notin Restorers
    BY OpenerFacts, Constants
  <1>3. CASE Go(b, "discard") /\ UNCHANGED dir
    <2>1. dir \in [Paths -> Inodes \cup {None}] /\ dir[b] \in {b, None}
      BY <1>2 DEF RInv, DirOK, TypeOK
    <2>2. QED
      BY <1>1, <1>3, <2>1, BackupMoves DEF BackupStages, LockedStages
  <1>4. CASE Rename(b, "out") /\ Go(b, "open")
    <2>1. /\ dir' \in [Paths -> Inodes \cup {None}] /\ dir'["out"] = dir[b] /\ dir'[b] = None
          /\ \A q \in Paths \ {b, "out"} : dir'[q] = dir[q]
      BY <1>2, <1>4, RenameFacts
    <2>2. "open" \in Stages /\ "open" \notin Ends /\ "open" \in LockedStages
      BY StageFacts DEF LockedStages, Ends
    <2>3. /\ proc' \in [Procs -> ProcRecord] /\ Others(b) /\ proc'[b].stage = "open"
          /\ proc'[b].from = proc[b].from /\ proc'[b].checked = proc[b].checked
      BY <1>2, <1>4, <2>2, GoFacts
    <2>4. TypeOK'
      BY <1>1, <1>2, <2>1, <2>3 DEF TypeOK
    <2>5. /\ dir'["dest"] = dir["dest"] /\ dir'["out"] \in {b, None}
          /\ \A q \in Restorers \cup RollbackPaths : dir'[q] = dir[q]
          /\ \A q \in Procs : dir'[q] \in {q, None}
      BY <1>2, <2>1, Constants, SMT DEF RInv, DirOK
    <2>6. Databases' = Databases
      BY <1>2, <2>3, DatabasesSame
    <2>7. DirOK'
      BY <2>5, <2>6 DEF RInv, DirOK
    <2>8. OpenerOK(b)'
      BY <1>1, <1>2, <2>2, <2>3, <2>6 DEF OpenerOK, LockedStages, BackupStages
    <2>9. LockOK'
      <3>1. \A i \in Inodes : lock[i] # None => lock[i] \in Procs
        BY Constants DEF RInv, TypeOK
      <3>2. QED
        BY <1>1, <2>2, <2>3, <3>1, SMT DEF RInv, LockOK, Others
    <2>10. FilesOK'
      BY <1>1 DEF RInv, FilesOK
    <2>11. Harmless(b)
      BY <1>1, <2>3, <2>5, Constants, SMT DEF Harmless
    <2>12. QED
      BY <1>2, <2>4, <2>7, <2>8, <2>9, <2>10, <2>11, OpenerKeeps
  <1>5. QED
    BY <1>3, <1>4 DEF RenameBackup

LEMMA OpenFileKeeps ==
  ASSUME RInv, NEW o \in Openers, OpenFile(o)
  PROVE  RInv'
  <1>1. /\ proc[o].stage = "new" /\ UNCHANGED <<file, lock, power>>
        /\ dir' = IF dir["dest"] = None THEN [dir EXCEPT !["dest"] = Created[o]] ELSE dir
        /\ proc' = [proc EXCEPT ![o].stage = "lock", ![o].from = dir'["dest"]]
    BY DEF OpenFile, At
  <1>2. /\ TypeOK /\ o \in Procs /\ o \notin Restorers /\ OpenerOK(o)
        /\ Created[o] \in CreatedInodes /\ Created[o] \in Inodes /\ "dest" \in Paths
        /\ \A i \in Inodes : lock[i] # o
    BY <1>1, OpenerFacts, Constants, SMT DEF CreatedInodes, LockedStages, BackupStages
  <1>3. /\ dir' \in [Paths -> Inodes \cup {None}] /\ (\A q \in Paths \ {"dest"} : dir'[q] = dir[q])
        /\ \/ dir["dest"] # None /\ dir'["dest"] = dir["dest"]
           \/ dir["dest"] = None /\ dir'["dest"] = Created[o]
    BY <1>1, <1>2 DEF TypeOK
  <1>4. dir'["dest"] \in Databases /\ dir'["dest"] \in Inodes
    BY <1>2, <1>3, Constants DEF RInv, DirOK, Databases
  <1> DEFINE f == dir'["dest"]
             r == [proc[o] EXCEPT !.stage = "lock", !.from = f]
  <1>5. proc \in [Procs -> ProcRecord] /\ proc[o] \in ProcRecord
    BY <1>2 DEF TypeOK
  <1>6. r \in ProcRecord /\ r.stage = "lock" /\ r.from = dir'["dest"]
    BY <1>4, <1>5, StageFacts DEF ProcRecord
  <1>7. proc' = [proc EXCEPT ![o] = r]
    <2>1. proc' = [proc EXCEPT ![o].stage = "lock", ![o].from = f]
      BY DEF OpenFile
    <2> HIDE DEF f
    <2>2. QED
      BY <1>5, <2>1
  <1> HIDE DEF r
  <1>8. proc' \in [Procs -> ProcRecord] /\ proc'[o] = r /\ Others(o)
    BY <1>2, <1>5, <1>6, <1>7 DEF Others
  <1>9. TypeOK'
    BY <1>1, <1>2, <1>3, <1>8 DEF TypeOK
  <1>10. Databases' = Databases
    BY <1>8, DatabasesSame
  <1>11. /\ dir'["out"] = dir["out"] /\ (\A q \in Restorers \cup RollbackPaths : dir'[q] = dir[q])
         /\ \A q \in Procs : dir'[q] = dir[q]
    BY <1>3, Constants
  <1>12. DirOK'
    BY <1>4, <1>10, <1>11 DEF RInv, DirOK
  <1>13. OpenerOK(o)'
    <2>1. o \in Backups => dir["out"] # o
      BY <1>1, <1>2 DEF OpenerOK, Ends
    <2>2. QED
      BY <1>4, <1>6, <1>8, <1>10, <1>11, <2>1 DEF OpenerOK, LockedStages, BackupStages
  <1>14. LockOK'
    <2>1. \A i \in Inodes : lock[i] # None => lock[i] \in Procs \ {o}
      BY <1>2, Constants DEF RInv, TypeOK
    <2>2. QED
      BY <1>1, <1>8, <2>1 DEF RInv, LockOK, Others
  <1>15. FilesOK'
    BY <1>1 DEF RInv, FilesOK
  <1>16. Harmless(o)
    BY <1>1, <1>2, <1>3, <1>8, <1>11, Constants DEF Harmless
  <1>17. QED
    BY <1>9, <1>12, <1>13, <1>14, <1>15, <1>16, OpenerKeeps

\* A process lets go of its locks and ends.
LEMMA OpenerEnds ==
  ASSUME RInv, NEW o \in Openers, NEW s \in Ends, proc[o].stage # "new", Go(o, s),
         UNCHANGED <<dir, file, power>>,
         lock' = Unlocked(o) \/ (lock' = lock /\ proc[o].stage \notin LockedStages)
  PROVE  RInv'
  <1>1. /\ TypeOK /\ o \in Procs /\ OpenerOK(o) /\ o # None
        /\ \A i \in Inodes : lock[i] = o => proc[o].stage \in LockedStages
    BY OpenerFacts, Constants
  <1>2. /\ lock' \in [Inodes -> Openers \cup {None}]
        /\ \A i \in Inodes : lock'[i] # o /\ (lock'[i] = lock[i] \/ lock'[i] = None)
        /\ \A i \in Inodes : lock[i] # o => lock'[i] = lock[i]
    BY <1>1 DEF Unlocked, TypeOK
  <1>3. /\ proc' \in [Procs -> ProcRecord] /\ Others(o) /\ proc'[o].stage = s
    BY <1>1, GoFacts, StageFacts
  <1>4. TypeOK'
    BY <1>1, <1>2, <1>3 DEF TypeOK
  <1>5. Databases' = Databases
    BY <1>3, DatabasesSame
  <1>6. DirOK' /\ FilesOK'
    BY <1>5 DEF RInv, DirOK, FilesOK
  <1>7. OpenerOK(o)'
    BY <1>1, <1>3 DEF OpenerOK, LockedStages, BackupStages, Ends
  <1>8. LockOK'
    <2>1. \A i \in Inodes : lock'[i] # None => lock'[i] = lock[i] /\ lock[i] \in Procs \ {o}
      BY <1>2, Constants
    <2>2. QED
      BY <1>3, <2>1, SMT DEF RInv, LockOK, Others
  <1>9. Harmless(o)
    <2>1. \A u \in Openers \ {o}, i \in Inodes : lock'[i] = u <=> lock[i] = u
      BY <1>2, Constants, SMT
    <2>2. QED
      BY <1>2, <1>3, <2>1 DEF Harmless
  <1>10. QED
    BY <1>4, <1>6, <1>7, <1>8, <1>9, OpenerKeeps

LEMMA CloseStoreKeeps ==
  ASSUME RInv, NEW o \in Openers, CloseStore(o)
  PROVE  RInv'
  BY OpenerEnds DEF CloseStore, At, Ends

LEMMA LockKeeps ==
  ASSUME RInv, NEW o \in Openers, Lock(o)
  PROVE  RInv'
  <1> DEFINE i == proc[o].from
  <1>1. proc[o].stage = "lock" /\ UNCHANGED <<dir, power>>
    BY DEF Lock, At
  <1>2. /\ TypeOK /\ o \in Procs /\ o \notin Restorers /\ OpenerOK(o) /\ i \in Databases
        /\ i \in Inodes /\ o # None /\ "lock" \notin LockedStages
        /\ \A j \in Inodes : lock[j] # o
    BY <1>1, OpenerFacts, Constants, SMT DEF OpenerOK, LockedStages, BackupStages
  <1>3. CASE Go(o, "failed") /\ UNCHANGED <<lock, file>>
    <2>1. "failed" \in Ends
      BY DEF Ends
    <2>2. QED
      BY <1>1, <1>2, <1>3, <2>1, OpenerEnds
  <1>4. CASE /\ lock[i] = None /\ file[i].state # "torn" /\ lock' = [lock EXCEPT ![i] = o]
             /\ file' = IF file[i].state = "empty" THEN [file EXCEPT ![i] = File("whole", 1, TRUE)]
                        ELSE file
             /\ proc' = [proc EXCEPT ![o].stage = IF o \in Servers THEN "open" ELSE "lstat",
                                     ![o].checked = PastCheck]
    <2> DEFINE s == IF o \in Servers THEN "open" ELSE "lstat"
               P == PastCheck
               r == [proc[o] EXCEPT !.stage = s, !.checked = P]
    <2>1. s \in LockedStages /\ s \in Stages /\ s # "rename" /\ P \subseteq Restorers
      BY StageFacts DEF LockedStages, BackupStages, PastCheck
    <2>2. proc \in [Procs -> ProcRecord] /\ proc[o] \in ProcRecord
      BY <1>2 DEF TypeOK
    <2>3. proc' = [proc EXCEPT ![o].stage = s, ![o].checked = P]
      BY <1>4
    <2> HIDE DEF s, P
    <2>4. r \in ProcRecord /\ r.stage = s /\ r.from = i /\ r.checked = P
      BY <2>1, <2>2 DEF ProcRecord
    <2>5. proc' = [proc EXCEPT ![o] = r]
      BY <2>2, <2>3
    <2> HIDE DEF r
    <2>6. proc' \in [Procs -> ProcRecord] /\ proc'[o] = r /\ Others(o)
      BY <1>2, <2>2, <2>4, <2>5 DEF Others
    <2>7. /\ lock' \in [Inodes -> Openers \cup {None}] /\ lock'[i] = o
          /\ \A j \in Inodes \ {i} : lock'[j] = lock[j]
      BY <1>2, <1>4 DEF TypeOK
    <2>8. /\ file' \in [Inodes -> Contents] /\ file'[i].state = "whole"
          /\ \A j \in Inodes \ {i} : file'[j] = file[j]
          /\ file'[i] = file[i] \/ (file[i].state = "empty" /\ file'[i].synced)
      <3>1. file \in [Inodes -> Contents] /\ file[i].state \in {"empty", "whole", "torn"}
        BY <1>2 DEF TypeOK, Contents
      <3> DEFINE c == File("whole", 1, TRUE)
      <3>2. c \in Contents /\ c.state = "whole" /\ c.synced
        BY DEF File, Contents
      <3> HIDE DEF c
      <3>3. CASE file[i].state = "empty"
        <4>1. file' = [file EXCEPT ![i] = c]
          BY <1>4, <3>3 DEF c
        <4>2. QED
          BY <1>2, <3>1, <3>2, <3>3, <4>1
      <3>4. CASE file[i].state # "empty"
        BY <1>4, <3>1, <3>4
      <3>5. QED
        BY <3>3, <3>4
    <2>9. TypeOK'
      BY <1>1, <1>2, <2>6, <2>7, <2>8 DEF TypeOK
    <2>10. Databases' = Databases
      BY <2>6, DatabasesSame
    <2>11. DirOK'
      BY <1>1, <2>10 DEF RInv, DirOK
    <2>12. \A j \in Restorers \cup Openers \cup {"old"} : file'[j] = file[j]
      <3>1. file[i].state = "empty" => i \in CreatedInodes
        BY <1>2 DEF RInv, FilesOK, Databases, RestorerOK, WholeFile, At
      <3>2. QED
        BY <2>8, <3>1, Constants, SMT
    <2>13. FilesOK'
      BY <2>8, <2>12, Constants DEF RInv, FilesOK
    <2>14. OpenerOK(o)'
      <3>1. o \in Backups => dir["out"] # o
        BY <1>1, <1>2 DEF OpenerOK, Ends
      <3>2. QED
        BY <1>1, <1>2, <2>1, <2>4, <2>6, <2>7, <2>10, <3>1 DEF OpenerOK
    <2>15. LockOK'
      <3>1. \A j \in Inodes \ {i} : lock[j] # None => lock[j] \in Procs \ {o}
        BY <1>2, Constants DEF RInv, TypeOK
      <3>2. \A j \in Inodes \ {i} : lock'[j] # None =>
              /\ proc'[lock'[j]].stage \in LockedStages /\ proc'[lock'[j]].from = j
              /\ file'[j].state = "whole"
        BY <2>6, <2>7, <2>8, <3>1, SMT DEF RInv, LockOK, Others
      <3>3. QED
        BY <2>1, <2>4, <2>6, <2>7, <2>8, <3>2, SMT DEF LockOK
    <2>16. Harmless(o)
      <3>1. \A u \in Openers \ {o}, j \in Inodes : lock'[j] = u <=> lock[j] = u
        BY <1>2, <1>4, <2>7, Constants, SMT
      <3>2. proc'[o].checked = PastCheck
        BY <2>4, <2>6 DEF P
      <3>3. QED
        BY <1>1, <2>6, <2>12, <3>1, <3>2 DEF Harmless
    <2>17. QED
      BY <2>9, <2>11, <2>13, <2>14, <2>15, <2>16, OpenerKeeps
  <1>5. QED
    BY <1>3, <1>4 DEF Lock

LEMMA KillKeeps ==
  ASSUME RInv, NEW p \in Procs, Kill(p)
  PROVE  RInv'
  <1>1. Running(p) /\ Go(p, "dead") /\ lock' = Unlocked(p) /\ UNCHANGED <<dir, file, power>>
        /\ "dead" \in Ends /\ TypeOK
    BY DEF Kill, Ends, RInv
  <1>2. CASE p \in Openers
    BY <1>1, <1>2, OpenerEnds DEF Running, At
  <1>3. CASE p \in Restorers
    <2>1. lock' = lock
      BY <1>1, <1>3, Constants, SMT DEF TypeOK, Unlocked
    <2>2. /\ proc' \in [Procs -> ProcRecord] /\ Others(p) /\ proc'[p].stage = "dead"
          /\ proc'[p].was = None /\ proc'[p].rollback = None
      BY <1>1, StageFacts, GoFacts
    <2>3. RestorerOK(p)'
      BY <2>2 DEF RestorerOK, Ends, RestoreStages, Staged, Checked
    <2>4. MayStep(p) /\ ~ At(p, "new")'
      BY <1>1, <2>2 DEF MayStep, At
    <2>5. QED
      BY <1>1, <1>3, <2>1, <2>2, <2>3, <2>4, QuietKeeps
  <1>4. QED
    BY <1>2, <1>3, Constants

LEMMA PowerFailsKeeps ==
  ASSUME RInv, PowerFails
  PROVE  RInv'
  <1> DEFINE r == [New EXCEPT !.stage = "dead"]
  <1>1. /\ power' = FALSE /\ UNCHANGED dir /\ lock' = [i \in Inodes |-> None]
        /\ proc' = [p \in Procs |-> IF Running(p) THEN r ELSE proc[p]]
    BY DEF PowerFails
  <1>2. /\ r \in ProcRecord /\ r.stage = "dead" /\ r.was = None /\ r.rollback = None
        /\ "dead" \in Ends
    BY StageFacts DEF New, ProcRecord, Ends
  <1>3. TypeOK /\ proc \in [Procs -> ProcRecord]
    BY DEF RInv, TypeOK
  <1> HIDE DEF r
  <1>4. /\ proc' \in [Procs -> ProcRecord]
        /\ \A p \in Procs : \/ proc'[p] = r /\ Running(p)
                            \/ proc'[p] = proc[p] /\ proc[p].stage \in Ends \cup {"new"}
    BY <1>1, <1>2, <1>3 DEF Running, At, Ended
  <1>5. /\ file' \in [Inodes -> Contents]
        /\ \A i \in Inodes : file[i].synced => file'[i] = file[i]
    <2>1. file \in [Inodes -> Contents]
      BY <1>3 DEF TypeOK
    <2>2. \A i \in Inodes : File("torn", file[i].size, TRUE) \in Contents
      BY <2>1 DEF File, Contents
    <2>3. file' = [i \in Inodes |-> IF file[i].synced THEN file[i]
                                    ELSE File("torn", file[i].size, TRUE)]
      BY DEF PowerFails
    <2>4. QED
      BY <2>1, <2>2, <2>3
  <1>6. TypeOK'
    BY <1>1, <1>3, <1>4, <1>5 DEF TypeOK
  <1>7. Databases' = Databases
    <2>1. \A p \in Restorers : At(p, "ok")' <=> At(p, "ok")
      BY <1>2, <1>4, Constants DEF At, Running, Ended, Ends
    <2>2. QED
      BY <2>1 DEF Databases
  <1>8. DirOK'
    BY <1>1, <1>7 DEF RInv, DirOK
  <1>9. ASSUME NEW p \in Restorers PROVE RestorerOK(p)'
    <2>1. CASE proc'[p] = r
      BY <1>2, <2>1 DEF RestorerOK, Ends, RestoreStages, Staged, Checked
    <2>2. CASE proc'[p] = proc[p] /\ Asleep(p)
      <3>1. WholeFile(p) => WholeFile(p)'
        BY <1>5, Constants DEF WholeFile
      <3>2. QED
        BY <2>2, <3>1, AsleepKept DEF RInv
    <2>3. QED
      BY <1>4, <2>1, <2>2, Constants DEF Asleep
  <1>10. Turns'
    <2>1. \A p \in Restorers : /\ Ended(p) => Ended(p)'
                               /\ ~ At(p, "new")' => ~ At(p, "new")
      BY <1>2, <1>4, Constants DEF At, Running, Ended
    <2>2. QED
      BY <2>1 DEF RInv, Turns
  <1>11. ASSUME NEW o \in Openers PROVE OpenerOK(o)'
    <2>1. proc'[o].stage \in Ends \cup {"new"} /\ (proc[o].stage \in Ends => proc'[o] = proc[o])
      BY <1>2, <1>4, Constants DEF Running, Ended
    <2>2. o \in Backups /\ dir["out"] = o => proc[o].stage \in Ends \cup {"open"}
      BY DEF RInv, OpenerOK
    <2>3. o \in Backups /\ dir["out"] = o => proc'[o].stage \in Ends
      BY <1>2, <1>4, <2>2, Constants DEF Ends
    <2>4. QED
      BY <1>1, <2>1, <2>3 DEF OpenerOK, LockedStages, BackupStages, Ends
  <1>12. LockOK'
    BY <1>1 DEF LockOK
  <1>13. FilesOK'
    BY <1>5, Constants DEF RInv, FilesOK
  <1>14. QED
    BY <1>6, <1>8, <1>9, <1>10, <1>11, <1>12, <1>13 DEF RInv

-------------------------------------------------------------------------------
LEMMA RInvInductive ==
  RInv /\ [Next]_vars => RInv'
  <1> SUFFICES ASSUME RInv, [Next]_vars PROVE RInv'
    OBVIOUS
  <1>1. CASE UNCHANGED vars
    <2> USE <1>1 DEF vars
    <2>1. Databases' = Databases
      BY DEF Databases, At
    <2>2. TypeOK' /\ Turns' /\ LockOK' /\ FilesOK'
      BY DEF RInv, TypeOK, Turns, LockOK, FilesOK, At, Ended
    <2>3. DirOK'
      BY <2>1 DEF RInv, DirOK
    <2>4. \A p \in Restorers : RestorerOK(p)'
      BY SMT DEF RInv, RestorerOK, WholeFile
    <2>5. \A o \in Openers : OpenerOK(o)'
      BY <2>1 DEF RInv, OpenerOK
    <2>6. QED
      BY <2>2, <2>3, <2>4, <2>5 DEF RInv
  <1>2. ASSUME NEW p \in Restorers, RestoreFile(p) \/ RestoreStep(p)
        PROVE  RInv'
    BY <1>2, RestoreFileKeeps, InspectKeeps, validateRollbackPathKeeps,
       verifyDestinationIsOfflineKeeps, StageKeeps, SyncKeeps, verifySnapshotKeeps, MoveOldKeeps,
       PublishKeeps, UndoKeeps, CleanupKeeps
    DEF RestoreStep
  <1>3. ASSUME NEW o \in Openers, OpenFile(o) \/ Lock(o) \/ CloseStore(o)
        PROVE  RInv'
    BY <1>3, OpenFileKeeps, LockKeeps, CloseStoreKeeps
  <1>4. ASSUME NEW b \in Backups, OpenFile(b) \/ BackupStep(b)
        PROVE  RInv'
    BY <1>3, <1>4, BackupQuietKeeps, SnapshotKeeps, RenameBackupKeeps, Constants DEF BackupStep
  <1>5. QED
    BY <1>1, <1>2, <1>3, <1>4, KillKeeps, PowerFailsKeeps, Constants DEF Next

LEMMA RInvInit ==
  Init => RInv
  <1> SUFFICES ASSUME Init PROVE RInv
    OBVIOUS
  <1>1. PICK d \in {None, "old"}, s \in Snapshots \cup {None} :
          /\ file = [i \in Inodes |-> CASE i = "old" -> File("whole", 1, TRUE)
                                        [] i = "snap" /\ s # None -> s
                                        [] OTHER -> File("empty", 0, TRUE)]
          /\ dir = [q \in Paths |-> CASE q = "dest" -> d
                                      [] q = "out" /\ s # None -> "snap"
                                      [] OTHER -> None]
    BY DEF Init
  <1>2. lock = [i \in Inodes |-> None] /\ proc = [p \in Procs |-> New] /\ power = TRUE
    BY DEF Init
  <1>3. /\ New \in ProcRecord /\ New.stage = "new" /\ New.was = None /\ New.rollback = None
    BY StageFacts DEF New, ProcRecord
  <1> DEFINE w == File("whole", 1, TRUE)
             e == File("empty", 0, TRUE)
  <1>4. /\ w \in Contents /\ w.state = "whole" /\ w.synced
        /\ e \in Contents /\ e.state = "empty" /\ e.synced
    BY DEF File, Contents
  <1>5. s # None => s \in Contents
    BY RestoreAssumption
  <1>6. /\ file = [i \in Inodes |-> CASE i = "old" -> w
                                      [] i = "snap" /\ s # None -> s
                                      [] OTHER -> e]
    BY <1>1
  <1> HIDE DEF w, e
  <1>7. file \in [Inodes -> Contents] /\ file["old"] = w /\ \A i \in CreatedInodes : file[i] = e
    <2>1. ASSUME NEW i \in Inodes PROVE file[i] \in Contents
      <3>1. CASE i = "old"
        BY <1>4, <1>6, <3>1
      <3>2. CASE i = "snap" /\ s # None
        BY <1>5, <1>6, <3>2
      <3>3. CASE i # "old" /\ ~ (i = "snap" /\ s # None)
        BY <1>4, <1>6, <3>3
      <3>4. QED
        BY <3>1, <3>2, <3>3
    <2>2. QED
      BY <1>6, <2>1, Constants
  <1>8. /\ dir \in [Paths -> Inodes \cup {None}] /\ dir["dest"] \in {"old", None}
        /\ dir["out"] \in {"snap", None} /\ (\A q \in Procs \cup RollbackPaths : dir[q] = None)
    <2>1. ASSUME NEW q \in Paths
          PROVE  dir[q] \in IF q = "dest" THEN {"old", None}
                            ELSE IF q = "out" THEN {"snap", None} ELSE {None}
      <3>1. CASE q = "dest"
        BY <1>1, <3>1
      <3>2. CASE q = "out"
        BY <1>1, <3>2
      <3>3. CASE q # "dest" /\ q # "out"
        BY <1>1, <3>3
      <3>4. QED
        BY <3>1, <3>2, <3>3
    <2>2. DOMAIN dir = Paths /\ dir = [q \in Paths |-> dir[q]]
      BY <1>1
    <2>3. QED
      BY <2>1, <2>2, Constants, SMT
  <1>9. TypeOK
    BY <1>2, <1>3, <1>7, <1>8 DEF TypeOK
  <1>10. DirOK
    BY <1>8 DEF DirOK, Databases
  <1>11. \A p \in Restorers : RestorerOK(p)
    BY <1>2, <1>3, Constants DEF RestorerOK, Ends, RestoreStages, Staged, Checked
  <1>12. \A o \in Openers : OpenerOK(o)
    BY <1>2, <1>3, <1>8, Constants, SMT DEF OpenerOK, LockedStages, BackupStages, Ends
  <1>13. Turns /\ LockOK
    BY <1>2, <1>3, Constants DEF Turns, LockOK, At
  <1>14. FilesOK
    BY <1>4, <1>7 DEF FilesOK
  <1>15. QED
    BY <1>9, <1>10, <1>11, <1>12, <1>13, <1>14 DEF RInv

\* The directory, the files, the locks and the processes fit each other at
\* every step, through kills and a power failure (restore.go, storage.Open,
\* cmdBackup).
THEOREM RestoreSafe == Spec => []RInv
  <1>1. QED
    BY RInvInit, RInvInductive, PTL DEF Spec

\* A file that a restore put at the destination, or that was put aside from
\* there, is a whole database within --max-bytes, also after a power failure
\* (restore.go: copySnapshot, Sync and verifySnapshot before the rename).
THEOREM PublishedIsWhole == Spec => []PublishedWhole
  <1>1. RInv => PublishedWhole
    <2> SUFFICES ASSUME RInv, NEW p \in Restorers, NEW q \in Paths \ {p}, dir[q] = p
                 PROVE  file[p].state = "whole" /\ file[p].size <= MaxBytes
      BY DEF PublishedWhole
    <2>1. p \notin Backups /\ p # "snap" /\ p # None /\ p \notin CreatedInodes /\ p # "old"
      BY Constants
    <2>2. q \in RollbackPaths \cup {"dest"}
      BY <2>1 DEF RInv, DirOK, Paths
    <2>3. At(p, "ok")
      BY <2>1, <2>2 DEF RInv, DirOK, Databases
    <2>4. QED
      BY <2>3 DEF RInv, RestorerOK, WholeFile, At
  <1>2. QED
    BY <1>1, RestoreSafe, PTL

\* What has the name of a backup is a whole database, as long as the power did
\* not fail (cmdBackup).
THEOREM BackupIsWhole == Spec => []BackupWhole
  <1>1. RInv => BackupWhole
    BY Constants DEF RInv, OpenerOK, BackupWhole
  <1>2. QED
    BY <1>1, RestoreSafe, PTL

\* A restore moves no file that a process has had open since before it made
\* sure that there was none (verifyDestinationIsOffline).
THEOREM OfflineChecked == Spec => LockRespected
  <1>1. ASSUME RInv, NEW p \in Restorers, At(p, "move"), lock[dir["dest"]] # None
        PROVE  p \in proc[lock[dir["dest"]]].checked
    <2>1. RestorerOK(p) /\ proc[p].stage = "move" /\ proc[p].was \in Inodes \cup {None}
      BY <1>1, Constants DEF RInv, At, TypeOK, ProcRecord
    <2>2. proc[p].was # None /\ dir["dest"] = proc[p].was
      BY <2>1 DEF RestorerOK, Checked
    <2>3. lock[proc[p].was] \in Openers
      BY <1>1, <2>1, <2>2 DEF RInv, TypeOK
    <2>4. QED
      BY <2>1, <2>2, <2>3 DEF RestorerOK, Checked
  <1>2. RInv => [\A p \in Restorers :
                   At(p, "move") /\ At(p, "publish")' /\ lock[dir["dest"]] # None =>
                     p \in proc[lock[dir["dest"]]].checked]_vars
    BY <1>1
  <1>3. QED
    BY <1>2, RestoreSafe, PTL DEF LockRespected

-------------------------------------------------------------------------------
\* A name of the first database stays, or moves.
LEMMA NamedKept ==
  ASSUME TypeOK, Named("old"), NEW q \in Paths, NEW x, dir' = [dir EXCEPT ![q] = x], dir[q] # "old"
  PROVE  Named("old")'
  BY DEF TypeOK, Named

LEMMA NamedMoves ==
  ASSUME TypeOK, Named("old"), NEW a \in Paths, NEW b \in Paths, a # b, Rename(a, b),
         dir[b] # "old"
  PROVE  Named("old")'
  <1>1. PICK q \in Paths : dir[q] = "old"
    BY DEF Named
  <1>2. CASE q = a
    BY <1>1, <1>2, RenameFacts DEF Named
  <1>3. CASE q # a
    BY <1>1, <1>3, RenameFacts, SMT DEF Named
  <1>4. QED
    BY <1>2, <1>3

\* Through restores that fail, are killed at any point or lose power, and
\* through repeated ones, the first database keeps a name (restore.go).
THEOREM OriginalStays == Spec => OriginalKept
  <1>1. ASSUME RInv, [Next]_vars, Named("old") PROVE Named("old")'
    <2>1. CASE UNCHANGED dir
      BY <1>1, <2>1 DEF Named
    <2>2. TypeOK /\ DirOK
      BY <1>1 DEF RInv
    <2>3. ASSUME NEW p \in Restorers, RestoreFile(p) \/ RestoreStep(p)
          PROVE  Named("old")'
      <3>1. p \in Paths /\ dir[p] # "old" /\ p # "dest" /\ "dest" \in Paths
        BY <2>2, Constants DEF DirOK
      <3>2. CASE RestoreFile(p) \/ Inspect(p) \/ validateRollbackPath(p) \/ Sync(p)
                 \/ verifyDestinationIsOffline(p) \/ verifySnapshot(p)
        BY <2>1, <3>2 DEF RestoreFile, Inspect, validateRollbackPath, Sync,
                          verifyDestinationIsOffline, verifySnapshot
      <3>3. CASE Stage(p) \/ Cleanup(p)
        BY <1>1, <2>1, <2>2, <3>1, <3>3, NamedKept DEF Stage, Cleanup
      <3>4. RestorerOK(p)
        BY <1>1 DEF RInv
      <3>5. CASE MoveOld(p)
        <4>1. proc[p].was # None /\ dir[proc[p].rollback] = None
          BY <3>4, <3>5 DEF MoveOld, At, RestorerOK, Checked
        <4>2. proc[p].rollback \in Paths /\ proc[p].rollback # "dest"
          BY <3>4, <4>1, RollbackFacts, Constants DEF RestorerOK
        <4>3. dir[proc[p].rollback] # "old"
          BY <4>1, Constants
        <4>4. QED
          BY <1>1, <2>1, <2>2, <3>1, <3>5, <4>2, <4>3, NamedMoves DEF MoveOld
      <3>6. CASE Publish(p) \/ Undo(p)
        <4>1. dir["dest"] # "old"
          BY <3>4, <3>6, Constants DEF Publish, Undo, At, RestorerOK
        <4>2. CASE Publish(p)
          BY <1>1, <2>1, <2>2, <3>1, <4>1, <4>2, NamedMoves DEF Publish
        <4>3. CASE Undo(p)
          <5>1. proc[p].rollback \in Paths /\ proc[p].rollback # "dest"
            BY <3>4, <4>3, RollbackFacts, Constants DEF Undo, At, RestorerOK
          <5>2. QED
            BY <1>1, <2>1, <2>2, <3>1, <4>1, <4>3, <5>1, NamedMoves DEF Undo
        <4>4. QED
          BY <3>6, <4>2, <4>3
      <3>7. QED
        BY <2>3, <3>2, <3>3, <3>5, <3>6 DEF RestoreStep
    <2>4. ASSUME NEW o \in Openers, OpenFile(o) \/ Lock(o) \/ CloseStore(o)
          PROVE  Named("old")'
      <3>1. CASE UNCHANGED dir
        BY <2>1, <3>1
      <3>2. CASE dir["dest"] = None /\ dir' = [dir EXCEPT !["dest"] = Created[o]]
        <4>1. dir["dest"] # "old" /\ "dest" \in Paths
          BY <3>2, Constants
        <4>2. QED
          BY <1>1, <2>2, <3>2, <4>1, NamedKept
      <3>3. QED
        BY <2>4, <3>1, <3>2 DEF OpenFile, Lock, CloseStore
    <2>5. ASSUME NEW b \in Backups, BackupStep(b)
          PROVE  Named("old")'
      <3>1. b \in Paths /\ dir[b] # "old" /\ b # "out" /\ "out" \in Paths /\ dir["out"] # "old"
        BY <2>2, Constants DEF DirOK
      <3>2. CASE Lstat(b) \/ Snapshot(b) \/ Lock(b) \/ CloseStore(b)
        BY <2>1, <3>2 DEF Lstat, Snapshot, Lock, CloseStore
      <3>3. CASE CreateTemp(b) \/ Discard(b)
        BY <1>1, <2>1, <2>2, <3>1, <3>3, NamedKept DEF CreateTemp, Discard
      <3>4. CASE RenameBackup(b)
        BY <1>1, <2>1, <2>2, <3>1, <3>4, NamedMoves DEF RenameBackup
      <3>5. QED
        BY <2>5, <3>2, <3>3, <3>4 DEF BackupStep
    <2>6. CASE PowerFails \/ (\E p \in Procs : Kill(p)) \/ UNCHANGED vars
      BY <2>1, <2>6 DEF PowerFails, Kill, vars
    <2>7. QED
      BY <1>1, <2>3, <2>4, <2>5, <2>6, Constants DEF Next
  <1>2. QED
    BY <1>1, RestoreSafe, PTL DEF OriginalKept, Spec

-------------------------------------------------------------------------------
\* A restore's stage changes by its own steps, a kill or a power failure.
LEMMA WhoSteps ==
  ASSUME RInv, Next, NEW p \in Restorers, proc'[p] # proc[p]
  PROVE  RestoreFile(p) \/ RestoreStep(p) \/ Kill(p) \/ PowerFails
  <1>1. p \in Procs /\ proc \in [Procs -> ProcRecord] /\ p \notin Openers
    BY Constants DEF RInv, TypeOK
  <1>2. ASSUME NEW q \in Procs, NEW s, Go(q, s) PROVE q = p
    BY <1>1, <1>2 DEF Go
  <1>3. ASSUME NEW q \in Restorers, RestoreFile(q) \/ RestoreStep(q) PROVE q = p
    <2>1. CASE RestoreFile(q) \/ Inspect(q)
      BY <1>1, <1>2, <2>1, Constants DEF RestoreFile, Inspect
    <2>2. CASE validateRollbackPath(q) \/ verifyDestinationIsOffline(q) \/ Stage(q) \/ Sync(q)
      BY <1>2, <2>2, Constants DEF validateRollbackPath, verifyDestinationIsOffline, Stage, Sync
    <2>3. CASE verifySnapshot(q) \/ MoveOld(q) \/ Publish(q) \/ Undo(q) \/ Cleanup(q)
      BY <1>2, <2>3, Constants DEF verifySnapshot, MoveOld, Publish, Undo, Cleanup
    <2>4. QED
      BY <1>3, <2>1, <2>2, <2>3 DEF RestoreStep
  <1>4. ASSUME NEW o \in Openers, OpenFile(o) \/ Lock(o) \/ CloseStore(o) PROVE FALSE
    BY <1>1, <1>2, <1>4, Constants DEF OpenFile, Lock, CloseStore
  <1>5. ASSUME NEW b \in Backups, BackupStep(b) PROVE FALSE
    <2>1. b \in Openers
      BY Constants
    <2>2. CASE Lock(b) \/ CloseStore(b)
      BY <1>4, <2>1, <2>2
    <2>3. CASE Lstat(b) \/ CreateTemp(b) \/ Snapshot(b) \/ RenameBackup(b) \/ Discard(b)
      BY <1>1, <1>2, <2>1, <2>3, Constants DEF Lstat, CreateTemp, Snapshot, RenameBackup, Discard
    <2>4. QED
      BY <1>5, <2>2, <2>3 DEF BackupStep
  <1>6. ASSUME NEW q \in Procs, Kill(q) PROVE q = p
    BY <1>2, <1>6 DEF Kill
  <1>7. QED
    BY <1>3, <1>4, <1>5, <1>6, Constants DEF Next

LEMMA GoStage ==
  ASSUME TypeOK, NEW p \in Procs, NEW s, Go(p, s)
  PROVE  proc'[p].stage = s
  <1> DEFINE r == IF s \in Ends THEN New ELSE proc[p]
  <1>1. proc \in [Procs -> ProcRecord] /\ New \in ProcRecord
    BY Constants, StageFacts DEF TypeOK, New, ProcRecord
  <1>2. r \in ProcRecord /\ proc'[p] = [r EXCEPT !.stage = s]
    BY <1>1 DEF Go
  <1> HIDE DEF r
  <1>3. QED
    BY <1>2 DEF ProcRecord

\* Only the renaming in Publish reports success, and a failure is reported with
\* the destination as Inspect found it (restore.go, Restore).
THEOREM RestoreAllOrNothing == Spec => AllOrNothing
  <1> DEFINE Whole(p) ==
        dir'["dest"] = p /\ (proc[p].was # None => dir'[proc[p].rollback] = proc[p].was)
  <1> DEFINE Nothing(p) == proc[p].was # None => dir'["dest"] = proc[p].was
  <1>1. ASSUME RInv, Next, NEW p \in Restorers, ~ At(p, "ok"), At(p, "ok")'
        PROVE  Whole(p)
    <2>1. TypeOK /\ RestorerOK(p) /\ p \in Procs /\ p \in Paths /\ "dest" \in Paths /\ p # "dest"
      BY <1>1, Constants DEF RInv
    <2>2. RestoreFile(p) \/ RestoreStep(p) \/ Kill(p) \/ PowerFails
      BY <1>1, WhoSteps DEF At
    <2>3. ASSUME NEW s, Go(p, s) PROVE s = "ok"
      BY <1>1, <2>1, <2>3, GoStage DEF At
    <2>4. ~ (Kill(p) \/ PowerFails \/ RestoreFile(p))
      <3>1. ~ Kill(p)
        BY <2>3 DEF Kill
      <3>2. proc \in [Procs -> ProcRecord] /\ proc'[p].stage = "ok" /\ proc[p].stage # "ok"
        BY <1>1, <2>1 DEF At, TypeOK
      <3>3. /\ [New EXCEPT !.stage = "dead"].stage = "dead"
            /\ [New EXCEPT !.stage = "failed"].stage = "failed"
            /\ \A i, q : [New EXCEPT !.stage = "inspect", !.from = i, !.rollback = q].stage = "inspect"
        BY DEF New
      <3>4. ~ PowerFails
        BY <2>1, <3>2, <3>3 DEF PowerFails
      <3>5. ASSUME RestoreFile(p)  PROVE FALSE
        <4>1. PICK src \in Sources[p], rb \in Rollbacks[p] :
                proc'[p] = IF dir[src] = None \/ dir[src] = dir["dest"]
                           THEN [New EXCEPT !.stage = "failed"]
                           ELSE [New EXCEPT !.stage = "inspect", !.from = dir[src], !.rollback = rb]
          BY <2>1, <3>2, <3>5 DEF RestoreFile
        <4>2. QED
          BY <3>2, <3>3, <4>1
      <3>6. QED
        BY <3>1, <3>4, <3>5
    <2>5. ~ (Inspect(p) \/ validateRollbackPath(p) \/ verifyDestinationIsOffline(p) \/ Stage(p))
      BY <1>1, <2>1, <2>3 DEF Inspect, validateRollbackPath, verifyDestinationIsOffline, Stage, At,
                              TypeOK, ProcRecord
    <2>6. ~ (Sync(p) \/ verifySnapshot(p) \/ MoveOld(p) \/ Undo(p) \/ Cleanup(p))
      BY <2>3 DEF Sync, verifySnapshot, MoveOld, Undo, Cleanup
    <2>7. Publish(p)
      BY <2>2, <2>4, <2>5, <2>6 DEF RestoreStep
    <2>8. Rename(p, "dest") /\ At(p, "publish")
      BY <2>3, <2>7 DEF Publish
    <2>9. dir[p] = p /\ (proc[p].was # None => dir[proc[p].rollback] = proc[p].was)
      BY <2>1, <2>8 DEF RestorerOK, At, Staged
    <2>10. proc[p].was # None => proc[p].rollback \in Paths \ {p, "dest"}
      BY <2>1, RollbackFacts, Constants, SMT DEF RestorerOK
    <2>11. QED
      BY <2>1, <2>8, <2>9, <2>10, RenameFacts
  <1>2. ASSUME RInv, Next, NEW p \in Restorers, ~ At(p, "failed"), At(p, "failed")'
        PROVE  Nothing(p)
    <2>1. TypeOK /\ RestorerOK(p) /\ p \in Procs /\ p \in Paths /\ "dest" \in Paths /\ p # "dest"
      BY <1>2, Constants DEF RInv
    <2>2. RestoreFile(p) \/ RestoreStep(p) \/ Kill(p) \/ PowerFails
      BY <1>2, WhoSteps DEF At
    <2>3. ASSUME NEW s, Go(p, s) PROVE s = "failed"
      BY <1>2, <2>1, <2>3, GoStage DEF At
    <2>4. ~ (Kill(p) \/ PowerFails)
      BY <1>2, <2>1, <2>3 DEF Kill, PowerFails, At, TypeOK, New
    <2>5. CASE RestoreFile(p) \/ Inspect(p)
      BY <2>1, <2>5 DEF RestoreFile, Inspect, At, RestorerOK
    <2>6. CASE validateRollbackPath(p) \/ verifyDestinationIsOffline(p) \/ Stage(p)
      <3>1. proc[p].was # None => dir["dest"] = proc[p].was
        BY <2>1, <2>6 DEF validateRollbackPath, verifyDestinationIsOffline, Stage, At, RestorerOK,
                          Checked
      <3>2. dir'["dest"] = dir["dest"]
        BY <2>1, <2>6 DEF validateRollbackPath, verifyDestinationIsOffline, Stage, TypeOK
      <3>3. QED
        BY <3>1, <3>2
    <2>7. ~ (Sync(p) \/ verifySnapshot(p) \/ MoveOld(p) \/ Publish(p) \/ Undo(p))
      BY <2>3 DEF Sync, verifySnapshot, MoveOld, Publish, Undo
    <2>8. CASE Cleanup(p)
      <3>1. At(p, "cleanup")
        BY <2>3, <2>8 DEF Cleanup
      <3>2. proc[p].was # None => dir["dest"] = proc[p].was
        BY <2>1, <3>1 DEF At, RestorerOK
      <3>3. dir'["dest"] = dir["dest"]
        BY <2>1, <2>8 DEF Cleanup, TypeOK
      <3>4. QED
        BY <3>2, <3>3
    <2>9. QED
      BY <2>2, <2>4, <2>5, <2>6, <2>7, <2>8 DEF RestoreStep
  <1>3. ASSUME RInv, [Next]_vars, NEW p \in Restorers
        PROVE  /\ ~ At(p, "ok") /\ At(p, "ok")' => Whole(p)
               /\ ~ At(p, "failed") /\ At(p, "failed")' => Nothing(p)
    <2>1. CASE Next
      BY <1>1, <1>2, <1>3, <2>1
    <2>2. CASE UNCHANGED vars
      BY <2>2 DEF vars, At
    <2>3. QED
      BY <1>3, <2>1, <2>2
  <1>4. RInv /\ [Next]_vars =>
          [\A p \in Restorers :
             /\ ~ At(p, "ok") /\ At(p, "ok")' =>
                  dir'["dest"] = p /\ (proc[p].was # None => dir'[proc[p].rollback] = proc[p].was)
             /\ ~ At(p, "failed") /\ At(p, "failed")' =>
                  (proc[p].was # None => dir'["dest"] = proc[p].was)]_vars
    BY <1>3
  <1>5. QED
    BY <1>4, RestoreSafe, PTL DEF AllOrNothing, Spec
===============================================================================
