-------------------------- MODULE LuciPlugin_proof --------------------------
(***************************************************************************)
(* Proofs about LuciPlugin, for any number of pages, process ids and       *)
(* contents: what the lock directory guarantees, what a request that ends  *)
(* leaves of it, and what the saves can promise because of it.             *)
(***************************************************************************)
EXTENDS LuciPlugin, TLAPS

USE LuciPluginAssumption

\* A request inside has made the lock directory and not removed it yet.
Inside(p) == process[p].pc \in {"own", "rmlock"} \cup Holding

\* A request that runs has a process id.
Numbered == \A p \in Pages : At(p, "idle") \/ process[p].pid \in Pids

\* One request is inside.
Alone == \A p, q \in Pages : Inside(p) /\ Inside(q) => p = q

\* The lock directory is there while a request is inside, with its pid while
\* the request holds it.
Owned == \A p \in Pages :
    /\ process[p].pc \in Holding => lockdir /\ lockpid = process[p].pid /\ lockpid # NoPid
    /\ process[p].pc \in {"own", "rmlock"} => lockdir /\ lockpid = NoPid

Nobody == \A q \in Pages : ~Inside(q)

\* A request whose lock is still the one it saw knows the owner; once it has
\* found it dead, nobody is inside.
Knows(p) == p \in asked =>
    /\ At(p, "probe") => lockdir /\ lockpid = process[p].owner /\ lockpid # NoPid
    /\ At(p, "clear") => lockdir /\ lockpid # NoPid /\ Nobody
    /\ At(p, "rmdir") => lockdir /\ lockpid = NoPid /\ Nobody
Asking == \A p \in Pages : Knows(p)

\* The lock directory is somebody's: a request's, or left by one that was killed.
Answers(p) == process[p].pc \in Holding \/ Unrecorded(p)
Answered ==
    lockdir => (\E p \in Pages : Answers(p)) \/ (left = "named" /\ lockpid \in Pids) \/ left = "unnamed"

LockInv == Alone /\ Owned /\ Asking /\ Answered

\* What a page shows is of the revision it holds, unless it was read askew.
Shown == \A p \in Pages : page[p].torn \/ page[p].base = page[p].revision.config

\* What a request has read, or written, is still what is there.
Current(p) ==
    /\ process[p].pc \in {"revision", "reply"} => process[p].edit.config = config
    /\ process[p].pc \in {"backup", "commit"} => Revision = page[p].revision
    /\ At(p, "replace") => config = page[p].revision.config
    /\ process[p].pc \in {"commit", "replace"} => backup = config
UpdateInv == Shown /\ \A p \in Pages : mistaken \/ p \in touched \/ Current(p)

\* Only a save gets where something is saved, and says so.
Sorted == \A p \in Pages :
    /\ process[p].pc \in {"work", "read", "revision"} => process[p].op # "save"
    /\ At(p, "reply") => process[p].saved

\* A save that has changed nothing yet, one that has changed the switch, one
\* that has ended.
Unchanged(p) ==
    /\ process[p].pc \in {"check", "backup", "commit"} => Revision = process[p].before
    /\ process[p].pc \in {"replace", "restore"} =>
          config = process[p].before.config /\ process[p].old = process[p].before.enabled
    /\ At(p, "unlock") /\ process[p].op = "save" /\ ~process[p].saved /\ process[p].failed # "signal" =>
          /\ config = process[p].before.config
          /\ process[p].failed = "none" => enabled = process[p].before.enabled
SaveInv == Sorted /\ \A p \in Pages : mistaken \/ p \in touched \/ Unchanged(p)

----------------------------------------------------------------------------
(* What a step does to the request of a page.                              *)

\* The fields but the step are those of another record.
SameData(r, s) == /\ r.op = s.op /\ r.pid = s.pid /\ r.owner = s.owner /\ r.edit = s.edit
                  /\ r.old = s.old /\ r.saved = s.saved /\ r.before = s.before /\ r.failed = s.failed

LEMMA MoveFields ==
    ASSUME NEW r \in Process, NEW step \in Steps
    PROVE  LET s == [r EXCEPT !.pc = step] IN s \in Process /\ s.pc = step /\ SameData(s, r)
  BY DEF Process, SameData

\* The requests of the other pages are as they were.
Only(p) == \A q \in Pages : q # p => process'[q] = process[q]

LEMMA GotoEffect ==
    ASSUME TypeOK, NEW p \in Pages, NEW step \in Steps, Goto(p, step)
    PROVE  /\ process' \in [Pages -> Process] /\ Only(p)
           /\ process'[p].pc = step /\ SameData(process'[p], process[p])
  <1>1. process[p] \in Process
    BY DEF TypeOK
  <1> DEFINE r == [process[p] EXCEPT !.pc = step]
  <1>2. r \in Process /\ r.pc = step /\ SameData(r, process[p])
    BY <1>1, MoveFields
  <1>3. process' = [process EXCEPT ![p] = r]
    BY DEF Goto
  <1> HIDE DEF r
  <1> QED BY <1>2, <1>3 DEF TypeOK, Only

LEMMA ExitEffect ==
    ASSUME TypeOK, NEW p \in Pages, Exit(p)
    PROVE  process' \in [Pages -> Process] /\ Only(p) /\ process'[p].pc = "idle"
  <1>1. NoProcess \in Process /\ NoProcess.pc = "idle"
    BY DEF Process, NoProcess, NoEdit, Revisions, Steps
  <1> QED BY <1>1 DEF Exit, TypeOK, Only

\* An assignment of another record, as the actions with more than one field
\* make it.
LEMMA RecordEffect ==
    ASSUME TypeOK, NEW p \in Pages, NEW r \in Process, process' = [process EXCEPT ![p] = r]
    PROVE  process' \in [Pages -> Process] /\ Only(p) /\ process'[p] = r
  BY DEF TypeOK, Only

LEMMA StepNames ==
    /\ {"idle", "mkdir", "owner", "own", "rmlock", "probe", "clear", "rmdir", "retake", "work", "read",
        "revision", "check", "backup", "commit", "replace", "restore", "reply", "unlock"} \subseteq Steps
    /\ Holding \subseteq Steps /\ Taking \subseteq Steps
  BY DEF Steps, Holding, Taking

LEMMA Typed ==
    ASSUME TypeOK, NEW p \in Pages
    PROVE  /\ process[p] \in Process /\ config \in Contents /\ enabled \in BOOLEAN
           /\ lockpid \in Pids \cup {NoPid} /\ NoPid \in Pids \cup {NoPid}
           /\ Revision \in Revisions
           /\ "clear" \in Steps /\ "probe" \in Steps /\ "revision" \in Steps /\ "replace" \in Steps
           /\ "reply" \in Steps /\ "unlock" \in Steps /\ "backup" \in Steps /\ "rmlock" \in Steps
  BY StepNames DEF TypeOK, Revision, Revisions

LEMMA RequestEffect ==
    ASSUME TypeOK, NEW p \in Pages, Request(p)
    PROVE  process' \in [Pages -> Process] /\ Only(p) /\ process'[p].pc = "mkdir" /\ process'[p].pid \in Pids
  <1>1. PICK n \in Pids, o \in {"get", "other", "save"}, e \in Edits \cup {NoEdit} :
           process' = [process EXCEPT ![p] = [NoProcess EXCEPT !.pc = "mkdir", !.op = o, !.pid = n, !.edit = e]]
    BY DEF Request
  <1> DEFINE r == [NoProcess EXCEPT !.pc = "mkdir", !.op = o, !.pid = n, !.edit = e]
  <1>2. e \in Revisions
    <2>1. NoEdit \in Revisions
      BY DEF LuciPluginAssumption, Revisions, NoEdit
    <2> QED BY <2>1 DEF LuciPluginAssumption, Revisions
  <1>3. r \in Process /\ r.pc = "mkdir" /\ r.pid = n
    <2>1. NoProcess \in Process /\ "mkdir" \in Steps
      BY DEF Process, NoProcess, NoEdit, Revisions, Steps
    <2> QED BY <1>2, <2>1 DEF Process
  <1>4. process' = [process EXCEPT ![p] = r]
    BY <1>1
  <1> HIDE DEF r
  <1> QED BY <1>3, <1>4, RecordEffect

LEMMA OwnEffect ==
    ASSUME TypeOK, NEW p \in Pages, Own(p)
    PROVE  /\ process' \in [Pages -> Process] /\ Only(p)
           /\ process'[p].pc = FirstStep(process[p].op) /\ process'[p].pc \in {"read", "check", "work"}
           /\ process'[p].pid = process[p].pid /\ process'[p].op = process[p].op
           /\ process'[p].pc = "check" => process'[p].before = Revision
           /\ process'[p].pc # "check" => process'[p].op # "save"
  <1>1. process[p] \in Process /\ Revision \in Revisions
    BY DEF TypeOK, Revision, Revisions
  <1> DEFINE step == FirstStep(process[p].op)
             b == IF process[p].op = "save" THEN Revision ELSE process[p].before
             r == [process[p] EXCEPT !.pc = step, !.before = b]
  <1>2. step \in {"read", "check", "work"} /\ (step = "check" <=> process[p].op = "save")
    BY DEF FirstStep
  <1>3. b \in Revisions
    BY <1>1 DEF Process
  <1>4. step \in Steps
    BY <1>2, StepNames
  <1>5. process' = [process EXCEPT ![p] = r]
    BY DEF Own
  <1>6. step = "check" => b = Revision
    BY <1>2
  <1> HIDE DEF step, b
  <1>7. r \in Process /\ r.pc = step /\ r.before = b /\ r.op = process[p].op /\ r.pid = process[p].pid
    BY <1>1, <1>3, <1>4 DEF Process
  <1> HIDE DEF r
  <1>8. process' \in [Pages -> Process] /\ Only(p) /\ process'[p] = r
    BY <1>5, <1>7, RecordEffect
  <1>9. step = FirstStep(process[p].op)
    BY DEF step
  <1> QED BY <1>2, <1>6, <1>7, <1>8, <1>9

LEMMA ReadOwnerEffect ==
    ASSUME TypeOK, NEW p \in Pages, ReadOwner(p)
    PROVE  /\ process' \in [Pages -> Process] /\ Only(p)
           /\ \/ process'[p].pc = "idle"
              \/ /\ process'[p].pc = "probe" /\ process'[p].owner = lockpid /\ lockpid # NoPid
                 /\ process'[p].pid = process[p].pid
  <1>1. CASE lockpid = NoPid
    BY <1>1, ExitEffect DEF ReadOwner
  <1>2. CASE lockpid # NoPid
    <2> DEFINE r == [process[p] EXCEPT !.pc = "probe", !.owner = lockpid]
    <2>1. r \in Process /\ r.pc = "probe" /\ r.owner = lockpid /\ r.pid = process[p].pid
      BY Typed DEF Process
    <2>2. process' = [process EXCEPT ![p] = r]
      BY <1>2 DEF ReadOwner
    <2> HIDE DEF r
    <2> QED BY <1>2, <2>1, <2>2, RecordEffect
  <1> QED BY <1>1, <1>2

LEMMA ProbeEffect ==
    ASSUME TypeOK, NEW p \in Pages, Probe(p)
    PROVE  /\ process' \in [Pages -> Process] /\ Only(p)
           /\ \/ process'[p].pc = "idle"
              \/ /\ process'[p].pc = "clear" /\ ~Alive(process[p].owner) /\ asked' = asked
                 /\ process'[p].pid = process[p].pid
  <1>1. CASE Exit(p)
    BY <1>1, ExitEffect
  <1>2. CASE OwnerGone(p) /\ process' = [process EXCEPT ![p].pc = "clear", ![p].owner = NoPid] /\ asked' = asked
    <2> DEFINE r == [process[p] EXCEPT !.pc = "clear", !.owner = NoPid]
    <2>1. r \in Process /\ r.pc = "clear" /\ r.pid = process[p].pid
      BY Typed DEF Process
    <2>2. process' = [process EXCEPT ![p] = r]
      BY <1>2
    <2>3. ~Alive(process[p].owner)
      BY <1>2 DEF OwnerGone
    <2> HIDE DEF r
    <2> QED BY <1>2, <2>1, <2>2, <2>3, RecordEffect
  <1> QED BY <1>1, <1>2 DEF Probe

LEMMA ReadEffect ==
    ASSUME TypeOK, NEW p \in Pages, Read(p)
    PROVE  /\ process' \in [Pages -> Process] /\ Only(p)
           /\ process'[p].pc = "revision" /\ process'[p].edit.config = config
           /\ process'[p].pid = process[p].pid /\ process'[p].op = process[p].op
  <1> DEFINE r == [process[p] EXCEPT !.pc = "revision", !.edit.config = config]
  <1>1. r \in Process /\ r.pc = "revision" /\ r.edit.config = config /\ r.pid = process[p].pid
        /\ r.op = process[p].op
    BY Typed DEF Process, Revisions
  <1>2. process' = [process EXCEPT ![p] = r]
    BY DEF Read
  <1> HIDE DEF r
  <1> QED BY <1>1, <1>2, RecordEffect

LEMMA CommitEffect ==
    ASSUME TypeOK, NEW p \in Pages, Commit(p)
    PROVE  /\ process' \in [Pages -> Process] /\ Only(p)
           /\ process'[p].pid = process[p].pid /\ process'[p].before = process[p].before
           /\ process'[p].op = process[p].op /\ process'[p].saved = process[p].saved
           /\ \/ process'[p].pc = "replace" /\ process'[p].old = enabled
              \/ process'[p].pc = "unlock" /\ SameData(process'[p], process[p]) /\ enabled' = enabled
  <1>1. CASE process' = [process EXCEPT ![p].pc = "replace", ![p].old = enabled]
    <2> DEFINE r == [process[p] EXCEPT !.pc = "replace", !.old = enabled]
    <2>1. r \in Process /\ r.pc = "replace" /\ r.old = enabled /\ r.pid = process[p].pid
          /\ r.before = process[p].before /\ r.op = process[p].op /\ r.saved = process[p].saved
      BY Typed DEF Process
    <2>2. process' = [process EXCEPT ![p] = r]
      BY <1>1
    <2> HIDE DEF r
    <2> QED BY <2>1, <2>2, RecordEffect
  <1>2. CASE Goto(p, "unlock") /\ enabled' = enabled
    BY <1>2, GotoEffect, StepNames DEF SameData
  <1> QED BY <1>1, <1>2 DEF Commit

LEMMA ReplaceEffect ==
    ASSUME TypeOK, NEW p \in Pages, Replace(p)
    PROVE  /\ process' \in [Pages -> Process] /\ Only(p) /\ process'[p].pid = process[p].pid
           /\ \/ process'[p].pc = "reply" /\ process'[p].saved /\ config' = process'[p].edit.config
              \/ process'[p].pc = "restore" /\ SameData(process'[p], process[p]) /\ config' = config
  <1>1. CASE config' = process[p].edit.config /\ process' = [process EXCEPT ![p].pc = "reply", ![p].saved = TRUE]
    <2> DEFINE r == [process[p] EXCEPT !.pc = "reply", !.saved = TRUE]
    <2>1. r \in Process /\ r.pc = "reply" /\ r.saved /\ r.pid = process[p].pid /\ r.edit = process[p].edit
      BY Typed DEF Process
    <2>2. process' = [process EXCEPT ![p] = r]
      BY <1>1
    <2> HIDE DEF r
    <2> QED BY <1>1, <2>1, <2>2, RecordEffect
  <1>2. CASE Goto(p, "restore") /\ config' = config
    BY <1>2, GotoEffect, StepNames DEF SameData
  <1> QED BY <1>1, <1>2 DEF Replace

LEMMA FailedEffect ==
    ASSUME TypeOK, NEW p \in Pages, NEW f \in {"commit", "restore", "signal"},
           process' = [process EXCEPT ![p].pc = "unlock", ![p].failed = f]
    PROVE  /\ process' \in [Pages -> Process] /\ Only(p)
           /\ process'[p].pc = "unlock" /\ process'[p].failed = f /\ process'[p].pid = process[p].pid
           /\ process'[p].before = process[p].before
  <1> DEFINE r == [process[p] EXCEPT !.pc = "unlock", !.failed = f]
  <1>1. r \in Process /\ r.pc = "unlock" /\ r.failed = f /\ r.pid = process[p].pid /\ r.before = process[p].before
    BY Typed DEF Process
  <1>2. process' = [process EXCEPT ![p] = r]
    OBVIOUS
  <1> HIDE DEF r
  <1> QED BY <1>1, <1>2, RecordEffect

LEMMA CheckEffect ==
    ASSUME TypeOK, NEW p \in Pages, Check(p)
    PROVE  /\ process' \in [Pages -> Process] /\ Only(p)
           /\ process'[p].pc = "backup" /\ process'[p].before = Revision /\ process'[p].pid = process[p].pid
  <1> DEFINE r == [process[p] EXCEPT !.pc = "backup", !.before = Revision]
  <1>1. r \in Process /\ r.pc = "backup" /\ r.before = Revision /\ r.pid = process[p].pid
    BY Typed DEF Process
  <1>2. process' = [process EXCEPT ![p] = r]
    BY DEF Check
  <1> HIDE DEF r
  <1> QED BY <1>1, <1>2, RecordEffect

LEMMA RemovePidEffect ==
    ASSUME TypeOK, NEW p \in Pages, RemovePid(p)
    PROVE  /\ process' \in [Pages -> Process] /\ Only(p)
           /\ process'[p].pc = "rmlock" /\ process'[p].pid = process[p].pid
  <1> DEFINE r == [NoProcess EXCEPT !.pc = "rmlock", !.pid = process[p].pid]
  <1>1. NoProcess \in Process
    BY DEF Process, NoProcess, NoEdit, Revisions, Steps
  <1>2. r \in Process /\ r.pc = "rmlock" /\ r.pid = process[p].pid
    BY <1>1, Typed DEF Process
  <1>3. process' = [process EXCEPT ![p] = r]
    BY DEF RemovePid
  <1> HIDE DEF r
  <1> QED BY <1>2, <1>3, RecordEffect

\* The steps that change no field of a request but its step.
Passing(p) == Work(p) \/ Reply(p) \/ Refuse(p) \/ Backup(p)

LEMMA PassingEffect ==
    ASSUME TypeOK, NEW p \in Pages, Passing(p)
    PROVE  /\ process' \in [Pages -> Process] /\ Only(p)
           /\ process'[p].pc \in Holding /\ process[p].pc \in Holding
           /\ SameData(process'[p], process[p])
  <1>1. PICK step \in Holding : Goto(p, step) /\ process[p].pc \in Holding
    BY DEF Passing, Work, Reply, Refuse, Backup, Holding, At
  <1>2. step \in Steps
    BY StepNames
  <1> QED BY <1>1, <1>2, GotoEffect

\* The steps that end the save or the request early.
Failing(p) == CommitFails(p) \/ Restore(p) \/ Terminate(p)

LEMMA FailingEffect ==
    ASSUME TypeOK, NEW p \in Pages, Failing(p)
    PROVE  /\ process' \in [Pages -> Process] /\ Only(p)
           /\ process'[p].pc = "unlock" /\ process[p].pc \in Holding /\ process'[p].pid = process[p].pid
  <1>1. process[p].pc \in Holding
    BY DEF Failing, CommitFails, Restore, Terminate, Holding, At
  <1>2. \/ Goto(p, "unlock")
        \/ \E f \in {"commit", "restore", "signal"} :
              process' = [process EXCEPT ![p].pc = "unlock", ![p].failed = f]
    BY DEF Failing, CommitFails, Restore, Terminate
  <1> QED BY <1>1, <1>2, FailedEffect, GotoEffect, StepNames DEF SameData

\* The steps that stay inside the lock.
Staying(p) == Passing(p) \/ Failing(p) \/ Read(p) \/ Check(p) \/ Commit(p) \/ Replace(p)

LEMMA StayingEffect ==
    ASSUME TypeOK, NEW p \in Pages, Staying(p)
    PROVE  /\ process' \in [Pages -> Process] /\ Only(p)
           /\ process'[p].pc \in Holding /\ process[p].pc \in Holding /\ process'[p].pid = process[p].pid
           /\ UNCHANGED <<lock, asked, mistaken, left>>
  <1>1. UNCHANGED <<lock, asked, mistaken, left>>
    BY DEF Staying, Passing, Failing, Work, Reply, Refuse, Backup, CommitFails, Restore, Terminate, Read, Check,
           Commit, Replace, history
  <1>2. process[p].pc \in Holding
    BY PassingEffect, FailingEffect DEF Staying, Read, Check, Commit, Replace, Holding, At
  <1>3. {"revision", "backup", "commit", "replace", "restore", "reply", "unlock"} \subseteq Holding
    BY DEF Holding
  <1> QED BY <1>1, <1>2, <1>3, PassingEffect, FailingEffect, ReadEffect, CheckEffect, CommitEffect, ReplaceEffect
          DEF Staying, SameData

----------------------------------------------------------------------------
(* Type correctness.                                                       *)

LEMMA ProcessTypes ==
    ASSUME TypeOK, NEW p \in Pages, Request(p) \/ Proceed(p) \/ Terminate(p) \/ Kill(p)
    PROVE  process' \in [Pages -> Process] /\ Only(p)
  <1>1. CASE Staying(p)
    BY <1>1, StayingEffect
  <1>2. CASE MakeLock(p) \/ ClearPid(p)
    <2>1. \E step \in Steps : Goto(p, step)
      BY <1>2, StepNames DEF MakeLock, ClearPid
    <2> QED BY <2>1, GotoEffect
  <1>3. CASE ClearDir(p) \/ Retake(p) \/ RemoveLock(p) \/ Kill(p)
    <2>1. Exit(p) \/ \E step \in Steps : Goto(p, step)
      BY <1>3, StepNames DEF ClearDir, Retake, RemoveLock, Kill
    <2> QED BY <2>1, GotoEffect, ExitEffect
  <1> QED BY <1>1, <1>2, <1>3, RequestEffect, OwnEffect, ReadOwnerEffect, ProbeEffect, RemovePidEffect
          DEF Proceed, Acquire, Save, Cleanup, Staying, Passing, Failing

LEMMA FileTypes ==
    ASSUME TypeOK, [Next]_vars
    PROVE  config' \in Contents /\ backup' \in Contents /\ enabled' \in BOOLEAN
  <1>1. \A p \in Pages : process[p].edit \in Revisions /\ process[p].old \in BOOLEAN
    BY Typed DEF Process
  <1>2. \A r \in Revisions \cup Edits : r.config \in Contents /\ r.enabled \in BOOLEAN
    BY DEF Revisions, LuciPluginAssumption
  <1>3. CASE Terminal
    BY <1>2, <1>3 DEF Terminal, TypeOK
  <1>4. ASSUME NEW p \in Pages, Backup(p) \/ Commit(p) \/ CommitFails(p) \/ Replace(p) \/ Restore(p)
        PROVE  config' \in Contents /\ backup' \in Contents /\ enabled' \in BOOLEAN
    BY <1>1, <1>2, <1>4 DEF Backup, Copy, Commit, CommitFails, Replace, Restore, Restored, TypeOK
  <1>5. \/ UNCHANGED files \/ Terminal
        \/ \E p \in Pages : Backup(p) \/ Commit(p) \/ CommitFails(p) \/ Replace(p) \/ Restore(p)
    BY DEF Next, vars, Request, Proceed, Terminate, Kill, Acquire, MakeLock, ReadOwner, Probe, ClearPid,
           ClearDir, Retake, Own, Work, Read, Save, Refuse, Check, Reply, Cleanup, RemovePid, RemoveLock
  <1> QED BY <1>3, <1>4, <1>5 DEF files, TypeOK

LEMMA LockTypes ==
    ASSUME TypeOK, [Next]_vars
    PROVE  lockdir' \in BOOLEAN /\ lockpid' \in Pids \cup {NoPid} /\ (lockpid' # NoPid => lockdir')
  <1>1. ASSUME NEW p \in Pages, MakeLock(p) \/ ClearPid(p) \/ ClearDir(p) \/ Retake(p) \/ Own(p)
                                \/ RemovePid(p) \/ RemoveLock(p)
        PROVE  lockdir' \in BOOLEAN /\ lockpid' \in Pids \cup {NoPid} /\ (lockpid' # NoPid => lockdir')
    <2>1. process[p].pid \in Pids \cup {NoPid}
      BY Typed DEF Process
    <2> QED BY <1>1, <2>1 DEF MakeLock, ClearPid, ClearDir, Retake, Own, PidOf, RemovePid, RemoveLock, TypeOK
  <1>2. \/ UNCHANGED lock
        \/ \E p \in Pages : MakeLock(p) \/ ClearPid(p) \/ ClearDir(p) \/ Retake(p) \/ Own(p)
                             \/ RemovePid(p) \/ RemoveLock(p)
    BY DEF Next, vars, Terminal, Request, Proceed, Terminate, Kill, Acquire, ReadOwner, Probe, Work, Read, Save,
           Refuse, Check, Backup, Commit, CommitFails, Replace, Restore, Reply, Cleanup
  <1> QED BY <1>1, <1>2 DEF lock, TypeOK

LEMMA PageTypes ==
    ASSUME TypeOK, [Next]_vars
    PROVE  page' \in [Pages -> [base : Contents, revision : Revisions, torn : BOOLEAN]]
  <1>1. ASSUME NEW p \in Pages, Reply(p)
        PROVE  page' \in [Pages -> [base : Contents, revision : Revisions, torn : BOOLEAN]]
    <2>1. process[p].edit.config \in Contents /\ (mistaken \/ p \in touched) \in BOOLEAN
      BY Typed DEF Process, Revisions, TypeOK
    <2>2. [base |-> process[p].edit.config, revision |-> Revision, torn |-> mistaken \/ p \in touched]
             \in [base : Contents, revision : Revisions, torn : BOOLEAN]
      BY <2>1, Typed
    <2> QED BY <1>1, <2>2 DEF Reply, TypeOK
  <1>2. page' = page \/ \E p \in Pages : Reply(p)
    BY DEF Next, vars, Terminal, Request, Proceed, Terminate, Kill, Acquire, MakeLock, ReadOwner, Probe, ClearPid,
           ClearDir, Retake, Own, Work, Read, Save, Refuse, Check, Backup, Commit, CommitFails, Replace,
           Restore, Cleanup, RemovePid, RemoveLock
  <1> QED BY <1>1, <1>2 DEF TypeOK

LEMMA HistoryTypes ==
    ASSUME TypeOK, [Next]_vars
    PROVE  /\ asked' \subseteq Pages /\ touched' \subseteq Pages
           /\ mistaken' \in BOOLEAN /\ left' \in {"none", "named", "unnamed"}
  <1>1. CASE Terminal \/ UNCHANGED vars
    BY <1>1 DEF Terminal, vars, history, TypeOK
  <1>2. ASSUME NEW p \in Pages, Staying(p)
        PROVE  touched' \subseteq Pages
    BY <1>2 DEF Staying, Passing, Failing, Work, Reply, Refuse, Backup, CommitFails, Restore, Terminate, Read,
           Check, Commit, Replace, history, TypeOK
  <1>3. ASSUME NEW p \in Pages, Request(p) \/ Acquire(p) \/ Cleanup(p) \/ Kill(p)
        PROVE  /\ asked' \subseteq Pages /\ touched' \subseteq Pages
               /\ mistaken' \in BOOLEAN /\ left' \in {"none", "named", "unnamed"}
    BY <1>3 DEF Request, Acquire, MakeLock, ReadOwner, Probe, ClearPid, ClearDir, Retake, Own, Cleanup, RemovePid,
           RemoveLock, Kill, Notice, Mistake, history, TypeOK
  <1> QED BY <1>1, <1>2, <1>3, StayingEffect DEF Next, Proceed, Save, Staying, Passing, Failing, TypeOK

LEMMA TypeStep == ASSUME TypeOK, [Next]_vars PROVE TypeOK'
  <1>1. process' \in [Pages -> Process]
    <2>1. process' = process \/ \E p \in Pages : Request(p) \/ Proceed(p) \/ Terminate(p) \/ Kill(p)
      BY DEF Next, vars, Terminal
    <2> QED BY <2>1, ProcessTypes DEF TypeOK
  <1> QED BY <1>1, FileTypes, LockTypes, PageTypes, HistoryTypes DEF TypeOK

LEMMA TypeInitially == Init => TypeOK
  <1> SUFFICES ASSUME Init PROVE TypeOK
    OBVIOUS
  <1>1. NoProcess \in Process
    <2>1. NoEdit \in Revisions
      BY DEF NoEdit, Revisions, LuciPluginAssumption
    <2> QED BY <2>1 DEF Process, NoProcess, Steps
  <1>2. Revision \in Revisions
    BY DEF Init, Revision, Revisions
  <1> QED BY <1>1, <1>2 DEF Init, TypeOK

\* The files, the lock, the requests and the pages keep their types, and the
\* lock has no pid without its directory.
THEOREM TypeCorrect == Spec => []TypeOK
  BY TypeInitially, TypeStep, PTL DEF Spec

----------------------------------------------------------------------------
(* The lock.                                                               *)

LEMMA StepSets ==
    /\ \A step \in Holding : step \notin {"idle", "mkdir", "owner", "own", "rmlock"} \cup Taking
    /\ \A step \in Taking : step \notin {"idle", "mkdir", "owner", "own", "rmlock"}
    /\ Taking = {"probe", "clear", "rmdir", "retake"}
    /\ {"work", "read", "check", "unlock"} \subseteq Holding
  BY DEF Holding, Taking

LEMMA NumberedStep ==
    ASSUME TypeOK, Numbered, [Next]_vars PROVE Numbered'
  <1>1. CASE Terminal \/ UNCHANGED vars
    BY <1>1 DEF Terminal, vars, Numbered, At
  <1>2. ASSUME NEW p \in Pages, Request(p) \/ Proceed(p) \/ Terminate(p) \/ Kill(p) PROVE Numbered'
    <2>1. Only(p)
      BY <1>2, ProcessTypes
    <2>2. CASE ~At(p, "idle")
      <3>1. process'[p].pid = process[p].pid \/ process'[p].pc = "idle"
        <4>1. CASE Staying(p)
          BY <4>1, StayingEffect
        <4>2. CASE MakeLock(p) \/ ClearPid(p)
          <5>1. \E step \in Steps : Goto(p, step)
            BY <4>2, StepNames DEF MakeLock, ClearPid
          <5> QED BY <5>1, GotoEffect DEF SameData
        <4>3. CASE ClearDir(p) \/ Retake(p) \/ RemoveLock(p) \/ Kill(p)
          <5>1. Exit(p) \/ \E step \in Steps : Goto(p, step)
            BY <4>3, StepNames DEF ClearDir, Retake, RemoveLock, Kill
          <5> QED BY <5>1, GotoEffect, ExitEffect DEF SameData
        <4>4. ~Request(p)
          BY <2>2 DEF Request
        <4> QED BY <1>2, <4>1, <4>2, <4>3, <4>4, OwnEffect, ReadOwnerEffect, ProbeEffect, RemovePidEffect
                DEF Proceed, Acquire, Save, Cleanup, Staying, Passing, Failing
      <3> QED BY <2>1, <2>2, <3>1 DEF Numbered, Only, At
    <2>3. CASE At(p, "idle")
      <3>1. Request(p)
        BY <1>2, <2>3 DEF Proceed, Terminate, Kill, Acquire, MakeLock, ReadOwner, Probe, ClearPid, ClearDir, Retake,
               Own, Work, Read, Save, Refuse, Check, Backup, Commit, CommitFails, Replace, Restore, Reply,
               Cleanup, RemovePid, RemoveLock, At, Holding
      <3> QED BY <2>1, <3>1, RequestEffect DEF Numbered, Only, At
    <2> QED BY <2>2, <2>3
  <1> QED BY <1>1, <1>2 DEF Next

\* A step of a request that is inside before and after it.
LEMMA InsideHolds ==
    ASSUME LockInv, NEW p \in Pages, Only(p), UNCHANGED <<lock, asked, left>>,
           process[p].pc \in Holding, process'[p].pc \in Holding, process'[p].pid = process[p].pid
    PROVE  LockInv'
  <1> USE StepSets DEF At
  <1>1. \A q \in Pages : Inside(q)' <=> Inside(q)
    BY DEF Only, Inside
  <1>2. Alone' /\ (Nobody' <=> Nobody)
    BY <1>1 DEF LockInv, Alone, Nobody
  <1>3. Owned'
    BY DEF Only, LockInv, Owned, lock
  <1>4. Asking'
    BY <1>2 DEF Only, LockInv, Asking, Knows, lock
  <1>5. Answered'
    BY DEF Answered, Answers, lock
  <1> QED BY <1>2, <1>3, <1>4, <1>5 DEF LockInv

\* A step of a request that is outside before and after it, and leaves the lock
\* alone.
LEMMA OutsideHolds ==
    ASSUME LockInv, NEW p \in Pages, Only(p), UNCHANGED <<lock, left>>,
           ~Inside(p), Inside(p)' = FALSE, ~Answers(p), asked' \ {p} = asked \ {p}, Knows(p)'
    PROVE  LockInv'
  <1> USE StepSets DEF At
  <1>1. \A q \in Pages : Inside(q)' <=> Inside(q)
    BY DEF Only, Inside
  <1>2. Alone' /\ (Nobody' <=> Nobody)
    BY <1>1 DEF LockInv, Alone, Nobody
  <1>3. Owned'
    BY <1>1 DEF Only, LockInv, Owned, Inside, lock
  <1>4. Asking'
    <2>1. ASSUME NEW q \in Pages, q # p PROVE Knows(q)'
      BY <1>2, <2>1 DEF Only, LockInv, Asking, Knows, lock
    <2> QED BY <2>1 DEF Asking
  <1>5. Answered'
    <2>1. ASSUME NEW q \in Pages, Answers(q) PROVE Answers(q)'
      BY <2>1 DEF Only, Answers, Unrecorded
    <2> QED BY <2>1 DEF LockInv, Answered, lock
  <1> QED BY <1>2, <1>3, <1>4, <1>5 DEF LockInv

\* A lock that is made while there is none.
LEMMA EnterHolds ==
    ASSUME TypeOK, LockInv, NEW p \in Pages, Only(p), ~lockdir, lockdir', UNCHANGED lockpid,
           process'[p].pc = "own", asked' \subseteq asked
    PROVE  LockInv'
  <1> USE StepSets DEF At
  <1>1. Nobody /\ lockpid' = NoPid
    BY DEF LockInv, Owned, Inside, Nobody, TypeOK
  <1>2. \A q \in Pages : Inside(q)' => q = p
    BY <1>1 DEF Only, Inside, Nobody
  <1>3. Alone'
    BY <1>2 DEF Alone
  <1>4. Owned'
    <2>1. \A q \in Pages : process'[q].pc \notin Holding
      BY <1>2 DEF Inside
    <2> QED BY <1>1, <2>1 DEF Owned
  <1>5. Answered'
    BY DEF Answered, Answers, Unrecorded
  <1>6. \A q \in asked : q # p => process[q].pc \notin {"probe", "clear", "rmdir"}
    BY DEF LockInv, Asking, Knows, TypeOK
  <1>7. Asking'
    BY <1>6 DEF Only, Asking, Knows
  <1> QED BY <1>3, <1>4, <1>5, <1>7 DEF LockInv

\* The steps of acquire() before the lock changes.
LEMMA AskHolds ==
    ASSUME TypeOK, LockInv, NEW p \in Pages, MakeLock(p) \/ ReadOwner(p) \/ Probe(p)
    PROVE  LockInv'
  <1> USE StepSets DEF At
  <1>0. ~Inside(p) /\ ~Answers(p)
    BY DEF MakeLock, ReadOwner, Probe, Inside, Answers, Unrecorded
  <1>1. CASE MakeLock(p)
    <2>1. Only(p) /\ process'[p].pc = (IF lockdir THEN "owner" ELSE "own")
      <3>1. Goto(p, IF lockdir THEN "owner" ELSE "own") /\ (IF lockdir THEN "owner" ELSE "own") \in Steps
        BY <1>1, StepNames DEF MakeLock
      <3> QED BY <3>1, GotoEffect
    <2>2. CASE lockdir
      <3>1. UNCHANGED <<lock, left, asked>>
        BY <1>1, <2>2 DEF MakeLock, Notice, lock, TypeOK
      <3>2. Inside(p)' = FALSE /\ Knows(p)'
        BY <2>1, <2>2 DEF Inside, Knows
      <3> QED BY <1>0, <2>1, <3>1, <3>2, OutsideHolds
    <2>3. CASE ~lockdir
      <3>1. lockdir' /\ UNCHANGED lockpid /\ asked' \subseteq asked
        BY <1>1 DEF MakeLock, Notice
      <3> QED BY <2>1, <2>3, <3>1, EnterHolds
    <2> QED BY <2>2, <2>3
  <1>2. CASE ReadOwner(p)
    <2>1. Only(p) /\ UNCHANGED <<lock, left>> /\ asked' \ {p} = asked \ {p}
      BY <1>2, ReadOwnerEffect DEF ReadOwner
    <2>2. Inside(p)' = FALSE
      BY <1>2, ReadOwnerEffect DEF Inside
    <2>3. Knows(p)'
      BY <1>2, <2>1, ReadOwnerEffect DEF Knows, lock, TypeOK
    <2> QED BY <1>0, <2>1, <2>2, <2>3, OutsideHolds
  <1>3. CASE Probe(p)
    <2>1. Only(p) /\ UNCHANGED <<lock, left>> /\ asked' \ {p} = asked \ {p}
      BY <1>3, ProbeEffect DEF Probe
    <2>2. Inside(p)' = FALSE
      BY <1>3, ProbeEffect DEF Inside
    <2>3. CASE process'[p].pc = "idle"
      BY <1>0, <2>1, <2>2, <2>3, OutsideHolds DEF Knows
    \* The owner on record is the one that holds the lock, if anybody does.
    <2>4. CASE process'[p].pc = "clear" /\ ~Alive(process[p].owner) /\ asked' = asked
      <3>1. p \in asked => lockdir /\ lockpid = process[p].owner /\ lockpid # NoPid
        BY <1>3 DEF LockInv, Asking, Knows, Probe
      <3>2. p \in asked => Nobody
        BY <2>4, <3>1 DEF LockInv, Owned, Inside, Alive, Nobody
      <3>3. Nobody => Nobody'
        BY <2>1, <2>2 DEF Only, Inside, Nobody
      <3>4. Knows(p)'
        BY <2>1, <2>4, <3>1, <3>2, <3>3 DEF Knows, lock
      <3> QED BY <1>0, <2>1, <2>2, <3>4, OutsideHolds
    <2> QED BY <1>3, <2>3, <2>4, ProbeEffect
  <1> QED BY <1>1, <1>2, <1>3

\* The steps of a takeover that is not mistaken.
LEMMA TakeHolds ==
    ASSUME TypeOK, LockInv, NEW p \in Pages, ClearPid(p) \/ ClearDir(p) \/ Retake(p), ~mistaken'
    PROVE  LockInv'
  <1> USE StepSets DEF At
  <1>0. ~Inside(p)
    BY DEF ClearPid, ClearDir, Retake, Inside
  <1>1. CASE ClearPid(p)
    <2>1. Only(p) /\ process'[p].pc = "rmdir" /\ process[p].pc = "clear"
      BY <1>1, GotoEffect, StepNames DEF ClearPid
    <2>2. CASE p \in asked
      <3>1. lockdir' /\ lockpid' = NoPid /\ Nobody /\ lock' # lock
        BY <1>1, <2>2 DEF ClearPid, LockInv, Asking, Knows, lock
      <3>2. asked' = {p}
        BY <1>1, <2>2, <3>1 DEF ClearPid, Notice
      <3>3. Nobody'
        BY <2>1, <3>1 DEF Only, Inside, Nobody
      <3>4. Alone' /\ Owned'
        BY <3>3 DEF Alone, Owned, Inside, Nobody
      <3>5. Asking'
        BY <2>1, <3>1, <3>2, <3>3 DEF Asking, Knows
      <3>6. Answered'
        BY <2>1, <3>2 DEF Answered, Answers, Unrecorded
      <3> QED BY <3>4, <3>5, <3>6 DEF LockInv
    <2>3. CASE p \notin asked
      <3>1. UNCHANGED <<lock, left, asked>>
        BY <1>1, <2>3 DEF ClearPid, Mistake, Notice, TypeOK
      <3>2. Inside(p)' = FALSE /\ Knows(p)' /\ ~Answers(p)
        BY <2>1, <2>3, <3>1 DEF Inside, Knows, Answers, Unrecorded
      <3> QED BY <1>0, <2>1, <3>1, <3>2, OutsideHolds
    <2> QED BY <2>2, <2>3
  <1>2. CASE ClearDir(p)
    <2>1. process[p].pc = "rmdir"
      BY <1>2 DEF ClearDir
    <2>2. CASE lockdir' # lockdir
      <3>1. p \in asked /\ ~lockdir' /\ asked' = {}
        BY <1>2, <2>2 DEF ClearDir, Mistake, lock, TypeOK
      <3>2. Nobody
        BY <2>1, <3>1 DEF LockInv, Asking, Knows
      <3>3. Only(p) /\ process'[p].pc = "retake"
        BY <1>2, <2>2, GotoEffect, StepNames DEF ClearDir
      <3>4. Nobody'
        BY <3>2, <3>3 DEF Only, Inside, Nobody
      <3> QED BY <3>1, <3>4 DEF LockInv, Alone, Owned, Asking, Knows, Answered, Inside, Nobody
    <2>3. CASE lockdir' = lockdir
      <3>1. p \notin asked
        BY <1>2, <2>1, <2>3 DEF ClearDir, LockInv, Asking, Knows
      <3>2. Only(p) /\ process'[p].pc = "idle"
        BY <1>2, <2>3, ExitEffect DEF ClearDir
      <3>3. UNCHANGED <<lock, left>> /\ asked' \ {p} = asked \ {p}
        BY <1>2, <2>3 DEF ClearDir, lock
      <3>4. Inside(p)' = FALSE /\ Knows(p)' /\ ~Answers(p)
        BY <2>1, <3>1, <3>2 DEF Inside, Knows, Answers, Unrecorded
      <3> QED BY <1>0, <3>2, <3>3, <3>4, OutsideHolds
    <2> QED BY <2>2, <2>3
  <1>3. CASE Retake(p)
    <2>1. process[p].pc = "retake" /\ UNCHANGED <<lockpid, left, asked>> /\ lockdir'
      BY <1>3 DEF Retake, history
    <2>2. CASE lockdir
      <3>1. Only(p) /\ process'[p].pc = "idle"
        BY <1>3, <2>2, ExitEffect DEF Retake
      <3>2. UNCHANGED lock
        BY <2>1, <2>2 DEF lock, TypeOK
      <3>3. Inside(p)' = FALSE /\ Knows(p)' /\ ~Answers(p)
        BY <2>1, <3>1 DEF Inside, Knows, Answers, Unrecorded
      <3> QED BY <1>0, <2>1, <3>1, <3>2, <3>3, OutsideHolds
    <2>3. CASE ~lockdir
      <3>1. Only(p) /\ process'[p].pc = "own"
        BY <1>3, <2>3, GotoEffect, StepNames DEF Retake
      <3> QED BY <2>1, <2>3, <3>1, EnterHolds
    <2> QED BY <2>2, <2>3
  <1> QED BY <1>1, <1>2, <1>3

\* Writing the pid, removing it, removing the directory, being killed.
LEMMA OwnerHolds ==
    ASSUME TypeOK, Numbered, LockInv, NEW p \in Pages, Inside(p),
           Own(p) \/ RemovePid(p) \/ RemoveLock(p) \/ Kill(p)
    PROVE  LockInv'
  <1> USE StepSets DEF At
  <1>0. lockdir /\ \A q \in asked : process[q].pc \notin {"clear", "rmdir"}
    BY DEF LockInv, Owned, Asking, Knows, Inside, Nobody, TypeOK
  <1>1. \A q \in Pages : q # p => ~Inside(q)
    BY DEF LockInv, Alone
  <1>2. ASSUME Only(p), process'[p].pc \in {"idle", "rmlock"} \cup Holding,
               process'[p].pc \in Holding => lockdir' /\ lockpid' = process'[p].pid /\ lockpid' # NoPid,
               process'[p].pc = "rmlock" => lockdir' /\ lockpid' = NoPid,
               process'[p].pc = "idle" => ~lockdir' \/ (left' = "named" /\ lockpid' \in Pids) \/ left' = "unnamed",
               asked' \subseteq {p} \/ (asked' \subseteq asked /\ UNCHANGED lock)
        PROVE  LockInv'
    <2>1. \A q \in Pages : q # p => ~Inside(q)'
      BY <1>1, <1>2 DEF Only, Inside
    <2>2. Alone'
      BY <2>1 DEF Alone
    <2>3. Owned'
      BY <1>2, <2>1 DEF Owned, Inside
    <2>4. Asking'
      BY <1>0, <1>2 DEF Only, LockInv, Asking, Knows, lock
    <2>5. Answered'
      BY <1>2 DEF Answered, Answers, Unrecorded
    <2> QED BY <2>2, <2>3, <2>4, <2>5 DEF LockInv
  <1>3. CASE Own(p)
    <2>1. process[p].pid \in Pids /\ process[p].pc = "own"
      BY <1>3 DEF Own, Numbered
    <2>2. lockdir' /\ lockpid' = process[p].pid /\ lockpid' # NoPid
      BY <1>0, <1>3, <2>1 DEF Own, PidOf, LuciPluginAssumption
    <2>3. lock' # lock
      BY <2>1, <2>2 DEF LockInv, Owned, lock
    <2>4. asked' \subseteq {p}
      BY <1>3, <2>3 DEF Own, Notice
    <2> QED BY <1>2, <1>3, <2>2, <2>4, OwnEffect
  <1>4. CASE RemovePid(p)
    <2>1. lockdir' /\ lockpid' = NoPid /\ (asked' \subseteq {p} \/ (asked' \subseteq asked /\ UNCHANGED lock))
      BY <1>0, <1>4 DEF RemovePid, Notice
    <2> QED BY <1>2, <1>4, <2>1, RemovePidEffect
  <1>5. CASE RemoveLock(p)
    <2>1. ~lockdir' /\ lock' # lock
      BY <1>0, <1>5 DEF RemoveLock, LockInv, Owned, lock
    <2>2. asked' \subseteq {p}
      BY <1>5, <2>1 DEF RemoveLock, Notice
    <2> QED BY <1>2, <1>5, <2>1, <2>2, ExitEffect DEF RemoveLock
  <1>6. CASE Kill(p)
    <2>1. UNCHANGED lock /\ asked' \subseteq asked
      BY <1>6 DEF Kill
    <2>2. (left' = "named" /\ lockpid' \in Pids) \/ left' = "unnamed"
      <3>1. CASE process[p].pc \in Holding
        <4>1. lockpid \in Pids
          BY <3>1 DEF LockInv, Owned, TypeOK
        <4> QED BY <1>0, <1>6, <2>1, <3>1, <4>1 DEF Kill, Unrecorded, lock
      <3>2. CASE process[p].pc \in {"own", "rmlock"}
        BY <1>0, <1>6, <3>2 DEF Kill, Unrecorded
      <3> QED BY <3>1, <3>2 DEF Inside
    <2> QED BY <1>2, <1>6, <2>1, <2>2, ExitEffect DEF Kill
  <1> QED BY <1>3, <1>4, <1>5, <1>6

\* A request that is killed outside: a takeover dies, or one that waits.
LEMMA KillHolds ==
    ASSUME TypeOK, LockInv, NEW p \in Pages, ~Inside(p), Kill(p) PROVE LockInv'
  <1> USE StepSets DEF At
  <1>1. Only(p) /\ process'[p].pc = "idle" /\ UNCHANGED lock /\ asked' = asked \ {p}
    BY ExitEffect DEF Kill
  <1>2. Inside(p)' = FALSE /\ Knows(p)'
    BY <1>1 DEF Inside, Knows
  <1>3. CASE Answers(p)
    <2>1. p \in asked /\ process[p].pc = "rmdir" /\ lockdir /\ Nobody
      BY <1>3 DEF Answers, Unrecorded, Inside, LockInv, Asking, Knows
    <2>2. left' = "unnamed"
      BY <2>1 DEF Kill, Unrecorded
    <2>3. Nobody'
      BY <1>1, <2>1 DEF Only, Inside, Nobody
    <2>4. Alone' /\ Owned'
      BY <2>3 DEF Alone, Owned, Inside, Nobody
    <2>5. Asking'
      BY <1>1, <2>1, <2>3 DEF Only, LockInv, Asking, Knows, lock
    <2> QED BY <2>2, <2>4, <2>5 DEF LockInv, Answered
  <1>4. CASE ~Answers(p)
    <2>1. left' = left
      BY <1>4 DEF Kill, Answers
    <2> QED BY <1>1, <1>2, <1>4, <2>1, OutsideHolds
  <1> QED BY <1>3, <1>4

\* A request is sent; if a mistake is over with it, the lock is free.
LEMMA RequestHolds ==
    ASSUME TypeOK, mistaken \/ LockInv, NEW p \in Pages, Request(p), ~mistaken' PROVE LockInv'
  <1> USE StepSets DEF At
  <1>1. Only(p) /\ process'[p].pc = "mkdir" /\ process[p].pc = "idle" /\ UNCHANGED <<lock, left, asked>>
    BY RequestEffect DEF Request
  <1>2. CASE mistaken
    <2>1. ~lockdir /\ \A q \in Pages : process[q].pc = "idle"
      BY <1>2 DEF Request
    <2>2. ~lockdir' /\ \A q \in Pages : process'[q].pc \in {"idle", "mkdir"}
      BY <1>1, <2>1 DEF Only, lock
    <2> QED BY <2>2 DEF LockInv, Alone, Owned, Asking, Knows, Answered, Inside
  <1>3. CASE LockInv
    <2>1. ~Inside(p) /\ Inside(p)' = FALSE /\ ~Answers(p) /\ Knows(p)'
      BY <1>1 DEF Inside, Answers, Unrecorded, Knows
    <2> QED BY <1>1, <1>3, <2>1, OutsideHolds
  <1> QED BY <1>2, <1>3

LEMMA LockStep ==
    ASSUME TypeOK, Numbered, mistaken \/ LockInv, [Next]_vars PROVE mistaken' \/ LockInv'
  <1> SUFFICES ASSUME ~mistaken' PROVE LockInv'
    OBVIOUS
  <1>1. CASE Terminal \/ UNCHANGED vars
    BY <1>1 DEF Terminal, vars, lock, history, LockInv, Alone, Owned, Asking, Knows, Answered, Answers,
                Unrecorded, Inside, Nobody, At
  <1>2. ASSUME NEW p \in Pages, Request(p) PROVE LockInv'
    BY <1>2, RequestHolds
  <1>3. ASSUME NEW p \in Pages, Proceed(p) \/ Terminate(p) \/ Kill(p) PROVE LockInv'
    <2>1. LockInv
      BY <1>3, StayingEffect DEF Proceed, Acquire, MakeLock, ReadOwner, Probe, ClearPid, ClearDir, Retake, Own,
             Cleanup, RemovePid, RemoveLock, Kill, Mistake, Save, Staying, Passing, Failing, history
    <2>2. CASE Staying(p)
      BY <2>1, <2>2, StayingEffect, InsideHolds
    <2>3. CASE MakeLock(p) \/ ReadOwner(p) \/ Probe(p)
      BY <2>1, <2>3, AskHolds
    <2>4. CASE ClearPid(p) \/ ClearDir(p) \/ Retake(p)
      BY <2>1, <2>4, TakeHolds
    <2>5. CASE Own(p) \/ RemovePid(p) \/ RemoveLock(p)
      <3>1. Inside(p)
        BY <2>5, StepSets DEF Own, RemovePid, RemoveLock, Inside, At
      <3> QED BY <2>1, <2>5, <3>1, OwnerHolds
    <2>6. CASE Kill(p)
      BY <2>1, <2>6, OwnerHolds, KillHolds
    <2> QED BY <1>3, <2>2, <2>3, <2>4, <2>5, <2>6
            DEF Proceed, Acquire, Save, Cleanup, Staying, Passing, Failing
  <1> QED BY <1>1, <1>2, <1>3 DEF Next

LEMMA LockInitially == Init => Numbered /\ LockInv
  <1> SUFFICES ASSUME Init PROVE Numbered /\ LockInv
    OBVIOUS
  <1>1. ~lockdir /\ \A p \in Pages : process[p].pc = "idle"
    BY DEF Init, NoProcess
  <1> QED BY <1>1, StepSets DEF Numbered, LockInv, Alone, Owned, Asking, Knows, Answered, Inside, At

LEMMA LockAlways == Spec => [](TypeOK /\ Numbered /\ (mistaken \/ LockInv))
  <1>1. Init => TypeOK /\ Numbered /\ (mistaken \/ LockInv)
    BY TypeInitially, LockInitially
  <1>2. TypeOK /\ Numbered /\ (mistaken \/ LockInv) /\ [Next]_vars
           => (TypeOK /\ Numbered /\ (mistaken \/ LockInv))'
    BY TypeStep, NumberedStep, LockStep
  <1> QED BY <1>1, <1>2, PTL DEF Spec

\* One request works at a time, whichever requests are killed wherever, their
\* locks taken over and their pids given again to whomever, unless a takeover
\* has removed a lock that changed hands after it read the owner
\* (config.js:44-48).
THEOREM OneRequestAtATime == Spec => []OneAtATime
  <1>1. mistaken \/ LockInv => OneAtATime
    BY DEF LockInv, Alone, Inside, OneAtATime
  <1> QED BY <1>1, LockAlways, PTL

\* However a request ends, it takes its lock along, unless it was killed; then
\* the lock names it, unless it was killed beside the write or the removal of
\* its pid (rpcd/fakeflow:15, 39-43).
THEOREM EveryLockAnswered == Spec => []LocksAreAnswered
  <1>1. mistaken \/ LockInv => LocksAreAnswered
    BY DEF LockInv, Answered, Answers, LocksAreAnswered
  <1> QED BY <1>1, LockAlways, PTL

----------------------------------------------------------------------------
(* What the saves promise because of the lock.                             *)

\* The step of a page is outside of the lock, or one of these.
LEMMA PageSteps ==
    ASSUME TypeOK, NEW p \in Pages, Request(p) \/ Proceed(p) \/ Terminate(p) \/ Kill(p)
    PROVE  \/ UNCHANGED <<files, page>> /\ process'[p].pc \notin Holding
           \/ Own(p) \/ Staying(p)
  <1> USE StepSets
  <1>1. CASE Request(p) \/ Kill(p) \/ ReadOwner(p) \/ Probe(p) \/ RemovePid(p)
    BY <1>1, RequestEffect, ExitEffect, ReadOwnerEffect, ProbeEffect, RemovePidEffect
       DEF Request, Kill, ReadOwner, Probe, RemovePid
  <1>2. CASE MakeLock(p) \/ ClearPid(p)
    <2>1. \E step \in {"owner", "own", "rmdir"} : Goto(p, step) /\ step \in Steps
      BY <1>2, StepNames DEF MakeLock, ClearPid
    <2> QED BY <1>2, <2>1, GotoEffect DEF MakeLock, ClearPid
  <1>3. CASE ClearDir(p) \/ Retake(p) \/ RemoveLock(p)
    <2>1. Exit(p) \/ \E step \in {"retake", "own"} : Goto(p, step) /\ step \in Steps
      BY <1>3, StepNames DEF ClearDir, Retake, RemoveLock
    <2> QED BY <1>3, <2>1, GotoEffect, ExitEffect DEF ClearDir, Retake, RemoveLock
  <1> QED BY <1>1, <1>2, <1>3 DEF Proceed, Acquire, Save, Cleanup, Staying, Passing, Failing

\* The files change by a request that holds the lock, the page by the reply to
\* it, and what a terminal has overtaken stays so for the others.
LEMMA OwnPage ==
    ASSUME TypeOK, NEW p \in Pages, Request(p) \/ Proceed(p) \/ Terminate(p) \/ Kill(p)
    PROVE  /\ \A q \in Pages : q # p => page'[q] = page[q] /\ (q \in touched => q \in touched')
           /\ UNCHANGED files \/ process[p].pc \in Holding
  <1>1. page' = page \/ Reply(p)
    BY DEF Request, Proceed, Terminate, Kill, Acquire, MakeLock, ReadOwner, Probe, ClearPid, ClearDir, Retake,
           Own, Work, Read, Save, Refuse, Check, Backup, Commit, CommitFails, Replace, Restore, Cleanup,
           RemovePid, RemoveLock
  <1>2. touched' = touched \/ touched' = touched \ {p}
    BY DEF Request, Proceed, Terminate, Kill, Acquire, MakeLock, ReadOwner, Probe, ClearPid, ClearDir, Retake,
           Own, Work, Read, Save, Refuse, Check, Backup, Commit, CommitFails, Replace, Restore, Reply, Cleanup,
           RemovePid, RemoveLock, history
  <1>3. UNCHANGED files \/ process[p].pc \in Holding
    BY DEF Request, Proceed, Terminate, Kill, Acquire, MakeLock, ReadOwner, Probe, ClearPid, ClearDir, Retake,
           Own, Work, Read, Save, Refuse, Check, Backup, Commit, CommitFails, Replace, Restore, Reply,
           Cleanup, RemovePid, RemoveLock, At, Holding
  <1> QED BY <1>1, <1>2, <1>3 DEF Reply, TypeOK

\* Without a mistaken takeover, a request that works has the files to itself:
\* nothing is expected of them where the others are.
LEMMA OthersWait ==
    ASSUME TypeOK, mistaken \/ LockInv, ~mistaken',
           NEW p \in Pages, Request(p) \/ Proceed(p) \/ Terminate(p) \/ Kill(p)
    PROVE  \/ UNCHANGED files /\ ~mistaken
           \/ \A q \in Pages : q # p => process[q].pc \notin Holding
  <1>1. CASE mistaken
    <2>1. Request(p)
      BY <1>1, StayingEffect DEF Proceed, Terminate, Kill, Acquire, MakeLock, ReadOwner, Probe, ClearPid, ClearDir,
             Retake, Own, Cleanup, RemovePid, RemoveLock, Mistake, Save, Staying, Passing, Failing, history
    <2> QED BY <1>1, <2>1, StepSets DEF Request, At
  <1>2. CASE ~mistaken
    BY <1>2, OwnPage DEF LockInv, Alone, Inside
  <1> QED BY <1>1, <1>2

\* Where the step of a page leaves its own request.
LEMMA CurrentStep ==
    ASSUME TypeOK, NEW p \in Pages, Own(p) \/ Staying(p), p \in touched \/ Current(p)
    PROVE  p \in touched' \/ Current(p)'
  <1> USE DEF At
  <1>1. CASE Own(p)
    BY <1>1, OwnEffect DEF Current
  <1>2. CASE Work(p) \/ Refuse(p) \/ Reply(p)
    <2>1. process'[p].pc = "unlock"
      BY <1>2, GotoEffect, StepNames DEF Work, Refuse, Reply
    <2> QED BY <2>1 DEF Current
  <1>3. CASE Failing(p)
    BY <1>3, FailingEffect DEF Current
  <1>4. CASE Read(p)
    BY <1>4, ReadEffect DEF Read, files, Current
  <1>5. CASE Check(p)
    BY <1>5, CheckEffect DEF Check, Expected, files, Current, Revision
  <1>6. CASE Backup(p)
    <2>1. process'[p].pc = "unlock" \/ (process'[p].pc = "commit" /\ backup' = config)
      BY <1>6, GotoEffect, StepNames DEF Backup, Copy
    <2> QED BY <1>6, <2>1 DEF Backup, history, Current, Revision
  <1>7. CASE Commit(p)
    <2>1. process'[p].pc \in {"replace", "unlock"}
      BY <1>7, CommitEffect
    <2>2. p \notin touched => config = page[p].revision.config /\ backup = config
      BY <1>7 DEF Commit, Current, Revision
    <2> QED BY <1>7, <2>1, <2>2 DEF Commit, history, Current
  <1>8. CASE Replace(p)
    BY <1>8, ReplaceEffect DEF Replace, Current
  <1> QED BY <1>1, <1>2, <1>3, <1>4, <1>5, <1>6, <1>7, <1>8 DEF Staying, Passing

LEMMA ShownStep ==
    ASSUME TypeOK, UpdateInv, NEW p \in Pages, Reply(p) PROVE Shown'
  <1> USE DEF At
  <1>1. page'[p] = [base |-> process[p].edit.config, revision |-> Revision, torn |-> mistaken \/ p \in touched]
    BY DEF Reply, TypeOK
  <1>2. page'[p].base = process[p].edit.config /\ page'[p].revision = Revision
        /\ page'[p].torn = (mistaken \/ p \in touched)
    BY <1>1
  <1>3. Revision.config = config
    BY DEF Revision
  <1>4. page'[p].torn \/ page'[p].base = page'[p].revision.config
    BY <1>2, <1>3 DEF Reply, UpdateInv, Current
  <1>5. \A q \in Pages : q # p => page'[q] = page[q]
    BY DEF Reply, TypeOK
  <1> QED BY <1>4, <1>5 DEF UpdateInv, Shown

LEMMA UpdateStep ==
    ASSUME TypeOK, mistaken \/ LockInv, UpdateInv, [Next]_vars PROVE UpdateInv'
  <1> USE DEF At
  <1>1. CASE UNCHANGED vars
    BY <1>1 DEF vars, files, history, UpdateInv, Shown, Current, Revision
  <1>2. CASE Terminal
    <2>1. \A p \in Pages : p \in touched' \/ process[p].pc \notin Holding
      BY <1>2 DEF Terminal
    <2>2. touched \subseteq touched' /\ UNCHANGED <<process, page, mistaken>>
      BY <1>2 DEF Terminal
    <2> QED BY <2>1, <2>2 DEF UpdateInv, Shown, Current, Holding
  <1>3. ASSUME NEW p \in Pages, Request(p) \/ Proceed(p) \/ Terminate(p) \/ Kill(p) PROVE UpdateInv'
    <2>1. Shown'
      <3>1. page' = page \/ Reply(p)
        BY <1>3 DEF Request, Proceed, Terminate, Kill, Acquire, MakeLock, ReadOwner, Probe, ClearPid, ClearDir,
               Retake, Own, Work, Read, Save, Refuse, Check, Backup, Commit, CommitFails, Replace, Restore,
               Cleanup, RemovePid, RemoveLock
      <3> QED BY <3>1, ShownStep DEF UpdateInv, Shown
    <2>2. SUFFICES ASSUME ~mistaken', NEW q \in Pages PROVE q \in touched' \/ Current(q)'
      BY <2>1 DEF UpdateInv
    <2>3. Only(p) /\ ((UNCHANGED files /\ ~mistaken) \/ \A r \in Pages : r # p => process[r].pc \notin Holding)
      BY <1>3, <2>2, OthersWait, ProcessTypes
    <2>4. CASE q # p
      BY <1>3, <2>3, <2>4, OwnPage DEF UpdateInv, Current, Only, files, Revision, Holding
    <2>5. CASE q = p
      <3>1. CASE process'[p].pc \notin Holding
        BY <2>5, <3>1 DEF Current, Holding
      <3>2. CASE Own(p) \/ Staying(p)
        <4>1. mistaken' = mistaken
          BY <3>2, StayingEffect DEF Own
        <4>2. p \in touched \/ Current(p)
          BY <2>2, <4>1 DEF UpdateInv
        <4> QED BY <2>5, <3>2, <4>2, CurrentStep
      <3> QED BY <1>3, <3>1, <3>2, PageSteps
    <2> QED BY <2>4, <2>5
  <1> QED BY <1>1, <1>2, <1>3 DEF Next

LEMMA UpdateInitially == Init => UpdateInv
  BY DEF Init, NoProcess, UpdateInv, Shown, Current, Revision, At

\* A save never replaces a configuration or a switch that its page was not
\* shown, and what it replaces is in the backup by then; but for a mistaken
\* takeover and for an edit in a terminal while the request that saves, or the
\* one that gave the page what it shows, is between its looks (INSTALL.md:32-34).
THEOREM SavesLoseNothing == Spec => []NoLostUpdate
  <1>1. UpdateInv => NoLostUpdate
    <2> SUFFICES ASSUME UpdateInv, NEW p \in Pages, ~mistaken, p \notin touched, ~page[p].torn
                 PROVE  GoesByThePage(p)
      BY DEF NoLostUpdate
    <2>1. Revision.config = config /\ Revision.enabled = enabled
      BY DEF Revision
    <2>2. page[p].base = page[p].revision.config /\ Current(p)
      BY DEF UpdateInv, Shown
    <2> QED BY <2>1, <2>2 DEF Current, At, GoesByThePage
  <1>2. Init => UpdateInv
    BY UpdateInitially
  <1>3. TypeOK /\ Numbered /\ (mistaken \/ LockInv) /\ UpdateInv /\ [Next]_vars => UpdateInv'
    BY UpdateStep
  <1> QED BY <1>1, <1>2, <1>3, LockAlways, PTL DEF Spec

----------------------------------------------------------------------------
\* The steps of another request leave a save where it is; so do its own, until
\* it gets to the switch and to the file.
LEMMA SortedStep ==
    ASSUME TypeOK, Sorted, NEW p \in Pages, Request(p) \/ Proceed(p) \/ Terminate(p) \/ Kill(p) PROVE Sorted'
  <1> USE DEF At
  <1>1. Only(p)
    BY ProcessTypes
  <1>2. /\ process'[p].pc \in {"work", "read", "revision"} => process'[p].op # "save"
        /\ process'[p].pc = "reply" => process'[p].saved
    <2>1. CASE process'[p].pc \notin Holding
      BY <2>1 DEF Holding
    <2>2. CASE Own(p)
      BY <2>2, OwnEffect
    <2>3. CASE Passing(p)
      <3>1. \E step \in {"unlock", "commit"} : Goto(p, step) /\ step \in Steps
        BY <2>3, StepNames DEF Passing, Work, Reply, Refuse, Backup
      <3> QED BY <3>1, GotoEffect
    <2>4. CASE Failing(p)
      BY <2>4, FailingEffect
    <2>5. CASE Read(p)
      BY <2>5, ReadEffect DEF Read, Sorted
    <2>6. CASE Check(p) \/ Commit(p) \/ Replace(p)
      BY <2>6, CheckEffect, CommitEffect, ReplaceEffect
    <2> QED BY <2>1, <2>2, <2>3, <2>4, <2>5, <2>6, PageSteps DEF Staying
  <1> QED BY <1>1, <1>2 DEF Sorted, Only

LEMMA UnchangedStep ==
    ASSUME TypeOK, Sorted, NEW p \in Pages, Own(p) \/ Staying(p), p \in touched \/ Unchanged(p)
    PROVE  p \in touched' \/ Unchanged(p)'
  <1> USE DEF At
  <1>1. CASE Own(p)
    BY <1>1, OwnEffect DEF Own, files, Unchanged, Revision
  <1>2. CASE Work(p) \/ Reply(p)
    <2>1. process'[p].pc = "unlock" /\ SameData(process'[p], process[p])
      BY <1>2, GotoEffect, StepNames DEF Work, Reply
    <2>2. process[p].op # "save" \/ process[p].saved
      BY <1>2 DEF Work, Reply, Sorted
    <2> QED BY <2>1, <2>2 DEF Unchanged, SameData
  <1>3. CASE Read(p)
    BY <1>3, ReadEffect DEF Unchanged
  <1>4. CASE Refuse(p) \/ Backup(p)
    <2>1. process'[p].pc \in {"unlock", "commit"} /\ SameData(process'[p], process[p])
      BY <1>4, GotoEffect, StepNames DEF Refuse, Backup
    <2>2. UNCHANGED <<config, enabled, touched>> /\ (p \in touched \/ Revision = process[p].before)
      BY <1>4 DEF Refuse, Backup, files, history, Unchanged
    <2>3. Revision.config = config /\ Revision.enabled = enabled /\ Revision' = Revision
      BY <2>2 DEF Revision
    <2> QED BY <2>1, <2>2, <2>3 DEF Unchanged, SameData
  <1>5. CASE Check(p)
    BY <1>5, CheckEffect DEF Check, files, Unchanged, Revision
  <1>6. CASE Commit(p)
    <2>1. UNCHANGED <<config, touched>> /\ (p \in touched \/ Revision = process[p].before)
      BY <1>6 DEF Commit, history, Unchanged
    <2>2. Revision.config = config /\ Revision.enabled = enabled
      BY DEF Revision
    <2> QED BY <1>6, <2>1, <2>2, CommitEffect DEF Unchanged, SameData
  <1>7. CASE CommitFails(p)
    <2>1. UNCHANGED <<config, touched>> /\ (p \in touched \/ Revision = process[p].before)
      BY <1>7 DEF CommitFails, history, Unchanged
    <2>2. Revision.config = config
      BY DEF Revision
    <2>3. process'[p].pc = "unlock" /\ process'[p].failed = "commit" /\ process'[p].before = process[p].before
      BY <1>7, FailedEffect DEF CommitFails
    <2> QED BY <2>1, <2>2, <2>3 DEF Unchanged
  <1>8. CASE Replace(p)
    <2>1. p \in touched \/ (config = process[p].before.config /\ process[p].old = process[p].before.enabled)
      BY <1>8 DEF Replace, Unchanged
    <2>2. CASE process'[p].pc = "reply"
      BY <2>2 DEF Unchanged
    <2>3. CASE process'[p].pc = "restore" /\ SameData(process'[p], process[p]) /\ config' = config
      <3>1. touched' = touched
        <4>1. process'[p].pc # "reply"
          BY <2>3
        <4>2. process' = [process EXCEPT ![p].pc = "reply", ![p].saved = TRUE] => process'[p].pc = "reply"
          BY DEF TypeOK, Process
        <4> QED BY <1>8, <4>1, <4>2 DEF Replace
      <3> QED BY <2>1, <2>3, <3>1 DEF Unchanged, SameData
    <2> QED BY <1>8, <2>2, <2>3, ReplaceEffect
  <1>9. CASE Restore(p)
    <2>1. touched' = touched /\ config' = config
      BY <1>9 DEF Restore, history
    <2>2. p \in touched \/ (config = process[p].before.config /\ process[p].old = process[p].before.enabled)
      BY <1>9 DEF Restore, Unchanged
    <2>3. CASE enabled' = process[p].old /\ Goto(p, "unlock")
      <3>1. process'[p].pc = "unlock" /\ SameData(process'[p], process[p])
        BY <2>3, GotoEffect, StepNames
      <3> QED BY <2>1, <2>2, <2>3, <3>1 DEF Unchanged, SameData
    <2>4. CASE process' = [process EXCEPT ![p].pc = "unlock", ![p].failed = "restore"]
      <3>1. process'[p].pc = "unlock" /\ process'[p].failed = "restore" /\ process'[p].before = process[p].before
        BY <2>4, FailedEffect
      <3> QED BY <2>1, <2>2, <3>1 DEF Unchanged
    <2> QED BY <1>9, <2>3, <2>4 DEF Restore, Restored
  <1>10. CASE Terminate(p)
    <2>1. process'[p].pc = "unlock" /\ process'[p].failed = "signal"
      BY <1>10, FailedEffect DEF Terminate
    <2> QED BY <2>1 DEF Unchanged
  <1> QED BY <1>1, <1>2, <1>3, <1>4, <1>5, <1>6, <1>7, <1>8, <1>9, <1>10 DEF Staying, Passing, Failing

LEMMA SaveStep ==
    ASSUME TypeOK, mistaken \/ LockInv, SaveInv, [Next]_vars PROVE SaveInv'
  <1> USE DEF At
  <1>1. CASE UNCHANGED vars
    BY <1>1 DEF vars, files, history, SaveInv, Sorted, Unchanged, Revision
  <1>2. CASE Terminal
    <2>1. \A p \in Pages : p \in touched' \/ process[p].pc \notin Holding
      BY <1>2 DEF Terminal
    <2>2. touched \subseteq touched' /\ UNCHANGED <<process, mistaken>>
      BY <1>2 DEF Terminal
    <2> QED BY <2>1, <2>2 DEF SaveInv, Sorted, Unchanged, Holding
  <1>3. ASSUME NEW p \in Pages, Request(p) \/ Proceed(p) \/ Terminate(p) \/ Kill(p) PROVE SaveInv'
    <2>1. Sorted'
      BY <1>3, SortedStep DEF SaveInv
    <2>2. SUFFICES ASSUME ~mistaken', NEW q \in Pages PROVE q \in touched' \/ Unchanged(q)'
      BY <2>1 DEF SaveInv
    <2>3. Only(p) /\ ((UNCHANGED files /\ ~mistaken) \/ \A r \in Pages : r # p => process[r].pc \notin Holding)
      BY <1>3, <2>2, OthersWait, ProcessTypes
    <2>4. CASE q # p
      BY <1>3, <2>3, <2>4, OwnPage DEF SaveInv, Unchanged, Only, files, Revision, Holding
    <2>5. CASE q = p
      <3>1. CASE process'[p].pc \notin Holding
        BY <2>5, <3>1 DEF Unchanged, Holding
      <3>2. CASE Own(p) \/ Staying(p)
        <4>1. mistaken' = mistaken
          BY <3>2, StayingEffect DEF Own
        <4>2. Sorted /\ (p \in touched \/ Unchanged(p))
          BY <2>2, <4>1 DEF SaveInv
        <4> QED BY <2>5, <3>2, <4>2, UnchangedStep
      <3> QED BY <1>3, <3>1, <3>2, PageSteps
    <2> QED BY <2>4, <2>5
  <1> QED BY <1>1, <1>2, <1>3 DEF Next

LEMMA SaveInitially == Init => SaveInv
  <1>1. NoProcess.pc = "idle"
    BY DEF NoProcess
  <1>2. Init => \A p \in Pages : process[p].pc = "idle"
    BY <1>1 DEF Init
  <1> QED BY <1>2 DEF SaveInv, Sorted, Unchanged, At

\* A save that is answered without "saved" has not changed the file, whichever
\* command failed, and the switch only if its commit or its restoring failed;
\* but for a mistaken takeover or an edit in a terminal meanwhile.
THEOREM UnsavedChangeNothing == Spec => []UnsavedChangesNothing
  <1>1. SaveInv => UnsavedChangesNothing
    BY DEF SaveInv, Unchanged, UnsavedChangesNothing
  <1>2. Init => SaveInv
    BY SaveInitially
  <1>3. TypeOK /\ Numbered /\ (mistaken \/ LockInv) /\ SaveInv /\ [Next]_vars => SaveInv'
    BY SaveStep
  <1> QED BY <1>1, <1>2, <1>3, LockAlways, PTL DEF Spec
=============================================================================
