----------------------------- MODULE LuciPlugin -----------------------------
(***************************************************************************)
(* The rpcd plugin of the LuCI page,                                       *)
(* packaging/luci/root/usr/libexec/rpcd/fakeflow: one shell process per    *)
(* request, a directory as their lock, the configuration file and the UCI  *)
(* switch as what they edit.  The boot link is left out: it is set after   *)
(* everything that can be refused, and nothing follows from its failure.   *)
(*                                                                         *)
(* A page loads the configuration with a revision and hands the revision   *)
(* back when it saves.  A request may be refused, fail at any command, be  *)
(* terminated or killed; a lock whose owner is dead is taken over.         *)
(***************************************************************************)
EXTENDS Integers

CONSTANTS
    Pages,       \* browser pages, each with one request at a time
    Pids,        \* the process ids, given again in any order
    NoPid,       \* no file "pid" in the lock directory
    Contents,    \* what the configuration file may hold
    Edits        \* the configurations with a switch that pages and terminals write

ASSUME LuciPluginAssumption ==
    /\ NoPid \notin Pids
    /\ Contents # {}
    /\ Edits \subseteq [config : Contents, enabled : BOOLEAN]

VARIABLES
    config,      \* $config_file
    backup,      \* /etc/fakeflow.toml.luci-backup
    enabled,     \* fakeflow.main.enabled as uci get reads it, committed or only set
    lockdir,     \* $lockdir exists
    lockpid,     \* $lockdir/pid
    process,     \* per page: the shell process of its request
    page,        \* per page: the configuration it shows and the revision it holds
    asked,       \* history: the requests that saw the lock as it still is
    mistaken,    \* history: a takeover removed a lock that it had not asked about
    left,        \* history: whose lock a killed request has left
    touched      \* history: the requests under way that a terminal has overtaken

files == <<config, backup, enabled>>
lock == <<lockdir, lockpid>>
history == <<asked, mistaken, left, touched>>
vars == <<files, lock, process, page, history>>

----------------------------------------------------------------------------
Taking == {"probe", "clear", "rmdir", "retake"}
Holding == {"work", "read", "revision", "check", "backup", "commit", "replace", "restore",
            "reply", "unlock"}
Steps == {"idle", "mkdir", "owner", "own", "rmlock"} \cup Taking \cup Holding

Revision == [config |-> config, enabled |-> enabled]
Revisions == [config : Contents, enabled : BOOLEAN]
NoEdit == [config |-> CHOOSE c \in Contents : TRUE, enabled |-> FALSE]

\* op is $2, with validate and action as "other"; pid is $$, edit the content
\* and enabled of a save or what get has read, old is old_enabled.  Histories:
\* before is what the files were when a save got the lock or last looked at
\* them, failed the command or signal after which the switch stays as it is.
Process == [pc : Steps, op : {"get", "other", "save"},
            pid : Pids \cup {NoPid}, owner : Pids \cup {NoPid},
            edit : Revisions, old : BOOLEAN, saved : BOOLEAN, before : Revisions,
            failed : {"none", "commit", "restore", "signal"}]
NoProcess == [pc |-> "idle", op |-> "get", pid |-> NoPid, owner |-> NoPid,
              edit |-> NoEdit, old |-> FALSE, saved |-> FALSE, before |-> NoEdit, failed |-> "none"]

\* A request of the plugin has this pid.
Alive(n) == \E p \in Pages : process[p].pid = n

Init ==
    /\ config \in Contents /\ backup = config
    /\ enabled = FALSE
    /\ lockdir = FALSE /\ lockpid = NoPid
    /\ process = [p \in Pages |-> NoProcess]
    /\ page = [p \in Pages |-> [base |-> config, revision |-> Revision, torn |-> FALSE]]
    /\ asked = {} /\ mistaken = FALSE /\ left = "none" /\ touched = {}

At(p, step) == process[p].pc = step
Goto(p, step) == process' = [process EXCEPT ![p].pc = step]
Exit(p) == process' = [process EXCEPT ![p] = NoProcess]

\* What p has just done to the lock is news to the others.
Notice(p) == asked' = IF UNCHANGED lock THEN asked ELSE asked \cap {p}

----------------------------------------------------------------------------
\* A page sends a request.  A mistake is over when nobody runs and nothing of
\* it is left.
Request(p) ==
    /\ At(p, "idle")
    /\ \E n \in Pids, o \in {"get", "other", "save"}, e \in Edits \cup {NoEdit} :
          /\ ~Alive(n)
          /\ IF o = "save" THEN e \in Edits ELSE e = NoEdit
          /\ process' = [process EXCEPT ![p] =
                [NoProcess EXCEPT !.pc = "mkdir", !.op = o, !.pid = n, !.edit = e]]
    /\ mistaken' = (mistaken /\ (lockdir \/ \E q \in Pages : ~At(q, "idle")))
    /\ UNCHANGED <<files, lock, page, asked, left, touched>>

\* acquire(): mkdir is the test and the lock.
MakeLock(p) ==
    /\ At(p, "mkdir")
    /\ lockdir' = TRUE
    /\ Goto(p, IF lockdir THEN "owner" ELSE "own")
    /\ UNCHANGED <<files, lockpid, page, mistaken, left, touched>>
    /\ Notice(p)

\* No owner on record: busy.
ReadOwner(p) ==
    /\ At(p, "owner")
    /\ IF lockpid = NoPid THEN Exit(p) /\ UNCHANGED asked
       ELSE /\ process' = [process EXCEPT ![p].pc = "probe", ![p].owner = lockpid]
            /\ asked' = asked \cup {p}
    /\ UNCHANGED <<files, lock, page, mistaken, left, touched>>

\* A mutant that skips kill -0.
AnyOwner(p) == TRUE

\* The owner has no process that the plugin started.
OwnerGone(p) == ~Alive(process[p].owner)

\* An owner that lives: busy.  kill -0 answers for any process of the router, so
\* that the pid of a dead owner may be taken for a live one at any time.
Probe(p) ==
    /\ At(p, "probe")
    /\ \/ Exit(p) /\ asked' = asked \ {p}
       \/ /\ OwnerGone(p)
          /\ process' = [process EXCEPT ![p].pc = "clear", ![p].owner = NoPid]
          /\ UNCHANGED asked
    /\ UNCHANGED <<files, lock, page, mistaken, left, touched>>

\* What the takeover has just removed is not the lock it has asked about.
Mistake(p) == mistaken' = (mistaken \/ (p \notin asked /\ lock' # lock))

ClearPid(p) ==
    /\ At(p, "clear")
    /\ lockpid' = NoPid
    /\ Goto(p, "rmdir")
    /\ UNCHANGED lockdir
    /\ Notice(p) /\ Mistake(p)
    /\ UNCHANGED <<files, page, left, touched>>

\* rmdir fails on a directory that is gone or has a pid again: busy.
ClearDir(p) ==
    /\ At(p, "rmdir")
    /\ lockdir' = (lockdir /\ lockpid # NoPid)
    /\ UNCHANGED lockpid
    /\ IF lockdir' # lockdir THEN Goto(p, "retake") /\ left' = "none" ELSE Exit(p) /\ UNCHANGED left
    /\ asked' = IF lockdir' # lockdir THEN {} ELSE asked \ {p}
    /\ Mistake(p)
    /\ UNCHANGED <<files, page, touched>>

Retake(p) ==
    /\ At(p, "retake")
    /\ lockdir' = TRUE
    /\ IF lockdir THEN Exit(p) ELSE Goto(p, "own")
    /\ UNCHANGED <<files, lockpid, page, history>>

\* A mutant that leaves the lock without a pid.
PidOfNobody(p) == NoPid

PidOf(p) == process[p].pid

FirstStep(o) == CASE o = "get" -> "read" [] o = "save" -> "check" [] OTHER -> "work"

\* The pid is written, or lost with a directory that another request removed.
Own(p) ==
    /\ At(p, "own")
    /\ lockpid' = IF lockdir THEN PidOf(p) ELSE lockpid
    /\ UNCHANGED lockdir
    /\ process' = [process EXCEPT ![p].pc = FirstStep(process[p].op),
                                  ![p].before = IF process[p].op = "save" THEN Revision ELSE @]
    /\ Notice(p)
    /\ UNCHANGED <<files, page, mistaken, left, touched>>

----------------------------------------------------------------------------
\* validate and action: nothing of this model changes, but it takes its time.
Work(p) == At(p, "work") /\ Goto(p, "unlock") /\ UNCHANGED <<files, lock, page, history>>

\* get: first the configuration, then the revision.
Read(p) ==
    /\ At(p, "read")
    /\ process' = [process EXCEPT ![p].pc = "revision", ![p].edit.config = config]
    /\ touched' = touched \ {p}
    /\ UNCHANGED <<files, lock, page, asked, mistaken, left>>

\* The reply of get, and of a save that was made, after the boot link and
\* run_action() for as long as the service takes: its form is what the page shows
\* then, and the revision comes with the reply.  They may not fit, a history, if
\* the files were edited in between.
Reply(p) ==
    /\ At(p, "revision") \/ At(p, "reply")
    /\ page' = [page EXCEPT ![p] = [base |-> process[p].edit.config, revision |-> Revision,
                                    torn |-> mistaken \/ p \in touched]]
    /\ Goto(p, "unlock")
    /\ UNCHANGED <<files, lock, history>>

----------------------------------------------------------------------------
\* The request, the validator, a symbolic link or a manual instance refuse.
Refuse(p) == At(p, "check") /\ Goto(p, "unlock") /\ UNCHANGED <<files, lock, page, history>>

\* A mutant without the revision check.
AnyRevision(p) == TRUE

Expected(p) == page[p].revision = Revision

Check(p) ==
    /\ At(p, "check") /\ Expected(p)
    /\ process' = [process EXCEPT ![p].pc = "backup", ![p].before = Revision]
    /\ touched' = touched \ {p}
    /\ UNCHANGED <<files, lock, page, asked, mistaken, left>>

Copy(p) == config

Backup(p) ==
    /\ At(p, "backup")
    /\ \/ backup' = Copy(p) /\ Goto(p, "commit")
       \/ UNCHANGED backup /\ Goto(p, "unlock")
    /\ UNCHANGED <<config, enabled, lock, page, history>>

\* uci set and uci commit, or a set that fails.
Commit(p) ==
    /\ At(p, "commit")
    /\ \/ /\ enabled' = process[p].edit.enabled
          /\ process' = [process EXCEPT ![p].pc = "replace", ![p].old = enabled]
       \/ UNCHANGED enabled /\ Goto(p, "unlock")
    /\ UNCHANGED <<config, backup, lock, page, history>>

\* The commit fails and the switch stays set, which uci get and the service
\* read all the same.
CommitFails(p) ==
    /\ At(p, "commit")
    /\ enabled' = process[p].edit.enabled
    /\ process' = [process EXCEPT ![p].pc = "unlock", ![p].failed = "commit"]
    /\ UNCHANGED <<config, backup, lock, page, history>>

Replace(p) ==
    /\ At(p, "replace")
    /\ \/ /\ config' = process[p].edit.config
          /\ process' = [process EXCEPT ![p].pc = "reply", ![p].saved = TRUE]
          /\ touched' = touched \ {p}
       \/ UNCHANGED <<config, touched>> /\ Goto(p, "restore")
    /\ UNCHANGED <<backup, enabled, lock, page, asked, mistaken, left>>

\* A mutant that always switches off.
Off(p) == FALSE

Restored(p) == process[p].old

\* The switch is put back, or the uci set fails, which nobody looks at.
Restore(p) ==
    /\ At(p, "restore")
    /\ \/ enabled' = Restored(p) /\ Goto(p, "unlock")
       \/ UNCHANGED enabled /\ process' = [process EXCEPT ![p].pc = "unlock", ![p].failed = "restore"]
    /\ UNCHANGED <<config, backup, lock, page, history>>

----------------------------------------------------------------------------
\* cleanup(): rm -f, then rmdir, whoever's lock it is by now; also on a signal
\* before the pid is written.  All else that the request knew is forgotten.
RemovePid(p) ==
    /\ At(p, "unlock") \/ At(p, "own")
    /\ lockpid' = NoPid
    /\ UNCHANGED lockdir
    /\ process' = [process EXCEPT ![p] = [NoProcess EXCEPT !.pc = "rmlock", !.pid = process[p].pid]]
    /\ Notice(p)
    /\ touched' = touched \ {p}
    /\ UNCHANGED <<files, page, mistaken, left>>

RemoveLock(p) ==
    /\ At(p, "rmlock")
    /\ lockdir' = (lockdir /\ lockpid # NoPid)
    /\ UNCHANGED lockpid
    /\ Exit(p)
    /\ Notice(p)
    /\ left' = IF lockdir' THEN left ELSE "none"
    /\ UNCHANGED <<files, page, mistaken, touched>>

\* SIGTERM while it holds the lock: cleanup(), and no reply.
Terminate(p) ==
    /\ process[p].pc \in Holding
    /\ process' = [process EXCEPT ![p].pc = "unlock", ![p].failed = "signal"]
    /\ UNCHANGED <<files, lock, page, history>>

\* Where a request that dies leaves a lock directory without an owner.
Unrecorded(p) == process[p].pc \in {"own", "rmlock"} \/ (At(p, "rmdir") /\ p \in asked)

\* SIGKILL, or a signal before locked is set.
Kill(p) ==
    /\ ~At(p, "idle")
    /\ Exit(p)
    /\ left' = IF lockdir /\ Unrecorded(p) THEN "unnamed"
               ELSE IF lockdir /\ process[p].pc \in Holding THEN "named" ELSE left
    /\ asked' = asked \ {p}
    /\ touched' = touched \ {p}
    /\ UNCHANGED <<files, lock, page, mistaken>>

\* Somebody edits the files in a terminal.
Terminal ==
    /\ \E r \in Edits \ {Revision} : config' = r.config /\ enabled' = r.enabled
    /\ touched' = touched \cup {p \in Pages : process[p].pc \in Holding}
    /\ UNCHANGED <<backup, lock, process, page, asked, mistaken, left>>

Acquire(p) == MakeLock(p) \/ ReadOwner(p) \/ Probe(p) \/ ClearPid(p) \/ ClearDir(p) \/ Retake(p) \/ Own(p)
Save(p) == \/ Refuse(p) \/ Check(p) \/ Backup(p) \/ Commit(p) \/ CommitFails(p)
           \/ Replace(p) \/ Restore(p)
Cleanup(p) == RemovePid(p) \/ RemoveLock(p)
Proceed(p) == Acquire(p) \/ Work(p) \/ Read(p) \/ Save(p) \/ Reply(p) \/ Cleanup(p)

Next ==
    \/ Terminal
    \/ \E p \in Pages : Request(p) \/ Proceed(p) \/ Terminate(p) \/ Kill(p)

Spec == Init /\ [][Next]_vars

----------------------------------------------------------------------------
TypeOK ==
    /\ config \in Contents /\ backup \in Contents /\ enabled \in BOOLEAN
    /\ lockdir \in BOOLEAN /\ lockpid \in Pids \cup {NoPid}
    /\ lockpid # NoPid => lockdir
    /\ process \in [Pages -> Process]
    /\ page \in [Pages -> [base : Contents, revision : Revisions, torn : BOOLEAN]]
    /\ asked \subseteq Pages /\ touched \subseteq Pages
    /\ mistaken \in BOOLEAN /\ left \in {"none", "named", "unnamed"}

\* One request works at a time, whichever requests are killed wherever, their
\* locks taken over and their pids given again; unless a takeover has removed a
\* lock that changed hands since it read the owner (config.js:44-48).
OneAtATime ==
    mistaken \/ \A p, q \in Pages : process[p].pc \in Holding /\ process[q].pc \in Holding => p = q

\* The save of p goes by what its page shows, and what it replaces is in the
\* backup.
GoesByThePage(p) ==
    /\ At(p, "commit") \/ At(p, "replace") => config = page[p].base
    /\ At(p, "replace") => backup = config
    /\ At(p, "commit") => enabled = page[p].revision.enabled

\* A save never replaces a configuration or a switch that is not the one its
\* page was shown, so other pages and the terminal are not overwritten, and what
\* it replaces is in the backup by then (packaging/luci/INSTALL.md:32-34).  What
\* the code does not exclude is named: a mistaken takeover, and an edit in a
\* terminal between the revision check and the rename, or between the two
\* reads of the request that gave the page what it shows.
NoLostUpdate == \A p \in Pages : mistaken \/ p \in touched \/ page[p].torn \/ GoesByThePage(p)

\* A save that is answered without "saved" has not changed the file, whichever
\* command failed, and the switch only if its commit or its restoring failed.
UnsavedChangesNothing ==
    \A p \in Pages :
        At(p, "unlock") /\ process[p].op = "save" /\ ~process[p].saved /\ process[p].failed # "signal" =>
            \/ mistaken \/ p \in touched
            \/ /\ config = process[p].before.config
               /\ process[p].failed = "none" => enabled = process[p].before.enabled

\* However a request ends, it takes its lock along, unless it was killed; then
\* the lock names it, so that the next one can take over, unless it was killed
\* beside the write or the removal of its pid (rpcd/fakeflow:15, 39-43).
LocksAreAnswered ==
    lockdir /\ ~mistaken =>
        \/ \E p \in Pages : process[p].pc \in Holding \/ Unrecorded(p)
        \/ left = "named" /\ lockpid \in Pids
        \/ left = "unnamed"

\* What the manual promises, whatever the requests do to each other: an old page
\* does not overwrite what another has saved (packaging/luci/INSTALL.md:34).
OldPageRefused == \A p \in Pages : p \in touched \/ page[p].torn \/ GoesByThePage(p)
=============================================================================
