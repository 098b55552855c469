----------------------------- MODULE Migration -----------------------------
(***************************************************************************)
(* The messaging permissions migration of one runtime directory            *)
(* (operator_rebirth.py): prepare establishes a journal, resume installs   *)
(* the candidate bundle, raises the generation floor and completes the     *)
(* journal. Every file is staged, synced and moved into its place; the     *)
(* process may be killed, or the machine may lose power, between any two   *)
(* operations on the directory.                                            *)
(*                                                                         *)
(* The file system is external: the directory changes in the order of the  *)
(* operations, fsync of the directory makes them all durable, and a power  *)
(* loss returns it to any state it has had since the last fsync. A file is *)
(* whole after a power loss only if it was synced. flock lets one process  *)
(* in at a time.                                                           *)
(***************************************************************************)
EXTENDS Naturals, FiniteSets

CONSTANTS MaxFaults, MaxChanges, None

VARIABLES
    dir,        \* [file, stage]: what the files and the staging files hold, or None
    past,       \* the states of dir that a power loss may return to
    synced,     \* staging files whose content is on disk
    job,        \* the process: what it runs, and how far it is
    references, \* the inbox, outbox and rpc journal are as approved
    faults, changes

vars == <<dir, past, synced, job, references, faults, changes>>

\* What is published, under which name, and what it holds.
Artifacts == {"initial_journal", "candidate", "floor", "completion"}
Final(a) == CASE a \in {"initial_journal", "completion"} -> "journal"
              [] a = "candidate" -> "candidate" [] a = "floor" -> "floor"
Holds(a) == CASE a = "initial_journal" -> "prepared" [] a = "completion" -> "completed"
              [] a = "candidate" -> "new" [] a = "floor" -> "raised"
Replaces(a) == a \in {"floor", "completion"}
Names == {"runtime", "journal", "candidate", "floor"}

Idle == [op |-> "none", at |-> "start", artifact |-> None]

Init ==
    /\ dir = [file |-> [n \in Names |-> IF n = "runtime" THEN "old" ELSE None],
              stage |-> [a \in Artifacts |-> None]]
    /\ past = {dir} /\ synced = {} /\ job = Idle
    /\ references = TRUE /\ faults = 0 /\ changes = 0

-----------------------------------------------------------------------------
(* The directory. *)

Alter(d) == dir' = d /\ past' = past \cup {d}
Sync == past' = {dir} /\ UNCHANGED dir

\* A staging file and the file it was linked to are one inode with two names.
Linked(a) == dir.stage[a] # None /\ ~Replaces(a) /\ dir.file[Final(a)] = dir.stage[a]

NLink(a) == IF Linked(a) THEN 2 ELSE 1

\* Mutant: a staging file with two names is residue to refuse.
CleansSingle(a) == NLink(a) = 1

\* _cleanup_messaging_migration_staging accepts one name, or two of one inode.
Cleans(a) == NLink(a) \in {1, 2}

\* _MessagingMigrationRoot.open_file: there, whole, and with one name.
Opens(n) == dir.file[n] # None /\ \A a \in Artifacts : Final(a) = n => ~Linked(a)

-----------------------------------------------------------------------------
(* The process. *)

Running(op) == job.op = op
At(step) == job.at = step
Go(step) == job' = [job EXCEPT !.at = step]
Leave == job' = Idle
Same == UNCHANGED <<references, faults, changes>>

Start(op) ==
    /\ Running("none")
    /\ job' = [Idle EXCEPT !.op = op]
    /\ UNCHANGED <<dir, past, synced>> /\ Same

Refuse == Leave /\ UNCHANGED <<dir, past, synced>> /\ Same

\* _atomic_private_publish begins with removing what an earlier attempt left.
Publish(a) ==
    /\ job' = [job EXCEPT !.at = "clean", !.artifact = a]
    /\ UNCHANGED <<dir, past, synced>> /\ Same

\* The approval binds the old and the new bundle, heads and references; the
\* process goes on only while they are what was approved.
Approved == references

\* prepare: the runtime is the old one; a journal that exists is the answer.
Prepare ==
    /\ Running("prepare") /\ At("start")
    /\ IF ~(Approved /\ Opens("runtime") /\ dir.file["runtime"] = "old") \/ ~Cleans("initial_journal")
       THEN Refuse
       ELSE IF dir.stage["initial_journal"] # None
       THEN /\ Alter([dir EXCEPT !.stage["initial_journal"] = None])   \* the staging is removed
            /\ Go("synced_cleanup") /\ UNCHANGED synced /\ Same
       ELSE IF dir.file["journal"] # None THEN Refuse
       ELSE Publish("initial_journal")

\* ... and the removal is made durable before anything else.
CleanupSynced ==
    /\ At("synced_cleanup") /\ Sync
    /\ Go(IF job.artifact = None THEN "start" ELSE "clean")
    /\ UNCHANGED synced /\ Same

\* resume takes up where the directory says the migration is.
NextArtifact ==
    IF dir.file["runtime"] = "old" THEN IF dir.file["candidate"] = None THEN "candidate" ELSE "install"
    ELSE IF dir.file["floor"] = None THEN "floor"
    ELSE IF dir.file["journal"] = "prepared" THEN "completion" ELSE "done"

Resume ==
    /\ Running("resume") /\ At("start")
    /\ IF ~Opens("journal") \/ ~Approved \/ ~Opens("runtime")
       THEN Refuse
       ELSE CASE NextArtifact \in Artifacts -> Publish(NextArtifact)
              [] NextArtifact = "install" ->
                    IF ~Opens("candidate") THEN Publish("candidate")   \* its staging is removed first
                    ELSE Go("install") /\ UNCHANGED <<dir, past, synced>> /\ Same
              [] OTHER -> Refuse   \* it is done: the completed journal is the answer

\* The candidate becomes the runtime: one rename, then the directory is synced.
Install ==
    /\ At("install")
    /\ IF ~Approved THEN Refuse
       ELSE /\ Alter([dir EXCEPT !.file["runtime"] = dir.file["candidate"], !.file["candidate"] = None])
            /\ Go("settle") /\ UNCHANGED synced /\ Same

Settle ==
    /\ At("settle") /\ Sync /\ Go("start")
    /\ UNCHANGED synced /\ Same

-----------------------------------------------------------------------------
(* Publishing one artifact. *)

Clean ==
    /\ At("clean")
    /\ IF ~Cleans(job.artifact) THEN Refuse
       ELSE IF dir.stage[job.artifact] # None
       THEN Alter([dir EXCEPT !.stage[job.artifact] = None]) /\ Go("synced_cleanup") /\ UNCHANGED synced /\ Same
       ELSE IF ~Replaces(job.artifact) /\ dir.file[Final(job.artifact)] # None
       THEN job' = [job EXCEPT !.at = "start", !.artifact = None] /\ UNCHANGED <<dir, past, synced>> /\ Same
       ELSE Go("stage") /\ UNCHANGED <<dir, past, synced>> /\ Same

\* The staging file is created and written; its content is not on disk yet.
Stage ==
    /\ At("stage")
    /\ Alter([dir EXCEPT !.stage[job.artifact] = "partial"])
    /\ synced' = synced \ {job.artifact} /\ Go("write") /\ Same

Write ==
    /\ At("write")
    /\ Alter([dir EXCEPT !.stage[job.artifact] = Holds(job.artifact)])
    /\ Go("fsync") /\ UNCHANGED synced /\ Same

Fsync ==
    /\ At("fsync")
    /\ synced' = synced \cup {job.artifact} /\ Go("move")
    /\ UNCHANGED <<dir, past>> /\ Same

\* A journal or candidate is linked to its name, a floor or completion replaces it.
\* The replacing ones are checked against the runtime and the prepared journal last.
Move ==
    LET a == job.artifact IN
    /\ At("move")
    /\ IF ~Approved \/ (Replaces(a) /\ dir.file["journal"] # "prepared") THEN Refuse
       ELSE IF Replaces(a)
       THEN Alter([dir EXCEPT !.file[Final(a)] = dir.stage[a], !.stage[a] = None]) /\ Go("durable") /\ UNCHANGED synced /\ Same
       ELSE Alter([dir EXCEPT !.file[Final(a)] = dir.stage[a]]) /\ Go("unlink") /\ UNCHANGED synced /\ Same

Unlink ==
    /\ At("unlink")
    /\ Alter([dir EXCEPT !.stage[job.artifact] = None])
    /\ Go("durable") /\ UNCHANGED synced /\ Same

Durable ==
    /\ At("durable") /\ Sync
    /\ job' = IF Running("prepare") THEN Idle ELSE [job EXCEPT !.at = "start", !.artifact = None]
    /\ UNCHANGED synced /\ Same

-----------------------------------------------------------------------------
(* Faults, and the daemon that should not run. *)

Kill ==
    /\ ~Running("none") /\ faults < MaxFaults
    /\ job' = Idle /\ faults' = faults + 1
    /\ UNCHANGED <<dir, past, synced, references, changes>>

\* An unsynced staging file comes back with any part of its content.
PowerLoss ==
    /\ faults < MaxFaults
    /\ \E d \in past :
        LET torn == [d EXCEPT !.stage = [a \in Artifacts |->
                        IF a \notin synced /\ d.stage[a] # None THEN "partial" ELSE d.stage[a]]] IN
        dir' = torn /\ past' = {torn}
    /\ job' = Idle /\ faults' = faults + 1
    /\ UNCHANGED <<synced, references, changes>>

\* A preserved file changes.
Disturb ==
    /\ changes < MaxChanges /\ references' = FALSE /\ changes' = changes + 1
    /\ UNCHANGED <<dir, past, synced, job, faults>>

Steps ==
    \/ Prepare \/ CleanupSynced \/ Resume \/ Install \/ Settle
    \/ Clean \/ Stage \/ Write \/ Fsync \/ Move \/ Unlink \/ Durable

Next == Start("prepare") \/ Start("resume") \/ Steps \/ Kill \/ PowerLoss \/ Disturb

Spec == Init /\ [][Next]_vars

-----------------------------------------------------------------------------
(* Properties. *)

Sound(d) ==
    /\ d.file["runtime"] \in {"old", "new"}
    /\ d.file["floor"] # None => d.file["runtime"] = "new"
    /\ d.file["journal"] = "completed" => d.file["floor"] # None
    /\ d.file["runtime"] = "new" => d.file["journal"] # None

\* Wherever the process is killed or the power fails: the runtime bundle is one of
\* the two, whole; the floor is raised only over the new bundle; the journal is
\* completed only over the floor; and a new bundle still has its journal.
AlwaysSound == \A d \in past \cup {dir} : Sound(d)

\* The migration is done; and nobody has touched the files it preserves.
Completed ==
    /\ dir.file["runtime"] = "new" /\ dir.file["floor"] = "raised"
    /\ dir.file["journal"] = "completed"
Preserved == references
=============================================================================
