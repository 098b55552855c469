---------------------------- MODULE StoreUpgrade ----------------------------
(***************************************************************************)
(* The offline upgrade of the communication store                          *)
(* (operator_communication_migration.py): an approved plan pins the exact  *)
(* state, a backup directory collects the intent, a snapshot, a rehearsal  *)
(* of the upgrade on a copy and the states the rehearsal went through, and *)
(* only then is the live store upgraded, one transaction per version.      *)
(*                                                                         *)
(* The command may be killed between any two of its steps and is repeated  *)
(* with the same plan and directory; the daemon may run in between, when   *)
(* the command does not hold the runtime lock, and accept more work.       *)
(* Recovery puts the snapshot back and must never discard such work.       *)
(***************************************************************************)
EXTENDS Naturals

CONSTANTS
    Dirs,       \* backup directories the operator uses
    Sources,    \* the versions the store may start from
    MaxWork, MaxKills, MaxRecoveries   \* bounds

Target == 4
None == [kind |-> "none"]
Absent == [kind |-> "absent"]
Partial == [kind |-> "partial"]
Unsaved == MaxWork + 1

VARIABLES
    db,          \* the live store: its version and the work accepted in it
    anchor,      \* the anchor file beside it, which moves with the work
    approved,    \* the plan the operator approved for each directory
    intent, source, rehearsal, saved, prepared, completed,   \* the files
    command,     \* the running command, which holds the runtime lock
    answers,     \* what apply last answered for each directory
    kills, recoveries

vars == <<db, anchor, approved, intent, source, rehearsal, saved, prepared,
          completed, command, answers, kills, recoveries>>
files == <<intent, source, rehearsal, saved, prepared, completed>>
bounds == <<kills, recoveries>>

Idle == [kind |-> "idle"]

Init ==
    /\ db \in {[kind |-> "state", version |-> v, work |-> 0] : v \in Sources}
    /\ anchor = 0
    /\ approved = [d \in Dirs |-> None]
    /\ intent = [d \in Dirs |-> None]
    /\ source = [d \in Dirs |-> Absent]
    /\ rehearsal = [d \in Dirs |-> Absent]
    /\ saved = [d \in Dirs |-> Unsaved]
    /\ prepared = [d \in Dirs |-> None]
    /\ completed = [d \in Dirs |-> FALSE]
    /\ command = Idle
    /\ answers = [d \in Dirs |-> "none"]
    /\ kills = 0 /\ recoveries = 0

-----------------------------------------------------------------------------
(* Plans and states *)

Upgraded(state) == [state EXCEPT !.version = IF @ = 1 THEN 2 ELSE Target]

\* The states the rehearsal goes through from the snapshot.
Allowed(state) == {state, Upgraded(state), Upgraded(Upgraded(state))}

NeedsUpgrade(state) == state.version < 3

\* plan: a read-only preview of the store as it is, which the operator approves,
\* for a fresh directory once the one before it was answered for.
Plan(d) ==
    /\ command = Idle
    /\ intent[d] = None
    /\ \A e \in Dirs \ {d} : approved[e] # None =>
         intent[e] # None /\ answers[e] \in {"refused", "migrated"}
    /\ approved[d] # db
    /\ approved' = [approved EXCEPT ![d] = db]
    /\ answers' = [answers EXCEPT ![d] = "none"]
    /\ UNCHANGED <<db, anchor, files, command, bounds>>

IntentHolds(d) == intent[d].plan = approved[d]

PreparedHolds(d) ==
    /\ prepared[d].plan = intent[d].plan
    /\ source[d] = prepared[d].plan
    /\ saved[d] = intent[d].anchor

-----------------------------------------------------------------------------
(* apply *)

At(d, step) == command.kind = "apply" /\ command.dir = d /\ command.step = step

Goto(d, step) == command' = [kind |-> "apply", dir |-> d, step |-> step]

Answer(d, what) ==
    /\ answers' = [answers EXCEPT ![d] = what]
    /\ command' = Idle

\* apply begins: an interrupted preparation is taken up, a prepared one continued.
Apply(d) ==
    /\ command = Idle
    /\ approved[d] # None
    /\ IF intent[d] # None
       THEN IF prepared[d] # None THEN Goto(d, "continue") /\ UNCHANGED answers
            ELSE IF db = intent[d].plan THEN Goto(d, "snapshot") /\ UNCHANGED answers
            ELSE Answer(d, "refused")
       ELSE IF db # approved[d] THEN Answer(d, "refused")
            ELSE IF ~NeedsUpgrade(db) THEN Answer(d, "current")
            ELSE Goto(d, "intent") /\ UNCHANGED answers
    /\ UNCHANGED <<db, anchor, approved, files, bounds>>

WriteIntent(d) ==
    /\ At(d, "intent")
    /\ intent' = [intent EXCEPT ![d] = [kind |-> "intent", plan |-> db, anchor |-> anchor]]
    /\ Goto(d, "snapshot")
    /\ UNCHANGED <<db, anchor, approved, source, rehearsal, saved, prepared,
                   completed, answers, bounds>>

\* A snapshot that is not the approved state is a partial one and taken again.
KeptSnapshot(d) == source[d] = intent[d].plan

\* Copying leaves a partial file behind when it is cut.
BeginSnapshot(d) ==
    /\ At(d, "snapshot")
    /\ IF KeptSnapshot(d) THEN Goto(d, "rehearse") /\ UNCHANGED source
       ELSE /\ source' = [source EXCEPT ![d] = Partial]
            /\ Goto(d, "copying")
    /\ UNCHANGED <<db, anchor, approved, intent, rehearsal, saved, prepared,
                   completed, answers, bounds>>

EndSnapshot(d) ==
    /\ At(d, "copying")
    /\ source' = [source EXCEPT ![d] = db]
    /\ Goto(d, "rehearse")
    /\ UNCHANGED <<db, anchor, approved, intent, rehearsal, saved, prepared,
                   completed, answers, bounds>>

\* The rehearsal of an earlier attempt is derived state: removed and copied anew.
BeginRehearsal(d) ==
    /\ At(d, "rehearse")
    /\ rehearsal' = [rehearsal EXCEPT ![d] = Partial]
    /\ Goto(d, "anchor")
    /\ UNCHANGED <<db, anchor, approved, intent, source, saved, prepared,
                   completed, answers, bounds>>

SaveAnchor(d) ==
    /\ At(d, "anchor")
    /\ saved' = [saved EXCEPT ![d] = anchor]
    /\ rehearsal' = [rehearsal EXCEPT ![d] = source[d]]
    /\ Goto(d, "upgrade")
    /\ UNCHANGED <<db, anchor, approved, intent, source, prepared, completed,
                   answers, bounds>>

\* Both upgrades on the copy, its semantic checks, and the snapshot once more.
Rehearse(d) ==
    /\ At(d, "upgrade")
    /\ rehearsal[d] # Partial
    /\ rehearsal' = [rehearsal EXCEPT ![d] = Upgraded(Upgraded(@))]
    /\ Goto(d, "prepare")
    /\ UNCHANGED <<db, anchor, approved, intent, source, saved, prepared, completed,
                   answers, bounds>>

WritePrepared(d) ==
    /\ At(d, "prepare")
    /\ source[d] = intent[d].plan
    /\ prepared' = [prepared EXCEPT ![d] =
         [kind |-> "prepared", plan |-> intent[d].plan,
          allowed |-> Allowed(intent[d].plan)]]
    /\ Goto(d, "continue")
    /\ UNCHANGED <<db, anchor, approved, intent, source, rehearsal, saved,
                   completed, answers, bounds>>

\* The live store and its anchor are exactly what the rehearsal knew.
Untouched(d) == anchor = intent[d].anchor /\ db \in prepared[d].allowed

\* _continue: historical completion is answered without looking at the store.
Continue(d) ==
    /\ At(d, "continue")
    /\ IntentHolds(d) /\ PreparedHolds(d)
    /\ IF completed[d] THEN Answer(d, "migrated")
       ELSE IF ~Untouched(d) THEN Answer(d, "refused")
       ELSE IF db.version = Target THEN Goto(d, "complete") /\ UNCHANGED answers
       ELSE Goto(d, "live") /\ UNCHANGED answers
    /\ UNCHANGED <<db, anchor, approved, files, bounds>>

\* upgrade_receipts_v2 or upgrade_legs_v3, each one transaction.
UpgradeLive(d) ==
    /\ At(d, "live")
    /\ db' = Upgraded(db)
    /\ Goto(d, "continue")
    /\ UNCHANGED <<anchor, approved, files, answers, bounds>>

Complete(d) ==
    /\ At(d, "complete")
    /\ completed' = [completed EXCEPT ![d] = TRUE]
    /\ Answer(d, "migrated")
    /\ UNCHANGED <<db, anchor, approved, intent, source, rehearsal, saved,
                   prepared, bounds>>

-----------------------------------------------------------------------------
(* recover *)

MayRecoverSnapshot(d) == source[d] = prepared[d].plan /\ saved[d] = intent[d].anchor

\* The current state is one the migration itself made, under the same anchor.
MayRecover(d) ==
    /\ source[d] = prepared[d].plan
    /\ saved[d] = intent[d].anchor
    /\ db \in prepared[d].allowed
    /\ anchor = saved[d]

Recover(d) ==
    /\ command = Idle
    /\ recoveries < MaxRecoveries /\ recoveries' = recoveries + 1
    /\ prepared[d] # None
    /\ MayRecover(d)
    /\ db' = source[d]
    /\ UNCHANGED <<anchor, approved, files, command, answers, kills>>

-----------------------------------------------------------------------------
(* Around the command *)

\* The daemon holds the runtime lock and accepts work.
Work ==
    /\ command = Idle
    /\ db.work < MaxWork
    /\ db' = [db EXCEPT !.work = @ + 1]
    /\ anchor' = anchor + 1
    /\ UNCHANGED <<approved, files, command, answers, bounds>>

Kill ==
    /\ command # Idle
    /\ kills < MaxKills /\ kills' = kills + 1
    /\ command' = Idle
    /\ UNCHANGED <<db, anchor, approved, files, answers, recoveries>>

Step(d) ==
    \/ WriteIntent(d) \/ BeginSnapshot(d) \/ EndSnapshot(d) \/ BeginRehearsal(d)
    \/ SaveAnchor(d) \/ Rehearse(d) \/ WritePrepared(d) \/ Continue(d)
    \/ UpgradeLive(d) \/ Complete(d)

Next ==
    \/ Work \/ Kill
    \/ \E d \in Dirs : Plan(d) \/ Apply(d) \/ Step(d) \/ Recover(d)

Spec == Init /\ [][Next]_vars

-----------------------------------------------------------------------------
\* Neither an upgrade nor a recovery discards work the store accepted, and the
\* version never moves except through a state the rehearsal recorded before
\* (operator_communication_migration.py: recover, _continue).
NoWorkIsDiscarded ==
    /\ db'.work >= db.work
    /\ db'.version # db.version =>
          \E d \in Dirs : prepared[d] # None /\ {db, db'} \subseteq prepared[d].allowed

\* The store is at the version the upgrade leads to.
AtTarget == db.version = Target
=============================================================================
