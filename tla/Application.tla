----------------------------- MODULE Application -----------------------------
(***************************************************************************)
(* The owner's ceremonies on one messaging application                     *)
(* (operator_messaging.py) and what loading it requires                    *)
(* (messaging_config.py).  A ceremony runs offline under the runtime's and *)
(* the directory's locks, so ceremonies never overlap, but each changes    *)
(* several files one after the other and may be killed between any two:    *)
(* the published generation, the journal of the client's capability with   *)
(* its two pointers, the stores' schemas and the visibility installation.  *)
(*                                                                         *)
(* An application is what its ceremonies change of it; authorities are the *)
(* number of their epoch; a document is verified at the epoch it was       *)
(* signed at, which is the epoch its application names.  "todo" holds what *)
(* the running ceremony still has to write.                                *)
(***************************************************************************)
EXTENDS Integers, Sequences

CONSTANTS
    Schemas,         \* the schemas an application may be prepared with: 1 (pair), 3 (group)
    Ceremonies,      \* the ceremonies the owner undertakes of his own accord
    AdvanceAnytime,  \* whether authorities move while an interrupted ceremony waits,
                     \* as the code lets them
    MaxEpoch, MaxPeer, MaxChanges, MaxCrashes

VARIABLES
    epoch, known,            \* the authority of the being and of its peer, as the runtime has them
    pub,                     \* the publication: an application and its predecessor
    staged,                  \* the successors an upgrade has staged
    journal, floor, current, \* the capability's journal and the entries its pointers name
    inst,                    \* the visibility installation
    inbox2, receipts2,       \* whether the stores have their second schema
    reserved,                \* a message reserved under the first schema is not authored yet
    todo, changes, crashes

authorities == <<epoch, known>>
capability == <<journal, floor, current>>
stores == <<inbox2, receipts2, reserved>>
vars == <<authorities, pub, staged, capability, inst, stores, todo, changes, crashes>>

---------------------------------------------------------------------------
(* What loading requires *)

\* read_publication: the publication and its application are signed at this epoch.
Verified == pub.app.epoch = epoch

Latest == journal[Len(journal)]
Entry(cap, action) == [cap |-> cap, action |-> action]

\* read_capability_state: both pointers name the last entry, which is about
\* this capability.
CapabilityState(cap) ==
    IF floor # Len(journal) \/ current # Len(journal) THEN "rejected"
    ELSE IF Latest.cap # cap THEN "stale"
    ELSE IF Latest.action = "revoke" THEN "revoked"
    ELSE "active"

\* The authorities an application pins are the ones the runtime has.
Pinned(app) == app.epoch = epoch /\ app.peer = known

\* _compose and _compose_group, but for the capability: the stores have the
\* schema of the application.
SemanticStores == receipts2 /\ inbox2
FitsPair(app) == Pinned(app) /\ (app.schema = 2) = receipts2 /\ (app.schema = 2 => inbox2)
FitsGroup(app) == Pinned(app) /\ SemanticStores
Fits(app) == IF app.schema = 3 THEN FitsGroup(app) ELSE FitsPair(app)

Composes(app, cap) == Fits(app) /\ CapabilityState(cap) = "active"
Loads == Verified /\ Composes(pub.app, pub.app.cap)

\* _owner_visibility_controller: the installation is for this application.
Shows == inst.app = pub.app /\ inst.members = pub.app.members
Serves == Loads /\ Shows /\ todo = <<>>
Revoked == Latest.action = "revoke"

---------------------------------------------------------------------------
(* What a ceremony writes, one file after the other *)

Switch(app) == [op |-> "switch", app |-> app]
Append1(entry) == [op |-> "entry", entry |-> entry]
Install(app, members) == [op |-> "install", app |-> app, members |-> members]
Do(op) == [op |-> op]
Pointers == <<Do("floor"), Do("current")>>

Next1 == todo[1]

Publish ==
    /\ todo # <<>> /\ Next1.op = "switch"
    /\ pub' = [app |-> Next1.app, pred |-> pub.app]
    /\ todo' = Tail(todo)
    /\ UNCHANGED <<authorities, staged, capability, inst, stores, changes, crashes>>

WriteEntry ==
    /\ todo # <<>> /\ Next1.op = "entry"
    /\ journal' = Append(journal, Next1.entry)
    /\ todo' = Tail(todo)
    /\ UNCHANGED <<authorities, pub, staged, floor, current, inst, stores, changes, crashes>>

MovePointer ==
    /\ todo # <<>> /\ Next1.op \in {"floor", "current"}
    /\ floor' = IF Next1.op = "floor" THEN Len(journal) ELSE floor
    /\ current' = IF Next1.op = "current" THEN Len(journal) ELSE current
    /\ todo' = Tail(todo)
    /\ UNCHANGED <<authorities, pub, staged, journal, inst, stores, changes, crashes>>

Reissue ==
    /\ todo # <<>> /\ Next1.op = "install"
    /\ inst' = [app |-> Next1.app, members |-> Next1.members, generation |-> inst.generation + 1]
    /\ todo' = Tail(todo)
    /\ UNCHANGED <<authorities, pub, staged, capability, stores, changes, crashes>>

UpgradeStore ==
    /\ todo # <<>> /\ Next1.op \in {"stage", "inbox", "receipts"}
    /\ staged' = IF Next1.op = "stage" THEN staged \cup {Next1.app} ELSE staged
    /\ inbox2' = (inbox2 \/ Next1.op = "inbox")
    /\ receipts2' = (receipts2 \/ Next1.op = "receipts")
    /\ todo' = Tail(todo)
    /\ UNCHANGED <<authorities, pub, capability, inst, reserved, changes, crashes>>

Killed ==
    /\ todo # <<>> /\ crashes < MaxCrashes
    /\ todo' = <<>> /\ crashes' = crashes + 1
    /\ UNCHANGED <<authorities, pub, staged, capability, inst, stores, changes>>

---------------------------------------------------------------------------
(* The ceremonies *)

files == <<authorities, pub, staged, capability, inst, stores, crashes>>
Begin(writes) == todo = <<>> /\ writes # <<>> /\ todo' = writes /\ UNCHANGED files
Elective(name) == name \in Ceremonies /\ changes < MaxChanges /\ changes' = changes + 1

RenewalEntryFirst(app) ==
    <<Append1(Entry(app.cap, "replace")), Switch(app)>> \o Pointers

\* renew: the successor with a new capability is published before the
\* journal takes it.
Renewal(app) ==
    <<Switch(app), Append1(Entry(app.cap, "replace"))>> \o Pointers

Renew ==
    /\ Elective("renew") /\ Verified /\ Composes(pub.app, pub.app.cap)
    /\ Begin(Renewal([pub.app EXCEPT !.cap = @ + 1]))

\* revoke_capability: pointers an interrupted ceremony left behind are moved
\* forward first; a published capability the journal does not have is refused.
Revoke ==
    /\ Elective("revoke") /\ Verified /\ Latest.cap = pub.app.cap
    /\ Begin((IF CapabilityState(pub.app.cap) = "rejected" THEN Pointers ELSE <<>>)
             \o IF Revoked THEN <<>>
                ELSE <<Append1(Entry(pub.app.cap, "revoke"))>> \o Pointers)

\* _published_predecessor_descriptor: the predecessor verifies at this epoch
\* and its capability is the one in force.
PredecessorInForce == pub.pred.epoch = epoch /\ CapabilityState(pub.pred.cap) = "active"

\* recover finishes the journal of an interrupted renewal.
Recover ==
    /\ Verified /\ Fits(pub.app)
    /\ LET state == CapabilityState(pub.app.cap) IN
       Begin(IF state = "stale" /\ PredecessorInForce
             THEN <<Append1(Entry(pub.app.cap, "replace"))>> \o Pointers
             ELSE IF state = "rejected" /\ Latest.cap = pub.app.cap THEN Pointers
             ELSE <<>>)
    /\ UNCHANGED changes

\* republish: the same application under the authorities of the present,
\* derived from a publication that was signed at any epoch.
Republished == [pub.app EXCEPT !.epoch = epoch, !.peer = known]

Republish ==
    /\ Begin((IF Republished = pub.app THEN <<>> ELSE <<Switch(Republished)>>)
             \o IF inst.app = Republished THEN <<>> ELSE <<Install(Republished, inst.members)>>)
    /\ UNCHANGED changes

\* reconfigure_group_routes: another route, then the installation reissued.
Reconfigure ==
    /\ Elective("routes") /\ Verified /\ pub.app.schema = 3
    /\ LET app == [pub.app EXCEPT !.routes = @ + 1] IN
       /\ Composes(app, app.cap)
       /\ Begin(<<Switch(app), Install(app, inst.members)>>)

\* Its retry, when the routes are already selected.
ReconfigureAgain ==
    /\ Verified /\ pub.pred.epoch = epoch /\ pub.pred.routes # pub.app.routes
    /\ Composes(pub.app, pub.app.cap)
    /\ Begin(IF inst.app = pub.app THEN <<>> ELSE <<Install(pub.app, inst.members)>>)
    /\ UNCHANGED changes

\* admit_group_application: one more being; its visibility is a ceremony of
\* its own.
Admitted == [pub.app EXCEPT !.members = @ + 1]

Admit ==
    /\ Elective("admit") /\ Verified /\ pub.app.schema = 3
    /\ Composes(Admitted, Admitted.cap)
    /\ Begin(<<Switch(Admitted)>>)

\* A change of visibility starts from a publication and authorities that verify.
VisibilityStands == Verified /\ pub.app.peer = known

\* publish_group_visibility: from an installation that is valid now, for this
\* application or the one before it, to one every member accepts.
PublishVisibility ==
    /\ VisibilityStands
    /\ inst.members < pub.app.members
    /\ inst.app.epoch = epoch /\ inst.app \in {pub.app, pub.pred}
    /\ Begin(<<Install(pub.app, pub.app.members)>>)
    /\ UNCHANGED changes

\* visibility_presentation: another representation for the same audience.
Installed == VisibilityStands /\ inst.app = pub.app

Present ==
    /\ Elective("present") /\ Installed
    /\ Begin(<<Install(pub.app, inst.members)>>)

\* upgrade_semantic_receipts.  What an earlier attempt staged stands for the
\* checks it made; the successor is composed only once the stores are upgraded.
MayUpgrade(app) == app \in staged \/ (~receipts2 /\ Loads /\ ~reserved)

Upgrade ==
    /\ Verified /\ pub.app.schema = 1
    /\ LET app == [pub.app EXCEPT !.schema = 2] IN
       /\ MayUpgrade(app)
       /\ IF app \in staged THEN UNCHANGED changes ELSE Elective("upgrade")
       /\ Begin((IF app \in staged THEN <<>> ELSE <<[op |-> "stage", app |-> app]>>)
                \o <<Do("inbox"), Do("receipts")>>
                \o IF app.peer = known /\ CapabilityState(app.cap) = "active"
                   THEN <<Switch(app)>> ELSE <<>>)

---------------------------------------------------------------------------
(* The runtime between ceremonies *)

\* The daemon reserves a message, and later authors it or lets it lapse.
Reserve ==
    /\ todo = <<>> /\ Loads /\ pub.app.schema = 1 /\ ~reserved /\ "upgrade" \in Ceremonies
    /\ reserved' = TRUE
    /\ UNCHANGED <<authorities, pub, staged, capability, inst, inbox2, receipts2, todo, changes, crashes>>

Settle ==
    /\ todo = <<>> /\ reserved
    /\ reserved' = FALSE
    /\ UNCHANGED <<authorities, pub, staged, capability, inst, inbox2, receipts2, todo, changes, crashes>>

Unfinished == pub.app.schema = 1 /\ [pub.app EXCEPT !.schema = 2] \in staged

\* Neither an enrollment nor adopt_peer_authority looks at the application. With
\* AdvanceAnytime FALSE the owner is assumed to see to it first that it is in order.
MayAdvance == todo = <<>> /\ (AdvanceAnytime \/ ((Serves \/ Revoked) /\ ~Unfinished))

\* An enrollment or a recovery moves the being's own authority.
EpochAdvances ==
    /\ MayAdvance /\ epoch < MaxEpoch /\ epoch' = epoch + 1
    /\ UNCHANGED <<known, pub, staged, capability, inst, stores, todo, changes, crashes>>

\* adopt_peer_authority: the peer's successor, selected by one replacement of
\* the bundle.
AdoptPeer ==
    /\ MayAdvance /\ known < MaxPeer /\ known' = known + 1
    /\ UNCHANGED <<epoch, pub, staged, capability, inst, stores, todo, changes, crashes>>

\* prepare publishes the whole directory at once.
Prepared(schema) ==
    [epoch |-> 1, peer |-> 1, schema |-> schema, cap |-> 1, routes |-> 1, members |-> 1]

Init ==
    /\ epoch = 1 /\ known = 1
    /\ \E s \in Schemas :
          /\ pub = [app |-> Prepared(s), pred |-> Prepared(s)]
          /\ inst = [app |-> Prepared(s), members |-> 1, generation |-> 1]
          /\ inbox2 = (s # 1) /\ receipts2 = (s # 1)
    /\ journal = <<Entry(1, "activate")>> /\ floor = 1 /\ current = 1
    /\ staged = {} /\ reserved = FALSE
    /\ todo = <<>> /\ changes = 0 /\ crashes = 0

Steps == Publish \/ WriteEntry \/ MovePointer \/ Reissue \/ UpgradeStore
Repairs == Recover \/ Republish \/ ReconfigureAgain \/ PublishVisibility

Next ==
    \/ Steps \/ Repairs \/ Killed
    \/ Renew \/ Revoke \/ Reconfigure \/ Admit \/ Present \/ Upgrade
    \/ Reserve \/ Settle \/ EpochAdvances \/ AdoptPeer

Spec == Init /\ [][Next]_vars

\* After a kill the owner takes up the upgrade he had begun.
Continues == Upgrade /\ Unfinished

---------------------------------------------------------------------------
(* Properties *)

\* A revoked capability is never followed by another entry, nor served.
RevocationIsFinal == Revoked => journal' = journal /\ ~Serves'
=============================================================================
