------------------------------ MODULE TribeLane ------------------------------
(***************************************************************************)
(* The group lane (messaging.py GroupMessaging, tribe_conversation.py,     *)
(* messaging_store.py TribeRecordStore): one author sends messages to a    *)
(* frozen audience over one carrier each, every body takes the message in, *)
(* owes a receipt for it and returns it, and the author projects the       *)
(* receipt onto its leg. An original that was provably never attempted may *)
(* be carried once more by a recovery carrier.                             *)
(*                                                                         *)
(* Every step of the code is a record of the signed store that the next    *)
(* step reads back, so a call that stopped is continued by the next one;   *)
(* what a running call holds in memory (pc, task, back) is lost in a       *)
(* crash. A body's readiness, the mandatory publication and the network    *)
(* may fail a step at any time.                                            *)
(***************************************************************************)
EXTENDS Naturals, FiniteSets

CONSTANTS
    Messages, Bodies,
    Recoveries,    \* recovery ids operators use
    None,
    Ttl,           \* policy.max_ttl_ms
    MaxPending,    \* max_pending of commit_intake and commit_control
    MaxTime,       \* bound on the clock
    Plans          \* bounds: messages, audience at the start, recovery ids, bodies
                   \* that refuse, speech slots, calls, faults, and what may change

ASSUME LaneAssumption ==
    /\ Ttl \in Nat \ {0} /\ MaxPending \in Nat \ {0} /\ MaxTime \in Nat
    /\ "original" \notin Recoveries
    /\ \A p \in Plans :
          /\ p.messages \subseteq Messages /\ p.audience \subseteq Bodies
          /\ p.recoveries \subseteq Recoveries /\ p.refusing \subseteq Bodies
          /\ p.slots \in Nat \ {0} /\ p.calls \in Nat /\ p.faults \in Nat /\ p.departs \in BOOLEAN
          /\ p.moves \in BOOLEAN /\ p.retires \in BOOLEAN

VARIABLES
    bounds, now, calls, faults,
    members,       \* bodies of active members
    config,        \* each body's return configuration, or Retired
    \* the author's records
    plan,          \* "send": message |-> [rows, expires]
    authored,      \* "result", with message and resolution in the ledger
    natives,       \* "native": carriers admitted to the egress gate
    visible,       \* carriers whose publication is confirmed
    selection,     \* "recovery-selection": message |-> recovery id
    intents,       \* "recovery-intent": carrier |-> expiry
    transports,    \* "transport": <<carrier, body>>
    results,       \* "transport-result": <<carrier, body>> |-> outcome
    controls,      \* "control-proof" and its admission: <<message, body>>
    controlAcks,   \* "intake-ack" of those
    projected,     \* "control-terminal"
    delivered,     \* legs the communication store has as delivered
    \* the bodies' records
    owed,          \* "receipt-obligation" and "inbox": <<message, body>> |-> obligation
    admitted,      \* "intake-admission": <<carrier, body>>
    answers,       \* transport journal: <<carrier, body>> |-> outcome
    acks,          \* "intake-ack"
    receipts,      \* "receipt": <<message, body>> |-> observed_at_ms
    returned,      \* "transport-result" of the receipt
    ended,         \* "receipt-terminal": <<message, body>> |-> state
    \* the wire and the memory of running calls
    released,      \* carriers written: <<carrier, body>>
    posted,        \* receipts written: <<message, body>>
    pc,            \* the call that works on a carrier
    task,          \* the worker of a row of a carrier
    back           \* the attempt to return a receipt

author == <<plan, authored, natives, visible, selection, intents, transports, results>>
control == <<controls, controlAcks, projected, delivered>>
intake == <<owed, admitted, answers, acks>>
return == <<receipts, returned, ended, posted, back>>
env == <<bounds, now, members, config>>
budget == <<calls, faults>>
vars == <<env, budget, author, control, intake, return, released, pc, task>>

\* _operational: the body's credential is an active one of its being.
Retired == 0
Operational(b) == config[b] # Retired

Put(f, k, v) == [x \in DOMAIN f \cup {k} |-> IF x = k THEN v ELSE f[x]]

\* A carrier is the original of a message or a recovery of it.
Original(m) == <<m, "original">>
Carriers == Messages \X ({"original"} \cup Recoveries)
Copies == Carriers \X Bodies
Legs == Messages \X Bodies
IsRecovery(c) == c[2] # "original"

Init ==
    /\ bounds \in Plans /\ now = 0 /\ calls = 0 /\ faults = 0
    /\ members = bounds.audience /\ config = [b \in Bodies |-> 1]
    /\ plan = << >> /\ authored = {} /\ natives = {} /\ visible = {}
    /\ selection = << >> /\ intents = << >> /\ transports = {} /\ results = << >>
    /\ controls = {} /\ controlAcks = {} /\ projected = {} /\ delivered = {}
    /\ owed = << >> /\ admitted = {} /\ answers = << >> /\ acks = {}
    /\ receipts = << >> /\ returned = << >> /\ ended = << >>
    /\ released = {} /\ posted = {}
    /\ pc = [c \in Carriers |-> "idle"] /\ task = [y \in Copies |-> "idle"]
    /\ back = [l \in Legs |-> "idle"]

Fault == faults < bounds.faults /\ faults' = faults + 1
Fine == UNCHANGED faults

\* Bound: a carrier begins only while the deadlines of its receipts are in reach.
InReach == now + 2 * Ttl <= MaxTime + 1

Deadline(c) == IF IsRecovery(c) THEN intents[c] ELSE plan[c[1]].expires

-----------------------------------------------------------------------------
(* The author: send and recover. *)

Step(c, to) == pc' = [pc EXCEPT ![c] = to]
Stop(c) == Step(c, "idle")

\* The active bodies of the active members.
Addressed == {b \in members : Operational(b)}

\* send: reserve the request; prepare freezes audience and expiry unless they are
\* frozen already (tribe_conversation._freeze).
Send(m) ==
    LET c == Original(m) IN
    /\ m \in bounds.messages
    /\ pc[c] = "idle" /\ calls < bounds.calls
    /\ IF m \in DOMAIN plan THEN UNCHANGED plan
       ELSE InReach /\ plan' = Put(plan, m, [rows |-> Addressed, expires |-> now + Ttl])
    /\ calls' = calls + 1 /\ Step(c, "planned")
    /\ UNCHANGED <<env, faults, authored, natives, visible, selection, intents, transports,
                   results, control, intake, return, released, task>>

\* Message and resolution are authored and accepted; an expired send goes no further.
Author(m) ==
    LET c == Original(m) IN
    /\ pc[c] = "planned"
    /\ authored' = authored \cup {m}
    /\ Step(c, IF now < plan[m].expires THEN "ready" ELSE "idle")
    /\ UNCHANGED <<env, budget, plan, natives, visible, selection, intents, transports, results,
                   control, intake, return, released, task>>

\* The original is published and not one copy of it was attempted.
Unattempted(m) ==
    /\ Original(m) \in visible
    /\ \A b \in Bodies : <<Original(m), b>> \notin released \cup transports

\* recover: only an expired original, and nothing uncertain about it.
Recover(m, v) ==
    LET c == <<m, v>> IN
    /\ v \in bounds.recoveries
    /\ pc[c] = "idle" /\ calls < bounds.calls
    /\ m \in authored /\ now >= plan[m].expires
    /\ Original(m) \in natives
    /\ c \in DOMAIN intents => now < intents[c]
    /\ Unattempted(m)
    /\ calls' = calls + 1 /\ Step(c, "checked")
    /\ UNCHANGED <<env, faults, author, control, intake, return, released, task>>

\* One recovery id per original.
Select(c) ==
    /\ pc[c] = "checked"
    /\ IF c[1] \in DOMAIN selection /\ selection[c[1]] # c[2]
       THEN Stop(c) /\ UNCHANGED selection
       ELSE Step(c, "selected") /\ selection' = Put(selection, c[1], c[2])
    /\ UNCHANGED <<env, budget, plan, authored, natives, visible, intents, transports, results,
                   control, intake, return, released, task>>

\* Everyone in the frozen audience is still an active member.
StillMembers(m) == plan[m].rows \subseteq members

\* prepare_recovery: the lifetime is frozen before anything is signed; every body
\* of the audience must still be operational.
Intend(c) ==
    /\ pc[c] = "selected"
    /\ c \notin DOMAIN intents => InReach
    /\ intents' = IF c \in DOMAIN intents THEN intents ELSE Put(intents, c, now + Ttl)
    /\ Step(c, IF StillMembers(c[1]) /\ \A b \in plan[c[1]].rows : Operational(b) THEN "ready" ELSE "idle")
    /\ UNCHANGED <<env, budget, plan, authored, natives, visible, selection, transports, results,
                   control, intake, return, released, task>>

\* Mutant: membership is only checked when the recovery is prepared.
ParentUnattempted(c) == IsRecovery(c) => Unattempted(c[1])

\* _validate_recovery_parent
ParentHolds(c) == IsRecovery(c) => Unattempted(c[1]) /\ StillMembers(c[1])

\* records.admit: the carrier's bytes and its egress operation.
Admit(c) ==
    /\ pc[c] = "ready"
    /\ IF ParentHolds(c) /\ now < Deadline(c)
       THEN natives' = natives \cup {c} /\ Step(c, "admitted")
       ELSE Stop(c) /\ UNCHANGED natives
    /\ UNCHANGED <<env, budget, plan, authored, visible, selection, intents, transports, results,
                   control, intake, return, released, task>>

\* prepare_visibility, confirmed.
Publish(c) ==
    /\ pc[c] = "admitted"
    /\ visible' = visible \cup {c}
    /\ Step(c, "fanout")
    /\ UNCHANGED <<env, budget, plan, authored, natives, selection, intents, transports, results,
                   control, intake, return, released, task>>

\* A call fails between two records: the publication is refused or uncertain, a
\* store is busy.
Break(c) ==
    /\ pc[c] \in {"planned", "checked", "selected", "ready", "admitted"}
    /\ Fault /\ Stop(c)
    /\ UNCHANGED <<env, calls, author, control, intake, return, released, task>>

\* A call leaves when none of its workers runs.
Leave(c) ==
    /\ pc[c] = "fanout" /\ \A b \in Bodies : task[<<c, b>>] = "idle"
    /\ Stop(c)
    /\ UNCHANGED <<env, budget, author, control, intake, return, released, task>>

-----------------------------------------------------------------------------
(* The author: one worker per row. *)

Work(y, to) == task' = [task EXCEPT ![y] = to]

\* _fanout and _claim_transport: rows not delivered yet, one worker per row and
\* carrier, and a free slot.
Start(c, b) ==
    /\ pc[c] = "fanout" /\ task[<<c, b>>] = "idle"
    /\ b \in plan[c[1]].rows /\ <<c[1], b>> \notin delivered
    /\ now < Deadline(c)
    /\ Cardinality({y \in Copies : task[y] # "idle"}) < bounds.slots
    /\ <<c, b>> \notin DOMAIN results
    /\ Work(<<c, b>>, "started")
    /\ UNCHANGED <<env, budget, author, control, intake, return, released, pc>>

\* _transmit_one reserves the request; the deadline was looked at before.
ReserveTransport(c, b) ==
    /\ task[<<c, b>>] = "started"
    /\ transports' = transports \cup {<<c, b>>}
    /\ Work(<<c, b>>, "reserved")
    /\ UNCHANGED <<env, budget, plan, authored, natives, visible, selection, intents, results,
                   control, intake, return, released, pc>>

\* Mutant: the lifetime is not checked again at the write.
ReleasableLate(c) == ParentHolds(c)

\* The gate authorizes the physical release: _authorize rechecks the parent.
Releasable(c) == now < Deadline(c) /\ ParentHolds(c)

Release(c, b) ==
    /\ task[<<c, b>>] = "reserved" /\ Releasable(c)
    /\ released' = released \cup {<<c, b>>}
    /\ Work(<<c, b>>, "waiting")
    /\ UNCHANGED <<env, budget, author, control, intake, return, pc>>

\* The authenticated answer is retained.
Answered(c, b) ==
    /\ task[<<c, b>>] = "waiting" /\ <<c, b>> \in DOMAIN answers
    /\ answers[<<c, b>>] = "refused" \/ <<c, b>> \in acks
    /\ results' = Put(results, <<c, b>>, answers[<<c, b>>])
    /\ Work(<<c, b>>, "idle")
    /\ UNCHANGED <<env, budget, plan, authored, natives, visible, selection, intents, transports,
                   control, intake, return, released, pc>>

\* A RouteError: the reader is not ready, the gate refuses, the connection fails,
\* times out or loses the answer. A worker may try again (up to three times).
Lose(c, b) ==
    /\ task[<<c, b>>] # "idle"
    /\ IF task[<<c, b>>] = "reserved" /\ ~Releasable(c) THEN Fine ELSE Fault
    /\ \/ Work(<<c, b>>, "idle")
       \/ task[<<c, b>>] = "waiting" /\ Work(<<c, b>>, "reserved")
    /\ UNCHANGED <<env, calls, author, control, intake, return, released, pc>>

AuthorCrash ==
    /\ Fault /\ \E c \in Carriers : pc[c] # "idle"
    /\ pc' = [c \in Carriers |-> "idle"] /\ task' = [y \in Copies |-> "idle"]
    /\ UNCHANGED <<env, calls, author, control, intake, return, released>>

-----------------------------------------------------------------------------
(* A body takes a message in. *)

\* _pending_capacity of body b: admissions without an ack, obligations not ended.
UnackedAt(b) == {y \in admitted \ acks : y[2] = b}
OwedAt(b) == {l \in DOMAIN owed : l[2] = b /\ l \notin DOMAIN ended}

HasRoom(b, l) ==
    /\ Cardinality(UnackedAt(b)) < MaxPending
    /\ l \notin DOMAIN owed => Cardinality(OwedAt(b)) < MaxPending

\* commit_intake: obligation, inbox row and admission in one transaction.
AdmitMessage(c, b) ==
    LET l == <<c[1], b>> IN
    /\ <<c, b>> \in released \ admitted /\ b \notin bounds.refusing
    /\ now < Deadline(c)
    /\ Operational(b) /\ HasRoom(b, l)
    /\ owed' = IF l \in DOMAIN owed THEN owed
               ELSE Put(owed, l, [observed |-> now, deadline |-> now + Ttl, context |-> config[b]])
    /\ admitted' = admitted \cup {<<c, b>>}
    /\ UNCHANGED <<env, budget, author, control, answers, acks, return, released, pc, task>>

\* validate_intake raises: the answer is a refusal.
RefuseMessage(c, b) ==
    /\ <<c, b>> \in released /\ (b \in bounds.refusing \/ ~Operational(b))
    /\ now < Deadline(c) /\ <<c, b>> \notin DOMAIN answers
    /\ answers' = Put(answers, <<c, b>>, "refused")
    /\ UNCHANGED <<env, budget, author, control, owed, admitted, acks, return, released, pc, task>>

\* finalize_retained_intake, by the handler or by reconcile_intake.
Finalize(c, b) ==
    /\ <<c, b>> \in admitted /\ <<c, b>> \notin DOMAIN answers
    /\ answers' = Put(answers, <<c, b>>, "recipient-intake")
    /\ UNCHANGED <<env, budget, author, control, owed, admitted, acks, return, released, pc, task>>

\* _acknowledge_intake
Acknowledge(c, b) ==
    /\ <<c, b>> \in (admitted \cap DOMAIN answers) \ acks
    /\ acks' = acks \cup {<<c, b>>}
    /\ UNCHANGED <<env, budget, author, control, owed, admitted, answers, return, released, pc, task>>

-----------------------------------------------------------------------------
(* A body returns the receipt: complete_receipt, after the answer or from    *)
(* reconcile_intake, one attempt at a time.                                  *)

Return(l, to) == back' = [back EXCEPT ![l] = to]

\* The receipt carries the time of the first observation. A body that is no longer
\* operational authors none: its obligation stays.
AuthorReceipt(l) ==
    /\ l \in DOMAIN owed /\ back[l] = "idle" /\ l \notin DOMAIN ended
    /\ \E c \in Carriers : c[1] = l[1] /\ <<c, l[2]>> \in acks
    /\ l \in DOMAIN receipts \/ Operational(l[2])
    /\ receipts' = IF l \in DOMAIN receipts THEN receipts ELSE Put(receipts, l, owed[l].observed)
    /\ Return(l, "authored")
    /\ UNCHANGED <<env, budget, author, control, intake, returned, ended, posted, released, pc, task>>

\* Mutant: an obligation without an answer never expires.
DecideNever(l) ==
    /\ back[l] = "authored"
    /\ IF l \in DOMAIN returned
       THEN ended' = Put(ended, l, returned[l]) /\ Return(l, "idle")
       ELSE /\ UNCHANGED ended
            /\ Return(l, IF config[l[2]] = owed[l].context THEN "sending" ELSE "idle")
    /\ UNCHANGED <<env, budget, author, control, intake, receipts, returned, posted, released, pc, task>>

\* An answer that is known, else the deadline, else another attempt unless the
\* configuration the obligation was made under has changed (blocked-selection).
Decide(l) ==
    /\ back[l] = "authored"
    /\ IF l \in DOMAIN returned
       THEN ended' = Put(ended, l, returned[l]) /\ Return(l, "idle")
       ELSE IF now >= owed[l].deadline
       THEN ended' = Put(ended, l, "expired") /\ Return(l, "idle")
       ELSE /\ UNCHANGED ended
            /\ Return(l, IF config[l[2]] = owed[l].context THEN "sending" ELSE "idle")
    /\ UNCHANGED <<env, budget, author, control, intake, receipts, returned, posted, released, pc, task>>

\* The gate authorizes the physical release of the receipt.
PostReceipt(l) ==
    /\ back[l] = "sending" /\ now < owed[l].deadline /\ Operational(l[2])
    /\ posted' = posted \cup {l}
    /\ Return(l, "waiting")
    /\ UNCHANGED <<env, budget, author, control, intake, receipts, returned, ended, released, pc, task>>

\* The author's answer is retained, then the obligation ends with it.
ReceiptReturned(l) ==
    /\ back[l] = "waiting" /\ l \in controlAcks
    /\ returned' = Put(returned, l, "recipient-intake")
    /\ Return(l, "authored")
    /\ UNCHANGED <<env, budget, author, control, intake, receipts, ended, posted, released, pc, task>>

ReceiptLost(l) ==
    /\ back[l] \in {"sending", "waiting"}
    /\ IF now < owed[l].deadline /\ Operational(l[2]) THEN Fault ELSE Fine
    /\ Return(l, "idle")
    /\ UNCHANGED <<env, calls, author, control, intake, receipts, returned, ended, posted, released,
                   pc, task>>

BodyCrash(b) ==
    /\ Fault /\ \E l \in Legs : l[2] = b /\ back[l] # "idle"
    /\ back' = [l \in Legs |-> IF l[2] = b THEN "idle" ELSE back[l]]
    /\ UNCHANGED <<env, calls, author, control, intake, receipts, returned, ended, posted, released,
                   pc, task>>

-----------------------------------------------------------------------------
(* The author takes a receipt in. *)

ControlHasRoom ==
    /\ Cardinality(controls \ controlAcks) < MaxPending
    /\ Cardinality(controls \ projected) < MaxPending

\* admit_evidence and commit_control: proof and admission in one transaction.
AdmitControl(l) ==
    /\ l \in posted \ controls /\ now < owed[l].deadline
    /\ l[1] \in authored /\ l[2] \in plan[l[1]].rows
    /\ ControlHasRoom
    /\ controls' = controls \cup {l}
    /\ UNCHANGED <<env, budget, author, controlAcks, projected, delivered, intake, return, released,
                   pc, task>>

AckControl(l) ==
    /\ l \in controls \ controlAcks
    /\ controlAcks' = controlAcks \cup {l}
    /\ UNCHANGED <<env, budget, author, controls, projected, delivered, intake, return, released,
                   pc, task>>

\* complete_control: the leg is projected, then the control ends.
Project(l) ==
    /\ l \in controlAcks \ delivered
    /\ delivered' = delivered \cup {l}
    /\ UNCHANGED <<env, budget, author, controls, controlAcks, projected, intake, return, released,
                   pc, task>>

EndControl(l) ==
    /\ l \in (controlAcks \cap delivered) \ projected
    /\ projected' = projected \cup {l}
    /\ UNCHANGED <<env, budget, author, controls, controlAcks, delivered, intake, return, released,
                   pc, task>>

-----------------------------------------------------------------------------
(* The environment. *)

Tick ==
    /\ now < MaxTime
    /\ now' = now + 1
    /\ UNCHANGED <<bounds, members, config, budget, author, control, intake, return, released, pc, task>>

\* A member leaves the tribe.
Depart(b) ==
    /\ bounds.departs /\ b \in members
    /\ members' = members \ {b}
    /\ UNCHANGED <<bounds, now, config, budget, author, control, intake, return, released, pc, task>>

\* A body restarts with another return configuration.
Move(b) ==
    /\ bounds.moves /\ b \in bounds.audience /\ config[b] = 1
    /\ config' = [config EXCEPT ![b] = 2]
    /\ UNCHANGED <<bounds, now, members, budget, author, control, intake, return, released, pc, task>>

\* A body is retired: its credential is no longer an active one.
Retire(b) ==
    /\ bounds.retires /\ b \in bounds.audience /\ Operational(b)
    /\ config' = [config EXCEPT ![b] = Retired]
    /\ UNCHANGED <<bounds, now, members, budget, author, control, intake, return, released, pc, task>>

CallNext ==
    \/ \E m \in Messages : Send(m) \/ Author(m) \/ \E v \in Recoveries : Recover(m, v)
    \/ \E c \in Carriers : Select(c) \/ Intend(c) \/ Admit(c) \/ Publish(c) \/ Break(c) \/ Leave(c)

RowNext(c, b) ==
    \/ Start(c, b) \/ ReserveTransport(c, b) \/ Release(c, b) \/ Answered(c, b) \/ Lose(c, b)
    \/ AdmitMessage(c, b) \/ RefuseMessage(c, b) \/ Finalize(c, b) \/ Acknowledge(c, b)

LegNext(l) ==
    \/ AuthorReceipt(l) \/ Decide(l) \/ PostReceipt(l) \/ ReceiptReturned(l) \/ ReceiptLost(l)
    \/ AdmitControl(l) \/ AckControl(l) \/ Project(l) \/ EndControl(l)

Next ==
    \/ CallNext
    \/ \E c \in Carriers, b \in Bodies : RowNext(c, b)
    \/ \E l \in Legs : LegNext(l)
    \/ AuthorCrash \/ Tick
    \/ \E b \in Bodies : BodyCrash(b) \/ Depart(b) \/ Move(b) \/ Retire(b)

Spec == Init /\ [][Next]_vars

\* Time passes, a handler that runs goes on, and both sides reconcile what they
\* retained again and again (operator_messaging's reconcile, at the latest).
Fairness ==
    /\ WF_vars(Tick)
    /\ \A l \in Legs : /\ WF_vars(AuthorReceipt(l)) /\ WF_vars(Decide(l))
                       /\ WF_vars(ReceiptReturned(l) \/ ReceiptLost(l))
                       /\ WF_vars(AckControl(l)) /\ WF_vars(Project(l)) /\ WF_vars(EndControl(l))
    /\ \A c \in Carriers, b \in Bodies : WF_vars(Finalize(c, b)) /\ WF_vars(Acknowledge(c, b))
FairSpec == Spec /\ Fairness

-----------------------------------------------------------------------------
(* Properties. *)

\* Records name carriers, bodies and legs that the records they rest on name.
TypeOK ==
    /\ now \in 0..MaxTime /\ members \subseteq Bodies
    /\ DOMAIN plan \subseteq Messages /\ authored \subseteq DOMAIN plan
    /\ \A m \in DOMAIN plan : plan[m] \in [rows: SUBSET Bodies, expires: 0..MaxTime]
    /\ visible \subseteq natives /\ natives \subseteq Carriers
    /\ \A c \in natives : IsRecovery(c) => c \in DOMAIN intents
    /\ \A c \in DOMAIN intents : c[1] \in DOMAIN selection /\ selection[c[1]] = c[2]
    /\ released \subseteq transports /\ transports \subseteq visible \X Bodies
    /\ DOMAIN results \subseteq released
    /\ admitted \subseteq released /\ acks \subseteq admitted
    /\ projected \subseteq delivered /\ delivered \subseteq controls
    /\ DOMAIN ended \subseteq DOMAIN receipts /\ DOMAIN receipts \subseteq DOMAIN owed

\* One message is physically carried by one carrier: never by its original and a
\* recovery, and never by two recoveries, however calls, crashes and the clock
\* interleave.
OneCarrierReleased ==
    \A y, z \in released : y[1][1] = z[1][1] => y[1] = z[1]

\* A leg is delivered only if that body has the message in its inbox and made a
\* receipt; and a receipt shows the time of the first observation, however late,
\* after however many crashes and attempts it was authored.
ReceiptsShowFirstObservation ==
    /\ delivered \subseteq DOMAIN receipts
    /\ \A l \in DOMAIN receipts : l \in DOMAIN owed /\ receipts[l] = owed[l].observed

\* An obligation that ended as taken in left its proof with the author, who
\* therefore projects the leg.
EndedIsProven == \A l \in DOMAIN ended : ended[l] = "recipient-intake" => l \in controls

\* Neither side ever holds more unfinished records than its capacity.
CapacityHolds ==
    /\ \A b \in Bodies : Cardinality(UnackedAt(b)) <= MaxPending /\ Cardinality(OwedAt(b)) <= MaxPending
    /\ Cardinality(controls \ controlAcks) <= MaxPending
    /\ Cardinality(controls \ projected) <= MaxPending

\* A body that left the tribe before a recovery was released to anyone is not
\* carried to by that recovery: the author, knowing it, releases nothing more.
NoRecoveryAfterDeparture ==
    [][\A y \in released' \ released : IsRecovery(y[1]) => plan[y[1][1]].rows \subseteq members]_vars

\* Every obligation of a body ends: with the author's answer or by its deadline,
\* unless the body was retired before it had authored the receipt.
RetiredFirst(l) == l \notin DOMAIN receipts /\ ~Operational(l[2])
ObligationsEnd == \A l \in Legs : l \in DOMAIN owed ~> l \in DOMAIN ended \/ RetiredFirst(l)

\* Every receipt the author retained is projected onto its leg and frees its room.
ControlsProject == \A l \in Legs : l \in controls ~> l \in projected

\* Obligations at every instant: one carrier of a leg is released, a receipt shows
\* what was first observed, an end is proven, and nobody holds more than his room.
ObligationsHold ==
    /\ TypeOK /\ OneCarrierReleased /\ ReceiptsShowFirstObservation
    /\ EndedIsProven /\ CapacityHolds

\* Every obligation of a body that is not retired ends, and what ended it reaches the author's leg.
ObligationsSettle == ObligationsEnd /\ ControlsProject

-----------------------------------------------------------------------------
(* The instance that is model-checked: one scenario per plan. *)

CONSTANTS m1, m2, b1, b2, v1, v2

Quiet == [messages |-> {m1}, audience |-> {b1}, recoveries |-> {}, refusing |-> {}, slots |-> 1,
          calls |-> 1, faults |-> 0, departs |-> FALSE, moves |-> FALSE,
          retires |-> FALSE]

\* An original that expires and two operators who recover it, a member leaving;
\* the same with a fault and fewer calls.
Rescue == [Quiet EXCEPT !.slots = 2, !.recoveries = {v1, v2}, !.calls = 3, !.departs = TRUE]
Faulty == [Rescue EXCEPT !.calls = 2, !.faults = 1]
\* Two messages to a body and to an author with room for one, one of them moving.
Crowd == [Quiet EXCEPT !.messages = {m1, m2}, !.calls = 2, !.moves = TRUE]
\* A body that is retired while it takes a message in and owes the receipt.
Leaving == [Quiet EXCEPT !.faults = 1, !.retires = TRUE]
\* Two bodies, one of which refuses, and the same call again.
Audience == [Quiet EXCEPT !.audience = {b1, b2}, !.refusing = {b2}, !.calls = 2, !.faults = 1]
MCPlans == {Rescue, Faulty, Crowd, Leaving, Audience}
=============================================================================
