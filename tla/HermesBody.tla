------------------------------ MODULE HermesBody ------------------------------
(***************************************************************************)
(* The Hermes body (hermes_body.py): supervisors that launch and park the  *)
(* native process of one profile through its append-only journal, and the  *)
(* memory provider inside that process, which reads the Matrix daemon and  *)
(* proposes observations to it.                                            *)
(*                                                                         *)
(* The daemon is external to the module: a ledger that others also extend, *)
(* and the exact-retry answer to a request it has already served.          *)
(***************************************************************************)
EXTENDS Integers, FiniteSets, Sequences

CONSTANTS Supervisors,
          Operations,   \* operation ids the model proposes under
          MaxStarts,    \* launches tried
          MaxOthers     \* events others append to the ledger

VARIABLES
    journal,    \* the lifecycle states recorded, oldest first
    supervisor, \* supervisor -> [step, mine]: mine is the length of the journal
                \* that ends with the handle it holds
    child,      \* supervisor -> "none" | "booting" | "ready"
    ledger,     \* events: an operation, or "other"
    stored,     \* operations whose request is kept in the profile
    provider,   \* supervisor -> what its child's provider is doing
    context,    \* the last context handed to the model: [high, read]
    receipts,   \* operation -> the high water of its last effect receipt
    starts

lifecycle == <<journal, supervisor, child, starts>>
memory == <<ledger, stored, provider, context, receipts>>
vars == <<lifecycle, memory>>

Idle == [step |-> "idle", operation |-> "none", high |-> 0, read |-> 0]
Down == [step |-> "idle", mine |-> 0]

State(j) == IF j = <<>> THEN "none" ELSE j[Len(j)]

\* The signed bootstrap in the plan binds the ledger of the birth.
PlannedHighWater == 0

---------------------------------------------------------------------------
(* The journal and the launch *)

\* _validate_runtime_transition, under the journal's lock.
MayFollow(state) ==
    CASE State(journal) = "none" -> state = "starting"
      [] State(journal) = "starting" -> state \in {"active", "failed"}
      [] State(journal) = "active" -> state = "parking"
      [] State(journal) = "parking" -> state \in {"parked", "failed"}
      [] OTHER -> state = "starting"

Recorded(state) == MayFollow(state) /\ journal' = Append(journal, state)

Goto(p, step) == supervisor' = [supervisor EXCEPT ![p].step = step]

\* start() reads the journal first; a session parked here is resumed.
LaunchChecks(p) ==
    /\ supervisor[p] = Down /\ child[p] = "none"
    /\ State(journal) \notin {"starting", "parking", "active"}
    /\ starts < MaxStarts /\ starts' = starts + 1
    /\ Goto(p, "checked")
    /\ UNCHANGED <<journal, child, memory>>

LaunchRecords(p) ==
    /\ supervisor[p].step = "checked"
    /\ IF MayFollow("starting")
       THEN Recorded("starting") /\ Goto(p, "spawn")
       ELSE UNCHANGED journal /\ supervisor' = [supervisor EXCEPT ![p] = Down]
    /\ UNCHANGED <<child, starts, memory>>

Spawn(p) ==
    /\ supervisor[p].step = "spawn"
    /\ child' = [child EXCEPT ![p] = "booting"]
    /\ Goto(p, "wait")
    /\ UNCHANGED <<journal, starts, memory>>

\* The provider is idle and has seen the ledger as it stands.
Rests(p) == provider' = [provider EXCEPT ![p] = [Idle EXCEPT !.high = Len(ledger)]]

\* initialize(): the daemon must stand where the plan's bootstrap says.
ProviderReady(p) ==
    /\ child[p] = "booting"
    /\ Len(ledger) = PlannedHighWater
    /\ child' = [child EXCEPT ![p] = "ready"]
    /\ Rests(p)
    /\ UNCHANGED <<journal, supervisor, starts, ledger, stored, context, receipts>>

Admit(p) ==
    /\ supervisor[p].step = "wait" /\ child[p] = "ready"
    /\ Recorded("active")
    /\ supervisor' = [supervisor EXCEPT ![p] = [step |-> "receipt", mine |-> Len(journal')]]
    /\ UNCHANGED <<child, starts, memory>>

LaunchReceipt(p) ==
    /\ supervisor[p].step = "receipt"
    /\ Goto(p, "running")
    /\ UNCHANGED <<journal, child, starts, memory>>

\* The native process is gone, and its provider with it.
Exited(p) ==
    /\ child' = [child EXCEPT ![p] = "none"]
    /\ provider' = [provider EXCEPT ![p] = Idle]

\* Any failure of the launch stops the child, then closes the journal.
LaunchFails(p) ==
    /\ supervisor[p].step \in {"spawn", "wait", "receipt"}
    /\ Exited(p)
    /\ Goto(p, "failing")
    /\ UNCHANGED <<journal, starts, ledger, stored, context, receipts>>

\* _record_failure appends from whatever state the journal is in.
RecordFailure(p) ==
    /\ supervisor[p].step = "failing"
    /\ journal' = CASE State(journal) = "active" -> journal \o <<"parking", "failed">>
                    [] State(journal) \in {"starting", "parking"} -> Append(journal, "failed")
                    [] OTHER -> journal
    /\ supervisor' = [supervisor EXCEPT ![p] = Down]
    /\ UNCHANGED <<child, starts, memory>>

---------------------------------------------------------------------------
(* Park *)

ParkRecords(p) ==
    /\ supervisor[p].step = "running" /\ supervisor[p].mine = Len(journal)
    /\ Recorded("parking")
    /\ Goto(p, "stopping")
    /\ UNCHANGED <<child, starts, memory>>

ParkStops(p) ==
    /\ supervisor[p].step = "stopping"
    /\ Exited(p)
    /\ Goto(p, "commit")
    /\ UNCHANGED <<journal, starts, ledger, stored, context, receipts>>

\* The committer answers with a bound receipt, or not at all.
ParkCommits(p) ==
    /\ supervisor[p].step = "commit"
    /\ \/ Recorded("parked") /\ supervisor' = [supervisor EXCEPT ![p] = Down]
       \/ UNCHANGED journal /\ Goto(p, "failing")
    /\ UNCHANGED <<child, starts, memory>>

\* The child has a session of its own and outlives its supervisor.
SupervisorDies(p) ==
    /\ supervisor[p] # Down
    /\ supervisor' = [supervisor EXCEPT ![p] = Down]
    /\ UNCHANGED <<journal, child, starts, memory>>

ChildExits(p) ==
    /\ child[p] \in {"booting", "ready"}
    /\ Exited(p)
    /\ UNCHANGED <<journal, supervisor, starts, ledger, stored, context, receipts>>

---------------------------------------------------------------------------
(* The provider *)

Serving(p) == child[p] = "ready"

\* _refresh_scope: the heads descend from the last seen.
Refreshed(p) == provider[p].high <= Len(ledger)

\* prefetch: scope, projection, scope again.
PrefetchOpens(p) ==
    /\ Serving(p) /\ provider[p].step = "idle" /\ Refreshed(p)
    /\ provider' = [provider EXCEPT ![p] = [@ EXCEPT !.step = "read", !.high = Len(ledger)]]
    /\ UNCHANGED <<lifecycle, ledger, stored, context, receipts>>

PrefetchReads(p) ==
    /\ Serving(p) /\ provider[p].step = "read"
    /\ provider' = [provider EXCEPT ![p] = [@ EXCEPT !.step = "confirm", !.read = Len(ledger)]]
    /\ UNCHANGED <<lifecycle, ledger, stored, context, receipts>>

\* Mutant: the projection is not confirmed by a second read of the scope.
StandsOnce(p) == Refreshed(p)

\* The ledger stands where it stood before the projection was read.
StandsStill(p) == provider[p].high = Len(ledger)

PrefetchConfirms(p) ==
    /\ Serving(p) /\ provider[p].step = "confirm"
    /\ context' = IF StandsStill(p)
                  THEN [high |-> provider[p].high, read |-> provider[p].read] ELSE context
    /\ Rests(p)
    /\ UNCHANGED <<lifecycle, ledger, stored, receipts>>

\* _durable_effect_request: the request of an operation is made once and kept.
ProposeStores(p, o) ==
    /\ Serving(p) /\ provider[p].step = "idle" /\ Refreshed(p)
    /\ stored' = stored \cup {o}
    /\ provider' = [provider EXCEPT ![p] =
                      [@ EXCEPT !.step = "send", !.operation = o, !.high = Len(ledger)]]
    /\ UNCHANGED <<lifecycle, ledger, context, receipts>>

Answered(o) == \E i \in DOMAIN ledger : ledger[i] = o

\* The daemon serves a request once; the reply may not come back.
ProposeSends(p, reply) ==
    LET o == provider[p].operation IN
    /\ Serving(p) /\ provider[p].step = "send"
    /\ ledger' = IF Answered(o) THEN ledger ELSE Append(ledger, o)
    /\ provider' = [provider EXCEPT ![p].step = IF reply THEN "receipt" ELSE "idle"]
    /\ UNCHANGED <<lifecycle, stored, context, receipts>>

ProposeReceipts(p) ==
    /\ Serving(p) /\ provider[p].step = "receipt" /\ Refreshed(p)
    /\ receipts' = [receipts EXCEPT ![provider[p].operation] = Len(ledger)]
    /\ Rests(p)
    /\ UNCHANGED <<lifecycle, ledger, stored, context>>

OthersWrite ==
    /\ Cardinality({i \in DOMAIN ledger : ledger[i] = "other"}) < MaxOthers
    /\ ledger' = Append(ledger, "other")
    /\ UNCHANGED <<lifecycle, stored, provider, context, receipts>>

---------------------------------------------------------------------------
Init ==
    /\ journal = <<>> /\ starts = 0
    /\ supervisor = [p \in Supervisors |-> Down]
    /\ child = [p \in Supervisors |-> "none"]
    /\ ledger = <<>> /\ stored = {}
    /\ provider = [p \in Supervisors |-> Idle]
    /\ context = [high |-> 0, read |-> 0] /\ receipts = [o \in Operations |-> 0]

Next ==
    \/ \E p \in Supervisors :
          \/ LaunchChecks(p) \/ LaunchRecords(p) \/ Spawn(p) \/ ProviderReady(p)
          \/ Admit(p) \/ LaunchReceipt(p) \/ LaunchFails(p) \/ RecordFailure(p)
          \/ ParkRecords(p) \/ ParkStops(p) \/ ParkCommits(p)
          \/ SupervisorDies(p) \/ ChildExits(p)
          \/ PrefetchOpens(p) \/ PrefetchReads(p) \/ PrefetchConfirms(p)
          \/ \E o \in Operations : ProposeStores(p, o)
          \/ \E reply \in BOOLEAN : ProposeSends(p, reply)
          \/ ProposeReceipts(p)
    \/ OthersWrite

Spec == Init /\ [][Next]_vars

---------------------------------------------------------------------------
(* Properties *)

\* Two supervisors racing, failing or dying never leave two native processes
\* on one profile; and what the provider hands the model is true of one moment
\* of the ledger: a context's entries are those of its high water, a receipt's
\* operation is an event under its high water, and in the ledger only once.
BodyIsOneAndTruthful ==
    /\ Cardinality({p \in Supervisors : child[p] \in {"booting", "ready"}}) <= 1
    /\ context.high = context.read
    /\ \A o \in Operations : receipts[o] > 0 => \E i \in 1..receipts[o] : ledger[i] = o
    /\ \A o \in Operations : Cardinality({i \in DOMAIN ledger : ledger[i] = o}) <= 1
=============================================================================
