-------------------------- MODULE MemoryProjection --------------------------
(***************************************************************************)
(* Projection of the personal memory lanes into an external memory store,  *)
(* the HMK (memory_projection.py): one head at a time through a journal of *)
(* requests, or all active heads at once through a rebuild.  The journal's *)
(* file lock serialises the two across processes and is released by a      *)
(* crash; the ledger moves on without it.                                  *)
(*                                                                         *)
(* A lane is the number of its records; its last one, Retraction, takes    *)
(* the memory back.  The external store is modelled as what Matrix asks    *)
(* of it: a request sets the memory's row, a rebuild sets all of them.     *)
(***************************************************************************)
EXTENDS Integers, FiniteSets, Sequences

CONSTANTS Memories, Processes, Retraction, MaxTroubles

VARIABLES
    head,       \* memory -> number of records in its lane of the ledger
    journal,    \* <<memory, record>> -> state of the request for it
    frozen,     \* <<memory, record>> -> the checkpoint the request names
    stored,     \* memory -> <<record, checkpoint>> of the store's row
    plan,       \* the rebuild plan an operator keeps, or None
    run,        \* process -> the call it is in
    lock,       \* the process that holds the journal's lock
    troubles

vars == <<head, journal, frozen, stored, plan, run, lock, troubles>>

None == "none"
NoRow == <<0, 0>>
Idle == [step |-> "idle"]
Records == Memories \X (1..Retraction)

---------------------------------------------------------------------------
(* The ledger's side *)

\* projection_checkpoint: the number of records of all lanes.
Sum[S \in SUBSET Memories] ==
    IF S = {} THEN 0 ELSE LET m == CHOOSE x \in S : TRUE IN head[m] + Sum[S \ {m}]
Checkpoint == Sum[Memories]

\* _current_event: only a lane's head is projected.
IsCurrent(e) == head[e[1]] = e[2]

Active(m) == head[m] \in 1..(Retraction - 1)

\* _expected_states, and _rebuild_entries: the active heads.
Entries == [m \in Memories |-> IF Active(m) THEN head[m] ELSE 0]

\* _verify_result: the store holds every active head at its record, and of
\* the others nothing but their retraction.
Verifies ==
    \A m \in Memories :
        IF Active(m) THEN stored[m][1] = head[m] ELSE stored[m][1] \in {0, head[m]}

\* _build_hmk_request: the row the journalled request asks for.
HmkRequest(e) == <<e[2], frozen[e]>>

\* reconcile: the record is the head still, and the row is what was asked.
Reconciled(e) == IsCurrent(e) /\ stored[e[1]] = HmkRequest(e)

---------------------------------------------------------------------------
(* One head: project *)

At(p, s) == run[p].step = s
Unlock(p) == run' = [run EXCEPT ![p] = Idle] /\ lock' = None

Lock(p, e) ==
    /\ At(p, "idle") /\ lock = None
    /\ e[2] <= head[e[1]]
    /\ lock' = p
    /\ run' = [run EXCEPT ![p] = [step |-> "project", event |-> e]]
    /\ UNCHANGED <<head, journal, frozen, stored, plan, troubles>>

\* lookup and reserve: the request is rebuilt only when there is none; one
\* that was completed is answered from the journal if it is still true.
Reserve(p) ==
    /\ At(p, "project")
    /\ LET e == run[p].event IN
       IF ~IsCurrent(e) \/ journal[e] = "completed"
       THEN Unlock(p) /\ UNCHANGED <<journal, frozen>>
       ELSE /\ run' = [run EXCEPT ![p].step = "apply"] /\ UNCHANGED lock
            /\ journal' = [journal EXCEPT ![e] = "pending"]
            /\ frozen' = IF journal[e] = "absent" THEN [frozen EXCEPT ![e] = Checkpoint] ELSE frozen
    /\ UNCHANGED <<head, stored, plan, troubles>>

\* _validate_hmk_receipt: the store's answer is about the row asked for.
ReceiptFits(receipt, e) == receipt = HmkRequest(e)

\* The store takes the request, or keeps what it has and says so.
Apply(p) ==
    /\ At(p, "apply")
    /\ LET e == run[p].event IN
       /\ stored' \in {stored, [stored EXCEPT ![e[1]] = HmkRequest(e)]}
       /\ IF ReceiptFits(stored'[e[1]], e)
          THEN run' = [run EXCEPT ![p].step = "reconcile"] /\ UNCHANGED lock
          ELSE Unlock(p)
    /\ UNCHANGED <<head, journal, frozen, plan, troubles>>

\* A fresh observation, then the journal's completion.
Complete(p) ==
    /\ At(p, "reconcile")
    /\ LET e == run[p].event IN
       journal' = IF Reconciled(e) THEN [journal EXCEPT ![e] = "completed"] ELSE journal
    /\ Unlock(p)
    /\ UNCHANGED <<head, frozen, stored, plan, troubles>>

---------------------------------------------------------------------------
(* All heads: rebuild *)

RebuildPlan(p) ==
    /\ At(p, "idle") /\ plan = <<>>
    /\ plan' = <<Checkpoint, Entries>>
    /\ UNCHANGED <<head, journal, frozen, stored, run, lock, troubles>>

\* The plan still is what the ledger would plan now.
PlanHolds == plan = <<Checkpoint, Entries>>

RebuildLooks(p) ==
    /\ At(p, "idle") /\ lock = None /\ plan # <<>>
    /\ IF PlanHolds
       THEN lock' = p /\ run' = [run EXCEPT ![p] = [step |-> "rebuild", plan |-> plan]]
       ELSE UNCHANGED <<lock, run>>
    /\ plan' \in IF PlanHolds THEN {plan} ELSE {<<>>}
    /\ UNCHANGED <<head, journal, frozen, stored, troubles>>

RebuildApplies(p) ==
    /\ At(p, "rebuild")
    /\ stored' = [m \in Memories |->
          IF run[p].plan[2][m] = 0 THEN NoRow ELSE <<run[p].plan[2][m], run[p].plan[1]>>]
    /\ run' = [run EXCEPT ![p].step = "verify"]
    /\ UNCHANGED <<head, journal, frozen, plan, lock, troubles>>

\* Its receipt is given only when the store verifies against the ledger as
\* it is then, at the checkpoint of the plan.
RebuildVerifies(p) ==
    /\ At(p, "verify")
    /\ plan' = IF Verifies /\ run[p].plan[1] = Checkpoint THEN <<>> ELSE plan
    /\ Unlock(p)
    /\ UNCHANGED <<head, journal, frozen, stored, troubles>>

---------------------------------------------------------------------------
Record(m) ==
    /\ head[m] < Retraction
    /\ head' = [head EXCEPT ![m] = @ + 1]
    /\ UNCHANGED <<journal, frozen, stored, plan, run, lock, troubles>>

\* The process dies, or its remote call is not answered; the store may have
\* done what it was asked.
Crash(p) ==
    /\ ~At(p, "idle") /\ troubles < MaxTroubles
    /\ troubles' = troubles + 1
    /\ Unlock(p)
    /\ UNCHANGED <<head, journal, frozen, stored, plan>>

Init ==
    /\ head = [m \in Memories |-> 0]
    /\ journal = [e \in Records |-> "absent"] /\ frozen = [e \in Records |-> 0]
    /\ stored = [m \in Memories |-> NoRow]
    /\ plan = <<>>
    /\ run = [p \in Processes |-> Idle] /\ lock = None
    /\ troubles = 0

Project(p) == (\E e \in Records : Lock(p, e)) \/ Reserve(p) \/ Apply(p) \/ Complete(p)
Rebuild(p) == RebuildPlan(p) \/ RebuildLooks(p) \/ RebuildApplies(p) \/ RebuildVerifies(p)

Next ==
    \/ \E m \in Memories : Record(m)
    \/ \E p \in Processes : Project(p) \/ Rebuild(p) \/ Crash(p)

Spec == Init /\ [][Next]_vars

---------------------------------------------------------------------------
(* Properties *)

\* Whatever is retried, a pending request of an earlier record or a plan an
\* operator kept, the store is never taken back to an earlier record of a
\* lane, and an active memory is never dropped from it.
StoreNeverRewinds ==
    \A m \in Memories :
        \/ stored'[m][1] >= stored[m][1]
        \/ stored'[m] = NoRow /\ head[m] = Retraction
=============================================================================
