------------------------------- MODULE Curator -------------------------------
(***************************************************************************)
(* The curator's work queue (curator.py): items on resources, claims with  *)
(* a lease and a generation, results, and the journal of the operations,   *)
(* in the SQLite database of one ledger.                                   *)
(*                                                                         *)
(* Every operation runs on a thread of the daemon in three steps: it       *)
(* arrives and the clock is read; what it needs is read and the injected   *)
(* Cluster verifier and observer are asked; one transaction commits it.    *)
(* Threads, the clock and the Cluster move in between.                     *)
(***************************************************************************)
EXTENDS Naturals, FiniteSets

CONSTANTS
    Threads,       \* threads of the daemon
    Items,         \* curator items: [id, resource, fenced, human]
    ClaimIds,      \* claim ids, chosen by the clients
    Requests,      \* signed requests: a record each, see RequestAssumption
    None,          \* Python's None
    MaxLease,      \* MAX_LEASE_MS
    MaxNow,        \* bound: the clock
    MaxEpoch,      \* bound: the epochs of a resource fence
    MaxCrashes     \* bound: crashes of the daemon

Keys == {r.key : r \in Requests}           \* <<client_id, request_id>>
Resources == {i.resource : i \in Items}

Outcomes == {"completed", "proposed", "deferred", "failed"}
Active == {"queued", "claimed"}
Terminal == {"completed", "review-required", "deferred", "failed"}

Epochs == 1..MaxEpoch

Item == [state: Active \cup Terminal, gen: Nat, claim: ClaimIds \cup {None}]

Claim == [item: Items, gen: Nat \ {0}, issued: Nat, until: Nat,
          epoch: Epochs \cup {None}]

Result == [claim: ClaimIds, gen: Nat \ {0}, outcome: Outcomes,
           output: {r.output : r \in Requests}, epoch: Epochs \cup {None}, at: Nat]

Queued == [state: Active \cup Terminal, gen: Nat]

Response == Queued \cup Claim \cup Result

Operation == [req: Requests, response: Response]

\* item, claim, gen, until, epoch, ends belong to a claim; claim, gen, outcome,
\* output, epoch to a completion, whose epoch is that of its effect receipt.
ASSUME RequestAssumption ==
    \A r \in Requests :
        /\ r.op \in {"enqueue", "claim", "complete"}
        /\ r.op \in {"enqueue", "claim"} => r.item \in Items
        /\ r.op \in {"claim", "complete"} =>
              r.claim \in ClaimIds /\ r.gen \in Nat /\ r.epoch \in Epochs \cup {None}
        /\ r.op = "claim" => r.until \in Nat /\ r.ends \in Nat
        /\ r.op = "complete" =>
              /\ r.gen > 0 /\ r.outcome \in Outcomes
              /\ r.epoch # None => r.outcome = "completed"
ASSUME ItemAssumption == \A i \in Items : {i.fenced, i.human} \subseteq BOOLEAN
ASSUME NoneAssumption ==
    None \notin Requests \cup Item \cup Claim \cup Result \cup Operation \cup Nat \cup ClaimIds
ASSUME MaxAssumption ==
    /\ MaxLease \in Nat /\ MaxNow \in Nat /\ MaxEpoch \in Nat \ {0} /\ MaxCrashes \in Nat

VARIABLES
    items,         \* items[i]: row of curator_items without its result, or None
    results,       \* results[i]: its result_json, or None
    claims,        \* claims[c]: row of curator_claims, or None
    operations,    \* operations[k]: row of curator_operations, or None
    thread,        \* thread[t]: what thread t is doing
    answers,       \* <<request, response>>: the successes sent to clients
    now,           \* the clock
    fences,        \* fences[x]: the Cluster's current epoch for resource x
    crashes

store == <<items, results, claims, operations>>
world == <<now, fences, crashes>>
vars == <<store, thread, answers, world>>

Idle == [pc |-> "idle", req |-> None, at |-> 0]

Init ==
    /\ items = [i \in Items |-> None]
    /\ results = [i \in Items |-> None]
    /\ claims = [c \in ClaimIds |-> None]
    /\ operations = [k \in Keys |-> None]
    /\ thread = [t \in Threads |-> Idle]
    /\ answers = {}
    /\ now = 0
    /\ fences = [x \in Resources |-> 1]
    /\ crashes = 0

-----------------------------------------------------------------------------
(***************************************************************************)
(* Before the transaction.                                                 *)
(***************************************************************************)
At(t, pc, op) == thread[t].pc = pc /\ thread[t].req.op = op

\* The clock is read once, here.
Arrive(t, r) ==
    /\ thread[t].pc = "idle"
    /\ r.op = "claim" => now < r.until /\ r.until <= now + MaxLease
    /\ thread' = [thread EXCEPT ![t] = [pc |-> "arrived", req |-> r, at |-> now]]
    /\ UNCHANGED <<store, answers, world>>

\* _verified_fence: the evidence names the current epoch and has not expired.
FenceVerified(i, r, at) ==
    IF i.fenced THEN r.epoch = fences[i.resource] /\ at <= r.ends
    ELSE r.epoch = None

\* _verify_effect_truth: the fence of the receipt is the current one.
EffectVerified(i, r) == r.epoch = fences[i.resource]

Ready(t) == thread' = [thread EXCEPT ![t].pc = "ready"]

EnqueueReady(t) ==
    /\ At(t, "arrived", "enqueue")
    /\ Ready(t)
    /\ UNCHANGED <<store, answers, world>>

ClaimReady(t) ==
    LET r == thread[t].req
    IN  /\ At(t, "arrived", "claim")
        /\ items[r.item] # None
        /\ FenceVerified(r.item, r, thread[t].at)
        /\ Ready(t)
        /\ UNCHANGED <<store, answers, world>>

CompleteReady(t) ==
    LET r == thread[t].req
    IN  /\ At(t, "arrived", "complete")
        /\ claims[r.claim] # None
        /\ r.epoch # None => EffectVerified(claims[r.claim].item, r)
        /\ Ready(t)
        /\ UNCHANGED <<store, answers, world>>

\* A condition of the code fails, or the database, the verifier or the observer
\* does: an error is answered and the transaction is rolled back.
Refuse(t) ==
    /\ thread[t].pc # "idle"
    /\ thread' = [thread EXCEPT ![t] = Idle]
    /\ UNCHANGED <<store, answers, world>>

-----------------------------------------------------------------------------
(***************************************************************************)
(* The transactions.                                                       *)
(***************************************************************************)
New(t, op) == At(t, "ready", op) /\ operations[thread[t].req.key] = None

\* _store_operation, the commit and the answer.
Respond(t, response) ==
    /\ operations' = [operations EXCEPT ![thread[t].req.key] =
                         [req |-> thread[t].req, response |-> response]]
    /\ answers' = answers \cup {<<thread[t].req, response>>}
    /\ thread' = [thread EXCEPT ![t] = Idle]
    /\ UNCHANGED world

\* _stored_operation: the same bytes again.
Replay(t) ==
    LET r == thread[t].req
        row == operations[r.key]
    IN  /\ thread[t].pc = "ready"
        /\ row # None /\ row.req = r
        /\ r.op = "claim" => thread[t].at < row.response.until
        /\ answers' = answers \cup {<<r, row.response>>}
        /\ thread' = [thread EXCEPT ![t] = Idle]
        /\ UNCHANGED <<store, world>>

Busy(x) == \E i \in Items : i.resource = x /\ items[i] # None /\ items[i].state \in Active

\* Fault: an enqueue of an item that is there starts it over.
EnqueueOver(t) ==
    LET i == thread[t].req.item
    IN  /\ New(t, "enqueue")
        /\ ~ Busy(i.resource)
        /\ items' = [items EXCEPT ![i] = [state |-> "queued", gen |-> 0, claim |-> None]]
        /\ Respond(t, [state |-> "queued", gen |-> 0])
        /\ UNCHANGED <<results, claims>>

Enqueue(t) ==
    LET i == thread[t].req.item
    IN  /\ New(t, "enqueue")
        /\ items[i] = None /\ ~ Busy(i.resource)
        /\ items' = [items EXCEPT ![i] = [state |-> "queued", gen |-> 0, claim |-> None]]
        /\ Respond(t, [state |-> "queued", gen |-> 0])
        /\ UNCHANGED <<results, claims>>

EnqueueAgain(t) ==
    LET i == thread[t].req.item
    IN  /\ New(t, "enqueue")
        /\ items[i] # None
        /\ Respond(t, [state |-> items[i].state, gen |-> items[i].gen])
        /\ UNCHANGED <<items, results, claims>>

\* Fault: the lease ends one tick early.
LeaseOverEarly(c, at) == at + 1 >= c.until

LeaseOver(c, at) == at >= c.until

Claimable(i, r, at) ==
    /\ items[i].gen = r.gen
    /\ items[i].state \notin Terminal
    /\ items[i].state = "claimed" => LeaseOver(claims[items[i].claim], at)

TakeClaim(t) ==
    LET r == thread[t].req
        i == r.item
        claim == [item |-> i, gen |-> r.gen + 1, issued |-> thread[t].at,
                  until |-> r.until, epoch |-> r.epoch]
    IN  /\ New(t, "claim")
        /\ Claimable(i, r, thread[t].at)
        /\ claims[r.claim] = None
        /\ i.fenced => r.until <= r.ends
        /\ claims' = [claims EXCEPT ![r.claim] = claim]
        /\ items' = [items EXCEPT ![i] = [state |-> "claimed", gen |-> r.gen + 1,
                                          claim |-> r.claim]]
        /\ Respond(t, claim)
        /\ UNCHANGED results

Holds(i, r) ==
    /\ items[i].state = "claimed"
    /\ items[i].gen = r.gen /\ items[i].claim = r.claim

\* What the item, the claim and the receipt must agree on.
ReceiptFits(i, r) ==
    /\ i.human => r.outcome # "completed"
    /\ ~ i.fenced => r.epoch = None
    /\ (i.fenced /\ r.outcome = "completed") => r.epoch # None
    /\ r.epoch # None => r.epoch = claims[r.claim].epoch

StateOf(outcome) == IF outcome = "proposed" THEN "review-required" ELSE outcome

InState(row, state) == [row EXCEPT !.state = state]

Complete(t) ==
    LET r == thread[t].req
        i == claims[r.claim].item
        result == [claim |-> r.claim, gen |-> claims[r.claim].gen, outcome |-> r.outcome,
                   output |-> r.output, epoch |-> r.epoch, at |-> thread[t].at]
    IN  /\ New(t, "complete")
        /\ results[i] = None
        /\ Holds(i, r)
        /\ ~ LeaseOver(claims[r.claim], thread[t].at)
        /\ ReceiptFits(i, r)
        /\ items' = [items EXCEPT ![i] = InState(@, StateOf(r.outcome))]
        /\ results' = [results EXCEPT ![i] = result]
        /\ Respond(t, result)
        /\ UNCHANGED claims

\* Another request for the result that is there.
CompleteAgain(t) ==
    LET r == thread[t].req
        i == claims[r.claim].item
    IN  /\ New(t, "complete")
        /\ results[i] # None
        /\ results[i].claim = r.claim /\ results[i].gen = r.gen
        /\ results[i].outcome = r.outcome /\ results[i].output = r.output
        /\ results[i].epoch = r.epoch
        /\ Respond(t, results[i])
        /\ UNCHANGED <<items, results, claims>>

-----------------------------------------------------------------------------
(***************************************************************************)
(* The environment.                                                        *)
(***************************************************************************)
Crash ==
    /\ crashes < MaxCrashes
    /\ \E t \in Threads : thread[t] # Idle
    /\ thread' = [t \in Threads |-> Idle]
    /\ crashes' = crashes + 1
    /\ UNCHANGED <<store, answers, now, fences>>

Tick ==
    /\ now < MaxNow
    /\ now' = now + 1
    /\ UNCHANGED <<store, thread, answers, fences, crashes>>

\* The Cluster gives the resource to another holder, or to this one anew.
MoveFence(x) ==
    /\ fences[x] < MaxEpoch
    /\ fences' = [fences EXCEPT ![x] = @ + 1]
    /\ UNCHANGED <<store, thread, answers, now, crashes>>

Step(t) ==
    \/ EnqueueReady(t)
    \/ ClaimReady(t)
    \/ CompleteReady(t)
    \/ Refuse(t)
    \/ Replay(t)
    \/ Enqueue(t)
    \/ EnqueueAgain(t)
    \/ TakeClaim(t)
    \/ Complete(t)
    \/ CompleteAgain(t)

Next ==
    \/ \E t \in Threads : Step(t) \/ \E r \in Requests : Arrive(t, r)
    \/ Crash
    \/ Tick
    \/ \E x \in Resources : MoveFence(x)

Spec == Init /\ [][Next]_vars

-----------------------------------------------------------------------------
(***************************************************************************)
(* Properties.                                                             *)
(***************************************************************************)

\* Every table holds rows of its kind.
TypeOK ==
    /\ items \in [Items -> Item \cup {None}]
    /\ results \in [Items -> Result \cup {None}]
    /\ claims \in [ClaimIds -> Claim \cup {None}]
    /\ operations \in [Keys -> Operation \cup {None}]
    /\ thread \in [Threads -> [pc: {"idle", "arrived", "ready"},
                               req: Requests \cup {None}, at: Nat]]
    /\ answers \subseteq Requests \X Response
    /\ now \in 0..MaxNow
    /\ fences \in [Resources -> Epochs]
    /\ crashes \in 0..MaxCrashes

\* No two workers ever hold one item at a time: whatever the clocks the threads
\* carry from before their transactions, the leases of an item do not overlap
\* and follow its generations.
LeasesDisjoint ==
    \A c, d \in ClaimIds :
        (claims[c] # None /\ claims[d] # None /\ c # d /\ claims[c].item = claims[d].item)
        => \/ claims[c].gen < claims[d].gen /\ claims[c].until <= claims[d].issued
           \/ claims[d].gen < claims[c].gen /\ claims[d].until <= claims[c].issued

\* A result comes from the last claim of its item, given while its lease ran:
\* a worker that was replaced never completes. Its receipt is under the fence of
\* that claim, and a completed item with a fence has one.
ResultFromLastClaim ==
    \A i \in Items : results[i] # None =>
        LET c == claims[results[i].claim]
        IN  /\ c # None /\ c.item = i
            /\ c.gen = results[i].gen /\ results[i].at < c.until
            /\ results[i].epoch # None => results[i].epoch = c.epoch
            /\ (i.fenced /\ results[i].outcome = "completed") => results[i].epoch # None
            /\ \A d \in ClaimIds :
                  (claims[d] # None /\ claims[d].item = i) => claims[d].gen <= c.gen

\* Two items on one resource are never in work together.
OneItemPerResource ==
    \A i, j \in Items :
        (/\ items[i] # None /\ items[j] # None /\ i.resource = j.resource
         /\ items[i].state \in Active /\ items[j].state \in Active) => i = j

\* A finished item is never taken up again and keeps its result, no item is ever
\* lost and no generation is lowered.
ItemsAdvance ==
    [][\A i \in Items : items[i] # None =>
          /\ items'[i] # None /\ items'[i].gen >= items[i].gen
          /\ items[i].state \in Terminal => items'[i] = items[i] /\ results'[i] = results[i]]_vars

\* Every copy of a request that succeeds gets the same artifact, over crashes
\* and whatever happened to the item since.
RetriesAgree ==
    \A a, b \in answers : a[1] = b[1] => a[2] = b[2]

\* The queue as its workers see it: leases, resources and results are exclusive,
\* the result is the last claim's, and retries get the artifact of the first.
WorkIsExclusive ==
    /\ TypeOK /\ LeasesDisjoint /\ ResultFromLastClaim
    /\ OneItemPerResource /\ RetriesAgree
=============================================================================
