---------------------------- MODULE CuratorProofs ----------------------------
(***************************************************************************)
(* Proofs about Curator, for any set of threads, items and requests.       *)
(***************************************************************************)
EXTENDS Curator, TLAPS

LEMMA KeyOfRequest == ASSUME NEW r \in Requests PROVE r.key \in Keys
BY DEF Keys

\* What a running thread may rely on: its request, the lease it asked for, and
\* the rows it read, which are never deleted.
Held ==
    \A t \in Threads : thread[t].pc # "idle" =>
        /\ thread[t].req \in Requests
        /\ thread[t].req.op = "claim" => thread[t].at < thread[t].req.until
        /\ (thread[t].pc = "ready" /\ thread[t].req.op = "claim")
              => items[thread[t].req.item] # None
        /\ (thread[t].pc = "ready" /\ thread[t].req.op = "complete")
              => claims[thread[t].req.claim] # None

\* A claim is on an item that exists.
Rooted == \A c \in ClaimIds : claims[c] # None => items[claims[c].item] # None

BaseInv == TypeOK /\ Held /\ Rooted

LEMMA BaseInit == Init => BaseInv
BY MaxAssumption DEF Init, BaseInv, TypeOK, Held, Rooted, Idle, Keys, Epochs

-----------------------------------------------------------------------------
(***************************************************************************)
(* The transactions: what each one writes, typed.                          *)
(***************************************************************************)
NewClaim(t) ==
    [item |-> thread[t].req.item, gen |-> thread[t].req.gen + 1, issued |-> thread[t].at,
     until |-> thread[t].req.until, epoch |-> thread[t].req.epoch]

NewResult(t) ==
    [claim |-> thread[t].req.claim, gen |-> claims[thread[t].req.claim].gen,
     outcome |-> thread[t].req.outcome, output |-> thread[t].req.output,
     epoch |-> thread[t].req.epoch, at |-> thread[t].at]

LEMMA InStateTyped ==
    ASSUME NEW row \in Item, NEW state \in Active \cup Terminal
    PROVE  /\ InState(row, state) \in Item /\ InState(row, state).state = state
           /\ InState(row, state).gen = row.gen /\ InState(row, state).claim = row.claim
BY DEF InState, Item

LEMMA RequestTyped ==
    ASSUME NEW r \in Requests
    PROVE  /\ r.op \in {"enqueue", "claim"} => r.item \in Items
           /\ r.op \in {"claim", "complete"} =>
                 r.claim \in ClaimIds /\ r.gen \in Nat /\ r.epoch \in Epochs \cup {None}
           /\ r.op = "claim" => r.until \in Nat
           /\ r.op = "complete" => r.outcome \in Outcomes
BY RequestAssumption

LEMMA RunningTyped ==
    ASSUME BaseInv, NEW t \in Threads, NEW op, At(t, "ready", op)
    PROVE  /\ thread[t].req \in Requests /\ thread[t].at \in Nat
           /\ thread[t].req.op = op /\ thread[t].pc = "ready"
BY DEF BaseInv, TypeOK, Held, At

LEMMA ClaimTyped ==
    ASSUME BaseInv, NEW t \in Threads, At(t, "ready", "claim")
    PROVE  /\ NewClaim(t) \in Claim /\ NewClaim(t) # None
           /\ NewClaim(t).issued < NewClaim(t).until
           /\ thread[t].req.item \in Items /\ items[thread[t].req.item] \in Item
           /\ thread[t].req.claim \in ClaimIds
<1> DEFINE r == thread[t].req
<1>1. r \in Requests /\ thread[t].at \in Nat /\ r.op = "claim"  BY RunningTyped
<1>2. /\ r.item \in Items /\ r.gen \in Nat /\ r.until \in Nat
      /\ r.epoch \in Epochs \cup {None} /\ r.claim \in ClaimIds
  BY <1>1, RequestTyped
<1>3. r.gen + 1 \in Nat \ {0}  BY <1>2
<1>4. NewClaim(t) \in Claim  BY <1>1, <1>2, <1>3 DEF NewClaim, Claim
<1>5. thread[t].at < r.until /\ items[r.item] # None  BY <1>1 DEF BaseInv, Held, At
<1>6. items[r.item] \in Item  BY <1>2, <1>5 DEF BaseInv, TypeOK
<1>7. NewClaim(t).issued = thread[t].at /\ NewClaim(t).until = r.until  BY DEF NewClaim
<1>8. QED  BY <1>2, <1>4, <1>5, <1>6, <1>7, NoneAssumption

LEMMA ResultTyped ==
    ASSUME BaseInv, NEW t \in Threads, At(t, "ready", "complete")
    PROVE  /\ NewResult(t) \in Result /\ NewResult(t) # None
           /\ thread[t].req.claim \in ClaimIds
           /\ claims[thread[t].req.claim] \in Claim
           /\ claims[thread[t].req.claim].item \in Items
           /\ StateOf(thread[t].req.outcome) \in Terminal
<1> DEFINE r == thread[t].req
<1>1. r \in Requests /\ thread[t].at \in Nat /\ r.op = "complete"  BY RunningTyped
<1>2. r.claim \in ClaimIds /\ r.outcome \in Outcomes /\ r.epoch \in Epochs \cup {None}
  BY <1>1, RequestTyped
<1>3. claims[r.claim] # None  BY <1>1 DEF BaseInv, Held, At
<1>4. claims[r.claim] \in Claim  BY <1>2, <1>3 DEF BaseInv, TypeOK
<1>5. claims[r.claim].gen \in Nat \ {0} /\ claims[r.claim].item \in Items
  BY <1>4 DEF Claim
<1>6. r.output \in {q.output : q \in Requests}  BY <1>1
<1>7. NewResult(t) \in Result  BY <1>1, <1>2, <1>5, <1>6 DEF NewResult, Result
<1>8. StateOf(r.outcome) \in Terminal  BY <1>2 DEF StateOf, Outcomes, Terminal
<1>9. QED  BY <1>2, <1>4, <1>5, <1>7, <1>8, NoneAssumption

LEMMA RespondTyped ==
    ASSUME TypeOK, NEW t \in Threads, thread[t].req \in Requests,
           NEW response \in Response, Respond(t, response)
    PROVE  /\ operations' \in [Keys -> Operation \cup {None}]
           /\ answers' \subseteq Requests \X Response
           /\ thread' \in [Threads -> [pc: {"idle", "arrived", "ready"},
                                       req: Requests \cup {None}, at: Nat]]
           /\ thread' = [thread EXCEPT ![t] = Idle]
           /\ UNCHANGED world
<1>1. thread[t].req.key \in Keys  BY KeyOfRequest
<1>2. [req |-> thread[t].req, response |-> response] \in Operation  BY DEF Operation
<1>3. operations' \in [Keys -> Operation \cup {None}]
  BY <1>1, <1>2 DEF Respond, TypeOK
<1>4. QED  BY <1>3 DEF Respond, TypeOK, Idle

-----------------------------------------------------------------------------
(***************************************************************************)
(* Types and what threads hold.                                            *)
(***************************************************************************)

\* Rows are only added or replaced by rows.
Grows ==
    /\ \A i \in Items : items[i] # None => items'[i] # None
    /\ \A c \in ClaimIds : claims[c] # None => claims'[c] = claims[c]

LEMMA HeldWhenIdle ==
    ASSUME BaseInv, NEW t \in Threads, thread' = [thread EXCEPT ![t] = Idle], Grows
    PROVE  Held'
<1> SUFFICES ASSUME NEW u \in Threads, thread'[u].pc # "idle"
             PROVE  /\ thread'[u].req \in Requests
                    /\ thread'[u].req.op = "claim" => thread'[u].at < thread'[u].req.until
                    /\ (thread'[u].pc = "ready" /\ thread'[u].req.op = "claim")
                          => items'[thread'[u].req.item] # None
                    /\ (thread'[u].pc = "ready" /\ thread'[u].req.op = "complete")
                          => claims'[thread'[u].req.claim] # None
  BY DEF Held
<1>1. thread'[u] = thread[u] /\ thread[u].pc # "idle"
  BY DEF BaseInv, TypeOK, Idle
<1>2. thread[u].req \in Requests  BY <1>1 DEF BaseInv, Held
<1>3. thread[u].req.op = "claim" => thread[u].req.item \in Items  BY <1>2, RequestTyped
<1>4. thread[u].req.op = "complete" => thread[u].req.claim \in ClaimIds
  BY <1>2, RequestTyped
<1>5. QED  BY <1>1, <1>2, <1>3, <1>4 DEF BaseInv, Held, Grows

\* The effects of the steps on the tables, for every proof below.
StoreStep(t) ==
    \/ /\ New(t, "enqueue") /\ items[thread[t].req.item] = None
       /\ ~ Busy(thread[t].req.item.resource)
       /\ items' = [items EXCEPT ![thread[t].req.item] =
                       [state |-> "queued", gen |-> 0, claim |-> None]]
       /\ Respond(t, [state |-> "queued", gen |-> 0])
       /\ UNCHANGED <<results, claims>>
    \/ /\ New(t, "claim") /\ claims[thread[t].req.claim] = None
       /\ Claimable(thread[t].req.item, thread[t].req, thread[t].at)
       /\ claims' = [claims EXCEPT ![thread[t].req.claim] = NewClaim(t)]
       /\ items' = [items EXCEPT ![thread[t].req.item] =
                       [state |-> "claimed", gen |-> thread[t].req.gen + 1,
                        claim |-> thread[t].req.claim]]
       /\ Respond(t, NewClaim(t))
       /\ UNCHANGED results
    \/ LET i == claims[thread[t].req.claim].item
       IN  /\ New(t, "complete") /\ results[i] = None /\ Holds(i, thread[t].req)
           /\ ~ LeaseOver(claims[thread[t].req.claim], thread[t].at)
           /\ ReceiptFits(i, thread[t].req)
           /\ items' = [items EXCEPT ![i] = InState(@, StateOf(thread[t].req.outcome))]
           /\ results' = [results EXCEPT ![i] = NewResult(t)]
           /\ Respond(t, NewResult(t))
           /\ UNCHANGED claims

\* Every other step leaves the items, the results and the claims alone.
LEMMA StoreSteps ==
    ASSUME [Next]_vars
    PROVE  UNCHANGED <<items, results, claims>> \/ \E t \in Threads : StoreStep(t)
<1>1. CASE UNCHANGED vars  BY <1>1 DEF vars, store
<1>2. ASSUME NEW t \in Threads, Step(t)
      PROVE  UNCHANGED <<items, results, claims>> \/ \E u \in Threads : StoreStep(u)
  <2>1. CASE Enqueue(t)  BY <2>1 DEF Enqueue, StoreStep
  <2>2. CASE TakeClaim(t)  BY <2>2 DEF TakeClaim, StoreStep, NewClaim
  <2>3. CASE Complete(t)  BY <2>3 DEF Complete, StoreStep, NewResult
  <2>4. CASE ~ (Enqueue(t) \/ TakeClaim(t) \/ Complete(t))
    BY <1>2, <2>4 DEF Step, EnqueueReady, ClaimReady, CompleteReady, Refuse, Replay,
                      EnqueueAgain, CompleteAgain, store
  <2>5. QED  BY <2>1, <2>2, <2>3, <2>4
<1>3. CASE \E t \in Threads, r \in Requests : Arrive(t, r)  BY <1>3 DEF Arrive, store
<1>4. CASE Crash \/ Tick \/ \E x \in Resources : MoveFence(x)
  BY <1>4 DEF Crash, Tick, MoveFence, store
<1>5. QED  BY <1>1, <1>2, <1>3, <1>4 DEF Next

LEMMA StoreTyped ==
    ASSUME BaseInv, NEW t \in Threads, StoreStep(t)
    PROVE  TypeOK' /\ Grows /\ Rooted'
<1> USE DEF New
<1>1. CASE /\ New(t, "enqueue") /\ items[thread[t].req.item] = None
           /\ items' = [items EXCEPT ![thread[t].req.item] =
                           [state |-> "queued", gen |-> 0, claim |-> None]]
           /\ Respond(t, [state |-> "queued", gen |-> 0])
           /\ UNCHANGED <<results, claims>>
  <2>1. thread[t].req \in Requests /\ thread[t].req.item \in Items
    BY <1>1, RunningTyped, RequestTyped
  <2>2. [state |-> "queued", gen |-> 0, claim |-> None] \in Item  BY DEF Item, Active
  <2>3. [state |-> "queued", gen |-> 0] \in Response  BY DEF Response, Queued, Active
  <2>4. items' \in [Items -> Item \cup {None}] /\ Grows
    BY <1>1, <2>1, <2>2, NoneAssumption DEF BaseInv, TypeOK, Grows
  <2>5. TypeOK'  BY <1>1, <2>1, <2>3, <2>4, RespondTyped DEF BaseInv, TypeOK, world
  <2>6. Rooted'  BY <1>1, <2>4 DEF BaseInv, TypeOK, Rooted, Grows, Claim
  <2>7. QED  BY <2>4, <2>5, <2>6
<1>2. CASE /\ New(t, "claim") /\ claims[thread[t].req.claim] = None
           /\ claims' = [claims EXCEPT ![thread[t].req.claim] = NewClaim(t)]
           /\ items' = [items EXCEPT ![thread[t].req.item] =
                           [state |-> "claimed", gen |-> thread[t].req.gen + 1,
                            claim |-> thread[t].req.claim]]
           /\ Respond(t, NewClaim(t))
           /\ UNCHANGED results
  <2>1. /\ thread[t].req \in Requests /\ thread[t].req.item \in Items
        /\ thread[t].req.gen \in Nat /\ thread[t].req.claim \in ClaimIds
        /\ NewClaim(t) \in Claim
    BY <1>2, RunningTyped, RequestTyped, ClaimTyped
  <2>2. [state |-> "claimed", gen |-> thread[t].req.gen + 1,
         claim |-> thread[t].req.claim] \in Item
    BY <2>1 DEF Item, Active
  <2>3. NewClaim(t) \in Response  BY <2>1 DEF Response
  <2>4. items' \in [Items -> Item \cup {None}] /\ claims' \in [ClaimIds -> Claim \cup {None}]
        /\ Grows
    BY <1>2, <2>1, <2>2, NoneAssumption DEF BaseInv, TypeOK, Grows
  <2>5. TypeOK'  BY <1>2, <2>1, <2>3, <2>4, RespondTyped DEF BaseInv, TypeOK, world
  <2>6. NewClaim(t).item = thread[t].req.item  BY DEF NewClaim
  <2>7. items'[thread[t].req.item] # None
    BY <1>2, <2>1, <2>2, NoneAssumption DEF BaseInv, TypeOK
  <2>8. Rooted'
    <3> SUFFICES ASSUME NEW c \in ClaimIds, claims'[c] # None
                 PROVE  items'[claims'[c].item] # None
      BY DEF Rooted
    <3>1. CASE c = thread[t].req.claim  BY <1>2, <2>1, <2>6, <2>7, <3>1 DEF BaseInv, TypeOK
    <3>2. CASE c # thread[t].req.claim
      <4>1. claims'[c] = claims[c]  BY <1>2, <3>2 DEF BaseInv, TypeOK
      <4>2. claims[c].item \in Items /\ items[claims[c].item] # None
        BY <4>1 DEF BaseInv, TypeOK, Rooted, Claim
      <4>3. QED  BY <2>4, <4>1, <4>2 DEF Grows
    <3>3. QED  BY <3>1, <3>2
  <2>9. QED  BY <2>4, <2>5, <2>8
<1>3. CASE LET i == claims[thread[t].req.claim].item
           IN  /\ New(t, "complete")
               /\ Holds(i, thread[t].req)
               /\ items' = [items EXCEPT ![i] = InState(@, StateOf(thread[t].req.outcome))]
               /\ results' = [results EXCEPT ![i] = NewResult(t)]
               /\ Respond(t, NewResult(t))
               /\ UNCHANGED claims
  <2> DEFINE i == claims[thread[t].req.claim].item
  <2>1. /\ thread[t].req \in Requests /\ i \in Items
        /\ NewResult(t) \in Result /\ StateOf(thread[t].req.outcome) \in Terminal
    BY <1>3, RunningTyped, ResultTyped
  <2>2. NewResult(t) \in Response  BY <2>1 DEF Response
  <2>3. items' \in [Items -> Item \cup {None}] /\ Grows
    <3>1. items[i] # None
      BY <1>3, ResultTyped, NoneAssumption DEF BaseInv, Rooted
    <3>2. items[i] \in Item  BY <2>1, <3>1 DEF BaseInv, TypeOK
    <3>3. InState(items[i], StateOf(thread[t].req.outcome)) \in Item
      BY <2>1, <3>2, InStateTyped
    <3>4. QED  BY <1>3, <2>1, <3>3, NoneAssumption DEF BaseInv, TypeOK, Grows
  <2>4. results' \in [Items -> Result \cup {None}]  BY <1>3, <2>1 DEF BaseInv, TypeOK
  <2>5. TypeOK'
    BY <1>3, <2>1, <2>2, <2>3, <2>4, RespondTyped DEF BaseInv, TypeOK, world
  <2>6. Rooted'  BY <1>3, <2>3 DEF BaseInv, TypeOK, Rooted, Grows, Claim
  <2>7. QED  BY <2>3, <2>5, <2>6
<1>4. QED  BY <1>1, <1>2, <1>3 DEF StoreStep

\* The steps that leave items, results and claims alone.
LEMMA QuietTyped ==
    ASSUME BaseInv, [Next]_vars, UNCHANGED <<items, results, claims>>
    PROVE  TypeOK' /\ Held'
<1>g. Grows  BY DEF Grows
<1>1. CASE UNCHANGED vars
  BY <1>1 DEF vars, store, world, BaseInv, TypeOK, Held
<1>2. ASSUME NEW t \in Threads, NEW r \in Requests, Arrive(t, r)
      PROVE  TypeOK' /\ Held'
  <2>1. TypeOK'  BY <1>2 DEF BaseInv, TypeOK, Arrive, store, world
  <2>2. thread' = [thread EXCEPT ![t] = [pc |-> "arrived", req |-> r, at |-> now]]
    BY <1>2 DEF Arrive
  <2>3. r.op = "claim" => now < r.until  BY <1>2 DEF Arrive
  <2>4. Held'  BY <2>2, <2>3 DEF BaseInv, TypeOK, Held
  <2>5. QED  BY <2>1, <2>4
<1>3. ASSUME NEW t \in Threads, EnqueueReady(t) \/ ClaimReady(t) \/ CompleteReady(t)
      PROVE  TypeOK' /\ Held'
  <2>1. thread' = [thread EXCEPT ![t].pc = "ready"] /\ UNCHANGED <<store, answers, world>>
    BY <1>3 DEF EnqueueReady, ClaimReady, CompleteReady, Ready
  <2>2. TypeOK'  BY <2>1 DEF BaseInv, TypeOK, store, world
  <2>3. /\ thread[t].pc # "idle"
        /\ thread[t].req.op = "claim" => items[thread[t].req.item] # None
        /\ thread[t].req.op = "complete" => claims[thread[t].req.claim] # None
    BY <1>3 DEF EnqueueReady, ClaimReady, CompleteReady, At
  <2>4. Held'  BY <2>1, <2>3 DEF BaseInv, TypeOK, Held
  <2>5. QED  BY <2>2, <2>4
<1>4. ASSUME NEW t \in Threads, Refuse(t) \/ Replay(t)
      PROVE  TypeOK' /\ Held'
  <2>1. thread' = [thread EXCEPT ![t] = Idle] /\ UNCHANGED <<store, world>>
    BY <1>4 DEF Refuse, Replay
  <2>2. answers' \subseteq Requests \X Response
    <3>1. CASE Refuse(t)  BY <3>1 DEF Refuse, BaseInv, TypeOK
    <3>2. CASE Replay(t)
      <4>1. thread[t].req \in Requests  BY <3>2 DEF Replay, BaseInv, Held
      <4>2. thread[t].req.key \in Keys  BY <4>1, KeyOfRequest
      <4>3. operations[thread[t].req.key].response \in Response
        BY <3>2, <4>2 DEF Replay, BaseInv, TypeOK, Operation
      <4>4. QED  BY <3>2, <4>1, <4>3 DEF Replay, BaseInv, TypeOK
    <3>3. QED  BY <1>4, <3>1, <3>2
  <2>3. TypeOK'  BY <2>1, <2>2 DEF BaseInv, TypeOK, store, world, Idle
  <2>4. Held'  BY <2>1, <1>g, HeldWhenIdle
  <2>5. QED  BY <2>3, <2>4
<1>5. ASSUME NEW t \in Threads, NEW op \in {"enqueue", "complete"}, New(t, op),
             NEW response \in Response, Respond(t, response)
      PROVE  TypeOK' /\ Held'
  <2>1. thread[t].req \in Requests  BY <1>5, RunningTyped DEF New
  <2>2. TypeOK'  BY <1>5, <2>1, RespondTyped DEF BaseInv, TypeOK, world
  <2>3. thread' = [thread EXCEPT ![t] = Idle]  BY <1>5 DEF Respond
  <2>4. QED  BY <2>2, <2>3, <1>g, HeldWhenIdle
<1>6. ASSUME NEW t \in Threads, EnqueueAgain(t)
      PROVE  TypeOK' /\ Held'
  <2> DEFINE i == thread[t].req.item
  <2>1. i \in Items  BY <1>6, RunningTyped, RequestTyped DEF EnqueueAgain, New
  <2>2. items[i] \in Item  BY <1>6, <2>1 DEF EnqueueAgain, BaseInv, TypeOK
  <2>3. [state |-> items[i].state, gen |-> items[i].gen] \in Response
    BY <2>2 DEF Item, Response, Queued
  <2>4. QED  BY <1>6, <2>3, <1>5 DEF EnqueueAgain
<1>7. ASSUME NEW t \in Threads, CompleteAgain(t)
      PROVE  TypeOK' /\ Held'
  <2> DEFINE i == claims[thread[t].req.claim].item
  <2>1. i \in Items  BY <1>7, ResultTyped DEF CompleteAgain, New
  <2>2. results[i] \in Response
    BY <1>7, <2>1 DEF CompleteAgain, BaseInv, TypeOK, Response
  <2>3. QED  BY <1>7, <2>2, <1>5 DEF CompleteAgain
<1>8. CASE Crash
  <2>1. TypeOK'  BY <1>8, MaxAssumption DEF Crash, BaseInv, TypeOK, store, Idle
  <2>2. Held'  BY <1>8 DEF Crash, Held, Idle
  <2>3. QED  BY <2>1, <2>2
<1>9. CASE Tick \/ \E x \in Resources : MoveFence(x)
  <2>1. TypeOK'
    BY <1>9, MaxAssumption DEF Tick, MoveFence, BaseInv, TypeOK, store, Epochs
  <2>2. UNCHANGED <<thread, items, claims>>  BY <1>9 DEF Tick, MoveFence, store
  <2>3. QED  BY <2>1, <2>2 DEF BaseInv, Held
<1>10. ASSUME NEW t \in Threads, Enqueue(t) \/ TakeClaim(t) \/ Complete(t)
       PROVE  TypeOK' /\ Held'
  <2>1. StoreStep(t)
    BY <1>10 DEF Enqueue, TakeClaim, Complete, StoreStep, NewClaim, NewResult
  <2>2. thread' = [thread EXCEPT ![t] = Idle]  BY <2>1 DEF StoreStep, Respond
  <2>3. QED  BY <2>1, <2>2, StoreTyped, HeldWhenIdle
<1>11. QED
  BY <1>1, <1>2, <1>3, <1>4, <1>6, <1>7, <1>8, <1>9, <1>10 DEF Next, Step

LEMMA BaseStep == BaseInv /\ [Next]_vars => BaseInv' /\ Grows
<1> SUFFICES ASSUME BaseInv, [Next]_vars PROVE BaseInv' /\ Grows
  OBVIOUS
<1>1. CASE UNCHANGED <<items, results, claims>>
  BY <1>1, QuietTyped DEF BaseInv, Rooted, Grows
<1>2. ASSUME NEW t \in Threads, StoreStep(t) PROVE BaseInv' /\ Grows
  <2>1. thread' = [thread EXCEPT ![t] = Idle]  BY <1>2 DEF StoreStep, Respond
  <2>2. QED  BY <1>2, <2>1, StoreTyped, HeldWhenIdle DEF BaseInv
<1>3. QED  BY <1>1, <1>2, StoreSteps

\* Every table of the queue holds rows of its kind, in every run of any daemon
\* that serves any set of requests.
THEOREM QueueTypeCorrect == Spec => []TypeOK
<1>1. BaseInv => TypeOK  BY DEF BaseInv
<1>2. QED  BY <1>1, BaseInit, BaseStep, PTL DEF Spec

-----------------------------------------------------------------------------
(***************************************************************************)
(* The inductive invariant of the queue. An item names its last claim, and *)
(* every earlier claim was over when that one was issued.                  *)
(***************************************************************************)
On(d, i) == claims[d] # None /\ claims[d].item = i

HasClaim(i) == items[i] # None /\ items[i].state # "queued"

CurrentClaim(i) ==
    HasClaim(i) =>
        /\ items[i].claim \in ClaimIds /\ On(items[i].claim, i)
        /\ claims[items[i].claim].gen = items[i].gen

EarlierClaims(i) ==
    \A d \in ClaimIds : On(d, i) =>
        /\ HasClaim(i)
        /\ d # items[i].claim =>
              /\ claims[d].gen < items[i].gen
              /\ claims[d].until <= claims[items[i].claim].issued

LeaseRuns == \A d \in ClaimIds : claims[d] # None => claims[d].issued < claims[d].until

ResultFits(i) ==
    /\ results[i] # None <=> items[i] # None /\ items[i].state \in Terminal
    /\ results[i] # None =>
          /\ results[i].claim = items[i].claim /\ results[i].gen = items[i].gen
          /\ results[i].at < claims[items[i].claim].until
          /\ results[i].epoch # None => results[i].epoch = claims[items[i].claim].epoch
          /\ (i.fenced /\ results[i].outcome = "completed") => results[i].epoch # None

QueueInv ==
    /\ BaseInv
    /\ \A i \in Items : CurrentClaim(i) /\ EarlierClaims(i) /\ ResultFits(i)
    /\ LeaseRuns
    /\ LeasesDisjoint

LEMMA QueueInit == Init => QueueInv
<1> SUFFICES ASSUME Init PROVE QueueInv
  OBVIOUS
<1>1. BaseInv  BY BaseInit
<1>2. \A i \in Items : items[i] = None /\ results[i] = None  BY DEF Init
<1>3. \A d \in ClaimIds : claims[d] = None  BY DEF Init
<1>4. QED
  BY <1>1, <1>2, <1>3 DEF QueueInv, CurrentClaim, EarlierClaims, ResultFits, On, HasClaim,
                          LeaseRuns, LeasesDisjoint

LEMMA QueueEnqueue ==
    ASSUME QueueInv, NEW t \in Threads, New(t, "enqueue"), items[thread[t].req.item] = None,
           items' = [items EXCEPT ![thread[t].req.item] =
                        [state |-> "queued", gen |-> 0, claim |-> None]],
           UNCHANGED <<results, claims>>
    PROVE  /\ \A i \in Items : (CurrentClaim(i) /\ EarlierClaims(i) /\ ResultFits(i))'
           /\ LeaseRuns' /\ LeasesDisjoint'
<1>1. PICK j \in Items : j = thread[t].req.item
  BY RunningTyped, RequestTyped DEF New, QueueInv
<1>2. ASSUME NEW i \in Items, i # j
      PROVE  (CurrentClaim(i) /\ EarlierClaims(i) /\ ResultFits(i))'
  <2>1. items'[i] = items[i]  BY <1>1, <1>2 DEF QueueInv, BaseInv, TypeOK
  <2>2. QED
    BY <1>2, <2>1 DEF QueueInv, CurrentClaim, EarlierClaims, ResultFits, On, HasClaim
<1>3. (CurrentClaim(j) /\ EarlierClaims(j) /\ ResultFits(j))'
  <2>1. items'[j] = [state |-> "queued", gen |-> 0, claim |-> None]
    BY <1>1 DEF QueueInv, BaseInv, TypeOK
  <2>2. \A d \in ClaimIds : ~ On(d, j)
    BY <1>1 DEF QueueInv, EarlierClaims, HasClaim
  <2>3. results[j] = None  BY <1>1 DEF QueueInv, ResultFits
  <2>4. QED
    BY <2>1, <2>2, <2>3
    DEF CurrentClaim, EarlierClaims, ResultFits, On, HasClaim, Terminal
<1>4. LeaseRuns' /\ LeasesDisjoint'  BY DEF QueueInv, LeaseRuns, LeasesDisjoint
<1>5. QED  BY <1>2, <1>3, <1>4

LEMMA QueueClaim ==
    ASSUME QueueInv, NEW t \in Threads, New(t, "claim"), claims[thread[t].req.claim] = None,
           Claimable(thread[t].req.item, thread[t].req, thread[t].at),
           claims' = [claims EXCEPT ![thread[t].req.claim] = NewClaim(t)],
           items' = [items EXCEPT ![thread[t].req.item] =
                        [state |-> "claimed", gen |-> thread[t].req.gen + 1,
                         claim |-> thread[t].req.claim]],
           UNCHANGED results
    PROVE  /\ \A i \in Items : (CurrentClaim(i) /\ EarlierClaims(i) /\ ResultFits(i))'
           /\ LeaseRuns' /\ LeasesDisjoint'
<1>0. PICK j \in Items, c \in ClaimIds : j = thread[t].req.item /\ c = thread[t].req.claim
  BY ClaimTyped DEF New, QueueInv
<1>1. /\ items[j] \in Item
      /\ NewClaim(t) \in Claim /\ NewClaim(t) # None
      /\ NewClaim(t).issued < NewClaim(t).until
  BY <1>0, ClaimTyped DEF New, QueueInv
<1>2. /\ NewClaim(t).item = j /\ NewClaim(t).issued = thread[t].at
      /\ NewClaim(t).gen = items[j].gen + 1 /\ thread[t].req.gen = items[j].gen
  BY <1>0 DEF NewClaim, Claimable
<1>3. /\ claims'[c] = NewClaim(t)
      /\ \A d \in ClaimIds : d # c => claims'[d] = claims[d]
  BY <1>0, <1>1 DEF QueueInv, BaseInv, TypeOK
<1>4. /\ items'[j] = [state |-> "claimed", gen |-> items[j].gen + 1, claim |-> c]
      /\ \A i \in Items : i # j => items'[i] = items[i]
  BY <1>0, <1>1, <1>2 DEF QueueInv, BaseInv, TypeOK
<1>5. \A d \in ClaimIds : claims[d] \in Claim \cup {None}
  BY DEF QueueInv, BaseInv, TypeOK
<1>6. items[j] # None /\ items[j].gen \in Nat  BY <1>1, NoneAssumption DEF Item
<1>n. NewClaim(t).issued \in Nat /\ NewClaim(t).until \in Nat /\ NewClaim(t).gen \in Nat
  BY <1>1 DEF Claim
\* Every earlier claim of the item was over when this thread read the clock.
<1>7. ASSUME NEW d \in ClaimIds, On(d, j)
      PROVE  claims[d].gen < items[j].gen + 1 /\ claims[d].until <= NewClaim(t).issued
             /\ d # c
  <2>1. claims[d] \in Claim /\ d # c  BY <1>0, <1>5, <1>7, NoneAssumption DEF On
  <2>2. /\ claims[d].gen \in Nat /\ claims[d].until \in Nat
    BY <2>1 DEF Claim
  <2>3. HasClaim(j)  BY <1>1, <1>7 DEF QueueInv, EarlierClaims
  <2>4. items[j].state = "claimed"
    BY <1>0, <1>1, <2>3 DEF Claimable, HasClaim, Item, Active
  <2>5. LeaseOver(claims[items[j].claim], thread[t].at)  BY <1>0, <2>4 DEF Claimable
  <2>6. /\ items[j].claim \in ClaimIds /\ On(items[j].claim, j)
        /\ claims[items[j].claim].gen = items[j].gen
    BY <1>1, <2>3 DEF QueueInv, CurrentClaim
  <2>7. claims[items[j].claim] \in Claim  BY <1>5, <2>6 DEF On
  <2>8. /\ claims[items[j].claim].issued \in Nat /\ claims[items[j].claim].until \in Nat
        /\ claims[items[j].claim].issued < claims[items[j].claim].until
    BY <2>6, <2>7 DEF Claim, QueueInv, LeaseRuns, On
  <2>9. claims[items[j].claim].until <= NewClaim(t).issued
    BY <1>2, <1>n, <2>5, <2>8 DEF LeaseOver
  <2>10. CASE d = items[j].claim  BY <1>6, <2>1, <2>6, <2>9, <2>10
  <2>11. CASE d # items[j].claim
    <3>1. claims[d].gen < items[j].gen /\ claims[d].until <= claims[items[j].claim].issued
      BY <1>1, <1>7, <2>11 DEF QueueInv, EarlierClaims
    <3>2. QED  BY <1>6, <1>n, <2>1, <2>2, <2>8, <2>9, <3>1
  <2>12. QED  BY <2>10, <2>11
<1>8. ASSUME NEW i \in Items, i # j
      PROVE  (CurrentClaim(i) /\ EarlierClaims(i) /\ ResultFits(i))'
  <2>1. items'[i] = items[i]  BY <1>4, <1>8
  <2>2. ~ On(c, i) /\ ~ On(c, i)'
    BY <1>0, <1>1, <1>2, <1>3, <1>8 DEF On
  <2>3. \A d \in ClaimIds : On(d, i)' <=> On(d, i)
    BY <1>3, <2>2 DEF On
  <2>4. \A d \in ClaimIds : On(d, i) => claims'[d] = claims[d] /\ d # c
    BY <1>3, <2>2
  <2>5. HasClaim(i)' <=> HasClaim(i)  BY <2>1 DEF HasClaim
  <2>6. CurrentClaim(i)'  BY <1>8, <2>1, <2>3, <2>4, <2>5 DEF QueueInv, CurrentClaim
  <2>7. EarlierClaims(i)'
    BY <1>8, <2>1, <2>3, <2>4, <2>5 DEF QueueInv, EarlierClaims, CurrentClaim
  <2>8. ResultFits(i)'
    <3>1. ResultFits(i) /\ CurrentClaim(i)  BY <1>8 DEF QueueInv
    <3>2. results'[i] = results[i]  OBVIOUS
    <3>3. CASE results[i] = None  BY <2>1, <3>1, <3>2, <3>3 DEF ResultFits
    <3>4. CASE results[i] # None
      <4>1. HasClaim(i)  BY <3>1, <3>4 DEF ResultFits, HasClaim, Terminal
      <4>2. claims'[items[i].claim] = claims[items[i].claim]
        BY <2>4, <3>1, <4>1 DEF CurrentClaim
      <4>3. QED  BY <2>1, <3>1, <3>2, <4>2 DEF ResultFits
    <3>5. QED  BY <3>3, <3>4
  <2>9. QED  BY <2>6, <2>7, <2>8
<1>9. (CurrentClaim(j) /\ EarlierClaims(j) /\ ResultFits(j))'
  <2>1. HasClaim(j)' /\ items'[j].claim = c /\ items'[j].gen = items[j].gen + 1
        /\ items'[j].state = "claimed"
    <3>1. items'[j] \in Item  BY <1>1, <1>4, <1>6 DEF Item, Active
    <3>2. QED  BY <1>4, <3>1, NoneAssumption DEF HasClaim
  <2>2. CurrentClaim(j)'  BY <1>1, <1>2, <1>3, <2>1 DEF CurrentClaim, On
  <2>3. EarlierClaims(j)'
    <3> SUFFICES ASSUME NEW d \in ClaimIds, On(d, j)', d # c
                 PROVE  /\ claims'[d].gen < items[j].gen + 1
                        /\ claims'[d].until <= claims'[c].issued
      BY <2>1 DEF EarlierClaims
    <3>1. claims'[d] = claims[d] /\ On(d, j)  BY <1>3 DEF On
    <3>2. QED  BY <1>3, <1>7, <3>1
  <2>4. results[j] = None  BY <1>0, <1>1 DEF QueueInv, ResultFits, Claimable
  <2>5. ResultFits(j)'  BY <2>1, <2>4 DEF ResultFits, Terminal
  <2>6. QED  BY <2>2, <2>3, <2>5
<1>10. LeaseRuns'  BY <1>1, <1>3 DEF QueueInv, LeaseRuns
<1>11. LeasesDisjoint'
  <2> SUFFICES ASSUME NEW d \in ClaimIds, NEW e \in ClaimIds,
                      claims'[d] # None, claims'[e] # None, d # e,
                      claims'[d].item = claims'[e].item
               PROVE  \/ /\ claims'[d].gen < claims'[e].gen
                         /\ claims'[d].until <= claims'[e].issued
                      \/ /\ claims'[e].gen < claims'[d].gen
                         /\ claims'[e].until <= claims'[d].issued
    BY DEF LeasesDisjoint
  <2>1. CASE d = c
    <3>1. claims'[e] = claims[e] /\ On(e, j)  BY <1>2, <1>3, <2>1 DEF On
    <3>2. QED  BY <1>2, <1>3, <1>7, <2>1, <3>1
  <2>2. CASE e = c
    <3>1. claims'[d] = claims[d] /\ On(d, j)  BY <1>2, <1>3, <2>2 DEF On
    <3>2. QED  BY <1>2, <1>3, <1>7, <2>2, <3>1
  <2>3. CASE d # c /\ e # c
    BY <1>3, <2>3 DEF QueueInv, LeasesDisjoint
  <2>4. QED  BY <2>1, <2>2, <2>3
<1>12. QED  BY <1>8, <1>9, <1>10, <1>11

LEMMA LeaseNotOver ==
    ASSUME NEW row, NEW at \in Nat, row.until \in Nat, ~ LeaseOver(row, at)
    PROVE  at < row.until
BY DEF LeaseOver

LEMMA QueueComplete ==
    ASSUME QueueInv, NEW t \in Threads, New(t, "complete"),
           NEW j \in Items, j = claims[thread[t].req.claim].item,
           Holds(j, thread[t].req), ReceiptFits(j, thread[t].req),
           ~ LeaseOver(claims[thread[t].req.claim], thread[t].at),
           items' = [items EXCEPT ![j] = InState(@, StateOf(thread[t].req.outcome))],
           results' = [results EXCEPT ![j] = NewResult(t)],
           UNCHANGED claims
    PROVE  /\ \A i \in Items : (CurrentClaim(i) /\ EarlierClaims(i) /\ ResultFits(i))'
           /\ LeaseRuns' /\ LeasesDisjoint'
<1>1. /\ NewResult(t) \in Result /\ NewResult(t) # None
      /\ StateOf(thread[t].req.outcome) \in Terminal
      /\ claims[thread[t].req.claim] \in Claim
  BY ResultTyped DEF New, QueueInv
<1>2. PICK c \in ClaimIds : c = thread[t].req.claim
  BY ResultTyped DEF New, QueueInv
<1>3. ASSUME NEW i \in Items, i # j
      PROVE  (CurrentClaim(i) /\ EarlierClaims(i) /\ ResultFits(i))'
  <2>1. items'[i] = items[i] /\ results'[i] = results[i]
    BY <1>3 DEF QueueInv, BaseInv, TypeOK
  <2>2. CurrentClaim(i) /\ EarlierClaims(i) /\ ResultFits(i)  BY DEF QueueInv
  <2>3. CurrentClaim(i)'  BY <2>1, <2>2 DEF CurrentClaim, On, HasClaim
  <2>4. EarlierClaims(i)'  BY <2>1, <2>2 DEF EarlierClaims, On, HasClaim
  <2>5. ResultFits(i)'  BY <2>1, <2>2 DEF ResultFits
  <2>6. QED  BY <2>3, <2>4, <2>5
<1>4. items[j] \in Item
  BY <1>1, <1>2, NoneAssumption DEF QueueInv, BaseInv, TypeOK, Rooted
<1>5. /\ items'[j] = InState(items[j], StateOf(thread[t].req.outcome))
      /\ results'[j] = NewResult(t)
  BY DEF QueueInv, BaseInv, TypeOK
<1>6. /\ items'[j].state \in Terminal /\ items'[j].gen = items[j].gen
      /\ items'[j].claim = items[j].claim /\ items'[j] \in Item
  <2> DEFINE row == InState(items[j], StateOf(thread[t].req.outcome))
  <2>0. /\ row \in Item /\ row.state = StateOf(thread[t].req.outcome)
        /\ row.gen = items[j].gen /\ row.claim = items[j].claim
    BY <1>1, <1>4, InStateTyped
  <2> HIDE DEF row
  <2>5. items'[j] = row  BY <1>5 DEF row
  <2>1. items'[j] \in Item  BY <2>5, <2>0
  <2>2. /\ items'[j].state = StateOf(thread[t].req.outcome)
        /\ items'[j].gen = items[j].gen /\ items'[j].claim = items[j].claim
    BY <2>5, <2>0
  <2>3. QED  BY <1>1, <2>1, <2>2
<1>7. HasClaim(j) /\ HasClaim(j)' /\ items[j].claim = c
  BY <1>2, <1>4, <1>6, NoneAssumption DEF Holds, HasClaim, Terminal
<1>8. CurrentClaim(j)' /\ EarlierClaims(j)'
  BY <1>6, <1>7 DEF QueueInv, CurrentClaim, EarlierClaims, On
<1>9. ResultFits(j)'
  <2>1. claims[c].gen = items[j].gen  BY <1>7 DEF QueueInv, CurrentClaim
  <2>2. /\ NewResult(t).claim = c /\ NewResult(t).gen = claims[c].gen
        /\ NewResult(t).at = thread[t].at /\ NewResult(t).epoch = thread[t].req.epoch
        /\ NewResult(t).outcome = thread[t].req.outcome
    BY <1>2 DEF NewResult
  <2>3. thread[t].at < claims[c].until
    <3>1. thread[t].at \in Nat /\ claims[c].until \in Nat
      BY <1>1, <1>2, RunningTyped DEF New, QueueInv, Claim
    <3>2. ~ LeaseOver(claims[c], thread[t].at)  BY <1>2
    <3>3. QED  BY <3>1, <3>2, LeaseNotOver
  <2>4. NewResult(t).epoch # None => NewResult(t).epoch = claims[c].epoch
    BY <1>2, <2>2 DEF ReceiptFits
  <2>5. (j.fenced /\ NewResult(t).outcome = "completed") => NewResult(t).epoch # None
    BY <2>2 DEF ReceiptFits
  <2>6. items'[j] # None  BY <1>6, NoneAssumption
  <2>7. QED
    BY <1>1, <1>5, <1>6, <1>7, <2>1, <2>2, <2>3, <2>4, <2>5, <2>6 DEF ResultFits
<1>10. LeaseRuns' /\ LeasesDisjoint'  BY DEF QueueInv, LeaseRuns, LeasesDisjoint
<1>11. QED  BY <1>3, <1>8, <1>9, <1>10

LEMMA QueueStep == QueueInv /\ [Next]_vars => QueueInv'
<1> SUFFICES ASSUME QueueInv, [Next]_vars PROVE QueueInv'
  OBVIOUS
<1>1. BaseInv'  BY BaseStep DEF QueueInv
<1>2. CASE UNCHANGED <<items, results, claims>>
  <2>1. \A i \in Items : (CurrentClaim(i) /\ EarlierClaims(i) /\ ResultFits(i))'
    BY <1>2 DEF QueueInv, CurrentClaim, EarlierClaims, ResultFits, On, HasClaim
  <2>2. LeaseRuns' /\ LeasesDisjoint'
    BY <1>2 DEF QueueInv, LeaseRuns, LeasesDisjoint
  <2>3. QED  BY <1>1, <2>1, <2>2 DEF QueueInv
<1>3. ASSUME NEW t \in Threads, StoreStep(t)
      PROVE  /\ \A i \in Items : (CurrentClaim(i) /\ EarlierClaims(i) /\ ResultFits(i))'
             /\ LeaseRuns' /\ LeasesDisjoint'
  <2>1. New(t, "complete") => claims[thread[t].req.claim].item \in Items
    BY ResultTyped DEF New, QueueInv
  <2>2. QED  BY <1>3, <2>1, QueueEnqueue, QueueClaim, QueueComplete DEF StoreStep
<1>4. QED  BY <1>1, <1>2, <1>3, StoreSteps DEF QueueInv

LEMMA QueueInvariant == Spec => []QueueInv
BY QueueInit, QueueStep, PTL DEF Spec

\* The leases of an item never overlap, for any threads and any clocks they carry
\* into the transaction of claim.
THEOREM LeasesAreDisjoint == Spec => []LeasesDisjoint
<1>1. QueueInv => LeasesDisjoint  BY DEF QueueInv
<1>2. QED  BY <1>1, QueueInvariant, PTL

\* A result comes from the last claim of its item, within its lease and under its
\* fence.
THEOREM ResultsComeFromTheLastClaim == Spec => []ResultFromLastClaim
<1>1. QueueInv => ResultFromLastClaim
  <2> SUFFICES ASSUME QueueInv, NEW i \in Items, results[i] # None
               PROVE  LET c == claims[results[i].claim]
                      IN  /\ c # None /\ c.item = i
                          /\ c.gen = results[i].gen /\ results[i].at < c.until
                          /\ results[i].epoch # None => results[i].epoch = c.epoch
                          /\ (i.fenced /\ results[i].outcome = "completed")
                                => results[i].epoch # None
                          /\ \A d \in ClaimIds :
                                (claims[d] # None /\ claims[d].item = i)
                                => claims[d].gen <= c.gen
    BY DEF ResultFromLastClaim
  <2>1. ResultFits(i) /\ CurrentClaim(i) /\ EarlierClaims(i)  BY DEF QueueInv
  <2>2. HasClaim(i) /\ results[i].claim = items[i].claim
    BY <2>1 DEF ResultFits, HasClaim, Terminal
  <2>3. ASSUME NEW d \in ClaimIds, On(d, i)
        PROVE  claims[d].gen <= claims[items[i].claim].gen
    <3>1. claims[d] \in Claim /\ items[i] \in Item
      BY <2>2, <2>3 DEF QueueInv, BaseInv, TypeOK, On, HasClaim
    <3>2. claims[d].gen \in Nat /\ items[i].gen \in Nat  BY <3>1 DEF Claim, Item
    <3>3. claims[items[i].claim].gen = items[i].gen  BY <2>1, <2>2 DEF CurrentClaim
    <3>4. QED  BY <2>1, <2>3, <3>2, <3>3 DEF EarlierClaims
  <2>4. QED  BY <2>1, <2>2, <2>3 DEF ResultFits, CurrentClaim, On
<1>2. QED  BY <1>1, QueueInvariant, PTL

-----------------------------------------------------------------------------
(***************************************************************************)
(* Items.                                                                  *)
(***************************************************************************)

\* A finished item stays finished with its result, no item is lost and no
\* generation is lowered.
THEOREM ItemsOnlyAdvance == Spec => ItemsAdvance
<1> DEFINE A == \A i \in Items : items[i] # None =>
                  /\ items'[i] # None /\ items'[i].gen >= items[i].gen
                  /\ items[i].state \in Terminal =>
                        items'[i] = items[i] /\ results'[i] = results[i]
<1>1. QueueInv /\ [Next]_vars => A
  <2> SUFFICES ASSUME QueueInv, [Next]_vars, NEW i \in Items, items[i] # None
               PROVE  /\ items'[i] # None /\ items'[i].gen >= items[i].gen
                      /\ items[i].state \in Terminal =>
                            items'[i] = items[i] /\ results'[i] = results[i]
    OBVIOUS
  <2>1. items'[i] # None  BY BaseStep DEF QueueInv, Grows
  <2>2. items[i] \in Item /\ items[i].gen \in Nat  BY DEF QueueInv, BaseInv, TypeOK, Item
  <2>3. CASE UNCHANGED <<items, results, claims>>  BY <2>1, <2>2, <2>3
  <2>4. ASSUME NEW t \in Threads, StoreStep(t)
        PROVE  /\ items'[i].gen >= items[i].gen
               /\ items[i].state \in Terminal =>
                     items'[i] = items[i] /\ results'[i] = results[i]
    <3>1. CASE /\ items[thread[t].req.item] = None
               /\ items' = [items EXCEPT ![thread[t].req.item] =
                               [state |-> "queued", gen |-> 0, claim |-> None]]
               /\ UNCHANGED results
      BY <2>2, <3>1 DEF QueueInv, BaseInv, TypeOK
    <3>2. CASE /\ Claimable(thread[t].req.item, thread[t].req, thread[t].at)
               /\ items' = [items EXCEPT ![thread[t].req.item] =
                               [state |-> "claimed", gen |-> thread[t].req.gen + 1,
                                claim |-> thread[t].req.claim]]
               /\ UNCHANGED results
      BY <2>2, <3>2 DEF QueueInv, BaseInv, TypeOK, Claimable
    <3>3. CASE LET j == claims[thread[t].req.claim].item
               IN  /\ New(t, "complete") /\ Holds(j, thread[t].req)
                   /\ items' = [items EXCEPT ![j] = InState(@, StateOf(thread[t].req.outcome))]
                   /\ results' = [results EXCEPT ![j] = NewResult(t)]
      <4> DEFINE j == claims[thread[t].req.claim].item
      <4>1. CASE i = j
        <5>0. StateOf(thread[t].req.outcome) \in Active \cup Terminal
          BY <3>3, ResultTyped DEF New, QueueInv
        <5>1. items'[i] = InState(items[i], StateOf(thread[t].req.outcome))
          BY <3>3, <4>1 DEF QueueInv, BaseInv, TypeOK
        <5>2. items'[i].gen = items[i].gen  BY <2>2, <5>0, <5>1, InStateTyped
        <5>3. items[i].state \notin Terminal  BY <3>3, <4>1 DEF Holds, Terminal
        <5>4. QED  BY <2>2, <5>2, <5>3
      <4>2. CASE i # j
        BY <2>2, <3>3, <4>2 DEF QueueInv, BaseInv, TypeOK
      <4>3. QED  BY <4>1, <4>2
    <3>4. QED  BY <2>4, <3>1, <3>2, <3>3 DEF StoreStep
  <2>5. QED  BY <2>1, <2>3, <2>4, StoreSteps
<1>2. QED  BY <1>1, QueueInvariant, PTL DEF Spec, ItemsAdvance

LEMMA ResourceStep == QueueInv /\ OneItemPerResource /\ [Next]_vars => OneItemPerResource'
<1> SUFFICES ASSUME QueueInv, OneItemPerResource, [Next]_vars,
                    NEW i \in Items, NEW j \in Items, i.resource = j.resource,
                    items'[i] # None, items'[j] # None,
                    items'[i].state \in Active, items'[j].state \in Active
             PROVE  i = j
  BY DEF OneItemPerResource
<1> DEFINE Works(k) == items[k] # None /\ items[k].state \in Active
<1>1. ASSUME NEW t \in Threads, StoreStep(t), NEW k \in Items,
             items'[k] # None, items'[k].state \in Active, ~ Works(k)
      PROVE  /\ ~ Busy(k.resource)
             /\ \A l \in Items : l # k => items'[l] = items[l]
  <2>1. CASE /\ New(t, "enqueue")
             /\ ~ Busy(thread[t].req.item.resource)
             /\ items' = [items EXCEPT ![thread[t].req.item] =
                             [state |-> "queued", gen |-> 0, claim |-> None]]
    BY <1>1, <2>1 DEF QueueInv, BaseInv, TypeOK
  <2>2. CASE /\ New(t, "claim")
             /\ Claimable(thread[t].req.item, thread[t].req, thread[t].at)
             /\ items' = [items EXCEPT ![thread[t].req.item] =
                             [state |-> "claimed", gen |-> thread[t].req.gen + 1,
                              claim |-> thread[t].req.claim]]
    <3>1. thread[t].req.item \in Items /\ items[thread[t].req.item] \in Item
      BY <2>2, ClaimTyped DEF New, QueueInv
    <3>2. Works(thread[t].req.item)
      BY <2>2, <3>1, NoneAssumption DEF Claimable, Item
    <3>3. QED  BY <1>1, <2>2, <3>1, <3>2 DEF QueueInv, BaseInv, TypeOK
  <2>3. CASE LET h == claims[thread[t].req.claim].item
             IN  /\ New(t, "complete")
                 /\ items' = [items EXCEPT ![h] = InState(@, StateOf(thread[t].req.outcome))]
    <3> DEFINE h == claims[thread[t].req.claim].item
    <3>1. h \in Items /\ StateOf(thread[t].req.outcome) \in Terminal
          /\ claims[thread[t].req.claim] # None /\ thread[t].req.claim \in ClaimIds
      BY <2>3, ResultTyped, NoneAssumption DEF New, QueueInv
    <3>2. items[h] \in Item  BY <3>1 DEF QueueInv, BaseInv, TypeOK, Rooted
    <3>3. items'[h] = InState(items[h], StateOf(thread[t].req.outcome))
      BY <2>3, <3>1 DEF QueueInv, BaseInv, TypeOK
    <3>4. items'[h].state \in Terminal  BY <3>1, <3>2, <3>3, InStateTyped
    <3>5. k # h  BY <1>1, <3>4 DEF Terminal, Active
    <3>6. QED  BY <1>1, <2>3, <3>1, <3>5 DEF QueueInv, BaseInv, TypeOK
  <2>4. QED  BY <1>1, <2>1, <2>2, <2>3 DEF StoreStep
<1>2. CASE UNCHANGED <<items, results, claims>>  BY <1>2 DEF OneItemPerResource
<1>3. CASE Works(i) /\ Works(j)  BY <1>3 DEF OneItemPerResource
<1>4. ASSUME NEW t \in Threads, StoreStep(t), ~ Works(i) PROVE i = j
  <2>1. ~ Busy(i.resource) /\ \A l \in Items : l # i => items'[l] = items[l]
    BY <1>1, <1>4
  <2>2. QED  BY <2>1 DEF Busy
<1>5. ASSUME NEW t \in Threads, StoreStep(t), ~ Works(j) PROVE i = j
  <2>1. ~ Busy(j.resource) /\ \A l \in Items : l # j => items'[l] = items[l]
    BY <1>1, <1>5
  <2>2. QED  BY <2>1 DEF Busy
<1>6. QED  BY <1>2, <1>3, <1>4, <1>5, StoreSteps

\* At most one item of a resource is queued or claimed.
THEOREM ResourcesAreExclusive == Spec => []OneItemPerResource
<1>1. Init => OneItemPerResource  BY DEF Init, OneItemPerResource
<1>2. QED  BY <1>1, QueueInvariant, ResourceStep, PTL DEF Spec

-----------------------------------------------------------------------------
(***************************************************************************)
(* Answers: a success that was sent is in the journal, with its request.   *)
(***************************************************************************)
AnswersJournalled ==
    \A a \in answers : operations[a[1].key] = [req |-> a[1], response |-> a[2]]

AnswerInv == BaseInv /\ AnswersJournalled

LEMMA JournalledByRespond ==
    ASSUME AnswerInv, NEW t \in Threads, NEW op, New(t, op),
           NEW response \in Response, Respond(t, response)
    PROVE  AnswersJournalled'
<1> DEFINE r == thread[t].req
<1>1. r \in Requests /\ r.key \in Keys /\ operations[r.key] = None
  BY RunningTyped, KeyOfRequest DEF New, AnswerInv
<1>2. /\ operations' = [operations EXCEPT ![r.key] = [req |-> r, response |-> response]]
      /\ answers' = answers \cup {<<r, response>>}
  BY DEF Respond
<1>3. operations'[r.key] = [req |-> r, response |-> response]
  BY <1>1, <1>2 DEF AnswerInv, BaseInv, TypeOK
<1>4. ASSUME NEW a \in answers
      PROVE  operations'[a[1].key] = [req |-> a[1], response |-> a[2]]
  <2>1. a[1] \in Requests /\ a[2] \in Response  BY DEF AnswerInv, BaseInv, TypeOK
  <2>2. [req |-> a[1], response |-> a[2]] \in Operation  BY <2>1 DEF Operation
  <2>3. a[1].key # r.key /\ a[1].key \in Keys
    BY <1>1, <2>1, <2>2, KeyOfRequest, NoneAssumption DEF AnswerInv, AnswersJournalled
  <2>4. QED  BY <1>2, <2>3 DEF AnswerInv, AnswersJournalled, BaseInv, TypeOK
<1>5. ASSUME NEW a \in answers'
      PROVE  operations'[a[1].key] = [req |-> a[1], response |-> a[2]]
  <2>1. CASE a \in answers  BY <1>4, <2>1
  <2>2. CASE a = <<r, response>>
    <3>1. a[1] = r /\ a[2] = response  BY <2>2
    <3>2. QED  BY <1>3, <3>1
  <2>3. QED  BY <1>2, <1>5, <2>1, <2>2
<1>6. QED  BY <1>5 DEF AnswersJournalled

LEMMA JournalledStep == AnswerInv /\ [Next]_vars => AnswersJournalled'
<1> SUFFICES ASSUME AnswerInv, [Next]_vars PROVE AnswersJournalled'
  OBVIOUS
<1>1. CASE UNCHANGED <<operations, answers>>
  BY <1>1 DEF AnswerInv, AnswersJournalled
<1>2. ASSUME NEW t \in Threads, Replay(t) PROVE AnswersJournalled'
  <2> DEFINE r == thread[t].req
  <2>1. r \in Requests /\ r.key \in Keys
    BY <1>2, KeyOfRequest DEF Replay, AnswerInv, BaseInv, Held
  <2>2. operations[r.key] \in Operation /\ operations[r.key].req = r
    BY <1>2, <2>1 DEF Replay, AnswerInv, BaseInv, TypeOK
  <2>3. operations[r.key] = [req |-> r, response |-> operations[r.key].response]
    BY <2>2 DEF Operation
  <2>4. UNCHANGED operations /\ answers' = answers \cup {<<r, operations[r.key].response>>}
    BY <1>2 DEF Replay, store
  <2>5. ASSUME NEW a \in answers'
        PROVE  operations'[a[1].key] = [req |-> a[1], response |-> a[2]]
    <3>1. CASE a \in answers  BY <2>4, <3>1 DEF AnswerInv, AnswersJournalled
    <3>2. CASE a = <<r, operations[r.key].response>>
      <4>1. a[1] = r /\ a[2] = operations[r.key].response  BY <3>2
      <4>2. QED  BY <2>3, <2>4, <4>1
    <3>3. QED  BY <2>4, <2>5, <3>1, <3>2
  <2>6. QED  BY <2>5 DEF AnswersJournalled
<1>3. ASSUME NEW t \in Threads, StoreStep(t) PROVE AnswersJournalled'
  <2>1. [state |-> "queued", gen |-> 0] \in Response  BY DEF Response, Queued, Active
  <2>2. New(t, "claim") => NewClaim(t) \in Response
    BY ClaimTyped DEF New, Response, AnswerInv
  <2>3. New(t, "complete") => NewResult(t) \in Response
    BY ResultTyped DEF New, Response, AnswerInv
  <2>4. QED  BY <1>3, <2>1, <2>2, <2>3, JournalledByRespond DEF StoreStep
<1>4. ASSUME NEW t \in Threads, EnqueueAgain(t) PROVE AnswersJournalled'
  <2> DEFINE i == thread[t].req.item
  <2>1. i \in Items  BY <1>4, RunningTyped, RequestTyped DEF EnqueueAgain, New, AnswerInv
  <2>2. items[i] \in Item  BY <1>4, <2>1 DEF EnqueueAgain, AnswerInv, BaseInv, TypeOK
  <2>3. [state |-> items[i].state, gen |-> items[i].gen] \in Response
    BY <2>2 DEF Item, Response, Queued
  <2>4. QED  BY <1>4, <2>3, JournalledByRespond DEF EnqueueAgain
<1>5. ASSUME NEW t \in Threads, CompleteAgain(t) PROVE AnswersJournalled'
  <2> DEFINE i == claims[thread[t].req.claim].item
  <2>1. i \in Items  BY <1>5, ResultTyped DEF CompleteAgain, New, AnswerInv
  <2>2. results[i] \in Response
    BY <1>5, <2>1 DEF CompleteAgain, AnswerInv, BaseInv, TypeOK, Response
  <2>3. QED  BY <1>5, <2>2, JournalledByRespond DEF CompleteAgain
<1>6. ASSUME NEW t \in Threads, Enqueue(t) \/ TakeClaim(t) \/ Complete(t)
      PROVE  AnswersJournalled'
  <2>1. StoreStep(t)
    BY <1>6 DEF Enqueue, TakeClaim, Complete, StoreStep, NewClaim, NewResult
  <2>2. QED  BY <1>3, <2>1
<1>7. ASSUME NEW t \in Threads, EnqueueReady(t) \/ ClaimReady(t) \/ CompleteReady(t) \/ Refuse(t)
      PROVE  UNCHANGED <<operations, answers>>
  BY <1>7 DEF EnqueueReady, ClaimReady, CompleteReady, Refuse, store
<1>8. ASSUME NEW t \in Threads, NEW r \in Requests, Arrive(t, r)
      PROVE  UNCHANGED <<operations, answers>>
  BY <1>8 DEF Arrive, store
<1>9. CASE Crash \/ Tick \/ \E x \in Resources : MoveFence(x)
  BY <1>1, <1>9 DEF Crash, Tick, MoveFence, store
<1>10. CASE UNCHANGED vars  BY <1>1, <1>10 DEF vars, store
<1>11. QED
  BY <1>1, <1>2, <1>4, <1>5, <1>6, <1>7, <1>8, <1>9, <1>10 DEF Next, Step

\* All copies of a request that succeed get the same artifact.
THEOREM RetriesGetOneArtifact == Spec => []RetriesAgree
<1>1. Init => AnswerInv  BY BaseInit DEF Init, AnswerInv, AnswersJournalled
<1>2. AnswerInv /\ [Next]_vars => AnswerInv'
  BY BaseStep, JournalledStep DEF AnswerInv
<1>3. AnswerInv => RetriesAgree
  <2> SUFFICES ASSUME AnswerInv, NEW a \in answers, NEW b \in answers, a[1] = b[1]
               PROVE  a[2] = b[2]
    BY DEF RetriesAgree
  <2>1. [req |-> a[1], response |-> a[2]] = [req |-> b[1], response |-> b[2]]
    BY DEF AnswerInv, AnswersJournalled
  <2>2. QED  BY <2>1
<1>4. QED  BY <1>1, <1>2, <1>3, PTL DEF Spec

\* Work on a resource is exclusive and accounted for: what the queue promises its
\* workers and producers, for every interleaving of any number of threads
\* (curator.py: enqueue, claim, complete).
THEOREM WorkStaysExclusive == Spec => []WorkIsExclusive
BY QueueTypeCorrect, LeasesAreDisjoint, ResultsComeFromTheLastClaim,
   ResourcesAreExclusive, RetriesGetOneArtifact, PTL DEF WorkIsExclusive
=============================================================================
