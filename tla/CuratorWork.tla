---------------------------- MODULE CuratorWork -----------------------------
(***************************************************************************)
(* The curator worker (curator_worker.py): a claimed queue item is turned  *)
(* into one proposal by a bounded number of calls to a model provider.     *)
(*                                                                         *)
(* Every claim of the item makes a task.  Several one-shot workers may run *)
(* the same task, one after a crash or two at a time; the attempt row in   *)
(* the ledger database is what they share.  The claim, the checkpoint and  *)
(* the policy plan of the task go stale while a provider call runs.  (The  *)
(* packaged command also holds the lock of its state root; the transitions *)
(* of the row do not rely on it, and neither does this module.)            *)
(***************************************************************************)
EXTENDS Naturals

CONSTANTS
    Workers,        \* worker processes
    MaxAttempts,    \* limits.max_attempts of the profile
    Lease,          \* the life of a claim
    MaxNow, MaxClaims, MaxHeads, MaxStarts    \* bounds

Tasks == 1 .. MaxClaims       \* one task per claim, named by its generation
None == [state |-> "none"]
Idle == [stage |-> "idle"]

VARIABLES
    now,
    head,      \* the ledger checkpoint the policy plan depends on
    item,      \* the coordinator's row: generation, lease, result
    task,      \* the task of each claim
    row,       \* curator_worker_attempts
    worker,    \* where each worker is in run
    calls,     \* provider calls made for each task
    starts

vars == <<now, head, item, task, row, worker, calls, starts>>

Init ==
    /\ now = 0 /\ head = 0 /\ starts = 0
    /\ item = [generation |-> 0, until |-> 0, result |-> None]
    /\ task = [g \in Tasks |-> None]
    /\ row = [g \in Tasks |-> None]
    /\ worker = [w \in Workers |-> Idle]
    /\ calls = [g \in Tasks |-> 0]

-----------------------------------------------------------------------------
(* The coordinator, as far as a worker depends on it *)

\* A task is bound to one claim and ends no later than its lease.
TaskBinds(g) == task[g] # None /\ task[g].deadline <= task[g].lease

Claim ==
    /\ item.result = None
    /\ item.generation < MaxClaims
    /\ item.generation = 0 \/ now >= item.until
    /\ item' = [item EXCEPT !.generation = @ + 1, !.until = now + Lease]
    /\ task' = [task EXCEPT ![item.generation + 1] =
         [state |-> "task", checkpoint |-> head, deadline |-> now + Lease,
          lease |-> now + Lease]]
    /\ UNCHANGED <<now, head, row, worker, calls, starts>>

\* A result that stands is repeated to whoever asks for the same one.
Completes(g, outcome, refs) ==
    \/ item.result = [state |-> outcome, generation |-> g, refs |-> refs]
    \/ item.result = None /\ item.generation = g /\ now < item.until

-----------------------------------------------------------------------------
(* run *)

At(w, stage) == worker[w].stage = stage
Goes(w, value) == worker' = [worker EXCEPT ![w] = value]
Ends(w) == Goes(w, Idle)

\* The claim is current and its lease runs, and neither the checkpoint nor the
\* plan made on it has moved.
Revalidated(g) ==
    /\ now < task[g].deadline
    /\ item.generation = g /\ item.result = None /\ now < item.until
    /\ task[g].checkpoint = head

\* The stored row decides first: what is proposed, deferred or failed is only
\* completed again.
Start(w, g) ==
    /\ At(w, "idle") /\ TaskBinds(g) /\ starts < MaxStarts
    /\ starts' = starts + 1
    /\ IF row[g].state \in {"proposed", "deferred", "failed"}
       THEN Goes(w, [stage |-> "complete", task |-> g])
       ELSE Goes(w, [stage |-> "check", task |-> g])
    /\ UNCHANGED <<now, head, item, task, row, calls>>

\* _revalidate, and the row that marks the task as requested.
Check(w) ==
    LET g == worker[w].task
    IN  /\ At(w, "check")
        /\ IF ~Revalidated(g) THEN Ends(w) /\ UNCHANGED row
           ELSE /\ row' = [row EXCEPT ![g] = IF @ # None THEN @ ELSE
                             [state |-> "requested", attempts |-> 0,
                              error |-> "none", proposal |-> 0]]
                /\ Goes(w, [stage |-> "resolve", task |-> g])
        /\ UNCHANGED <<now, head, item, task, calls, starts>>

\* _store_terminal: the first outcome of a task stays; another one is refused.
StoreTerminal(w, g, outcome, error) ==
    \/ /\ row[g].state = "requested"
       /\ row' = [row EXCEPT ![g].state = outcome, ![g].error = error]
       /\ Goes(w, [stage |-> "complete", task |-> g])
    \/ /\ row[g].state = outcome /\ row[g].error = error
       /\ UNCHANGED row
       /\ Goes(w, [stage |-> "complete", task |-> g])
    \/ /\ row[g].state # "requested"
       /\ ~(row[g].state = outcome /\ row[g].error = error)
       /\ UNCHANGED row
       /\ Ends(w)

\* The content of the candidate, missing for good or for now.
Resolve(w, found) ==
    LET g == worker[w].task
    IN  /\ At(w, "resolve")
        /\ \/ found = "content" /\ Goes(w, [stage |-> "attempt", task |-> g])
              /\ UNCHANGED row
           \/ found = "refused" /\ StoreTerminal(w, g, "failed", "content")
           \/ found = "unavailable" /\ StoreTerminal(w, g, "deferred", "content")
        /\ UNCHANGED <<now, head, item, task, calls, starts>>

MayCallAgain(g) == row[g].state = "requested"

\* The attempt is counted in the row before the provider is called.
MayCall(g) == row[g].state = "requested" /\ row[g].attempts < MaxAttempts

NextAttempt(w) ==
    LET g == worker[w].task
    IN  /\ At(w, "attempt")
        /\ IF MayCall(g)
           THEN /\ row' = [row EXCEPT ![g].attempts = @ + 1]
                /\ calls' = [calls EXCEPT ![g] = @ + 1]
                /\ Goes(w, [stage |-> "calling", task |-> g,
                            attempt |-> row[g].attempts + 1])
           ELSE /\ StoreTerminal(w, g, "deferred",
                     IF row[g].error = "none" THEN "exhausted" ELSE row[g].error)
                /\ UNCHANGED calls
        /\ UNCHANGED <<now, head, item, task, starts>>

\* What the provider's answer is to the worker: a valid output, an error of the
\* transport or a transient status, or anything the parser refuses.
RequestErrors == {"refused"}              \* content or disclosure refused
TransportErrors == {"transient"}          \* timeout, reset, TLS
StatusErrors == {"transient", "refused"}  \* by status; any other malformed answer
OutputErrors == {"refused"}               \* an output outside the task's schema
Answers ==
    {"output"} \cup RequestErrors \cup TransportErrors \cup StatusErrors
      \cup OutputErrors

Answer(w, answer) ==
    LET g == worker[w].task
        attempt == worker[w].attempt
    IN  /\ At(w, "calling")
        /\ IF answer = "output" /\ Revalidated(g)
           THEN Goes(w, [stage |-> "store", task |-> g, attempt |-> attempt])
           ELSE Goes(w, [stage |-> "failed", task |-> g, attempt |-> attempt,
                         error |-> IF answer = "output" THEN "stale" ELSE answer])
        /\ UNCHANGED <<now, head, item, task, row, calls, starts>>

\* A retryable error is recorded and the loop goes on after a pause; the last
\* attempt, or an error that is not retryable, ends the task.
Failed(w) ==
    LET g == worker[w].task
        error == worker[w].error
        final == error = "refused"
    IN  /\ At(w, "failed")
        /\ IF final \/ worker[w].attempt >= MaxAttempts
           THEN StoreTerminal(w, g, IF final THEN "failed" ELSE "deferred", error)
           ELSE IF row[g].state = "requested"
           THEN /\ row' = [row EXCEPT ![g].error = error]
                /\ Goes(w, [stage |-> "attempt", task |-> g])
           ELSE Ends(w) /\ UNCHANGED row
        /\ UNCHANGED <<now, head, item, task, calls, starts>>

\* Two answers of the provider are two different proposals, named here by the
\* attempt that got them.
Proposed(g, proposal) ==
    IF row[g].state # "requested" THEN row[g]
    ELSE [row[g] EXCEPT !.state = "proposed", !.proposal = proposal]

StoreProposal(w) ==
    LET g == worker[w].task
        kept == Proposed(g, worker[w].attempt)
    IN  /\ At(w, "store")
        /\ row' = [row EXCEPT ![g] = kept]
        /\ IF kept.state = "proposed" /\ kept.proposal = worker[w].attempt
           THEN Goes(w, [stage |-> "complete", task |-> g])
           ELSE Ends(w)
        /\ UNCHANGED <<now, head, item, task, calls, starts>>

\* The coordinator is told what the row says; it may refuse.
Complete(w) ==
    LET g == worker[w].task
        outcome == row[g].state
        refs == IF outcome = "proposed" THEN row[g].proposal ELSE 0
    IN  /\ At(w, "complete")
        /\ item' = IF Completes(g, outcome, refs)
                   THEN [item EXCEPT !.result =
                          [state |-> outcome, generation |-> g, refs |-> refs]]
                   ELSE item
        /\ Ends(w)
        /\ UNCHANGED <<now, head, task, row, calls, starts>>

-----------------------------------------------------------------------------
Crash(w) ==
    /\ ~At(w, "idle")
    /\ Ends(w)
    /\ UNCHANGED <<now, head, item, task, row, calls, starts>>

Tick ==
    /\ now < MaxNow /\ now' = now + 1
    /\ UNCHANGED <<head, item, task, row, worker, calls, starts>>

\* The ledger moves under a task.
Move ==
    /\ head < MaxHeads /\ head' = head + 1
    /\ UNCHANGED <<now, item, task, row, worker, calls, starts>>

Next ==
    \/ Claim \/ Tick \/ Move
    \/ \E w \in Workers, g \in Tasks : Start(w, g)
    \/ \E w \in Workers :
          Check(w) \/ NextAttempt(w) \/ Failed(w) \/ StoreProposal(w)
            \/ Complete(w) \/ Crash(w)
    \/ \E w \in Workers, found \in {"content", "refused", "unavailable"} :
          Resolve(w, found)
    \/ \E w \in Workers, answer \in Answers : Answer(w, answer)

Spec == Init /\ [][Next]_vars

-----------------------------------------------------------------------------
\* Over crashes, retries and workers that run at the same time a task makes no
\* more provider calls than its profile allows, and the result the queue keeps
\* is the one outcome, and the very proposal, that the task's row holds
\* (curator_worker.py: _next_attempt, _store_proposal, _store_terminal).
ResultIsTheTasksOwn ==
    /\ \A g \in Tasks : calls[g] <= MaxAttempts
    /\ item.result # None =>
         LET kept == row[item.result.generation]
         IN  /\ kept.state = item.result.state
             /\ kept.state = "proposed" => kept.proposal = item.result.refs
=============================================================================
