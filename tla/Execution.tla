------------------------------ MODULE Execution ------------------------------
(***************************************************************************)
(* Bounded human execution: the journal of instructions, cycles, funding   *)
(* and queued work (execution_store.py) under the controller that starts,  *)
(* mediates and interrupts runtime turns (review_runner.py).               *)
(*                                                                         *)
(* Every step below is one SQLite transaction, one call of the runner or   *)
(* one step of a thread between them. A crash of the host process loses    *)
(* the contexts, and with them the cycle capabilities; the journal and the *)
(* runtime turns survive it.                                               *)
(*                                                                         *)
(* A rejected operation rolls back to its savepoint and keeps only the     *)
(* clock observation, so every rejection is a step of ObserveClock.        *)
(***************************************************************************)
EXTENDS Naturals, Sequences, FiniteSets, Functions

CONSTANTS
    Drafts,        \* instruction payloads a human may sign
    Terms,         \* Terms[d]: its id, revision, predecessor, session and limits
    Accounts,      \* funding accounts
    Ceiling,       \* Ceiling[a]: kind, window and the limits signed for a
    Funding,       \* Funding[d]: the accounts and charge a human may bind to d
    Work,          \* messages that ask for work
    Request,       \* Request[w]: the draft and the episode account w names
    Policy,        \* Policy[a]: the eligibility signed for the episode account a
    Strict,        \* sessions whose controller requires funding
    Selected,      \* sessions whose controller requires a queued original
    None,          \* Python's None
    Plans          \* bounds: each behaviour keeps to one of these (see Plan)

Kinds == {"inference", "provider", "native"}
InFlight == {"intent", "ambiguous"}
Terminal == {"completed", "stopped"}
DraftStates ==
    {"none", "pending", "active", "superseded", "cancelled", "expired", "completed"}

ASSUME TermsAssumption ==
    \A d \in Drafts :
        /\ Terms[d].pred \in Drafts \cup {None}
        /\ Terms[d].rev \in Nat \ {0}
        /\ Terms[d].start \in Nat /\ Terms[d].end \in Nat
        /\ Terms[d].start < Terms[d].end
        /\ Terms[d].interval \in Nat /\ Terms[d].cycles \in Nat \ {0}
        /\ Terms[d].secs \in Nat \ {0} /\ Terms[d].effects \in Nat \ {0}
ASSUME FundingAssumption ==
    /\ \A d \in Drafts : Funding[d].accounts \subseteq Accounts /\ Funding[d].charge \in Nat
    /\ \A a \in Accounts :
        /\ Ceiling[a].start \in Nat /\ Ceiling[a].end \in Nat
        /\ Ceiling[a].calls \in Nat /\ Ceiling[a].charge \in Nat
        /\ Ceiling[a].active \in Nat /\ Ceiling[a].bindings \in Nat
ASSUME WorkAssumption ==
    /\ \A w \in Work : Request[w].draft \in Drafts /\ Request[w].account \in Accounts
    /\ \A a \in Accounts : Policy[a].requests \in Nat /\ Policy[a].pending \in Nat
\* What a behaviour may use: the drafts, accounts, messages and kinds of calls
\* that occur, the last instant of the wall clock (instants count from the
\* beginning of the behaviour), how often it goes back, and the number of
\* cycles, of cancelled drafts, of pauses and resumes per account, of
\* submissions that raise (none: the store is always readable) and of crashes.
Plan ==
    [drafts: SUBSET Drafts, accounts: SUBSET Accounts, work: SUBSET Work,
     kinds: SUBSET Kinds, time: Nat, rollbacks: Nat, cycles: Nat, cancels: Nat, controls: Nat, raises: Nat,
     crashes: Nat]
ASSUME PlansAssumption == Plans \subseteq Plan
ASSUME NoneAssumption == None \notin Drafts \cup Work \cup Nat

VARIABLES
    plan,          \* the bounds of this behaviour
    wall,          \* the wall clock
    rollbacks,     \* times it went back
    highWater,     \* metadata.high_water
    clockFault,    \* metadata.clock_fault
    instr,         \* instructions: state and generation of each draft
    account,       \* funding_accounts: granted, paused and control_revision
    funded,        \* instruction_funding: drafts bound to their accounts
    policies,      \* episode_policies: accounts with one, each with its notice
    work,          \* coordination_work: state and cycle of each message
    cycles,        \* cycles, in order of reservation
    ops,           \* operations: the n-th of a kind of a cycle
    returned,      \* operations in state 'returned'
    charges,       \* call_charges: the actual charge per cycle, None if unknown
    context,       \* CycleContext per cycle of this process
    dispatching,   \* operations between the two transactions of dispatch
    failing,       \* cycles whose dispatcher is about to call mark_ambiguous
    enforcing,     \* enforce per cycle: its next step
    held,          \* cycles whose capability this process holds
    worker,        \* the runner's worker thread per cycle: its next step
    settled,       \* cycles whose worker ended with nothing unknown
    runtime,       \* the runner's own journal: state per started cycle
    turns,         \* cycles whose runtime process is alive
    sent,          \* operations whose bytes left the host
    stopped,       \* drafts for which cancel_active answered "stopped"
    crashes

clock == <<plan, wall, rollbacks>>
observed == <<highWater, clockFault>>
authority == <<instr, account, funded, policies>>
attempts == <<cycles, ops, returned, charges>>
controller == <<context, dispatching, failing, enforcing, held>>
runner == <<worker, settled, runtime, turns>>
process == <<controller, runner>>
world == <<sent, stopped, crashes>>
vars == <<clock, observed, authority, work, attempts, process, world>>

Cycle == 1..Len(cycles)
Op == [cycle: Cycle, kind: Kinds, n: Nat \ {0}]

Init ==
    /\ plan \in Plans
    /\ wall = 0 /\ rollbacks = 0
    /\ highWater = 0 /\ clockFault = FALSE
    /\ instr = [d \in Drafts |-> [state |-> "none", generation |-> 0]]
    /\ account = [a \in Accounts |-> [granted |-> FALSE, paused |-> FALSE, revision |-> 0]]
    /\ funded = {}
    /\ policies = << >>
    /\ work = [w \in Work |-> [state |-> "none", cycle |-> None]]
    /\ cycles = << >> /\ ops = {} /\ returned = {} /\ charges = << >>
    /\ context = << >> /\ dispatching = {} /\ failing = {} /\ enforcing = << >>
    /\ held = {} /\ worker = << >> /\ settled = {} /\ runtime = << >> /\ turns = {}
    /\ sent = {} /\ stopped = {} /\ crashes = 0

-----------------------------------------------------------------------------
(* Time. *)

\* _now: the reading is trusted.
Now == ~clockFault /\ wall >= highWater

\* An operation the clock admits.
Observed == Now /\ highWater' = wall /\ UNCHANGED clockFault

Tick ==
    /\ wall < plan.time
    /\ wall' = wall + 1
    /\ UNCHANGED <<plan, rollbacks, observed, authority, work, attempts, process, world>>

RollBack ==
    /\ wall > 0 /\ rollbacks < plan.rollbacks
    /\ wall' = wall - 1 /\ rollbacks' = rollbacks + 1
    /\ UNCHANGED <<plan, observed, authority, work, attempts, process, world>>

\* The observation any operation that reads the clock leaves behind.
Observes ==
    IF Now THEN highWater' = wall /\ UNCHANGED clockFault
    ELSE clockFault' = TRUE /\ UNCHANGED highWater

\* observe_clock, and all that is left of an operation that was denied.
ObserveClock ==
    /\ Observes
    /\ UNCHANGED <<clock, authority, work, attempts, process, world>>

-----------------------------------------------------------------------------
(* Instructions. *)

SameKey(d, e) == Terms[d].id = Terms[e].id /\ Terms[d].rev = Terms[e].rev

SetState(d, s) ==
    instr' = [instr EXCEPT ![d] = [state |-> s, generation |-> @.generation + 1]]

Propose(d) ==
    /\ Observed
    /\ \A e \in Drafts : SameKey(d, e) => instr[e].state = "none"
    /\ instr' = [instr EXCEPT ![d].state = "pending"]
    /\ UNCHANGED <<clock, account, funded, policies, work, attempts, process, world>>

\* The decided rows of the draft's id; the first row by descending revision
\* is the one a renewal must name.
Decided(d) ==
    {e \in Drafts : Terms[e].id = Terms[d].id /\ instr[e].state \notin {"none", "pending"}}

Renews(d) ==
    IF Decided(d) = {} THEN Terms[d].rev = 1
    ELSE \E e \in Decided(d) :
            /\ \A f \in Decided(d) : Terms[f].rev <= Terms[e].rev
            /\ Terms[d].rev = Terms[e].rev + 1
            /\ Terms[d].pred = e
            /\ Terms[d].session = Terms[e].session

Superseded(d) ==
    [e \in Drafts |->
        IF Terms[e].id = Terms[d].id /\ instr[e].state = "active"
        THEN [state |-> "superseded", generation |-> instr[e].generation + 1]
        ELSE instr[e]]

Approve(d) ==
    /\ Observed
    /\ wall < Terms[d].end
    /\ Renews(d)
    /\ instr[d].state \in {"none", "pending"}
    /\ \A e \in Drafts \ {d} : SameKey(d, e) => instr[e].state = "none"
    /\ instr' = [Superseded(d) EXCEPT ![d] = [state |-> "active", generation |-> 0]]
    /\ UNCHANGED <<clock, account, funded, policies, work, attempts, process, world>>

\* cancel reads no clock. A second cancellation only raises the generation
\* again and is left out.
Cancel(d) ==
    /\ instr[d].state \notin {"none", "cancelled"}
    /\ Cardinality({e \in Drafts : instr[e].state = "cancelled"}) < plan.cancels
    /\ SetState(d, "cancelled")
    /\ UNCHANGED <<clock, observed, account, funded, policies, work, attempts, process, world>>

\* status: the only state it may write.
Expire(d) ==
    /\ Observed
    /\ instr[d].state = "active" /\ wall >= Terms[d].end
    /\ SetState(d, "expired")
    /\ UNCHANGED <<clock, account, funded, policies, work, attempts, process, world>>

-----------------------------------------------------------------------------
(* Funding. *)

InWindow(a) == Ceiling[a].start <= wall /\ wall < Ceiling[a].end

GrantBudget(a) ==
    /\ Observed
    /\ wall < Ceiling[a].end
    /\ ~account[a].granted
    /\ account' = [account EXCEPT ![a].granted = TRUE]
    /\ UNCHANGED <<clock, instr, funded, policies, work, attempts, process, world>>

FundInstruction(d) ==
    /\ Observed
    /\ instr[d].state = "active"
    /\ d \notin funded
    /\ Cardinality(Funding[d].accounts) = 3
    /\ {Ceiling[a].kind : a \in Funding[d].accounts} = {"tribe", "being", "episode"}
    /\ \A a \in Funding[d].accounts :
        /\ account[a].granted /\ ~account[a].paused /\ InWindow(a)
        /\ Ceiling[a].start <= Terms[d].start /\ Terms[d].end <= Ceiling[a].end
        /\ Funding[d].charge <= Ceiling[a].charge
        /\ Cardinality({e \in funded : a \in Funding[e].accounts}) < Ceiling[a].bindings
    /\ funded' = funded \cup {d}
    /\ UNCHANGED <<clock, instr, account, policies, work, attempts, process, world>>

\* _funding for a draft that has one.
FundingOpen(d) ==
    \A a \in Funding[d].accounts : ~account[a].paused /\ InWindow(a)

ControlFunding(a) ==
    /\ account[a].granted
    /\ account[a].revision < plan.controls
    /\ account' = [account EXCEPT ![a].paused = ~@, ![a].revision = @ + 1]
    /\ UNCHANGED <<clock, observed, instr, funded, policies, work, attempts, process, world>>

\* The rows _balance aggregates.
Charged(a) ==
    {c \in DOMAIN charges : cycles[c].draft \in funded /\ a \in Funding[cycles[c].draft].accounts}

Exposure(c) == IF charges[c] = None THEN Funding[cycles[c].draft].charge ELSE charges[c]

\* Mutant: a reservation that is not settled yet costs nothing.
SpendSettled(a) == SumFunction([c \in {x \in Charged(a) : charges[x] # None} |-> Exposure(c)])

Spend(a) == SumFunction([c \in Charged(a) |-> Exposure(c)])

Active(a) == {c \in Charged(a) : charges[c] = None \/ cycles[c].state \in InFlight}

Uncertain(a) ==
    \E c \in Charged(a) :
        cycles[c].state = "ambiguous" \/ (charges[c] = None /\ cycles[c].state # "intent")

\* _reserve_charge for a funded draft.
ChargeAdmissible(d) ==
    \A a \in Funding[d].accounts :
        /\ ~Uncertain(a)
        /\ Cardinality(Charged(a)) < Ceiling[a].calls
        /\ Cardinality(Active(a)) < Ceiling[a].active
        /\ Spend(a) + Funding[d].charge <= Ceiling[a].charge

\* settle_charge. The usage authority is the provider's accounting: it knows
\* the actual charge once the call can no longer be submitted.
SettleCharge(c, actual) ==
    /\ charges[c] = None
    /\ actual <= Funding[cycles[c].draft].charge
    /\ c \in held
    /\ \A op \in dispatching : op.cycle # c
    /\ (\E op \in sent : op.cycle = c /\ op.kind = "provider") \/ actual = 0
    /\ charges' = [charges EXCEPT ![c] = actual]
    /\ UNCHANGED <<clock, observed, authority, work, cycles, ops, returned, process, world>>

-----------------------------------------------------------------------------
(* Queued work. *)

ConfigureEpisode(a) ==
    /\ Observed
    /\ a \notin DOMAIN policies
    /\ Ceiling[a].kind = "episode"
    /\ account[a].granted /\ ~account[a].paused /\ InWindow(a)
    /\ \A d \in Policy[a].drafts : d \in funded /\ a \in Funding[d].accounts
    /\ policies' = [b \in DOMAIN policies \cup {a} |->
          IF b = a THEN [notice |-> FALSE] ELSE policies[b]]
    /\ UNCHANGED <<clock, instr, account, funded, work, attempts, process, world>>

OfEpisode(a) == {w \in Work : Request[w].account = a /\ work[w].state # "none"}

Pending(a) ==
    {w \in OfEpisode(a) :
        \/ work[w].state = "queued"
        \/ work[w].state = "intent" /\ cycles[work[w].cycle].state \in InFlight}

\* A message that was queued before is answered with its retained work and
\* changes nothing.
EnqueueCoordination(w) ==
    LET a == Request[w].account IN
    /\ Observed
    /\ a \in DOMAIN policies
    /\ work[w].state = "none"
    /\ Request[w].draft \in Policy[a].drafts
    /\ ~account[a].paused /\ InWindow(a)
    /\ Cardinality(OfEpisode(a)) < Policy[a].requests
    /\ Cardinality(Pending(a)) < Policy[a].pending
    /\ work' = [work EXCEPT ![w].state = "queued"]
    /\ UNCHANGED <<clock, authority, attempts, process, world>>

WithdrawCoordination(w) ==
    /\ work[w].state = "queued"
    /\ work' = [work EXCEPT ![w].state = "withdrawn"]
    /\ UNCHANGED <<clock, observed, authority, attempts, process, world>>

\* episode_notice, episode_report: one retained notice once no route of the
\* episode can pay for another call.
Unpayable(d) ==
    \E a \in Funding[d].accounts :
        \/ Cardinality(Charged(a)) >= Ceiling[a].calls
        \/ Ceiling[a].charge < Spend(a) + Funding[d].charge

EpisodeNotice(a) ==
    /\ a \in DOMAIN policies /\ ~policies[a].notice
    /\ \A d \in Policy[a].drafts : Unpayable(d)
    /\ policies' = [policies EXCEPT ![a].notice = TRUE]
    /\ Observes
    /\ UNCHANGED <<clock, instr, account, funded, work, attempts, process, world>>

-----------------------------------------------------------------------------
(* Cycles. *)

Lower(a, b) == IF a < b THEN a ELSE b

With(f, x, v) == [y \in DOMAIN f \cup {x} |-> IF y = x THEN v ELSE f[y]]
Without(f, x) == [y \in DOMAIN f \ {x} |-> f[y]]

Slot(d) ==
    IF Terms[d].interval = 0 THEN 0 ELSE (wall - Terms[d].start) \div Terms[d].interval

CyclesOf(d) == {c \in Cycle : cycles[c].draft = d}
Session(c) == Terms[cycles[c].draft].session

\* run_due_once up to the registered context. The controller's check_funding
\* is a transaction before reserve: an account may be paused between the two,
\* the binding cannot disappear.
Reserve(d, w) ==
    /\ Observed
    /\ Len(cycles) < plan.cycles
    /\ instr[d].state = "active"
    /\ Terms[d].start <= wall /\ wall < Terms[d].end
    /\ Terms[d].session \in Selected => w # None
    /\ Terms[d].session \in Strict \cup Selected => d \in funded
    /\ w # None =>
        /\ work[w].state = "queued" /\ Request[w].draft = d
        /\ d \in funded /\ FundingOpen(d)
    /\ Cardinality(CyclesOf(d)) < Terms[d].cycles
    /\ \A c \in CyclesOf(d) : cycles[c].slot # Slot(d)
    /\ \A c \in Cycle : Session(c) = Terms[d].session => cycles[c].state \notin InFlight
    /\ cycles' = Append(cycles,
          [draft |-> d, slot |-> Slot(d), state |-> "intent",
           deadline |-> Lower(Terms[d].end, wall + Terms[d].secs),
           generation |-> instr[d].generation])
    /\ work' = IF w = None THEN work
               ELSE [work EXCEPT ![w] = [state |-> "intent", cycle |-> Len(cycles) + 1]]
    /\ context' = With(context, Len(cycles) + 1, "starting")
    /\ held' = held \cup {Len(cycles) + 1}
    /\ UNCHANGED <<clock, authority, ops, returned, charges, dispatching, failing,
                   enforcing, runner, world>>

\* _guard without the clock, which Observed covers.
Guard(c) ==
    LET d == cycles[c].draft IN
    /\ cycles[c].state = "intent"
    /\ instr[d].state = "active"
    /\ cycles[c].generation = instr[d].generation
    /\ Terms[d].start <= wall /\ wall < Lower(Terms[d].end, cycles[c].deadline)
    /\ d \in funded => FundingOpen(d)

Limit(c, kind) == IF kind = "native" THEN Terms[cycles[c].draft].effects ELSE 1

Issued(c, kind) == {op \in ops : op.cycle = c /\ op.kind = kind}

\* dispatch, first transaction: the intent and, for a paid call, its charge.
\* run_due_once submits the inference; the worker it starts does the rest.
DispatchIntent(c, kind) ==
    LET d == cycles[c].draft
        op == [cycle |-> c, kind |-> kind,
               n |-> Cardinality({o \in ops : o.cycle = c /\ o.kind = kind}) + 1]
    IN
    /\ Observed
    /\ IF kind = "inference" THEN context[c] = "starting"
       ELSE context[c] = "open" /\ c \in DOMAIN worker /\ worker[c] = "run"
    /\ Guard(c)
    /\ Cardinality(Issued(c, kind)) < Limit(c, kind)
    /\ kind = "provider" /\ d \in funded => ChargeAdmissible(d)
    /\ ops' = ops \cup {op}
    /\ dispatching' = dispatching \cup {op}
    /\ charges' = IF kind = "provider" /\ d \in funded THEN With(charges, c, None) ELSE charges
    /\ context' = [context EXCEPT ![c] = "open"]
    /\ UNCHANGED <<clock, authority, work, cycles, returned, failing, enforcing, held,
                   runner, world>>

\* The first transaction of the inference is denied: run_due_once raises and
\* leaves the reserved cycle behind.
StartDenied(c) ==
    /\ context[c] = "starting"
    /\ ~Now \/ ~Guard(c)
    /\ context' = [context EXCEPT ![c] = "open"]
    /\ Observes
    /\ UNCHANGED <<clock, authority, work, attempts, dispatching, failing, enforcing, held,
                   runner, world>>

\* Mutant: the second transaction trusts the guard of the first.
SubmittableUnchecked(op) ==
    op.cycle \in DOMAIN context => context[op.cycle] # "fenced"

\* dispatch, second transaction up to submit().
Submittable(op) ==
    LET d == cycles[op.cycle].draft IN
    /\ Guard(op.cycle)
    /\ op.kind = "provider" /\ d \in funded => \A a \in Funding[d].accounts : ~Uncertain(a)
    /\ op.cycle \in DOMAIN context => context[op.cycle] # "fenced"

\* CodexReviewRunner.start refuses while a worker lives or its journal holds a
\* cycle that is not reconciled.
RunnerFree(c) ==
    /\ \A x \in DOMAIN worker : Session(x) # Session(c)
    /\ \A x \in DOMAIN runtime : Session(x) = Session(c) => runtime[x] \in Terminal

\* submit(): runner.start for the inference, bytes on a socket for the rest.
Submits(op) ==
    /\ sent' = sent \cup {op}
    /\ IF op.kind = "inference"
       THEN /\ RunnerFree(op.cycle)
            /\ runtime' = With(runtime, op.cycle, "intent")
            /\ worker' = With(worker, op.cycle, "run")
            /\ turns' = turns \cup {op.cycle}
            /\ UNCHANGED settled
       ELSE UNCHANGED runner

DispatchSubmit(op) ==
    /\ Observed
    /\ Submittable(op)
    /\ Submits(op)
    /\ returned' = returned \cup {op}
    /\ dispatching' = dispatching \ {op}
    /\ UNCHANGED <<clock, authority, work, cycles, ops, charges, context, failing,
                   enforcing, held, stopped, crashes>>

\* submit() raises, or the commit after it: nothing left, the runner journalled
\* the cycle but started no worker, or everything happened. The transaction is
\* rolled back.
SubmitRaises(op) ==
    /\ Observed
    /\ Cardinality(ops \ (returned \cup dispatching)) < plan.raises
    /\ Submittable(op)
    /\ \/ Submits(op)
       \/ UNCHANGED <<sent, runner>>
       \/ /\ op.kind = "inference" /\ RunnerFree(op.cycle)
          /\ runtime' = With(runtime, op.cycle, "intent")
          /\ UNCHANGED <<sent, worker, settled, turns>>
    /\ dispatching' = dispatching \ {op}
    /\ failing' = failing \cup {op.cycle}
    /\ UNCHANGED <<clock, authority, work, attempts, context, enforcing, held, stopped, crashes>>

DispatchRefused(op) ==
    /\ ~Now \/ ~Submittable(op)
    /\ Observes
    /\ dispatching' = dispatching \ {op}
    /\ failing' = failing \cup {op.cycle}
    /\ UNCHANGED <<clock, authority, work, attempts, context, enforcing, held, runner, world>>

Ambiguous(c) ==
    cycles' = IF cycles[c].state = "intent" THEN [cycles EXCEPT ![c].state = "ambiguous"]
              ELSE cycles

\* dispatch's exception handler.
MarkAmbiguous(c) ==
    /\ Ambiguous(c)
    /\ failing' = failing \ {c}
    /\ UNCHANGED <<clock, observed, authority, work, ops, returned, charges, context,
                   dispatching, enforcing, held, runner, world>>

\* CycleContext.check is denied: the context is fenced for good. The monotonic
\* clock is taken to reach its deadline with the wall clock.
ContextFenced(c) ==
    /\ context[c] = "open"
    /\ ~Now \/ ~Guard(c)
    /\ context' = [context EXCEPT ![c] = "fenced"]
    /\ Observes
    /\ UNCHANGED <<clock, authority, work, attempts, dispatching, failing, enforcing, held,
                   runner, world>>

\* finish, with the instruction completed by its last cycle.
Close(c, outcome) ==
    LET d == cycles[c].draft IN
    /\ cycles[c].state \in InFlight
    /\ cycles' = [cycles EXCEPT ![c].state = outcome]
    /\ instr' = IF Cardinality(CyclesOf(d)) >= Terms[d].cycles /\ instr[d].state = "active"
                THEN [instr EXCEPT ![d].state = "completed"]
                ELSE instr

-----------------------------------------------------------------------------
(* The runner's worker thread. *)

\* The calls of these kinds all came back.
Known(c, kinds) == \A op \in ops : op.cycle = c /\ op.kind \in kinds => op \in returned

\* The end of _run: the process is reaped, whatever made it stop. A native or
\* provider call whose outcome is unknown leaves the cycle unsettled.
WorkerStops(c) ==
    /\ worker[c] = "run"
    /\ \A op \in dispatching : op.cycle # c
    /\ turns' = turns \ {c}
    /\ \/ /\ Known(c, {"native", "provider"})
          /\ worker' = [worker EXCEPT ![c] = "finish"] /\ settled' = settled \cup {c}
       \/ /\ worker' = [worker EXCEPT ![c] = "fail"]
          /\ \/ Known(c, {"native"}) /\ settled' = settled \cup {c}
             \/ UNCHANGED settled
    /\ UNCHANGED <<clock, observed, authority, work, attempts, controller, runtime, world>>

\* context._finish("completed"); a terminal cycle makes it raise.
WorkerFinish(c) ==
    /\ worker[c] = "finish"
    /\ IF cycles[c].state \in InFlight
       THEN /\ Close(c, "completed")
            /\ worker' = [worker EXCEPT ![c] = "record"]
            /\ context' = Without(context, c)
       ELSE /\ worker' = [worker EXCEPT ![c] = "fail"]
            /\ UNCHANGED <<cycles, instr, context>>
    /\ UNCHANGED <<clock, observed, account, funded, policies, work, ops, returned, charges,
                   dispatching, failing, enforcing, held, settled, runtime, turns, world>>

WorkerRecord(c) ==
    /\ worker[c] = "record"
    /\ runtime' = [runtime EXCEPT ![c] = "completed"]
    /\ worker' = Without(worker, c)
    /\ UNCHANGED <<clock, observed, authority, work, attempts, controller, settled, turns, world>>

\* _worker's handler: its own journal first, then the store's.
WorkerFail(c) ==
    /\ worker[c] = "fail"
    /\ runtime' = [runtime EXCEPT ![c] = "ambiguous"]
    /\ worker' = [worker EXCEPT ![c] = "mark"]
    /\ UNCHANGED <<clock, observed, authority, work, attempts, controller, settled, turns, world>>

WorkerMark(c) ==
    /\ worker[c] = "mark"
    /\ Ambiguous(c)
    /\ worker' = Without(worker, c)
    /\ UNCHANGED <<clock, observed, authority, work, ops, returned, charges, controller,
                   settled, runtime, turns, world>>

\* The OS timer over the process, which outlives the host.
TurnKilled(c) ==
    /\ wall >= cycles[c].deadline
    /\ turns' = turns \ {c}
    /\ UNCHANGED <<clock, observed, authority, work, attempts, controller, worker, settled,
                   runtime, world>>

-----------------------------------------------------------------------------
(* Interruption. *)

\* enforce, up to its fence: the cycle is terminal and the context forgotten,
\* or the check is denied. A check that passes changes nothing.
Enforce(c) ==
    /\ c \notin DOMAIN enforcing
    /\ IF cycles[c].state \in Terminal
       THEN context' = Without(context, c) /\ UNCHANGED <<enforcing, observed>>
       ELSE /\ ~Now \/ ~Guard(c) \/ context[c] = "fenced"
            /\ context' = [context EXCEPT ![c] = "fenced"]
            /\ enforcing' = With(enforcing, c, "mark")
            /\ Observes
    /\ UNCHANGED <<clock, authority, work, attempts, dispatching, failing, held, runner, world>>

\* enforce when the store cannot be read or the cleanup budget is spent: the
\* context is fenced all the same, and what could not be read is raised after the
\* interruption, which is therefore not recorded.
EnforceUnread(c) ==
    /\ c \notin DOMAIN enforcing
    /\ plan.raises > 0
    /\ context' = [context EXCEPT ![c] = "fenced"]
    /\ enforcing' \in {enforcing, With(enforcing, c, "mark only")}
    /\ UNCHANGED <<clock, observed, authority, work, attempts, dispatching, failing, held,
                   runner, world>>

\* cancellation_mark_ambiguous does not wait for a writer: it may find it busy.
EnforceMark(c) ==
    /\ enforcing[c] \in {"mark", "mark only"}
    /\ \/ /\ Ambiguous(c)
          /\ enforcing' = [enforcing EXCEPT ![c] =
                IF @ = "mark" THEN "interrupt" ELSE "interrupt only"]
       \/ UNCHANGED cycles /\ enforcing' = [enforcing EXCEPT ![c] = "interrupt only"]
    /\ UNCHANGED <<clock, observed, authority, work, ops, returned, charges, context,
                   dispatching, failing, held, runner, world>>

\* Mutant: the join of the worker timed out and is taken for a stop.
EnforceInterruptTimedOut(c) ==
    /\ enforcing[c] \in {"interrupt", "interrupt only"}
    /\ enforcing' = IF enforcing[c] = "interrupt"
                    THEN [enforcing EXCEPT ![c] = "finish"]
                    ELSE Without(enforcing, c)
    /\ UNCHANGED <<clock, observed, authority, work, attempts, context, dispatching,
                   failing, held, runner, world>>

\* runner.interrupt answers "stopped": the worker it joined is settled.
EnforceInterrupt(c) ==
    /\ enforcing[c] \in {"interrupt", "interrupt only"}
    /\ c \notin DOMAIN worker /\ c \in settled
    /\ enforcing' = IF enforcing[c] = "interrupt"
                    THEN [enforcing EXCEPT ![c] = "finish"]
                    ELSE Without(enforcing, c)
    /\ UNCHANGED <<clock, observed, authority, work, attempts, context, dispatching,
                   failing, held, runner, world>>

EnforceFinish(c) ==
    /\ enforcing[c] = "finish"
    /\ Close(c, "stopped")
    /\ enforcing' = Without(enforcing, c)
    /\ context' = Without(context, c)
    /\ UNCHANGED <<clock, observed, account, funded, policies, work, ops, returned,
                   charges, dispatching, failing, held, runner, world>>

\* The cleanup budget is spent, the runner answers "unknown" or the cycle is
\* already terminal.
EnforceGivesUp(c) ==
    /\ enforcing' = Without(enforcing, c)
    /\ UNCHANGED <<clock, observed, authority, work, attempts, context, dispatching,
                   failing, held, runner, world>>

\* confirm_cancel: cancel_active after the tombstone, when it answers "stopped".
CancelActive(d) ==
    /\ instr[d].state = "cancelled"
    /\ \A c \in CyclesOf(d) : cycles[c].state \notin InFlight
    /\ stopped' = stopped \cup {d}
    /\ UNCHANGED <<clock, observed, authority, work, attempts, process, sent, crashes>>

-----------------------------------------------------------------------------

\* The host dies. An operation under submission may have left just before.
Crash ==
    /\ crashes < plan.crashes
    /\ crashes' = crashes + 1
    /\ context' = << >> /\ dispatching' = {} /\ failing' = {} /\ enforcing' = << >>
    /\ held' = {} /\ worker' = << >> /\ settled' = {}
    /\ \/ UNCHANGED <<sent, runtime, turns>>
       \/ \E op \in dispatching :
            /\ Now /\ Submittable(op)
            /\ sent' = sent \cup {op}
            /\ IF op.kind = "inference"
               THEN /\ RunnerFree(op.cycle)
                    /\ runtime' = With(runtime, op.cycle, "intent")
                    /\ UNCHANGED turns
               ELSE UNCHANGED <<runtime, turns>>
    /\ UNCHANGED <<clock, observed, authority, work, attempts, stopped>>

Next ==
    \/ Tick \/ RollBack \/ ObserveClock \/ Crash
    \/ \E d \in plan.drafts :
        \/ Propose(d) \/ Approve(d) \/ Cancel(d) \/ Expire(d)
        \/ FundInstruction(d) \/ CancelActive(d)
        \/ \E w \in plan.work \cup {None} : Reserve(d, w)
    \/ \E a \in plan.accounts :
        \/ GrantBudget(a) \/ ControlFunding(a) \/ ConfigureEpisode(a) \/ EpisodeNotice(a)
    \/ \E w \in plan.work : EnqueueCoordination(w) \/ WithdrawCoordination(w)
    \/ \E c \in DOMAIN charges : \E actual \in {0, Funding[cycles[c].draft].charge} :
        SettleCharge(c, actual)
    \/ \E c \in DOMAIN context :
        \/ \E kind \in plan.kinds : DispatchIntent(c, kind)
        \/ StartDenied(c) \/ ContextFenced(c) \/ Enforce(c) \/ EnforceUnread(c)
    \/ \E op \in dispatching :
        DispatchSubmit(op) \/ SubmitRaises(op) \/ DispatchRefused(op)
    \/ \E c \in failing : MarkAmbiguous(c)
    \/ \E c \in DOMAIN worker :
        WorkerStops(c) \/ WorkerFinish(c) \/ WorkerRecord(c) \/ WorkerFail(c) \/ WorkerMark(c)
    \/ \E c \in DOMAIN enforcing :
        EnforceMark(c) \/ EnforceInterrupt(c) \/ EnforceFinish(c) \/ EnforceGivesUp(c)
    \/ \E c \in turns : TurnKilled(c)

Spec == Init /\ [][Next]_vars

-----------------------------------------------------------------------------
(* Properties. *)

TypeOK ==
    /\ plan \in Plans /\ wall \in 0..plan.time /\ rollbacks \in 0..plan.rollbacks
    /\ highWater \in 0..plan.time /\ clockFault \in BOOLEAN
    /\ instr \in [Drafts -> [state: DraftStates, generation: Nat]]
    /\ account \in [Accounts -> [granted: BOOLEAN, paused: BOOLEAN, revision: 0..plan.controls]]
    /\ funded \subseteq Drafts
    /\ DOMAIN policies \subseteq Accounts /\ \A a \in DOMAIN policies : policies[a] \in [notice: BOOLEAN]
    /\ work \in [Work -> [state: {"none", "queued", "intent", "withdrawn"},
                          cycle: Cycle \cup {None}]]
    /\ \A c \in Cycle :
        cycles[c] \in [draft: Drafts, slot: Nat, state: InFlight \cup Terminal,
                       deadline: Nat, generation: Nat]
    /\ ops \subseteq Op /\ returned \subseteq ops /\ dispatching \subseteq ops /\ sent \subseteq ops
    /\ DOMAIN charges \subseteq Cycle /\ \A c \in DOMAIN charges : charges[c] \in Nat \cup {None}
    /\ DOMAIN context \subseteq held /\ held \subseteq Cycle
    /\ \A c \in DOMAIN context : context[c] \in {"starting", "open", "fenced"}
    /\ failing \subseteq held /\ DOMAIN enforcing \subseteq held
    /\ \A c \in DOMAIN enforcing :
        enforcing[c] \in {"mark", "mark only", "interrupt", "interrupt only", "finish"}
    /\ \A c \in DOMAIN worker : worker[c] \in {"run", "finish", "record", "fail", "mark"}
    /\ settled \subseteq Cycle /\ DOMAIN worker \subseteq DOMAIN runtime
    /\ turns \subseteq DOMAIN runtime
    /\ \A c \in DOMAIN runtime : runtime[c] \in {"intent", "completed", "ambiguous"}
    /\ stopped \subseteq Drafts /\ crashes \in 0..plan.crashes

\* While its runtime process lives a cycle holds its session: the journal has
\* it in flight and no other cycle of the session, whatever crashed, expired,
\* was renewed or was interrupted without an answer.
LiveTurnHoldsSession ==
    \A c \in turns :
        /\ cycles[c].state \in {"intent", "ambiguous"}
        /\ \A e \in Cycle :
            Session(e) = Session(c) /\ e # c => cycles[e].state \in {"completed", "stopped"}

\* A cycle never submits more than it was approved for, whatever crashed or
\* was retried: one inference, one provider call, max_effects native calls.
SubmissionsWithinCycle ==
    \A c \in Cycle, kind \in Kinds :
        Cardinality({op \in sent : op.cycle = c /\ op.kind = kind}) <= Limit(c, kind)

\* Provider calls that left the host on behalf of the drafts bound to an account.
Called(a) ==
    {c \in Cycle :
        /\ Session(c) \in Strict \cup Selected
        /\ a \in Funding[cycles[c].draft].accounts
        /\ \E op \in sent : op.cycle = c /\ op.kind = "provider"}

Owed(c) ==
    IF c \in DOMAIN charges /\ charges[c] # None THEN charges[c] ELSE Funding[cycles[c].draft].charge

\* For the controllers that require funding, the calls that really left never
\* exceed the number of calls, the total charge or the concurrency that was
\* signed for a shared account, over all instructions, renewals and crashes.
BudgetConserved ==
    \A a \in plan.accounts :
        LET called == Called(a) IN
        /\ called \subseteq DOMAIN charges
        /\ Cardinality(called) <= Ceiling[a].calls
        /\ Cardinality(called \cap turns) <= Ceiling[a].active
        /\ SumFunction([c \in called |-> Owed(c)]) <= Ceiling[a].charge

\* cancel_active answers "stopped" only when no process of the revision lives,
\* and none is started later.
StoppedMeansStopped ==
    \A d \in stopped : \A c \in turns : cycles[c].draft # d

\* Bytes leave only under authority that holds at that moment: an active
\* instruction, a cycle that is neither ambiguous nor over, a trusted clock
\* before the deadline, and funding that is neither paused nor in doubt. The
\* first transaction of dispatch saw all this too; much happens in between.
SubmittedUnderAuthority ==
    [][\A op \in sent' \ sent :
        LET d == cycles[op.cycle].draft IN
        /\ instr[d].state = "active" /\ cycles[op.cycle].state = "intent"
        /\ Now /\ wall < cycles[op.cycle].deadline
        /\ d \in funded => \A a \in Funding[d].accounts :
            ~account[a].paused /\ (op.kind = "provider" => ~Uncertain(a))]_vars

\* Renewal moves forward: the active revision of an instruction is the only
\* one, and no revision that was in force before it is later. (A later
\* proposal may have been cancelled before it was ever approved.)
LatestRevisionRules ==
    \A d \in {x \in Drafts : instr[x].state = "active"} :
        \A e \in {x \in Decided(d) \ {d} : instr[x].state # "cancelled"} :
            Terms[e].rev < Terms[d].rev /\ instr[e].state # "active"

\* A queued message is worked on by at most one cycle, the one it names, and
\* the backlog of an episode stays within its policy.
WorkIsDoneOnce ==
    /\ \A w \in Work : work[w].state = "intent" <=> work[w].cycle # None
    /\ \A w, x \in Work : work[w].cycle # None /\ work[w].cycle = work[x].cycle => w = x
    /\ \A w \in Work : work[w].cycle # None => cycles[work[w].cycle].draft = Request[w].draft
    /\ \A a \in DOMAIN policies :
        /\ Cardinality(OfEpisode(a)) <= Policy[a].requests
        /\ Cardinality({w \in OfEpisode(a) :
                \/ work[w].state = "queued"
                \/ work[w].cycle # None /\ cycles[work[w].cycle].state \notin Terminal})
             <= Policy[a].pending

\* Turns: a live turn holds its session alone, submits within its cycle, and a
\* turn that was recorded as stopped submits nothing more.
TurnsAreBounded ==
    TypeOK /\ LiveTurnHoldsSession /\ SubmissionsWithinCycle /\ StoppedMeansStopped

\* Accounts and instructions: what is spent and reserved stays under every
\* ceiling, the latest revision rules, and a piece of work is done once.
SpendingIsAccounted == BudgetConserved /\ LatestRevisionRules /\ WorkIsDoneOnce
=============================================================================
