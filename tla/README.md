# Daimon Matrix: TLA+ verification

Daimon Matrix gives one being several *bodies*. Each body is a daemon over one
SQLite ledger of signed, causally ordered events. Bodies of one being pull events
from each other; beings send each other messages; whatever leaves a being through a
native channel must first be visible in a Telegram echo; operators change keys,
permissions and schemas with commands that may be interrupted anywhere. This
directory holds TLA+ modules of the parts that carry those guarantees, TLC
configurations that check them on small instances, and TLAPS proofs of the guarantees
that matter most. `ledger.py` stands for `src/daimon_matrix/ledger.py`, and so on.

`PROJECT.json` maps every definition to the lines it models and lists components,
hazards, runs and theorems. Definitions whose comment begins with `Mutant:` or
`Fault:` are wrong variants of the definition beside them. No specification uses
one; each shows, put in place of the right one, that some property notices.

## 1. The system and its modules

| Part | Module | State | Hard behaviour |
| --- | --- | --- | --- |
| Weave ledger and sync (`ledger.py`, `sync.py`) | `WeaveSync` | events, known status, sparse evidence, two feeds, cursors, sync journals | events before their causes, forks of one origin, pages late, twice and in any order, a preview and an ingest in two transactions |
| Hosted service and projections (`service.py`, `local_api.py`, `projections.py`) | `HostedWeave` | request journal, authoring journal | decision chains that fork or loop, exact retries, copies served at once, a crash between effect and answer |
| Curator queue (`curator.py`) | `Curator` | items, claims, results, operations | clocks read before the write lock, an external fence |
| Echo and native egress (`mandatory_echo.py`, `native_egress.py`, `telegram_mirror.py`) | `Egress`, `Readers`, `Catalogs` | echo transcripts, releases, locks, reader selection, catalogs | requests that may or may not have been posted, two locks, commands killed between catalogs |
| Execution (`execution_store.py`, `review_runner.py`, `codex_review.py`) | `Execution` | instructions, cycles, operations, accounts, work | dispatch in two transactions around a submission, shared budgets, a clock that goes back |
| Sibling lane (`peer_transport.py`, `we_messaging.py`) | `WeLane`, refines `HeardOnce` | exchanges, claims, prepared responses, sealed payloads | leases that run out under a worker, lost answers, renewed carriers |
| Sealed delivery (`sealed.py`) | `Sealing` | deliveries and their envelopes | audience that changes while a delivery is sealed |
| Logical communication and routes (`communication.py`, `routes.py`) | `Communication`, `Routes` (EXTENDS it) | messages, legs, receipts, leases, the anchor and its journal, inboxes | crashes inside a commit, competing receipts, pages over a changing table, fallback while a request is in flight |
| Peer messaging (`messaging.py`, `messaging_store.py`) | `PeerMessaging` | sends, carriers, evidence, grants, admissions | carriers renewed with their fate unknown, revocation on the wire |
| Tribe conversation (`tribe_conversation.py`, `messaging.py`) | `TribeLane` | frozen audiences, obligations, recoveries, receipts | recovery of an original that may still be sent, departures, restarts |
| Relationships and scopes (`relationships.py`, `relationship_store.py`, `scopes.py`) | `Relationships`, `Scopes` | cards, grants, revocations, tribes, pages, scope answers | statements in any order, forks, revocation and use |
| Identity (`identity.py`, `authority_epochs.py`, `operator_rebirth.py`, `birth.py`) | `Rebirth`, `Birth` | control chains, epochs, enrolments, offers | two quorums on one base, recovery of a fork, late enrolment |
| Species, sources, publication | `Species`, `Sources`, `Publication` | releases, pointer, pulls, reviews, provider effects | forked releases, switches cut between two files, resumed pulls, receipts lost |
| Memory (`collective_memory.py`, `memory_projection.py`, `owner_sync/native_reconcile.py`) | `CollectiveMemory`, `MemoryProjection`, `NativeSync` | generations, journals, pools | prepare and apply in two steps, an external store |
| Human review, curator worker, human tribu | `HumanReview`, `CuratorWork`, `HumanTribu` | requests, decisions, attempts, chat updates, replies | plans that go stale after review, calls cut, edits while answering |
| Bodies (`codex_body.py`, `hermes_body.py`) | `CodexBody`, `HermesBody` | handles, intents, results, supervisors | sessions lost between input and result, two supervisors |
| Operator commands | `Migration`, `Application`, `RuntimeUpgrade`, `StoreUpgrade`, `Catalogs` | files, journals, floors | kills and power failures between two file operations |

The service is called by clients over a local socket and calls the ledger, the
curator and the sync engine. `pull` asks a peer's `serve` over the peer transport and
ingests the answer. Conversations put single events of another body into the ledger as
evidence, without their chain; sync later brings the chain. `_decide` and
`_projection_receipt` act on the projection of known events. Messaging calls egress
before it lets native bytes go, and the daemon's worker thread drives egress.

One SQLite transaction, or one file operation where files are the store, is one step.
Signatures and hashes are equality of records. There are no network variables where a
journal makes requests durable: a page or an envelope is late, repeated or lost by when
and whether the step that takes it happens. Crashes lose the threads and keep the
tables; in `Migration` a power failure also loses what was not synced.

### Notes on the proved modules

*WeaveSync.* `validated` holds pages between the preview of `pull` and its ingest, the
one place where threads of a body meet with something read earlier; `refused` records
the errors of `pull`. A body's `Origin` is the incarnation it signs as; two bodies with
one `Origin` are a cloned credential or a restored backup. `Author` is `append_local`
and `append_local_idempotent`, `RetainEvidence` and its conflict actions
`retain_conversation_evidence`, `FreezePage`/`ServeForkedHead`/`ServeReusedId`
`delta_idempotent` behind `serve`, and the `Ingest*` actions the outcomes of
`ingest_idempotent`; an insertion includes `_promote` to its fixpoint and both feeds.

*HostedWeave.* A thread runs `handle`: `Begin` journals the request or joins an
unfinished one, `BeginConflict` meets one id with other bytes, `Replay` a stored answer;
then the method, then `Finish`. `we.decide` reads in one step and authors in another;
`we.projection.receipt` reads, asks the observer, looks for a receipt of the same
effect, and appends only if the state is the one it read (`UnchangedSince`).

*Routes.* An inbox row's place is `<<host, delivery>>`: the direct routes lead to the
recipient's inbox, the hub's to one of its own, and each host finalizes, answers, leases,
acknowledges and compacts in its own. A hub has no validator and answers "hub-accepted";
the recipient's validator may refuse and its answer is "recipient-intake". `Forward` is
the reader of the hub's inbox that carries the bytes on under the same delivery; the
code that does it is outside `routes.py` (`synthetic_relationships.py`, `_Journey.run`),
so nothing says that it happens.

*Curator.* An operation reads the clock (`Arrive`), reads its rows and asks the verifier
(`*Ready`), and commits. `Refuse` covers every error return; `Tick` and `MoveFence` are
the environment.

## 2. Runs

Components that do not share state are checked by one run, one component per behaviour:
`MCComponents` holds an INSTANCE per component over the shared variables `v1..v15`, and
`which` names the one a behaviour is about. Their properties are conjunctions over the
components of a theme.

| Run (distinct states) | Instance | Shows |
| --- | --- | --- |
| `weave_relay` | three bodies with own keys in a chain, one event per page, three request ids | knowledge closed and authentic, feeds, agreement, history and positions kept |
| `weave_clone` | two bodies with one credential, a third that pulls from both and reuses a request id | one ledger never mixes branches, chains whole, frozen pages serveable, no false gap, a last receipt covers the offer |
| `hosted_rpc` (865 k) | two threads, five requests, one reused id, an adoption and its revert against a receipt; one trouble | one effect, one answer, true answers, receipts only on the effective adoption |
| `curator_queue` (1.2 M) | two items on one resource, two threads, nine requests, a moving fence, a crash | leases, results, exclusion, retries, monotony |
| `execution_cycles` | seven scenarios: renewal, native effects, clock going back, shared accounts, last slot, pause and crash, queue | live turns hold their session, submissions and charges within what was signed, authority at the moment of submission |
| `we_lane` | conversations of two threads, two siblings, reused request id, three exchanges | refinement of `HeardOnce`, one receipt, one byte string per envelope id; every call and exchange ends |
| `routes_carry` (431 k) | nine scenarios of store, routes and the inboxes of the recipient and of a hub | a crash is no rollback, consumed is settled, no winner by arrival, no inbox takes bytes in twice; what is acknowledged is in the inbox it was sent to |
| `peer_messaging` (1.8 M) | two calls, three grants, carriers that expire, one fault | what is recorded as taken in is held, evidence first, one complete carrier, one message |
| `tribe_lane` (136 k) | rescue, faulty, crowded, refusing and leaving scenarios | one carrier on the wire per message, receipts show the first observation, obligations end |
| `records` (1.7 M) | six parts that beings or hosts agree on, eighteen instances of the journals of one host | see the comments of the eleven properties in `MCComponents`; the chain walk against its reference over every pointer and order of four decisions |
| `importers` (violation) | two importers of collective memory | the active head is not always the last accepted generation (section 5, *Memory*) |
| `ceremonies` (61 k, fair) | `Migration`, `Application`, `StoreUpgrade`, `Catalogs`, `HostedWeave` and `Egress` | commands repeated after kills come to their end, journalled requests are answered, echoes come to a decision, nothing is discarded |

Why the bounds are enough. In `weave_relay` the incarnation of the middle body sorts
before that of the first, so a page of one event carries the child before its parent
and promotion must wait; a third body and two open requests are the least with which
pages arrive out of order and through a relay; a batch of conversation evidence
holds two events in either order. In `weave_clone` the clones author
different events at one position, the least fork there is, and it reaches a ledger by
sync, by evidence and by a local append. Two threads suffice for the service, the
curator, the lanes and the journals of a host because every hazard listed is a race of
two operations over one row; the third generation of an item or a carrier repeats the
second. In `hosted_rpc` one trouble is allowed (a crash, an event of another body or a
late request), and none beside the two requests in `Calm`, whose races need none.
Three attempts of an echo are the least with which a command about attempt one
can be misused for a later one; the code allows four. One or two crashes reach every
point between two transactions, since a crash may come after any step. In the runs that
are made of plans, each plan enumerates the arrivals of one race, and all orders of
them are explored. `Max*`, `Quota` and `Versions` only cap counters, except `MaxEvidence`,
`MaxBatch`, `MaxLease`, `MaxAttempts`, `MaxRecords`, `Capacity` and slots, which are limits of the
code, scaled down. The bounded counters let a behaviour end, so most instances do not
check deadlock; the two weave instances do. Symmetry of threads and of reply requests is used in safety runs
only.

## 3. Fairness

`WeaveSync`, `Curator`, `Execution`, `Routes` and `PeerMessaging` state none: no peer or client is
obliged to come back and nothing live is claimed.

`WeLane!FairSpec`: threads and workers run on, since SQLite waits are bounded and an HTTP
exchange has a timeout. Nobody has to call `converse`, hosts need not crash.

`TribeLane!FairSpec`: time passes, a running handler goes on, and both sides reconcile
what they retained again and again. Reconciliation is a command of the operator
(`operator_messaging.py`), so this part is an assumption about him and not about the code.

`MCComponents!FairSpec`: `GoesOn(n)` (weak) is what a running ceremony, thread or
process does next; `Repeats(n)` (strong) is what whoever was cut off does again: the
operator his command, the client the signed bytes it keeps for that, the daemon's
worker loop its visit to every echo it can reach. Kills, crashes and losses are
bounded, nothing is assumed of Telegram or the owner. A behaviour is about one
component, so the n-th conditions of all of them share a conjunct.

## 4. Proofs

All theorems hold for every value of the constants that satisfies the `ASSUME`s of the
modules: any number of bodies, origins, peers, threads, requests, items, carriers, any
deadlines and limits. The assumptions type the constants and say that `None` is not a
value of a table. Nothing is assumed of keys: the ledger theorems hold with cloned
credentials, and only `HonestBodiesAgree` asks that no two bodies share an origin. Each
inductive invariant was an invariant of the component's run before it was proved.

| Theorem | Says of every instance |
| --- | --- |
| `LedgersStayWellFormed`, `KnowledgeStaysSound` | one ledger never mixes branches, its known rows are the causally complete ones and authentic, cursors are honest |
| `HonestBodiesAgree` | bodies with keys of their own never hold different events under one id |
| `ReadersStayServed` | the known feed lists exactly what is known, once, causes first; every entry of the conversation feed resolves to one body |
| `HistoryStaysKept` (with `HistoryIsDurable`, `NothingIsTakenBack`) | no step removes an event, demotes a known one, changes a journalled page, moves a cursor back or changes a feed except at its end |
| `PullsStaySound` | no false gap in a page, frozen pages can be served again, the last receipt covers the offer, an alarm has a cause |
| `RequestsGetOneAnswer`, `ReceiptsRestOnAdoption` | one effect and one true answer per request; a new receipt of an effect rests on the adoption in force |
| `ChainIsTheListing` | any finite set of decisions is accepted exactly when it can be listed as one chain without a fork; the walk is that listing |
| `WorkStaysExclusive`, `ItemsOnlyAdvance` | leases of one resource are disjoint, results final, claims monotone |
| `LaneStaysInAgreement`, `LaneHearsOnceForGood` | the /we lane's tables agree; the lane implements `HeardOnce`, and answers stay |
| `TurnsStayBounded`, `SubmissionsAreAuthorized` | a live turn holds its session alone and within its cycle's limits, "stopped" is true; nothing leaves without authority at that moment |
| `SpendingStaysAccounted` | no shared account is overdrawn in calls, charge or concurrency; the latest revision rules; queued work is done once |
| `SendsStaySound`, `SendOutcomesStay` | what a sender recorded is true of the recipient, one carrier of a send completes, a renewal carries the same message; outcomes are final |
| `LegOutcomesAreFinal`, `DeliveryStaysSound` | a leg's outcome stays or is quarantined; pages leave no gap, leases exclude each other at the sender and in every inbox, no inbox takes bytes in twice, the recipient's holds only what its validator admits, and an acknowledged attempt's bytes are in the inbox it was sent to, which is the recipient's exactly after "recipient-intake" |
| `StoreStaysSound` | the communication store's tables verify, a crash at any point of a commit leaves files the next start settles, nothing a consumer passed is open or in dispute, and competing receipts quarantine their leg |
| `ObligationsStaySound`, `DepartedGetNoRecovery` | a group message is carried once, receipts and ends are true, no side exceeds its room; no recovery reaches an audience somebody left |

*WeaveSync.* `TypeCorrect` is inductive by itself. `LedgerInv` = `TypeOK` /\
`LedgerConsistent` /\ `KnownIsClosure` /\ `ChainIntact` /\ `CursorHonest` is needed
because a page is planned against the rows of the moment: that it can be inserted
without breaking a chain rests on the chain being whole and free of conflict, and a
cursor is honest only if the page that moved it was inserted entirely.
`PromoteIsClosure` shows that the promotion fixpoint yields exactly the causally
complete rows, for any causal graph. `HistoryIsDurable` is an action property from the
same invariant. `AgreementInv` adds `Authentic`: every event anywhere is one its
signer stored under its own position, and since signers never drop rows it stays so;
agreement of honest bodies follows.

`PullInv` = `AgreementInv` /\ `TablesFinite` /\ `RequestsOwn` /\ `PagesFrozen` /\
`PagesAnswer` carries the pulls: what a page was when it was frozen is related to the
server's rows of now and to the request it answers, since the ingest looks at it much
later. That a chain without holes reaches its head, and that a page's first missing row
is preceded by a row the reader has, are statements about every number below a bound;
they are proved with least counterexamples (`LeastNat`, `SmallestSet`: a finite nonempty
family has a smallest member, from the well-foundedness theorems that take no operator
parameter) in place of an induction. The proof found the masked fork that section 5 lists.

`FeedsOK` carries the feeds: for each body `FeedHolds` relates both feeds, the known set,
the evidence and the rows. `InsertIsTold` is its heart: what the triggers append during
an insertion and the promotion rounds after it is `Resolvable` (each id once, none known
before, each after all its row depends on) and is exactly what the fixpoint `Promote`
adds. That nothing is left over rests on a count: a round that finds a row appends at
least one id, ids do not repeat, and there are as many rounds as rows (`BecameKnownIs`).
The three folds of the model are unfolded into their steps first: `FoldExists` builds
the function `FoldLeft` chooses, for any length, and `*Steps` read it off; `Rising`
replaces the induction. `InOrderLists` shows that a table without rival rows is listed
row by row. `SortSeq` and `SelectSeq` are opaque to the prover, so listings are
stated by rank and the ignored insert as a fold.

*HostedWeave.* `BaseInv` adds to the types that the request of a running thread is
journalled under its key. `HistoryInv` adds `StageInv` (what a thread found when it
read the ledger is still true of the prefix it read), `OperationInv` (the authoring
journal and the history name each other) and `EffectUnique` (no effect has two
receipts). Uniqueness of a receipt is not inductive without `StageInv`: it is the
lookup of an earlier step, together with the unchanged state, that excludes a second
one. `AnswerInv` says that a thread about to answer holds a true answer and that what
was sent is what is journalled. `ChainIsTheListing` is about the decision chain alone:
the run compares the walk with every listing of at most four decisions, the theorem with
every listing of any finite set, provided that `None` is not a decision. `WalkSteps`
unfolds the walk into as many steps as there are decisions (the fold picks elements it
then ignores, so its value depends on their number only); a linked chain never returns
to a decision, because its root has no predecessor (`LinkedOnce`).

*Curator.* `BaseInv` = `TypeOK` /\ `Held` /\ `Rooted`: what a thread read stays, and a
claim is on an item that exists. `QueueInv` adds that the item's row names the claim
with the highest generation, that every other claim of the item is over when a later
one was issued, and that an item is terminal exactly when it has a result, which is
from the current claim. `LeasesDisjoint` alone is not inductive: the new claim must be
known to be compared with the latest lease, and that the row's claim is the latest is
what `CurrentClaim` says. `AnswerInv` carries retries.

*WeLane.* In `LaneInv` a thread's place says what its call has stored so far; the
carriers of a request and a sibling are numbered from one, hold the one sealed payload,
and none was issued before its predecessor was over; an exchange carries a stored
carrier, and its answer, like every kept response and every receipt the author holds, is
the instant in the sibling's ledger. One carrier per envelope and one byte string per
envelope follow, and so does the refinement: with `heard` the sibling's receipts and
`known` the author's kept ones, only `AuthorReceipt` maps to `Hear` and only the
author's `Receive` to `Learn`; every other step stutters.

*Execution.* `ExecInv` adds to `TypeOK` that the calls of a cycle are numbered without
repetition and the cycles of a session exclude each other (`JournalOK`), that what is
under submission has not left (`DispatchOK`), and that the inference of a cycle is begun
once and its turn is over before the runner calls it settled (`RunnerOK`): a cycle ends
only where its worker has reaped the process, and that is what keeps `LiveTurnHoldsSession`
and the answer "stopped" true. `WhoWrites` says once which action writes which table;
every later lemma names only the writers of its own. `SpendInv` carries the accounts. The
property speaks of calls that left, the code decides over rows of `call_charges`: the
rows are under every ceiling (`CeilingsHold`), and every paid call of a session that
requires funding has its row (`BooksOK`), since such a session reserves only funded
drafts. The sums are `SumFunction` of the community modules; `SumIsSums` shows that its
recursion gives the same sum in every order, by least counterexample, and
`SumMonotone` and `SumOneMore` follow. `LinksOK` and `BacklogOK` carry queued work.

*PeerMessaging.* `PeerInv` = `Shapes` /\ `OutboxOK` /\ `StagesOK` /\ `CallsOK` /\ `WireOK`.
The carriers of a send are numbered without a gap and each was issued after its
predecessor had expired (`OutboxOK`); an outcome of a stage is an answer the recipient
gave, recorded while the carrier lived and hence before it had a successor (`StagesOK`);
a call's place says which rows it has read or written (`CallsOK`); the wire and the
recipient hold only what was sealed (`WireOK`). That only one carrier completes needs all
four: the call that records the second outcome may have started before the first. The
latest generation of a send exists by a least-counterexample argument (`GreatestNat`).

*TribeLane.* `LaneInv` adds to `TypeOK` which records a running call, a worker and an
attempt to return a receipt rest on, that a recovery exists only when its original is
over (`RecoveriesOK`), and `CarriedOnce`. The original is released only before its
deadline and a recovery admitted only after it, so they exclude each other although the
check for attempts and the release are different steps; two recoveries of a message are
both the selected one. That a body may be retired at any time adds nothing to
prove: what was admitted and signed before stays. Capacities are bounds on finite sets that grow by one
(`OneMore`, `NoMore`).

*Communication and Routes.* The outcomes of legs need only `BoundsOK`: legs are numbered
up to `highwater` and new ones after it, so that `LegsMove`, what every step makes of the
legs, has one case per operation. `DeliveryInv` adds the pages and claims of the sender
(`PagesOK`, `ClaimsOK`), the rows, answers and leases of the inboxes and what the
recipient's validator admitted (`RecipientInv`, `IntakeOK`),
the connections (`WireOK`, `TakenOK`), the calls (`CallOK`) and the acknowledged attempts
(`AckedOK`). `Rows` joins the inbox and its tombstones: no step changes the bytes, place
or time of a row (`InboxMoves`), which is what carries an accepted answer over the
connection and the crash between the receiving host's transaction and the sender's:
`Where` a request leads is fixed by its route, the row there `Stands`, and so does the
answer (`AnswerStands`, `TakenOK`, then `AckedOK`). A lease is known by its end: two batches that both run and
share a queued row would have to agree on it, but the later one took no row under a lease.
That no page skips a row rests on the least row beyond a cursor (`LeastNatural`). Which
step writes which tables is said once (`StoreWriters`, `CarryWriters`, `StepKinds`). A
commit may crash before, within or after its transaction, and the lemmas say "unless a
crash was counted": a call whose commit is in doubt is gone.
`StoreInv` adds what the store verifies and what makes that verification succeed.
`JournalOK` needs the files only: every step commits once, upgrades, recovers or leaves
the files alone (`StepCommits`). Of the tables, `ValidVector`, `ValidProofs`,
`ValidAttempts` and `ValidConflicts` are inductive with `BindingOK`: a receipt is about one
leg (`OneLeg`), before schema 3 because a recipient then has one leg of a message, and a
dispute takes in every leg its evidence is about (`RivalsAreStruck`, `StrikeKeeps`). A
dispatch can contradict a stored delivery only about an attempt that exists (`CarriedOK`),
and an answer is never the `None` of an open attempt (`AnswersAreSent`,
`AnswerAssumption`). Consumers and the queue hold because a commit is verified before it
is written (`CommitsVerify`); what has to be shown there is the upgrade to schema 2, which
rebuilds the compactions (`LegacyIs`, `UpgradeKeepsQueue`). `PresentedOK` says of every
receipt that was answered why its leg is settled. It is there when the answer is given
(`AnswerDecides`: the first receipt is never refused, `FirstIsTaken`, and a dispute only
where a consumer has passed one of its legs, `RefusedDispute`), and stays
(`DecisionsStick`).

## 5. Observations

Where the code does less than a text of the repository says, or something a reviewer
should know, met while modelling. Properties named here were written, found violated
by TLC, and are not part of the runs, except the one of the run `importers`.

* Weave: a fork of an origin at or below the reader's own position is never offered to
  it, so it raises no alarm there (met in the proof of `PullsStaySound`; it takes more
  callers than `weave_clone` has); a clone with no event of its own pulls its origin's
  lane as a peer's and is told it conflicts once it has authored (`sync_page`). A quarantined lane is set back to coherent by the next accepted page (end of
  `ingest_idempotent`; `specs/weave-protocol.md`). A conflicting page is refused by the
  preview, which records nothing. Two concurrent `we.decide` both pass the predecessor
  check and fork the chain (`service.py`, `_decide`), so `DecisionChainLinear` is
  checked with one worker. After a crash between append and answer a decision's retry is
  answered `decision_predecessor_mismatch`. Errors of passing causes are journalled as final.
* Curator: `complete` verifies the fence before its transaction (`curator.py`); the
  Cluster may move it in between (`specs/curator-coordination.md`).
* Egress: `run_worker_batch` ends at the first operation that fails, and one out of
  attempts stays first until its authority ends.
* Execution: a crash loses the cycle's capability and its accounts stay blocked, as
  documented; the Codex runner's journal keeps 'ambiguous' after an interrupt answered
  "stopped".
* Sibling lane: a refusal may follow an effect (`peer_transport.py`, `do_POST`), unlike
  the comment above the client's handling of it.
* Routes: a retry may repeat another request (`docs/dm053-route-providers.md`); conflicts
  are not always retained (`docs/dm052-logical-communication.md`); a schema 1 store
  crashed between anchor and commit stays at `communication_state_rollback`. An attempt
  acknowledged by a hub says nothing of the recipient (`docs/dm053-route-providers.md`), and
  no component of the repository carries hub rows on but a fixture.
* Peer messaging: one send may be heard as two logical messages when a grant changes
  between renewals (`docs/native-agent-messaging.md`); `messaging_evidence_missing` is stored
  as a final refusal.
* Tribe lane: a late transport record without a release blocks recovery for ever; an
  expired recovery cannot be replaced; `reconcile_intake` makes no progress when the
  first admission is larger than its budget. A body that is retired before it has authored a
  receipt keeps its obligation for ever, with the room it takes: `_complete_receipt` asks
  `_operational` before it authors and before it looks at the deadline. `ObligationsEnd`
  excepts exactly that.
* Rebirth: two enrolments on one base fork the manifests (fail closed); a verified cited
  head is not always a sufficient trust anchor for a recovery (`identity.py`).
* Migration: `resume` may answer "completed" with work of a killed predecessor unsynced; a
  journal with two names is refused until `prepare` is run again.
* Species: a late sibling of a resolved fork may win (`specs/species-evolution.md`); a
  second resolution is refused, a repeated genesis resets a quarantine. `PointerIsRecorded`
  is checked with crashes and with failed writes of the event (`Errors <- {"event"}`). With a
  failed write of the pointer it is violated: the operation stays open, and recovery may
  restore an older pointer from it after a later switch (`species.py`, the end of the
  switch and the recovery of pending applications).
* Sources: a withdrawn publication can be served again by a resumed pull
  (`specs/source-ancestry.md`); a crashed pull whose rows changed is refused for ever.
* Publication: a stored receipt need not be accepted (`docs/dm035-publication.md`); a stuck
  request blocks its target.
* Relationships: what a denial ended can come back in two ways, which `DenialsStick` names
  and the stories contain: a fork of whoever signed an acceptance takes that acceptance down
  and another one counts, so that a closed relationship or a revoked grant is in effect again
  (`specs/tribe-relationships.md`, section 4, calls a closure terminal); and a departure is
  forgotten when a succession that arrives late says its epoch had ended (section 7).
* Bodies: `recover_turn` (`codex_body.py`) knows a turn by its position after the recorded
  base and by hash and length of its input. When the model never got an input, or the thread
  lost its turn, a turn somebody typed by hand with the same text is retained as the
  request's result; `docs/codex-0.155.1-body.md` says that foreign history leaves the state
  pending. Foreign turns carry the text of a request in the run, and `InputsAccountedFor`
  excepts exactly these two cases. A crash before the input was sent leaves "turning" for
  ever; a Hermes body cannot start again after any ledger event.
* Memory: `prepare`, the ledger's append and `finalize` are three transactions, so a second
  importer may `recover` the generation of the first and import the next one; the late
  `finalize` of the first then supersedes the new head and activates nothing, since
  `total_changes` counts the superseded row (run `importers`;
  `docs/dm036-collective-memory.md`: "recovery finds the same event and activates once").
  `HeadIsLastAccepted` is checked with one importer; with two, `HeadCanBeRestored`: a
  rebuild makes the last accepted generation the head. An edited import whose origin is
  planned again is refused for ever in that direction.
* Reviews: an execution may be recorded and never receipted (`docs/dm033-human-review.md`);
  stale curator tasks may be sent (`docs/dm032-curator-worker.md`). Mentions: some edits are
  never taken in; a page claimed before an edit still goes out after it, since the source is
  checked when the page is claimed and the page sent outside the lock
  (`docs/runbooks/tribu-human-mentions.md`: edited requests "cannot be answered under an
  old revision"); replies are keyed
  by `request_id` alone, so two reply requests answer one mention twice. The property
  `RepliesGoOnceAndStopAtEdits` says what holds: once per request and page, and no page
  claimed after the edit.
* Ceremonies: an authority that advances while a ceremony is unfinished may leave an
  application that cannot be recovered (`operator_messaging.py`, `recover`; with
  `AdvanceAnytime <- TRUE` `ServesAgain` is violated). Nothing in `adopt_peer_authority` or in
  an enrolment prevents it, so `AdvanceAnytime <- FALSE` is an assumption about the owner and
  `ServesAgain` holds for those orders only. Replayed
  birth acceptances are refused (`specs/birth-first-awakening.md`); duplicate scope answers
  need not converge (`docs/dm054-scope-resolution.md`).

## 6. Not modelled

* Cryptography, canonical encoding, sockets, argument parsing, the agents' sandboxes, the
  Cluster and the providers beyond what the code sees of them.
* Ledger: single-shot `ingest` of rebirth and source replicas, the projection cache, schema
  migration, byte limits. `_set_peer_state` and `_record_equivocation` are folded into the
  transaction they follow. `request` reads and stores in one step.
* Service: capability expiry, the effect horizon, ids supplied by the client, malformed
  parameters, methods that delegate to other components.
* Curator: the actor of a claim, `inspect`, the data of postconditions.
* Egress: back-off and approval windows are flags that end at any time; presentation and the
  diagnostics file are left out.
* Execution: schema migrations, the human front end's challenges, the monotonic clock;
  `CancelActive` may be taken a little more often than the code allows.
* Messaging: forged envelopes, conflict tables, `inspect`, the upgrade of admission versions,
  publication of egress inside the tribe lane, obligations of earlier versions.
* Memory: links, tags, embeddings; a state file shared by concurrent applications.
* The components marked `not_modelled` in `PROJECT.json`, with the reason for each.

## 7. What is left to prove

Only model-checked, and out of the prover's reach: liveness (`EverythingEnds`,
`ObligationsSettle`, `ServesAgain`, `CommandsEnd`, `AnswersCome`).
`ChainMatchesReference` is stated over the instance of its run; `ChainIsTheListing` proves
the same of every finite set of decisions.

Only model-checked so far, in the order in which proofs are worth most: egress (the parts of
`SpeechHolds` about releases), and the other components of `MCComponents`.
