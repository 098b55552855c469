---------------------------- MODULE Communication ----------------------------
(***************************************************************************)
(* The logical communication store (communication.py): one message and one *)
(* leg for every signed target, the receipts that end a leg, the queue of  *)
(* each recipient with its pages, claims, consumers and compaction, and    *)
(* the anchor and journal files that tell a crash from a rollback.         *)
(*                                                                         *)
(* Every operation holds the ledger's storage gate until its files are     *)
(* cleaned up, so an operation is one step unless the process dies in      *)
(* _arm_commit (Commit). Events are taken to be genuine; a leg id is the   *)
(* triple it is derived from, so the alias ids of schema 4 are not seen.   *)
(***************************************************************************)
EXTENDS Naturals, Sequences, FiniteSets

CONSTANTS
    Targets,       \* message |-> its signed targets in order: <<recipient, body>>
    Parent,        \* message |-> the message it replies to, or None
    Receipts,      \* the receipt events that may exist (see Receipt)
    Consumers,     \* consumer ids
    PageIds,       \* request ids of page
    ClaimIds,      \* claim ids
    None,
    Plans          \* bounds: each behaviour keeps to one of these (see Plan)

Messages == DOMAIN Targets
LegsOf(m) == {<<m, t[1], t[2]>> : t \in {Targets[m][i] : i \in DOMAIN Targets[m]}}
Legs == UNION {LegsOf(m) : m \in Messages}
Recipients == {l[2] : l \in Legs}
Bodies == {l[3] : l \in Legs}

TerminalOutcomes == {"delivered", "failed:transport", "expired"}

\* A receipt of the local ledger, or one that a foreign recipient authored at
\* position pos of its own ledger; the latter always says delivered.
Receipt ==
    {rc \in [id: Nat, foreign: BOOLEAN, msg: Messages, rcpt: Recipients, origin: Bodies,
             outcome: TerminalOutcomes, pos: Nat] : rc.foreign => rc.outcome = "delivered"}

\* What a behaviour may use: the persisted schema it starts from, messages,
\* receipts, consumers, ids and leases of pages and claims, the last instant,
\* the number of crashes and of mutations, and the highest schema.
Plan ==
    [schema: 1..3, upto: 1..3, messages: SUBSET Messages, receipts: SUBSET Receipts,
     consumers: SUBSET Consumers, pages: SUBSET PageIds, claims: SUBSET ClaimIds,
     limits: SUBSET (Nat \ {0}), time: Nat, crashes: Nat, ops: Nat]

ASSUME TargetsAssumption ==
    /\ \A m \in Messages : Len(Targets[m]) \in Nat \ {0} /\ DOMAIN Targets[m] = 1..Len(Targets[m])
    /\ Parent \in [Messages -> Messages \cup {None}]
ASSUME BoundsAssumption == Receipts \subseteq Receipt /\ Plans \subseteq Plan
ASSUME NoneAssumption == None \notin Legs \cup Consumers \cup ClaimIds \cup Nat

VARIABLES
    plan,          \* the bounds of this behaviour
    now,           \* the clock
    known,         \* messages and receipts of the local ledger
    db,            \* the communication_* tables
    anchor,        \* the mutation counter of the anchor file
    pending,       \* the journal file, if there is one: the tables before and after
    presented,     \* history: receipts the store has given an answer to
    crashes

store == <<db, anchor, pending, presented, crashes>>
cvars == <<plan, now, known, store>>

Put(f, k, v) == [x \in DOMAIN f \cup {k} |-> IF x = k THEN v ELSE f[x]]
Without(f, S) == [x \in DOMAIN f \ S |-> f[x]]

EmptyStore(schema) ==
    [schema |-> schema, counter |-> 0, highwater |-> 0, messages |-> {},
     legs |-> << >>, queue |-> {}, attempts |-> << >>, egress |-> << >>,
     deliveries |-> << >>, receipts |-> << >>, foreign |-> << >>, conflicts |-> {},
     cursors |-> << >>, pages |-> << >>, batches |-> << >>, claims |-> << >>,
     consumers |-> << >>, compactions |-> << >>]

CInit ==
    /\ plan \in Plans
    /\ now = 0
    /\ known = [messages |-> {}, receipts |-> {}]
    /\ db = EmptyStore(plan.schema)
    /\ anchor = 0 /\ pending = {}
    /\ presented = {} /\ crashes = 0

-----------------------------------------------------------------------------
(* What the store verifies of itself, from schema 2 on. *)

RowsOf(d, r) == {l \in DOMAIN d.legs : l[2] = r}
Prefix(d, r, s) == {l \in RowsOf(d, r) : d.legs[l].seq <= s}
Terminal(d, l) == d.legs[l].state \in TerminalOutcomes
Queued(d, l) == d.legs[l].seq \in d.queue
LastTaken(d, r) == IF r \in DOMAIN d.compactions THEN d.compactions[r] ELSE 0

\* _validate_vector: the rows of a message are its signed targets.
ValidVector(d) ==
    /\ {l[1] : l \in DOMAIN d.legs} \subseteq d.messages
    /\ \A m \in d.messages : {l \in DOMAIN d.legs : l[1] = m} = LegsOf(m)

\* _result: a leg ends with exactly the proof its state and columns name.
ValidProofs(d) ==
    \A l \in DOMAIN d.legs :
        LET row == d.legs[l] IN
        CASE l \in DOMAIN d.foreign ->
               /\ l \notin DOMAIN d.receipts
               /\ row.receipt = d.foreign[l].id
               /\ row.state \in {"delivered", "quarantined"}
          [] l \in DOMAIN d.receipts \ DOMAIN d.foreign ->
               /\ row.receipt = d.receipts[l].id
               /\ row.state \in {d.receipts[l].outcome, "quarantined"}
          [] OTHER -> row.receipt = None /\ ~Terminal(d, l)

ValidAttempts(d) ==
    \A a \in DOMAIN d.attempts : d.attempts[a].state = "accepted" <=> d.attempts[a].ack = None

\* _validate_consumer_position
Consumable(d, r, s) ==
    /\ \E l \in RowsOf(d, r) : d.legs[l].seq = s
    /\ \A l \in Prefix(d, r, s) : Terminal(d, l)

ValidConsumers(d) ==
    \A k \in DOMAIN d.consumers :
        d.consumers[k] <= d.highwater /\ Consumable(d, k[1], d.consumers[k])

\* _validate_queue: only a terminal, compacted prefix is missing.
ValidQueue(d) ==
    /\ \A r \in DOMAIN d.compactions :
           /\ d.compactions[r] <= d.highwater
           /\ \A l \in Prefix(d, r, d.compactions[r]) : Terminal(d, l) /\ ~Queued(d, l)
    /\ \A l \in DOMAIN d.legs :
           Queued(d, l) \/ (Terminal(d, l) /\ d.legs[l].seq <= LastTaken(d, l[2]))

\* The leg a receipt is about.  Before schema 3 a recipient has one leg and a
\* local receipt finds it whoever authored it.
Bound(d, rc) ==
    {l \in DOMAIN d.legs :
        /\ l[1] = rc.msg /\ l[2] = rc.rcpt
        /\ (rc.foreign \/ d.schema >= 3 \/ rc.outcome = "delivered") => l[3] = rc.origin}

ValidConflicts(d) ==
    \A c \in d.conflicts :
        /\ d.legs[c.leg].state = "quarantined"
        /\ \A rc \in c.receipts : \A l \in Bound(d, rc) : d.legs[l].state = "quarantined"
        /\ \A a \in c.attempts :
               a \in DOMAIN d.attempts /\ d.legs[a.leg].state = "quarantined"

Valid(d) ==
    d.schema >= 2 =>
        /\ ValidVector(d) /\ ValidProofs(d) /\ ValidAttempts(d)
        /\ ValidConsumers(d) /\ ValidQueue(d) /\ ValidConflicts(d)

-----------------------------------------------------------------------------
(* _arm_commit and initialize. *)

\* Every operation begins with initialize: there is no journal left and the
\* anchor agrees with the tables.
Initialized == pending = {} /\ anchor = db.counter
Begin == Initialized /\ Valid(db) /\ db.counter < plan.ops

\* _arm_commit verifies the tables it is about to commit.
Verifies(next) == Valid(next)

\* Mutant: the anchor moves before the journal is written.
CommitAnchorFirst(next) ==
    LET after == [next EXCEPT !.counter = @ + 1] IN
    /\ Verifies(next)
    /\ \/ /\ db' = after /\ anchor' = after.counter
          /\ UNCHANGED <<pending, crashes>>
       \/ /\ crashes < plan.crashes /\ crashes' = crashes + 1
          /\ anchor' = after.counter
          /\ \/ db' = db /\ UNCHANGED pending
             \/ db' \in {db, after} /\ pending' = {[before |-> db, after |-> after]}

\* The tables are verified once more; journal, anchor, tables and the removal
\* of the journal follow in this order, and the process may die between any
\* two.  Schema 1 has no journal.
Commit(next) ==
    LET after == [next EXCEPT !.counter = @ + 1] IN
    /\ Verifies(next)
    /\ \/ /\ db' = after /\ anchor' = after.counter
          /\ UNCHANGED <<pending, crashes>>
       \/ /\ crashes < plan.crashes /\ crashes' = crashes + 1
          /\ \/ db.schema = 1 /\ anchor' = after.counter /\ UNCHANGED <<db, pending>>
             \/ /\ db.schema >= 2
                /\ pending' = {[before |-> db, after |-> after]}
                /\ \/ UNCHANGED <<db, anchor>>
                   \/ anchor' = after.counter /\ db' \in {db, after}

\* An operation that has nothing to say about receipts.
Mutate(next) == Commit(next) /\ UNCHANGED <<plan, now, known, presented>>

\* _recover_pending: the tables must be the ones before or after.
Recoverable ==
    \E j \in pending :
        /\ anchor \in {j.before.counter, j.after.counter}
        /\ db \in {j.before, j.after}

\* Mutant: recovery goes back to the tables before the mutation.
RecoverBefore ==
    /\ Recoverable
    /\ \E j \in pending : db' = j.before /\ anchor' = j.before.counter
    /\ pending' = {}
    /\ UNCHANGED <<plan, now, known, presented, crashes>>

Recover ==
    /\ Recoverable
    /\ anchor' = db.counter
    /\ pending' = {}
    /\ UNCHANGED <<plan, now, known, db, presented, crashes>>

-----------------------------------------------------------------------------
(* The ledger and the clock. *)

Tick ==
    /\ now < plan.time
    /\ now' = now + 1
    /\ UNCHANGED <<plan, known, store>>

LearnMessage(m) ==
    /\ m \in plan.messages \ known.messages
    /\ known' = [known EXCEPT !.messages = @ \cup {m}]
    /\ UNCHANGED <<plan, now, store>>

LearnReceipt(rc) ==
    /\ rc \in plan.receipts \ known.receipts /\ ~rc.foreign
    /\ rc.msg \in known.messages
    /\ known' = [known EXCEPT !.receipts = @ \cup {rc}]
    /\ UNCHANGED <<plan, now, store>>

-----------------------------------------------------------------------------
(* Messages and receipts. *)

\* accept: one queued leg per target, in order.  Before schema 3 a recipient
\* may be named once.
Accept(m) ==
    LET legs == [i \in DOMAIN Targets[m] |-> <<m, Targets[m][i][1], Targets[m][i][2]>>]
        seqs == [l \in LegsOf(m) |->
                    db.highwater + (CHOOSE i \in DOMAIN legs : legs[i] = l)]
    IN
    /\ Begin
    /\ m \in known.messages \ db.messages
    /\ Parent[m] # None => Parent[m] \in db.messages
    /\ db.schema < 3 => Cardinality({l[2] : l \in LegsOf(m)}) = Len(Targets[m])
    /\ Mutate([db EXCEPT
          !.messages = @ \cup {m},
          !.highwater = @ + Len(legs),
          !.legs = [l \in DOMAIN @ \cup LegsOf(m) |->
                       IF l \in DOMAIN @ THEN @[l]
                       ELSE [seq |-> seqs[l], state |-> "accepted", receipt |-> None]],
          !.queue = @ \cup {seqs[l] : l \in LegsOf(m)}])

\* _quarantine, with the evidence that contradicts itself.
Quarantined(d, legs, receipts, attempts) ==
    [d EXCEPT
        !.conflicts = @ \cup {[leg |-> l, receipts |-> receipts, attempts |-> attempts] :
                                 l \in legs},
        !.legs = [l \in DOMAIN @ |->
                     IF l \in legs THEN [@[l] EXCEPT !.state = "quarantined"] ELSE @[l]]]

Ended(d, l, rc) ==
    [d EXCEPT !.legs[l].state = rc.outcome, !.legs[l].receipt = rc.id,
              !.receipts = IF rc.foreign THEN @ ELSE Put(@, l, rc),
              !.foreign = IF rc.foreign THEN Put(@, l, rc) ELSE @]

\* What the receipt is compared with: rows of its leg, and for a foreign one
\* also rows with its event id or its position.
Rivals(d, l, rc) ==
    {d.foreign[k] : k \in {k \in DOMAIN d.foreign :
        \/ k = l
        \/ rc.foreign /\ (d.foreign[k].id = rc.id \/ d.foreign[k].pos = rc.pos)}}
    \cup {d.receipts[k] : k \in DOMAIN d.receipts \cap {l}}

\* record_receipt and _record_foreign_receipt: the first receipt ends the leg,
\* the same one again changes nothing, another one quarantines every leg it
\* contradicts.
Judge(d, l, rc) ==
    LET rivals == Rivals(d, l, rc)
        struck == {l} \cup {k \in DOMAIN d.foreign : rc.foreign /\ d.foreign[k] \in rivals}
    IN
    CASE rivals = {rc} -> d
      [] rivals # {} /\ rivals # {rc} -> Quarantined(d, struck, rivals \cup {rc}, {})
      [] OTHER -> IF d.legs[l].state = "accepted" THEN Ended(d, l, rc) ELSE d

\* _validate_foreign_receipt: a receipt of another ledger is about a message
\* this ledger knows.
Admissible(rc) ==
    IF rc.foreign THEN rc \in plan.receipts /\ db.schema >= 2 /\ rc.msg \in known.messages
    ELSE rc \in known.receipts

\* The store answers unless the process dies; when the tables it would write
\* do not verify it rolls back and answers with that error.
RecordReceipt(rc) ==
    /\ Begin
    /\ Admissible(rc) /\ rc \notin presented
    /\ \E l \in Bound(db, rc) :
          LET next == Judge(db, l, rc) IN
          IF next = db \/ ~Verifies(next)
          THEN presented' = presented \cup {rc} /\ UNCHANGED <<db, anchor, pending, crashes>>
          ELSE /\ Commit(next)
               /\ presented' = IF crashes' > crashes THEN presented ELSE presented \cup {rc}
    /\ UNCHANGED <<plan, now, known>>

-----------------------------------------------------------------------------
(* The queue of a recipient. *)

\* The first n of a set of sequences.
First(S, n) == {s \in S : Cardinality({t \in S : t < s}) < n}
Last(S) == CHOOSE s \in S : \A t \in S : t <= s
SeqsOf(d, r) == {d.legs[l].seq : l \in RowsOf(d, r)}

\* Where a page begins and where its snapshot ends.
PageFrom(token) ==
    IF token = None THEN [last |-> 0, cutoff |-> db.highwater] ELSE db.cursors[token]

\* page: a request id freezes its answer; a full page leaves a cursor.
Page(r, c, q, token, limit) ==
    LET from == PageFrom(token)
        rows == {s \in SeqsOf(db, r) \cap db.queue : from.last < s /\ s <= from.cutoff}
        items == First(rows, limit)
        next == Cardinality(DOMAIN db.cursors) + 1
        more == items # rows
    IN
    /\ Begin
    /\ <<c, q>> \notin DOMAIN db.pages
    /\ token # None => db.cursors[token].rcpt = r /\ db.cursors[token].consumer = c
    /\ Mutate([db EXCEPT
          !.cursors = IF more
                      THEN Put(@, next, [rcpt |-> r, consumer |-> c, cutoff |-> from.cutoff,
                                         last |-> Last(items)])
                      ELSE @,
          !.pages = Put(@, <<c, q>>,
              [rcpt |-> r, from |-> token, items |-> items,
               cutoff |-> from.cutoff, next |-> IF more THEN next ELSE None])])

\* advance_consumer
Advance(r, c, s) ==
    /\ Begin
    /\ s <= db.highwater
    /\ <<r, c>> \in DOMAIN db.consumers => db.consumers[<<r, c>>] < s
    /\ Consumable(db, r, s)
    /\ Mutate([db EXCEPT !.consumers = Put(@, <<r, c>>, s)])

\* Rows a claim may lease: accepted and under no lease at t.
Claimable(r, t) ==
    {s \in {db.legs[l].seq : l \in {l \in RowsOf(db, r) :
                Queued(db, l) /\ db.legs[l].state = "accepted"}} :
        s \in DOMAIN db.claims => db.claims[s].until <= t}

\* claim reads the clock before it waits for the gate: t may have passed.
Claim(r, c, k, limit, until, t) ==
    LET items == First(Claimable(r, t), limit) IN
    /\ Begin
    /\ k \notin DOMAIN db.batches
    /\ t < until
    /\ Mutate([db EXCEPT
          !.batches = Put(@, k, [consumer |-> c, items |-> items, until |-> until]),
          !.claims = [s \in DOMAIN @ \cup items |->
                         IF s \in items /\ (s \in DOMAIN @ => @[s].until <= t)
                         THEN [claim |-> k, until |-> until] ELSE @[s]]])

\* compact: nothing a registered consumer has still to read.
Compact(r, s) ==
    LET readers == {k \in DOMAIN db.consumers : k[1] = r}
        gone == {db.legs[l].seq : l \in Prefix(db, r, s)}
    IN
    /\ Begin
    /\ readers # {} /\ \A k \in readers : db.consumers[k] >= s
    /\ \A l \in Prefix(db, r, s) : Terminal(db, l)
    /\ Mutate([db EXCEPT
          !.queue = @ \ gone,
          !.claims = Without(@, gone),
          !.compactions = IF db.schema = 1 THEN @
                          ELSE Put(@, r, IF LastTaken(db, r) > s THEN LastTaken(db, r) ELSE s)])

-----------------------------------------------------------------------------
(* Schema successors, run offline. *)

\* _migrate_legacy_compactions: a missing prefix must be one compact leaves.
LegacyCompactions ==
    LET gone(r) == {db.legs[l].seq : l \in {l \in RowsOf(db, r) : ~Queued(db, l)}}
    IN [r \in {r \in Recipients : gone(r) # {}} |-> Last(gone(r))]

LegacyCompacted(r, s) ==
    /\ \A l \in Prefix(db, r, s) : Terminal(db, l) /\ ~Queued(db, l)
    /\ \E k \in DOMAIN db.consumers : k[1] = r
    /\ \A k \in DOMAIN db.consumers : k[1] = r => db.consumers[k] >= s

UpgradeReceiptsV2 ==
    /\ Initialized /\ db.schema = 1 /\ plan.upto >= 2
    /\ ValidConsumers(db)
    /\ \A r \in DOMAIN LegacyCompactions : LegacyCompacted(r, LegacyCompactions[r])
    /\ db' = [db EXCEPT !.schema = 2, !.compactions = LegacyCompactions]
    /\ UNCHANGED <<plan, now, known, anchor, pending, presented, crashes>>

\* _validate_snapshot: the rows of a page belong to the recipient and to the
\* snapshot, and its cursor goes on where it ends.
ValidSnapshot(d, p) ==
    /\ p.items \subseteq SeqsOf(d, p.rcpt)
    /\ \A s \in p.items : s <= p.cutoff
    /\ p.next # None =>
          d.cursors[p.next].cutoff = p.cutoff /\ d.cursors[p.next].last = Last(p.items)

\* _validate_cached_histories: what pages and claims answered still holds.
ValidHistories(d) ==
    /\ \A k \in DOMAIN d.pages : ValidSnapshot(d, d.pages[k])
    /\ \A k \in DOMAIN d.batches :
           d.batches[k].items \subseteq {d.legs[l].seq : l \in DOMAIN d.legs}

UpgradeLegsV3 ==
    LET next == [db EXCEPT !.schema = 3] IN
    /\ Initialized /\ db.schema = 2 /\ plan.upto >= 3
    /\ Valid(db) /\ ValidHistories(db)
    /\ Valid(next) /\ ValidHistories(next)
    /\ db' = next
    /\ UNCHANGED <<plan, now, known, anchor, pending, presented, crashes>>

CNext ==
    \/ Tick
    \/ \E m \in plan.messages : LearnMessage(m) \/ Accept(m)
    \/ \E rc \in plan.receipts : LearnReceipt(rc) \/ RecordReceipt(rc)
    \/ \E r \in Recipients, c \in plan.consumers, s \in 1..db.highwater : Advance(r, c, s)
    \/ \E r \in Recipients, s \in 1..db.highwater : Compact(r, s)
    \/ \E r \in Recipients, c \in plan.consumers, q \in plan.pages, n \in plan.limits :
          \E token \in DOMAIN db.cursors \cup {None} : Page(r, c, q, token, n)
    \/ \E r \in Recipients, c \in plan.consumers, k \in plan.claims, n \in plan.limits :
          \E until \in 1..plan.time + 1, t \in {now, now - 1} \cap Nat : Claim(r, c, k, n, until, t)
    \/ UpgradeReceiptsV2
    \/ UpgradeLegsV3
    \/ Recover

-----------------------------------------------------------------------------
(* What the store promises. *)

\* From schema 2 on a process that died at any point of _arm_commit finds on its
\* return tables that initialize accepts: a journal it can settle, or none and an
\* anchor that agrees.  It never takes its own crash for a rollback.
RestartsClean ==
    db.schema >= 2 => IF pending = {} THEN anchor = db.counter ELSE Recoverable

\* Some consumer has gone past leg l.
Passed(l) ==
    \E k \in DOMAIN db.consumers : k[1] = l[2] /\ db.consumers[k] >= db.legs[l].seq

\* From schema 2 on nothing that a consumer has passed, and nothing compacted
\* away, is open or in dispute, whatever receipts and deliveries come later.
ConsumedIsSettled ==
    db.schema >= 2 =>
        \A l \in DOMAIN db.legs :
            \/ Terminal(db, l) /\ l \in DOMAIN db.receipts \cup DOMAIN db.foreign
            \/ Queued(db, l) /\ ~Passed(l)

\* Leg k was ended by a foreign receipt with the id or the position of rc.
Disputes(k, rc) ==
    rc.foreign /\ k \in DOMAIN db.foreign
        /\ (db.foreign[k].id = rc.id \/ db.foreign[k].pos = rc.pos)

\* Two different receipts the store has answered about one leg leave the leg
\* quarantined: arrival order picks no winner.  Only where a consumer has passed
\* one of the legs in dispute does the first receipt stand.
CompetingReceiptsQuarantine ==
    \A rc1, rc2 \in presented : \A l \in Bound(db, rc1) \cap Bound(db, rc2) :
        rc1 # rc2 =>
            \/ db.legs[l].state = "quarantined"
            \/ \E k \in DOMAIN db.legs :
                  (k = l \/ Disputes(k, rc1) \/ Disputes(k, rc2)) /\ Passed(k)

\* An ended leg keeps its receipt and its outcome or is quarantined, and a
\* quarantined leg stays so, across crashes and upgrades of the schema.
OutcomesAreFinal ==
    [][\A l \in DOMAIN db.legs :
          /\ l \in DOMAIN db'.legs
          /\ db.legs[l].state # "accepted" =>
                /\ db'.legs[l].state \in {db.legs[l].state, "quarantined"}
                /\ db'.legs[l].receipt = db.legs[l].receipt]_db

\* The pages of one snapshot leave no gap: between two cursors every leg is on
\* the page or was compacted away, and all pages end where the first did.
PagesLeaveNoGap ==
    \A k \in DOMAIN db.pages :
        LET p == db.pages[k]
            lo == IF p.from = None THEN 0 ELSE db.cursors[p.from].last
            hi == IF p.next = None THEN p.cutoff ELSE Last(p.items)
        IN
        /\ p.from # None => p.cutoff = db.cursors[p.from].cutoff
        /\ \A l \in RowsOf(db, p.rcpt) :
              (lo < db.legs[l].seq /\ db.legs[l].seq <= hi) =>
                  db.legs[l].seq \in p.items \/ ~Queued(db, l)

\* Two claims whose leases both run hold no row in common.
ClaimsAreDisjoint ==
    \A k1, k2 \in DOMAIN db.batches :
        (k1 # k2 /\ db.batches[k1].until > now /\ db.batches[k2].until > now) =>
            db.batches[k1].items \cap db.batches[k2].items = {}
=============================================================================
