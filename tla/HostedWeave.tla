---------------------------- MODULE HostedWeave ----------------------------
(***************************************************************************)
(* The local RPC service of a body (service.py) over the request journal   *)
(* and the authoring journal of its ledger (ledger.py).                    *)
(*                                                                         *)
(* A client signs a request once, keeps the signed bytes and may send them *)
(* any number of times, also while an earlier copy is still being served.  *)
(* Every worker thread of the daemon runs `handle`: journal the request,   *)
(* dispatch it, journal the first response, answer.  One SQLite            *)
(* transaction, or one read of the ledger, is one step; a crash loses the  *)
(* threads and nothing else.                                               *)
(*                                                                         *)
(* Three kinds of method stand for the surface: observe/propose (one       *)
(* authoring transaction), decide (read the projection, then author), and  *)
(* projection.receipt (read, ask the observer, then author under a         *)
(* compare-and-swap on the ledger state).                                  *)
(***************************************************************************)
EXTENDS Naturals, FiniteSets, Sequences, SequencesExt

CONSTANTS
    Workers,       \* the daemon's worker threads
    Requests,      \* signed requests: a record each, see RequestFields
    Aging,         \* bound: the requests that may grow older than the skew
    MaxTroubles,   \* bound: crashes, events of other bodies and late requests
    Calm,          \* bound: the requests that are only sent while there is no trouble
    None           \* Python's None

Keys == {r.key : r \in Requests}           \* <<client_id, request_id>>

Authoring == {"we.observe", "we.propose"}

RequestFields ==
    {"key", "method", "parents", "target", "decision", "supersedes", "basis",
     "effect", "evidence"}

EventRef == (Nat \ {0}) \cup {None}

Codes ==
    {"ok", "request_conflict", "causal_gap", "runtime_unavailable", "unknown_target",
     "target_not_projectable", "decision_chain_failed", "decision_predecessor_mismatch",
     "projection_known_proposal_required", "projection_local_adoption_required",
     "projection_adoption_not_current", "projection_effect_truth_unverifiable",
     "projection_decision_view_changed", "projection_effect_identity_conflict"}

Response == [ok: BOOLEAN, event: EventRef, code: Codes]

JournalRow == [req: Requests, response: Response \cup {None}]

OperationRow == [req: Requests, event: Nat \ {0}]

\* Only a receipt names an effect, and it always does.
ASSUME RequestAssumption ==
    \A r \in Requests :
        /\ DOMAIN r = RequestFields
        /\ r.method \in Authoring \cup {"we.decide", "we.projection.receipt"}
        /\ r.parents \subseteq Nat \ {0}
        /\ {r.target, r.supersedes, r.basis} \subseteq EventRef
        /\ r.method = "we.projection.receipt" <=> r.effect # None
ASSUME NoneAssumption ==
    None \notin Requests \cup Response \cup JournalRow \cup OperationRow
ASSUME AgingAssumption == Aging \subseteq Requests

VARIABLES
    rows,          \* known events, in the order they were stored
    journal,       \* journal[k]: row of rpc_requests, or None
    operations,    \* operations[k]: row of local_operations, or None
    equivocations, \* keys recorded in the lane rpc_request
    stale,         \* requests older than MAX_CLOCK_SKEW_MS
    worker,        \* worker[w]: what thread w is doing
    answers,       \* <<request, response>> sent to a client, see Answer
    crashes

store == <<rows, journal, operations, equivocations>>
vars == <<store, stale, worker, answers, crashes>>

-----------------------------------------------------------------------------
(***************************************************************************)
(* The local projection of the ledger (projections.py): which proposal is  *)
(* adopted is computed from the local decisions, each of which names the   *)
(* decision it supersedes.  hist is known history in arrival order; an     *)
(* event is named by its place in it.                                      *)
(***************************************************************************)

Proposals == {"configuration.proposed", "skill.proposed"}

Projectable ==
    Proposals \cup {"experience.observed", "memory.recorded", "preference.proposed"}

\* A decision d of D supersedes sup[d].
Roots(D, sup) == {d \in D : sup[d] = None}

Children(D, sup, p) == {d \in D : sup[d] = p}

Malformed(D, sup) ==
    \/ \E d \in D : sup[d] # None /\ sup[d] \notin D
    \/ Cardinality(Roots(D, sup)) # 1
    \/ \E p \in D : Cardinality(Children(D, sup, p)) > 1

\* From the root, each time to the one successor, until there is none.
Walk(D, sup) ==
    LET follow(chain, d) ==
            LET next == Children(D, sup, Last(chain))
            IN  IF next = {} THEN chain
                ELSE Append(chain, CHOOSE n \in next : TRUE)
    IN  FoldSet(LAMBDA d, chain : follow(chain, d),
                <<CHOOSE r \in Roots(D, sup) : TRUE>>, D)

\* Fault: decisions the walk does not reach are overlooked.
ChainFailedLoose(D, sup) == D # {} /\ Malformed(D, sup)

ChainFailed(D, sup) ==
    D # {} /\ (Malformed(D, sup) \/ Range(Walk(D, sup)) # D)

Tip(D, sup) == IF D = {} \/ ChainFailed(D, sup) THEN None ELSE Last(Walk(D, sup))

LocalDecisions(hist, t) ==
    {i \in DOMAIN hist :
        hist[i].kind = "adoption.decided" /\ hist[i].local /\ hist[i].target = t}

Supersedes(hist) == [i \in DOMAIN hist |-> hist[i].supersedes]

LocalAdoption(hist, i, t) ==
    /\ i \in LocalDecisions(hist, t)
    /\ hist[i].decision = "adopt"

\* A receipt of this body for t that rests on no local adoption of t.
InvalidReceipts(hist, t) ==
    {i \in DOMAIN hist :
        /\ hist[i].kind = "projection.receipted" /\ hist[i].local
        /\ hist[i].target = t
        /\ ~ LocalAdoption(hist, hist[i].basis, t)}

DecisionTip(hist, t) == Tip(LocalDecisions(hist, t), Supersedes(hist))

DecisionForked(hist, t) == ChainFailed(LocalDecisions(hist, t), Supersedes(hist))

\* The state of the entry of proposal t.
EntryState(hist, t) ==
    IF DecisionForked(hist, t) \/ InvalidReceipts(hist, t) # {} THEN "failed"
    ELSE IF DecisionTip(hist, t) = None THEN "pending"
    ELSE hist[DecisionTip(hist, t)].decision

-----------------------------------------------------------------------------
Ok(i) == [ok |-> TRUE, event |-> i, code |-> "ok"]
Error(c) == [ok |-> FALSE, event |-> None, code |-> c]

Idle == [pc |-> "idle", req |-> None, view |-> 0, again |-> FALSE,
         response |-> None]

Init ==
    /\ rows = <<>>
    /\ journal = [k \in Keys |-> None]
    /\ operations = [k \in Keys |-> None]
    /\ equivocations = {}
    /\ stale = {}
    /\ worker = [w \in Workers |-> Idle]
    /\ answers = {}
    /\ crashes = 0

-----------------------------------------------------------------------------
(***************************************************************************)
(* begin_rpc.                                                              *)
(***************************************************************************)
Journalled(r) == journal[r.key] # None /\ journal[r.key].req = r

\* Fault: freshness is asked of retries too.
FreshOnly(r) == r \notin stale

\* An old request is accepted only when its exact row is there.
Admitted(r) == r \notin stale \/ Journalled(r)

Start(w, r, again) ==
    worker' = [worker EXCEPT ![w] = [Idle EXCEPT !.pc = "dispatch", !.req = r,
                                                 !.again = again]]

\* answers is a record for the properties; a refused reconciliation promises
\* nothing and is left out of it.
Answer(r, response) ==
    answers' = answers \cup
        {a \in {<<r, response>>} : response.ok \/ r.method # "we.projection.receipt"}

\* What went wrong so far, and what the bounds let go wrong.
Troubles ==
    crashes + Cardinality(stale) + Cardinality({i \in DOMAIN rows : ~ rows[i].local})

MayTrouble == Troubles < MaxTroubles /\ \A r \in Calm : ~ Journalled(r)

\* A new request, or one that was begun and not finished.
Begin(w, r) ==
    /\ worker[w].pc = "idle"
    /\ Admitted(r)
    /\ \/ journal[r.key] = None
       \/ Journalled(r) /\ journal[r.key].response = None
    /\ r \in Calm => Troubles = 0
    /\ journal' = [journal EXCEPT ![r.key] = [req |-> r, response |-> None]]
    /\ Start(w, r, FALSE)
    /\ UNCHANGED <<rows, operations, equivocations, stale, answers, crashes>>

\* The id was used for other bytes.
BeginConflict(w, r) ==
    /\ worker[w].pc = "idle"
    /\ Admitted(r)
    /\ journal[r.key] # None /\ ~ Journalled(r)
    /\ equivocations' = equivocations \cup {r.key}
    /\ Answer(r, Error("request_conflict"))
    /\ UNCHANGED <<rows, journal, operations, stale, worker, crashes>>

\* A completed request is answered from the journal; a projection receipt is
\* reconciled again instead.
Replay(w, r) ==
    /\ worker[w].pc = "idle"
    /\ Journalled(r) /\ journal[r.key].response # None
    /\ IF r.method = "we.projection.receipt"
       THEN Start(w, r, TRUE) /\ UNCHANGED answers
       ELSE Answer(r, journal[r.key].response) /\ UNCHANGED worker
    /\ UNCHANGED <<store, stale, crashes>>

-----------------------------------------------------------------------------
(***************************************************************************)
(* append_local_idempotent, and the dispatch of each method.               *)
(***************************************************************************)
At(w, pc) == worker[w].pc = pc

Go(w, pc) == worker' = [worker EXCEPT ![w].pc = pc]

Respond(w, response) ==
    worker' = [worker EXCEPT ![w].pc = "finish", ![w].response = response]

\* The event request r asks for.
EventOf(r) ==
    [kind |-> CASE r.method = "we.observe" -> "experience.observed"
                [] r.method = "we.propose" -> "configuration.proposed"
                [] r.method = "we.decide" -> "adoption.decided"
                [] OTHER -> "projection.receipted",
     local |-> TRUE, target |-> r.target, decision |-> r.decision,
     supersedes |-> r.supersedes, basis |-> r.basis, effect |-> r.effect,
     evidence |-> r.evidence, req |-> r]

Dependencies(r) == r.parents \cup ({r.target, r.supersedes, r.basis} \ {None})

\* Fault: the authoring journal is not consulted.
AuthorAgain(w) ==
    LET r == worker[w].req
    IN  IF Dependencies(r) \subseteq DOMAIN rows
        THEN /\ rows' = Append(rows, EventOf(r))
             /\ operations' = [operations EXCEPT ![r.key] =
                                   [req |-> r, event |-> Len(rows) + 1]]
             /\ Respond(w, Ok(Len(rows) + 1))
        ELSE /\ Respond(w, Error("causal_gap"))
             /\ UNCHANGED <<rows, operations>>

\* One transaction: the event authored for this key before, or a new event and
\* its row in local_operations, or an error and nothing.
AuthorOnce(w) ==
    LET r == worker[w].req
    IN  IF operations[r.key] # None
        THEN /\ Respond(w, Ok(operations[r.key].event))
             /\ UNCHANGED <<rows, operations>>
        ELSE IF Dependencies(r) \subseteq DOMAIN rows
        THEN /\ rows' = Append(rows, EventOf(r))
             /\ operations' = [operations EXCEPT ![r.key] =
                                   [req |-> r, event |-> Len(rows) + 1]]
             /\ Respond(w, Ok(Len(rows) + 1))
        ELSE /\ Respond(w, Error("causal_gap"))
             /\ UNCHANGED <<rows, operations>>

\* we.observe and we.propose.
Observe(w) ==
    /\ At(w, "dispatch") /\ worker[w].req.method \in Authoring
    /\ AuthorOnce(w)
    /\ UNCHANGED <<journal, equivocations, stale, answers, crashes>>

\* Fault: the predecessor is not compared with the chain.
DecideUnchecked(r) ==
    IF r.target \notin DOMAIN rows THEN Error("unknown_target") ELSE None

\* What _decide makes of the projection: None when the decision may be signed.
DecideRefusal(r) ==
    LET tip == DecisionTip(rows, r.target)
    IN  IF r.target \notin DOMAIN rows THEN Error("unknown_target")
        ELSE IF rows[r.target].kind \notin Projectable
        THEN Error("target_not_projectable")
        ELSE IF EntryState(rows, r.target) = "failed"
        THEN Error("decision_chain_failed")
        ELSE IF r.supersedes # tip \/ (r.decision = "revert" /\ tip = None)
        THEN Error("decision_predecessor_mismatch")
        ELSE None

DecideRead(w) ==
    LET refusal == DecideRefusal(worker[w].req)
    IN  /\ At(w, "dispatch") /\ worker[w].req.method = "we.decide"
        /\ IF refusal = None THEN Go(w, "decide") ELSE Respond(w, refusal)
        /\ UNCHANGED <<store, stale, answers, crashes>>

DecideAuthor(w) ==
    /\ At(w, "decide")
    /\ AuthorOnce(w)
    /\ UNCHANGED <<journal, equivocations, stale, answers, crashes>>

\* What _projection_receipt makes of the ledger.
ReceiptRefusal(r) ==
    IF r.target \notin DOMAIN rows \/ rows[r.target].kind \notin Proposals
    THEN Error("projection_known_proposal_required")
    ELSE IF ~ LocalAdoption(rows, r.basis, r.target)
    THEN Error("projection_local_adoption_required")
    ELSE IF EntryState(rows, r.target) # "adopt" \/ DecisionTip(rows, r.target) # r.basis
    THEN Error("projection_adoption_not_current")
    ELSE None

ReceiptRead(w) ==
    LET refusal == ReceiptRefusal(worker[w].req)
    IN  /\ At(w, "dispatch") /\ worker[w].req.method = "we.projection.receipt"
        /\ worker' = IF refusal = None
                     THEN [worker EXCEPT ![w].pc = "observe", ![w].view = Len(rows)]
                     ELSE [worker EXCEPT ![w].pc = "finish", ![w].response = refusal]
        /\ UNCHANGED <<store, stale, answers, crashes>>

\* The injected observer looks at the world; then the state hash is compared.
ReceiptObserve(w, verified) ==
    /\ At(w, "observe")
    /\ IF ~ verified
       THEN Respond(w, Error("projection_effect_truth_unverifiable"))
       ELSE IF worker[w].view # Len(rows)
       THEN Respond(w, Error("projection_decision_view_changed"))
       ELSE Go(w, "lookup")
    /\ UNCHANGED <<store, stale, answers, crashes>>

\* The event id is derived from the effect.
ReceiptsOf(effect) ==
    {i \in DOMAIN rows : rows[i].kind = "projection.receipted" /\ rows[i].effect = effect}

SamePayload(e, f) ==
    e.target = f.target /\ e.basis = f.basis /\ e.evidence = f.evidence

ReceiptLookup(w) ==
    LET r == worker[w].req
    IN  /\ At(w, "lookup")
        /\ \/ /\ ReceiptsOf(r.effect) = {}
              /\ Go(w, "receipt")
           \/ \E i \in ReceiptsOf(r.effect) :
                 Respond(w, IF SamePayload(rows[i], EventOf(r)) THEN Ok(i)
                            ELSE Error("projection_effect_identity_conflict"))
        /\ UNCHANGED <<store, stale, answers, crashes>>

\* Fault: no expected_state_hash.
UnchangedSinceAny(w) == TRUE

UnchangedSince(w) == worker[w].view = Len(rows)

\* The append compares the state hash in its own transaction.
ReceiptAuthor(w) ==
    /\ At(w, "receipt")
    /\ UnchangedSince(w) \/ operations[worker[w].req.key] # None
    /\ AuthorOnce(w)
    /\ UNCHANGED <<journal, equivocations, stale, answers, crashes>>

ReceiptChanged(w) ==
    /\ At(w, "receipt")
    /\ ~ UnchangedSince(w) /\ operations[worker[w].req.key] = None
    /\ Respond(w, Error("runtime_unavailable"))
    /\ UNCHANGED <<store, stale, answers, crashes>>

\* A busy database, an unreachable store: the dispatch ends in an error and
\* the transaction in a rollback.
DispatchFails(w) ==
    /\ worker[w].pc \in {"dispatch", "decide", "observe", "lookup", "receipt"}
    /\ Respond(w, Error("runtime_unavailable"))
    /\ UNCHANGED <<store, stale, answers, crashes>>

-----------------------------------------------------------------------------
(***************************************************************************)
(* finish_rpc and the answer.                                              *)
(***************************************************************************)

\* The first response is kept; a concurrent finisher gets that one.
Stored(r, response) ==
    IF journal[r.key].response = None THEN response ELSE journal[r.key].response

Finish(w) ==
    LET r == worker[w].req
        stored == Stored(r, worker[w].response)
    IN  /\ At(w, "finish") /\ ~ worker[w].again
        /\ journal' = [journal EXCEPT ![r.key].response = stored]
        /\ Answer(r, IF r.method = "we.projection.receipt"
                     THEN worker[w].response ELSE stored)
        /\ worker' = [worker EXCEPT ![w] = Idle]
        /\ UNCHANGED <<rows, operations, equivocations, stale, crashes>>

\* A reconciled retry answers what it found and leaves the journal alone.
AnswerAgain(w) ==
    /\ At(w, "finish") /\ worker[w].again
    /\ Answer(worker[w].req, worker[w].response)
    /\ worker' = [worker EXCEPT ![w] = Idle]
    /\ UNCHANGED <<store, stale, crashes>>

\* The daemon stops.
Crash ==
    /\ MayTrouble
    /\ \E w \in Workers : worker[w] # Idle
    /\ worker' = [w \in Workers |-> Idle]
    /\ crashes' = crashes + 1
    /\ UNCHANGED <<store, stale, answers>>

\* A page of another body's events is ingested (see WeaveSync).
RemoteEvent(kind, target) ==
    [kind |-> kind, local |-> FALSE, target |-> target, decision |-> "adopt",
     supersedes |-> None, basis |-> None, effect |-> None, evidence |-> None,
     req |-> None]

Arrive(e) ==
    /\ MayTrouble
    /\ rows' = Append(rows, e)
    /\ UNCHANGED <<journal, operations, equivocations, stale, worker, answers, crashes>>

\* Time passes.
Expire(r) ==
    /\ MayTrouble
    /\ r \notin stale
    /\ stale' = stale \cup {r}
    /\ UNCHANGED <<store, worker, answers, crashes>>

-----------------------------------------------------------------------------
WorkerStep(w) ==
    \/ Observe(w)
    \/ DecideRead(w)
    \/ DecideAuthor(w)
    \/ ReceiptRead(w)
    \/ \E verified \in BOOLEAN : ReceiptObserve(w, verified)
    \/ ReceiptLookup(w)
    \/ ReceiptAuthor(w)
    \/ ReceiptChanged(w)
    \/ DispatchFails(w)
    \/ Finish(w)
    \/ AnswerAgain(w)

Receive(w, r) == Begin(w, r) \/ BeginConflict(w, r) \/ Replay(w, r)

Environment ==
    \/ Crash
    \/ Arrive(RemoteEvent("configuration.proposed", None))
    \/ \E t \in DOMAIN rows : Arrive(RemoteEvent("adoption.decided", t))
    \/ \E r \in Aging : Expire(r)

Next ==
    \/ \E w \in Workers : WorkerStep(w) \/ \E r \in Requests : Receive(w, r)
    \/ Environment

Spec == Init /\ [][Next]_vars

-----------------------------------------------------------------------------
(***************************************************************************)
(* Properties.                                                             *)
(***************************************************************************)
Kinds == Projectable \cup {"adoption.decided", "projection.receipted"}

Stages == {"idle", "dispatch", "decide", "observe", "lookup", "receipt", "finish"}

Field(f) == {r[f] : r \in Requests} \cup {None, "adopt"}

Row == [kind: Kinds, local: BOOLEAN, target: EventRef, decision: Field("decision"),
        supersedes: EventRef, basis: EventRef, effect: Field("effect"),
        evidence: Field("evidence"), req: Requests \cup {None}]

Thread == [pc: Stages, req: Requests \cup {None}, view: Nat, again: BOOLEAN,
           response: Response \cup {None}]

\* Every variable holds what its table, or a thread, can hold.
TypeOK ==
    /\ rows \in Seq(Row)
    /\ journal \in [Keys -> JournalRow \cup {None}]
    /\ operations \in [Keys -> OperationRow \cup {None}]
    /\ equivocations \subseteq Keys
    /\ stale \subseteq Requests
    /\ worker \in [Workers -> Thread]
    /\ answers \subseteq Requests \X Response
    /\ crashes \in Nat

\* A request authors at most one event, and an effect is receipted at most once,
\* however often the request is retried, raced or cut off by a crash.
EffectOnce ==
    \A i, j \in DOMAIN rows :
        /\ (rows[i].local /\ rows[j].local /\ rows[i].req.key = rows[j].req.key) => i = j
        /\ (rows[i].effect # None /\ rows[i].effect = rows[j].effect) => i = j

Acknowledges(r, response) ==
    response.ok =>
        /\ response.event \in DOMAIN rows
        /\ LET e == rows[response.event]
           IN  IF r.method = "we.projection.receipt"
               THEN e.effect = r.effect /\ SamePayload(e, EventOf(r))
               ELSE e.req = r

\* A success that was journalled or sent names an event that is in the ledger
\* and says what the request asked for.
SuccessIsTrue ==
    /\ \A a \in answers : Acknowledges(a[1], a[2])
    /\ \A k \in Keys : (journal[k] # None /\ journal[k].response # None) =>
          Acknowledges(journal[k].req, journal[k].response)

\* Exact retries of one request get one answer, for good, whoever finishes
\* first (except projection receipts, which are reconciled every time).
OneAnswer ==
    \A a, b \in answers :
        (a[1] = b[1] /\ a[1].method # "we.projection.receipt") => a[2] = b[2]

\* A receipt enters the ledger only while the adoption it rests on is the
\* effective local decision: the compare-and-swap of the state hash covers the
\* reads before it.
ReceiptRestsOnCurrentAdoption ==
    [][\A i \in DOMAIN rows' \ DOMAIN rows :
        rows'[i].kind = "projection.receipted" =>
            /\ EntryState(rows, rows'[i].target) = "adopt"
            /\ DecisionTip(rows, rows'[i].target) = rows'[i].basis]_vars

\* The answer to a request is in the journal.
Answered(r) == Journalled(r) /\ journal[r.key].response # None

\* What specs/weave-protocol.md requires of local decisions: "exactly one
\* connected, non-forking chain".
DecisionChainLinear ==
    \A t \in DOMAIN rows : ~ DecisionForked(rows, t)

\* The service as its clients see it: a retried, raced or interrupted request
\* has one effect and one answer, and a success names what was asked for.
RequestsAreAnsweredOnce == TypeOK /\ EffectOnce /\ OneAnswer /\ SuccessIsTrue
=============================================================================
