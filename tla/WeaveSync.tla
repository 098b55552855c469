----------------------------- MODULE WeaveSync -----------------------------
(***************************************************************************)
(* The replicated event ledger of one being (ledger.py) and the pull       *)
(* protocol that synchronises its bodies (sync.py).                        *)
(*                                                                         *)
(* A body is one SQLite ledger.  Its Origin is the incarnation whose key   *)
(* signs what it authors; in an honest deployment no two bodies have the   *)
(* same one, and a cloned credential or a restored backup is two bodies    *)
(* with the same Origin.                                                   *)
(*                                                                         *)
(* One SQLite transaction is one step.  The network is not a variable: a   *)
(* request that was issued, or a page that was frozen, is durable, so it   *)
(* may reach its reader now, later, twice or never.  The threads of one    *)
(* body meet between validating a page and ingesting it (`validated`).     *)
(***************************************************************************)
EXTENDS Naturals, FiniteSets, Sequences, SequencesExt

CONSTANTS
    Bodies,        \* the ledgers
    Incarnations,  \* signing identities, ordered as incarnation_id is by SQL
    Origin,        \* Origin[b]: the incarnation body b signs as
    Peers,         \* Peers[b]: the bodies b is configured to pull from
    RequestIds,    \* sync request ids
    CallerIds,     \* CallerIds[b]: the ids the callers of b mint
    Limits,        \* page limits a caller asks for
    Quota,         \* bound: events b authors
    MaxParents,    \* bound: explicit causal parents of one event
    MaxEvidence,   \* CONVERSATION_EVIDENCE_MAX_EVENTS, scaled down
    MaxBatch,      \* events of one retain_conversation_evidence call (3)
    None           \* Python's None

ASSUME IncarnationAssumption == Incarnations \subseteq Nat
ASSUME OriginAssumption == Origin \in [Bodies -> Incarnations]
ASSUME PeerAssumption == Peers \in [Bodies -> SUBSET Bodies]
ASSUME CallerAssumption == CallerIds \in [Bodies -> SUBSET RequestIds]
ASSUME LimitAssumption == Limits \subseteq Nat \ {0}
ASSUME BoundAssumption == /\ Quota \in [Bodies -> Nat]
                          /\ MaxParents \in Nat
                          /\ MaxEvidence \in Nat
                          /\ MaxBatch \in Nat
ASSUME NoneAssumption == None \notin Bodies \X Nat

VARIABLES
    events,        \* events[b]: rows of table events
    known,         \* known[b]: ids of the rows with status 'known'
    evidence,      \* evidence[b]: rows of table conversation_evidence
    knownFeed,     \* known_event_feed, ids in feed order
    convFeed,      \* conversation_event_feed, ids in feed order
    cursors,       \* cursors[b][p]: tips last received from peer p (peer_cursors)
    peerState,     \* peerState[b][p]: peer_sync_state
    equivocations, \* lanes of the recorded equivocations
    issued,        \* issued_sync: requests this body made
    outbound,      \* outbound_sync: pages frozen for requests it served
    inbound,       \* inbound_sync: receipts of the pages it ingested
    validated,     \* pages validate_delta let through and pull has yet to ingest
    refused        \* <<peer, reason>> of the pages pull refused with an error

ledger == <<events, known, evidence, knownFeed, convFeed>>
exchange == <<cursors, peerState, equivocations, issued, outbound, inbound>>
vars == <<ledger, exchange, validated, refused>>

(***************************************************************************)
(* Documents.  A content hash stands for the whole record, so records are  *)
(* compared instead; a head is the row it names.                           *)
(***************************************************************************)
EventIds == Bodies \X Nat

Event == [id: EventIds, inc: Incarnations, seq: Nat \ {0},
          prev: EventIds \cup {None}, parents: SUBSET EventIds]

Request == [rid: RequestIds, requester: Incarnations,
            heads: SUBSET Event, limit: Limits]

Page == [request: Request, sender: Incarnations, events: SUBSET Event,
         more: BOOLEAN, offered: SUBSET Event]

Receipt == [page: Page, achieved: SUBSET Event]

Lanes == {"conversation_identity", "remote_head", "sync_request", "sync_page"}
PeerStates == {"none", "coherent", "gap", "quarantined"}
Reasons == {"equivocation", "malformed", "gap", "regression"}

Ids(rows) == {e.id : e \in rows}

\* Dependencies of an event: the explicit references and its predecessor.
Deps(e) == e.parents \cup ({e.prev} \ {None})

\* The position order every listing and every page is sorted by.
Before(e, f) == e.inc < f.inc \/ (e.inc = f.inc /\ e.seq < f.seq)

SamePosition(e, f) == e.inc = f.inc /\ e.seq = f.seq

\* The rows of greatest sequence, one per incarnation present.
Heads(rows) ==
    {h \in rows : \A e \in rows : e.inc = h.inc => e.seq <= h.seq}

\* e is the next event of its incarnation after rows.
Follows(rows, e) ==
    \/ /\ \A r \in rows : r.inc # e.inc
       /\ e.seq = 1
       /\ e.prev = None
    \/ \E h \in Heads(rows) :
          /\ h.inc = e.inc
          /\ e.seq = h.seq + 1
          /\ e.prev = h.id

-----------------------------------------------------------------------------
(***************************************************************************)
(* Causal completeness: _promote repeats until no incomplete row has all   *)
(* its dependencies known, so it reaches the least set that contains what  *)
(* was known and is closed under that rule.                                *)
(***************************************************************************)
ClosedUnder(rows, S) == \A e \in rows : Deps(e) \subseteq S => e.id \in S

\* Fault: one promotion round instead of rounds until nothing changes.
PromoteOnce(rows, K) == K \cup {e.id : e \in {f \in rows : Deps(f) \subseteq K}}

Promote(rows, K) ==
    {i \in Ids(rows) : \A S \in SUBSET Ids(rows) :
        (K \subseteq S /\ ClosedUnder(rows, S)) => i \in S}

\* The rows of a table, listed by position.
InOrder(rows) ==
    [i \in 1..Cardinality(rows) |->
        CHOOSE e \in rows : Cardinality({f \in rows : Before(f, e)}) = i - 1]

\* The order in which the triggers see rows become known: first the rows
\* inserted as known, in page order; then the promotion rounds, each in
\* position order.
InsertionPass(new, K) ==
    LET add(acc, e) ==
            IF Deps(e) \subseteq K \cup Range(acc) THEN Append(acc, e.id) ELSE acc
    IN  FoldLeft(add, <<>>, InOrder(new))

PromotionRound(rows, K, feed) ==
    LET seen == K \cup Range(feed)
        ready == {e \in rows : e.id \notin seen /\ Deps(e) \subseteq seen}
        order == InOrder(ready)
    IN  feed \o [i \in DOMAIN order |-> order[i].id]

\* Fault: no trigger on promotion, only on insertion.
BecameKnownOnInsert(rows, new, K) == InsertionPass(new, K)

BecameKnown(rows, new, K) ==
    FoldLeft(LAMBDA feed, round : PromotionRound(rows, K, feed),
             InsertionPass(new, K), [round \in 1..Cardinality(rows) |-> round])

\* INSERT OR IGNORE of one id after another.
AppendAbsent(feed, new) ==
    FoldLeft(LAMBDA acc, i : IF i \in Range(acc) THEN acc ELSE Append(acc, i), feed, new)

\* _insert of every row of new, then _promote, with the feed triggers.
InsertAndPromote(b, new) ==
    LET rows == events[b] \cup new
        K == Promote(rows, known[b])
        became == BecameKnown(rows, new, known[b])
    IN  /\ events' = [events EXCEPT ![b] = rows]
        /\ known' = [known EXCEPT ![b] = K]
        /\ evidence' = [evidence EXCEPT ![b] = {e \in @ : e.id \notin K}]
        /\ knownFeed' = [knownFeed EXCEPT ![b] = @ \o became]
        /\ convFeed' = [convFeed EXCEPT ![b] = AppendAbsent(@, became)]

-----------------------------------------------------------------------------
(***************************************************************************)
(* _plan: what a page would do to a ledger.                                *)
(***************************************************************************)

\* Fault: positions are not compared.
SameIdConflict(rows, e) == \E r \in rows : r # e /\ r.id = e.id

\* Another record holds e's id or its position (_check_conversation_identity).
IdentityConflict(rows, e) ==
    \E r \in rows : r # e /\ (r.id = e.id \/ SamePosition(r, e))

Missing(b, page) == page \ events[b]

Conflicts(b, page, e) ==
    \/ IdentityConflict(events[b] \cup evidence[b], e)
    \/ \E f \in Missing(b, page) \ {e} : e \notin events[b] /\ SamePosition(e, f)

Gapped(b, page, e) ==
    /\ e \notin events[b]
    /\ ~ Follows(events[b] \cup {f \in Missing(b, page) : Before(f, e)}, e)

\* The events of a page are examined in order and the first bad one decides.
Verdict(b, page) ==
    LET bad == {e \in page : Conflicts(b, page, e) \/ Gapped(b, page, e)}
        first == CHOOSE e \in bad : \A f \in bad : ~ Before(f, e)
    IN  IF \E e, f \in page : e # f /\ e.id = f.id THEN "malformed"
        ELSE IF bad = {} THEN "ok"
        ELSE IF Conflicts(b, page, first) THEN "equivocation"
        ELSE "gap"

\* _validate_delta_content, without its preview.
ContentValid(p) ==
    /\ Cardinality(p.events) <= p.request.limit
    /\ p.more => p.events # {}
    /\ \A e \in p.events :
          /\ \E h \in p.offered : /\ h.inc = e.inc
                                  /\ e.seq <= h.seq
                                  /\ e.seq = h.seq => e = h
          /\ \A q \in p.request.heads : q.inc = e.inc => e.seq > q.seq
    /\ ~ p.more => \A h \in p.offered :
          \/ \E q \in p.request.heads : q.inc = h.inc /\ h.seq <= q.seq
          \/ \E e \in p.events : SamePosition(e, h)

-----------------------------------------------------------------------------
Init ==
    /\ events = [b \in Bodies |-> {}]
    /\ known = [b \in Bodies |-> {}]
    /\ evidence = [b \in Bodies |-> {}]
    /\ knownFeed = [b \in Bodies |-> <<>>]
    /\ convFeed = [b \in Bodies |-> <<>>]
    /\ cursors = [b \in Bodies |-> [p \in Incarnations |-> {}]]
    /\ peerState = [b \in Bodies |-> [p \in Incarnations |-> "none"]]
    /\ equivocations = [b \in Bodies |-> {}]
    /\ issued = [b \in Bodies |-> {}]
    /\ outbound = [b \in Bodies |-> {}]
    /\ inbound = [b \in Bodies |-> {}]
    /\ validated = [b \in Bodies |-> {}]
    /\ refused = [b \in Bodies |-> {}]

Record(b, lane) == equivocations' = [equivocations EXCEPT ![b] = @ \cup {lane}]

SetPeerState(b, p, s) == peerState' = [peerState EXCEPT ![b][p] = s]

\* Fault: event ids are minted from the sequence alone.
NextEventSharedId(b, parents) ==
    LET own == {h \in Heads(events[b]) : h.inc = Origin[b]}
        seq == IF own = {} THEN 1 ELSE (CHOOSE h \in own : TRUE).seq + 1
    IN  [id |-> <<CHOOSE c \in Bodies : TRUE, seq>>, inc |-> Origin[b], seq |-> seq,
         prev |-> IF own = {} THEN None ELSE (CHOOSE h \in own : TRUE).id,
         parents |-> parents]

\* A uuid4 for b's next event: b's sequences grow, so the pair is never reused.
NextEvent(b, parents) ==
    LET own == {h \in Heads(events[b]) : h.inc = Origin[b]}
        seq == IF own = {} THEN 1 ELSE (CHOOSE h \in own : TRUE).seq + 1
    IN  [id |-> <<b, seq>>, inc |-> Origin[b], seq |-> seq,
         prev |-> IF own = {} THEN None ELSE (CHOOSE h \in own : TRUE).id,
         parents |-> parents]

\* append_local: one more event of the body's own incarnation.
Author(b, parents) ==
    LET e == NextEvent(b, parents)
    IN  /\ Cardinality({f \in events[b] : f.id[1] = b}) < Quota[b]
        /\ Cardinality(parents) <= MaxParents
        /\ Deps(e) \subseteq known[b]      \* else local_causal_dependency_missing
        /\ ~ IdentityConflict(events[b] \cup evidence[b], e)
        /\ InsertAndPromote(b, {e})
        /\ UNCHANGED <<exchange, validated, refused>>

\* append_local_idempotent finds its own next position already signed by
\* somebody else in the retained evidence: it rolls back and records it.
AuthorConflict(b, parents) ==
    LET e == NextEvent(b, parents)
    IN  /\ Deps(e) \subseteq known[b]
        /\ IdentityConflict(events[b] \cup evidence[b], e)
        /\ Record(b, "conversation_identity")
        /\ UNCHANGED <<ledger, cursors, peerState, issued, outbound, inbound,
                       validated, refused>>

\* Events some other body signed and may show b in a conversation.
Shown(b) == UNION {events[s] : s \in Bodies \ {b}}

Batches(b) == {S \in SUBSET Shown(b) : IsFiniteSet(S) /\ Cardinality(S) \in 1..MaxBatch}

BatchConflict(b, batch) ==
    \E e \in batch :
        IdentityConflict(events[b] \cup evidence[b] \cup batch, e)

FreshEvidence(b, batch) ==
    {e \in batch : e.id \notin known[b] /\ e \notin evidence[b]}

\* retain_conversation_evidence: a batch is kept whole or not at all, in the
\* order in which the caller lists it.
RetainEvidence(b, batch) ==
    LET fresh == FreshEvidence(b, batch)
    IN  /\ ~ BatchConflict(b, batch)
        /\ fresh # {}
        /\ Cardinality(evidence[b]) + Cardinality(fresh) <= MaxEvidence
        /\ evidence' = [evidence EXCEPT ![b] = @ \cup fresh]
        /\ \E order \in [1..Cardinality(fresh) -> fresh] :
              /\ Range(order) = fresh
              /\ convFeed' = [convFeed EXCEPT ![b] =
                    AppendAbsent(@, [i \in DOMAIN order |-> order[i].id])]
        /\ UNCHANGED <<events, known, knownFeed, exchange, validated, refused>>

RetainConflict(b, batch) ==
    /\ BatchConflict(b, batch)
    /\ Record(b, "conversation_identity")
    /\ UNCHANGED <<ledger, cursors, peerState, issued, outbound, inbound,
                   validated, refused>>

-----------------------------------------------------------------------------
\* SyncEngine.request: journal a request that names this body's heads.  An id
\* that was issued before returns the journalled request, or is refused when
\* the limit differs; neither changes state.
IssueRequest(b, rid, limit) ==
    /\ \A q \in issued[b] : q.rid # rid
    /\ issued' = [issued EXCEPT ![b] = @ \cup
            {[rid |-> rid, requester |-> Origin[b],
              heads |-> Heads(events[b]), limit |-> limit]}]
    /\ UNCHANGED <<ledger, cursors, peerState, equivocations, outbound, inbound,
                   validated, refused>>

\* The first limit rows the requester's heads do not cover (_delta_page).
Newer(rows, heads) ==
    {e \in rows : \A h \in heads : h.inc = e.inc => e.seq > h.seq}

\* Fault: the newest rows instead of the oldest.
LastOf(rows, limit) ==
    {e \in rows : Cardinality({f \in rows : Before(e, f)}) < limit}

FirstOf(rows, limit) ==
    {e \in rows : Cardinality({f \in rows : Before(f, e)}) < limit}

DeltaPage(s, q) ==
    LET newer == Newer(events[s], q.heads)
    IN  [request |-> q, sender |-> Origin[s],
         events |-> FirstOf(newer, q.limit),
         more |-> newer # FirstOf(newer, q.limit),
         offered |-> Heads(events[s])]

\* A head of the request disagrees with the row at that position.
ForkedHead(s, q) ==
    \E h \in q.heads : \E r \in events[s] : SamePosition(r, h) /\ r # h

\* Fault: the page is computed again at every retry.
FreezeAgain(s, q) ==
    /\ ~ ForkedHead(s, q)
    /\ outbound' = [outbound EXCEPT ![s] =
            {p \in @ : p.request.rid # q.rid} \cup {DeltaPage(s, q)}]
    /\ UNCHANGED <<ledger, cursors, peerState, equivocations, issued, inbound,
                   validated, refused>>

\* delta_idempotent: freeze the answer to a request seen for the first time.
\* The same request again returns the frozen page and changes nothing.
FreezePage(s, q) ==
    /\ \A p \in outbound[s] : p.request.rid # q.rid
    /\ ~ ForkedHead(s, q)
    /\ outbound' = [outbound EXCEPT ![s] = @ \cup {DeltaPage(s, q)}]
    /\ UNCHANGED <<ledger, cursors, peerState, equivocations, issued, inbound,
                   validated, refused>>

ServeForkedHead(s, q) ==
    /\ \A p \in outbound[s] : p.request.rid # q.rid
    /\ ForkedHead(s, q)
    /\ Record(s, "remote_head")
    /\ UNCHANGED <<ledger, cursors, peerState, issued, outbound, inbound,
                   validated, refused>>

\* The id was frozen for a different request.
ServeReusedId(s, q) ==
    /\ \E p \in outbound[s] : p.request.rid = q.rid /\ p.request # q
    /\ Record(s, "sync_request")
    /\ UNCHANGED <<ledger, cursors, peerState, issued, outbound, inbound,
                   validated, refused>>

-----------------------------------------------------------------------------
\* validate_delta: the page answers a request of this body and previews
\* cleanly.  A page that does not is refused and nothing is recorded.
Answers(b, p) ==
    /\ p.request.requester = Origin[b]
    /\ p.request \in issued[b]
    /\ ContentValid(p)

ValidateDelta(b, p) ==
    /\ Answers(b, p)
    /\ Verdict(b, p.events) = "ok"
    /\ validated' = [validated EXCEPT ![b] = @ \cup {p}]
    /\ UNCHANGED <<ledger, exchange, refused>>

Refuse(b, p, reason) ==
    refused' = [refused EXCEPT ![b] = @ \cup {<<p.sender, reason>>}]

RefuseDelta(b, p) ==
    /\ Answers(b, p)
    /\ Verdict(b, p.events) # "ok"
    /\ Refuse(b, p, Verdict(b, p.events))
    /\ UNCHANGED <<ledger, exchange, validated>>

\* ingest_idempotent, one action per way out.  Every one of them ends the
\* thread that had validated the page.
Finish(b, p) == validated' = [validated EXCEPT ![b] = @ \ {p}]

Receipts(b, p) ==
    {r \in inbound[b] : /\ r.page.sender = p.sender
                        /\ r.page.request.rid = p.request.rid}

Regresses(b, p) ==
    \E e \in p.events, t \in cursors[b][p.sender] : t.inc = e.inc /\ e.seq < t.seq

AdvanceCursors(b, p) ==
    cursors' = [cursors EXCEPT ![b][p.sender] = Heads(@ \cup p.events)]

IngestReplay(b, p) ==
    /\ \E r \in Receipts(b, p) : r.page = p
    /\ SetPeerState(b, p.sender, "coherent")
    /\ Finish(b, p)
    /\ UNCHANGED <<ledger, cursors, equivocations, issued, outbound, inbound, refused>>

IngestOtherPage(b, p) ==
    /\ \E r \in Receipts(b, p) : r.page # p
    /\ Record(b, "sync_page")
    /\ SetPeerState(b, p.sender, "quarantined")
    /\ Refuse(b, p, "equivocation")
    /\ Finish(b, p)
    /\ UNCHANGED <<ledger, cursors, issued, outbound, inbound>>

IngestPage(b, p) ==
    /\ Receipts(b, p) = {}
    /\ Verdict(b, p.events) = "ok"
    /\ ~ Regresses(b, p)
    /\ InsertAndPromote(b, Missing(b, p.events))
    /\ AdvanceCursors(b, p)
    /\ inbound' = [inbound EXCEPT ![b] = @ \cup
            {[page |-> p, achieved |-> Heads(events'[b])]}]
    /\ SetPeerState(b, p.sender, "coherent")
    /\ Finish(b, p)
    /\ UNCHANGED <<equivocations, issued, outbound, refused>>

IngestRegression(b, p) ==
    /\ Receipts(b, p) = {}
    /\ Verdict(b, p.events) = "ok"
    /\ Regresses(b, p)
    /\ Refuse(b, p, "regression")
    /\ Finish(b, p)
    /\ UNCHANGED <<ledger, exchange>>

\* The ledger changed between validate_delta and the transaction.
IngestConflict(b, p) ==
    LET verdict == Verdict(b, p.events)
    IN  /\ Receipts(b, p) = {}
        /\ verdict # "ok"
        /\ equivocations' = [equivocations EXCEPT ![b] = @ \cup
                {l \in {"conversation_identity"} : verdict = "equivocation"}]
        /\ SetPeerState(b, p.sender,
                IF verdict = "gap" THEN "gap" ELSE "quarantined")
        /\ Refuse(b, p, verdict)
        /\ Finish(b, p)
        /\ UNCHANGED <<ledger, cursors, issued, outbound, inbound>>

\* The process stops: only what its threads held in memory is lost.
Crash(b) ==
    /\ validated[b] # {}
    /\ validated' = [validated EXCEPT ![b] = {}]
    /\ UNCHANGED <<ledger, exchange, refused>>

-----------------------------------------------------------------------------
LocalStep(b) ==
    \/ \E parents \in SUBSET known[b] : Author(b, parents) \/ AuthorConflict(b, parents)
    \/ \E batch \in Batches(b) : RetainEvidence(b, batch) \/ RetainConflict(b, batch)
    \/ Crash(b)

ServeStep(s, b) ==
    \E q \in issued[b] :
        FreezePage(s, q) \/ ServeForkedHead(s, q) \/ ServeReusedId(s, q)

PullStep(b, s) == \E p \in outbound[s] : ValidateDelta(b, p) \/ RefuseDelta(b, p)

IngestStep(b) ==
    \E p \in validated[b] :
        \/ IngestReplay(b, p)
        \/ IngestOtherPage(b, p)
        \/ IngestPage(b, p)
        \/ IngestRegression(b, p)
        \/ IngestConflict(b, p)

Next ==
    \E b \in Bodies :
        \/ LocalStep(b)
        \/ \E rid \in CallerIds[b], limit \in Limits : IssueRequest(b, rid, limit)
        \/ \E s \in Peers[b] : ServeStep(s, b) \/ PullStep(b, s)
        \/ IngestStep(b)

Spec == Init /\ [][Next]_vars

-----------------------------------------------------------------------------
(***************************************************************************)
(* Properties.                                                             *)
(***************************************************************************)

\* Every variable holds what its table can hold.
TypeOK ==
    /\ events \in [Bodies -> SUBSET Event]
    /\ known \in [Bodies -> SUBSET EventIds]
    /\ evidence \in [Bodies -> SUBSET Event]
    /\ cursors \in [Bodies -> [Incarnations -> SUBSET Event]]
    /\ peerState \in [Bodies -> [Incarnations -> PeerStates]]
    /\ equivocations \in [Bodies -> SUBSET Lanes]
    /\ issued \in [Bodies -> SUBSET Request]
    /\ outbound \in [Bodies -> SUBSET Page]
    /\ inbound \in [Bodies -> SUBSET Receipt]
    /\ validated \in [Bodies -> SUBSET Page]
    /\ refused \in [Bodies -> SUBSET (Incarnations \X Reasons)]

\* Whatever arrives, by sync, by conversation or by a local append, one ledger
\* never holds two different records with one event id or one origin position,
\* not even between its history and its sparse evidence
\* (_check_conversation_identity before every insert).
LedgerConsistent ==
    \A b \in Bodies : \A e, f \in events[b] \cup evidence[b] :
        (e.id = f.id \/ SamePosition(e, f)) => e = f

\* Every incarnation's rows form one unbroken chain from sequence 1, each row
\* naming the row before it, however pages were limited, delayed or raced.
ChainIntact ==
    \A b \in Bodies : \A e \in events[b] :
        \/ e.seq = 1 /\ e.prev = None
        \/ \E f \in events[b] : f.inc = e.inc /\ f.seq + 1 = e.seq /\ e.prev = f.id

\* A row is 'known' exactly when all it depends on is known: _promote leaves
\* no row behind and promotes none early.
KnownIsClosure ==
    \A b \in Bodies :
        /\ known[b] \subseteq Ids(events[b])
        /\ \A e \in events[b] : e.id \in known[b] <=> Deps(e) \subseteq known[b]

Ascending(feed, rows) ==
    \A e \in rows : \A i \in DOMAIN feed :
        feed[i] = e.id => Deps(e) \subseteq {feed[j] : j \in 1..(i - 1)}

\* A reader that follows known_event_feed sees every known event once, and
\* never before something it depends on.
FeedFaithful ==
    \A b \in Bodies :
        /\ Range(knownFeed[b]) = known[b]
        /\ Len(knownFeed[b]) = Cardinality(known[b])
        /\ Ascending(knownFeed[b], events[b])

\* A reader of conversation_event_feed finds the body of every entry in exactly
\* one place: known history, or sparse evidence until history takes it over.
ConversationFeedResolves ==
    \A b \in Bodies :
        /\ Range(convFeed[b]) = known[b] \cup Ids(evidence[b])
        /\ Len(convFeed[b]) = Cardinality(Range(convFeed[b]))
        /\ known[b] \cap Ids(evidence[b]) = {}

\* A peer cursor never runs ahead of the ledger: its tips are stored rows.
CursorHonest ==
    \A b \in Bodies, p \in Incarnations : cursors[b][p] \subseteq events[b]

\* A frozen page can be served again at any later time: however much the ledger
\* has grown, serve's own checks of the stored page still pass.
FrozenPageServeable ==
    \A b \in Bodies : \A p \in outbound[b] :
        ContentValid(p) /\ Verdict(b, p.events) = "ok"

\* No page that a body of this system froze ever looks like a sequence gap to
\* its requester, in whatever order pages are pulled.
NoSyncGap ==
    \A b \in Bodies, p \in Incarnations :
        peerState[b][p] # "gap" /\ <<p, "gap">> \notin refused[b]

Signed == UNION {events[b] : b \in Bodies}

Forked == \E e, f \in Signed : e # f /\ SamePosition(e, f)

Cloned(inc) == \E s, t \in Bodies : s # t /\ Origin[s] = inc /\ Origin[t] = inc

\* An alarm has a cause.  A conflict is recorded only when two bodies sign as
\* one origin that has spoken, a forked head only when two events were signed
\* at one position, two pages for one request only when two bodies answer as
\* one origin, a peer is quarantined or refused as an equivocator only when
\* one of these happened, and a reused request id was used for two requests.
AlarmsHaveCause ==
    LET contested == \E e \in Signed : Cloned(e.inc)
    IN  \A b \in Bodies :
        /\ "conversation_identity" \in equivocations[b] => contested
        /\ "remote_head" \in equivocations[b] => Forked
        /\ "sync_page" \in equivocations[b] => \E p \in Incarnations : Cloned(p)
        /\ "sync_request" \in equivocations[b] =>
              \E s, t \in Bodies : \E q \in issued[s], r \in issued[t] :
                  q # r /\ q.rid = r.rid
        /\ \A p \in Incarnations :
              (peerState[b][p] = "quarantined" \/ <<p, "equivocation">> \in refused[b])
                 => Forked \/ Cloned(p)

\* When no two bodies share an origin, all ledgers agree: an id or a position
\* means the same event everywhere.
BodiesAgree ==
    \A e, f \in Signed \cup UNION {evidence[b] : b \in Bodies} :
        (e.id = f.id \/ SamePosition(e, f)) => e = f

\* Stored by the body that signed it, under its own origin and sequence.
Genuine(e) ==
    /\ e \in events[e.id[1]]
    /\ e.inc = Origin[e.id[1]]
    /\ e.id[2] = e.seq

\* No event is forged on the way: whatever sits in a history, in the evidence,
\* in a frozen page or in a page about to be ingested is genuine.
Authentic ==
    \A b \in Bodies :
        /\ \A e \in events[b] \cup evidence[b] : Genuine(e)
        /\ \A p \in outbound[b] \cup validated[b] : \A e \in p.events : Genuine(e)

\* A receipt for a last page (more = FALSE) means the receiver now holds
\* everything the sender offered when it froze the page, up to the branches of
\* a cloned origin: a reader that is ahead on one branch is sent nothing of the
\* other, so it may hold the rival of an offered head.
ReceiptCoversOffer ==
    \A b \in Bodies : \A r \in inbound[b] :
        ~ r.page.more =>
            \A h \in r.page.offered :
                /\ \E e \in events[b] : SamePosition(e, h) /\ (e = h \/ Cloned(h.inc))
                /\ \E a \in r.achieved : a.inc = h.inc /\ h.seq <= a.seq

\* History is append-only: no step drops or rewrites a row, a known status, an
\* issued request, a frozen page or a receipt.
DurableHistory ==
    [][\A b \in Bodies :
        /\ events[b] \subseteq events'[b]
        /\ known[b] \subseteq known'[b]
        /\ issued[b] \subseteq issued'[b]
        /\ outbound[b] \subseteq outbound'[b]
        /\ inbound[b] \subseteq inbound'[b]]_vars

\* A reader's position stays good: the feeds only grow at the end.
FeedsOnlyGrow ==
    [][\A b \in Bodies :
        /\ IsPrefix(knownFeed[b], knownFeed'[b])
        /\ IsPrefix(convFeed[b], convFeed'[b])]_vars

\* No peer cursor is lost or moves back: every tip is kept or passed.
CursorsAdvance ==
    [][\A b \in Bodies, p \in Incarnations : \A t \in cursors[b][p] :
        \E u \in cursors'[b][p] : u.inc = t.inc /\ u.seq >= t.seq]_vars

-----------------------------------------------------------------------------
(***************************************************************************)
(* What the runs check.                                                    *)
(***************************************************************************)

\* What readers are given: the feeds tell exactly what became known, in an order
\* they can resolve (ledger.py: the feed triggers, retain_conversation_evidence).
ReadersSeeTheLedger == FeedFaithful /\ ConversationFeedResolves

\* What a body knows: events of their signers, closed under their parents, and
\* the cursors it sends claim no event it does not hold (ledger.py:
\* _promote, ingest_idempotent).
KnowledgeIsSound == KnownIsClosure /\ CursorHonest /\ Authentic

\* Nothing is taken back: no row, page, receipt or position of a reader.
HistoryIsKept == DurableHistory /\ FeedsOnlyGrow /\ CursorsAdvance

\* Each body's ledger is well formed, holds one event per id and per place of a
\* chain, and every chain in it is unbroken (ledger.py: append, ingest).
LedgersHold == TypeOK /\ LedgerConsistent /\ ChainIntact

\* A pull loses nothing on the way and accuses nobody without cause: a page
\* asked for again can be served as it was, no page skips an event, a final
\* receipt covers what was offered, and every alarm stands for a conflict
\* (ledger.py: delta_idempotent, ingest_idempotent; sync.py: pull).
PullsAreSound ==
    FrozenPageServeable /\ NoSyncGap /\ ReceiptCoversOffer /\ AlarmsHaveCause

-----------------------------------------------------------------------------
(* The instances that are model-checked. *)

CONSTANTS b1, b2, b3, q1, q2, q3

\* Three bodies with keys of their own.  b2's incarnation sorts before b1's,
\* so a page of b2 may carry an event before the one it depends on.
HonestBodies == {b1, b2, b3}
HonestOrigin == (b1 :> 2) @@ (b2 :> 1) @@ (b3 :> 3)
RelayPeers == (b1 :> {}) @@ (b2 :> {b1}) @@ (b3 :> {b2})
RelayQuota == (b1 :> 1) @@ (b2 :> 1) @@ (b3 :> 0)
RelayCallers == (b1 :> {}) @@ (b2 :> {q1}) @@ (b3 :> {q2, q3})

\* b1 and b2 run on copies of one credential; b3 pulls from both, b2 pulls
\* from b3, and b2's caller mints an id that b3's caller uses too.
CloneOrigin == (b1 :> 1) @@ (b2 :> 1) @@ (b3 :> 2)
ClonePeers == (b1 :> {}) @@ (b2 :> {b1}) @@ (b3 :> {b1, b2})
CloneQuota == (b1 :> 2) @@ (b2 :> 1) @@ (b3 :> 0)
CloneCallers == (b1 :> {}) @@ (b2 :> {q1}) @@ (b3 :> {q1})
=============================================================================
