-------------------------- MODULE WeaveSyncProofs --------------------------
(***************************************************************************)
(* Safety of WeaveSync for any bodies, origins, peers, ids and bounds.     *)
(***************************************************************************)
EXTENDS WeaveSync, FiniteSetTheorems, SequenceTheorems, TLAPS

(***************************************************************************)
(* Facts about the operators.                                              *)
(***************************************************************************)

\* Heads picks rows, never invents them.
LEMMA HeadsAreRows ==
    ASSUME NEW rows
    PROVE  Heads(rows) \subseteq rows
BY DEF Heads

\* A page _plan accepts has no event that conflicts with the ledger, none that
\* leaves a gap, and no id twice.
LEMMA AcceptedPage ==
    ASSUME NEW b, NEW page, Verdict(b, page) = "ok"
    PROVE  /\ \A e \in page : ~ Conflicts(b, page, e) /\ ~ Gapped(b, page, e)
           /\ \A e, f \in page : e.id = f.id => e = f
<1> DEFINE bad == {e \in page : Conflicts(b, page, e) \/ Gapped(b, page, e)}
           first == CHOOSE e \in bad : \A f \in bad : ~ Before(f, e)
<1>1. Verdict(b, page) =
        IF \E e, f \in page : e # f /\ e.id = f.id THEN "malformed"
        ELSE IF bad = {} THEN "ok"
        ELSE IF Conflicts(b, page, first) THEN "equivocation"
        ELSE "gap"
  BY DEF Verdict
<1> HIDE DEF first
<1>2. ~ (\E e, f \in page : e # f /\ e.id = f.id) /\ bad = {}
  <2> HIDE DEF bad
  <2> QED BY <1>1
<1> QED BY <1>2

\* Promotion keeps what was known, stays inside the ledger, leaves no complete
\* row behind, and promotes a row only with everything it depends on.
LEMMA PromoteIsClosure ==
    ASSUME NEW rows, NEW K, K \subseteq Ids(rows),
           \A e, f \in rows : e.id = f.id => e = f,
           \A e \in rows : e.id \in K => Deps(e) \subseteq K
    PROVE  /\ K \subseteq Promote(rows, K)
           /\ Promote(rows, K) \subseteq Ids(rows)
           /\ \A e \in rows :
                 e.id \in Promote(rows, K) <=> Deps(e) \subseteq Promote(rows, K)
<1> DEFINE P == Promote(rows, K)
           S == {i \in P : \A e \in rows : e.id = i => Deps(e) \subseteq P}
<1>1. K \subseteq P /\ P \subseteq Ids(rows)
  BY DEF Promote
<1>2. ASSUME NEW e \in rows, Deps(e) \subseteq P PROVE e.id \in P
  <2>1. e.id \in Ids(rows) BY DEF Ids
  <2>2. ASSUME NEW T \in SUBSET Ids(rows), K \subseteq T, ClosedUnder(rows, T)
        PROVE  e.id \in T
    <3>1. P \subseteq T BY <2>2 DEF Promote
    <3> HIDE DEF P
    <3> QED BY <1>2, <2>2, <3>1 DEF ClosedUnder
  <2> QED BY <2>1, <2>2 DEF Promote
<1> HIDE DEF P
<1>3. K \subseteq S BY <1>1
<1>4. ClosedUnder(rows, S)
  <2> SUFFICES ASSUME NEW e \in rows, Deps(e) \subseteq S PROVE e.id \in S
    BY DEF ClosedUnder
  <2>1. Deps(e) \subseteq P OBVIOUS
  <2>2. e.id \in P BY <1>2, <2>1
  <2> QED BY <2>1, <2>2
<1>5. S \in SUBSET Ids(rows) BY <1>1
<1>6. P \subseteq S
  <2> HIDE DEF S
  <2> QED BY <1>3, <1>4, <1>5 DEF P, Promote
<1>7. \A e \in rows : e.id \in P => Deps(e) \subseteq P
  BY <1>6
<1> QED BY <1>1, <1>2, <1>7 DEF P
-----------------------------------------------------------------------------
(***************************************************************************)
(* Type correctness.                                                       *)
(***************************************************************************)

\* What a page inserts into a ledger and promotes keeps the tables typed.
LEMMA InsertTyped ==
    ASSUME TypeOK, NEW b \in Bodies, NEW new \in SUBSET Event, InsertAndPromote(b, new)
    PROVE  /\ events' \in [Bodies -> SUBSET Event]
           /\ known' \in [Bodies -> SUBSET EventIds]
           /\ evidence' \in [Bodies -> SUBSET Event]
<1> DEFINE rows == events[b] \cup new
<1>1. rows \in SUBSET Event BY DEF TypeOK
<1>2. Ids(rows) \subseteq EventIds BY <1>1 DEF Ids, Event
<1>3. Promote(rows, known[b]) \in SUBSET EventIds BY <1>2 DEF Promote
<1>4. events' = [events EXCEPT ![b] = rows]
  BY DEF InsertAndPromote
<1>5. known' = [known EXCEPT ![b] = Promote(rows, known[b])]
  BY DEF InsertAndPromote
<1>6. PICK K : evidence' = [evidence EXCEPT ![b] = {e \in @ : e.id \notin K}]
  BY DEF InsertAndPromote
<1> QED BY <1>1, <1>3, <1>4, <1>5, <1>6 DEF TypeOK

\* The event append_local builds is one, and it continues the body's own chain.
LEMMA NextEventTyped ==
    ASSUME TypeOK, NEW b \in Bodies, NEW parents \in SUBSET EventIds
    PROVE  LET e == NextEvent(b, parents)
           IN  /\ e \in Event
               /\ e.inc = Origin[b]
               /\ e.id = <<b, e.seq>>
               /\ \/ e.seq = 1 /\ e.prev = None
                  \/ \E h \in Heads(events[b]) :
                        h.inc = e.inc /\ h.seq + 1 = e.seq /\ e.prev = h.id
<1> DEFINE own == {h \in Heads(events[b]) : h.inc = Origin[b]}
           top == CHOOSE h \in own : TRUE
           e == NextEvent(b, parents)
<1>1. own \subseteq Event BY HeadsAreRows DEF TypeOK
<1>2. Origin[b] \in Incarnations BY OriginAssumption
<1>3. e = [id |-> <<b, IF own = {} THEN 1 ELSE top.seq + 1>>, inc |-> Origin[b],
           seq |-> IF own = {} THEN 1 ELSE top.seq + 1,
           prev |-> IF own = {} THEN None ELSE top.id, parents |-> parents]
  BY DEF NextEvent
<1>4. CASE own = {}
  BY <1>2, <1>3, <1>4 DEF Event, EventIds
<1>5. CASE own # {}
  <2>1. top \in own BY <1>5
  <2>2. top \in Event /\ top \in Heads(events[b]) /\ top.inc = Origin[b] BY <1>1, <2>1
  <2> HIDE DEF top, own
  <2>3. top.seq \in Nat /\ top.id \in EventIds BY <2>2 DEF Event
  <2> QED BY <1>2, <1>3, <1>5, <2>2, <2>3 DEF Event, EventIds
<1> QED BY <1>4, <1>5

\* A verdict that is not "ok" is one of the reasons pull can give.
LEMMA VerdictTyped ==
    ASSUME NEW b, NEW page, Verdict(b, page) # "ok"
    PROVE  Verdict(b, page) \in Reasons
<1> DEFINE bad == {e \in page : Conflicts(b, page, e) \/ Gapped(b, page, e)}
           first == CHOOSE e \in bad : \A f \in bad : ~ Before(f, e)
<1>1. Verdict(b, page) =
        IF \E e, f \in page : e # f /\ e.id = f.id THEN "malformed"
        ELSE IF bad = {} THEN "ok"
        ELSE IF Conflicts(b, page, first) THEN "equivocation"
        ELSE "gap"
  BY DEF Verdict
<1> HIDE DEF first, bad
<1> QED BY <1>1 DEF Reasons

LEMMA TypeInit == Init => TypeOK
BY DEF Init, TypeOK, PeerStates

\* Steps on one body's own ledger.
LEMMA TypeLocalStep ==
    ASSUME TypeOK, NEW b \in Bodies, LocalStep(b)
    PROVE  TypeOK'
<1>1. ASSUME NEW parents \in SUBSET known[b], Author(b, parents) PROVE TypeOK'
  <2>1. parents \in SUBSET EventIds BY DEF TypeOK
  <2>2. {NextEvent(b, parents)} \in SUBSET Event BY <2>1, NextEventTyped
  <2>3. InsertAndPromote(b, {NextEvent(b, parents)}) BY <1>1 DEF Author
  <2>4. UNCHANGED <<exchange, validated, refused>> BY <1>1 DEF Author
  <2> QED BY <2>2, <2>3, <2>4, InsertTyped DEF TypeOK, exchange
<1>2. ASSUME NEW parents \in SUBSET known[b], AuthorConflict(b, parents) PROVE TypeOK'
  BY <1>2 DEF AuthorConflict, Record, TypeOK, ledger, Lanes
<1>3. ASSUME NEW batch \in Batches(b), RetainEvidence(b, batch) PROVE TypeOK'
  <2>1. batch \subseteq Event BY <1>3 DEF Batches, Shown, TypeOK
  <2>2. FreshEvidence(b, batch) \subseteq Event BY <2>1 DEF FreshEvidence
  <2>3. evidence' = [evidence EXCEPT ![b] = @ \cup FreshEvidence(b, batch)]
    BY <1>3 DEF RetainEvidence
  <2>4. UNCHANGED <<events, known, knownFeed, exchange, validated, refused>>
    BY <1>3 DEF RetainEvidence
  <2> QED BY <2>2, <2>3, <2>4 DEF TypeOK, exchange
<1>4. ASSUME NEW batch \in Batches(b), RetainConflict(b, batch) PROVE TypeOK'
  BY <1>4 DEF RetainConflict, Record, TypeOK, ledger, Lanes
<1>5. ASSUME Crash(b) PROVE TypeOK'
  BY <1>5 DEF Crash, TypeOK, ledger, exchange
<1> QED BY <1>1, <1>2, <1>3, <1>4, <1>5 DEF LocalStep

\* Steps that issue a request or serve one.
LEMMA TypeServeStep ==
    ASSUME TypeOK, NEW b \in Bodies, NEW s \in Bodies, ServeStep(s, b)
    PROVE  TypeOK'
<1> PICK q \in issued[b] :
        FreezePage(s, q) \/ ServeForkedHead(s, q) \/ ServeReusedId(s, q)
  BY DEF ServeStep
<1>1. CASE FreezePage(s, q)
  <2>1. q \in Request BY DEF TypeOK
  <2>2. Origin[s] \in Incarnations BY OriginAssumption
  <2>3. DeltaPage(s, q) \in Page
    BY <2>1, <2>2, HeadsAreRows DEF DeltaPage, Page, FirstOf, Newer, TypeOK
  <2> QED BY <1>1, <2>3 DEF FreezePage, TypeOK, ledger
<1>2. CASE ServeForkedHead(s, q)
  BY <1>2 DEF ServeForkedHead, Record, TypeOK, ledger, Lanes
<1>3. CASE ServeReusedId(s, q)
  BY <1>3 DEF ServeReusedId, Record, TypeOK, ledger, Lanes
<1> QED BY <1>1, <1>2, <1>3

LEMMA TypeIssueRequest ==
    ASSUME TypeOK, NEW b \in Bodies, NEW rid \in CallerIds[b], NEW limit \in Limits,
           IssueRequest(b, rid, limit)
    PROVE  TypeOK'
<1>1. rid \in RequestIds BY CallerAssumption
<1>2. Origin[b] \in Incarnations BY OriginAssumption
<1>3. [rid |-> rid, requester |-> Origin[b], heads |-> Heads(events[b]),
       limit |-> limit] \in Request
  BY <1>1, <1>2, HeadsAreRows DEF Request, TypeOK
<1> QED BY <1>3 DEF IssueRequest, TypeOK, ledger

\* Steps that validate a page and steps that ingest one.
LEMMA TypePullStep ==
    ASSUME TypeOK, NEW b \in Bodies, NEW s \in Bodies, PullStep(b, s)
    PROVE  TypeOK'
<1> PICK p \in outbound[s] : ValidateDelta(b, p) \/ RefuseDelta(b, p)
  BY DEF PullStep
<1>1. p \in Page BY DEF TypeOK
<1>2. CASE ValidateDelta(b, p)
  BY <1>1, <1>2 DEF ValidateDelta, TypeOK, ledger, exchange
<1>3. CASE RefuseDelta(b, p)
  <2>1. Verdict(b, p.events) \in Reasons BY <1>3, VerdictTyped DEF RefuseDelta
  <2>2. p.sender \in Incarnations BY <1>1 DEF Page
  <2> QED BY <1>3, <2>1, <2>2 DEF RefuseDelta, Refuse, TypeOK, ledger, exchange
<1> QED BY <1>2, <1>3

LEMMA TypeIngestStep ==
    ASSUME TypeOK, NEW b \in Bodies, IngestStep(b)
    PROVE  TypeOK'
<1> PICK p \in validated[b] :
        \/ IngestReplay(b, p)
        \/ IngestOtherPage(b, p)
        \/ IngestPage(b, p)
        \/ IngestRegression(b, p)
        \/ IngestConflict(b, p)
  BY DEF IngestStep
<1>1. p \in Page BY DEF TypeOK
<1>2. p.sender \in Incarnations /\ p.events \in SUBSET Event BY <1>1 DEF Page
<1>3. CASE IngestReplay(b, p)
  BY <1>2, <1>3 DEF IngestReplay, SetPeerState, Finish, TypeOK, ledger, PeerStates
<1>4. CASE IngestOtherPage(b, p)
  BY <1>2, <1>4 DEF IngestOtherPage, Record, SetPeerState, Refuse, Finish, TypeOK,
                    ledger, PeerStates, Lanes, Reasons
<1>5. CASE IngestPage(b, p)
  <2>1. Missing(b, p.events) \in SUBSET Event BY <1>2 DEF Missing
  <2>2. InsertAndPromote(b, Missing(b, p.events)) BY <1>5 DEF IngestPage
  <2>3. /\ events' \in [Bodies -> SUBSET Event]
        /\ known' \in [Bodies -> SUBSET EventIds]
        /\ evidence' \in [Bodies -> SUBSET Event]
    BY <2>1, <2>2, InsertTyped
  <2>4. cursors' \in [Bodies -> [Incarnations -> SUBSET Event]]
    <3>1. cursors' = [cursors EXCEPT ![b][p.sender] = Heads(@ \cup p.events)]
      BY <1>5 DEF IngestPage, AdvanceCursors
    <3>2. Heads(cursors[b][p.sender] \cup p.events) \in SUBSET Event
      BY <1>2, HeadsAreRows DEF TypeOK
    <3> QED BY <1>2, <3>1, <3>2 DEF TypeOK
  <2>5. Heads(events'[b]) \in SUBSET Event BY <2>3, HeadsAreRows
  <2>6. [page |-> p, achieved |-> Heads(events'[b])] \in Receipt
    BY <1>1, <2>5 DEF Receipt
  <2>7. /\ inbound' = [inbound EXCEPT ![b] = @ \cup
                {[page |-> p, achieved |-> Heads(events'[b])]}]
        /\ peerState' = [peerState EXCEPT ![b][p.sender] = "coherent"]
        /\ validated' = [validated EXCEPT ![b] = @ \ {p}]
        /\ UNCHANGED <<equivocations, issued, outbound, refused>>
    BY <1>5 DEF IngestPage, SetPeerState, Finish
  <2> QED BY <1>2, <2>3, <2>4, <2>6, <2>7 DEF TypeOK, PeerStates
<1>6. CASE IngestRegression(b, p)
  BY <1>2, <1>6 DEF IngestRegression, Refuse, Finish, TypeOK, ledger, exchange, Reasons
<1>7. CASE IngestConflict(b, p)
  <2>1. Verdict(b, p.events) \in Reasons BY <1>7, VerdictTyped DEF IngestConflict
  <2> QED BY <1>2, <1>7, <2>1 DEF IngestConflict, SetPeerState, Refuse, Finish, TypeOK,
                    ledger, PeerStates, Lanes
<1> QED BY <1>3, <1>4, <1>5, <1>6, <1>7

LEMMA TypeStep == TypeOK /\ [Next]_vars => TypeOK'
<1> SUFFICES ASSUME TypeOK, [Next]_vars PROVE TypeOK'
  OBVIOUS
<1>1. CASE UNCHANGED vars
  BY <1>1 DEF vars, ledger, exchange, TypeOK
<1>2. CASE Next
  <2> PICK b \in Bodies :
        \/ LocalStep(b)
        \/ \E rid \in CallerIds[b], limit \in Limits : IssueRequest(b, rid, limit)
        \/ \E s \in Peers[b] : ServeStep(s, b) \/ PullStep(b, s)
        \/ IngestStep(b)
    BY <1>2 DEF Next
  <2>1. Peers[b] \subseteq Bodies BY PeerAssumption
  <2> QED BY <2>1, TypeLocalStep, TypeIssueRequest, TypeServeStep, TypePullStep,
             TypeIngestStep
<1> QED BY <1>1, <1>2

\* Every reachable state is well typed: tables, journals and in-flight pages
\* (ledger.py's schema), for any number of bodies and any bounds.
THEOREM TypeCorrect == Spec => []TypeOK
BY TypeInit, TypeStep, PTL DEF Spec
-----------------------------------------------------------------------------
(***************************************************************************)
(* Consistency of one ledger.  Only three actions touch a ledger's rows.   *)
(***************************************************************************)
rowsAndCursors == <<events, known, evidence, cursors>>

LEMMA StepKinds ==
    ASSUME Next
    PROVE  \/ \E b \in Bodies : \E parents \in SUBSET known[b] : Author(b, parents)
           \/ \E b \in Bodies : \E batch \in Batches(b) : RetainEvidence(b, batch)
           \/ \E b \in Bodies : \E p \in validated[b] : IngestPage(b, p)
           \/ UNCHANGED rowsAndCursors
BY DEF Next, LocalStep, ServeStep, PullStep, IngestStep, AuthorConflict,
       RetainConflict, IssueRequest, FreezePage, ServeForkedHead, ServeReusedId,
       ValidateDelta, RefuseDelta, IngestReplay, IngestOtherPage, IngestRegression,
       IngestConflict, Crash, ledger, exchange, rowsAndCursors

\* Rows that are unique by id and position, in history and evidence together.
Unique(rows) == \A e, f \in rows : (e.id = f.id \/ SamePosition(e, f)) => e = f

\* What may be inserted: rows that conflict neither with the ledger nor with
\* each other.
Insertable(b, new) ==
    /\ \A e \in new : ~ IdentityConflict(events[b] \cup evidence[b], e)
    /\ Unique(new)

LEMMA AuthorInsertable ==
    ASSUME NEW b, NEW parents, Author(b, parents)
    PROVE  Insertable(b, {NextEvent(b, parents)})
BY DEF Author, Insertable, Unique

LEMMA PageInsertable ==
    ASSUME NEW b, NEW page, Verdict(b, page) = "ok"
    PROVE  Insertable(b, Missing(b, page))
<1>1. /\ \A e \in page : ~ Conflicts(b, page, e)
      /\ \A e, f \in page : e.id = f.id => e = f
  BY AcceptedPage
<1>2. Missing(b, page) \subseteq page BY DEF Missing
<1>3. \A e \in Missing(b, page) : ~ IdentityConflict(events[b] \cup evidence[b], e)
  BY <1>1, <1>2 DEF Conflicts
<1>4. ASSUME NEW e \in Missing(b, page), NEW f \in Missing(b, page),
             e.id = f.id \/ SamePosition(e, f)
      PROVE  e = f
  <2>1. e \notin events[b] BY DEF Missing
  <2>2. CASE e.id = f.id BY <1>1, <1>2, <2>2
  <2>3. CASE SamePosition(e, f) BY <1>1, <1>2, <2>1, <2>3 DEF Conflicts
  <2> QED BY <1>4, <2>2, <2>3
<1> QED BY <1>3, <1>4 DEF Insertable, Unique

\* Inserting such rows keeps the ledger's identities unique and its known set
\* causally closed.
LEMMA InsertKeepsLedger ==
    ASSUME TypeOK, LedgerConsistent, KnownIsClosure,
           NEW b \in Bodies, NEW new \in SUBSET Event, Insertable(b, new),
           InsertAndPromote(b, new)
    PROVE  LedgerConsistent' /\ KnownIsClosure' /\ events' = [events EXCEPT ![b] = @ \cup new]
<1> DEFINE rows == events[b] \cup new
           K == Promote(rows, known[b])
<1>1. /\ events' = [events EXCEPT ![b] = rows]
      /\ known' = [known EXCEPT ![b] = K]
      /\ evidence' = [evidence EXCEPT ![b] = {e \in @ : e.id \notin K}]
  BY DEF InsertAndPromote
<1>2. Unique(events[b] \cup evidence[b] \cup new)
  <2> SUFFICES ASSUME NEW e \in events[b] \cup evidence[b] \cup new,
                      NEW f \in events[b] \cup evidence[b] \cup new,
                      e.id = f.id \/ SamePosition(e, f)
               PROVE  e = f
    BY DEF Unique
  <2>1. CASE e \in events[b] \cup evidence[b] /\ f \in events[b] \cup evidence[b]
    BY <2>1 DEF LedgerConsistent
  <2>2. CASE e \in new /\ f \in events[b] \cup evidence[b]
    BY <2>2 DEF Insertable, IdentityConflict, SamePosition
  <2>3. CASE f \in new /\ e \in events[b] \cup evidence[b]
    BY <2>3 DEF Insertable, IdentityConflict, SamePosition
  <2>4. CASE e \in new /\ f \in new
    BY <2>4 DEF Insertable, Unique
  <2> QED BY <2>1, <2>2, <2>3, <2>4
<1>3. \A e, f \in rows : e.id = f.id => e = f
  BY <1>2 DEF Unique
<1>4. known[b] \subseteq Ids(events[b]) BY DEF KnownIsClosure
<1>5. known[b] \subseteq Ids(rows) BY <1>4 DEF Ids
<1>6. ASSUME NEW e \in rows, e.id \in known[b] PROVE Deps(e) \subseteq known[b]
  <2>1. PICK f \in events[b] : f.id = e.id BY <1>4, <1>6 DEF Ids
  <2>2. e = f BY <1>3, <2>1
  <2> QED BY <1>6, <2>2 DEF KnownIsClosure
<1>7. /\ K \subseteq Ids(rows)
      /\ \A e \in rows : e.id \in K <=> Deps(e) \subseteq K
  BY <1>3, <1>5, <1>6, PromoteIsClosure
<1> HIDE DEF K
<1>8. LedgerConsistent'
  <2> SUFFICES ASSUME NEW c \in Bodies,
                      NEW e \in events'[c] \cup evidence'[c],
                      NEW f \in events'[c] \cup evidence'[c],
                      e.id = f.id \/ SamePosition(e, f)
               PROVE  e = f
    BY DEF LedgerConsistent, SamePosition
  <2>1. CASE c = b
    <3>1. events'[c] \cup evidence'[c] \subseteq events[b] \cup evidence[b] \cup new
      BY <1>1, <2>1 DEF TypeOK
    <3> QED BY <1>2, <3>1 DEF Unique
  <2>2. CASE c # b
    <3>1. events'[c] = events[c] /\ evidence'[c] = evidence[c]
      BY <1>1, <2>2 DEF TypeOK
    <3> QED BY <3>1 DEF LedgerConsistent
  <2> QED BY <2>1, <2>2
<1>9. KnownIsClosure'
  <2> SUFFICES ASSUME NEW c \in Bodies
               PROVE  /\ known'[c] \subseteq Ids(events'[c])
                      /\ \A e \in events'[c] : e.id \in known'[c] <=> Deps(e) \subseteq known'[c]
    BY DEF KnownIsClosure, Ids, Deps
  <2>1. CASE c = b
    <3>1. events'[c] = rows /\ known'[c] = K BY <1>1, <2>1 DEF TypeOK
    <3> QED BY <1>7, <3>1
  <2>2. CASE c # b
    <3>1. events'[c] = events[c] /\ known'[c] = known[c] BY <1>1, <2>2 DEF TypeOK
    <3> QED BY <3>1 DEF KnownIsClosure
  <2> QED BY <2>1, <2>2
<1> QED BY <1>1, <1>8, <1>9

\* The ledger part of the inductive invariant.
LedgerInv == TypeOK /\ LedgerConsistent /\ KnownIsClosure /\ ChainIntact /\ CursorHonest

LEMMA LedgerInit == Init => LedgerInv
BY TypeInit DEF Init, LedgerInv, LedgerConsistent, KnownIsClosure, ChainIntact,
                CursorHonest, Ids

\* Rows grow and every new row continues a chain: the chains stay whole.
LEMMA InsertKeepsChains ==
    ASSUME ChainIntact, NEW b \in Bodies, NEW new, events \in [Bodies -> SUBSET Event],
           events' = [events EXCEPT ![b] = @ \cup new],
           \A e \in new : \/ e.seq = 1 /\ e.prev = None
                          \/ \E f \in events[b] \cup new :
                                f.inc = e.inc /\ f.seq + 1 = e.seq /\ e.prev = f.id
    PROVE  ChainIntact'
<1> SUFFICES ASSUME NEW c \in Bodies, NEW e \in events'[c]
             PROVE  \/ e.seq = 1 /\ e.prev = None
                    \/ \E f \in events'[c] :
                          f.inc = e.inc /\ f.seq + 1 = e.seq /\ e.prev = f.id
  BY DEF ChainIntact
<1>1. CASE c = b
  <2>1. events'[c] = events[b] \cup new BY <1>1
  <2> QED BY <1>1, <2>1 DEF ChainIntact
<1>2. CASE c # b
  BY <1>2 DEF ChainIntact
<1> QED BY <1>1, <1>2

LEMMA LedgerStep == LedgerInv /\ [Next]_vars => LedgerInv'
<1> SUFFICES ASSUME LedgerInv, [Next]_vars PROVE LedgerInv'
  OBVIOUS
<1> USE DEF LedgerInv
<1>1. TypeOK' BY TypeStep
<1>2. CASE UNCHANGED rowsAndCursors
  BY <1>1, <1>2 DEF rowsAndCursors, LedgerConsistent, KnownIsClosure, ChainIntact,
                    CursorHonest
<1>3. ASSUME NEW b \in Bodies, NEW parents \in SUBSET known[b], Author(b, parents)
      PROVE  LedgerInv'
  <2> DEFINE e == NextEvent(b, parents)
  <2>1. parents \in SUBSET EventIds BY DEF TypeOK
  <2>2. /\ e \in Event
        /\ \/ e.seq = 1 /\ e.prev = None
           \/ \E h \in Heads(events[b]) :
                 h.inc = e.inc /\ h.seq + 1 = e.seq /\ e.prev = h.id
    BY <2>1, NextEventTyped
  <2>3. InsertAndPromote(b, {e}) /\ UNCHANGED cursors BY <1>3 DEF Author, exchange
  <2>4. Insertable(b, {e}) BY <1>3, AuthorInsertable
  <2>5. /\ LedgerConsistent' /\ KnownIsClosure'
        /\ events' = [events EXCEPT ![b] = @ \cup {e}]
    BY <2>2, <2>3, <2>4, InsertKeepsLedger
  <2> HIDE DEF e
  <2>6. ChainIntact'
    <3>1. \/ e.seq = 1 /\ e.prev = None
          \/ \E f \in events[b] \cup {e} :
                f.inc = e.inc /\ f.seq + 1 = e.seq /\ e.prev = f.id
      BY <2>2, HeadsAreRows
    <3> DEFINE new == {e}
    <3>2. \A x \in new :
            \/ x.seq = 1 /\ x.prev = None
            \/ \E f \in events[b] \cup new :
                  f.inc = x.inc /\ f.seq + 1 = x.seq /\ x.prev = f.id
      BY <3>1
    <3>3. ChainIntact /\ events \in [Bodies -> SUBSET Event] BY DEF TypeOK
    <3>4. events' = [events EXCEPT ![b] = @ \cup new] BY <2>5
    <3> HIDE DEF new, LedgerInv
    <3> QED BY <3>2, <3>3, <3>4, InsertKeepsChains
  <2>7. CursorHonest'
    BY <2>3, <2>5 DEF CursorHonest, TypeOK
  <2> QED BY <1>1, <2>5, <2>6, <2>7
<1>4. ASSUME NEW b \in Bodies, NEW batch \in Batches(b), RetainEvidence(b, batch)
      PROVE  LedgerInv'
  <2> DEFINE fresh == FreshEvidence(b, batch)
  <2>1. /\ evidence' = [evidence EXCEPT ![b] = @ \cup fresh]
        /\ UNCHANGED <<events, known, cursors>>
        /\ ~ BatchConflict(b, batch)
    BY <1>4 DEF RetainEvidence, exchange
  <2>2. fresh \subseteq batch BY DEF FreshEvidence
  <2>3. LedgerConsistent'
    <3> SUFFICES ASSUME NEW c \in Bodies,
                        NEW e \in events[c] \cup evidence'[c],
                        NEW f \in events[c] \cup evidence'[c],
                        e.id = f.id \/ SamePosition(e, f)
                 PROVE  e = f
      BY <2>1 DEF LedgerConsistent, SamePosition
    <3> HIDE DEF fresh
    <3>1. CASE c # b
      <4>1. evidence'[c] = evidence[c] BY <2>1, <3>1 DEF TypeOK
      <4> QED BY <4>1 DEF LedgerConsistent
    <3>2. CASE c = b
      <4>1. evidence'[c] = evidence[b] \cup fresh BY <2>1, <3>2 DEF TypeOK
      <4>2. CASE e \in batch \/ f \in batch
        BY <2>1, <2>2, <3>2, <4>1, <4>2 DEF BatchConflict, IdentityConflict, SamePosition
      <4>3. CASE e \notin batch /\ f \notin batch
        BY <2>2, <3>2, <4>1, <4>3 DEF LedgerConsistent
      <4> QED BY <4>2, <4>3
    <3> QED BY <3>1, <3>2
  <2>4. KnownIsClosure' /\ ChainIntact' /\ CursorHonest'
    BY <2>1 DEF KnownIsClosure, ChainIntact, CursorHonest
  <2> QED BY <1>1, <2>3, <2>4
<1>5. ASSUME NEW b \in Bodies, NEW p \in validated[b], IngestPage(b, p)
      PROVE  LedgerInv'
  <2> DEFINE new == Missing(b, p.events)
  <2>1. p \in Page BY DEF TypeOK
  <2>2. p.events \in SUBSET Event /\ p.sender \in Incarnations BY <2>1 DEF Page
  <2>3. /\ Verdict(b, p.events) = "ok"
        /\ InsertAndPromote(b, new)
        /\ cursors' = [cursors EXCEPT ![b][p.sender] = Heads(@ \cup p.events)]
    BY <1>5 DEF IngestPage, AdvanceCursors
  <2>4. new \in SUBSET Event /\ new \subseteq p.events /\ p.events \subseteq events[b] \cup new
    BY <2>2 DEF Missing
  <2>5. Insertable(b, new) BY <2>3, PageInsertable
  <2>6. /\ LedgerConsistent' /\ KnownIsClosure'
        /\ events' = [events EXCEPT ![b] = @ \cup new]
    BY <2>3, <2>4, <2>5, InsertKeepsLedger
  <2>7. ChainIntact'
    <3>1. ASSUME NEW e \in new
          PROVE  \/ e.seq = 1 /\ e.prev = None
                 \/ \E f \in events[b] \cup new :
                       f.inc = e.inc /\ f.seq + 1 = e.seq /\ e.prev = f.id
      <4> DEFINE seen == events[b] \cup {f \in new : Before(f, e)}
      <4>1. Follows(seen, e)
        <5>1. ~ Gapped(b, p.events, e) BY <2>3, <2>4, AcceptedPage
        <5>2. e \notin events[b] BY DEF Missing
        <5> QED BY <5>1, <5>2 DEF Gapped
      <4>2. Heads(seen) \subseteq events[b] \cup new BY HeadsAreRows
      <4>3. \/ e.seq = 1 /\ e.prev = None
            \/ \E h \in Heads(seen) : h.inc = e.inc /\ e.seq = h.seq + 1 /\ e.prev = h.id
        BY <4>1 DEF Follows
      <4> QED BY <4>2, <4>3
    <3>2. ChainIntact /\ events \in [Bodies -> SUBSET Event] BY DEF TypeOK
    <3> HIDE DEF new, LedgerInv
    <3> QED BY <2>6, <3>1, <3>2, InsertKeepsChains
  <2>8. CursorHonest'
    <3> HIDE DEF new
    <3> SUFFICES ASSUME NEW c \in Bodies, NEW q \in Incarnations
                 PROVE  cursors'[c][q] \subseteq events'[c]
      BY DEF CursorHonest
    <3>1. events[c] \subseteq events'[c] BY <2>6 DEF TypeOK
    <3>2. CASE c = b /\ q = p.sender
      <4>1. cursors'[c][q] = Heads(cursors[b][p.sender] \cup p.events)
        BY <2>2, <2>3, <3>2 DEF TypeOK
      <4>2. cursors[b][p.sender] \subseteq events[b] BY <2>2 DEF CursorHonest
      <4>3. events'[c] = events[b] \cup new BY <2>6, <3>2 DEF TypeOK
      <4> QED BY <2>4, <4>1, <4>2, <4>3, HeadsAreRows
    <3>3. CASE ~ (c = b /\ q = p.sender)
      <4>1. cursors'[c][q] = cursors[c][q] BY <2>2, <2>3, <3>3 DEF TypeOK
      <4> QED BY <3>1, <4>1 DEF CursorHonest
    <3> QED BY <3>2, <3>3
  <2> QED BY <1>1, <2>6, <2>7, <2>8
<1>6. CASE UNCHANGED vars
  BY <1>2, <1>6 DEF vars, ledger, exchange, rowsAndCursors
<1> QED BY <1>2, <1>3, <1>4, <1>5, <1>6, StepKinds

LEMMA LedgerAlways == Spec => []LedgerInv
BY LedgerInit, LedgerStep, PTL DEF Spec

\* No ledger ever holds two different records under one id or one origin
\* position, in history and evidence together, whoever equivocates.
THEOREM LedgerIsConsistent == Spec => []LedgerConsistent
BY LedgerAlways, PTL DEF LedgerInv

\* Every incarnation's history is one unbroken chain in every ledger.
THEOREM ChainsStayIntact == Spec => []ChainIntact
BY LedgerAlways, PTL DEF LedgerInv

\* A row is known exactly when everything it depends on is known.
THEOREM KnownIsCausallyClosed == Spec => []KnownIsClosure
BY LedgerAlways, PTL DEF LedgerInv

\* A peer cursor names only rows the ledger holds.
THEOREM CursorsAreHonest == Spec => []CursorHonest
BY LedgerAlways, PTL DEF LedgerInv
-----------------------------------------------------------------------------
(***************************************************************************)
(* Append-only history.                                                    *)
(***************************************************************************)

\* An insert that keeps identities unique drops no row and no known status.
LEMMA InsertGrows ==
    ASSUME LedgerInv, NEW b \in Bodies, NEW new \in SUBSET Event, Insertable(b, new),
           InsertAndPromote(b, new)
    PROVE  \A c \in Bodies : events[c] \subseteq events'[c] /\ known[c] \subseteq known'[c]
<1> DEFINE rows == events[b] \cup new
<1>1. /\ events' = [events EXCEPT ![b] = rows]
      /\ known' = [known EXCEPT ![b] = Promote(rows, known[b])]
  BY DEF InsertAndPromote
<1>2. known[b] \subseteq Promote(rows, known[b])
  <2>1. known[b] \subseteq Ids(rows) BY DEF LedgerInv, KnownIsClosure, Ids
  <2> QED BY <2>1 DEF Promote
<1> QED BY <1>1, <1>2 DEF LedgerInv, TypeOK

\* No step drops a row or takes back a known status.
LEMMA LedgerGrows ==
    ASSUME LedgerInv, [Next]_vars
    PROVE  \A c \in Bodies : events[c] \subseteq events'[c] /\ known[c] \subseteq known'[c]
<1>1. CASE UNCHANGED rowsAndCursors BY <1>1 DEF rowsAndCursors
<1>2. CASE UNCHANGED vars BY <1>2 DEF vars, ledger
<1>3. ASSUME NEW b \in Bodies, NEW parents \in SUBSET known[b], Author(b, parents)
      PROVE  \A c \in Bodies : events[c] \subseteq events'[c] /\ known[c] \subseteq known'[c]
  <2>1. parents \in SUBSET EventIds /\ TypeOK BY DEF TypeOK, LedgerInv
  <2>2. {NextEvent(b, parents)} \in SUBSET Event BY <2>1, NextEventTyped
  <2>3. InsertAndPromote(b, {NextEvent(b, parents)}) BY <1>3 DEF Author
  <2>4. Insertable(b, {NextEvent(b, parents)}) BY <1>3, AuthorInsertable
  <2> QED BY <2>2, <2>3, <2>4, InsertGrows
<1>4. ASSUME NEW b \in Bodies, NEW batch \in Batches(b), RetainEvidence(b, batch)
      PROVE  \A c \in Bodies : events[c] \subseteq events'[c] /\ known[c] \subseteq known'[c]
  BY <1>4 DEF RetainEvidence
<1>5. ASSUME NEW b \in Bodies, NEW p \in validated[b], IngestPage(b, p)
      PROVE  \A c \in Bodies : events[c] \subseteq events'[c] /\ known[c] \subseteq known'[c]
  <2>1. p \in Page BY DEF TypeOK, LedgerInv
  <2>2. Missing(b, p.events) \in SUBSET Event BY <2>1 DEF Page, Missing
  <2>3. InsertAndPromote(b, Missing(b, p.events)) BY <1>5 DEF IngestPage
  <2>4. Insertable(b, Missing(b, p.events)) BY <1>5, PageInsertable DEF IngestPage
  <2> QED BY <2>2, <2>3, <2>4, InsertGrows
<1> QED BY <1>1, <1>2, <1>3, <1>4, <1>5, StepKinds

\* What one step may do to the journals and to the pages in memory: journals
\* only grow, a new frozen page holds rows of its sender, and a page waiting to
\* be ingested was frozen by somebody.
JournalGrowth ==
    \A c \in Bodies :
        /\ issued[c] \subseteq issued'[c]
        /\ outbound[c] \subseteq outbound'[c]
        /\ inbound[c] \subseteq inbound'[c]
        /\ \A p \in outbound'[c] : p \in outbound[c] \/ p.events \subseteq events[c]
        /\ \A p \in validated'[c] :
              p \in validated[c] \/ \E s \in Bodies : p \in outbound[s]

LEMMA JournalStep ==
    ASSUME TypeOK, [Next]_vars
    PROVE  JournalGrowth
<1> USE DEF TypeOK, JournalGrowth
<1>1. CASE UNCHANGED <<issued, outbound, inbound, validated>>
  BY <1>1
<1>2. ASSUME NEW b \in Bodies, LocalStep(b) PROVE JournalGrowth
  <2>1. CASE UNCHANGED <<issued, outbound, inbound, validated>> BY <1>1, <2>1
  <2>2. CASE Crash(b) BY <2>2 DEF Crash, exchange
  <2> QED BY <1>2, <2>1, <2>2 DEF LocalStep, Author, AuthorConflict, RetainEvidence,
                                  RetainConflict, exchange
<1>3. ASSUME NEW b \in Bodies, NEW rid, NEW limit, IssueRequest(b, rid, limit)
      PROVE  JournalGrowth
  BY <1>3 DEF IssueRequest
<1>4. ASSUME NEW b \in Bodies, NEW s \in Bodies, ServeStep(s, b) PROVE JournalGrowth
  <2>1. PICK q \in issued[b] :
          FreezePage(s, q) \/ ServeForkedHead(s, q) \/ ServeReusedId(s, q)
    BY <1>4 DEF ServeStep
  <2>2. CASE FreezePage(s, q)
    <3>1. DeltaPage(s, q).events \subseteq events[s] BY DEF DeltaPage, FirstOf, Newer
    <3>2. /\ outbound' = [outbound EXCEPT ![s] = @ \cup {DeltaPage(s, q)}]
          /\ UNCHANGED <<issued, inbound, validated>>
      BY <2>2 DEF FreezePage
    <3> QED BY <3>1, <3>2
  <2>3. CASE ServeForkedHead(s, q) \/ ServeReusedId(s, q)
    BY <1>1, <2>3 DEF ServeForkedHead, ServeReusedId
  <2> QED BY <2>1, <2>2, <2>3
<1>5. ASSUME NEW b \in Bodies, NEW s \in Bodies, PullStep(b, s) PROVE JournalGrowth
  <2>1. PICK p \in outbound[s] : ValidateDelta(b, p) \/ RefuseDelta(b, p)
    BY <1>5 DEF PullStep
  <2>2. CASE ValidateDelta(b, p)
    BY <2>2 DEF ValidateDelta, exchange
  <2>3. CASE RefuseDelta(b, p)
    BY <1>1, <2>3 DEF RefuseDelta, exchange
  <2> QED BY <2>1, <2>2, <2>3
<1>6. ASSUME NEW b \in Bodies, IngestStep(b) PROVE JournalGrowth
  <2>1. PICK p \in validated[b] :
          \/ IngestReplay(b, p)
          \/ IngestOtherPage(b, p)
          \/ IngestPage(b, p)
          \/ IngestRegression(b, p)
          \/ IngestConflict(b, p)
    BY <1>6 DEF IngestStep
  <2>2. /\ validated' = [validated EXCEPT ![b] = @ \ {p}]
        /\ UNCHANGED <<issued, outbound>>
        /\ \/ UNCHANGED inbound
           \/ \E r : inbound' = [inbound EXCEPT ![b] = @ \cup {r}]
    BY <2>1 DEF IngestReplay, IngestOtherPage, IngestPage, IngestRegression,
                IngestConflict, Finish, exchange
  <2> QED BY <2>2
<1>7. CASE UNCHANGED vars BY <1>1, <1>7 DEF vars, exchange
<1>8. CASE Next
  <2> PICK b \in Bodies :
        \/ LocalStep(b)
        \/ \E rid \in CallerIds[b], limit \in Limits : IssueRequest(b, rid, limit)
        \/ \E s \in Peers[b] : ServeStep(s, b) \/ PullStep(b, s)
        \/ IngestStep(b)
    BY <1>8 DEF Next
  <2>1. Peers[b] \subseteq Bodies BY PeerAssumption
  <2> HIDE DEF JournalGrowth
  <2> QED BY <2>1, <1>2, <1>3, <1>4, <1>5, <1>6
<1> QED BY <1>7, <1>8

\* History and journals are append-only under every interleaving.
THEOREM HistoryIsDurable == Spec => DurableHistory
<1>1. LedgerInv /\ [Next]_vars =>
        [\A b \in Bodies :
            /\ events[b] \subseteq events'[b]
            /\ known[b] \subseteq known'[b]
            /\ issued[b] \subseteq issued'[b]
            /\ outbound[b] \subseteq outbound'[b]
            /\ inbound[b] \subseteq inbound'[b]]_vars
  BY LedgerGrows, JournalStep DEF LedgerInv, JournalGrowth
<1> QED BY <1>1, LedgerAlways, PTL DEF Spec, DurableHistory

-----------------------------------------------------------------------------
(***************************************************************************)
(* Agreement.  Events are never altered on the way, so what two ledgers    *)
(* hold under one id or position came from one signer's ledger.            *)
(***************************************************************************)
AgreementInv == LedgerInv /\ Authentic

\* An event that is genuine stays genuine, because its signer keeps it.
LEMMA GenuineStays ==
    ASSUME TypeOK, \A c \in Bodies : events[c] \subseteq events'[c],
           NEW e \in Event, Genuine(e)
    PROVE  Genuine(e)'
<1>1. e.id[1] \in Bodies BY DEF Event, EventIds
<1> QED BY <1>1 DEF Genuine

LEMMA AuthenticStep == AgreementInv /\ [Next]_vars => Authentic'
<1> SUFFICES ASSUME AgreementInv, [Next]_vars PROVE Authentic'
  OBVIOUS
<1>1. TypeOK /\ LedgerInv /\ Authentic BY DEF AgreementInv, LedgerInv
<1>2. \A c \in Bodies : events[c] \subseteq events'[c] BY <1>1, LedgerGrows
<1>3. ASSUME NEW e \in Event, Genuine(e) PROVE Genuine(e)'
  BY <1>1, <1>2, <1>3, GenuineStays
<1>4. ASSUME NEW c \in Bodies
      PROVE  /\ \A e \in events[c] \cup evidence[c] : e \in Event /\ Genuine(e)'
             /\ \A p \in outbound[c] \cup validated[c] : \A e \in p.events : Genuine(e)'
  <2>1. \A e \in events[c] \cup evidence[c] : e \in Event /\ Genuine(e)
    BY <1>1 DEF TypeOK, Authentic
  <2>2. \A p \in outbound[c] \cup validated[c] : \A e \in p.events : e \in Event /\ Genuine(e)
    BY <1>1 DEF TypeOK, Authentic, Page
  <2> QED BY <1>3, <2>1, <2>2
<1> DEFINE Sound(rows) == \A e \in rows : Genuine(e)'
<1>5. ASSUME NEW c \in Bodies
      PROVE  Sound(events'[c]) /\ Sound(evidence'[c])
  <2> USE DEF Sound
  <2>1. CASE UNCHANGED rowsAndCursors BY <1>4, <2>1 DEF rowsAndCursors
  <2>2. CASE UNCHANGED vars BY <1>4, <2>2 DEF vars, ledger
  <2>3. ASSUME NEW b \in Bodies, NEW parents \in SUBSET known[b], Author(b, parents)
        PROVE  Sound(events'[c]) /\ Sound(evidence'[c])
    <3>1. parents \in SUBSET EventIds BY <1>1 DEF TypeOK
    <3> PICK e : e = NextEvent(b, parents) OBVIOUS
    <3>2. e \in Event /\ e.inc = Origin[b] /\ e.id = <<b, e.seq>>
      BY <1>1, <3>1, NextEventTyped
    <3>3. /\ events' = [events EXCEPT ![b] = @ \cup {e}]
          /\ \E K : evidence' = [evidence EXCEPT ![b] = {f \in @ : f.id \notin K}]
      BY <2>3 DEF Author, InsertAndPromote
    <3>4. Genuine(e)' BY <1>1, <3>2, <3>3 DEF Genuine, TypeOK
    <3>5. events'[c] \subseteq events[c] \cup {e} /\ evidence'[c] \subseteq evidence[c]
      BY <1>1, <3>3 DEF TypeOK
    <3> QED BY <1>4, <3>4, <3>5
  <2>4. ASSUME NEW b \in Bodies, NEW batch \in Batches(b), RetainEvidence(b, batch)
        PROVE  Sound(events'[c]) /\ Sound(evidence'[c])
    <3>1. /\ evidence' = [evidence EXCEPT ![b] = @ \cup FreshEvidence(b, batch)]
          /\ events' = events
      BY <2>4 DEF RetainEvidence
    <3>2. evidence'[c] \subseteq evidence[c] \cup FreshEvidence(b, batch)
      BY <1>1, <3>1 DEF TypeOK
    <3>3. ASSUME NEW e \in FreshEvidence(b, batch) PROVE Genuine(e)'
      <4>1. PICK s \in Bodies : e \in events[s] BY DEF FreshEvidence, Batches, Shown
      <4> QED BY <1>4, <4>1
    <3> QED BY <1>4, <3>1, <3>2, <3>3
  <2>5. ASSUME NEW b \in Bodies, NEW p \in validated[b], IngestPage(b, p)
        PROVE  Sound(events'[c]) /\ Sound(evidence'[c])
    <3>1. /\ events' = [events EXCEPT ![b] = @ \cup Missing(b, p.events)]
          /\ \E K : evidence' = [evidence EXCEPT ![b] = {f \in @ : f.id \notin K}]
      BY <2>5 DEF IngestPage, InsertAndPromote
    <3>2. Missing(b, p.events) \subseteq p.events BY DEF Missing
    <3>3. events'[c] \subseteq events[c] \cup p.events /\ evidence'[c] \subseteq evidence[c]
      BY <1>1, <3>1, <3>2 DEF TypeOK
    <3> QED BY <1>4, <3>3
  <2> QED BY <2>1, <2>2, <2>3, <2>4, <2>5, StepKinds
<1>6. ASSUME NEW c \in Bodies, NEW p \in outbound'[c] \cup validated'[c]
      PROVE  Sound(p.events)
  <2>1. \E s \in Bodies : p \in outbound[s] \cup validated[s] \/ p.events \subseteq events[s]
    BY <1>1, <1>6, JournalStep DEF JournalGrowth
  <2> QED BY <1>4, <2>1
<1> QED BY <1>5, <1>6 DEF Authentic

LEMMA AgreementAlways == Spec => []AgreementInv
<1>1. Init => AgreementInv
  BY LedgerInit DEF Init, AgreementInv, Authentic
<1>2. AgreementInv /\ [Next]_vars => AgreementInv'
  BY LedgerStep, AuthenticStep DEF AgreementInv
<1> QED BY <1>1, <1>2, PTL DEF Spec

\* Sync, evidence and frozen pages never carry an event its signer does not
\* hold: nothing is forged or altered between ledgers.
THEOREM EventsAreAuthentic == Spec => []Authentic
BY AgreementAlways, PTL DEF AgreementInv

\* When no two bodies share a credential, all ledgers agree on every event id
\* and every origin position, at every moment.
THEOREM HonestBodiesAgree ==
    ASSUME \A b, c \in Bodies : Origin[b] = Origin[c] => b = c
    PROVE  Spec => []BodiesAgree
<1>1. AgreementInv => BodiesAgree
  <2> SUFFICES ASSUME AgreementInv,
                      NEW e \in Signed \cup UNION {evidence[b] : b \in Bodies},
                      NEW f \in Signed \cup UNION {evidence[b] : b \in Bodies},
                      e.id = f.id \/ SamePosition(e, f)
               PROVE  e = f
    BY DEF BodiesAgree
  <2>1. /\ e \in Event /\ Genuine(e)
        /\ f \in Event /\ Genuine(f)
    BY DEF AgreementInv, Authentic, Signed, LedgerInv, TypeOK
  <2>2. e.id[1] \in Bodies /\ f.id[1] \in Bodies BY <2>1 DEF Event, EventIds
  <2>3. e.id[1] = f.id[1] BY <2>1, <2>2 DEF Genuine, SamePosition
  <2> QED BY <2>1, <2>2, <2>3 DEF Genuine, AgreementInv, LedgerInv, LedgerConsistent
<1> QED BY <1>1, AgreementAlways, PTL

\* Each ledger is well formed, holds one event per id and per place of a chain,
\* and breaks no chain, however many bodies share a credential (ledger.py).
THEOREM LedgersStayWellFormed == Spec => []LedgersHold
BY TypeCorrect, LedgerIsConsistent, ChainsStayIntact, PTL DEF LedgersHold

\* What a body knows is authentic and causally closed, and its cursors name only
\* what it holds (ledger.py: _promote, ingest_idempotent).
THEOREM KnowledgeStaysSound == Spec => []KnowledgeIsSound
BY KnownIsCausallyClosed, CursorsAreHonest, EventsAreAuthentic, PTL
   DEF KnowledgeIsSound
-----------------------------------------------------------------------------
(***************************************************************************)
(* Finite tables.                                                          *)
(***************************************************************************)

\* Sets of finite sets have a smallest one.
LEMMA SmallestSet ==
    ASSUME NEW S, NEW T, T # {}, T \subseteq FiniteSubsetsOf(S)
    PROVE  \E x \in T : \A y \in T : y \subseteq x => y = x
<1>1. IsWellFoundedOn(StrictSubsetOrdering(S), FiniteSubsetsOf(S))
  BY FS_StrictSubsetOrderingWellFounded
<1>2. PICK x \in T : \A y \in T : ~ (<<y, x>> \in StrictSubsetOrdering(S))
  BY <1>1, WFMin
<1>3. ASSUME NEW y \in T, y \subseteq x, y # x PROVE FALSE
  <2>1. <<y, x>> \in (SUBSET S) \X (SUBSET S) BY DEF FiniteSubsetsOf
  <2> QED BY <1>2, <1>3, <2>1 DEF StrictSubsetOrdering
<1> QED BY <1>3

\* A set of naturals has a least one.
LEMMA LeastNat ==
    ASSUME NEW S \in SUBSET Nat, S # {}
    PROVE  \E n \in S : \A m \in S : n <= m
<1> DEFINE T == {0..n : n \in S}
<1>1. T \subseteq FiniteSubsetsOf(Nat)
  <2> SUFFICES ASSUME NEW n \in S PROVE 0..n \in FiniteSubsetsOf(Nat)
    OBVIOUS
  <2> QED BY FS_Interval DEF FiniteSubsetsOf
<1>2. T # {} OBVIOUS
<1>3. PICK x \in T : \A y \in T : y \subseteq x => y = x
  <2> HIDE DEF T
  <2> QED BY <1>1, <1>2, SmallestSet
<1>4. PICK n \in S : x = 0..n OBVIOUS
<1>5. ASSUME NEW m \in S PROVE n <= m
  <2>1. 0..m \in T /\ n \in Nat /\ m \in Nat OBVIOUS
  <2>2. SUFFICES ASSUME m < n PROVE FALSE BY <2>1
  <2>3. 0..m \subseteq 0..n BY <2>1, <2>2
  <2>4. 0..m = 0..n BY <1>3, <1>4, <2>1, <2>3
  <2>5. n \in 0..m BY <2>1, <2>4
  <2> QED BY <2>1, <2>2, <2>5
<1> QED BY <1>5

\* How many rows come before e in the listing order.
Rank(rows, e) == Cardinality({f \in rows : Before(f, e)})

\* The listing order is a strict order, total up to the position.
LEMMA BeforeOrders ==
    ASSUME NEW e \in Event, NEW f \in Event, NEW g \in Event
    PROVE  /\ ~ Before(e, e)
           /\ Before(e, f) /\ Before(f, g) => Before(e, g)
           /\ Before(e, f) \/ Before(f, e) \/ SamePosition(e, f)
<1>1. /\ e.inc \in Nat /\ f.inc \in Nat /\ g.inc \in Nat
      /\ e.seq \in Nat /\ f.seq \in Nat /\ g.seq \in Nat
  BY IncarnationAssumption DEF Event
<1> QED BY <1>1 DEF Before, SamePosition

\* A later row has a greater rank.
LEMMA RankGrows ==
    ASSUME NEW rows \in SUBSET Event, IsFiniteSet(rows), NEW e \in rows
    PROVE  /\ Rank(rows, e) \in Nat
           /\ Rank(rows, e) <= Cardinality(rows)
           /\ Cardinality(rows) \in Nat
           /\ \A f \in rows : Before(e, f) => Rank(rows, e) < Rank(rows, f)
<1> DEFINE low(f) == {g \in rows : Before(g, f)}
<1>1. \A f \in rows : low(f) \in SUBSET rows OBVIOUS
<1>2. ASSUME NEW f \in rows
      PROVE  IsFiniteSet(low(f)) /\ Cardinality(low(f)) \in Nat
             /\ Cardinality(low(f)) <= Cardinality(rows)
  <2> HIDE DEF low
  <2> QED BY <1>1, FS_Subset, FS_CardinalityType
<1>3. ASSUME NEW f \in rows, Before(e, f)
      PROVE  Cardinality(low(e)) < Cardinality(low(f))
  <2>1. low(e) \in SUBSET low(f) BY <1>3, BeforeOrders
  <2>2. e \in low(f) /\ e \notin low(e) BY <1>3, BeforeOrders
  <2> HIDE DEF low
  <2>3. /\ Cardinality(low(e)) <= Cardinality(low(f))
        /\ Cardinality(low(f)) = Cardinality(low(e)) => low(f) = low(e)
    BY <1>2, <2>1, FS_Subset
  <2> QED BY <1>2, <2>2, <2>3
<1>4. Cardinality(rows) \in Nat BY FS_CardinalityType
<1> QED BY <1>2, <1>3, <1>4 DEF Rank

\* Some rows of a finite table have a first one and a last one.
LEMMA ExtremeRows ==
    ASSUME NEW rows \in SUBSET Event, IsFiniteSet(rows), NEW some \in SUBSET rows, some # {}
    PROVE  /\ \E e \in some : \A f \in some : ~ Before(f, e)
           /\ \E e \in some : \A f \in some : ~ Before(e, f)
<1> DEFINE low(e) == {g \in rows : Before(g, e)}
           high(e) == {g \in rows : Before(e, g)}
           lows == {low(e) : e \in some}
           highs == {high(e) : e \in some}
<1>1. \A x \in lows \cup highs : x \in SUBSET rows OBVIOUS
<1>2. lows # {} /\ highs # {} OBVIOUS
<1>3. PICK x \in lows : \A y \in lows : y \subseteq x => y = x
  <2> HIDE DEF lows, highs
  <2>1. lows \subseteq FiniteSubsetsOf(rows) BY <1>1, FS_FiniteSubsetsOfFinite
  <2> QED BY <1>2, <2>1, SmallestSet
<1>4. PICK z \in highs : \A y \in highs : y \subseteq z => y = z
  <2> HIDE DEF lows, highs
  <2>1. highs \subseteq FiniteSubsetsOf(rows) BY <1>1, FS_FiniteSubsetsOfFinite
  <2> QED BY <1>2, <2>1, SmallestSet
<1>5. PICK e \in some : x = low(e) OBVIOUS
<1>6. PICK g \in some : z = high(g) OBVIOUS
<1>7. ASSUME NEW f \in some, Before(f, e) PROVE FALSE
  <2>1. low(f) \subseteq low(e) /\ f \in low(e) /\ f \notin low(f)
    BY <1>7, BeforeOrders
  <2> QED BY <1>3, <1>5, <2>1
<1>8. ASSUME NEW f \in some, Before(g, f) PROVE FALSE
  <2>1. high(f) \subseteq high(g) /\ f \in high(g) /\ f \notin high(f)
    BY <1>8, BeforeOrders
  <2> QED BY <1>4, <1>6, <2>1
<1> QED BY <1>7, <1>8

\* In a finite table every row is covered by a head of its incarnation.
LEMMA HeadAbove ==
    ASSUME NEW rows \in SUBSET Event, IsFiniteSet(rows), NEW e \in rows
    PROVE  \E h \in Heads(rows) : h.inc = e.inc /\ e.seq <= h.seq
<1> DEFINE own == {r \in rows : r.inc = e.inc}
<1>1. own \in SUBSET rows /\ own # {} OBVIOUS
<1>2. PICK h \in own : \A f \in own : ~ Before(h, f)
  <2> HIDE DEF own
  <2> QED BY <1>1, ExtremeRows
<1>3. \A f \in own : f.seq <= h.seq
  BY <1>2 DEF Before, Event
<1> QED BY <1>3 DEF Heads

\* A page holds at most the limit, is empty only when nothing is left, and takes
\* no row without the rows before it.
LEMMA FirstRows ==
    ASSUME NEW rows \in SUBSET Event, IsFiniteSet(rows), NEW limit \in Nat \ {0},
           \A e, f \in rows : SamePosition(e, f) => e = f
    PROVE  /\ Cardinality(FirstOf(rows, limit)) <= limit
           /\ rows # {} => FirstOf(rows, limit) # {}
           /\ \A e \in FirstOf(rows, limit), f \in rows :
                 Before(f, e) => f \in FirstOf(rows, limit)
<1> DEFINE first == FirstOf(rows, limit)
<1>1. first = {e \in rows : Rank(rows, e) < limit} BY DEF FirstOf, Rank
<1> HIDE DEF first
<1>2. first \in SUBSET rows /\ IsFiniteSet(first) BY <1>1, FS_Subset
<1>3. Cardinality(first) <= limit
  <2>1. CASE first = {} BY <2>1, FS_EmptySet
  <2>2. CASE first # {}
    <3>1. PICK m \in first : \A f \in first : ~ Before(m, f)
      BY <1>2, <2>2, ExtremeRows
    <3>2. first \ {m} \in SUBSET {f \in rows : Before(f, m)}
      BY <1>2, <3>1, BeforeOrders
    <3>3. Rank(rows, m) \in Nat /\ Rank(rows, m) < limit BY <1>1, RankGrows
    <3>4. Cardinality(first \ {m}) <= Rank(rows, m)
      <4>1. {f \in rows : Before(f, m)} \in SUBSET rows OBVIOUS
      <4>2. IsFiniteSet({f \in rows : Before(f, m)}) BY <4>1, FS_Subset
      <4> QED BY <3>2, <4>2, FS_Subset DEF Rank
    <3>5. Cardinality(first \ {m}) = Cardinality(first) - 1
      BY <1>2, <3>1, FS_RemoveElement
    <3>6. Cardinality(first) \in Nat BY <1>2, FS_CardinalityType
    <3> QED BY <3>3, <3>4, <3>5, <3>6
  <2> QED BY <2>1, <2>2
<1>4. ASSUME rows # {} PROVE first # {}
  <2>1. PICK e \in rows : \A f \in rows : ~ Before(f, e) BY <1>4, ExtremeRows
  <2>2. {f \in rows : Before(f, e)} = {} BY <2>1
  <2>3. Rank(rows, e) = 0 BY <2>2, FS_EmptySet DEF Rank
  <2> QED BY <1>1, <2>3
<1>5. ASSUME NEW e \in first, NEW f \in rows, Before(f, e) PROVE f \in first
  <2>1. e \in rows /\ Rank(rows, e) < limit BY <1>1
  <2>2. Rank(rows, f) < Rank(rows, e) /\ Rank(rows, f) \in Nat /\ Rank(rows, e) \in Nat
    BY <1>5, <2>1, RankGrows
  <2> QED BY <1>1, <2>1, <2>2
<1> QED BY <1>3, <1>4, <1>5 DEF first

\* A chain has a row at every position below its head.
LEMMA ChainIsFull ==
    ASSUME NEW rows \in SUBSET Event,
           \A e \in rows : \/ e.seq = 1 /\ e.prev = None
                           \/ \E f \in rows : f.inc = e.inc /\ f.seq + 1 = e.seq /\ e.prev = f.id
    PROVE  \A e \in rows : \A n \in 1..e.seq :
              \E f \in rows : f.inc = e.inc /\ f.seq = n
<1> DEFINE Hole(e) == \E n \in 1..e.seq : \A f \in rows : ~ (f.inc = e.inc /\ f.seq = n)
           holes == {e \in rows : Hole(e)}
           S == {e.seq : e \in holes}
<1> SUFFICES ASSUME holes # {} PROVE FALSE
  OBVIOUS
<1>1. S \in SUBSET Nat /\ S # {} BY DEF Event
<1>2. PICK least \in S : \A m \in S : least <= m
  <2> HIDE DEF S
  <2> QED BY <1>1, LeastNat
<1>3. PICK e \in rows : Hole(e) /\ e.seq = least OBVIOUS
<1>4. PICK n \in 1..e.seq : \A f \in rows : ~ (f.inc = e.inc /\ f.seq = n) BY <1>3
<1>5. e.seq \in Nat \ {0} BY DEF Event
<1>6. n # e.seq BY <1>4
<1>7. e.seq # 1 BY <1>4, <1>5, <1>6
<1>8. PICK f \in rows : f.inc = e.inc /\ f.seq + 1 = e.seq BY <1>7
<1>9. f.seq \in Nat \ {0} BY DEF Event
<1>10. n \in 1..f.seq BY <1>5, <1>6, <1>8, <1>9
<1>11. Hole(f) BY <1>4, <1>8, <1>10
<1>12. f.seq \in S BY <1>11
<1>13. least <= f.seq BY <1>2, <1>12
<1> HIDE DEF S, holes
<1> QED BY <1>3, <1>5, <1>8, <1>9, <1>13

-----------------------------------------------------------------------------
(***************************************************************************)
(* Pulls.  What a request, a frozen page and a page in flight stand for.   *)
(***************************************************************************)
TablesFinite == \A b \in Bodies : IsFiniteSet(events[b])

\* An issued request names rows its body holds, and its id one request.
RequestsOwn ==
    \A b \in Bodies : \A q \in issued[b] :
        /\ q.heads \subseteq events[b]
        /\ \A r \in issued[b] : q.rid = r.rid => q = r

\* Every event of a page comes after one the page or the requester holds.
Grounded(p) ==
    \A e \in p.events :
        \/ e.seq = 1 /\ e.prev = None
        \/ \E g \in p.events \cup p.request.heads :
              g.inc = e.inc /\ g.seq + 1 = e.seq /\ e.prev = g.id

FrozenBy(s, p) ==
    /\ p.sender = Origin[s]
    /\ p.events \subseteq events[s] /\ p.offered \subseteq events[s]
    /\ ContentValid(p) /\ Grounded(p)
    /\ \E b \in Bodies : p.request \in issued[b]

PagesFrozen ==
    \A s \in Bodies : \A p \in outbound[s] :
        /\ FrozenBy(s, p)
        /\ \A o \in outbound[s] : p.request.rid = o.request.rid => p = o

\* A page a body validated or ingested answers its own request.
PageAnswers(b, p) == p.request \in issued[b] /\ \E s \in Bodies : p \in outbound[s]

PagesAnswer ==
    \A b \in Bodies :
        /\ \A p \in validated[b] : PageAnswers(b, p)
        /\ \A r \in inbound[b] : PageAnswers(b, r.page)

PullInv == AgreementInv /\ TablesFinite /\ RequestsOwn /\ PagesFrozen /\ PagesAnswer

\* What the invariant says of a page that answers a request of b.
LEMMA PageFacts ==
    ASSUME PullInv, NEW b \in Bodies, NEW p, PageAnswers(b, p)
    PROVE  /\ p \in Page
           /\ p.events \in SUBSET Event /\ IsFiniteSet(p.events)
           /\ \A e \in p.events \cup p.offered : e \in Event /\ Genuine(e)
           /\ p.request.heads \subseteq events[b]
           /\ ContentValid(p) /\ Grounded(p)
           /\ p.sender \in Incarnations
<1>1. PICK s \in Bodies : p \in outbound[s] BY DEF PageAnswers
<1>2. p \in Page BY <1>1 DEF PullInv, AgreementInv, LedgerInv, TypeOK
<1>3. FrozenBy(s, p) BY <1>1 DEF PullInv, PagesFrozen
<1>4. IsFiniteSet(p.events) BY <1>3, FS_Subset DEF PullInv, TablesFinite, FrozenBy
<1>5. \A e \in events[s] : e \in Event /\ Genuine(e)
  BY DEF PullInv, AgreementInv, Authentic, LedgerInv, TypeOK
<1>6. p.request.heads \subseteq events[b]
  BY DEF PageAnswers, PullInv, RequestsOwn
<1> QED BY <1>2, <1>3, <1>4, <1>5, <1>6 DEF Page, FrozenBy

\* A body's tables, read once.
LEMMA BodyFacts ==
    ASSUME PullInv, NEW b \in Bodies
    PROVE  /\ events[b] \in SUBSET Event /\ IsFiniteSet(events[b])
           /\ evidence[b] \in SUBSET Event
           /\ \A e \in events[b] \cup evidence[b] : Genuine(e)
           /\ \A e, f \in events[b] \cup evidence[b] :
                 (e.id = f.id \/ SamePosition(e, f)) => e = f
           /\ \A e \in events[b] : \A n \in 1..e.seq :
                 \E f \in events[b] : f.inc = e.inc /\ f.seq = n
<1>1. events[b] \in SUBSET Event /\ evidence[b] \in SUBSET Event
  BY DEF PullInv, AgreementInv, LedgerInv, TypeOK
<1>2. IsFiniteSet(events[b]) BY DEF PullInv, TablesFinite
<1>3. \A e \in events[b] \cup evidence[b] : Genuine(e)
  BY DEF PullInv, AgreementInv, Authentic
<1>4. \A e, f \in events[b] \cup evidence[b] :
        (e.id = f.id \/ SamePosition(e, f)) => e = f
  BY DEF PullInv, AgreementInv, LedgerInv, LedgerConsistent
<1>5. \A e \in events[b] :
        \/ e.seq = 1 /\ e.prev = None
        \/ \E f \in events[b] : f.inc = e.inc /\ f.seq + 1 = e.seq /\ e.prev = f.id
  BY DEF PullInv, AgreementInv, LedgerInv, ChainIntact
<1>6. \A e \in events[b] : \A n \in 1..e.seq :
        \E f \in events[b] : f.inc = e.inc /\ f.seq = n
  BY <1>1, <1>5, ChainIsFull
<1> QED BY <1>1, <1>2, <1>3, <1>4, <1>6

\* Two records of one id or position were signed by two bodies of one origin.
LEMMA RivalsAreClones ==
    ASSUME PullInv, NEW e \in Event, NEW f \in Event, Genuine(e), Genuine(f), e # f,
           e.id = f.id \/ SamePosition(e, f)
    PROVE  SamePosition(e, f) /\ Cloned(e.inc) /\ e \in Signed /\ f \in Signed
<1>1. /\ e.id[1] \in Bodies /\ f.id[1] \in Bodies
      /\ e.id = <<e.id[1], e.id[2]>> /\ f.id = <<f.id[1], f.id[2]>>
  BY DEF Event, EventIds
<1>2. /\ e \in events[e.id[1]] /\ e.inc = Origin[e.id[1]] /\ e.id[2] = e.seq
      /\ f \in events[f.id[1]] /\ f.inc = Origin[f.id[1]] /\ f.id[2] = f.seq
  BY DEF Genuine
<1>3. e.id[1] # f.id[1]
  <2> SUFFICES ASSUME e.id[1] = f.id[1] PROVE FALSE OBVIOUS
  <2> QED BY <1>1, <1>2, BodyFacts
<1>4. SamePosition(e, f) BY <1>3
<1> QED BY <1>1, <1>2, <1>3, <1>4 DEF SamePosition, Cloned, Signed

\* What each verdict of _plan rests on: a finite page has a first bad event.
LEMMA VerdictCases ==
    ASSUME NEW b, NEW page \in SUBSET Event, IsFiniteSet(page)
    PROVE  /\ Verdict(b, page) = "malformed" => \E e, f \in page : e # f /\ e.id = f.id
           /\ Verdict(b, page) = "equivocation" => \E e \in page : Conflicts(b, page, e)
           /\ Verdict(b, page) = "gap" => \E e \in page :
                 Gapped(b, page, e) /\ ~ Conflicts(b, page, e)
           /\ Verdict(b, page) \in {"ok", "malformed", "equivocation", "gap"}
<1> DEFINE bad == {e \in page : Conflicts(b, page, e) \/ Gapped(b, page, e)}
           first == CHOOSE e \in bad : \A f \in bad : ~ Before(f, e)
<1>1. Verdict(b, page) =
        IF \E e, f \in page : e # f /\ e.id = f.id THEN "malformed"
        ELSE IF bad = {} THEN "ok"
        ELSE IF Conflicts(b, page, first) THEN "equivocation"
        ELSE "gap"
  BY DEF Verdict
<1>2. bad # {} => first \in bad
  <2> SUFFICES ASSUME bad # {} PROVE \E e \in bad : \A f \in bad : ~ Before(f, e)
    OBVIOUS
  <2>1. bad \in SUBSET page OBVIOUS
  <2> HIDE DEF bad
  <2> QED BY <2>1, ExtremeRows
<1> HIDE DEF first
<1>3. bad # {} => first \in page /\ (Conflicts(b, page, first) \/ Gapped(b, page, first))
  BY <1>2
<1> HIDE DEF bad
<1> QED BY <1>1, <1>3

\* A page that answers a request never leaves a gap.
LEMMA NoGapInPage ==
    ASSUME PullInv, NEW b \in Bodies, NEW p, PageAnswers(b, p)
    PROVE  Verdict(b, p.events) # "gap"
<1> DEFINE page == p.events
<1>p. page \in SUBSET Event /\ IsFiniteSet(page) /\ Grounded(p) /\ p.request.heads \subseteq events[b]
  BY PageFacts
<1>b. /\ events[b] \in SUBSET Event
      /\ \A e \in events[b] : \A n \in 1..e.seq : \E f \in events[b] : f.inc = e.inc /\ f.seq = n
  BY BodyFacts
<1> SUFFICES ASSUME NEW e \in page, Gapped(b, page, e), ~ Conflicts(b, page, e)
             PROVE  FALSE
  BY <1>p, VerdictCases
<1> DEFINE seen == events[b] \cup {f \in Missing(b, page) : Before(f, e)}
<1>1. e \notin events[b] /\ ~ Follows(seen, e) BY DEF Gapped
<1>2. e \in Event /\ e.seq \in Nat \ {0} BY <1>p DEF Event
<1>3. ASSUME NEW r \in events[b], r.inc = e.inc, r.seq >= e.seq PROVE FALSE
  <2>1. r.seq \in Nat BY <1>b DEF Event
  <2>2. PICK f \in events[b] : f.inc = r.inc /\ f.seq = e.seq BY <1>b, <1>2, <1>3, <2>1
  <2>3. SamePosition(f, e) /\ f # e BY <1>1, <1>3, <2>2 DEF SamePosition
  <2> QED BY <2>2, <2>3 DEF Conflicts, IdentityConflict
<1>4. ASSUME NEW r \in seen, r.inc = e.inc PROVE r.seq \in Nat \ {0} /\ r.seq < e.seq
  <2>1. r \in Event BY <1>b, <1>p DEF Missing
  <2>2. r.seq \in Nat \ {0} /\ r.inc \in Nat BY <2>1, IncarnationAssumption DEF Event
  <2>3. CASE r \in events[b] BY <1>2, <1>3, <1>4, <2>2, <2>3
  <2>4. CASE r \notin events[b]
    <3>1. Before(r, e) BY <2>4
    <3> QED BY <1>4, <2>2, <3>1 DEF Before
  <2> QED BY <2>3, <2>4
<1>5. CASE e.seq = 1 /\ e.prev = None
  <2>1. \A r \in seen : r.inc # e.inc BY <1>4, <1>5
  <2> HIDE DEF seen
  <2> QED BY <1>1, <1>5, <2>1 DEF Follows
<1>6. CASE \E g \in page \cup p.request.heads :
              g.inc = e.inc /\ g.seq + 1 = e.seq /\ e.prev = g.id
  <2>1. PICK g \in page \cup p.request.heads :
              g.inc = e.inc /\ g.seq + 1 = e.seq /\ e.prev = g.id
    BY <1>6
  <2>2. g \in Event BY <1>p, <1>b
  <2>3. g.seq \in Nat /\ g.inc \in Nat BY <2>2, IncarnationAssumption DEF Event
  <2>4. Before(g, e) BY <1>2, <2>1, <2>3 DEF Before
  <2>5. g \in seen BY <1>p, <2>1, <2>4 DEF Missing
  <2>6. \A r \in seen : r.inc = g.inc => r.seq <= g.seq
    BY <1>2, <1>4, <2>1, <2>3
  <2> HIDE DEF seen
  <2>7. g \in Heads(seen) BY <2>5, <2>6 DEF Heads
  <2> QED BY <1>1, <2>1, <2>7 DEF Follows
<1> QED BY <1>p, <1>5, <1>6 DEF Grounded

\* A page that answers a request is refused only for a fork of a cloned origin.
LEMMA RefusalCause ==
    ASSUME PullInv, NEW b \in Bodies, NEW p, PageAnswers(b, p), Verdict(b, p.events) # "ok"
    PROVE  Verdict(b, p.events) = "equivocation" /\ Forked /\ \E e \in Signed : Cloned(e.inc)
<1>1. /\ p.events \in SUBSET Event /\ IsFiniteSet(p.events)
      /\ \A e \in p.events : e \in Event /\ Genuine(e)
  BY PageFacts
<1>2. /\ events[b] \cup evidence[b] \in SUBSET Event
      /\ \A e \in events[b] \cup evidence[b] : Genuine(e)
  BY BodyFacts
<1>3. ~ \E e, f \in p.events : e # f /\ e.id = f.id
  <2> SUFFICES ASSUME NEW e \in p.events, NEW f \in p.events, e # f, e.id = f.id PROVE FALSE
    OBVIOUS
  <2>1. SamePosition(e, f) /\ e.id[1] \in Bodies BY <1>1, RivalsAreClones DEF Event, EventIds
  <2>2. e \in events[e.id[1]] /\ f \in events[e.id[1]] BY <1>1 DEF Genuine
  <2> QED BY <2>1, <2>2, BodyFacts
<1>4. Verdict(b, p.events) = "equivocation"
  BY <1>1, <1>3, NoGapInPage, VerdictCases
<1>5. PICK e \in p.events : Conflicts(b, p.events, e) BY <1>1, <1>4, VerdictCases
<1>6. PICK f \in events[b] \cup evidence[b] \cup p.events :
        f # e /\ (f.id = e.id \/ SamePosition(e, f))
  BY <1>5 DEF Conflicts, IdentityConflict, Missing, SamePosition
<1>7. e \in Event /\ Genuine(e) /\ f \in Event /\ Genuine(f) BY <1>1, <1>2
<1>8. SamePosition(e, f) /\ Cloned(e.inc) /\ e \in Signed /\ f \in Signed
  BY <1>6, <1>7, RivalsAreClones
<1> QED BY <1>4, <1>6, <1>8 DEF Forked

\* What freezing a page makes of it.
LEMMA FreezeFacts ==
    ASSUME PullInv, NEW s \in Bodies, NEW b \in Bodies, NEW q \in issued[b],
           ~ ForkedHead(s, q)
    PROVE  FrozenBy(s, DeltaPage(s, q))
<1> DEFINE rows == events[s]
           newer == Newer(rows, q.heads)
           first == FirstOf(newer, q.limit)
           p == DeltaPage(s, q)
<1>p. /\ p.request = q /\ p.sender = Origin[s] /\ p.events = first
      /\ p.more = (newer # first) /\ p.offered = Heads(rows)
  BY DEF DeltaPage
<1>q. q \in Request /\ q.heads \subseteq Event /\ q.limit \in Nat \ {0}
  <2>1. q \in Request BY DEF PullInv, AgreementInv, LedgerInv, TypeOK
  <2>2. q.heads \in SUBSET Event /\ q.limit \in Limits BY <2>1 DEF Request
  <2> QED BY <2>1, <2>2, LimitAssumption
<1>r. /\ rows \in SUBSET Event /\ IsFiniteSet(rows)
      /\ \A e, f \in rows : SamePosition(e, f) => e = f
      /\ \A e \in rows :
            \/ e.seq = 1 /\ e.prev = None
            \/ \E f \in rows : f.inc = e.inc /\ f.seq + 1 = e.seq /\ e.prev = f.id
  BY BodyFacts DEF PullInv, AgreementInv, LedgerInv, ChainIntact
<1>n. newer \in SUBSET rows BY DEF Newer
<1>f. first \in SUBSET newer BY DEF FirstOf
<1>w. \A e \in newer : \A h \in q.heads : h.inc = e.inc => e.seq > h.seq BY DEF Newer
<1>o. \A e \in rows \ newer : \E h \in q.heads : h.inc = e.inc /\ ~ (e.seq > h.seq)
  BY DEF Newer
<1>u. ~ \E h \in q.heads : \E r \in rows : SamePosition(r, h) /\ r # h BY DEF ForkedHead
<1> HIDE DEF rows, newer, p
<1>1. /\ Cardinality(first) <= q.limit
      /\ newer # {} => first # {}
      /\ \A e \in first, f \in newer : Before(f, e) => f \in first
  <2>1. newer \in SUBSET Event /\ IsFiniteSet(newer) BY <1>n, <1>r, FS_Subset
  <2>2. \A e, f \in newer : SamePosition(e, f) => e = f BY <1>n, <1>r
  <2> QED BY <1>q, <2>1, <2>2, FirstRows
<1> HIDE DEF first
<1>2. ASSUME NEW e \in first
      PROVE  \E h \in Heads(rows) : h.inc = e.inc /\ e.seq <= h.seq /\ (e.seq = h.seq => e = h)
  <2>1. e \in rows BY <1>n, <1>f
  <2>2. PICK h \in Heads(rows) : h.inc = e.inc /\ e.seq <= h.seq BY <1>r, <2>1, HeadAbove
  <2>3. h \in rows BY HeadsAreRows
  <2>4. e.seq = h.seq => e = h BY <1>r, <2>1, <2>2, <2>3 DEF SamePosition
  <2> QED BY <2>2, <2>4
<1>3. ASSUME newer = first, NEW h \in Heads(rows)
      PROVE  \/ \E g \in q.heads : g.inc = h.inc /\ h.seq <= g.seq
             \/ \E e \in first : SamePosition(e, h)
  <2>1. h \in rows BY HeadsAreRows
  <2>2. CASE h \in newer BY <1>3, <2>2 DEF SamePosition
  <2>3. CASE h \notin newer
    <3>1. PICK g \in q.heads : g.inc = h.inc /\ ~ (h.seq > g.seq) BY <1>o, <2>1, <2>3
    <3>2. g.seq \in Nat /\ h.seq \in Nat BY <1>q, <1>r, <2>1 DEF Event
    <3> QED BY <3>1, <3>2
  <2> QED BY <2>2, <2>3
<1>4. ContentValid(p)
  <2>1. p.more => p.events # {} BY <1>p, <1>f, <1>1
  <2>2. \A e \in p.events :
          /\ \E h \in p.offered : /\ h.inc = e.inc
                                  /\ e.seq <= h.seq
                                  /\ e.seq = h.seq => e = h
          /\ \A g \in p.request.heads : g.inc = e.inc => e.seq > g.seq
    BY <1>p, <1>2, <1>f, <1>w
  <2>3. ~ p.more => \A h \in p.offered :
          \/ \E g \in p.request.heads : g.inc = h.inc /\ h.seq <= g.seq
          \/ \E e \in p.events : SamePosition(e, h)
    BY <1>p, <1>3
  <2>4. Cardinality(p.events) <= p.request.limit BY <1>p, <1>1
  <2> QED BY <2>1, <2>2, <2>3, <2>4 DEF ContentValid
<1>5. Grounded(p)
  <2> SUFFICES ASSUME NEW e \in first, ~ (e.seq = 1 /\ e.prev = None)
               PROVE  \E g \in first \cup q.heads :
                         g.inc = e.inc /\ g.seq + 1 = e.seq /\ e.prev = g.id
    BY <1>p DEF Grounded
  <2>1. e \in newer /\ e \in rows BY <1>n, <1>f
  <2>2. PICK f \in rows : f.inc = e.inc /\ f.seq + 1 = e.seq /\ e.prev = f.id
    BY <1>r, <2>1
  <2>3. e \in Event /\ f \in Event BY <1>r, <2>1
  <2>4. e.seq \in Nat /\ f.seq \in Nat /\ e.inc \in Nat
    BY <2>3, IncarnationAssumption DEF Event
  <2>5. CASE f \in newer
    <3>1. Before(f, e) BY <2>2, <2>4 DEF Before
    <3> QED BY <1>1, <2>2, <2>5, <3>1
  <2>6. CASE f \notin newer
    <3>1. PICK h \in q.heads : h.inc = f.inc /\ ~ (f.seq > h.seq) BY <1>o, <2>6
    <3>2. h.seq \in Nat BY <1>q DEF Event
    <3>3. e.seq > h.seq BY <1>w, <2>1, <2>2, <3>1
    <3>4. SamePosition(f, h) BY <2>2, <2>4, <3>1, <3>2, <3>3 DEF SamePosition
    <3>5. f = h BY <1>u, <3>4
    <3> QED BY <2>2, <3>1, <3>5
  <2> QED BY <2>5, <2>6
<1>6. p.events \subseteq events[s] /\ p.offered \subseteq events[s]
  BY <1>p, <1>n, <1>f, HeadsAreRows DEF rows
<1> QED BY <1>p, <1>4, <1>5, <1>6 DEF FrozenBy, p

\* What a step may do to the journals.
LEMMA JournalKinds ==
    ASSUME TypeOK, Next
    PROVE  \/ \E b \in Bodies, rid \in RequestIds, limit \in Limits : IssueRequest(b, rid, limit)
           \/ \E s, b \in Bodies : \E q \in issued[b] : FreezePage(s, q)
           \/ \E s, b \in Bodies : \E p \in outbound[s] : ValidateDelta(b, p)
           \/ \E b \in Bodies : \E p \in validated[b] : IngestPage(b, p)
           \/ /\ UNCHANGED <<issued, outbound, inbound>>
              /\ \A c \in Bodies : validated'[c] \subseteq validated[c]
<1> DEFINE Quiet == /\ UNCHANGED <<issued, outbound, inbound>>
                    /\ \A c \in Bodies : validated'[c] \subseteq validated[c]
<1> USE DEF TypeOK
<1>1. ASSUME NEW b \in Bodies, LocalStep(b) PROVE Quiet
  <2>1. ASSUME UNCHANGED <<issued, outbound, inbound, validated>> PROVE Quiet
    BY <2>1
  <2>2. CASE Crash(b) BY <2>2 DEF Crash, exchange
  <2>3. Crash(b) \/ UNCHANGED <<issued, outbound, inbound, validated>>
    BY <1>1 DEF LocalStep, Author, AuthorConflict, RetainEvidence, RetainConflict, exchange
  <2> QED BY <2>1, <2>2, <2>3
<1>2. ASSUME NEW b \in Bodies, NEW s \in Bodies, ServeStep(s, b)
      PROVE  Quiet \/ \E q \in issued[b] : FreezePage(s, q)
  BY <1>2 DEF ServeStep, ServeForkedHead, ServeReusedId
<1>3. ASSUME NEW b \in Bodies, NEW s \in Bodies, PullStep(b, s)
      PROVE  Quiet \/ \E p \in outbound[s] : ValidateDelta(b, p)
  BY <1>3 DEF PullStep, RefuseDelta, exchange
<1>4. ASSUME NEW b \in Bodies, IngestStep(b)
      PROVE  Quiet \/ \E p \in validated[b] : IngestPage(b, p)
  <2>1. PICK p \in validated[b] :
          \/ IngestPage(b, p)
          \/ /\ validated' = [validated EXCEPT ![b] = @ \ {p}]
             /\ UNCHANGED <<issued, outbound, inbound>>
    BY <1>4 DEF IngestStep, IngestReplay, IngestOtherPage, IngestRegression,
                IngestConflict, Finish, exchange
  <2> QED BY <2>1
<1> HIDE DEF Quiet
<1>5. PICK b \in Bodies :
        \/ LocalStep(b)
        \/ \E rid \in CallerIds[b], limit \in Limits : IssueRequest(b, rid, limit)
        \/ \E s \in Peers[b] : ServeStep(s, b) \/ PullStep(b, s)
        \/ IngestStep(b)
  BY DEF Next
<1>6. Peers[b] \subseteq Bodies /\ CallerIds[b] \subseteq RequestIds
  BY PeerAssumption, CallerAssumption
<1> QED BY <1>1, <1>2, <1>3, <1>4, <1>5, <1>6 DEF Quiet

\* Nothing was asked, served or held yet.
LEMMA PullInit == Init => PullInv
<1> SUFFICES ASSUME Init PROVE PullInv OBVIOUS
<1>1. AgreementInv BY LedgerInit DEF Init, AgreementInv, Authentic
<1>2. TablesFinite BY FS_EmptySet DEF Init, TablesFinite
<1> QED BY <1>1, <1>2 DEF PullInv, Init, RequestsOwn, PagesFrozen, PagesAnswer

\* A ledger grows by one event or by one page.
LEMMA FiniteStep == PullInv /\ [Next]_vars => TablesFinite'
<1> SUFFICES ASSUME PullInv, [Next]_vars, NEW c \in Bodies PROVE IsFiniteSet(events'[c])
  BY DEF TablesFinite
<1>0. IsFiniteSet(events[c]) /\ events \in [Bodies -> SUBSET Event]
  BY DEF PullInv, TablesFinite, AgreementInv, LedgerInv, TypeOK
<1>1. CASE UNCHANGED rowsAndCursors BY <1>0, <1>1 DEF rowsAndCursors
<1>2. CASE UNCHANGED vars BY <1>0, <1>2 DEF vars, ledger
<1>3. ASSUME NEW b \in Bodies, NEW parents \in SUBSET known[b], Author(b, parents)
      PROVE  IsFiniteSet(events'[c])
  <2>1. \E e : events' = [events EXCEPT ![b] = @ \cup {e}]
    BY <1>3 DEF Author, InsertAndPromote
  <2>2. events'[c] = events[c] \/ \E e : events'[c] = events[c] \cup {e} BY <1>0, <2>1
  <2> QED BY <1>0, <2>2, FS_AddElement
<1>4. ASSUME NEW b \in Bodies, NEW batch \in Batches(b), RetainEvidence(b, batch)
      PROVE  IsFiniteSet(events'[c])
  BY <1>0, <1>4 DEF RetainEvidence
<1>5. ASSUME NEW b \in Bodies, NEW p \in validated[b], IngestPage(b, p)
      PROVE  IsFiniteSet(events'[c])
  <2>1. events' = [events EXCEPT ![b] = @ \cup Missing(b, p.events)]
    BY <1>5 DEF IngestPage, InsertAndPromote
  <2>2. PageAnswers(b, p) BY DEF PullInv, PagesAnswer
  <2>3. IsFiniteSet(p.events) BY <2>2, PageFacts
  <2>4. IsFiniteSet(Missing(b, p.events)) BY <2>3, FS_Difference DEF Missing
  <2>5. IsFiniteSet(events[c] \cup Missing(b, p.events)) BY <1>0, <2>4, FS_Union
  <2>6. events'[c] = events[c] \/ events'[c] = events[c] \cup Missing(b, p.events)
    BY <1>0, <2>1
  <2> QED BY <1>0, <2>5, <2>6
<1> QED BY <1>1, <1>2, <1>3, <1>4, <1>5, StepKinds

\* Every step keeps requests, frozen pages and pages in flight what they are.
LEMMA JournalInvStep ==
    ASSUME PullInv, [Next]_vars
    PROVE  RequestsOwn' /\ PagesFrozen' /\ PagesAnswer'
<1>t. TypeOK BY DEF PullInv, AgreementInv, LedgerInv
<1>g. \A c \in Bodies : events[c] \subseteq events'[c]
  BY LedgerGrows DEF PullInv, AgreementInv
<1>j. \A c \in Bodies : issued[c] \subseteq issued'[c] /\ outbound[c] \subseteq outbound'[c]
  BY <1>t, JournalStep DEF JournalGrowth
<1>i. RequestsOwn /\ PagesFrozen /\ PagesAnswer BY DEF PullInv
<1>f. ASSUME NEW s \in Bodies, NEW p, FrozenBy(s, p) PROVE FrozenBy(s, p)'
  BY <1>f, <1>g, <1>j DEF FrozenBy
<1>a. ASSUME NEW b \in Bodies, NEW p, PageAnswers(b, p) PROVE PageAnswers(b, p)'
  BY <1>a, <1>j DEF PageAnswers
<1> DEFINE Kept == RequestsOwn' /\ PagesFrozen' /\ PagesAnswer'
<1>r. ASSUME issued' = issued PROVE RequestsOwn'
  BY <1>r, <1>g, <1>i DEF RequestsOwn
<1>p. ASSUME outbound' = outbound PROVE PagesFrozen'
  BY <1>p, <1>f, <1>i DEF PagesFrozen
<1>v. ASSUME inbound' = inbound, \A c \in Bodies : validated'[c] \subseteq validated[c]
      PROVE  PagesAnswer'
  <2> SUFFICES ASSUME NEW c \in Bodies
               PROVE  /\ \A p \in validated'[c] : PageAnswers(c, p)'
                      /\ \A r \in inbound'[c] : PageAnswers(c, r.page)'
    BY DEF PagesAnswer
  <2>1. \A p \in validated'[c] : PageAnswers(c, p)' BY <1>v, <1>a, <1>i DEF PagesAnswer
  <2>2. ASSUME NEW r \in inbound'[c] PROVE PageAnswers(c, r.page)'
    <3>1. PageAnswers(c, r.page) BY <1>v, <1>i DEF PagesAnswer
    <3> QED BY <3>1, <1>a
  <2> QED BY <2>1, <2>2
<1>1. ASSUME NEW b \in Bodies, NEW rid \in RequestIds, NEW limit \in Limits,
             IssueRequest(b, rid, limit)
      PROVE  Kept
  <2> DEFINE n == [rid |-> rid, requester |-> Origin[b], heads |-> Heads(events[b]),
                   limit |-> limit]
  <2>1. /\ issued' = [issued EXCEPT ![b] = @ \cup {n}]
        /\ \A q \in issued[b] : q.rid # rid
        /\ UNCHANGED <<events, outbound, inbound, validated>>
    BY <1>1 DEF IssueRequest, ledger
  <2>2. n.rid = rid /\ n.heads \subseteq events[b] BY HeadsAreRows
  <2> HIDE DEF n
  <2>3. RequestsOwn'
    <3> SUFFICES ASSUME NEW c \in Bodies, NEW q \in issued'[c]
                 PROVE  /\ q.heads \subseteq events'[c]
                        /\ \A r \in issued'[c] : q.rid = r.rid => q = r
      BY DEF RequestsOwn
    <3>1. CASE c = b
      <4>1. issued'[c] = issued[b] \cup {n} BY <1>t, <2>1, <3>1 DEF TypeOK
      <4> QED BY <1>i, <2>1, <2>2, <3>1, <4>1 DEF RequestsOwn
    <3>2. CASE c # b
      <4>1. issued'[c] = issued[c] BY <1>t, <2>1, <3>2 DEF TypeOK
      <4> QED BY <1>i, <2>1, <4>1 DEF RequestsOwn
    <3> QED BY <3>1, <3>2
  <2>4. PagesFrozen' BY <1>p, <2>1
  <2>5. PagesAnswer' BY <1>v, <2>1
  <2> QED BY <2>3, <2>4, <2>5
<1>2. ASSUME NEW s \in Bodies, NEW b \in Bodies, NEW q \in issued[b], FreezePage(s, q)
      PROVE  Kept
  <2> DEFINE n == DeltaPage(s, q)
  <2>1. /\ outbound' = [outbound EXCEPT ![s] = @ \cup {n}]
        /\ \A p \in outbound[s] : p.request.rid # q.rid
        /\ ~ ForkedHead(s, q)
        /\ UNCHANGED <<events, issued, inbound, validated>>
    BY <1>2 DEF FreezePage, ledger
  <2>2. n.request = q BY DEF DeltaPage
  <2>3. FrozenBy(s, n) BY <2>1, FreezeFacts
  <2> HIDE DEF n
  <2>4. PagesFrozen'
    <3> SUFFICES ASSUME NEW c \in Bodies, NEW p \in outbound'[c]
                 PROVE  /\ FrozenBy(c, p)'
                        /\ \A o \in outbound'[c] : p.request.rid = o.request.rid => p = o
      BY DEF PagesFrozen
    <3>1. CASE c = s
      <4>1. outbound'[c] = outbound[s] \cup {n} BY <1>t, <2>1, <3>1 DEF TypeOK
      <4>2. FrozenBy(c, p) BY <1>i, <2>3, <3>1, <4>1 DEF PagesFrozen
      <4>3. \A o \in outbound'[c] : p.request.rid = o.request.rid => p = o
        BY <1>i, <2>1, <2>2, <3>1, <4>1 DEF PagesFrozen
      <4> QED BY <1>f, <4>2, <4>3
    <3>2. CASE c # s
      <4>1. outbound'[c] = outbound[c] BY <1>t, <2>1, <3>2 DEF TypeOK
      <4>2. FrozenBy(c, p) /\ \A o \in outbound'[c] : p.request.rid = o.request.rid => p = o
        BY <1>i, <4>1 DEF PagesFrozen
      <4> QED BY <1>f, <4>2
    <3> QED BY <3>1, <3>2
  <2>5. RequestsOwn' BY <1>r, <2>1
  <2>6. PagesAnswer' BY <1>v, <2>1
  <2> QED BY <2>4, <2>5, <2>6
<1>3. ASSUME NEW s \in Bodies, NEW b \in Bodies, NEW n \in outbound[s], ValidateDelta(b, n)
      PROVE  Kept
  <2>1. /\ validated' = [validated EXCEPT ![b] = @ \cup {n}]
        /\ n.request \in issued[b]
        /\ UNCHANGED <<events, issued, outbound, inbound>>
    BY <1>3 DEF ValidateDelta, Answers, ledger, exchange
  <2>2. PageAnswers(b, n) BY <2>1 DEF PageAnswers
  <2>3. PagesAnswer'
    <3> SUFFICES ASSUME NEW c \in Bodies
                 PROVE  /\ \A p \in validated'[c] : PageAnswers(c, p)'
                        /\ \A r \in inbound'[c] : PageAnswers(c, r.page)'
      BY DEF PagesAnswer
    <3>1. validated'[c] \subseteq validated[c] \/ (c = b /\ validated'[c] = validated[b] \cup {n})
      BY <1>t, <2>1 DEF TypeOK
    <3>2. \A p \in validated'[c] : PageAnswers(c, p) BY <1>i, <2>2, <3>1 DEF PagesAnswer
    <3>3. \A r \in inbound'[c] : PageAnswers(c, r.page) BY <1>i, <2>1 DEF PagesAnswer
    <3> QED BY <1>a, <3>2, <3>3
  <2>4. RequestsOwn' /\ PagesFrozen' BY <1>r, <1>p, <2>1
  <2> QED BY <2>3, <2>4
<1>4. ASSUME NEW b \in Bodies, NEW n \in validated[b], IngestPage(b, n)
      PROVE  Kept
  <2> DEFINE r == [page |-> n, achieved |-> Heads(events'[b])]
  <2>1. /\ r.page = n
        /\ inbound' = [inbound EXCEPT ![b] = @ \cup {r}]
        /\ validated' = [validated EXCEPT ![b] = @ \ {n}]
        /\ UNCHANGED <<issued, outbound>>
    BY <1>4 DEF IngestPage, Finish
  <2> HIDE DEF r
  <2>2. PageAnswers(b, n) BY <1>i DEF PagesAnswer
  <2>3. PagesAnswer'
    <3> SUFFICES ASSUME NEW c \in Bodies
                 PROVE  /\ \A p \in validated'[c] : PageAnswers(c, p)'
                        /\ \A x \in inbound'[c] : PageAnswers(c, x.page)'
      BY DEF PagesAnswer
    <3>1. validated'[c] \subseteq validated[c] BY <1>t, <2>1 DEF TypeOK
    <3>2. inbound'[c] \subseteq inbound[c] \/ (c = b /\ inbound'[c] = inbound[b] \cup {r})
      BY <1>t, <2>1 DEF TypeOK
    <3>3. \A p \in validated'[c] : PageAnswers(c, p) BY <1>i, <3>1 DEF PagesAnswer
    <3>4. \A x \in inbound'[c] : PageAnswers(c, x.page)
      BY <1>i, <2>1, <2>2, <3>2 DEF PagesAnswer
    <3> QED BY <1>a, <3>3, <3>4
  <2>4. RequestsOwn' /\ PagesFrozen' BY <1>r, <1>p, <2>1
  <2> QED BY <2>3, <2>4
<1>5. ASSUME UNCHANGED <<issued, outbound, inbound>>,
             \A c \in Bodies : validated'[c] \subseteq validated[c]
      PROVE  Kept
  BY <1>5, <1>r, <1>p, <1>v
<1>6. ASSUME UNCHANGED vars PROVE Kept
  <2>1. UNCHANGED <<issued, outbound, inbound>> /\ validated' = validated
    BY <1>6 DEF vars, exchange
  <2> HIDE DEF Kept
  <2> QED BY <1>5, <2>1
<1> HIDE DEF Kept
<1>7. Kept BY <1>t, <1>1, <1>2, <1>3, <1>4, <1>5, <1>6, JournalKinds
<1> QED BY <1>7 DEF Kept

\* The invariant of the pulls holds always.
LEMMA PullInvAlways == Spec => []PullInv
<1>1. PullInv /\ [Next]_vars => PullInv'
  BY LedgerStep, AuthenticStep, FiniteStep, JournalInvStep DEF PullInv, AgreementInv
<1> QED BY <1>1, PullInit, PTL DEF Spec

\* What each alarm stands for.
LaneCause(lane) ==
    /\ lane = "conversation_identity" => \E e \in Signed : Cloned(e.inc)
    /\ lane = "remote_head" => Forked
    /\ lane = "sync_page" => \E p \in Incarnations : Cloned(p)
    /\ lane = "sync_request" =>
          \E s, t \in Bodies : \E q \in issued[s], r \in issued[t] : q # r /\ q.rid = r.rid

PeerCause(p) == Forked \/ Cloned(p)

\* A cause does not go away.
LEMMA CausesStay ==
    ASSUME PullInv, [Next]_vars
    PROVE  /\ \A l \in Lanes : LaneCause(l) => LaneCause(l)'
           /\ \A p \in Incarnations : PeerCause(p) => PeerCause(p)'
<1>1. /\ \A c \in Bodies : events[c] \subseteq events'[c]
      /\ \A c \in Bodies : issued[c] \subseteq issued'[c]
  BY LedgerGrows, JournalStep DEF PullInv, AgreementInv, LedgerInv, JournalGrowth
<1>2. Signed \subseteq Signed' BY <1>1 DEF Signed
<1>3. Forked => Forked' BY <1>2 DEF Forked, SamePosition
<1>4. (\E e \in Signed : Cloned(e.inc)) => (\E e \in Signed' : Cloned(e.inc))
  BY <1>2
<1>5. (\E s, t \in Bodies : \E q \in issued[s], r \in issued[t] : q # r /\ q.rid = r.rid)
      => (\E s, t \in Bodies : \E q \in issued'[s], r \in issued'[t] : q # r /\ q.rid = r.rid)
  BY <1>1
<1> QED BY <1>3, <1>4, <1>5 DEF LaneCause, PeerCause, Cloned

\* A body's next position is free in its own ledger.
LEMMA NextIsNew ==
    ASSUME PullInv, NEW b \in Bodies, NEW parents
    PROVE  /\ NextEvent(b, parents).inc = Origin[b]
           /\ NextEvent(b, parents).id = <<b, NextEvent(b, parents).seq>>
           /\ \A r \in events[b] : r.inc = Origin[b] => r.seq # NextEvent(b, parents).seq
<1> DEFINE own == {h \in Heads(events[b]) : h.inc = Origin[b]}
           top == CHOOSE h \in own : TRUE
           seq == IF own = {} THEN 1 ELSE top.seq + 1
<1>1. /\ NextEvent(b, parents).inc = Origin[b]
      /\ NextEvent(b, parents).id = <<b, seq>>
      /\ NextEvent(b, parents).seq = seq
  BY DEF NextEvent
<1>2. ASSUME NEW r \in events[b], r.inc = Origin[b] PROVE r.seq # seq
  <2>1. events[b] \in SUBSET Event /\ IsFiniteSet(events[b]) BY BodyFacts
  <2>2. PICK h \in Heads(events[b]) : h.inc = r.inc /\ r.seq <= h.seq
    BY <2>1, HeadAbove
  <2>3. h \in own BY <1>2, <2>2
  <2>4. top \in own BY <2>3
  <2>5. top \in events[b] /\ r.seq <= top.seq BY <1>2, <2>4 DEF Heads
  <2>6. top.seq \in Nat /\ r.seq \in Nat BY <2>1, <2>5 DEF Event
  <2> HIDE DEF top
  <2> QED BY <2>3, <2>5, <2>6
<1> HIDE DEF seq
<1> QED BY <1>1, <1>2

\* A position taken in the evidence was signed by a clone.
LEMMA AuthorConflictCause ==
    ASSUME PullInv, NEW b \in Bodies, NEW parents, AuthorConflict(b, parents)
    PROVE  LaneCause("conversation_identity")
<1> DEFINE e == NextEvent(b, parents)
<1>1. PICK r \in events[b] \cup evidence[b] : r # e /\ (r.id = e.id \/ SamePosition(r, e))
  BY DEF AuthorConflict, IdentityConflict
<1>2. /\ e.inc = Origin[b] /\ e.id = <<b, e.seq>>
      /\ \A x \in events[b] : x.inc = Origin[b] => x.seq # e.seq
  BY NextIsNew
<1> HIDE DEF e
<1>3. r \in Event /\ Genuine(r) BY BodyFacts
<1>4. r.id[1] \in Bodies BY <1>3 DEF Event, EventIds
<1>5. r \in events[r.id[1]] /\ r.inc = Origin[r.id[1]] /\ r.id[2] = r.seq
  BY <1>3 DEF Genuine
<1>6. r.id[1] # b
  <2> SUFFICES ASSUME r.id[1] = b PROVE FALSE OBVIOUS
  <2>1. r.seq = e.seq BY <1>1, <1>2, <1>5 DEF SamePosition
  <2> QED BY <1>2, <1>5, <2>1
<1>7. SamePosition(r, e) BY <1>1, <1>2, <1>6
<1>8. Cloned(r.inc) BY <1>2, <1>4, <1>5, <1>6, <1>7 DEF Cloned, SamePosition
<1>9. r \in Signed BY <1>4, <1>5 DEF Signed
<1> QED BY <1>8, <1>9 DEF LaneCause

\* Rivals in a conversation were signed by clones.
LEMMA RetainConflictCause ==
    ASSUME PullInv, NEW b \in Bodies, NEW batch \in Batches(b), RetainConflict(b, batch)
    PROVE  LaneCause("conversation_identity")
<1>1. PICK e \in batch : \E r \in events[b] \cup evidence[b] \cup batch :
        r # e /\ (r.id = e.id \/ SamePosition(r, e))
  BY DEF RetainConflict, BatchConflict, IdentityConflict
<1>2. PICK r \in events[b] \cup evidence[b] \cup batch :
        r # e /\ (r.id = e.id \/ SamePosition(r, e))
  BY <1>1
<1>3. \A x \in batch : \E s \in Bodies : x \in events[s] BY DEF Batches, Shown
<1>4. \A x \in events[b] \cup evidence[b] \cup batch : x \in Event /\ Genuine(x)
  BY <1>3, BodyFacts
<1>5. Cloned(e.inc) /\ e \in Signed
  BY <1>2, <1>4, RivalsAreClones DEF SamePosition
<1> QED BY <1>5 DEF LaneCause

\* Two pages for one request of one body come from two bodies of one origin.
LEMMA OtherPageCause ==
    ASSUME PullInv, NEW b \in Bodies, NEW p \in validated[b], IngestOtherPage(b, p)
    PROVE  p.sender \in Incarnations /\ Cloned(p.sender)
<1>1. PICK r \in inbound[b] :
        /\ r.page # p /\ r.page.sender = p.sender
        /\ r.page.request.rid = p.request.rid
  BY DEF IngestOtherPage, Receipts
<1>2. PageAnswers(b, p) /\ PageAnswers(b, r.page) BY DEF PullInv, PagesAnswer
<1>3. p.sender \in Incarnations BY <1>2, PageFacts
<1>4. PICK s \in Bodies : p \in outbound[s] BY <1>2 DEF PageAnswers
<1>5. PICK t \in Bodies : r.page \in outbound[t] BY <1>2 DEF PageAnswers
<1>6. p.sender = Origin[s] /\ r.page.sender = Origin[t]
  BY <1>4, <1>5 DEF PullInv, PagesFrozen, FrozenBy
<1>7. s # t BY <1>1, <1>4, <1>5 DEF PullInv, PagesFrozen
<1> QED BY <1>1, <1>3, <1>6, <1>7 DEF Cloned

\* What a step may add to the alarms.
AlarmGrowth ==
    \A c \in Bodies :
        /\ \A l \in equivocations'[c] : l \in equivocations[c] \/ LaneCause(l)
        /\ \A p \in Incarnations :
              \/ peerState'[c][p] \in {peerState[c][p], "coherent"}
              \/ peerState'[c][p] = "quarantined" /\ PeerCause(p)
        /\ \A x \in refused'[c] :
              \/ x \in refused[c]
              \/ x[2] = "regression"
              \/ x[2] = "equivocation" /\ PeerCause(x[1])

\* A step adds no alarm without its cause, and none for a gap.
LEMMA AlarmStep ==
    ASSUME PullInv, [Next]_vars
    PROVE  AlarmGrowth
<1>t. TypeOK BY DEF PullInv, AgreementInv, LedgerInv
<1> USE <1>t DEF AlarmGrowth
<1>1. ASSUME UNCHANGED <<equivocations, peerState, refused>> PROVE AlarmGrowth
  BY <1>1
<1>2. ASSUME NEW b \in Bodies, NEW lane, LaneCause(lane), Record(b, lane),
             UNCHANGED <<peerState, refused>>
      PROVE  AlarmGrowth
  BY <1>2 DEF Record, TypeOK
<1>3. ASSUME NEW b \in Bodies, NEW s \in Bodies, NEW p \in outbound[s], RefuseDelta(b, p)
      PROVE  AlarmGrowth
  <2>1. /\ refused' = [refused EXCEPT ![b] = @ \cup {<<p.sender, Verdict(b, p.events)>>}]
        /\ UNCHANGED <<equivocations, peerState>>
        /\ Verdict(b, p.events) # "ok" /\ p.request \in issued[b]
    BY <1>3 DEF RefuseDelta, Refuse, Answers, exchange
  <2>2. PageAnswers(b, p) BY <2>1 DEF PageAnswers
  <2>3. Verdict(b, p.events) = "equivocation" /\ Forked BY <2>1, <2>2, RefusalCause
  <2> QED BY <2>1, <2>3 DEF TypeOK, PeerCause
<1>4. ASSUME NEW b \in Bodies, IngestStep(b) PROVE AlarmGrowth
  <2> PICK p \in validated[b] :
        \/ IngestReplay(b, p)
        \/ IngestOtherPage(b, p)
        \/ IngestPage(b, p)
        \/ IngestRegression(b, p)
        \/ IngestConflict(b, p)
    BY <1>4 DEF IngestStep
  <2>1. PageAnswers(b, p) BY DEF PullInv, PagesAnswer
  <2>2. p.sender \in Incarnations BY <2>1, PageFacts
  <2>3. CASE IngestReplay(b, p) \/ IngestPage(b, p)
    <3>1. /\ peerState' = [peerState EXCEPT ![b][p.sender] = "coherent"]
          /\ UNCHANGED <<equivocations, refused>>
      BY <2>3 DEF IngestReplay, IngestPage, SetPeerState
    <3> QED BY <2>2, <3>1 DEF TypeOK
  <2>4. CASE IngestOtherPage(b, p)
    <3>1. Cloned(p.sender) BY <2>4, OtherPageCause
    <3>2. /\ peerState' = [peerState EXCEPT ![b][p.sender] = "quarantined"]
          /\ equivocations' = [equivocations EXCEPT ![b] = @ \cup {"sync_page"}]
          /\ refused' = [refused EXCEPT ![b] = @ \cup {<<p.sender, "equivocation">>}]
      BY <2>4 DEF IngestOtherPage, SetPeerState, Record, Refuse
    <3>3. LaneCause("sync_page") /\ PeerCause(p.sender)
      BY <2>2, <3>1 DEF LaneCause, PeerCause
    <3> QED BY <2>2, <3>2, <3>3 DEF TypeOK
  <2>5. CASE IngestRegression(b, p)
    <3>1. /\ refused' = [refused EXCEPT ![b] = @ \cup {<<p.sender, "regression">>}]
          /\ UNCHANGED <<equivocations, peerState>>
      BY <2>5 DEF IngestRegression, Refuse, exchange
    <3> QED BY <3>1 DEF TypeOK
  <2>6. CASE IngestConflict(b, p)
    <3>1. /\ Verdict(b, p.events) = "equivocation" /\ Forked
          /\ \E e \in Signed : Cloned(e.inc)
      BY <2>1, <2>6, RefusalCause DEF IngestConflict
    <3>2. /\ peerState' = [peerState EXCEPT ![b][p.sender] = "quarantined"]
          /\ equivocations' = [equivocations EXCEPT ![b] = @ \cup
                {l \in {"conversation_identity"} : Verdict(b, p.events) = "equivocation"}]
          /\ refused' = [refused EXCEPT ![b] = @ \cup {<<p.sender, "equivocation">>}]
      BY <2>6, <3>1 DEF IngestConflict, SetPeerState, Refuse
    <3>3. LaneCause("conversation_identity") /\ PeerCause(p.sender)
      BY <3>1 DEF LaneCause, PeerCause
    <3> QED BY <2>2, <3>2, <3>3 DEF TypeOK
  <2> QED BY <2>3, <2>4, <2>5, <2>6
<1>5. ASSUME NEW s \in Bodies, NEW b \in Bodies, NEW q \in issued[b],
             ServeForkedHead(s, q) \/ ServeReusedId(s, q)
      PROVE  AlarmGrowth
  <2>1. CASE ServeForkedHead(s, q)
    <3>1. PICK h \in q.heads, r \in events[s] : SamePosition(r, h) /\ r # h
      BY <2>1 DEF ServeForkedHead, ForkedHead
    <3>2. h \in events[b] BY DEF PullInv, RequestsOwn
    <3>3. LaneCause("remote_head") BY <3>1, <3>2 DEF LaneCause, Forked, Signed
    <3> QED BY <1>2, <2>1, <3>3 DEF ServeForkedHead
  <2>2. CASE ServeReusedId(s, q)
    <3>1. PICK p \in outbound[s] : p.request.rid = q.rid /\ p.request # q
      BY <2>2 DEF ServeReusedId
    <3>2. PICK d \in Bodies : p.request \in issued[d]
      BY DEF PullInv, PagesFrozen, FrozenBy
    <3>3. LaneCause("sync_request") BY <3>1, <3>2 DEF LaneCause
    <3> QED BY <1>2, <2>2, <3>3 DEF ServeReusedId
  <2> QED BY <1>5, <2>1, <2>2
<1>6. ASSUME NEW b \in Bodies, LocalStep(b) PROVE AlarmGrowth
  <2>1. ASSUME NEW parents, AuthorConflict(b, parents) PROVE AlarmGrowth
    BY <1>2, <2>1, AuthorConflictCause DEF AuthorConflict
  <2>2. ASSUME NEW batch \in Batches(b), RetainConflict(b, batch) PROVE AlarmGrowth
    BY <1>2, <2>2, RetainConflictCause DEF RetainConflict
  <2>3. \/ \E parents : AuthorConflict(b, parents)
        \/ \E batch \in Batches(b) : RetainConflict(b, batch)
        \/ UNCHANGED <<equivocations, peerState, refused>>
    BY <1>6 DEF LocalStep, Author, RetainEvidence, Crash, exchange
  <2> HIDE DEF AlarmGrowth
  <2> QED BY <1>1, <2>1, <2>2, <2>3
<1>7. ASSUME NEW b \in Bodies, NEW rid, NEW limit, IssueRequest(b, rid, limit)
      PROVE  AlarmGrowth
  BY <1>1, <1>7 DEF IssueRequest
<1>8. ASSUME NEW b \in Bodies, NEW s \in Bodies, ServeStep(s, b) \/ PullStep(b, s)
      PROVE  AlarmGrowth
  <2>1. \/ \E q \in issued[b] : ServeForkedHead(s, q) \/ ServeReusedId(s, q)
        \/ \E p \in outbound[s] : RefuseDelta(b, p)
        \/ UNCHANGED <<equivocations, peerState, refused>>
    BY <1>8 DEF ServeStep, PullStep, FreezePage, ValidateDelta, exchange
  <2> HIDE DEF AlarmGrowth
  <2> QED BY <1>1, <1>3, <1>5, <2>1
<1>9. CASE UNCHANGED vars BY <1>1, <1>9 DEF vars, exchange
<1>10. CASE Next
  <2> HIDE DEF AlarmGrowth
  <2> PICK b \in Bodies :
        \/ LocalStep(b)
        \/ \E rid \in CallerIds[b], limit \in Limits : IssueRequest(b, rid, limit)
        \/ \E s \in Peers[b] : ServeStep(s, b) \/ PullStep(b, s)
        \/ IngestStep(b)
    BY <1>10 DEF Next
  <2>1. Peers[b] \subseteq Bodies BY PeerAssumption
  <2> QED BY <2>1, <1>4, <1>6, <1>7, <1>8
<1> QED BY <1>9, <1>10

\* A frozen page never conflicts with the ledger it came from.
LEMMA FrozenServeable == PullInv => FrozenPageServeable
<1> SUFFICES ASSUME PullInv, NEW b \in Bodies, NEW p \in outbound[b]
             PROVE  ContentValid(p) /\ Verdict(b, p.events) = "ok"
  BY DEF FrozenPageServeable
<1>1. ContentValid(p) /\ p.events \subseteq events[b]
  BY DEF PullInv, PagesFrozen, FrozenBy
<1>2. /\ events[b] \in SUBSET Event /\ IsFiniteSet(events[b])
      /\ \A e, f \in events[b] \cup evidence[b] :
            (e.id = f.id \/ SamePosition(e, f)) => e = f
  BY BodyFacts
<1>3. p.events \in SUBSET Event /\ IsFiniteSet(p.events) BY <1>1, <1>2, FS_Subset
<1>4. ~ \E e, f \in p.events : e # f /\ e.id = f.id BY <1>1, <1>2
<1>5. ~ \E e \in p.events : Conflicts(b, p.events, e)
  BY <1>1, <1>2 DEF Conflicts, IdentityConflict, SamePosition
<1>6. ~ \E e \in p.events : Gapped(b, p.events, e) BY <1>1 DEF Gapped
<1> QED BY <1>1, <1>3, <1>4, <1>5, <1>6, VerdictCases

\* A last page that is ingested covers its offer: its events, and below the
\* requested heads the chains the requester held already.
LEMMA ReceiptStep ==
    ASSUME PullInv, PullInv', [Next]_vars, ReceiptCoversOffer
    PROVE  ReceiptCoversOffer'
<1> DEFINE Covers(rows, r, h) ==
        /\ \E e \in rows : SamePosition(e, h) /\ (e = h \/ Cloned(h.inc))
        /\ \E a \in r.achieved : a.inc = h.inc /\ h.seq <= a.seq
<1> SUFFICES ASSUME NEW c \in Bodies, NEW r \in inbound'[c], ~ r.page.more,
                    NEW h \in r.page.offered
             PROVE  Covers(events'[c], r, h)
  BY DEF ReceiptCoversOffer, SamePosition, Cloned
<1>t. TypeOK BY DEF PullInv, AgreementInv, LedgerInv
<1>g. events[c] \subseteq events'[c] BY LedgerGrows DEF PullInv, AgreementInv
<1>1. CASE r \in inbound[c]
  <2>1. Covers(events[c], r, h) BY <1>1 DEF ReceiptCoversOffer
  <2> QED BY <1>g, <2>1
<1>2. ASSUME NEW b \in Bodies, NEW p \in validated[b], IngestPage(b, p), r \notin inbound[c]
      PROVE  Covers(events'[c], r, h)
  <2>1. c = b /\ r = [page |-> p, achieved |-> Heads(events'[b])]
    BY <1>t, <1>2 DEF IngestPage, TypeOK
  <2>2. r.page = p /\ r.achieved = Heads(events'[c]) BY <2>1
  <2>3. PageAnswers(b, p) BY DEF PullInv, PagesAnswer
  <2>4. /\ ContentValid(p) /\ p.request.heads \subseteq events[b]
        /\ \A e \in p.events \cup p.offered : e \in Event /\ Genuine(e)
    BY <2>3, PageFacts
  <2>5. events'[b] = events[b] \cup Missing(b, p.events)
    BY <1>t, <1>2 DEF IngestPage, InsertAndPromote, TypeOK
  <2>6. p.events \cup p.request.heads \subseteq events'[c]
    BY <2>1, <2>4, <2>5 DEF Missing
  <2>7. /\ events'[c] \in SUBSET Event /\ IsFiniteSet(events'[c])
        /\ \A e \in events'[c] :
              \/ e.seq = 1 /\ e.prev = None
              \/ \E f \in events'[c] : f.inc = e.inc /\ f.seq + 1 = e.seq /\ e.prev = f.id
    BY DEF PullInv, AgreementInv, LedgerInv, TypeOK, TablesFinite, ChainIntact
  <2>8. PICK q \in events'[c] : q.inc = h.inc /\ h.seq <= q.seq
    <3>1. \/ \E q \in p.request.heads : q.inc = h.inc /\ h.seq <= q.seq
          \/ \E e \in p.events : SamePosition(e, h)
      BY <2>2, <2>4 DEF ContentValid
    <3>2. h \in Event BY <2>2, <2>4
    <3> QED BY <2>6, <3>1, <3>2 DEF SamePosition, Event
  <2>9. h \in Event /\ h.seq \in Nat \ {0} /\ q.seq \in Nat /\ Genuine(h)
    BY <2>2, <2>4, <2>7 DEF Event
  <2>10. PICK a \in Heads(events'[c]) : a.inc = q.inc /\ q.seq <= a.seq
    BY <2>7, HeadAbove
  <2>11. a.seq \in Nat BY <2>7, HeadsAreRows DEF Event
  <2>12. \E x \in r.achieved : x.inc = h.inc /\ h.seq <= x.seq
    BY <2>2, <2>8, <2>9, <2>10, <2>11
  <2>13. PICK e \in events'[c] : e.inc = q.inc /\ e.seq = h.seq
    <3>1. h.seq \in 1..q.seq BY <2>8, <2>9
    <3> DEFINE rows == events'[c]
    <3>2. q \in rows OBVIOUS
    <3> HIDE DEF rows
    <3>3. \A e \in rows : \A n \in 1..e.seq : \E f \in rows : f.inc = e.inc /\ f.seq = n
      BY <2>7, ChainIsFull DEF rows
    <3>4. \E f \in rows : f.inc = q.inc /\ f.seq = h.seq BY <3>1, <3>2, <3>3
    <3> QED BY <3>4 DEF rows
  <2>14. SamePosition(e, h) BY <2>8, <2>13 DEF SamePosition
  <2>15. e = h \/ Cloned(h.inc)
    <3>1. e \in Event BY <2>7
    <3>2. Genuine(e)
      <4>1. \A x \in events[b] : Genuine(x) BY BodyFacts
      <4> QED BY <2>1, <2>4, <2>5, <4>1 DEF Missing
    <3> QED BY <2>9, <2>14, <3>1, <3>2, RivalsAreClones DEF SamePosition
  <2> QED BY <2>12, <2>14, <2>15
<1>3. r \in inbound[c] \/ \E b \in Bodies : \E p \in validated[b] : IngestPage(b, p)
  <2>1. CASE UNCHANGED vars BY <2>1 DEF vars, exchange
  <2>2. CASE Next
    BY <1>t, <2>2, JournalKinds DEF IssueRequest, FreezePage, ValidateDelta, exchange
  <2> QED BY <2>1, <2>2
<1> QED BY <1>1, <1>2, <1>3

\* For any number of bodies, also with cloned credentials: a frozen page can
\* always be served again, no pull meets a gap, a final receipt covers what was
\* offered, and no alarm is raised without its cause (ledger.py:
\* delta_idempotent, ingest_idempotent; sync.py: pull).
THEOREM PullsStaySound == Spec => []PullsAreSound
<1> DEFINE I == PullInv /\ NoSyncGap /\ AlarmsHaveCause /\ ReceiptCoversOffer
<1>1. Init => I
  <2> SUFFICES ASSUME Init PROVE I OBVIOUS
  <2>1. NoSyncGap /\ AlarmsHaveCause /\ ReceiptCoversOffer
    BY DEF Init, NoSyncGap, AlarmsHaveCause, ReceiptCoversOffer
  <2> QED BY <2>1, PullInit
<1>2. I /\ [Next]_vars => I'
  <2> SUFFICES ASSUME I, [Next]_vars PROVE I' OBVIOUS
  <2>1. PullInv'
    BY LedgerStep, AuthenticStep, FiniteStep, JournalInvStep DEF PullInv, AgreementInv
  <2>2. AlarmGrowth BY AlarmStep
  <2>t. equivocations \in [Bodies -> SUBSET Lanes] /\ equivocations' \in [Bodies -> SUBSET Lanes]
    BY <2>1 DEF PullInv, AgreementInv, LedgerInv, TypeOK
  <2>3. NoSyncGap'
    <3> SUFFICES ASSUME NEW b \in Bodies, NEW p \in Incarnations
                 PROVE  peerState'[b][p] # "gap" /\ <<p, "gap">> \notin refused'[b]
      BY DEF NoSyncGap
    <3>1. peerState[b][p] # "gap" /\ <<p, "gap">> \notin refused[b] BY DEF NoSyncGap
    <3>2. peerState'[b][p] # "gap" BY <2>2, <3>1 DEF AlarmGrowth
    <3>3. <<p, "gap">> \notin refused'[b]
      <4> SUFFICES ASSUME <<p, "gap">> \in refused'[b] PROVE FALSE OBVIOUS
      <4>1. <<p, "gap">>[2] = "gap" OBVIOUS
      <4> QED BY <2>2, <3>1, <4>1 DEF AlarmGrowth
    <3> QED BY <3>2, <3>3
  <2>4. AlarmsHaveCause'
    <3> SUFFICES ASSUME NEW b \in Bodies
                 PROVE  /\ \A l \in equivocations'[b] : LaneCause(l)'
                        /\ \A p \in Incarnations :
                              (peerState'[b][p] = "quarantined"
                                 \/ <<p, "equivocation">> \in refused'[b]) => PeerCause(p)'
      BY DEF AlarmsHaveCause, LaneCause, PeerCause
    <3>1. \A l \in equivocations[b] : LaneCause(l) BY DEF AlarmsHaveCause, LaneCause
    <3>2. \A p \in Incarnations :
            (peerState[b][p] = "quarantined" \/ <<p, "equivocation">> \in refused[b])
               => PeerCause(p)
      BY DEF AlarmsHaveCause, PeerCause
    <3>3. ASSUME NEW l \in equivocations'[b] PROVE LaneCause(l)'
      <4>1. l \in Lanes BY <2>t
      <4>2. LaneCause(l) BY <2>2, <3>1 DEF AlarmGrowth
      <4> QED BY <4>1, <4>2, CausesStay
    <3>4. ASSUME NEW p \in Incarnations,
                 peerState'[b][p] = "quarantined" \/ <<p, "equivocation">> \in refused'[b]
          PROVE  PeerCause(p)'
      <4>1. PeerCause(p) BY <2>2, <3>2, <3>4 DEF AlarmGrowth
      <4> QED BY <4>1, CausesStay
    <3> QED BY <3>3, <3>4
  <2>5. ReceiptCoversOffer' BY <2>1, ReceiptStep
  <2> QED BY <2>1, <2>3, <2>4, <2>5
<1>3. I => PullsAreSound BY FrozenServeable DEF PullsAreSound
<1> QED BY <1>1, <1>2, <1>3, PTL DEF Spec

\* A step keeps or passes every tip a peer's cursor names.
LEMMA CursorStep ==
    ASSUME PullInv, [Next]_vars, NEW c \in Bodies, NEW i \in Incarnations,
           NEW t \in cursors[c][i]
    PROVE  \E u \in cursors'[c][i] : u.inc = t.inc /\ u.seq >= t.seq
<1>t. TypeOK /\ CursorHonest BY DEF PullInv, AgreementInv, LedgerInv
<1>1. t \in Event /\ t.seq \in Nat BY <1>t DEF TypeOK, Event
<1>2. CASE t \in cursors'[c][i] BY <1>1, <1>2
<1>3. ASSUME NEW b \in Bodies, NEW p \in validated[b], IngestPage(b, p)
      PROVE  \E u \in cursors'[c][i] : u.inc = t.inc /\ u.seq >= t.seq
  <2>1. PageAnswers(b, p) BY DEF PullInv, PagesAnswer
  <2>2. /\ p.events \in SUBSET Event /\ IsFiniteSet(p.events) /\ p.sender \in Incarnations
    BY <2>1, PageFacts
  <2>3. cursors' = [cursors EXCEPT ![b][p.sender] = Heads(@ \cup p.events)]
    BY <1>3 DEF IngestPage, AdvanceCursors
  <2>4. CASE c = b /\ i = p.sender
    <3> DEFINE tips == cursors[c][i] \cup p.events
    <3>1. cursors'[c][i] = Heads(tips) BY <1>t, <2>2, <2>3, <2>4 DEF TypeOK
    <3>2. cursors[c][i] \in SUBSET events[c] BY <1>t DEF CursorHonest
    <3>3. IsFiniteSet(cursors[c][i]) /\ events[c] \in SUBSET Event
      BY <3>2, BodyFacts, FS_Subset
    <3>4. IsFiniteSet(tips) /\ tips \in SUBSET Event BY <2>2, <3>2, <3>3, FS_Union
    <3>5. t \in tips OBVIOUS
    <3> HIDE DEF tips
    <3>6. PICK u \in Heads(tips) : u.inc = t.inc /\ t.seq <= u.seq BY <3>4, <3>5, HeadAbove
    <3>7. u.seq \in Nat BY <3>4, HeadsAreRows DEF Event
    <3> QED BY <1>1, <3>1, <3>6, <3>7
  <2>5. CASE ~ (c = b /\ i = p.sender)
    <3>1. cursors'[c][i] = cursors[c][i] BY <1>t, <2>2, <2>3, <2>5 DEF TypeOK
    <3> QED BY <1>2, <3>1
  <2> QED BY <2>4, <2>5
<1>4. \/ t \in cursors'[c][i]
      \/ \E b \in Bodies : \E p \in validated[b] : IngestPage(b, p)
  <2>1. CASE UNCHANGED vars BY <2>1 DEF vars, exchange
  <2>2. CASE Next
    BY <2>2, StepKinds DEF rowsAndCursors, Author, RetainEvidence, exchange
  <2> QED BY <2>1, <2>2
<1> QED BY <1>2, <1>3, <1>4

\* Nothing a body holds, journalled or was told of a peer's position is ever
\* taken back (ledger.py: the append-only tables, ingest_idempotent's cursors).
THEOREM NothingIsTakenBack == Spec => DurableHistory /\ CursorsAdvance
<1>1. PullInv /\ [Next]_vars =>
        [\A b \in Bodies, p \in Incarnations : \A t \in cursors[b][p] :
            \E u \in cursors'[b][p] : u.inc = t.inc /\ u.seq >= t.seq]_vars
  BY CursorStep
<1> QED BY <1>1, PullInvAlways, HistoryIsDurable, PTL DEF Spec, CursorsAdvance

-----------------------------------------------------------------------------
(***************************************************************************)
(* Folds over a sequence, step by step.                                    *)
(***************************************************************************)

\* What holds of 0 and passes to the next number holds up to n.
LEMMA Rising ==
    ASSUME NEW n \in Nat, NEW S, 0 \in S,
           \A k \in Nat : (k < n /\ k \in S) => k + 1 \in S
    PROVE  \A k \in 0..n : k \in S
<1> DEFINE out == {k \in 0..n : k \notin S}
<1>1. SUFFICES ASSUME out # {} PROVE FALSE OBVIOUS
<1>2. out \in SUBSET Nat OBVIOUS
<1>3. PICK k \in out : \A m \in out : k <= m
  <2> HIDE DEF out
  <2> QED BY <1>1, <1>2, LeastNat
<1>4. k \in Nat /\ k <= n /\ k \notin S OBVIOUS
<1>5. k # 0 BY <1>4
<1>6. k - 1 \in Nat /\ k - 1 < n /\ (k - 1) + 1 = k /\ k - 1 \in 0..n BY <1>4, <1>5
<1>7. k - 1 \notin S BY <1>4, <1>6
<1>8. k - 1 \in out BY <1>6, <1>7
<1> QED BY <1>3, <1>4, <1>6, <1>8

\* Max is the greatest number of a set.
LEMMA MaxIs ==
    ASSUME NEW n \in Nat, NEW s \in SUBSET (1..n), NEW m \in s, \A y \in s : y <= m
    PROVE  Max(s) = m
<1>1. s \in SUBSET Nat /\ m \in Nat OBVIOUS
<1>2. \A y \in s : m >= y BY <1>1
<1>3. \E x \in s : \A y \in s : x >= y BY <1>2
<1>4. Max(s) \in s /\ \A y \in s : Max(s) >= y BY <1>3, Zenon DEF Max
<1>5. Max(s) \in Nat /\ Max(s) >= m /\ m >= Max(s) BY <1>1, <1>2, <1>4
<1> QED BY <1>1, <1>5

\* Every set of some of 1..n that is not empty has one.
LEMMA MaxIn ==
    ASSUME NEW n \in Nat, NEW s \in SUBSET (1..n), s # {}
    PROVE  Max(s) \in s
<1> DEFINE over == {m \in Nat : \A y \in s : y <= m}
<1>1. over \in SUBSET Nat /\ n \in over OBVIOUS
<1>2. PICK m \in over : \A k \in over : m <= k
  <2> HIDE DEF over
  <2> QED BY <1>1, LeastNat
<1>3. m \in s
  <2> SUFFICES ASSUME m \notin s PROVE FALSE OBVIOUS
  <2>1. PICK y \in s : TRUE OBVIOUS
  <2>2. m \in Nat /\ \A x \in s : x \in Nat /\ 1 <= x /\ x < m OBVIOUS
  <2>3. m - 1 \in Nat /\ \A x \in s : x <= m - 1 BY <2>1, <2>2
  <2>4. m - 1 \in over BY <2>3
  <2> QED BY <1>2, <2>2, <2>4
<1>4. Max(s) = m BY <1>3, MaxIs
<1> QED BY <1>3, <1>4

\* A fold from left to right is determined step by step: Folds is how the
\* library's FoldLeft unfolds over the index sets of a sequence.
Folds(it, h, base, n) ==
    it = [s \in SUBSET (1..n) |->
            IF s = {} THEN base ELSE h[<<Max(s), it[s \ {Max(s)}]>>]]

LEMMA FoldExists ==
    ASSUME NEW n \in Nat, NEW V, NEW base \in V, NEW h \in [(1..n) \X V -> V]
    PROVE  \E it \in [SUBSET (1..n) -> V] : Folds(it, h, base, n)
<1> DEFINE S == {k \in 0..n : \E it \in [SUBSET (1..k) -> V] : Folds(it, h, base, k)}
<1>1. 0 \in S
  <2> DEFINE it == [s \in SUBSET (1..0) |-> base]
  <2>1. it \in [SUBSET (1..0) -> V] OBVIOUS
  <2>2. \A s \in SUBSET (1..0) : s = {} OBVIOUS
  <2>3. Folds(it, h, base, 0) BY <2>2 DEF Folds
  <2> QED BY <2>1, <2>3
<1>2. ASSUME NEW k \in Nat, k < n, k \in S PROVE k + 1 \in S
  <2>1. PICK g \in [SUBSET (1..k) -> V] : Folds(g, h, base, k) BY <1>2
  <2> DEFINE it == [s \in SUBSET (1..(k + 1)) |->
                      IF k + 1 \in s THEN h[<<k + 1, g[s \ {k + 1}]>>] ELSE g[s]]
  <2>2. ASSUME NEW s \in SUBSET (1..(k + 1))
        PROVE  /\ it[s] \in V
               /\ it[s] = IF s = {} THEN base ELSE h[<<Max(s), it[s \ {Max(s)}]>>]
    <3>1. CASE k + 1 \in s
      <4>1. s \ {k + 1} \in SUBSET (1..k) BY <1>2
      <4>2. g[s \ {k + 1}] \in V BY <4>1
      <4>3. k + 1 \in 1..n BY <1>2
      <4>4. it[s] = h[<<k + 1, g[s \ {k + 1}]>>] /\ it[s] \in V BY <3>1, <4>2, <4>3
      <4>5. Max(s) = k + 1
        <5>1. k + 1 \in Nat /\ \A y \in s : y <= k + 1 BY <1>2
        <5> QED BY <3>1, <5>1, MaxIs
      <4>6. s \ {k + 1} \in SUBSET (1..(k + 1)) /\ k + 1 \notin s \ {k + 1} OBVIOUS
      <4>7. it[s \ {k + 1}] = g[s \ {k + 1}] BY <4>6
      <4> HIDE DEF it
      <4> QED BY <3>1, <4>4, <4>5, <4>7
    <3>2. CASE k + 1 \notin s
      <4>1. s \in SUBSET (1..k) BY <1>2, <3>2
      <4>2. it[s] = g[s] /\ g[s] \in V BY <3>2, <4>1
      <4>3. g[s] = IF s = {} THEN base ELSE h[<<Max(s), g[s \ {Max(s)}]>>]
        BY <2>1, <4>1 DEF Folds
      <4>4. s \ {Max(s)} \in SUBSET (1..k) /\ s \ {Max(s)} \in SUBSET (1..(k + 1))
            /\ k + 1 \notin s \ {Max(s)}
        BY <3>2, <4>1
      <4>5. it[s \ {Max(s)}] = g[s \ {Max(s)}] BY <4>4
      <4> HIDE DEF it
      <4> QED BY <4>2, <4>3, <4>5
    <3> QED BY <3>1, <3>2
  <2>3. it \in [SUBSET (1..(k + 1)) -> V] BY <2>2
  <2>4. Folds(it, h, base, k + 1)
    <3>1. it = [s \in SUBSET (1..(k + 1)) |-> it[s]] OBVIOUS
    <3> HIDE DEF it
    <3>2. [s \in SUBSET (1..(k + 1)) |-> it[s]] =
            [s \in SUBSET (1..(k + 1)) |->
               IF s = {} THEN base ELSE h[<<Max(s), it[s \ {Max(s)}]>>]]
      BY <2>2
    <3> QED BY <3>1, <3>2 DEF Folds
  <2> HIDE DEF it
  <2>5. k + 1 \in 0..n BY <1>2
  <2> QED BY <2>3, <2>4, <2>5
<1> HIDE DEF S
<1>3. n \in S BY <1>1, <1>2, Rising
<1> QED BY <1>3 DEF S

\* The index sets a fold walks through.
LEMMA Prefixed ==
    ASSUME NEW n \in Nat, NEW k \in Nat, k < n
    PROVE  /\ 1..(k + 1) \in SUBSET (1..n) /\ 1..(k + 1) # {}
           /\ Max(1..(k + 1)) = k + 1
           /\ (1..(k + 1)) \ {k + 1} = 1..k
           /\ 1..0 = {}
<1>1. /\ 1..(k + 1) \in SUBSET (1..n) /\ k + 1 \in 1..(k + 1)
      /\ \A y \in 1..(k + 1) : y <= k + 1
      /\ (1..(k + 1)) \ {k + 1} = 1..k /\ 1..0 = {}
  OBVIOUS
<1>2. Max(1..(k + 1)) = k + 1 BY <1>1, MaxIs
<1> QED BY <1>1, <1>2

\* What AppendAbsent makes of the first k ids.
LEMMA AppendAbsentSteps ==
    ASSUME NEW V, NEW feed \in Seq(V), NEW new \in Seq(V)
    PROVE  \E g : /\ g[0] = feed
                  /\ \A k \in Nat : k < Len(new) =>
                        g[k + 1] = IF new[k + 1] \in Range(g[k]) THEN g[k]
                                   ELSE Append(g[k], new[k + 1])
                  /\ AppendAbsent(feed, new) = g[Len(new)]
<1> DEFINE n == Len(new)
           Op(acc, i) == IF i \in Range(acc) THEN acc ELSE Append(acc, i)
           iter[s \in SUBSET (1..n)] ==
              IF s = {} THEN feed ELSE Op(iter[s \ {Max(s)}], new[Max(s)])
           h == [p \in (1..n) \X Seq(V) |-> Op(p[2], new[p[1]])]
<1>0. n \in Nat /\ DOMAIN new = 1..n /\ \A i \in 1..n : new[i] \in V
  BY LenProperties, ElementOfSeq
<1>1. AppendAbsent(feed, new) = iter[1..n]
  BY <1>0 DEF AppendAbsent, FoldLeft, MapThenFoldSet
<1>2. iter = CHOOSE g : g = [s \in SUBSET (1..n) |->
                 IF s = {} THEN feed ELSE Op(g[s \ {Max(s)}], new[Max(s)])]
  BY DEF iter
<1> HIDE DEF iter
<1>3. h \in [(1..n) \X Seq(V) -> Seq(V)]
  <2>1. \A p \in (1..n) \X Seq(V) : Op(p[2], new[p[1]]) \in Seq(V)
    BY <1>0, AppendProperties
  <2> HIDE DEF Op
  <2> QED BY <2>1
<1>4. PICK it \in [SUBSET (1..n) -> Seq(V)] : Folds(it, h, feed, n)
  <2> HIDE DEF h, n
  <2> QED BY <1>0, <1>3, FoldExists
<1>5. it = [s \in SUBSET (1..n) |-> IF s = {} THEN feed ELSE Op(it[s \ {Max(s)}], new[Max(s)])]
  <2>1. ASSUME NEW s \in SUBSET (1..n), s # {}
        PROVE  h[<<Max(s), it[s \ {Max(s)}]>>] = Op(it[s \ {Max(s)}], new[Max(s)])
    <3>1. Max(s) \in 1..n BY <1>0, <2>1, MaxIn
    <3>2. it[s \ {Max(s)}] \in Seq(V) OBVIOUS
    <3> HIDE DEF Op
    <3> QED BY <3>1, <3>2
  <2> HIDE DEF h, Op
  <2> QED BY <1>4, <2>1 DEF Folds
<1> HIDE DEF Op
<1>6. iter = [s \in SUBSET (1..n) |-> IF s = {} THEN feed ELSE Op(iter[s \ {Max(s)}], new[Max(s)])]
  BY <1>2, <1>5
<1> DEFINE g == [k \in 0..n |-> iter[1..k]]
<1>7. g[0] = feed
  <2>1. 1..0 = {} /\ 1..0 \in SUBSET (1..n) /\ 0 \in 0..n BY <1>0
  <2>2. iter[1..0] = feed BY <1>6, <2>1
  <2> QED BY <2>1, <2>2
<1>8. ASSUME NEW k \in Nat, k < n PROVE g[k + 1] = Op(g[k], new[k + 1])
  <2> HIDE DEF n
  <2>1. /\ 1..(k + 1) \in SUBSET (1..n) /\ 1..(k + 1) # {}
        /\ Max(1..(k + 1)) = k + 1 /\ (1..(k + 1)) \ {k + 1} = 1..k
    BY <1>0, <1>8, Prefixed
  <2>2. iter[1..(k + 1)] = Op(iter[1..k], new[k + 1]) BY <1>6, <2>1
  <2>3. k \in 0..n /\ k + 1 \in 0..n BY <1>0, <1>8
  <2>4. g[k] = iter[1..k] /\ g[k + 1] = iter[1..(k + 1)] BY <2>3
  <2> HIDE DEF g
  <2> QED BY <2>2, <2>4
<1>9. g[n] = iter[1..n] BY <1>0
<1> HIDE DEF g
<1> QED BY <1>1, <1>7, <1>8, <1>9 DEF Op

-----------------------------------------------------------------------------
(***************************************************************************)
(* Feeds.                                                                  *)
(***************************************************************************)

\* A sequence without repetitions.
OnceEach(s) == \A i, j \in 1..Len(s) : s[i] = s[j] => i = j

\* Its length counts what is in it.
LEMMA OnceEachCounts ==
    ASSUME NEW V, NEW s \in Seq(V), OnceEach(s)
    PROVE  IsFiniteSet(Range(s)) /\ Cardinality(Range(s)) = Len(s)
<1>1. /\ Len(s) \in Nat /\ DOMAIN s = 1..Len(s) /\ s \in [1..Len(s) -> V]
  BY LenProperties
<1>2. Range(s) = {s[i] : i \in 1..Len(s)} BY <1>1 DEF Range
<1>3. s \in Bijection(1..Len(s), Range(s))
  BY <1>1, <1>2, Zenon DEF Bijection, Injection, Surjection, IsInjective, OnceEach
<1>4. ExistsBijection(1..Len(s), Range(s)) BY <1>3 DEF ExistsBijection
<1> QED BY <1>1, <1>4, FS_CountingElements, FS_NatBijection

\* What one sequence after another holds.
LEMMA Joined ==
    ASSUME NEW V, NEW s \in Seq(V), NEW t \in Seq(V)
    PROVE  /\ s \o t \in Seq(V)
           /\ Range(s \o t) = Range(s) \cup Range(t)
           /\ IsPrefix(s, s \o t)
           /\ OnceEach(s) /\ OnceEach(t) /\ Range(s) \cap Range(t) = {} => OnceEach(s \o t)
<1>1. /\ s \o t \in Seq(V) /\ Len(s \o t) = Len(s) + Len(t)
      /\ \A i \in 1..(Len(s) + Len(t)) :
            (s \o t)[i] = IF i <= Len(s) THEN s[i] ELSE t[i - Len(s)]
  BY ConcatProperties
<1>2. Len(s) \in Nat /\ Len(t) \in Nat /\ DOMAIN s = 1..Len(s) /\ DOMAIN t = 1..Len(t)
      /\ DOMAIN (s \o t) = 1..(Len(s) + Len(t))
  BY <1>1, LenProperties
<1>3. Range(s \o t) = Range(s) \cup Range(t)
  <2>1. ASSUME NEW i \in 1..(Len(s) + Len(t)) PROVE (s \o t)[i] \in Range(s) \cup Range(t)
    <3>1. CASE i <= Len(s) BY <1>1, <1>2, <3>1 DEF Range
    <3>2. CASE ~ (i <= Len(s))
      <4>1. i - Len(s) \in 1..Len(t) BY <1>2, <3>2
      <4> QED BY <1>1, <1>2, <3>2, <4>1 DEF Range
    <3> QED BY <3>1, <3>2
  <2>2. ASSUME NEW i \in 1..Len(s) PROVE s[i] \in Range(s \o t)
    <3>1. i \in 1..(Len(s) + Len(t)) /\ i <= Len(s) BY <1>2
    <3> QED BY <1>1, <1>2, <3>1 DEF Range
  <2>3. ASSUME NEW i \in 1..Len(t) PROVE t[i] \in Range(s \o t)
    <3>1. /\ Len(s) + i \in 1..(Len(s) + Len(t)) /\ ~ (Len(s) + i <= Len(s))
          /\ (Len(s) + i) - Len(s) = i
      BY <1>2
    <3>2. (s \o t)[Len(s) + i] = t[i] BY <1>1, <3>1
    <3> QED BY <1>2, <3>1, <3>2 DEF Range
  <2> QED BY <1>2, <2>1, <2>2, <2>3, Zenon DEF Range
<1>4. IsPrefix(s, s \o t)
  <2>1. \A i \in 1..Len(s) : (s \o t)[i] = s[i] BY <1>1, <1>2
  <2>2. SubSeq(s, 1, Len(s)) = s BY SubSeqFull
  <2>3. /\ SubSeq(s \o t, 1, Len(s)) \in Seq(V)
        /\ Len(SubSeq(s \o t, 1, Len(s))) = IF 1 <= Len(s) THEN Len(s) - 1 + 1 ELSE 0
        /\ \A i \in 1..(Len(s) - 1 + 1) : SubSeq(s \o t, 1, Len(s))[i] = (s \o t)[1 + i - 1]
    <3>1. \A i \in 1..Len(s) : (s \o t)[i] \in V BY <2>1, ElementOfSeq
    <3>2. 1 \in Int /\ Len(s) \in Int BY <1>2
    <3> QED BY <3>1, <3>2, SubSeqProperties
  <2>4. Len(SubSeq(s \o t, 1, Len(s))) = Len(s) BY <1>2, <2>3
  <2>5. \A i \in 1..Len(s) : SubSeq(s \o t, 1, Len(s))[i] = s[i] BY <1>2, <2>1, <2>3
  <2>6. SubSeq(s \o t, 1, Len(s)) = s BY <2>3, <2>4, <2>5, SeqEqual
  <2> QED BY <1>1, <1>2, <2>2, <2>6 DEF IsPrefix
<1>5. ASSUME OnceEach(s), OnceEach(t), Range(s) \cap Range(t) = {},
             NEW i \in 1..(Len(s) + Len(t)), NEW j \in 1..(Len(s) + Len(t)),
             (s \o t)[i] = (s \o t)[j]
      PROVE  i = j
  <2>1. CASE i <= Len(s) /\ j <= Len(s)
    BY <1>1, <1>2, <1>5, <2>1 DEF OnceEach
  <2>2. CASE ~ (i <= Len(s)) /\ ~ (j <= Len(s))
    <3>1. i - Len(s) \in 1..Len(t) /\ j - Len(s) \in 1..Len(t) BY <1>2, <2>2
    <3>2. t[i - Len(s)] = t[j - Len(s)] BY <1>1, <1>5, <2>2
    <3>3. i - Len(s) = j - Len(s) BY <1>5, <3>1, <3>2 DEF OnceEach
    <3> QED BY <1>2, <3>3
  <2>3. CASE i <= Len(s) /\ ~ (j <= Len(s))
    <3>1. i \in 1..Len(s) /\ j - Len(s) \in 1..Len(t) BY <1>2, <2>3
    <3>2. (s \o t)[i] \in Range(s) /\ (s \o t)[j] \in Range(t)
      BY <1>1, <1>2, <2>3, <3>1 DEF Range
    <3> QED BY <1>5, <3>2
  <2>4. CASE ~ (i <= Len(s)) /\ j <= Len(s)
    <3>1. j \in 1..Len(s) /\ i - Len(s) \in 1..Len(t) BY <1>2, <2>4
    <3>2. (s \o t)[j] \in Range(s) /\ (s \o t)[i] \in Range(t)
      BY <1>1, <1>2, <2>4, <3>1 DEF Range
    <3> QED BY <1>5, <3>2
  <2> QED BY <2>1, <2>2, <2>3, <2>4
<1> QED BY <1>1, <1>3, <1>4, <1>5 DEF OnceEach

\* One entry more.
LEMMA Appended ==
    ASSUME NEW V, NEW s \in Seq(V), NEW x \in V
    PROVE  /\ Append(s, x) = s \o <<x>>
           /\ <<x>> \in Seq(V) /\ Len(<<x>>) = 1 /\ <<x>>[1] = x
           /\ Range(<<x>>) = {x} /\ OnceEach(<<x>>)
<1>1. Append(s, x) = s \o <<x>> BY AppendIsConcat
<1>2. <<x>> \in Seq(V) /\ Len(<<x>>) = 1 /\ <<x>>[1] = x /\ DOMAIN <<x>> = 1..1 OBVIOUS
<1>3. Range(<<x>>) = {x} BY <1>2 DEF Range
<1>4. OnceEach(<<x>>) BY <1>2 DEF OnceEach
<1> QED BY <1>1, <1>2, <1>3, <1>4

\* A sequence that continues another continues what that one continues.
LEMMA PrefixGrows ==
    ASSUME NEW V, NEW r \in Seq(V), NEW s \in Seq(V), NEW x \in V, IsPrefix(r, s)
    PROVE  IsPrefix(r, Append(s, x))
<1>1. Len(r) \in Nat /\ Len(s) \in Nat /\ Len(r) <= Len(s) BY LenProperties DEF IsPrefix
<1>2. /\ Append(s, x) \in Seq(V) /\ Len(Append(s, x)) = Len(s) + 1
      /\ \A i \in 1..Len(s) : Append(s, x)[i] = s[i]
  BY AppendProperties
<1>3. \A i \in 1..Len(r) : Append(s, x)[i] = s[i] /\ s[i] \in V
  BY <1>1, <1>2, ElementOfSeq
<1>4. 1 \in Int /\ Len(r) \in Int BY <1>1
<1>5. /\ SubSeq(s, 1, Len(r)) \in Seq(V)
      /\ Len(SubSeq(s, 1, Len(r))) = IF 1 <= Len(r) THEN Len(r) - 1 + 1 ELSE 0
      /\ \A i \in 1..(Len(r) - 1 + 1) : SubSeq(s, 1, Len(r))[i] = s[1 + i - 1]
  BY <1>3, <1>4, SubSeqProperties
<1>6. /\ SubSeq(Append(s, x), 1, Len(r)) \in Seq(V)
      /\ Len(SubSeq(Append(s, x), 1, Len(r))) = IF 1 <= Len(r) THEN Len(r) - 1 + 1 ELSE 0
      /\ \A i \in 1..(Len(r) - 1 + 1) :
            SubSeq(Append(s, x), 1, Len(r))[i] = Append(s, x)[1 + i - 1]
  <2> DEFINE a == Append(s, x)
  <2>1. \A i \in 1..Len(r) : a[i] \in V BY <1>3
  <2> HIDE DEF a
  <2>2. /\ SubSeq(a, 1, Len(r)) \in Seq(V)
        /\ Len(SubSeq(a, 1, Len(r))) = IF 1 <= Len(r) THEN Len(r) - 1 + 1 ELSE 0
        /\ \A i \in 1..(Len(r) - 1 + 1) : SubSeq(a, 1, Len(r))[i] = a[1 + i - 1]
    BY <1>4, <2>1, SubSeqProperties
  <2> QED BY <2>2 DEF a
<1>7. SubSeq(Append(s, x), 1, Len(r)) = SubSeq(s, 1, Len(r))
  <2>1. Len(SubSeq(Append(s, x), 1, Len(r))) = Len(r) /\ Len(SubSeq(s, 1, Len(r))) = Len(r)
    BY <1>1, <1>5, <1>6
  <2>2. \A i \in 1..Len(r) : SubSeq(Append(s, x), 1, Len(r))[i] = SubSeq(s, 1, Len(r))[i]
    BY <1>1, <1>3, <1>5, <1>6
  <2> QED BY <1>5, <1>6, <2>1, <2>2, SeqEqual
<1> QED BY <1>1, <1>2, <1>7 DEF IsPrefix

\* INSERT OR IGNORE adds what is new, once, at the end.
LEMMA AppendAbsentAdds ==
    ASSUME NEW V, NEW feed \in Seq(V), NEW new \in Seq(V), OnceEach(feed)
    PROVE  /\ AppendAbsent(feed, new) \in Seq(V)
           /\ OnceEach(AppendAbsent(feed, new))
           /\ Range(AppendAbsent(feed, new)) = Range(feed) \cup Range(new)
           /\ IsPrefix(feed, AppendAbsent(feed, new))
<1>1. PICK g : /\ g[0] = feed
               /\ \A k \in Nat : k < Len(new) =>
                     g[k + 1] = IF new[k + 1] \in Range(g[k]) THEN g[k]
                                ELSE Append(g[k], new[k + 1])
               /\ AppendAbsent(feed, new) = g[Len(new)]
  BY AppendAbsentSteps
<1>2. Len(new) \in Nat /\ DOMAIN new = 1..Len(new) /\ \A i \in 1..Len(new) : new[i] \in V
  BY LenProperties, ElementOfSeq
<1> DEFINE S == {k \in Nat : /\ g[k] \in Seq(V) /\ OnceEach(g[k])
                             /\ Range(g[k]) = Range(feed) \cup {new[i] : i \in 1..k}
                             /\ IsPrefix(feed, g[k])}
<1>3. 0 \in S
  <2>1. {new[i] : i \in 1..0} = {} OBVIOUS
  <2>2. IsPrefix(feed, feed) BY LenProperties DEF IsPrefix
  <2> QED BY <1>1, <2>1, <2>2
<1>4. ASSUME NEW k \in Nat, k < Len(new), k \in S PROVE k + 1 \in S
  <2> DEFINE x == new[k + 1]
  <2>1. k + 1 \in 1..Len(new) /\ x \in V BY <1>2, <1>4
  <2>2. {new[i] : i \in 1..(k + 1)} = {new[i] : i \in 1..k} \cup {x}
    <3>1. 1..(k + 1) = (1..k) \cup {k + 1} OBVIOUS
    <3> QED BY <3>1
  <2>3. g[k] \in Seq(V) /\ OnceEach(g[k]) /\ IsPrefix(feed, g[k])
        /\ Range(g[k]) = Range(feed) \cup {new[i] : i \in 1..k}
    BY <1>4
  <2>4. g[k + 1] = IF x \in Range(g[k]) THEN g[k] ELSE Append(g[k], x) BY <1>1, <1>4
  <2> HIDE DEF x
  <2>5. CASE x \in Range(g[k])
    <3>1. g[k + 1] = g[k] BY <2>4, <2>5
    <3>2. Range(g[k + 1]) = Range(feed) \cup {new[i] : i \in 1..(k + 1)}
      BY <2>2, <2>3, <2>5, <3>1
    <3> QED BY <2>3, <3>1, <3>2
  <2>6. CASE x \notin Range(g[k])
    <3>1. g[k + 1] = g[k] \o <<x>> /\ <<x>> \in Seq(V) /\ OnceEach(<<x>>) /\ Range(<<x>>) = {x}
          /\ g[k + 1] = Append(g[k], x)
      BY <2>1, <2>3, <2>4, <2>6, Appended
    <3>2. g[k + 1] \in Seq(V) /\ Range(g[k + 1]) = Range(g[k]) \cup {x} /\ OnceEach(g[k + 1])
      <4> DEFINE y == g[k]
                 t == <<x>>
      <4>1. y \in Seq(V) /\ OnceEach(y) /\ t \in Seq(V) /\ OnceEach(t) /\ Range(t) = {x}
            /\ Range(y) \cap Range(t) = {}
        BY <2>3, <2>6, <3>1
      <4> HIDE DEF y, t
      <4>2. y \o t \in Seq(V) /\ Range(y \o t) = Range(y) \cup Range(t) /\ OnceEach(y \o t)
        BY <4>1, Joined
      <4> QED BY <3>1, <4>1, <4>2 DEF y, t
    <3>3. IsPrefix(feed, g[k + 1])
      <4> DEFINE y == g[k]
      <4>1. y \in Seq(V) /\ IsPrefix(feed, y) BY <2>3
      <4> HIDE DEF y
      <4>2. IsPrefix(feed, Append(y, x)) BY <2>1, <4>1, PrefixGrows
      <4> QED BY <3>1, <4>2 DEF y
    <3>4. Range(g[k + 1]) = Range(feed) \cup {new[i] : i \in 1..(k + 1)}
      BY <2>2, <2>3, <3>2
    <3> QED BY <3>2, <3>3, <3>4
  <2> QED BY <2>5, <2>6
<1> HIDE DEF S
<1>5. Len(new) \in S
  <2> DEFINE n == Len(new)
  <2>1. n \in Nat /\ n \in 0..n /\ \A k \in Nat : (k < n /\ k \in S) => k + 1 \in S BY <1>2, <1>4
  <2> HIDE DEF n
  <2>2. n \in S BY <1>3, <2>1, Rising
  <2> QED BY <2>2 DEF n
<1>6. Range(new) = {new[i] : i \in 1..Len(new)} BY <1>2 DEF Range
<1> QED BY <1>1, <1>5, <1>6 DEF S

\* A table without rival rows is listed row by row, each once.
LEMMA InOrderLists ==
    ASSUME NEW rows \in SUBSET Event, IsFiniteSet(rows),
           \A e, f \in rows : SamePosition(e, f) => e = f
    PROVE  /\ Cardinality(rows) \in Nat
           /\ InOrder(rows) \in [1..Cardinality(rows) -> rows]
           /\ \A e \in rows : \E i \in 1..Cardinality(rows) : InOrder(rows)[i] = e
           /\ \A i, j \in 1..Cardinality(rows) : InOrder(rows)[i] = InOrder(rows)[j] => i = j
<1> DEFINE n == Cardinality(rows)
           rank == [e \in rows |-> Rank(rows, e)]
<1>1. n \in Nat BY FS_CardinalityType
<1> HIDE DEF n
<1>2. ASSUME NEW e \in rows PROVE rank[e] \in 0..(n - 1)
  <2> DEFINE low == {f \in rows : Before(f, e)}
  <2>1. low \in SUBSET rows /\ e \notin low BY BeforeOrders
  <2> HIDE DEF low
  <2>2. Cardinality(low) \in Nat /\ Cardinality(low) <= n /\ (Cardinality(low) = n => low = rows)
    BY <2>1, FS_Subset, FS_CardinalityType DEF n
  <2>3. Cardinality(low) < n BY <1>1, <2>1, <2>2
  <2>4. rank[e] = Cardinality(low) BY DEF low, Rank
  <2> HIDE DEF rank
  <2> QED BY <1>1, <2>2, <2>3, <2>4
<1>3. ASSUME NEW e \in rows, NEW f \in rows, rank[e] = rank[f] PROVE e = f
  <2>1. rank[e] = Rank(rows, e) /\ rank[f] = Rank(rows, f) OBVIOUS
  <2>2. /\ Before(e, f) => Rank(rows, e) < Rank(rows, f)
        /\ Before(f, e) => Rank(rows, f) < Rank(rows, e)
        /\ Rank(rows, e) \in Nat /\ Rank(rows, f) \in Nat
    BY RankGrows
  <2>3. Before(e, f) \/ Before(f, e) \/ SamePosition(e, f) BY BeforeOrders
  <2> HIDE DEF rank
  <2>4. Rank(rows, e) = Rank(rows, f) BY <1>3, <2>1
  <2>5. ~ Before(e, f) /\ ~ Before(f, e) BY <2>2, <2>4
  <2> QED BY <2>3, <2>5
<1>4. rank \in Injection(rows, 0..(n - 1))
  <2>1. rank \in [rows -> 0..(n - 1)] BY <1>2
  <2>2. DOMAIN rank = rows OBVIOUS
  <2> HIDE DEF rank
  <2> QED BY <1>3, <2>1, <2>2 DEF Injection, IsInjective
<1>5. IsFiniteSet(0..(n - 1)) /\ Cardinality(0..(n - 1)) = n
  BY <1>1, FS_Interval
<1>6. rank \in Surjection(rows, 0..(n - 1))
  <2> HIDE DEF rank
  <2> QED BY <1>4, <1>5, FS_Injection DEF n
<1>7. ASSUME NEW i \in 1..n
      PROVE  InOrder(rows)[i] \in rows /\ rank[InOrder(rows)[i]] = i - 1
  <2>1. i - 1 \in 0..(n - 1) BY <1>1
  <2>2. \E e \in rows : rank[e] = i - 1
    <3> HIDE DEF rank
    <3> QED BY <1>6, <2>1 DEF Surjection
  <2>3. \E e \in rows : Cardinality({f \in rows : Before(f, e)}) = i - 1 BY <2>2 DEF Rank
  <2>4. InOrder(rows)[i] = CHOOSE e \in rows : Cardinality({f \in rows : Before(f, e)}) = i - 1
    BY DEF InOrder, n
  <2>5. /\ InOrder(rows)[i] \in rows
        /\ Cardinality({f \in rows : Before(f, InOrder(rows)[i])}) = i - 1
    BY <2>3, <2>4
  <2> QED BY <2>5 DEF Rank
<1>8. InOrder(rows) \in [1..n -> rows]
  <2> DEFINE at(i) == CHOOSE e \in rows : Cardinality({f \in rows : Before(f, e)}) = i - 1
  <2>1. InOrder(rows) = [i \in 1..n |-> at(i)] BY DEF InOrder, n
  <2> HIDE DEF at
  <2>2. \A i \in 1..n : at(i) \in rows BY <1>7, <2>1
  <2> QED BY <2>1, <2>2
<1>9. ASSUME NEW e \in rows PROVE \E i \in 1..n : InOrder(rows)[i] = e
  <2>1. rank[e] \in 0..(n - 1) BY <1>2
  <2> HIDE DEF rank
  <2>2. rank[e] + 1 \in 1..n /\ (rank[e] + 1) - 1 = rank[e] BY <1>1, <2>1
  <2>3. InOrder(rows)[rank[e] + 1] \in rows /\ rank[InOrder(rows)[rank[e] + 1]] = rank[e]
    BY <1>7, <2>2
  <2> QED BY <1>3, <2>2, <2>3
<1>10. ASSUME NEW i \in 1..n, NEW j \in 1..n, InOrder(rows)[i] = InOrder(rows)[j] PROVE i = j
  <2>1. rank[InOrder(rows)[i]] = i - 1 /\ rank[InOrder(rows)[j]] = j - 1 BY <1>7
  <2> HIDE DEF rank
  <2> QED BY <1>1, <1>10, <2>1
<1> QED BY <1>1, <1>8, <1>9, <1>10 DEF n

\* So the ids of the listing are the ids of the table.
IdsOf(order) == [i \in DOMAIN order |-> order[i].id]

LEMMA IdsListed ==
    ASSUME NEW rows \in SUBSET Event, IsFiniteSet(rows), Unique(rows)
    PROVE  /\ IdsOf(InOrder(rows)) \in Seq(EventIds)
           /\ Len(IdsOf(InOrder(rows))) = Cardinality(rows)
           /\ OnceEach(IdsOf(InOrder(rows)))
           /\ Range(IdsOf(InOrder(rows))) = Ids(rows)
<1> DEFINE n == Cardinality(rows)
           o == InOrder(rows)
           t == IdsOf(o)
<1>1. /\ n \in Nat /\ o \in [1..n -> rows]
      /\ \A e \in rows : \E i \in 1..n : o[i] = e
      /\ \A i, j \in 1..n : o[i] = o[j] => i = j
  BY InOrderLists DEF Unique
<1> HIDE DEF n, o
<1>2. DOMAIN t = 1..n /\ \A i \in 1..n : t[i] = o[i].id /\ o[i] \in rows
  BY <1>1 DEF IdsOf
<1>3. \A i \in 1..n : t[i] \in EventIds BY <1>2 DEF Event
<1>4. t = [i \in 1..n |-> t[i]] BY <1>1, <1>2 DEF IdsOf
<1> HIDE DEF t
<1>5. t \in [1..n -> EventIds] BY <1>3, <1>4
<1>6. t \in Seq(EventIds) BY <1>1, <1>5
<1>7. Len(t) = n BY <1>1, <1>2, <1>6, LenProperties
<1>8. OnceEach(t) BY <1>1, <1>2, <1>7 DEF OnceEach, Unique
<1>9. Range(t) = Ids(rows)
  <2>1. Range(t) = {t[i] : i \in 1..n} BY <1>2 DEF Range
  <2>2. \A e \in rows : \E i \in 1..n : t[i] = e.id BY <1>1, <1>2
  <2> QED BY <1>2, <2>1, <2>2 DEF Ids
<1> QED BY <1>6, <1>7, <1>8, <1>9 DEF t, o, n

\* What InsertionPass makes of the first k rows.
LEMMA InsertionPassSteps ==
    ASSUME NEW new \in SUBSET Event, IsFiniteSet(new), Unique(new), NEW K
    PROVE  \E g : /\ g[0] = << >>
                  /\ \A k \in Nat : k < Cardinality(new) =>
                        g[k + 1] = IF Deps(InOrder(new)[k + 1]) \subseteq K \cup Range(g[k])
                                   THEN Append(g[k], InOrder(new)[k + 1].id)
                                   ELSE g[k]
                  /\ InsertionPass(new, K) = g[Cardinality(new)]
<1> DEFINE n == Cardinality(new)
           o == InOrder(new)
           V == Seq(EventIds)
           Op(acc, e) == IF Deps(e) \subseteq K \cup Range(acc) THEN Append(acc, e.id) ELSE acc
           iter[s \in SUBSET (1..n)] ==
              IF s = {} THEN << >> ELSE Op(iter[s \ {Max(s)}], o[Max(s)])
           h == [p \in (1..n) \X V |-> Op(p[2], o[p[1]])]
<1>0. n \in Nat /\ o \in [1..n -> new] /\ DOMAIN o = 1..n /\ \A i \in 1..n : o[i] \in Event
  BY InOrderLists DEF Unique
<1>1. InsertionPass(new, K) = iter[1..n]
  <2>1. InsertionPass(new, K) = FoldLeft(Op, << >>, o) BY DEF InsertionPass
  <2> HIDE DEF o, n, V
  <2> QED BY <1>0, <2>1 DEF FoldLeft, MapThenFoldSet
<1>2. iter = CHOOSE g : g = [s \in SUBSET (1..n) |->
                 IF s = {} THEN << >> ELSE Op(g[s \ {Max(s)}], o[Max(s)])]
  BY DEF iter
<1> HIDE DEF iter, o, n
<1>3. h \in [(1..n) \X V -> V]
  <2>1. \A p \in (1..n) \X V : Op(p[2], o[p[1]]) \in V
    <3>1. \A i \in 1..n : o[i].id \in EventIds BY <1>0 DEF Event
    <3>2. \A acc \in V, x \in EventIds : Append(acc, x) \in V BY AppendProperties
    <3> QED BY <3>1, <3>2
  <2> HIDE DEF Op, V
  <2> QED BY <2>1
<1>4. << >> \in V OBVIOUS
<1>5. PICK it \in [SUBSET (1..n) -> V] : Folds(it, h, << >>, n)
  <2> HIDE DEF h, V
  <2> QED BY <1>0, <1>3, <1>4, FoldExists
<1>6. it = [s \in SUBSET (1..n) |-> IF s = {} THEN << >> ELSE Op(it[s \ {Max(s)}], o[Max(s)])]
  <2>1. ASSUME NEW s \in SUBSET (1..n), s # {}
        PROVE  h[<<Max(s), it[s \ {Max(s)}]>>] = Op(it[s \ {Max(s)}], o[Max(s)])
    <3>1. Max(s) \in 1..n BY <1>0, <2>1, MaxIn
    <3>2. it[s \ {Max(s)}] \in V OBVIOUS
    <3> HIDE DEF Op, V
    <3> QED BY <3>1, <3>2
  <2> HIDE DEF h, Op, V
  <2> QED BY <1>5, <2>1 DEF Folds
<1> HIDE DEF Op, V
<1>7. iter = [s \in SUBSET (1..n) |-> IF s = {} THEN << >> ELSE Op(iter[s \ {Max(s)}], o[Max(s)])]
  BY <1>2, <1>6
<1> DEFINE g == [k \in 0..n |-> iter[1..k]]
<1>8. g[0] = << >>
  <2>1. 1..0 = {} /\ 1..0 \in SUBSET (1..n) /\ 0 \in 0..n BY <1>0
  <2>2. iter[1..0] = << >> BY <1>7, <2>1
  <2> QED BY <2>1, <2>2
<1>9. ASSUME NEW k \in Nat, k < n PROVE g[k + 1] = Op(g[k], o[k + 1])
  <2>1. /\ 1..(k + 1) \in SUBSET (1..n) /\ 1..(k + 1) # {}
        /\ Max(1..(k + 1)) = k + 1 /\ (1..(k + 1)) \ {k + 1} = 1..k
    BY <1>0, <1>9, Prefixed
  <2>2. iter[1..(k + 1)] = Op(iter[1..k], o[k + 1]) BY <1>7, <2>1
  <2>3. k \in 0..n /\ k + 1 \in 0..n BY <1>0, <1>9
  <2>4. g[k] = iter[1..k] /\ g[k + 1] = iter[1..(k + 1)] BY <2>3
  <2> HIDE DEF g
  <2> QED BY <2>2, <2>4
<1>10. g[n] = iter[1..n] BY <1>0
<1> HIDE DEF g
<1> QED BY <1>1, <1>8, <1>9, <1>10 DEF Op, o, n

\* The rows a promotion round finds.
Ready(rows, K, feed) ==
    {e \in rows : e.id \notin K \cup Range(feed) /\ Deps(e) \subseteq K \cup Range(feed)}

LEMMA RoundIs ==
    ASSUME NEW rows \in SUBSET Event, IsFiniteSet(rows), Unique(rows), NEW K,
           NEW feed \in Seq(EventIds)
    PROVE  /\ PromotionRound(rows, K, feed) = feed \o IdsOf(InOrder(Ready(rows, K, feed)))
           /\ IdsOf(InOrder(Ready(rows, K, feed))) \in Seq(EventIds)
           /\ OnceEach(IdsOf(InOrder(Ready(rows, K, feed))))
           /\ Range(IdsOf(InOrder(Ready(rows, K, feed)))) = Ids(Ready(rows, K, feed))
           /\ PromotionRound(rows, K, feed) \in Seq(EventIds)
<1> DEFINE ready == Ready(rows, K, feed)
<1>1. PromotionRound(rows, K, feed) = feed \o IdsOf(InOrder(ready))
  BY DEF PromotionRound, Ready, IdsOf
<1>2. ready \in SUBSET rows BY DEF Ready
<1>3. ready \in SUBSET Event /\ IsFiniteSet(ready) /\ Unique(ready)
  BY <1>2, FS_Subset DEF Unique
<1> HIDE DEF ready
<1>4. /\ IdsOf(InOrder(ready)) \in Seq(EventIds) /\ OnceEach(IdsOf(InOrder(ready)))
      /\ Range(IdsOf(InOrder(ready))) = Ids(ready)
  BY <1>3, IdsListed
<1>5. feed \o IdsOf(InOrder(ready)) \in Seq(EventIds) BY <1>4, ConcatProperties
<1> QED BY <1>1, <1>4, <1>5 DEF ready

\* What BecameKnown makes of the first k rounds.
LEMMA BecameKnownSteps ==
    ASSUME NEW rows \in SUBSET Event, IsFiniteSet(rows), Unique(rows), NEW K, NEW new,
           InsertionPass(new, K) \in Seq(EventIds)
    PROVE  \E g : /\ g[0] = InsertionPass(new, K)
                  /\ \A k \in Nat : k < Cardinality(rows) =>
                        g[k + 1] = PromotionRound(rows, K, g[k])
                  /\ BecameKnown(rows, new, K) = g[Cardinality(rows)]
<1> DEFINE n == Cardinality(rows)
           o == [round \in 1..n |-> round]
           base == InsertionPass(new, K)
           V == Seq(EventIds)
           Op(feed, round) == PromotionRound(rows, K, feed)
           iter[s \in SUBSET (1..n)] ==
              IF s = {} THEN base ELSE Op(iter[s \ {Max(s)}], o[Max(s)])
           h == [p \in (1..n) \X V |-> Op(p[2], o[p[1]])]
<1>0. n \in Nat /\ DOMAIN o = 1..n /\ base \in V
  BY FS_CardinalityType
<1>1. BecameKnown(rows, new, K) = iter[1..n]
  <2>1. BecameKnown(rows, new, K) = FoldLeft(Op, base, o) BY DEF BecameKnown
  <2> HIDE DEF o, n, V, base
  <2> QED BY <1>0, <2>1 DEF FoldLeft, MapThenFoldSet
<1>2. iter = CHOOSE g : g = [s \in SUBSET (1..n) |->
                 IF s = {} THEN base ELSE Op(g[s \ {Max(s)}], o[Max(s)])]
  BY DEF iter
<1> HIDE DEF iter, o, n, base
<1>3. h \in [(1..n) \X V -> V]
  <2>1. \A p \in (1..n) \X V : Op(p[2], o[p[1]]) \in V BY RoundIs
  <2> HIDE DEF Op, V
  <2> QED BY <2>1
<1>5. PICK it \in [SUBSET (1..n) -> V] : Folds(it, h, base, n)
  <2> HIDE DEF h, V
  <2> QED BY <1>0, <1>3, FoldExists
<1>6. it = [s \in SUBSET (1..n) |-> IF s = {} THEN base ELSE Op(it[s \ {Max(s)}], o[Max(s)])]
  <2>1. ASSUME NEW s \in SUBSET (1..n), s # {}
        PROVE  h[<<Max(s), it[s \ {Max(s)}]>>] = Op(it[s \ {Max(s)}], o[Max(s)])
    <3>1. Max(s) \in 1..n BY <1>0, <2>1, MaxIn
    <3>2. it[s \ {Max(s)}] \in V OBVIOUS
    <3> HIDE DEF Op, V
    <3> QED BY <3>1, <3>2
  <2> HIDE DEF h, Op, V
  <2> QED BY <1>5, <2>1 DEF Folds
<1> HIDE DEF Op, V
<1>7. iter = [s \in SUBSET (1..n) |-> IF s = {} THEN base ELSE Op(iter[s \ {Max(s)}], o[Max(s)])]
  BY <1>2, <1>6
<1> DEFINE g == [k \in 0..n |-> iter[1..k]]
<1>8. g[0] = base
  <2>1. 1..0 = {} /\ 1..0 \in SUBSET (1..n) /\ 0 \in 0..n BY <1>0
  <2>2. iter[1..0] = base BY <1>7, <2>1
  <2> QED BY <2>1, <2>2
<1>9. ASSUME NEW k \in Nat, k < n PROVE g[k + 1] = PromotionRound(rows, K, g[k])
  <2>1. /\ 1..(k + 1) \in SUBSET (1..n) /\ 1..(k + 1) # {}
        /\ Max(1..(k + 1)) = k + 1 /\ (1..(k + 1)) \ {k + 1} = 1..k
    BY <1>0, <1>9, Prefixed
  <2>2. iter[1..(k + 1)] = Op(iter[1..k], o[k + 1]) BY <1>7, <2>1
  <2>3. k \in 0..n /\ k + 1 \in 0..n BY <1>0, <1>9
  <2>4. g[k] = iter[1..k] /\ g[k + 1] = iter[1..(k + 1)] BY <2>3
  <2> HIDE DEF g
  <2> QED BY <2>2, <2>4 DEF Op
<1>10. g[n] = iter[1..n] BY <1>0
<1> HIDE DEF g
<1> QED BY <1>1, <1>8, <1>9, <1>10 DEF n, base

\* A feed of newly known ids: each once, none known before, and each after all
\* its row depends on.
Resolvable(rows, K, feed) ==
    /\ feed \in Seq(EventIds)
    /\ OnceEach(feed)
    /\ \A i \in 1..Len(feed) :
          /\ feed[i] \notin K
          /\ \E e \in rows : /\ e.id = feed[i]
                             /\ Deps(e) \subseteq K \cup {feed[j] : j \in 1..(i - 1)}

\* It may continue with rows that depend on what is already in it.
LEMMA ResolvableGrows ==
    ASSUME NEW rows, NEW K, NEW s, Resolvable(rows, K, s), NEW t \in Seq(EventIds),
           OnceEach(t), Range(t) \cap (K \cup Range(s)) = {},
           \A x \in Range(t) : \E e \in rows : e.id = x /\ Deps(e) \subseteq K \cup Range(s)
    PROVE  Resolvable(rows, K, s \o t)
<1> DEFINE u == s \o t
<1>1. s \in Seq(EventIds) /\ OnceEach(s) BY DEF Resolvable
<1>2. /\ Len(u) = Len(s) + Len(t) /\ Len(s) \in Nat /\ Len(t) \in Nat
      /\ \A i \in 1..(Len(s) + Len(t)) : u[i] = IF i <= Len(s) THEN s[i] ELSE t[i - Len(s)]
  BY <1>1, ConcatProperties, LenProperties
<1>3. u \in Seq(EventIds) /\ OnceEach(u)
  <2>1. Range(s) \cap Range(t) = {} OBVIOUS
  <2> QED BY <1>1, <2>1, Joined
<1>4. Range(s) = {s[j] : j \in 1..Len(s)} /\ Range(t) = {t[j] : j \in 1..Len(t)}
  BY <1>1, LenProperties DEF Range
<1> HIDE DEF u
<1>5. ASSUME NEW i \in 1..Len(u)
      PROVE  /\ u[i] \notin K
             /\ \E e \in rows : /\ e.id = u[i]
                                /\ Deps(e) \subseteq K \cup {u[j] : j \in 1..(i - 1)}
  <2>0. i \in 1..(Len(s) + Len(t)) BY <1>2
  <2>1. CASE i <= Len(s)
    <3>1. i \in 1..Len(s) /\ u[i] = s[i] BY <1>2, <2>0, <2>1
    <3>2. /\ s[i] \notin K
          /\ \E e \in rows : /\ e.id = s[i]
                             /\ Deps(e) \subseteq K \cup {s[j] : j \in 1..(i - 1)}
      BY <3>1 DEF Resolvable
    <3>3. {s[j] : j \in 1..(i - 1)} = {u[j] : j \in 1..(i - 1)}
      <4>1. \A j \in 1..(i - 1) : j \in 1..(Len(s) + Len(t)) /\ j <= Len(s) BY <1>2, <3>1
      <4>2. \A j \in 1..(i - 1) : u[j] = s[j] BY <1>2, <4>1
      <4> QED BY <4>2
    <3> QED BY <3>1, <3>2, <3>3
  <2>2. CASE ~ (i <= Len(s))
    <3>1. i - Len(s) \in 1..Len(t) /\ u[i] = t[i - Len(s)] BY <1>2, <2>0, <2>2
    <3>2. u[i] \in Range(t) BY <1>4, <3>1
    <3>3. PICK e \in rows : e.id = u[i] /\ Deps(e) \subseteq K \cup Range(s) BY <3>2
    <3>4. Range(s) \subseteq {u[j] : j \in 1..(i - 1)}
      <4>1. \A j \in 1..Len(s) : /\ j \in 1..(i - 1)
                                 /\ j \in 1..(Len(s) + Len(t)) /\ j <= Len(s)
        BY <1>2, <2>0, <2>2
      <4>2. \A j \in 1..Len(s) : u[j] = s[j] /\ j \in 1..(i - 1) BY <1>2, <4>1
      <4> QED BY <1>4, <4>2
    <3> QED BY <3>2, <3>3, <3>4
  <2> QED BY <2>1, <2>2
<1>6. Resolvable(rows, K, u) BY <1>3, <1>5 DEF Resolvable
<1> QED BY <1>6 DEF u

\* The rows inserted as known come as a resolvable feed.
LEMMA InsertionPassIs ==
    ASSUME NEW rows \in SUBSET Event, IsFiniteSet(rows), Unique(rows),
           NEW new \in SUBSET rows, NEW K, \A e \in new : e.id \notin K
    PROVE  Resolvable(rows, K, InsertionPass(new, K))
<1> DEFINE n == Cardinality(new)
           o == InOrder(new)
<1>0. new \in SUBSET Event /\ IsFiniteSet(new) /\ Unique(new) BY FS_Subset DEF Unique
<1>1. /\ n \in Nat /\ o \in [1..n -> new]
      /\ \A i, j \in 1..n : o[i] = o[j] => i = j
  BY <1>0, InOrderLists DEF Unique
<1>2. PICK g : /\ g[0] = << >>
               /\ \A k \in Nat : k < n =>
                     g[k + 1] = IF Deps(o[k + 1]) \subseteq K \cup Range(g[k])
                                THEN Append(g[k], o[k + 1].id) ELSE g[k]
               /\ InsertionPass(new, K) = g[n]
  BY <1>0, InsertionPassSteps
<1> HIDE DEF n, o
<1> DEFINE S == {k \in Nat : /\ Resolvable(rows, K, g[k])
                             /\ Range(g[k]) \subseteq {o[i].id : i \in 1..k}}
<1>3. 0 \in S
  <2>1. Len(<< >>) = 0 /\ << >> \in Seq(EventIds) /\ Range(<< >>) = {} BY DEF Range
  <2>2. Resolvable(rows, K, << >>) BY <2>1 DEF Resolvable, OnceEach
  <2> QED BY <1>2, <2>1, <2>2
<1>4. ASSUME NEW k \in Nat, k < n, k \in S PROVE k + 1 \in S
  <2> DEFINE y == g[k]
             e == o[k + 1]
  <2>1. /\ Resolvable(rows, K, y) /\ y \in Seq(EventIds)
        /\ Range(y) \subseteq {o[i].id : i \in 1..k}
    BY <1>4 DEF Resolvable
  <2>2. k + 1 \in 1..n /\ e \in new /\ e \in rows /\ e.id \in EventIds
    <3>1. k + 1 \in 1..n BY <1>1, <1>4
    <3>2. e \in new BY <1>1, <3>1
    <3> QED BY <3>1, <3>2 DEF Event
  <2>3. e.id \notin Range(y)
    <3> SUFFICES ASSUME e.id \in Range(y) PROVE FALSE OBVIOUS
    <3>1. PICK i \in 1..k : e.id = o[i].id BY <2>1
    <3>2. i \in 1..n /\ i # k + 1 BY <1>1, <1>4
    <3>3. o[i] \in new BY <1>1, <3>2
    <3>4. o[i] = e BY <1>0, <2>2, <3>1, <3>3 DEF Unique
    <3> QED BY <1>1, <2>2, <3>2, <3>4
  <2>4. g[k + 1] = IF Deps(e) \subseteq K \cup Range(y) THEN Append(y, e.id) ELSE y
    BY <1>2, <1>4
  <2>5. {o[i].id : i \in 1..(k + 1)} = {o[i].id : i \in 1..k} \cup {e.id}
    <3>1. 1..(k + 1) = (1..k) \cup {k + 1} OBVIOUS
    <3> QED BY <3>1
  <2> HIDE DEF y, e
  <2>6. CASE ~ (Deps(e) \subseteq K \cup Range(y)) BY <2>1, <2>4, <2>5, <2>6
  <2>7. CASE Deps(e) \subseteq K \cup Range(y)
    <3> DEFINE t == <<e.id>>
    <3>1. /\ g[k + 1] = y \o t /\ t \in Seq(EventIds) /\ OnceEach(t) /\ Range(t) = {e.id}
      BY <2>1, <2>2, <2>4, <2>7, Appended
    <3> HIDE DEF t
    <3>2. Range(t) \cap (K \cup Range(y)) = {} BY <2>2, <2>3, <3>1
    <3>3. \A x \in Range(t) : \E f \in rows : f.id = x /\ Deps(f) \subseteq K \cup Range(y)
      BY <2>2, <2>7, <3>1
    <3>4. Resolvable(rows, K, y \o t) BY <2>1, <3>1, <3>2, <3>3, ResolvableGrows
    <3>5. Range(y \o t) = Range(y) \cup Range(t) BY <2>1, <3>1, Joined
    <3>6. Range(g[k + 1]) \subseteq {o[i].id : i \in 1..(k + 1)}
      BY <2>1, <2>5, <3>1, <3>5
    <3>7. Resolvable(rows, K, g[k + 1]) BY <3>1, <3>4
    <3>8. k + 1 \in Nat OBVIOUS
    <3> QED BY <3>6, <3>7, <3>8
  <2> QED BY <2>6, <2>7
<1> HIDE DEF S
<1>5. n \in S
  <2>1. n \in 0..n BY <1>1
  <2> QED BY <1>1, <1>3, <1>4, <2>1, Rising
<1> QED BY <1>2, <1>5 DEF S

\* A resolvable feed promotes nothing the closure leaves behind.
LEMMA ResolvableIsPromoted ==
    ASSUME NEW rows \in SUBSET Event, NEW K, NEW feed, Resolvable(rows, K, feed)
    PROVE  Range(feed) \subseteq Promote(rows, K)
<1>1. /\ Len(feed) \in Nat /\ Range(feed) = {feed[i] : i \in 1..Len(feed)}
  BY LenProperties DEF Resolvable, Range
<1>2. ASSUME NEW S \in SUBSET Ids(rows), K \subseteq S, ClosedUnder(rows, S),
             NEW i \in 1..Len(feed)
      PROVE  feed[i] \in S
  <2> DEFINE out == {j \in 1..Len(feed) : feed[j] \notin S}
  <2>1. SUFFICES ASSUME out # {} PROVE FALSE OBVIOUS
  <2>2. out \in SUBSET Nat OBVIOUS
  <2>3. PICK m \in out : \A j \in out : m <= j
    <3> HIDE DEF out
    <3> QED BY <2>1, <2>2, LeastNat
  <2>4. m \in 1..Len(feed) /\ feed[m] \notin S OBVIOUS
  <2>5. \A j \in 1..(m - 1) : j \in 1..Len(feed) /\ ~ (m <= j) BY <1>1, <2>4
  <2>6. \A j \in 1..(m - 1) : feed[j] \in S BY <2>3, <2>5
  <2>7. PICK e \in rows : /\ e.id = feed[m]
                          /\ Deps(e) \subseteq K \cup {feed[j] : j \in 1..(m - 1)}
    BY <2>4 DEF Resolvable
  <2>8. Deps(e) \subseteq S BY <1>2, <2>6, <2>7
  <2> QED BY <1>2, <2>4, <2>7, <2>8 DEF ClosedUnder
<1>3. \A i \in 1..Len(feed) : feed[i] \in Ids(rows) BY DEF Resolvable, Ids
<1> QED BY <1>1, <1>2, <1>3 DEF Promote

\* When no row is ready any more, the feed has told all the closure adds.
LEMMA RoundsComplete ==
    ASSUME NEW rows \in SUBSET Event, NEW K \in SUBSET Ids(rows), NEW feed,
           Resolvable(rows, K, feed), Ready(rows, K, feed) = {}
    PROVE  Promote(rows, K) \subseteq K \cup Range(feed)
<1> DEFINE S == K \cup Range(feed)
<1>1. Range(feed) = {feed[i] : i \in 1..Len(feed)} BY LenProperties DEF Resolvable, Range
<1>2. \A i \in 1..Len(feed) : feed[i] \in Ids(rows) BY DEF Resolvable, Ids
<1>3. S \in SUBSET Ids(rows) BY <1>1, <1>2
<1>4. ClosedUnder(rows, S) BY DEF ClosedUnder, Ready
<1> QED BY <1>3, <1>4 DEF Promote

\* The rounds tell exactly what promotion makes known, each row once and after
\* all it depends on.
LEMMA BecameKnownIs ==
    ASSUME NEW rows \in SUBSET Event, IsFiniteSet(rows), Unique(rows),
           NEW new \in SUBSET rows, NEW K \in SUBSET Ids(rows), \A e \in new : e.id \notin K
    PROVE  /\ Resolvable(rows, K, BecameKnown(rows, new, K))
           /\ K \cup Range(BecameKnown(rows, new, K)) = K \cup Promote(rows, K)
<1> DEFINE n == Cardinality(rows)
<1>1. n \in Nat BY FS_CardinalityType
<1>2. Resolvable(rows, K, InsertionPass(new, K)) BY InsertionPassIs
<1>3. InsertionPass(new, K) \in Seq(EventIds) BY <1>2 DEF Resolvable
<1>4. PICK g : /\ g[0] = InsertionPass(new, K)
               /\ \A k \in Nat : k < n => g[k + 1] = PromotionRound(rows, K, g[k])
               /\ BecameKnown(rows, new, K) = g[n]
  BY <1>3, BecameKnownSteps
<1> HIDE DEF n
<1> DEFINE S == {k \in Nat : /\ Resolvable(rows, K, g[k])
                             /\ Ready(rows, K, g[k]) = {} \/ k <= Len(g[k])}
<1>5. 0 \in S
  <2>1. Len(g[0]) \in Nat BY <1>3, <1>4, LenProperties
  <2>2. 0 <= Len(g[0]) BY <2>1
  <2> QED BY <1>2, <1>4, <2>2
<1>6. ASSUME NEW k \in Nat, k < n, k \in S PROVE k + 1 \in S
  <2> DEFINE y == g[k]
             ready == Ready(rows, K, y)
             t == IdsOf(InOrder(ready))
  <2>1. /\ Resolvable(rows, K, y) /\ y \in Seq(EventIds)
        /\ ready = {} \/ k <= Len(y)
    BY <1>6 DEF Resolvable
  <2>2. g[k + 1] = PromotionRound(rows, K, y) BY <1>4, <1>6
  <2> HIDE DEF y
  <2>3. /\ PromotionRound(rows, K, y) = y \o t /\ t \in Seq(EventIds) /\ OnceEach(t)
        /\ Range(t) = Ids(ready)
    BY <2>1, RoundIs
  <2>4. \A e \in ready : /\ e \in rows /\ e.id \notin K \cup Range(y)
                         /\ Deps(e) \subseteq K \cup Range(y)
    BY DEF Ready
  <2> HIDE DEF ready, t
  <2>5. Range(t) \cap (K \cup Range(y)) = {} BY <2>3, <2>4 DEF Ids
  <2>6. \A x \in Range(t) : \E e \in rows : e.id = x /\ Deps(e) \subseteq K \cup Range(y)
    BY <2>3, <2>4 DEF Ids
  <2>7. Resolvable(rows, K, y \o t) BY <2>1, <2>3, <2>5, <2>6, ResolvableGrows
  <2>8. Resolvable(rows, K, g[k + 1]) BY <2>2, <2>3, <2>7
  <2>9. /\ Len(y \o t) = Len(y) + Len(t) /\ Len(y) \in Nat /\ Len(t) \in Nat
        /\ Range(t) = {t[i] : i \in 1..Len(t)}
    BY <2>1, <2>3, ConcatProperties, LenProperties DEF Range
  <2>10. CASE ready = {}
    <3>1. Range(t) = {} BY <2>3, <2>10 DEF Ids
    <3>2. Len(t) = 0
      <4> SUFFICES ASSUME Len(t) # 0 PROVE FALSE OBVIOUS
      <4>1. 1 \in 1..Len(t) BY <2>9
      <4> QED BY <2>9, <3>1, <4>1
    <3>3. t = << >> BY <2>3, <3>2, EmptySeq
    <3>4. g[k + 1] = y BY <2>1, <2>2, <2>3, <3>3, ConcatEmptySeq
    <3>5. Ready(rows, K, g[k + 1]) = {} BY <2>10, <3>4 DEF ready
    <3> QED BY <2>8, <3>5
  <2>11. CASE ready # {}
    <3>1. Range(t) # {}
      <4>1. PICK e \in ready : TRUE BY <2>11
      <4>2. e.id \in Ids(ready) BY <4>1 DEF Ids
      <4> QED BY <2>3, <4>2
    <3>2. Len(t) # 0
      <4> SUFFICES ASSUME Len(t) = 0 PROVE FALSE OBVIOUS
      <4>1. 1..Len(t) = {} OBVIOUS
      <4> QED BY <2>9, <3>1, <4>1
    <3>3. k <= Len(y) BY <2>1, <2>11
    <3>4. k + 1 <= Len(y \o t) BY <2>9, <3>2, <3>3
    <3>5. k + 1 <= Len(g[k + 1]) BY <2>2, <2>3, <3>4
    <3> QED BY <2>8, <3>5
  <2> QED BY <2>10, <2>11
<1> HIDE DEF S
<1>7. n \in S
  <2>1. n \in 0..n BY <1>1
  <2> QED BY <1>1, <1>5, <1>6, <2>1, Rising
<1> DEFINE feed == BecameKnown(rows, new, K)
<1>8. /\ Resolvable(rows, K, feed)
      /\ Ready(rows, K, feed) = {} \/ n <= Len(feed)
  BY <1>4, <1>7 DEF S
<1> HIDE DEF feed
<1>9. Ready(rows, K, feed) = {}
  <2> SUFFICES ASSUME NEW e \in Ready(rows, K, feed) PROVE FALSE OBVIOUS
  <2>1. feed \in Seq(EventIds) /\ OnceEach(feed) /\ n <= Len(feed) /\ Len(feed) \in Nat
    BY <1>8, LenProperties DEF Resolvable
  <2>2. IsFiniteSet(Range(feed)) /\ Cardinality(Range(feed)) = Len(feed)
    BY <2>1, OnceEachCounts
  <2>3. Range(feed) = {feed[i] : i \in 1..Len(feed)} BY <2>1, LenProperties DEF Range
  <2>4. Range(feed) \in SUBSET (Ids(rows) \ {e.id})
    BY <1>8, <2>3 DEF Resolvable, Ids, Ready
  <2>5. e \in rows /\ e.id \in Ids(rows) BY DEF Ready, Ids
  <2>6. IsFiniteSet(Ids(rows)) /\ Cardinality(Ids(rows)) <= n
    <3> DEFINE f == [r \in rows |-> r.id]
    <3>1. f \in Surjection(rows, Ids(rows)) BY DEF Surjection, Ids
    <3> HIDE DEF f
    <3> QED BY <3>1, FS_Surjection DEF n
  <2>7. IsFiniteSet(Ids(rows) \ {e.id})
        /\ Cardinality(Ids(rows) \ {e.id}) = Cardinality(Ids(rows)) - 1
    BY <2>5, <2>6, FS_RemoveElement
  <2>8. Cardinality(Range(feed)) <= Cardinality(Ids(rows) \ {e.id}) BY <2>4, <2>7, FS_Subset
  <2>9. Cardinality(Ids(rows)) \in Nat BY <2>6, FS_CardinalityType
  <2> QED BY <1>1, <2>1, <2>2, <2>6, <2>7, <2>8, <2>9
<1>10. Range(feed) \subseteq Promote(rows, K) BY <1>8, ResolvableIsPromoted
<1>11. Promote(rows, K) \subseteq K \cup Range(feed) BY <1>8, <1>9, RoundsComplete
<1> QED BY <1>8, <1>10, <1>11 DEF feed

\* What the feeds of one body say of its tables.
FeedHolds(feed, conv, K, ev, rows) ==
    /\ feed \in Seq(EventIds) /\ OnceEach(feed) /\ Range(feed) = K
    /\ conv \in Seq(EventIds) /\ OnceEach(conv) /\ Range(conv) = K \cup Ids(ev)
    /\ K \cap Ids(ev) = {}
    /\ Ascending(feed, rows)

\* Inserting and promoting rows tells the feeds exactly what became known.
LEMMA InsertIsTold ==
    ASSUME NEW old \in SUBSET Event, NEW new \in SUBSET Event,
           IsFiniteSet(old), IsFiniteSet(new), Unique(old \cup new), old \cap new = {},
           NEW K \in SUBSET Ids(old), NEW ev, NEW feed, NEW conv, FeedHolds(feed, conv, K, ev, old)
    PROVE  LET rows == old \cup new
               P == Promote(rows, K)
               became == BecameKnown(rows, new, K)
           IN  /\ FeedHolds(feed \o became, AppendAbsent(conv, became), P,
                            {e \in ev : e.id \notin P}, rows)
               /\ IsPrefix(feed, feed \o became)
               /\ IsPrefix(conv, AppendAbsent(conv, became))
<1> DEFINE rows == old \cup new
           P == Promote(rows, K)
           became == BecameKnown(rows, new, K)
           left == {e \in ev : e.id \notin P}
           u == feed \o became
<1>1. rows \in SUBSET Event /\ IsFiniteSet(rows) /\ Unique(rows) /\ new \in SUBSET rows
  BY FS_Union
<1>2. K \in SUBSET Ids(rows) BY DEF Ids
<1>3. \A e \in new : e.id \notin K
  <2> SUFFICES ASSUME NEW e \in new, e.id \in K PROVE FALSE OBVIOUS
  <2>1. PICK f \in old : f.id = e.id BY DEF Ids
  <2> QED BY <2>1 DEF Unique
<1>4. K \subseteq P /\ P \subseteq Ids(rows) BY <1>2 DEF Promote
<1>5. Resolvable(rows, K, became) /\ K \cup Range(became) = P
  <2> HIDE DEF rows
  <2> QED BY <1>1, <1>2, <1>3, <1>4, BecameKnownIs
<1> HIDE DEF became, P
<1>6. /\ feed \in Seq(EventIds) /\ OnceEach(feed) /\ Range(feed) = K
      /\ conv \in Seq(EventIds) /\ OnceEach(conv) /\ Range(conv) = K \cup Ids(ev)
      /\ K \cap Ids(ev) = {} /\ Ascending(feed, old)
  BY DEF FeedHolds
<1>7. /\ became \in Seq(EventIds) /\ OnceEach(became)
      /\ Range(became) = {became[i] : i \in 1..Len(became)} /\ Range(became) \cap K = {}
  BY <1>5, LenProperties DEF Resolvable, Range
<1>8. /\ u \in Seq(EventIds) /\ OnceEach(u) /\ Range(u) = P /\ IsPrefix(feed, u)
  BY <1>5, <1>6, <1>7, Joined
<1>9. /\ AppendAbsent(conv, became) \in Seq(EventIds)
      /\ OnceEach(AppendAbsent(conv, became))
      /\ Range(AppendAbsent(conv, became)) = Range(conv) \cup Range(became)
      /\ IsPrefix(conv, AppendAbsent(conv, became))
  BY <1>6, <1>7, AppendAbsentAdds
<1>10. Range(AppendAbsent(conv, became)) = P \cup Ids(left)
  <2>1. P \cup Ids(ev) = P \cup Ids(left) BY DEF Ids
  <2>2. Range(conv) \cup Range(became) = P \cup Ids(ev) BY <1>5, <1>6
  <2> QED BY <1>9, <2>1, <2>2
<1>11. P \cap Ids(left) = {} BY DEF Ids
<1>12. Ascending(u, rows)
  <2> SUFFICES ASSUME NEW e \in rows, NEW i \in DOMAIN u, u[i] = e.id
               PROVE  Deps(e) \subseteq {u[j] : j \in 1..(i - 1)}
    BY DEF Ascending
  <2>1. /\ Len(feed) \in Nat /\ Len(became) \in Nat /\ DOMAIN u = 1..(Len(feed) + Len(became))
        /\ DOMAIN feed = 1..Len(feed)
        /\ \A j \in 1..(Len(feed) + Len(became)) :
              u[j] = IF j <= Len(feed) THEN feed[j] ELSE became[j - Len(feed)]
    BY <1>6, <1>7, <1>8, ConcatProperties, LenProperties
  <2> HIDE DEF u
  <2>2. i \in 1..(Len(feed) + Len(became)) BY <2>1
  <2>3. CASE i <= Len(feed)
    <3>1. i \in DOMAIN feed /\ feed[i] = e.id BY <2>1, <2>2, <2>3
    <3>2. e.id \in K BY <1>6, <3>1 DEF Range
    <3>3. e \in old BY <1>3, <3>2
    <3>4. Deps(e) \subseteq {feed[j] : j \in 1..(i - 1)} BY <1>6, <3>1, <3>3 DEF Ascending
    <3>5. \A j \in 1..(i - 1) : j \in 1..(Len(feed) + Len(became)) /\ j <= Len(feed)
      BY <2>1, <2>2, <2>3
    <3>6. \A j \in 1..(i - 1) : u[j] = feed[j] BY <2>1, <3>5
    <3> QED BY <3>4, <3>6
  <2>4. CASE ~ (i <= Len(feed))
    <3>1. i - Len(feed) \in 1..Len(became) /\ became[i - Len(feed)] = e.id
      BY <2>1, <2>2, <2>4
    <3>2. PICK f \in rows : /\ f.id = became[i - Len(feed)]
                            /\ Deps(f) \subseteq K \cup {became[j] : j \in 1..(i - Len(feed) - 1)}
      BY <1>5, <3>1 DEF Resolvable
    <3>3. f = e BY <3>1, <3>2 DEF Unique
    <3>4. \A j \in 1..Len(feed) : j \in 1..(i - 1) /\ u[j] = feed[j]
      <4>1. \A j \in 1..Len(feed) : /\ j \in 1..(i - 1) /\ j <= Len(feed)
                                    /\ j \in 1..(Len(feed) + Len(became))
        BY <2>1, <2>2, <2>4
      <4> QED BY <2>1, <4>1
    <3>5. K \subseteq {u[j] : j \in 1..(i - 1)}
      <4>1. K = {feed[j] : j \in 1..Len(feed)} BY <1>6, <2>1 DEF Range
      <4> QED BY <3>4, <4>1
    <3>6. \A j \in 1..(i - Len(feed) - 1) :
             Len(feed) + j \in 1..(i - 1) /\ u[Len(feed) + j] = became[j]
      <4>1. \A j \in 1..(i - Len(feed) - 1) :
               /\ Len(feed) + j \in 1..(i - 1) /\ ~ (Len(feed) + j <= Len(feed))
               /\ Len(feed) + j \in 1..(Len(feed) + Len(became))
               /\ (Len(feed) + j) - Len(feed) = j
        BY <2>1, <2>2, <2>4
      <4> QED BY <2>1, <4>1
    <3>7. {became[j] : j \in 1..(i - Len(feed) - 1)} \subseteq {u[j] : j \in 1..(i - 1)}
      BY <3>6
    <3> QED BY <3>2, <3>3, <3>5, <3>7
  <2> QED BY <2>3, <2>4
<1>13. FeedHolds(u, AppendAbsent(conv, became), P, left, rows)
  <2> HIDE DEF u, left, rows
  <2> QED BY <1>8, <1>9, <1>10, <1>11, <1>12 DEF FeedHolds
<1> QED BY <1>8, <1>9, <1>13 DEF became, P

\* The feeds' part of the inductive invariant.
FeedsOK ==
    /\ knownFeed \in [Bodies -> Seq(EventIds)]
    /\ convFeed \in [Bodies -> Seq(EventIds)]
    /\ \A b \in Bodies : FeedHolds(knownFeed[b], convFeed[b], known[b], evidence[b], events[b])

FeedsGrow ==
    \A b \in Bodies :
        /\ IsPrefix(knownFeed[b], knownFeed'[b])
        /\ IsPrefix(convFeed[b], convFeed'[b])

\* A sequence continues itself.
LEMMA PrefixOfItself ==
    ASSUME NEW V, NEW s \in Seq(V)
    PROVE  IsPrefix(s, s)
BY LenProperties DEF IsPrefix

LEMMA InsertKeepsFeeds ==
    ASSUME PullInv, FeedsOK, NEW b \in Bodies, NEW new \in SUBSET Event, IsFiniteSet(new),
           Insertable(b, new), new \cap events[b] = {}, InsertAndPromote(b, new)
    PROVE  FeedsOK' /\ FeedsGrow
<1> DEFINE rows == events[b] \cup new
           P == Promote(rows, known[b])
           became == BecameKnown(rows, new, known[b])
           left == {e \in evidence[b] : e.id \notin P}
<1>1. /\ events \in [Bodies -> SUBSET Event] /\ known \in [Bodies -> SUBSET EventIds]
      /\ evidence \in [Bodies -> SUBSET Event]
      /\ knownFeed \in [Bodies -> Seq(EventIds)] /\ convFeed \in [Bodies -> Seq(EventIds)]
  BY DEF PullInv, AgreementInv, LedgerInv, TypeOK, FeedsOK
<1>2. /\ events' = [events EXCEPT ![b] = rows]
      /\ known' = [known EXCEPT ![b] = P]
      /\ evidence' = [evidence EXCEPT ![b] = {e \in @ : e.id \notin P}]
      /\ knownFeed' = [knownFeed EXCEPT ![b] = @ \o became]
      /\ convFeed' = [convFeed EXCEPT ![b] = AppendAbsent(@, became)]
  BY DEF InsertAndPromote
<1>3. Unique(rows)
  <2> SUFFICES ASSUME NEW e \in rows, NEW f \in rows, e.id = f.id \/ SamePosition(e, f)
               PROVE  e = f
    BY DEF Unique
  <2>1. CASE e \in events[b] /\ f \in events[b]
    BY <2>1 DEF PullInv, AgreementInv, LedgerInv, LedgerConsistent
  <2>2. CASE e \in new /\ f \in events[b]
    BY <2>2 DEF Insertable, IdentityConflict, SamePosition
  <2>3. CASE f \in new /\ e \in events[b]
    BY <2>3 DEF Insertable, IdentityConflict, SamePosition
  <2>4. CASE e \in new /\ f \in new BY <2>4 DEF Insertable, Unique
  <2> QED BY <2>1, <2>2, <2>3, <2>4
<1>4. known[b] \in SUBSET Ids(events[b])
  BY DEF PullInv, AgreementInv, LedgerInv, KnownIsClosure
<1>5. IsFiniteSet(events[b]) BY DEF PullInv, TablesFinite
<1>6. FeedHolds(knownFeed[b], convFeed[b], known[b], evidence[b], events[b]) BY DEF FeedsOK
<1>7. /\ FeedHolds(knownFeed[b] \o became, AppendAbsent(convFeed[b], became), P, left, rows)
      /\ IsPrefix(knownFeed[b], knownFeed[b] \o became)
      /\ IsPrefix(convFeed[b], AppendAbsent(convFeed[b], became))
  BY <1>1, <1>3, <1>4, <1>5, <1>6, InsertIsTold
<1>8. knownFeed[b] \o became \in Seq(EventIds) /\ AppendAbsent(convFeed[b], became) \in Seq(EventIds)
  BY <1>7 DEF FeedHolds
<1> HIDE DEF P, became, rows
<1>9. knownFeed' \in [Bodies -> Seq(EventIds)] /\ convFeed' \in [Bodies -> Seq(EventIds)]
  BY <1>1, <1>2, <1>8
<1>10. /\ events'[b] = rows /\ known'[b] = P /\ evidence'[b] = left
       /\ knownFeed'[b] = knownFeed[b] \o became
       /\ convFeed'[b] = AppendAbsent(convFeed[b], became)
  BY <1>1, <1>2
<1>11. ASSUME NEW c \in Bodies, c # b
       PROVE  /\ events'[c] = events[c] /\ known'[c] = known[c] /\ evidence'[c] = evidence[c]
              /\ knownFeed'[c] = knownFeed[c] /\ convFeed'[c] = convFeed[c]
  BY <1>1, <1>2, <1>11
<1>12. ASSUME NEW c \in Bodies
       PROVE  /\ FeedHolds(knownFeed'[c], convFeed'[c], known'[c], evidence'[c], events'[c])
              /\ IsPrefix(knownFeed[c], knownFeed'[c]) /\ IsPrefix(convFeed[c], convFeed'[c])
  <2>1. CASE c = b
    <3> HIDE DEF left
    <3> QED BY <1>7, <1>10, <2>1
  <2>2. CASE c # b
    <3>1. FeedHolds(knownFeed[c], convFeed[c], known[c], evidence[c], events[c]) BY DEF FeedsOK
    <3>2. IsPrefix(knownFeed[c], knownFeed[c]) /\ IsPrefix(convFeed[c], convFeed[c])
      BY <1>1, PrefixOfItself
    <3> QED BY <1>11, <2>2, <3>1, <3>2
  <2> QED BY <2>1, <2>2
<1> QED BY <1>9, <1>12 DEF FeedsOK, FeedsGrow

\* Rows shown in a conversation are told to its feed alone.
LEMMA RetainKeepsFeeds ==
    ASSUME PullInv, FeedsOK, NEW b \in Bodies, NEW batch \in Batches(b), RetainEvidence(b, batch)
    PROVE  FeedsOK' /\ FeedsGrow
<1> DEFINE fresh == FreshEvidence(b, batch)
<1>1. /\ events \in [Bodies -> SUBSET Event] /\ known \in [Bodies -> SUBSET EventIds]
      /\ evidence \in [Bodies -> SUBSET Event]
      /\ knownFeed \in [Bodies -> Seq(EventIds)] /\ convFeed \in [Bodies -> Seq(EventIds)]
  BY DEF PullInv, AgreementInv, LedgerInv, TypeOK, FeedsOK
<1>2. fresh \in SUBSET batch /\ \A e \in fresh : e.id \notin known[b] BY DEF FreshEvidence
<1>3. batch \in SUBSET Event /\ IsFiniteSet(batch) BY <1>1 DEF Batches, Shown
<1>4. fresh \in SUBSET Event /\ Cardinality(fresh) \in Nat
  BY <1>2, <1>3, FS_Subset, FS_CardinalityType
<1>5. PICK order \in [1..Cardinality(fresh) -> fresh] :
        /\ Range(order) = fresh
        /\ convFeed' = [convFeed EXCEPT ![b] = AppendAbsent(@, IdsOf(order))]
  BY DEF RetainEvidence, IdsOf
<1>6. /\ evidence' = [evidence EXCEPT ![b] = @ \cup fresh]
      /\ UNCHANGED <<events, known, knownFeed>>
  BY DEF RetainEvidence
<1> HIDE DEF fresh
<1> DEFINE told == IdsOf(order)
           n == Cardinality(fresh)
<1>7. told \in Seq(EventIds) /\ Range(told) = Ids(fresh)
  <2>1. DOMAIN told = 1..n /\ \A i \in 1..n : told[i] = order[i].id /\ order[i] \in fresh
    BY DEF IdsOf
  <2>2. \A i \in 1..n : told[i] \in EventIds BY <1>4, <2>1 DEF Event
  <2>3. told = [i \in 1..n |-> told[i]] BY <2>1 DEF IdsOf
  <2>4. fresh = {order[i] : i \in 1..n} BY <1>5 DEF Range
  <2> HIDE DEF told, n
  <2>5. told \in [1..n -> EventIds] BY <2>2, <2>3
  <2>6. told \in Seq(EventIds) BY <1>4, <2>5 DEF n
  <2>7. Range(told) = {told[i] : i \in 1..n} BY <2>1 DEF Range
  <2>8. Range(told) = Ids(fresh)
    <3>1. Ids(fresh) = {e.id : e \in fresh} BY DEF Ids
    <3> HIDE DEF n
    <3>2. \A i \in 1..n : told[i] \in Ids(fresh) BY <2>1, <3>1
    <3>3. ASSUME NEW e \in fresh PROVE e.id \in Range(told)
      <4>1. PICK i \in 1..n : order[i] = e BY <2>4
      <4> QED BY <2>1, <2>7, <4>1
    <3> QED BY <2>7, <3>1, <3>2, <3>3
  <2> QED BY <2>6, <2>8
<1> HIDE DEF told
<1>8. FeedHolds(knownFeed[b], convFeed[b], known[b], evidence[b], events[b]) BY DEF FeedsOK
<1>9. /\ AppendAbsent(convFeed[b], told) \in Seq(EventIds)
      /\ OnceEach(AppendAbsent(convFeed[b], told))
      /\ Range(AppendAbsent(convFeed[b], told)) = Range(convFeed[b]) \cup Range(told)
      /\ IsPrefix(convFeed[b], AppendAbsent(convFeed[b], told))
  BY <1>7, <1>8, AppendAbsentAdds DEF FeedHolds
<1>10. FeedHolds(knownFeed[b], AppendAbsent(convFeed[b], told), known[b],
                 evidence[b] \cup fresh, events[b])
  <2>1. Ids(evidence[b] \cup fresh) = Ids(evidence[b]) \cup Ids(fresh) BY DEF Ids
  <2>2. known[b] \cap Ids(fresh) = {} BY <1>2 DEF Ids
  <2>3. /\ knownFeed[b] \in Seq(EventIds) /\ OnceEach(knownFeed[b])
        /\ Range(knownFeed[b]) = known[b]
        /\ Range(convFeed[b]) = known[b] \cup Ids(evidence[b])
        /\ known[b] \cap Ids(evidence[b]) = {} /\ Ascending(knownFeed[b], events[b])
    BY <1>8 DEF FeedHolds
  <2>4. /\ Range(AppendAbsent(convFeed[b], told)) = known[b] \cup Ids(evidence[b] \cup fresh)
        /\ known[b] \cap Ids(evidence[b] \cup fresh) = {}
    BY <1>7, <1>9, <2>1, <2>2, <2>3
  <2> QED BY <1>9, <2>3, <2>4 DEF FeedHolds
<1>11. convFeed' \in [Bodies -> Seq(EventIds)] BY <1>1, <1>5, <1>9 DEF told
<1>12. ASSUME NEW c \in Bodies
       PROVE  /\ FeedHolds(knownFeed'[c], convFeed'[c], known'[c], evidence'[c], events'[c])
              /\ IsPrefix(knownFeed[c], knownFeed'[c]) /\ IsPrefix(convFeed[c], convFeed'[c])
  <2>0. /\ events'[c] = events[c] /\ known'[c] = known[c] /\ knownFeed'[c] = knownFeed[c]
    BY <1>6
  <2>1. IsPrefix(knownFeed[c], knownFeed[c]) /\ IsPrefix(convFeed[c], convFeed[c])
    BY <1>1, PrefixOfItself
  <2>2. CASE c = b
    <3>1. /\ evidence'[c] = evidence[b] \cup fresh
          /\ convFeed'[c] = AppendAbsent(convFeed[b], told)
      BY <1>1, <1>5, <1>6, <2>2 DEF told
    <3> QED BY <1>9, <1>10, <2>0, <2>1, <2>2, <3>1
  <2>3. CASE c # b
    <3>1. evidence'[c] = evidence[c] /\ convFeed'[c] = convFeed[c] BY <1>1, <1>5, <1>6, <2>3
    <3>2. FeedHolds(knownFeed[c], convFeed[c], known[c], evidence[c], events[c]) BY DEF FeedsOK
    <3> QED BY <2>0, <2>1, <3>1, <3>2
  <2> QED BY <2>2, <2>3
<1>13. knownFeed' \in [Bodies -> Seq(EventIds)] BY <1>1, <1>6
<1> QED BY <1>11, <1>12, <1>13 DEF FeedsOK, FeedsGrow

\* Only three actions write a table or a feed of the ledger.
LEMMA LedgerKinds ==
    ASSUME Next
    PROVE  \/ \E b \in Bodies : \E parents \in SUBSET known[b] : Author(b, parents)
           \/ \E b \in Bodies : \E batch \in Batches(b) : RetainEvidence(b, batch)
           \/ \E b \in Bodies : \E p \in validated[b] : IngestPage(b, p)
           \/ UNCHANGED ledger
BY DEF Next, LocalStep, ServeStep, PullStep, IngestStep, AuthorConflict,
       RetainConflict, IssueRequest, FreezePage, ServeForkedHead, ServeReusedId,
       ValidateDelta, RefuseDelta, IngestReplay, IngestOtherPage, IngestRegression,
       IngestConflict, Crash

\* Every step keeps the feeds true to the tables and only adds to them.
LEMMA FeedsStep ==
    ASSUME PullInv, FeedsOK, [Next]_vars
    PROVE  FeedsOK' /\ FeedsGrow
<1>1. CASE UNCHANGED ledger
  <2>1. knownFeed \in [Bodies -> Seq(EventIds)] /\ convFeed \in [Bodies -> Seq(EventIds)]
    BY DEF FeedsOK
  <2>2. FeedsGrow BY <1>1, <2>1, PrefixOfItself DEF FeedsGrow, ledger
  <2> QED BY <1>1, <2>2 DEF FeedsOK, ledger
<1>2. ASSUME NEW b \in Bodies, NEW parents \in SUBSET known[b], Author(b, parents)
      PROVE  FeedsOK' /\ FeedsGrow
  <2> DEFINE e == NextEvent(b, parents)
  <2>1. parents \in SUBSET EventIds /\ TypeOK BY DEF PullInv, AgreementInv, LedgerInv, TypeOK
  <2>2. e \in Event BY <2>1, NextEventTyped
  <2>3. e \notin events[b] BY NextIsNew
  <2>4. InsertAndPromote(b, {e}) BY <1>2 DEF Author
  <2>5. Insertable(b, {e}) BY <1>2, AuthorInsertable
  <2> HIDE DEF e
  <2>6. {e} \in SUBSET Event /\ {e} \cap events[b] = {} /\ IsFiniteSet({e})
    BY <2>2, <2>3, FS_Singleton
  <2> QED BY <2>4, <2>5, <2>6, InsertKeepsFeeds
<1>3. ASSUME NEW b \in Bodies, NEW batch \in Batches(b), RetainEvidence(b, batch)
      PROVE  FeedsOK' /\ FeedsGrow
  BY <1>3, RetainKeepsFeeds
<1>4. ASSUME NEW b \in Bodies, NEW p \in validated[b], IngestPage(b, p)
      PROVE  FeedsOK' /\ FeedsGrow
  <2> DEFINE new == Missing(b, p.events)
  <2>1. PageAnswers(b, p) BY DEF PullInv, PagesAnswer
  <2>2. p.events \in SUBSET Event /\ IsFiniteSet(p.events) BY <2>1, PageFacts
  <2>3. new \in SUBSET Event /\ IsFiniteSet(new) /\ new \cap events[b] = {}
    BY <2>2, FS_Difference DEF Missing
  <2>4. InsertAndPromote(b, new) /\ Verdict(b, p.events) = "ok" BY <1>4 DEF IngestPage
  <2>5. Insertable(b, new) BY <2>4, PageInsertable
  <2> HIDE DEF new
  <2> QED BY <2>3, <2>4, <2>5, InsertKeepsFeeds
<1>5. CASE Next BY <1>1, <1>2, <1>3, <1>4, <1>5, LedgerKinds
<1>6. CASE UNCHANGED vars BY <1>1, <1>6 DEF vars
<1> QED BY <1>5, <1>6

\* The feeds start empty.
LEMMA FeedsInit == Init => FeedsOK
<1> SUFFICES ASSUME Init PROVE FeedsOK OBVIOUS
<1>1. << >> \in Seq(EventIds) /\ Len(<< >>) = 0 /\ Range(<< >>) = {} BY DEF Range
<1>2. OnceEach(<< >>) /\ Ascending(<< >>, {}) BY <1>1 DEF OnceEach, Ascending
<1>3. FeedHolds(<< >>, << >>, {}, {}, {}) BY <1>1, <1>2 DEF FeedHolds, Ids
<1> QED BY <1>1, <1>3 DEF Init, FeedsOK

\* True feeds are what the readers are promised.
LEMMA FeedsServe == FeedsOK => ReadersSeeTheLedger
<1> SUFFICES ASSUME FeedsOK, NEW b \in Bodies
             PROVE  /\ Range(knownFeed[b]) = known[b]
                    /\ Len(knownFeed[b]) = Cardinality(known[b])
                    /\ Ascending(knownFeed[b], events[b])
                    /\ Range(convFeed[b]) = known[b] \cup Ids(evidence[b])
                    /\ Len(convFeed[b]) = Cardinality(Range(convFeed[b]))
                    /\ known[b] \cap Ids(evidence[b]) = {}
  BY DEF ReadersSeeTheLedger, FeedFaithful, ConversationFeedResolves
<1>1. FeedHolds(knownFeed[b], convFeed[b], known[b], evidence[b], events[b]) BY DEF FeedsOK
<1>2. /\ Len(knownFeed[b]) = Cardinality(Range(knownFeed[b]))
      /\ Len(convFeed[b]) = Cardinality(Range(convFeed[b]))
  BY <1>1, OnceEachCounts DEF FeedHolds
<1> QED BY <1>1, <1>2 DEF FeedHolds

LEMMA FeedsAlways == Spec => [](PullInv /\ FeedsOK)
<1>1. PullInv /\ FeedsOK /\ [Next]_vars => FeedsOK' BY FeedsStep
<1> QED BY <1>1, FeedsInit, PullInvAlways, PTL DEF Spec

\* A reader that follows known_event_feed sees every known event once and never
\* before something it depends on, and a reader of conversation_event_feed finds
\* the body of every entry in exactly one place (ledger.py: the feed triggers,
\* _promote, retain_conversation_evidence).
THEOREM ReadersStayServed == Spec => []ReadersSeeTheLedger
BY FeedsAlways, FeedsServe, PTL

\* Nothing is taken back: no row, page, receipt or cursor, and no reader's
\* position in a feed, because both feeds only grow at the end (ledger.py: the
\* append-only tables and feeds, ingest_idempotent's cursors).
THEOREM HistoryStaysKept == Spec => HistoryIsKept
<1>1. PullInv /\ FeedsOK /\ [Next]_vars => [FeedsGrow]_vars BY FeedsStep
<1>2. Spec => [][FeedsGrow]_vars BY <1>1, FeedsAlways, PTL DEF Spec
<1> QED BY <1>2, NothingIsTakenBack DEF HistoryIsKept, FeedsOnlyGrow, FeedsGrow
=============================================================================
