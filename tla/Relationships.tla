--------------------------- MODULE Relationships ---------------------------
(***************************************************************************)
(* The relationship store (relationship_store.py): signed events of        *)
(* several beings, retained in any order of arrival, and the deterministic *)
(* reduction of what is retained to cards, relationships, Tribes and       *)
(* grants.  A being may sign two events at one position of its chain (a    *)
(* fork); the reduction then drops what it signed from there on, except    *)
(* what denies.                                                            *)
(*                                                                         *)
(* An event is a record with id, being, seq (its position), kind, at (the  *)
(* time it names), refs (the ids its payload cites) and the fields of its  *)
(* kind.  Cards, offers and grants are those of the second schema; a card  *)
(* holds until it is succeeded or withdrawn.                               *)
(***************************************************************************)
EXTENDS Integers, FiniteSets, Sequences

CONSTANTS Me, Plans, MaxNow

VARIABLES
    plan,       \* the events of this run: held at first, and arriving later
    held,       \* the events the store retains
    ledger,     \* events this being authored, in its own ledger
    now,        \* the wall clock, which may be set back
    page,       \* a source page under construction, behind the writers' lock
    released,   \* the last page given out: reader and time
    denied      \* history: every denial the store ever took into account

vars == <<plan, held, ledger, now, page, released, denied>>

None == "none"
NoPage == [reader |-> None, events |-> {}]

---------------------------------------------------------------------------
(* Payload validation *)

Ordered(first, last) == first < last
Chained(seq, previous) == (seq = 0) = (previous = None)

ValidCard(e) == Chained(e.cseq, e.prev) /\ e.status \in {"active", "withdrawn"}
ValidOffer(e) == Ordered(e.at, e.until) /\ e.being # e.responder
ValidInvitation(e) == Ordered(e.at, e.until)
ValidJoin(e) == Chained(e.mseq, e.prev)
ValidTransfer(e) == e.being # e.successor
ValidGrant(e) ==
    /\ e.being # e.subject
    /\ Ordered(e.from, e.until) /\ Ordered(e.at, e.until)
    /\ IF e.parent = None THEN e.dseq = 0 /\ e.prev = None ELSE Chained(e.dseq, e.prev)
ValidRevocation(e) == e.action \in {"revoke", "relinquish"}

Valid(e) ==
    CASE e.kind = "card" -> ValidCard(e)
      [] e.kind = "offer" -> ValidOffer(e)
      [] e.kind = "invite" -> ValidInvitation(e)
      [] e.kind = "join" -> ValidJoin(e)
      [] e.kind = "transfer" -> ValidTransfer(e)
      [] e.kind = "grant" -> ValidGrant(e)
      [] e.kind = "revoke" -> ValidRevocation(e)
      [] OTHER -> TRUE

---------------------------------------------------------------------------
(* Evidence *)

Effective(E, at, current) == {e \in E : current \/ e.at <= at}

\* Two events at one position take down their author's chain from there on.
Forked(E) ==
    {e \in E : \E p, q \in E : /\ p # q /\ p.being = q.being /\ p.seq = q.seq
                               /\ p.being = e.being /\ p.seq <= e.seq}

\* An event counts when all it cites counts.
Complete(E) ==
    LET grown[n \in 0 .. Cardinality(E)] ==
            IF n = 0 THEN {}
            ELSE LET before == grown[n - 1]
                 IN  {e \in E : e.refs \subseteq {b.id : b \in before}}
    IN  grown[Cardinality(E)]

\* Mutant: a fork takes down denials too.
DenialsNone(F) == {}

\* What a fork may not erase.
Denials(F) ==
    {e \in F : \/ e.kind \in {"revoke", "close", "leave", "expel"}
               \/ e.kind = "card" /\ e.status = "withdrawn"}

Evidence(E, at, current) ==
    LET F == Effective(E, at, current)
    IN  Complete(F \ Forked(F)) \cup (IF current THEN Denials(Forked(F)) ELSE {})

Of(K, kind) == {e \in K : e.kind = kind}

---------------------------------------------------------------------------
(* Cards *)

Lane(K, b) == {c \in Of(K, "card") : c.being = b}
Last(L) == CHOOSE c \in L : \A d \in L : d.cseq <= c.cseq

LaneHolds(L) ==
    /\ {c.cseq : c \in L} = 0 .. Cardinality(L) - 1
    /\ \A c, d \in L : d.cseq = c.cseq + 1 => d.prev = c.id

\* Neither succession nor withdrawal falls back to an earlier card.
HasCard(K, b, at) ==
    LET L == Lane(K, b) IN
    /\ L # {} /\ LaneHolds(L)
    /\ \A c \in L : c.status = "active"
    /\ Last(L).at <= at

CardNamed(K, id) == CHOOSE c \in Of(K, "card") : c.id = id
CardValidAt(c, at) == c.status = "active" /\ c.at <= at

---------------------------------------------------------------------------
(* Relationships *)

Offers(K, r) == {o \in Of(K, "offer") : o.rel = r}
Offer(K, r) == CHOOSE o \in Offers(K, r) : TRUE

Acceptances(K, o) ==
    {a \in Of(K, "accept") : /\ a.rel = o.rel /\ a.offer = o.id /\ a.being = o.responder
                             /\ a.icard = o.icard /\ o.at <= a.at /\ a.at < o.until}

Bilateral(K, r) ==
    Cardinality(Offers(K, r)) = 1 /\ Cardinality(Acceptances(K, Offer(K, r))) = 1
Acceptance(K, r) == CHOOSE a \in Acceptances(K, Offer(K, r)) : TRUE
Participants(K, r) == {Offer(K, r).being, Offer(K, r).responder}

Closes(K, r) ==
    {c \in Of(K, "close") : /\ c.rel = r /\ c.being \in Participants(K, r)
                            /\ c.offer = Offer(K, r).id /\ c.accept = Acceptance(K, r).id}

RelationshipState(K, r, at) ==
    IF Offers(K, r) = {} THEN "absent"
    ELSE IF ~Bilateral(K, r)
         THEN IF Cardinality(Offers(K, r)) = 1 /\ Acceptances(K, Offer(K, r)) = {}
              THEN "offered" ELSE "forked"
    ELSE IF Closes(K, r) # {} THEN "closed"
    ELSE IF Acceptance(K, r).at <= at /\ \A b \in Participants(K, r) : HasCard(K, b, at)
         THEN "active" ELSE "stale-card"

ActiveAt(K, r, at) ==
    /\ Bilateral(K, r)
    /\ Acceptance(K, r).at <= at
    /\ \A c \in Closes(K, r) : at < c.at
    /\ CardValidAt(CardNamed(K, Offer(K, r).icard), at)
    /\ CardValidAt(CardNamed(K, Acceptance(K, r).rcard), at)

---------------------------------------------------------------------------
(* Tribes *)

Declarations(K, t) == {d \in Of(K, "declare") : d.tribe = t}

Transfers(K, t, epoch, founder) ==
    {x \in Of(K, "transfer") : /\ x.tribe = t /\ x.epoch = epoch
                               /\ x.being = founder.being /\ founder.at <= x.at}
Successions(K, t, x) ==
    {s \in Of(K, "succeed") : /\ s.tribe = t /\ s.transfer = x.id
                              /\ s.being = x.successor /\ x.at <= s.at}

\* Epoch n is founder n + 1 of the sequence: who, and since when.
Founders(K, t) ==
    LET d == CHOOSE d \in Declarations(K, t) : TRUE
        chain[n \in 0 .. Cardinality(Of(K, "succeed"))] ==
            IF n = 0 THEN <<[being |-> d.being, at |-> d.at]>>
            ELSE LET c == chain[n - 1]
                     X == Transfers(K, t, Len(c) - 1, c[Len(c)])
                     S == UNION {Successions(K, t, x) : x \in X}
                 IN  IF Len(c) = n /\ Cardinality(X) = 1 /\ Cardinality(S) = 1
                     THEN Append(c, [being |-> (CHOOSE s \in S : TRUE).being,
                                     at |-> (CHOOSE s \in S : TRUE).at])
                     ELSE c
    IN  chain[Cardinality(Of(K, "succeed"))]

\* Two transfers, or two acceptances of one, of the last founder.
SuccessionForked(K, t, F) ==
    LET X == Transfers(K, t, Len(F) - 1, F[Len(F)])
    IN  \/ Cardinality(X) > 1
        \/ Cardinality(UNION {Successions(K, t, x) : x \in X}) > 1

EpochIsCurrent(F, epoch, at) ==
    /\ epoch < Len(F) /\ F[epoch + 1].at <= at
    /\ epoch + 1 < Len(F) => at < F[epoch + 2].at

Invitations(K, t, F) ==
    {i \in Of(K, "invite") : /\ i.tribe = t /\ EpochIsCurrent(F, i.epoch, i.at)
                             /\ F[i.epoch + 1].being = i.being}

Joins(K, t, F, b) ==
    {j \in Of(K, "join") :
        /\ j.being = b /\ j.tribe = t
        /\ \E i \in Invitations(K, t, F) : /\ i.id = j.invite /\ i.invitee = b
                                           /\ i.epoch = j.epoch /\ i.at <= j.at /\ j.at < i.until}

Terminals(K, t, F, j) ==
    {x \in Of(K, "leave") \cup Of(K, "expel") :
        /\ x.tribe = t /\ x.member = j.being /\ x.join = j.id /\ j.at <= x.at
        /\ EpochIsCurrent(F, x.epoch, x.at)
        /\ x.being = IF x.kind = "leave" THEN j.being ELSE F[x.epoch + 1].being}

\* A being's membership: its joins and what ended each of them.
Episodes(K, t, F, b) ==
    LET J == Joins(K, t, F, b) IN
    [joins |-> J, ends |-> [j \in J |-> Terminals(K, t, F, j)]]

\* One join per invitation and position, each after the end of the last.
EpisodesHold(m) ==
    /\ {j.mseq : j \in m.joins} = 0 .. Cardinality(m.joins) - 1
    /\ Cardinality({j.invite : j \in m.joins}) = Cardinality(m.joins)
    /\ \A j \in m.joins : Cardinality(m.ends[j]) <= 1
    /\ \A j, k \in m.joins : k.mseq = j.mseq + 1 => k.prev \in {x.id : x \in m.ends[j]}

LastJoin(m) == CHOOSE j \in m.joins : \A k \in m.joins : k.mseq <= j.mseq

MemberState(F, b, m, at) ==
    IF m.joins = {}
    THEN IF b = F[1].being
         THEN IF F[1].at > at THEN "not-yet-valid" ELSE "active"
         ELSE "absent"
    ELSE IF ~EpisodesHold(m) THEN "forked"
    ELSE IF m.ends[LastJoin(m)] # {} THEN "ended"
    ELSE IF LastJoin(m).at > at THEN "not-yet-valid" ELSE "active"

MemberActiveAt(F, b, m, at) ==
    \/ b = F[1].being
    \/ /\ EpisodesHold(m)
       /\ \E j \in m.joins : j.at <= at /\ \A x \in m.ends[j] : at < x.at

MemberSince(F, m) == IF m.joins = {} THEN F[1].at ELSE LastJoin(m).at

TribeActive(K, t, F, Members, at) ==
    /\ ~SuccessionForked(K, t, F)
    /\ \A n \in 2 .. Len(F) : MemberActiveAt(F, F[n].being, Members[F[n].being], F[n].at)
    /\ MemberState(F, F[Len(F)].being, Members[F[Len(F)].being], at) = "active"
    /\ F[Len(F)].at <= at

\* Everyone in B is a member of an active tribe, and was when since says so.
ActiveMembers(K, t, B, at, since) ==
    LET F == Founders(K, t)
        Members == [b \in B \cup {f.being : f \in {F[n] : n \in DOMAIN F}} |-> Episodes(K, t, F, b)]
    IN  /\ Cardinality(Declarations(K, t)) = 1
        /\ TribeActive(K, t, F, Members, at)
        /\ \A b \in B : /\ MemberState(F, b, Members[b], at) = "active"
                        /\ MemberSince(F, Members[b]) <= since

---------------------------------------------------------------------------
(* Grants *)

GrantsNamed(K, g) == {e \in Of(K, "grant") : e.grant = g}
Siblings(K, e) == {s \in Of(K, "grant") : s.parent = e.parent}

\* A parent that signed two delegations at one sequence loses those from it on.
DelegationForked(K, e) ==
    /\ e.parent # None
    /\ \E p, q \in Siblings(K, e) : p # q /\ p.dseq = q.dseq /\ p.dseq <= e.dseq

BoundedByOffer(K, e) == e.depth <= Offer(K, e.rel).depth /\ e.until <= Offer(K, e.rel).grantuntil
Attenuates(e, parent) ==
    /\ parent.subject = e.being
    /\ parent.depth > 0 /\ e.depth <= parent.depth - 1
    /\ parent.from <= e.from /\ e.until <= parent.until

GrantAcceptances(K, e) ==
    {a \in Of(K, "graccept") : /\ a.grant = e.grant /\ a.gevent = e.id /\ a.being = e.subject
                               /\ e.at <= a.at /\ e.from <= a.at /\ a.at < e.until}

Revocations(K, e) ==
    LET A == GrantAcceptances(K, e) IN
    {r \in Of(K, "revoke") :
        /\ r.grant = e.grant /\ r.gevent = e.id
        /\ r.being = IF r.action = "revoke" THEN e.being ELSE e.subject
        /\ \E a \in A : r.accept = a.id
        /\ \E a \in A : a.at <= r.at}

Stopped == {"forked", "incomplete", "invalid", "offered"}

TribeAdmits(K, e, at) ==
    e.tribe # None => ActiveMembers(K, e.tribe, {e.being, e.subject}, at, e.at)

\* The state of every retained grant event, by id; parents come first.
GrantStates(K, at) ==
    LET state[e \in Of(K, "grant")] ==
        LET parents == {p \in Of(K, "grant") : p.id = e.parent}
            parent == IF e.parent = None THEN "active"
                      ELSE IF parents = {} THEN "incomplete"
                      ELSE state[CHOOSE p \in parents : TRUE]
            before == {s \in Siblings(K, e) : s.dseq = e.dseq - 1}
        IN  IF Cardinality(GrantsNamed(K, e.grant)) # 1 \/ DelegationForked(K, e)
            THEN "forked"
            ELSE IF ~Bilateral(K, e.rel) THEN "incomplete"
            ELSE IF \/ ~ActiveAt(K, e.rel, e.at)
                    \/ Participants(K, e.rel) # {e.being, e.subject}
                 THEN "invalid"
            ELSE IF parent = "forked" THEN "forked"
            ELSE IF parent \in Stopped THEN "invalid"
            ELSE IF /\ e.parent # None /\ e.dseq > 0
                    /\ \/ Cardinality(before) # 1
                       \/ \E b \in before : b.id # e.prev \/ state[b] \in Stopped
                 THEN "incomplete"
            ELSE IF IF e.parent = None THEN ~BoundedByOffer(K, e)
                    ELSE \E p \in parents : ~Attenuates(e, p)
                 THEN "invalid"
            ELSE IF GrantAcceptances(K, e) = {} THEN "offered"
            ELSE IF Cardinality(GrantAcceptances(K, e)) > 1 THEN "forked"
            ELSE IF Revocations(K, e) # {} THEN "revoked"
            ELSE IF RelationshipState(K, e.rel, at) # "active" THEN "closed"
            ELSE IF parent # "active" THEN parent
            ELSE IF \/ at < e.from \/ at < e.at \/ \E a \in GrantAcceptances(K, e) : at < a.at
                 THEN "not-yet-valid"
            ELSE IF e.until <= at THEN "expired"
            ELSE IF TribeAdmits(K, e, at) THEN "active" ELSE "closed"
    IN  state

ActiveGrants(K, at) ==
    LET state == GrantStates(K, at) IN {e \in Of(K, "grant") : state[e] = "active"}

\* disclosure: some active grant to the reader.
Discloses(K, reader, at) == \E e \in ActiveGrants(K, at) : e.subject = reader

Now(E, at) == Evidence(E, at, TRUE)
Then(E, at) == Evidence(E, at, FALSE)

\* The grants, relationships, cards and memberships that evidence denies.
DeniedBy(E, at) ==
    LET K == Now(E, at)
        state == GrantStates(K, at)
    IN  {<<"grant", e.grant>> : e \in {g \in Of(K, "grant") : state[g] = "revoked"}}
        \cup {<<"relationship", o.rel>> : o \in {x \in Of(K, "offer") :
                                            RelationshipState(K, x.rel, at) = "closed"}}
        \cup {<<"card", c.being>> : c \in {x \in Of(K, "card") : x.status = "withdrawn"}}
        \cup {<<"membership", j.id>> : j \in {x \in Of(K, "join") :
                 /\ Declarations(K, x.tribe) # {}
                 /\ Terminals(K, x.tribe, Founders(K, x.tribe), x) # {}}}

---------------------------------------------------------------------------
(* The store's operations *)

\* Mutant: a page does not keep writers out.
WritersMayAlways == TRUE

\* Writers wait while a page holds the lock.
WritersMay == page = NoPage

Ingest(e) ==
    /\ WritersMay /\ e \notin held /\ Valid(e)
    /\ held' = held \cup {e}
    /\ UNCHANGED <<plan, ledger, now, page, released>>
    /\ denied' = denied \cup DeniedBy(held', now)

\* blocking_active_tribes, on the historical view at the clock's time.
Blocked(e) ==
    LET K == Then(held, now) IN
    \E d \in Of(K, "declare") :
        /\ ActiveMembers(K, d.tribe, {Me}, now, now)
        /\ e.kind = "declare" \/ (e.kind = "join" /\ e.tribe # d.tribe)

\* An RPC that authors: the ledger first, the store after it.
Author(e) ==
    /\ e.being = Me /\ e \notin ledger /\ Valid(e) /\ ~Blocked(e)
    /\ ledger' = ledger \cup {e}
    /\ UNCHANGED <<plan, held, now, page, released, denied>>

\* RelationshipSourceDisclosure.scope: the view is taken behind the lock ...
OpenPage(reader) ==
    /\ page = NoPage
    /\ Discloses(Now(held, now), reader, now)
    /\ page' = [reader |-> reader, events |-> held]
    /\ UNCHANGED <<plan, held, ledger, now, released, denied>>

\* ... and taken again at the clock's new time before the page leaves.
ClosePage ==
    /\ page # NoPage
    /\ released' = IF Discloses(Now(page.events, now), page.reader, now)
                   THEN [reader |-> page.reader, at |-> now] ELSE released
    /\ page' = NoPage
    /\ UNCHANGED <<plan, held, ledger, now, denied>>

SetClock(at) ==
    /\ at # now /\ now' = at
    /\ UNCHANGED <<plan, held, ledger, page, released, denied>>

---------------------------------------------------------------------------
Init ==
    /\ plan \in Plans
    /\ held = plan.held /\ ledger = {} /\ now = MaxNow
    /\ page = NoPage /\ released = [reader |-> None, at |-> 0]
    /\ denied = {}

Next ==
    \/ \E e \in plan.later : Ingest(e) \/ Author(e)
    \/ \E reader \in plan.readers : OpenPage(reader)
    \/ ClosePage
    \/ \E at \in 0 .. MaxNow : SetClock(at)

Spec == Init /\ [][Next]_vars

---------------------------------------------------------------------------
(* Properties *)

\* The grants, relationships, cards and memberships in effect.
InEffect(K, at) ==
    UNION {{<<"grant", e.grant>>, <<"relationship", e.rel>>} : e \in ActiveGrants(K, at)}
    \cup {<<"relationship", o.rel>> : o \in {x \in Of(K, "offer") :
                                        RelationshipState(K, x.rel, at) = "active"}}
    \cup {<<"card", c.being>> : c \in {x \in Of(K, "card") : HasCard(K, x.being, at)}}
    \cup {<<"membership", j.id>> : j \in {x \in Of(K, "join") :
             /\ Cardinality(Declarations(K, x.tribe)) = 1
             /\ LET F == Founders(K, x.tribe)
                    m == Episodes(K, x.tribe, F, x.being)
                IN  /\ x \in m.joins /\ LastJoin(m) = x
                    /\ MemberState(F, x.being, m, at) = "active"}}

\* Whoever accepted has since been found to have forked its chain at or before the
\* acceptance a denial is about, which therefore does not count any more.
AcceptanceTakenDown(E, K, d) ==
    \E x \in E :
        /\ \/ x.kind = "close" /\ d = <<"relationship", x.rel>>
           \/ x.kind = "revoke" /\ d = <<"grant", x.grant>>
        /\ \A k \in K : k.id # x.accept

\* The departure names an epoch that, by the successions known since, was not the
\* tribe's at that time.
EpochDisowned(E, K, d) ==
    \E x \in E :
        /\ x.kind \in {"leave", "expel"} /\ d = <<"membership", x.join>>
        /\ Declarations(K, x.tribe) # {} /\ ~EpochIsCurrent(Founders(K, x.tribe), x.epoch, x.at)

\* Wherever the clock is set, whatever arrives later and wherever the denier forked
\* its chain: a withdrawn card stays without effect, and a revoked grant, a closed
\* relationship and an ended membership come back into effect in two ways only. The
\* acceptance that the denial cites is taken down by a fork of whoever signed it,
\* and another acceptance counts instead (specs/tribe-relationships.md, section 4,
\* calls a closure terminal); or the departure names an epoch that a succession
\* learned later had ended before it.
DenialsStick ==
    LET K == Now(held, now) IN
    \A d \in denied \cap InEffect(K, now) :
        AcceptanceTakenDown(held, K, d) \/ EpochDisowned(held, K, d)

\* A page given out rests on a grant that the store, as it is then, still
\* supports at the time it is then.
PagesRestOnGrants ==
    released' # released => Discloses(Now(held, now), released'.reader, now)
===========================================================================
