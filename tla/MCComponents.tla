---------------------------- MODULE MCComponents ----------------------------
(***************************************************************************)
(* Small instances of the components that keep their own journals, one at  *)
(* a time: a behaviour is about the component that which names, and each   *)
(* component has the constants its INSTANCE gives it.                      *)
(***************************************************************************)
EXTENDS Naturals, Sequences, FiniteSets, Functions, TLC

CONSTANTS NoValue, h1, h2, h3, k1, k2, k3, t1, t2, a1, w1, q1, q2

VARIABLES
    which,     \* the component this behaviour is about
    v1, v2, v3, v4, v5, v6, v7, v8, v9, v10, v11, v12, v13, v14, v15   \* its variables, in order; the others are 0

-----------------------------------------------------------------------------
(* Plans of a few components: what the operator and the peers set out to do. *)

\* Two hosts retire each other, and the fork is recovered on one of its branches;
\* enrolments and retirements compete for one base; a body is enrolled while the
\* recovery is being signed.
Beings == {h1, h2, h3}
RootHolder == {"r1"}
RecoveryHolder == {"c1"}
Policies == {RootHolder, {"n1"}}
RebirthPlans ==
    {<<"enroll", "retire", "retire", "recover", "reborn">>,
     <<"enroll", "enroll", "retire">>,
     <<"recover", "enroll", "reborn">>}

Release(kind, seq, prev) ==
    [kind |-> kind, species |-> "s", genesis |-> "G", epoch |-> 0, sequence |-> seq,
     previous |-> prev, entries |-> {}, breaking |-> kind = "branch",
     verdict |-> IF kind = "zero" THEN "genesis" ELSE "compatible"]
Genesis(species, origin) == [kind |-> "genesis", species |-> species, origin |-> origin]
Book ==
    ("G" :> Genesis("s", NoValue)) @@ ("H" :> Genesis("s", NoValue)) @@ ("C" :> Genesis("c", "d1")) @@
    ("c0" :> [Release("zero", 0, NoValue) EXCEPT !.species = "c", !.genesis = "C"]) @@
    ("z" :> Release("zero", 0, NoValue)) @@
    ("a1" :> Release("normal", 1, "z")) @@ ("b1" :> Release("normal", 1, "z")) @@
    ("x1" :> [Release("normal", 1, "z") EXCEPT !.verdict = "incompatible"]) @@
    ("d1" :> Release("branch", 1, "z")) @@
    ("f" :> [Release("resolution", 0, "z") EXCEPT !.epoch = 1, !.entries = {"a1", "b1"}])
SpeciesKeys == {k1, k2}
Whole(names) == {<<n, SpeciesKeys>> : n \in names}
Halves(n) == {<<n, {k}>> : k \in SpeciesKeys}
\* A fork and its resolution; a child species whose parent forks; a second genesis.
SpeciesPlans ==
    {Whole({"G", "z", "a1", "f"}) \cup Halves("b1"),
     Whole({"G", "z", "d1", "b1", "c0"}) \cup Halves("C"),
     Whole({"G", "H", "z", "a1", "x1"})}
SpeciesCalls == <<<<"p">>, <<"q">>, <<"r">>>>

Step(by, kind, action, expires, bytes) ==
    [by |-> by, kind |-> kind, action |-> action, expires |-> expires, bytes |-> bytes]
Claim(bytes) == Step("A", "claim", "assert", FALSE, bytes)
Lapsing == Step("A", "claim", "assert", TRUE, "e1")
Retract == Step("A", "claim", "retract", FALSE, "nothing")
Publish(by, bytes) == Step(by, "publication", "publish", FALSE, bytes)
Tombstone == Step("A", "publication", "tombstone", FALSE, "nothing")
Pull(steps, mode, links, items, requests, operations, mine, crash, ticks) ==
    [steps |-> steps, mode |-> mode, links |-> links, items |-> items,
     requests |-> requests, operations |-> operations, cursors |-> mine,
     crashes |-> crash, ticks |-> ticks, stock |-> {"e1"}]
\* The claim lapses while a paged pull is under way; a selective pull beside
\* ordinary synchronisation; claim and publication replaced after a review;
\* withdrawn and published again; two hosts of the publisher on one position.
SourcePlans ==
    {Pull(<<Lapsing, Publish("A", "x")>>, "full", {}, 1, 1, 2, 2, 1, 1),
     Pull(<<Claim("e1"), Publish("A", "x"), Publish("A", "y")>>, "selective",
          {<<"A", "B">>}, 1, 1, 2, 1, 1, 0),
     Pull(<<Claim("e1"), Publish("A", "x"), Claim("e2"), Publish("A", "y")>>, "full",
          {}, 2, 2, 2, 2, 0, 0),
     Pull(<<Claim("e1"), Publish("A", "x"), Tombstone, Publish("A", "x")>>, "selective",
          {<<"A", "B">>}, 2, 1, 1, 1, 1, 0),
     Pull(<<Claim("e1"), Publish("A", "x"), Publish("A2", "y"), Retract>>, "selective",
          {<<"A", "A2">>, <<"A2", "A">>}, 2, 1, 1, 1, 0, 0)}

\* The signed statements of beings A, B and C, and the stories made of them.
CardA ==
    [id |-> "ca", being |-> "A", seq |-> 1, kind |-> "card", at |-> 0, refs |-> {}, cseq |-> 0, prev |-> "none", status |-> "active"]
CardB ==
    [id |-> "cb", being |-> "B", seq |-> 1, kind |-> "card", at |-> 0, refs |-> {}, cseq |-> 0, prev |-> "none", status |-> "active"]
CardC ==
    [id |-> "cc", being |-> "C", seq |-> 1, kind |-> "card", at |-> 0, refs |-> {}, cseq |-> 0, prev |-> "none", status |-> "active"]
Gone ==
    [id |-> "cg", being |-> "A", seq |-> 5, kind |-> "card", at |-> 1, refs |-> {"ca"}, cseq |-> 1, prev |-> "ca", status |-> "withdrawn"]
GoneFork ==
    [id |-> "cf", being |-> "A", seq |-> 5, kind |-> "card", at |-> 1, refs |-> {"ca"}, cseq |-> 1, prev |-> "ca", status |-> "active"]
BadCard ==
    [id |-> "cx", being |-> "B", seq |-> 7, kind |-> "card", at |-> 1, refs |-> {}, cseq |-> 1, prev |-> "none", status |-> "active"]
OfferAB ==
    [id |-> "o", being |-> "A", seq |-> 2, kind |-> "offer", at |-> 0, refs |-> {"ca"}, rel |-> "ab", responder |-> "B", until |-> 2, icard |-> "ca", depth |-> 1, grantuntil |-> 9]
AcceptAB ==
    [id |-> "a", being |-> "B", seq |-> 2, kind |-> "accept", at |-> 0, refs |-> {"ca", "cb", "o"}, rel |-> "ab", offer |-> "o", icard |-> "ca", rcard |-> "cb"]
GrantAB ==
    [id |-> "g", being |-> "A", seq |-> 3, kind |-> "grant", at |-> 0, refs |-> {}, grant |-> "g", rel |-> "ab", subject |-> "B", from |-> 0, until |-> 9, depth |-> 1, parent |-> "none", dseq |-> 0, prev |-> "none", tribe |-> "none"]
TakenAB ==
    [id |-> "ga", being |-> "B", seq |-> 4, kind |-> "graccept", at |-> 0, refs |-> {"g"}, grant |-> "g", gevent |-> "g"]
RevokeAB ==
    [id |-> "r", being |-> "A", seq |-> 4, kind |-> "revoke", at |-> 1, refs |-> {"g", "ga"}, grant |-> "g", gevent |-> "g", accept |-> "ga", action |-> "revoke"]
RevokeFork ==
    [id |-> "rf", being |-> "A", seq |-> 4, kind |-> "revoke", at |-> 2, refs |-> {"g", "ga"}, grant |-> "g", gevent |-> "g", accept |-> "ga", action |-> "revoke"]
CloseAB ==
    [id |-> "x", being |-> "B", seq |-> 12, kind |-> "close", at |-> 1, refs |-> {"o", "a"}, rel |-> "ab", offer |-> "o", accept |-> "a"]
CloseFork ==
    [id |-> "xf", being |-> "B", seq |-> 12, kind |-> "close", at |-> 2, refs |-> {"o", "a"}, rel |-> "ab", offer |-> "o", accept |-> "a"]
OfferBC ==
    [id |-> "o2", being |-> "B", seq |-> 5, kind |-> "offer", at |-> 0, refs |-> {"cb"}, rel |-> "bc", responder |-> "C", until |-> 2, icard |-> "cb", depth |-> 0, grantuntil |-> 9]
AcceptBC ==
    [id |-> "a2", being |-> "C", seq |-> 2, kind |-> "accept", at |-> 0, refs |-> {"cb", "cc", "o2"}, rel |-> "bc", offer |-> "o2", icard |-> "cb", rcard |-> "cc"]
GrantBC ==
    [id |-> "h", being |-> "B", seq |-> 6, kind |-> "grant", at |-> 0, refs |-> {"g"}, grant |-> "h", rel |-> "bc", subject |-> "C", from |-> 0, until |-> 2, depth |-> 0, parent |-> "g", dseq |-> 0, prev |-> "none", tribe |-> "none"]
GrantBCToo ==
    [id |-> "h2", being |-> "B", seq |-> 7, kind |-> "grant", at |-> 0, refs |-> {"g"}, grant |-> "h2", rel |-> "bc", subject |-> "C", from |-> 0, until |-> 9, depth |-> 0, parent |-> "g", dseq |-> 0, prev |-> "none", tribe |-> "none"]
GrantBCNext ==
    [id |-> "h3", being |-> "B", seq |-> 8, kind |-> "grant", at |-> 0, refs |-> {"g", "h"}, grant |-> "h3", rel |-> "bc", subject |-> "C", from |-> 0, until |-> 9, depth |-> 0, parent |-> "g", dseq |-> 1, prev |-> "h", tribe |-> "none"]
TakenBC ==
    [id |-> "ha", being |-> "C", seq |-> 3, kind |-> "graccept", at |-> 0, refs |-> {"h"}, grant |-> "h", gevent |-> "h"]
TakenNext ==
    [id |-> "ha3", being |-> "C", seq |-> 4, kind |-> "graccept", at |-> 0, refs |-> {"h3"}, grant |-> "h3", gevent |-> "h3"]
Relinquish ==
    [id |-> "rl", being |-> "B", seq |-> 9, kind |-> "revoke", at |-> 1, refs |-> {"g", "ga"}, grant |-> "g", gevent |-> "g", accept |-> "ga", action |-> "relinquish"]
DeclareT ==
    [id |-> "d", being |-> "A", seq |-> 6, kind |-> "declare", at |-> 0, refs |-> {}, tribe |-> "t"]
InviteB ==
    [id |-> "i", being |-> "A", seq |-> 7, kind |-> "invite", at |-> 0, refs |-> {}, tribe |-> "t", epoch |-> 0, invitee |-> "B", until |-> 2]
JoinB ==
    [id |-> "j", being |-> "B", seq |-> 7, kind |-> "join", at |-> 0, refs |-> {"i"}, tribe |-> "t", epoch |-> 0, invite |-> "i", mseq |-> 0, prev |-> "none"]
LeaveB ==
    [id |-> "l", being |-> "B", seq |-> 8, kind |-> "leave", at |-> 1, refs |-> {"j"}, tribe |-> "t", epoch |-> 0, member |-> "B", join |-> "j"]
PassOn ==
    [id |-> "tr", being |-> "A", seq |-> 9, kind |-> "transfer", at |-> 1, refs |-> {}, tribe |-> "t", epoch |-> 0, successor |-> "B"]
TakeOver ==
    [id |-> "su", being |-> "B", seq |-> 10, kind |-> "succeed", at |-> 1, refs |-> {"tr"}, tribe |-> "t", transfer |-> "tr"]
GrantInT ==
    [id |-> "gt", being |-> "A", seq |-> 11, kind |-> "grant", at |-> 0, refs |-> {}, grant |-> "gt", rel |-> "ab", subject |-> "B", from |-> 0, until |-> 9, depth |-> 0, parent |-> "none", dseq |-> 0, prev |-> "none", tribe |-> "t"]
TakenInT ==
    [id |-> "gta", being |-> "B", seq |-> 11, kind |-> "graccept", at |-> 1, refs |-> {"gt"}, grant |-> "gt", gevent |-> "gt"]
OtherTribe ==
    [id |-> "d2", being |-> "A", seq |-> 12, kind |-> "declare", at |-> 1, refs |-> {}, tribe |-> "u"]
\* B accepts everything a second time and forks its chain there.
AcceptLate == [AcceptAB EXCEPT !.id = "a5", !.seq = 5]
AcceptFork == [AcceptAB EXCEPT !.id = "af", !.seq = 5, !.at = 1]
TakenLate == [TakenAB EXCEPT !.id = "ga6", !.seq = 6]
CloseLate == [CloseAB EXCEPT !.refs = {"o", "a5"}, !.accept = "a5"]
RevokeLate == [RevokeAB EXCEPT !.refs = {"g", "ga6"}, !.accept = "ga6"]

Stories ==
   {[name |-> "pair", held |-> {CardA, CardB, OfferAB, GrantAB},
     later |-> {AcceptAB, TakenAB, RevokeAB, RevokeFork, CloseAB, CloseFork, BadCard}, readers |-> {"B"}],
    [name |-> "twice", held |-> {CardA, CardB, OfferAB, GrantAB, AcceptLate, TakenLate},
     later |-> {AcceptAB, TakenAB, AcceptFork, CloseLate, RevokeLate}, readers |-> {"B"}],
    [name |-> "card", held |-> {CardA, CardB, OfferAB, AcceptAB, GrantAB, TakenAB},
     later |-> {Gone, GoneFork, RevokeAB, Relinquish}, readers |-> {"B"}],
    [name |-> "chain", held |-> {CardA, CardB, CardC, OfferAB, AcceptAB, GrantAB, TakenAB, OfferBC, AcceptBC},
     later |-> {GrantBC, GrantBCToo, GrantBCNext, TakenBC, TakenNext, Relinquish, RevokeAB}, readers |-> {"C"}],
    [name |-> "tribe", held |-> {CardA, CardB, OfferAB, AcceptAB, InviteB, GrantInT, TakenInT, JoinB},
     later |-> {DeclareT, LeaveB, PassOn, TakeOver, OtherTribe}, readers |-> {"B"}]}

\* Somebody types the text of the requests into the thread, or another one.
TurnInput(x) == IF x = "other" THEN "else" ELSE "text"
Generations == <<0, 1, 2, 3>>
Chapters == [p \in {"a", "b"} |->
    <<[name |-> "x", signed |-> FALSE]>>
      \o (IF p = "a" THEN <<[name |-> "z", signed |-> TRUE]>> ELSE <<>>)]

Update(message, edit, stamp, selectors, parent) ==
    [message |-> message, edit |-> edit, stamp |-> stamp, selectors |-> selectors,
     parent |-> parent]
Chat ==
    <<Update("m", FALSE, 1, {"@full"}, "p"), Update("m", TRUE, 2, {"@full"}, "none"),
      Update("n", FALSE, 2, {"@bare"}, "none"), Update("n", TRUE, 2, {"full"}, "none")>>

\* A message of two parts and a control with nothing to show, released together.
Speech == [id |-> 1, parts |-> 2, mirrored |-> TRUE]
Control == [id |-> 3, parts |-> 0, mirrored |-> TRUE]
Threads == {t1, t2}
\* Two requests to answer mentions in the chat.
Replies == {q1, q2}
Symmetry == Permutations(Threads) \cup Permutations(Replies)

-----------------------------------------------------------------------------
\* Hosts of one being enrolled, retired and recovered.
rebirth == INSTANCE Rebirth WITH
    Embodiments <- Beings, First <- h1, Policies <- Policies,
    Root <- RootHolder, RecoveryHolders <- RecoveryHolder, Threshold <- 1,
    Plans <- RebirthPlans, MaxEvents <- 1, bundles <- v1, intents <- v2,
    done <- v3, used <- v4, events <- v5, plan <- v6, None <- NoValue

\* Releases, forks, resolutions and their application.
species == INSTANCE Species WITH
    Book <- Book, Keys <- SpeciesKeys, Plans <- SpeciesPlans, Quorum <- 2,
    Enrolled <- "z", Calls <- SpeciesCalls, Errors <- {"event"}, plan <- v1,
    seen <- v2, status <- v3, founder <- v4, head <- v5, closed <- v6,
    release <- v7, branch <- v8, snapshot <- v9, journal <- v10,
    events <- v11, applied <- v12, pointer <- v13, run <- v14, None <- NoValue

\* A source pulled, reviewed and promoted.
sources == INSTANCE Sources WITH
    Plans <- SourcePlans, plan <- v1, authored <- v2, now <- v3, made <- v4,
    held <- v5, content <- v6, cursors <- v7, bundles <- v8, preview <- v9,
    journal <- v10, pull <- v11, assessments <- v12, decisions <- v13,
    crashes <- v14

\* Two hosts publish through one provider.
publication == INSTANCE Publication WITH
    Hosts <- {"h1", "h2"}, MaxRequests <- 1, ReviewLife <- 2,
    MaxCrashes <- 1, MaxRevisions <- 1, MaxTroubles <- 3, now <- v1,
    requests <- v2, revised <- v3, known <- v4, accepted <- v5, claim <- v6,
    attempt <- v7, run <- v8, applied <- v9, order <- v10, crashes <- v11

\* A's store of relationships, grants and memberships.
relationships == INSTANCE Relationships WITH
    Me <- "A", MaxNow <- 2, Plans <- Stories, plan <- v1, held <- v2,
    ledger <- v3, now <- v4, page <- v5, released <- v6, denied <- v7

\* A Codex body and its sessions.
codex == INSTANCE CodexBody WITH
    Requests <- {"r1", "r2"}, Foreign <- {"again", "other"}, InputOf <- TurnInput,
    MaxSessions <- 3, MaxLapses <- 1, profile <- v1, handles <- v2,
    torn <- v3, intents <- v4, results <- v5, session <- v6, child <- v7,
    loaded <- v8, thread <- v9, minted <- v10, lapsed <- v11,
    sessions <- v12, lapses <- v13

\* A Hermes body and two supervisors.
hermes == INSTANCE HermesBody WITH
    Supervisors <- {"p1", "p2"}, Operations <- {"o1"}, MaxStarts <- 2,
    MaxOthers <- 1, journal <- v1, supervisor <- v2, child <- v3,
    ledger <- v4, stored <- v5, provider <- v6, context <- v7,
    receipts <- v8, starts <- v9

\* Collective memory coming in: one importer, a faulty generation.
imports == INSTANCE CollectiveMemory WITH
    Importers <- {"i1"}, Publishers <- {}, Parent <- Generations,
    Faulty <- {4}, Targets <- {}, MaxRequests <- 0, MaxTroubles <- 3,
    latest <- v1, rows <- v2, receipted <- v3, imported <- v4,
    importer <- v5, requests <- v6, asked <- v7, accepted <- v8, stale <- v9,
    drifted <- v10, effects <- v11, publisher <- v12, troubles <- v13

\* Two importers, one of which may recover what the other has under way.
followers == INSTANCE CollectiveMemory WITH
    Importers <- Threads, Publishers <- {}, Parent <- Generations,
    Faulty <- {4}, Targets <- {}, MaxRequests <- 0, MaxTroubles <- 1,
    latest <- v1, rows <- v2, receipted <- v3, imported <- v4,
    importer <- v5, requests <- v6, asked <- v7, accepted <- v8, stale <- v9,
    drifted <- v10, effects <- v11, publisher <- v12, troubles <- v13

\* Collective memory going out: two publishers.
exports == INSTANCE CollectiveMemory WITH
    Importers <- {}, Publishers <- {"p1", "p2"}, Parent <- Generations,
    Faulty <- {}, Targets <- {"t"}, MaxRequests <- 2, MaxTroubles <- 2,
    latest <- v1, rows <- v2, receipted <- v3, imported <- v4,
    importer <- v5, requests <- v6, asked <- v7, accepted <- v8, stale <- v9,
    drifted <- v10, effects <- v11, publisher <- v12, troubles <- v13

\* Two reviewers and a threshold of two.
review == INSTANCE HumanReview WITH
    Reviewers <- {"a", "b"}, Threshold <- 2, Workers <- {"w1"},
    Actions <- {"accept", "edit", "reject"}, PlanLife <- 1,
    MaxOutstanding <- 1, MaxNow <- 1, MaxRequests <- 2, MaxDecisions <- 2,
    MaxDrift <- 1, MaxCrashes <- 1, MaxAutomatic <- 1, MaxTroubles <- 2,
    now <- v1, drift <- v2, lane <- v3, revoked <- v4, automatic <- v5,
    fresh <- v6, requests <- v7, decisions <- v8, receipts <- v9,
    work <- v10, crashes <- v11

\* One reviewer whose decisions two threads execute.
rivals == INSTANCE HumanReview WITH
    Reviewers <- {"a"}, Threshold <- 1, Workers <- {"w1", "w2"},
    Actions <- {"accept", "defer"}, PlanLife <- 0, MaxOutstanding <- 1,
    MaxNow <- 1, MaxRequests <- 2, MaxDecisions <- 2, MaxDrift <- 1,
    MaxCrashes <- 1, MaxAutomatic <- 1, MaxTroubles <- 1, now <- v1,
    drift <- v2, lane <- v3, revoked <- v4, automatic <- v5, fresh <- v6,
    requests <- v7, decisions <- v8, receipts <- v9, work <- v10,
    crashes <- v11

\* Two processes project one memory.
projections == INSTANCE MemoryProjection WITH
    Memories <- {"m"}, Processes <- {"p", "q"}, Retraction <- 3,
    MaxTroubles <- 1, head <- v1, journal <- v2, frozen <- v3, stored <- v4,
    plan <- v5, run <- v6, lock <- v7, troubles <- v8

\* Readers of two operations over two boots.
readers == INSTANCE Readers WITH
    Operations <- {"a", "b"}, MaxRequests <- 3, MaxBoots <- 2, MaxNow <- 1,
    MaxRosters <- 2, MaxBindings <- 1, MaxTroubles <- 1, journal <- v1,
    requests <- v2, acked <- v3, live <- v4, latest <- v5, boots <- v6,
    now <- v7, roster <- v8, binding <- v9, troubles <- v10

\* Two upgrade transactions of a pair of bodies.
runtime == INSTANCE RuntimeUpgrade WITH
    Transactions <- {"t", "u"}, Roles <- {"a", "b"}, TTL <- 2, MaxNow <- 2,
    MaxEffects <- 1, MaxCrashes <- 1, source <- v1, tx <- v2, busy <- v3,
    issues <- v4, now <- v5, crashes <- v6, effects <- v7, seen <- v8

\* A scope asked and answered by two threads.
scopes == INSTANCE Scopes WITH
    Peers <- {"p"}, Requests <- {"r"}, Threads <- {"t", "u"}, Life <- 1,
    MaxNow <- 2, MaxManifest <- 2, MaxWalks <- 2, MaxTroubles <- 2,
    now <- v1, manifest <- v2, heads <- v3, sent <- v4, inbound <- v5,
    recorded <- v6, fan <- v7, serving <- v8, handed <- v9, walks <- v10,
    troubles <- v11

\* Two processes seal one delivery of each kind.
seals == INSTANCE Sealing WITH
    Bodies <- {"a"}, Processes <- {"p", "q"},
    Kinds <- {"we", "relationship", "tribe"}, TTL <- 1, MaxNow <- 1,
    MaxWorld <- 1, MaxMoves <- 2, MaxDeliveries <- 2, now <- v1, world <- v2,
    view <- v3, message <- v4, recovery <- v5, envelopes <- v6, sealer <- v7,
    carried <- v8, opened <- v9, moves <- v10

\* Two curator workers and one task.
curation == INSTANCE CuratorWork WITH
    Workers <- {"v", "w"}, MaxAttempts <- 2, Lease <- 1, MaxNow <- 1,
    MaxClaims <- 2, MaxHeads <- 1, MaxStarts <- 3, now <- v1, head <- v2,
    item <- v3, task <- v4, row <- v5, worker <- v6, calls <- v7,
    starts <- v8

\* Mentions and edits of them in the tribe's chat, with one request to reply while
\* defaults and the origin move, and with two requests.
tribu == INSTANCE HumanTribu WITH
    Updates <- Chat, Posts <- {"p"}, Operations <- {"q"},
    Threads <- Threads, Pages <- 2, Attention <- TRUE, Capacity <- 1,
    MaxChanges <- 1, MaxTroubles <- 1, origin <- v1, default <- v2,
    offset <- v3, pending <- v4, latest <- v5, revisions <- v6, posts <- v7,
    replaying <- v8, candidates <- v9, replies <- v10, thread <- v11,
    dispatched <- v12, transport <- v13, changes <- v14, troubles <- v15

mentions == INSTANCE HumanTribu WITH
    Updates <- Chat, Posts <- {"p"}, Operations <- Replies,
    Threads <- Threads, Pages <- 2, Attention <- TRUE, Capacity <- 1,
    MaxChanges <- 0, MaxTroubles <- 1, origin <- v1, default <- v2,
    offset <- v3, pending <- v4, latest <- v5, revisions <- v6, posts <- v7,
    replaying <- v8, candidates <- v9, replies <- v10, thread <- v11,
    dispatched <- v12, transport <- v13, changes <- v14, troubles <- v15

\* Two newborns answer one offer.
birth == INSTANCE Birth WITH
    Newborns <- {"n", "m"}, Witnesses <- {"w"}, Callers <- {"c", "d"},
    Life <- 1, MaxOffers <- 1, MaxAcceptances <- 2, MaxReceipts <- 2,
    MaxNow <- 1, MaxHeads <- 1, MaxEvents <- 1, MaxCrashes <- 1, now <- v1,
    head <- v2, offers <- v3, acceptances <- v4, receipts <- v5,
    events <- v6, rows <- v7, accepted <- v8, activated <- v9, caller <- v10,
    crashes <- v11

\* Two native memory pools reconciled both ways.
pools == INSTANCE NativeSync WITH
    Pools <- {"a", "b"}, Initial <- Chapters, MaxPlans <- 3, MaxEdits <- 1,
    MaxCrashes <- 1, pool <- v1, bindings <- v2, receipts <- v3,
    packets <- v4, run <- v5, edits <- v6, crashes <- v7

\* Speech that must be shown before it leaves.
speech == INSTANCE Egress WITH
    Threads <- Threads, Approvals <- {a1}, Ops <- {Speech, Control},
    Bundles <- {<<Control, Speech>>}, MaxAttempts <- 3, MaxRecords <- 2,
    MaxCrashes <- 1, record <- v1, queue <- v2, cooling <- v3, current <- v4,
    approvals <- v5, expired <- v6, thread <- v7, echoLock <- v8,
    fence <- v9, wire <- v10, posts <- v11, references <- v12, sent <- v13,
    counted <- v14, crashes <- v15, None <- NoValue

Rest6 == <<v7, v8, v9, v10, v11, v12, v13, v14, v15>>
Zero6 == v7 = 0 /\ v8 = 0 /\ v9 = 0 /\ v10 = 0 /\ v11 = 0 /\ v12 = 0 /\
            v13 = 0 /\ v14 = 0 /\ v15 = 0
Rest7 == <<v8, v9, v10, v11, v12, v13, v14, v15>>
Zero7 == v8 = 0 /\ v9 = 0 /\ v10 = 0 /\ v11 = 0 /\ v12 = 0 /\ v13 = 0 /\
            v14 = 0 /\ v15 = 0
Rest8 == <<v9, v10, v11, v12, v13, v14, v15>>
Zero8 == v9 = 0 /\ v10 = 0 /\ v11 = 0 /\ v12 = 0 /\ v13 = 0 /\ v14 = 0 /\
            v15 = 0
Rest9 == <<v10, v11, v12, v13, v14, v15>>
Zero9 == v10 = 0 /\ v11 = 0 /\ v12 = 0 /\ v13 = 0 /\ v14 = 0 /\ v15 = 0
Rest10 == <<v11, v12, v13, v14, v15>>
Zero10 == v11 = 0 /\ v12 = 0 /\ v13 = 0 /\ v14 = 0 /\ v15 = 0
Rest11 == <<v12, v13, v14, v15>>
Zero11 == v12 = 0 /\ v13 = 0 /\ v14 = 0 /\ v15 = 0
Rest13 == <<v14, v15>>
Zero13 == v14 = 0 /\ v15 = 0
Rest14 == <<v15>>
Zero14 == v15 = 0
Rest1 == <<v2, v3, v4, v5, v6, v7, v8, v9, v10, v11, v12, v13, v14, v15>>
Zero1 == v2 = 0 /\ v3 = 0 /\ v4 = 0 /\ v5 = 0 /\ v6 = 0 /\ v7 = 0 /\
            v8 = 0 /\ v9 = 0 /\ v10 = 0 /\ v11 = 0 /\ v12 = 0 /\ v13 = 0 /\
            v14 = 0 /\ v15 = 0

-----------------------------------------------------------------------------
(* Ceremonies and requests that a crash or an operator interrupts. *)

Blank == [key |-> k1, method |-> "we.observe", parents |-> {}, target |-> NoValue,
          decision |-> NoValue, supersedes |-> NoValue, basis |-> NoValue,
          effect |-> NoValue, evidence |-> NoValue]

Propose(k) == [Blank EXCEPT !.key = k, !.method = "we.propose"]

Decide(k, d, sup) ==
    [Blank EXCEPT !.key = k, !.method = "we.decide", !.target = 1,
                  !.decision = d, !.supersedes = sup]

\* A proposal and two requests to decide it, one of which may grow too old to be
\* accepted as new.
Retried ==
    <<Propose(k1), Decide(k2, "adopt", NoValue), Decide(k3, "reject", NoValue)>>
RetryRequests == Range(Retried)
LateRequest == {Decide(k2, "adopt", NoValue)}

\* A message and one of an own body's lane, released together.
Note == [id |-> 2, parts |-> 1, mirrored |-> TRUE]
Sibling == [id |-> 4, parts |-> 1, mirrored |-> FALSE]

Ceremonies == {"renew", "revoke", "routes", "admit", "present", "upgrade"}
Directories == <<"d", "e", "f">>
Catalogued == <<"a", "b", "c">>

\* The runtime bundle and its floor migrated under kills and power loss.
migration == INSTANCE Migration WITH
    MaxFaults <- 4, MaxChanges <- 1, None <- NoValue, dir <- v1, past <- v2,
    synced <- v3, job <- v4, references <- v5, faults <- v6, changes <- v7

\* The ceremonies of a messaging application.
application == INSTANCE Application WITH
    Schemas <- {1, 3}, Ceremonies <- Ceremonies, AdvanceAnytime <- FALSE,
    MaxEpoch <- 2, MaxPeer <- 2, MaxChanges <- 2, MaxCrashes <- 2,
    epoch <- v1, known <- v2, pub <- v3, staged <- v4, journal <- v5,
    floor <- v6, current <- v7, inst <- v8, inbox2 <- v9, receipts2 <- v10,
    reserved <- v11, todo <- v12, changes <- v13, crashes <- v14

\* The communication store upgraded and recovered.
upgrade == INSTANCE StoreUpgrade WITH
    Dirs <- Range(Directories), Sources <- {1, 2}, MaxWork <- 1,
    MaxKills <- 1, MaxRecoveries <- 1, db <- v1, anchor <- v2,
    approved <- v3, intent <- v4, source <- v5, rehearsal <- v6, saved <- v7,
    prepared <- v8, completed <- v9, command <- v10, answers <- v11,
    kills <- v12, recoveries <- v13

\* Three visibility catalogs provisioned and adopted.
catalogs == INSTANCE Catalogs WITH
    Stores <- Range(Catalogued), Legacy <- {}, MaxOperations <- 2,
    MaxKills <- 2, native <- v1, tables <- v2, tag <- v3, rows <- v4,
    echo <- v5, installed <- v6, command <- v7, serving <- v8, kills <- v9

\* A hosted body that crashes while it answers.
hosted == INSTANCE HostedWeave WITH
    Workers <- {w1}, Requests <- RetryRequests, Aging <- LateRequest,
    MaxTroubles <- 2, Calm <- {}, rows <- v1, journal <- v2,
    operations <- v3, equivocations <- v4, stale <- v5, worker <- v6,
    answers <- v7, crashes <- v8, None <- NoValue

\* The worker of the mandatory echo.
echo == INSTANCE Egress WITH
    Threads <- {t1}, Approvals <- {}, Ops <- {Note, Sibling},
    Bundles <- {<<Note, Sibling>>}, MaxAttempts <- 2, MaxRecords <- 2,
    MaxCrashes <- 0, record <- v1, queue <- v2, cooling <- v3, current <- v4,
    approvals <- v5, expired <- v6, thread <- v7, echoLock <- v8,
    fence <- v9, wire <- v10, posts <- v11, references <- v12, sent <- v13,
    counted <- v14, crashes <- v15, None <- NoValue

\* The decisions on one proposal in every order of arrival; v1[d] is what decision
\* d, already known, supersedes: another one, none, or one on another proposal.
Arrive(d, s) ==
    /\ d \notin DOMAIN v1
    /\ v1' = [x \in DOMAIN v1 \cup {d} |-> IF x = d THEN s ELSE v1[x]]

\* A listing of all decisions in which the first supersedes nothing and every
\* other supersedes the one before it.
Linear(s) ==
    /\ Range(s) = DOMAIN v1
    /\ v1[s[1]] = NoValue
    /\ \A i \in 2..Len(s) : v1[s[i]] = s[i - 1]
Listings == {s \in [1..Cardinality(DOMAIN v1) -> DOMAIN v1] : Linear(s)}

-----------------------------------------------------------------------------
vars == <<which, v1, v2, v3, v4, v5, v6, v7, v8, v9, v10, v11, v12, v13, v14,
            v15>>

\* What beings, and the hosts of one being, come to agree on.
AccordInit ==
    \/ which = "rebirth" /\ rebirth!Init /\ Zero6
    \/ which = "species" /\ species!Init /\ Zero14
    \/ which = "sources" /\ sources!Init /\ Zero14
    \/ which = "publication" /\ publication!Init /\ Zero11
    \/ which = "relationships" /\ relationships!Init /\ Zero7
    \/ which = "chain" /\ v1 = <<>> /\ Zero1

AccordNext ==
    /\ UNCHANGED which
    /\ \/ which = "rebirth" /\ rebirth!Next /\ UNCHANGED Rest6
       \/ which = "species" /\ species!Next /\ UNCHANGED Rest14
       \/ which = "sources" /\ sources!Next /\ UNCHANGED Rest14
       \/ which = "publication" /\ publication!Next /\ UNCHANGED Rest11
       \/ which = "relationships" /\ relationships!Next /\ UNCHANGED Rest7
       \/ which = "chain" /\ UNCHANGED Rest1 /\ (\E d \in 1..4, s \in 0..4 \cup {NoValue} : Arrive(d, s))

\* What the processes and threads of one host do to its journals.
HostInit ==
    \/ which = "codex" /\ codex!Init /\ Zero13
    \/ which = "hermes" /\ hermes!Init /\ Zero9
    \/ which = "imports" /\ imports!Init /\ Zero13
    \/ which = "followers" /\ followers!Init /\ Zero13
    \/ which = "exports" /\ exports!Init /\ Zero13
    \/ which = "review" /\ review!Init /\ Zero11
    \/ which = "rivals" /\ rivals!Init /\ Zero11
    \/ which = "projections" /\ projections!Init /\ Zero8
    \/ which = "readers" /\ readers!Init /\ Zero10
    \/ which = "runtime" /\ runtime!Init /\ Zero8
    \/ which = "scopes" /\ scopes!Init /\ Zero11
    \/ which = "seals" /\ seals!Init /\ Zero10
    \/ which = "curation" /\ curation!Init /\ Zero8
    \/ which = "tribu" /\ tribu!Init
    \/ which = "mentions" /\ mentions!Init
    \/ which = "birth" /\ birth!Init /\ Zero11
    \/ which = "pools" /\ pools!Init /\ Zero7
    \/ which = "speech" /\ speech!Init

HostNext ==
    /\ UNCHANGED which
    /\ \/ which = "codex" /\ codex!Next /\ UNCHANGED Rest13
       \/ which = "hermes" /\ hermes!Next /\ UNCHANGED Rest9
       \/ which = "imports" /\ imports!Next /\ UNCHANGED Rest13
       \/ which = "followers" /\ followers!Next /\ UNCHANGED Rest13
       \/ which = "exports" /\ exports!Next /\ UNCHANGED Rest13
       \/ which = "review" /\ review!Next /\ UNCHANGED Rest11
       \/ which = "rivals" /\ rivals!Next /\ UNCHANGED Rest11
       \/ which = "projections" /\ projections!Next /\ UNCHANGED Rest8
       \/ which = "readers" /\ readers!Next /\ UNCHANGED Rest10
       \/ which = "runtime" /\ runtime!Next /\ UNCHANGED Rest8
       \/ which = "scopes" /\ scopes!Next /\ UNCHANGED Rest11
       \/ which = "seals" /\ seals!Next /\ UNCHANGED Rest10
       \/ which = "curation" /\ curation!Next /\ UNCHANGED Rest8
       \/ which = "tribu" /\ tribu!Next
       \/ which = "mentions" /\ mentions!Next
       \/ which = "birth" /\ birth!Next /\ UNCHANGED Rest11
       \/ which = "pools" /\ pools!Next /\ UNCHANGED Rest7
       \/ which = "speech" /\ speech!Next

RecordSpec == (AccordInit \/ HostInit) /\ [][AccordNext \/ HostNext]_vars

\* Of these, two importers of collective memory alone.
RivalInit == which = "followers" /\ followers!Init /\ Zero13
RivalSpec == RivalInit /\ [][HostNext]_vars

\* What must eventually happen: the components that take up again what a crash or
\* an operator interrupted.
CeremonyInit ==
    \/ which = "migration" /\ migration!Init /\ Zero7
    \/ which = "application" /\ application!Init /\ Zero14
    \/ which = "upgrade" /\ upgrade!Init /\ Zero13
    \/ which = "catalogs" /\ catalogs!Init /\ Zero9
    \/ which = "hosted" /\ hosted!Init /\ Zero8
    \/ which = "echo" /\ echo!Init

CeremonyNext ==
    /\ UNCHANGED which
    /\ \/ which = "migration" /\ migration!Next /\ UNCHANGED Rest7
       \/ which = "application" /\ application!Next /\ UNCHANGED Rest14
       \/ which = "upgrade" /\ upgrade!Next /\ UNCHANGED Rest13
       \/ which = "catalogs" /\ catalogs!Next /\ UNCHANGED Rest9
       \/ which = "hosted" /\ hosted!Next /\ UNCHANGED Rest8
       \/ which = "echo" /\ echo!Next

CeremonySpec == CeremonyInit /\ [][CeremonyNext]_vars

(* What keeps going: a running process or thread goes on, and whoever was cut *)
(* off, an operator or a client, repeats the command or the request. A        *)
(* behaviour is about one component, so the n-th condition of each of them    *)
(* share one conjunct of the fairness.                                        *)

\* Goes on as soon as it can: the steps of a ceremony, a thread or a process;
\* the commands with which the owner repairs an application and ends the upgrade
\* he had begun; a command over catalogs, which takes them one after the other and
\* is repeated when it was killed; the delays and HTTP requests of the echo.
GoesOn(n) ==
    /\ UNCHANGED which
    /\ \/ /\ which = "migration" /\ UNCHANGED Rest7
          /\ n = 1 /\ migration!Steps
       \/ /\ which = "application" /\ UNCHANGED Rest14
          /\ \/ n = 1 /\ application!Steps
             \/ n = 2 /\ application!Recover
             \/ n = 3 /\ application!Republish
             \/ n = 4 /\ application!PublishVisibility
             \/ n = 5 /\ application!Continues
       \/ /\ which = "upgrade" /\ UNCHANGED Rest13
          /\ n \in DOMAIN Directories /\ upgrade!Step(Directories[n])
       \/ /\ which = "catalogs" /\ UNCHANGED Rest9
          /\ \/ n \in DOMAIN Catalogued /\ catalogs!ChangeOne(Catalogued[n])
             \/ n = 4 /\ catalogs!End
             \/ n = 5 /\ catalogs!Begin("provision", "closed")
             \/ n = 6 /\ catalogs!Begin("provision", "owner")
             \/ n = 7 /\ catalogs!Begin("adopt", "owner")
       \/ /\ which = "hosted" /\ UNCHANGED Rest8
          /\ n = 1 /\ hosted!WorkerStep(w1)
       \/ /\ which = "echo"
          /\ \/ n = 1 /\ echo!Proceed(t1)
             \/ n = 2 /\ echo!CoolDown(Note)
             \/ n = 3 /\ echo!CoolDown(Sibling)

\* Is repeated whenever it is possible again and again: both commands of a
\* migration; an upgrade, with a fresh plan while there is no intent; a request
\* whose client has no answer; the worker loop's visit to an echo it can reach.
Repeats(n) ==
    /\ UNCHANGED which
    /\ \/ /\ which = "migration" /\ UNCHANGED Rest7
          /\ n \in 1..2 /\ migration!Start(<<"prepare", "resume">>[n])
       \/ /\ which = "upgrade" /\ UNCHANGED Rest13
          /\ \/ n \in DOMAIN Directories /\ upgrade!Plan(Directories[n])
             \/ n - 3 \in DOMAIN Directories /\ upgrade!Apply(Directories[n - 3])
       \/ /\ which = "hosted" /\ UNCHANGED Rest8
          /\ n \in DOMAIN Retried /\ hosted!Journalled(Retried[n]) /\ hosted!Begin(w1, Retried[n])
       \/ /\ which = "echo"
          /\ n \in 1..2 /\ echo!Reach(<<Note, Sibling>>[n])

FairSpec ==
    /\ CeremonySpec
    /\ \A n \in 1..7 : WF_vars(GoesOn(n))
    /\ \A n \in 1..6 : SF_vars(Repeats(n))

-----------------------------------------------------------------------------
\* Nobody comes back. No host's past is rewritten: two hosts that accept one
\* manifest were led to it by the same signed steps, and whoever was revoked, or
\* was active on any branch a recovery cites, stays out, whoever was enrolled
\* while the recovery was being signed included; and what a denial ended that the
\* relationship store took into account comes back in the two ways DenialsStick
\* names only, when the acceptance it was about falls to a fork or the epoch it
\* names to a late succession (operator_rebirth.py, identity.py,
\* relationship_store.py, relationships.py).
RevocationsHold ==
    /\ (which = "rebirth" => rebirth!HistoriesAgree /\ rebirth!RevokedStaysOut)
    /\ (which = "relationships" => relationships!DenialsStick)

\* The accepted head of a species rests on accepted releases down to its release
\* zero however forks, resolutions and late copies arrive, and a serving host
\* without an open operation runs what its application events say, wherever a
\* switch was cut by a crash and whenever its event could not be written; no other
\* write fails here (species.py, species_runner.py, service.py).
SpeciesHolds == which = "species" => species!ChainsHold /\ species!PointerIsRecorded

\* What crosses to another being's host is neither torn nor told twice: a pull
\* lands its pages whole, in order and once across crashes, and an acceptance of
\* a publication is the only one of its request and tells an effect the provider
\* holds, in the provider's order (sources.py: pull; publication.py: execute).
ExchangesHold ==
    /\ (which = "sources" => sources!PullsLandWhole)
    /\ (which = "publication" => publication!AcceptancesAreTrue)

\* One answer for one question, under retries, threads, processes and forks: an
\* offer of birth never yields two accepted newborns, a responder's answer to a
\* scope request is the one it first made, and a delivery has one envelope, for
\* the audience that was current when it was sealed (birth.py: accept, activate;
\* scopes.py: serve_scope_request; sealed.py: seal_event, open_event).
AnswersHold ==
    /\ (which = "birth" => birth!OneNewbornPerOffer)
    /\ (which = "scopes" => scopes!OneAnswerPerResponder)
    /\ (which = "seals" => seals!OneEnvelopeForItsAudience)

\* A body's turns are accounted for across lost sessions: no input of a Codex
\* body reaches the model or is answered twice, and its result is the turn it
\* started, unless the model never got it or lost it and somebody typed the same
\* text by hand; and one Hermes body runs at a time and hands its model what its
\* ledger says (codex_body.py,
\* hermes_body.py). Two upgrade transactions of one source never both take
\* effect, and a reader is reported ready only for the channel the running boot
\* intends (operator_runtime_upgrade.py; native_egress.py: select_readers).
BodiesHold ==
    /\ (which = "runtime" => runtime!SourceNeverForks)
    /\ (which = "readers" => readers!ReadinessIsIntended)
    /\ (which = "codex" => codex!InputsAccountedFor)
    /\ (which = "hermes" => hermes!BodyIsOneAndTruthful)

\* What memory claims about others is true: the active head is the last
\* generation accepted while one importer works, and with two of them, who may
\* leave the store without an active row, a rebuild can still make it the head; a
\* publication row claims no more than the target did, and a reconciled pool holds
\* one import of an origin (collective_memory.py: recover, rebuild_projection;
\* owner_sync/native_reconcile.py: prepare, apply).
MemoryHolds ==
    /\ (which = "imports" => imports!HeadIsLastAccepted)
    /\ (which = "followers" => followers!HeadCanBeRestored)
    /\ (which = "exports" => exports!RowsClaimNoMore)
    /\ (which = "pools" => pools!ImportedOnce)

\* The recovery of an import "finds the same event and activates once"
\* (docs/dm036-collective-memory.md:79): also with two importers the active head is
\* the last generation accepted. It is not: an importer that finalizes what the
\* other one has meanwhile recovered and followed by a further generation leaves no
\* row active (collective_memory.py: finalize).
HeadSurvives == which = "followers" => followers!HeadIsLastAccepted

\* Work on behalf of others is done once and for what it was asked: the result a
\* curator task ends with was computed for that very task within its calls, and
\* a reply request sends each of its pages once and none it claims after its
\* mention was edited, while mentions are edited and replayed and two threads work
\* on two requests (curator_worker.py: run; human_tribu.py: ingest, reply).
AnsweredWorkHolds ==
    /\ (which = "curation" => curation!ResultIsTheTasksOwn)
    /\ (which = "tribu" => tribu!RepliesGoOnceAndStopAtEdits)
    /\ (which = "mentions" => mentions!RepliesGoOnceAndStopAtEdits)

\* No post is repeated without the owner's word about that very attempt, parts
\* keep their order, every stored record loads again, and nothing that must be
\* shown leaves before Telegram shows all of it, whatever was lost, late or
\* interrupted (mandatory_echo.py, native_egress.py, telegram_mirror.py).
SpeechHolds ==
    which = "speech" =>
        /\ speech!TypeOK /\ speech!RepostsAreApproved /\ speech!PartsInOrder
        /\ speech!InFlightIsLatest /\ speech!LoaderAccepts /\ speech!ReleasedIsVisible

\* The walk over decisions accepts exactly the "connected, non-forking" chains:
\* it fails when no linear listing exists (forks, two roots, a cycle beside the
\* chain, a predecessor elsewhere), and otherwise ends in the last decision of the
\* only one, whatever the order of arrival (projections.py: _decision_chain).
ChainMatchesReference ==
    which = "chain" /\ DOMAIN v1 # {} =>
        /\ hosted!ChainFailed(DOMAIN v1, v1) <=> Listings = {}
        /\ \A s \in Listings : /\ hosted!Walk(DOMAIN v1, v1) = s
                               /\ hosted!Tip(DOMAIN v1, v1) = s[Len(s)]

\* What crosses to others rests on evidence that is current at that step: a
\* promotion on the review of exactly what is current, and a page given out on a
\* grant that still stands (sources.py: promote; relationship_store.py:
\* disclosure).
ExchangesRestOnEvidence ==
    [][/\ (which = "sources" => sources!PromotionsAreReviewed)
       /\ (which = "relationships" => relationships!PagesRestOnGrants)]_vars

\* What a host records rests on evidence that is current at that step: a record
\* on the decisions of its reviewers; the memory store never goes back to an
\* earlier record, and no echo evidence is dropped (human_review.py: execute;
\* memory_projection.py: project; mandatory_echo.py).
RecordsRestOnEvidence ==
    [][/\ (which = "review" => review!EffectsAreReviewed)
       /\ (which = "rivals" => rivals!EffectsAreReviewed)
       /\ (which = "projections" => projections!StoreNeverRewinds)
       /\ (which = "speech" => speech!EvidenceIsKept)]_vars

-----------------------------------------------------------------------------
On(component, holds) == which = component => holds
At(component, holds) == which = component /\ holds

\* Wherever a ceremony is killed, and whichever ceremonies follow each other, the
\* owner's own commands bring the application back to where it serves, unless its
\* capability was revoked. That is for owners who let an authority advance only
\* while no ceremony is left unfinished: the code does not hold them to it, and
\* after an advance in between recovery may be refused (operator_messaging.py:
\* recover, adopt_peer_authority).
ServesAgain == <>[]On("application", application!Serves \/ application!Revoked)

\* No residue of an interrupted command stands in the way of the next one.
\* Repeated, and with the preserved files left alone, the runtime migration
\* completes; a communication store ends up upgraded; and the mixture of catalogs
\* a killed command left, which no daemon serves, always ends with every
\* operation under one obligation and every obligation under one key
\* (operator_rebirth.py: the migration of messaging permissions;
\* operator_communication_migration.py; native_egress.py:
\* migrate_registered_catalogs).
CommandsEnd ==
    /\ []On("migration", migration!Preserved)
          => <>[]On("migration", migration!Completed)
    /\ <>[]On("upgrade", upgrade!AtTarget)
    /\ At("catalogs", catalogs!Mixed) ~> On("catalogs", catalogs!Even)

\* Nothing that was taken on is left lying. A request that was journalled before a
\* crash or a timeout is completed by retries of the same bytes, even after it has
\* become too old to be accepted as a new one; and every admitted echo comes to a
\* decision: shown, in the owner's hands, out of attempts, or no longer
\* authorized, or it stands behind one that is out of attempts (service.py:
\* handle; native_egress.py: run_worker_batch).
AnswersCome ==
    /\ <>[]On("hosted", \A r \in RetryRequests : hosted!Journalled(r) => hosted!Answered(r))
    /\ \A o \in {Note, Sibling} :
          At("echo", echo!Recorded(o)) ~> On("echo", echo!Settled(o))

\* At every instant of a migration, the power failing included, the bundle is one
\* of the two, the floor rests on the new one and the journal on the floor; and
\* with one worker the decisions on a proposal stay "exactly one connected,
\* non-forking chain" over retries and crashes (operator_rebirth.py: the migration of
\* messaging permissions; service.py: we.decide; specs/weave-protocol.md).
StaysSound ==
    /\ On("migration", migration!AlwaysSound)
    /\ On("hosted", hosted!DecisionChainLinear)

\* What was accepted is kept and what was revoked stays revoked: neither an
\* upgrade nor a recovery discards work of the communication store, and no entry
\* follows a revoked capability (operator_communication_migration.py: recover;
\* operator_messaging.py).
NothingIsUndone ==
    [][/\ On("upgrade", upgrade!NoWorkIsDiscarded)
       /\ On("application", application!RevocationIsFinal)]_vars
=============================================================================
