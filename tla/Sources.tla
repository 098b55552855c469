------------------------------ MODULE Sources ------------------------------
(***************************************************************************)
(* Source ancestry (sources.py): a publisher Me authors claims and         *)
(* publications about one source from two hosts, a receiver Me learns them *)
(* by paged diffs and crash-resumable pulls, assesses the claims and       *)
(* promotes a publication to an external reference.                        *)
(*                                                                         *)
(* An event is its position in `made`.  Content (evidence, provenance and  *)
(* bytes) is present or absent as a whole; disclosure is always allowed.   *)
(* Every registry operation runs under one lock, but the ledgers are also  *)
(* filled by ordinary synchronisation, which does not take it.             *)
(***************************************************************************)
EXTENDS Integers, Sequences, FiniteSets

\* A plan gives what the publisher's two hosts author, in order, the closure
\* mode ("full" is v0, "selective" v1), the links ordinary synchronisation
\* uses, the page size, the content the second host was given, and the bounds
\* on every other operation.
CONSTANTS Plans

Hosts == {"A", "A2", "B"}     \* B is the receiver, A answers its diffs

VARIABLES
    plan,        \* the plan followed
    authored,    \* the authoring steps already taken
    now,         \* coarse clock: one step is past every expiry
    made,        \* all claim and publication events, in order of authoring
    held,        \* host -> the events its ledgers and its CAS know
    content,     \* host -> the content its CAS holds
    cursors,     \* host -> its signed cursors
    bundles,     \* the diff bundles that were produced
    preview,     \* the incoming preview the receiver's client holds
    journal,     \* source_intake of the receiver
    pull,        \* the pull under way at the receiver
    assessments, \* the receiver's assessment lane
    decisions,   \* the receiver's import decision lane
    crashes

intake == <<bundles, preview, journal, pull>>
vars == <<plan, authored, now, made, held, content, cursors, intake, assessments, decisions, crashes>>

---------------------------------------------------------------------------
(* Lanes *)

Claims(S) == {i \in S : made[i].kind = "claim"}
Publications(S) == {i \in S : made[i].kind = "publication"}

\* The last event of a lane: its highest position.
LaneHead(lane) ==
    IF lane = {} THEN 0
    ELSE CHOOSE i \in lane : \A j \in lane :
            made[j].seq < made[i].seq \/ (made[j].seq = made[i].seq /\ j <= i)

OrderedLane(lane) ==
    CASE lane = {} -> "none"
      [] {made[i].seq : i \in lane} # 0 .. made[LaneHead(lane)].seq -> "incomplete"
      [] \E i, j \in lane : i # j /\ made[i].seq = made[j].seq -> "forked"
      [] \E i \in lane : made[i].seq > 0 /\ made[i].prev \notin lane -> "invalid"
      [] OTHER -> "current"

Asserted(i) == made[i].action = "assert"
Expired(i) == made[i].expires /\ now > 0

\* A current claim whose evidence is missing is incomplete.
ClaimLane(S, C) ==
    LET lane == Claims(S) IN
    IF OrderedLane(lane) = "current" /\ Asserted(LaneHead(lane)) /\ made[LaneHead(lane)].bytes \notin C
    THEN "incomplete" ELSE OrderedLane(lane)

PublicationState(S, C) ==
    LET lane == Publications(S)
        p == LaneHead(lane)
        c == LaneHead(Claims(S))
    IN  CASE OrderedLane(lane) # "current" -> OrderedLane(lane)
          [] made[p].action = "tombstone" -> "tombstoned"
          [] \/ ClaimLane(S, C) # "current" \/ made[p].claim # c
             \/ ~Asserted(c) \/ Expired(c) \/ made[p].bytes \notin C -> "incomplete"
          [] OTHER -> "published"

\* _assessment_state for the lane of the one claimant.
Admitted ==
    LET c == LaneHead(Claims(held["B"])) IN
    /\ ClaimLane(held["B"], content["B"]) = "current"
    /\ Asserted(c) /\ ~Expired(c)
    /\ assessments # <<>>
    /\ assessments[Len(assessments)] = [claim |-> c, disposition |-> "admitted"]

---------------------------------------------------------------------------
(* Authoring at the publisher *)

\* The event with its causal parents: past follows the origin chain too (the
\* full closure), base only predecessors and the cited claim.
NewEvent(h, step, claim) ==
    LET lane == IF step.kind = "claim" THEN Claims(held[h]) ELSE Publications(held[h])
        prev == LaneHead(lane)
        parents == {prev, claim} \ {0}
        origin == {i \in held[h] : made[i].by = h}
    IN  [kind |-> step.kind, action |-> step.action, expires |-> step.expires,
         bytes |-> step.bytes, by |-> h,
         seq |-> IF lane = {} THEN 0 ELSE made[prev].seq + 1,
         prev |-> prev, claim |-> claim,
         past |-> LET near == parents \cup origin
                  IN  near \cup UNION {made[i].past : i \in near},
         base |-> parents \cup UNION {made[i].base : i \in parents}]

Appended(h, event) ==
    /\ made' = Append(made, event)
    /\ held' = [held EXCEPT ![h] = @ \cup {Len(made) + 1}]
    /\ content' = [content EXCEPT ![h] = @ \cup {event.bytes}]
    /\ authored' = authored + 1
    /\ UNCHANGED <<plan, now, cursors, intake, assessments, decisions, crashes>>

Asked(h, kind) ==
    /\ authored < Len(plan.steps)
    /\ plan.steps[authored + 1].by = h /\ plan.steps[authored + 1].kind = kind

AppendClaim(h) ==
    /\ Asked(h, "claim")
    /\ OrderedLane(Claims(held[h])) \in {"none", "current"}
    /\ Appended(h, NewEvent(h, plan.steps[authored + 1], 0))

AppendPublication(h) ==
    /\ Asked(h, "publication")
    /\ LET c == LaneHead(Claims(held[h])) IN
       /\ ClaimLane(held[h], content[h]) = "current"
       /\ plan.steps[authored + 1].action = "publish" => Asserted(c) /\ ~Expired(c)
       /\ OrderedLane(Publications(held[h])) \in {"none", "current"}
       /\ Appended(h, NewEvent(h, plan.steps[authored + 1], c))

\* Ordinary ledger synchronisation: events travel, content does not.
Sync(h, g) ==
    /\ <<h, g>> \in plan.links
    /\ ~(held[h] \subseteq held[g])
    /\ held' = [held EXCEPT ![g] = @ \cup held[h]]
    /\ UNCHANGED <<plan, authored, now, made, content, cursors, intake, assessments, decisions, crashes>>

Tick ==
    /\ now < plan.ticks
    /\ now' = now + 1
    /\ UNCHANGED <<plan, authored, made, held, content, cursors, intake, assessments, decisions, crashes>>

---------------------------------------------------------------------------
(* Cursors *)

Status(h) ==
    LET S == held[h] IN
    [claim |-> LaneHead(Claims(S)), claimState |-> ClaimLane(S, content[h]),
     publication |-> LaneHead(Publications(S)), state |-> PublicationState(S, content[h])]

\* A cursor lists every claim lane, but only settled publications.
Rows(h) ==
    LET status == Status(h)
        settled == status.state \in {"published", "tombstoned", "forked"}
    IN  [claim |-> status.claim,
         claimState |-> CASE status.claimState \in {"none", "forked"} -> status.claimState
                          [] status.claimState = "current" /\ ~Asserted(status.claim) -> "retracted"
                          [] OTHER -> "asserted",
         publication |-> IF settled THEN status.publication ELSE 0,
         state |-> IF settled THEN status.state ELSE "none"]

\* latest_cursor: by time, then by ledger sequence; 0 when there is none.
Latest(h) ==
    IF cursors[h] = <<>> THEN 0
    ELSE CHOOSE n \in DOMAIN cursors[h] : \A m \in DOMAIN cursors[h] :
            \/ cursors[h][m].at < cursors[h][n].at
            \/ cursors[h][m].at = cursors[h][n].at /\ m <= n

IsCurrent(h, n) == cursors[h][n].rows = Rows(h)
Cursor(rows, at, op) == [rows |-> rows, at |-> at, op |-> op]

\* source.cursor.create; called when the last cursor has become stale.
CreateCursor(h) ==
    /\ h \in {"A", "B"} /\ Len(cursors[h]) < plan.cursors
    /\ h = "B" => pull.step = "idle"
    /\ Latest(h) # 0 => ~IsCurrent(h, Latest(h))
    /\ cursors' = [cursors EXCEPT ![h] = Append(@, Cursor(Rows(h), now, 0))]
    /\ UNCHANGED <<plan, authored, now, made, held, content, intake, assessments, decisions, crashes>>

---------------------------------------------------------------------------
(* Diff pages *)

EventClosure(lane) == lane \cup UNION {made[i].past : i \in lane}
SemanticClosure(lane) == lane \cup UNION {made[i].base : i \in lane}
Closure(lane, mode) == IF mode = "full" THEN EventClosure(lane) ELSE SemanticClosure(lane)

\* _diff_item: nothing is offered while a publication of the closure would be
\* current in it without being the published head.
Offerable(events, head) ==
    LET p == LaneHead(Publications(events)) IN
    OrderedLane(Publications(events)) = "current" /\ made[p].action = "publish" => p = head

DiffItem(kind, lane, mode, head) ==
    LET events == Closure(lane, mode)
    IN  [kind |-> kind, events |-> events,
         blobs |-> {made[i].bytes : i \in {j \in Claims(events) : Asserted(j)} \cup ({head} \cap events)}]

Candidates(known, mode) ==
    LET S == held["A"]
        state == PublicationState(S, content["A"])
        head == IF state = "published" THEN LaneHead(Publications(S)) ELSE 0
        claim == IF Claims(S) = {} \/ LaneHead(Claims(S)) \in known THEN <<>>
                 ELSE <<DiffItem("claim", Claims(S), mode, head)>>
        publication ==
            IF state \notin {"published", "tombstoned"} \/ LaneHead(Publications(S)) \in known THEN <<>>
            ELSE <<DiffItem("publication", Publications(S), mode, head)>>
    IN  SelectSeq(claim \o publication, LAMBDA item : Offerable(item.events, head))

Known(n) == IF n = 0 THEN {}
            ELSE {cursors["B"][n].rows.claim, cursors["B"][n].rows.publication} \ {0}

Least(a, b) == IF a < b THEN a ELSE b

\* One page; `mine` is the requester's cursor at the moment of the call.
Page(request, mode, mine, offset, index, previous) ==
    LET all == Candidates(Known(mine), mode)
        upto == Least(offset + plan.items, Len(all))
        items == SubSeq(all, offset + 1, upto)
    IN  [request |-> request, mode |-> mode, index |-> index, items |-> items,
         previous |-> previous, requester |-> mine, responder |-> Latest("A"),
         next |-> IF upto = Len(all) THEN 0 ELSE upto, at |-> now]

Serves(page) ==
    /\ Latest("A") # 0 /\ IsCurrent("A", Latest("A"))
    /\ \A n \in DOMAIN page.items : page.items[n].blobs \subseteq content["A"]
    /\ bundles' = bundles \cup {page}
    /\ UNCHANGED <<plan, authored, now, made, held, content, cursors, preview, journal, pull,
                   assessments, decisions, crashes>>

Requests == {b.request : b \in bundles}
Diff ==
    /\ Cardinality(Requests) < plan.requests
    /\ Serves(Page(Cardinality(Requests) + 1, plan.mode, Latest("B"), 0, 0, <<>>))

\* The continuation binds request, requester and responder cursor, and expires;
\* the requester's cursor is whatever the caller passes now.
TokenHolds(b) == b.next # 0 /\ b.responder = Latest("A") /\ b.at = now

DiffNext(b) ==
    /\ TokenHolds(b)
    /\ LET page == Page(b.request, b.mode, Latest("B"), b.next, b.index + 1, b.items) IN
       /\ b.next <= Len(Candidates(Known(Latest("B")), b.mode))
       /\ page \notin bundles
       /\ Serves(page)

---------------------------------------------------------------------------
(* Incoming *)

Results(request) ==
    {journal[n].result : n \in {m \in DOMAIN journal :
        journal[m].state = "committed" /\ journal[m].bundle.request = request}}

\* Mutant: the pages need not start from one cursor.
PrefixHoldsLoose(b, start) ==
    LET prefix == Results(b.request) IN
    b.index > 0 => {r.index : r \in prefix} = 0 .. b.index - 1

\* _committed_page_prefix
PrefixHolds(b, start) ==
    LET prefix == Results(b.request) IN
    b.index > 0 =>
    /\ {r.index : r \in prefix} = 0 .. b.index - 1
    /\ Cardinality(prefix) = b.index
    /\ \A r \in prefix :
          /\ r.start = start /\ r.achieved = start
          /\ r.index = 0 => r.previous = <<>>
          /\ \A q \in prefix : q.index = r.index + 1 => q.previous = r.page
          /\ r.index = b.index - 1 => b.previous = r.page

\* The events a cursor stands for: its rows and what they succeed.
CursorEvents(n) ==
    LET rows == Known(n) IN
    rows \cup UNION {{j \in made[i].base : made[j].kind = made[i].kind} : i \in rows}

\* No source event arrived beside the pages already landed.
PrefixFresh(b, start) ==
    b.index > 0 =>
    held["B"] = CursorEvents(start) \cup UNION {r.accepted : r \in Results(b.request)}

Outcome(item) ==
    LET S == held["B"] \cup item.events
        lanes == (IF Claims(item.events) = {} THEN {} ELSE {OrderedLane(Claims(S))}) \cup
                 (IF Publications(item.events) = {} THEN {} ELSE {OrderedLane(Publications(S))})
        has == item.blobs \cup content["B"]
        p == LaneHead(Publications(S))
    IN  CASE lanes \cap {"invalid", "incomplete"} # {} -> "rejected"
          [] \E i \in Claims(item.events) : Asserted(i) /\ made[i].bytes \notin has -> "rejected"
          [] /\ OrderedLane(Publications(S)) = "current" /\ p \in item.events
             /\ made[p].action = "publish" /\ made[p].bytes \notin has -> "incomplete"
          [] "forked" \in lanes -> "quarantined"
          [] item.events \subseteq held["B"] -> "already-present"
          [] OTHER -> "admissible"

Outcomes(b) == [n \in DOMAIN b.items |-> Outcome(b.items[n])]

Admissible(b) ==
    LET start == Latest("B") IN
    /\ b.at = now
    /\ start = b.requester
    /\ start # 0 /\ b.index = 0 => IsCurrent("B", start)
    /\ PrefixHolds(b, start) /\ PrefixFresh(b, start)

Incoming(b) ==
    /\ pull.step = "idle" /\ Admissible(b)
    /\ preview' = <<b, Outcomes(b)>>
    /\ preview' # preview
    /\ UNCHANGED <<plan, authored, now, made, held, content, cursors, bundles, journal, pull,
                   assessments, decisions, crashes>>

---------------------------------------------------------------------------
(* Pull: stages journalled one by one *)

Idle == [step |-> "idle", op |-> 0]
Ranks == [prepared |-> 0, blobs |-> 1, events |-> 2, decisions |-> 3, committed |-> 4]

Begin ==
    /\ pull.step = "idle" /\ preview # <<>> /\ Len(journal) < plan.operations
    /\ LET b == preview[1] IN
       /\ Admissible(b) /\ Outcomes(b) = preview[2]
       /\ b.requester # 0
       /\ journal' = Append(journal, [bundle |-> b, outcomes |-> preview[2],
                                      state |-> "prepared", at |-> now, result |-> <<>>])
    /\ pull' = [step |-> "blobs", op |-> Len(journal) + 1]
    /\ preview' = <<>>
    /\ UNCHANGED <<plan, authored, now, made, held, content, cursors, bundles, assessments, decisions, crashes>>

\* The client calls pull again with the same operation, bundle and preview.
ResumeAt(state) ==
    CASE state = "prepared" -> "blobs" [] state = "blobs" -> "events" [] OTHER -> "decide"

Resume(op) ==
    /\ pull.step = "idle" /\ journal[op].state # "committed"
    /\ pull' = [step |-> ResumeAt(journal[op].state), op |-> op]
    /\ UNCHANGED <<plan, authored, now, made, held, content, cursors, bundles, preview, journal,
                   assessments, decisions, crashes>>

Landing(op) ==
    LET b == journal[op].bundle IN
    {n \in DOMAIN b.items : journal[op].outcomes[n] \notin {"incomplete", "rejected"}}
Landed(op) == UNION {journal[op].bundle.items[n].events : n \in Landing(op)}
Bytes(op) == UNION {journal[op].bundle.items[n].blobs : n \in Landing(op)}

\* _advance_intake never lowers the stage.
Advanced(op, state) ==
    journal' = [journal EXCEPT ![op].state = IF Ranks[@] < Ranks[state] THEN state ELSE @]

\* The selective mode retains the events with the bytes, in one transaction.
LandBlobs ==
    /\ pull.step = "blobs"
    /\ content' = [content EXCEPT !["B"] = @ \cup Bytes(pull.op)]
    /\ held' = IF journal[pull.op].bundle.mode = "selective"
               THEN [held EXCEPT !["B"] = @ \cup Landed(pull.op)] ELSE held
    /\ Advanced(pull.op, "blobs")
    /\ pull' = [pull EXCEPT !.step = "events"]
    /\ UNCHANGED <<plan, authored, now, made, cursors, bundles, preview, assessments, decisions, crashes>>

LandEvents ==
    /\ pull.step = "events"
    /\ held' = [held EXCEPT !["B"] = @ \cup Landed(pull.op)]
    /\ Advanced(pull.op, "events")
    /\ pull' = [pull EXCEPT !.step = "decide"]
    /\ UNCHANGED <<plan, authored, now, made, content, cursors, bundles, preview, assessments, decisions, crashes>>

\* The publications an operation must leave a decision for.
Offered(op) ==
    LET b == journal[op].bundle
        heads == {LaneHead(Publications(b.items[n].events)) :
                     n \in {m \in Landing(op) :
                        /\ journal[op].outcomes[m] \in {"admissible", "already-present"}
                        /\ OrderedLane(Publications(b.items[m].events)) = "current"}}
    IN  {p \in heads : made[p].action = "publish"}

Decision(p, decision) ==
    [publication |-> p, claim |-> made[p].claim, decision |-> decision]

LastDecision == decisions[Len(decisions)]

\* _initial_import_decisions keeps a current decision for the same event.
Decided(op) ==
    LET fresh == {p \in Offered(op) : decisions = <<>> \/ LastDecision.publication # p}
    IN  IF fresh = {} THEN decisions
        ELSE Append(decisions, Decision(CHOOSE p \in fresh : TRUE, "quarantined"))

\* Appending the decision reads the publication's content back.
Decide ==
    /\ pull.step = "decide"
    /\ \A p \in Offered(pull.op) : p \in held["B"] /\ made[p].bytes \in content["B"]
    /\ decisions' = Decided(pull.op)
    /\ pull' = [pull EXCEPT !.step = "decided"]
    /\ UNCHANGED <<plan, authored, now, made, held, content, cursors, bundles, preview, journal,
                   assessments, crashes>>

AfterDecisions(op) == IF journal[op].bundle.next = 0 THEN "cursor" ELSE "commit"

AdvanceDecisions ==
    /\ pull.step = "decided"
    /\ Advanced(pull.op, "decisions")
    /\ pull' = [pull EXCEPT !.step = AfterDecisions(pull.op)]
    /\ UNCHANGED <<plan, authored, now, made, held, content, cursors, bundles, preview,
                   assessments, decisions, crashes>>

\* Only the terminal page advances the cursor, once per operation: a retry
\* that finds other rows than the first attempt is an equivocation, and fails.
Achieved(op) == {n \in DOMAIN cursors["B"] : cursors["B"][n].op = op}

AchieveCursor ==
    LET mine == Cursor(Rows("B"), journal[pull.op].at, pull.op)
        earlier == Achieved(pull.op)
    IN  /\ pull.step = "cursor"
        /\ cursors' = IF earlier = {} THEN [cursors EXCEPT !["B"] = Append(@, mine)] ELSE cursors
        /\ pull' = IF \A n \in earlier : cursors["B"][n] = mine
                   THEN [pull EXCEPT !.step = "commit"] ELSE Idle
        /\ UNCHANGED <<plan, authored, now, made, held, content, bundles, preview, journal,
                       assessments, decisions, crashes>>

Commit ==
    LET j == journal[pull.op]
        achieved == IF j.bundle.next = 0 THEN CHOOSE n \in Achieved(pull.op) : TRUE
                    ELSE j.bundle.requester
    IN  /\ pull.step = "commit"
        /\ journal' = [journal EXCEPT
              ![pull.op].state = "committed",
              ![pull.op].result = [index |-> j.bundle.index, page |-> j.bundle.items,
                                   previous |-> j.bundle.previous, accepted |-> Landed(pull.op),
                                   start |-> j.bundle.requester, achieved |-> achieved]]
        /\ pull' = Idle
        /\ UNCHANGED <<plan, authored, now, made, held, content, cursors, bundles, preview,
                       assessments, decisions, crashes>>

Crash ==
    /\ pull.step # "idle" /\ crashes < plan.crashes
    /\ pull' = Idle /\ crashes' = crashes + 1
    /\ UNCHANGED <<plan, authored, now, made, held, content, cursors, bundles, preview, journal,
                   assessments, decisions>>

---------------------------------------------------------------------------
(* Review at the receiver *)

AppendAssessment(disposition) ==
    LET c == LaneHead(Claims(held["B"])) IN
    /\ pull.step = "idle" /\ cursors["B"] # <<>>
    /\ ClaimLane(held["B"], content["B"]) = "current" /\ Asserted(c)
    /\ assessments' = Append(assessments, [claim |-> c, disposition |-> disposition])
    /\ assessments # <<>> => assessments[Len(assessments)] # assessments'[Len(assessments')]
    /\ Len(assessments) < 2
    /\ UNCHANGED <<plan, authored, now, made, held, content, cursors, intake, decisions, crashes>>

Promote ==
    LET p == LaneHead(Publications(held["B"])) IN
    /\ pull.step = "idle" /\ cursors["B"] # <<>>
    /\ PublicationState(held["B"], content["B"]) = "published"
    /\ decisions # <<>> /\ LastDecision.decision = "quarantined"
    /\ Admitted
    /\ LastDecision.publication = p
    /\ decisions' = Append(decisions, Decision(p, "promoted"))
    /\ UNCHANGED <<plan, authored, now, made, held, content, cursors, intake, assessments, crashes>>

\* promotion_projection: is the promoted reference served as active?
ProjectionActive ==
    /\ decisions # <<>> /\ LastDecision.decision = "promoted"
    /\ PublicationState(held["B"], content["B"]) = "published"

---------------------------------------------------------------------------
Init ==
    /\ plan \in Plans /\ authored = 0 /\ now = 0 /\ made = <<>>
    /\ held = [h \in Hosts |-> {}]
    /\ content = [h \in Hosts |-> IF h = "A2" THEN plan.stock ELSE {}]
    /\ cursors = [h \in Hosts |-> <<>>]
    /\ bundles = {} /\ preview = <<>> /\ journal = <<>> /\ pull = Idle
    /\ assessments = <<>> /\ decisions = <<>> /\ crashes = 0

Next ==
    \/ \E h \in {"A", "A2"} : AppendClaim(h) \/ AppendPublication(h)
    \/ \E h, g \in Hosts : Sync(h, g)
    \/ Tick
    \/ \E h \in Hosts : CreateCursor(h)
    \/ Diff
    \/ \E b \in bundles : DiffNext(b) \/ Incoming(b)
    \/ Begin
    \/ \E op \in DOMAIN journal : Resume(op)
    \/ LandBlobs \/ LandEvents \/ Decide \/ AdvanceDecisions \/ AchieveCursor \/ Commit
    \/ Crash
    \/ \E disposition \in {"admitted", "rejected"} : AppendAssessment(disposition)
    \/ Promote

Spec == Init /\ [][Next]_vars

---------------------------------------------------------------------------
(* Properties *)

Terminal(op) == journal[op].bundle.next = 0 /\ journal[op].state = "committed"
Pages(request) == {n \in DOMAIN journal : journal[n].bundle.request = request}

\* A stage that is journalled has taken effect, and what a cursor covers has
\* its decision: effects come before the stage, and before the cursor.
StagesAreDurable ==
    \A op \in DOMAIN journal :
        LET rank == Ranks[journal[op].state] IN
        /\ rank >= 1 => Bytes(op) \subseteq content["B"]
        /\ rank >= 2 => Landed(op) \subseteq held["B"]
        /\ rank >= 3 \/ Achieved(op) # {} =>
              Offered(op) \subseteq {decisions[n].publication : n \in DOMAIN decisions}

\* When the terminal page of a diff is committed, the receiver has what the
\* frozen responder cursor offered: no page was skipped.
PagesLeaveNoHole ==
    \A op \in DOMAIN journal :
        LET rows == cursors["A"][journal[op].bundle.responder].rows IN
        /\ Terminal(op) /\ rows.state \in {"published", "tombstoned"}
        /\ \A n \in Pages(journal[op].bundle.request) :
              Landing(n) = DOMAIN journal[n].bundle.items
        => rows.publication \in held["B"]

\* A crash between a decision and its stage never yields a second decision.
DecidedOnce ==
    \A n \in 1 .. Len(decisions) - 1 :
        decisions[n].publication = decisions[n + 1].publication
        => decisions[n].decision = "quarantined" /\ decisions[n + 1].decision = "promoted"

\* pull() lands pages whole, in order and once, across crashes and whatever
\* ordinary synchronisation does beside it.
PullsLandWhole == StagesAreDurable /\ PagesLeaveNoHole /\ DecidedOnce

\* promote() rests on a review of exactly what is current: the last assessment
\* admits the claim under which the promoted publication was published, and
\* neither has been superseded, withdrawn or forked at the receiver.
PromotionsAreReviewed ==
    \A n \in DOMAIN decisions' \ DOMAIN decisions :
        decisions'[n].decision = "promoted" =>
          LET p == decisions'[n].publication
              c == made[p].claim
          IN  /\ assessments[Len(assessments)] = [claim |-> c, disposition |-> "admitted"]
              /\ \A i \in held["B"] \ {p, c} :
                   made[i].seq < made[IF made[i].kind = "claim" THEN c ELSE p].seq
              /\ made[p].action = "publish"
              /\ {made[p].bytes, made[c].bytes} \subseteq content["B"]
===========================================================================
