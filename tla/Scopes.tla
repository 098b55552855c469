------------------------------- MODULE Scopes -------------------------------
(***************************************************************************)
(* The signed fan-out of scope /me over the embodiments of one being       *)
(* (scopes.py).  The requester freezes one request, walks its targets one  *)
(* after the other, validates and journals what each one answers.  A       *)
(* responder serves every copy it receives in a thread of its own: it      *)
(* freezes the request, reads its own scope, signs an answer and stores it *)
(* as the one answer of that request.  Calls are lost, time out while the  *)
(* responder is still at work, and are repeated after the deadline; the    *)
(* manifest of an embodiment may move between a request and its retry.     *)
(***************************************************************************)
EXTENDS Naturals, FiniteSets

CONSTANTS
    Peers,        \* the other embodiments of the being
    Requests,     \* request identifiers
    Threads,      \* server threads of a responder
    Life,         \* deadline_ms - issued_at_ms
    MaxNow, MaxManifest, MaxWalks, MaxTroubles    \* bounds

Me == "me"
None == [kind |-> "none"]

VARIABLES
    now,        \* the clock, shared: skew is not modelled
    manifest,   \* per embodiment, the generation of its manifest
    heads,      \* per responder, what its own scope reads
    sent,       \* scope_requests, direction outbound
    inbound,    \* scope_requests, direction inbound: frozen flag and answer
    recorded,   \* scope_responses of the requester
    fan,        \* the walk of ScopeFanout.execute_exact
    serving,    \* the threads of serve_scope_request
    handed,     \* what the responder last handed out for a request
    walks, troubles

vars == <<now, manifest, heads, sent, inbound, recorded, fan, serving, handed,
          walks, troubles>>

Idle == [stage |-> "idle"]

Init ==
    /\ now = 0
    /\ manifest = [e \in Peers \cup {Me} |-> 1]
    /\ heads = [p \in Peers |-> 0]
    /\ sent = [r \in Requests |-> None]
    /\ inbound = [p \in Peers |-> [r \in Requests |->
                    [frozen |-> FALSE, answer |-> None]]]
    /\ recorded = [r \in Requests |-> [p \in Peers |-> None]]
    /\ fan = Idle
    /\ serving = [p \in Peers |-> [t \in Threads |-> Idle]]
    /\ handed = [p \in Peers |-> [r \in Requests |-> None]]
    /\ walks = 0
    /\ troubles = 0

Earlier(a, b) == IF a < b THEN a ELSE b
Trouble == troubles < MaxTroubles /\ troubles' = troubles + 1

-----------------------------------------------------------------------------
(* The requester *)

\* What the manifest binds a request and an answer to, and the deadline a
\* validation at time t still has to meet.
RequestHolds(request, owner, t) ==
    /\ request.manifest = manifest[owner]
    /\ t <= request.deadline

NewRequest(r) ==
    [kind |-> "request", id |-> r, manifest |-> manifest[Me],
     deadline |-> now + Life]

\* The walk over the active embodiments of the requester's topology.
Topology(request, available) ==
    [stage |-> "walking", request |-> request, left |-> Peers,
     available |-> available, outcomes |-> [p \in Peers |-> "pending"]]

\* execute_exact validates at the earlier of now and the deadline, so that a
\* retry after the deadline is allowed, and walks the targets again.
Walk(request, available) ==
    /\ fan = Idle
    /\ walks < MaxWalks
    /\ RequestHolds(request, Me, Earlier(now, request.deadline))
    /\ sent' = [sent EXCEPT ![request.id] = request]
    /\ fan' = Topology(request, available)
    /\ walks' = walks + 1
    /\ UNCHANGED <<now, manifest, heads, inbound, recorded, serving, handed, troubles>>

\* A new request under an identifier that is already frozen is refused
\* (scope_request_conflict) before anything is sent.
Execute(r, available) == sent[r] = None /\ Walk(NewRequest(r), available)

ExecuteExact(r, available) == sent[r] # None /\ Walk(sent[r], available)

MoveOn(p, outcome) ==
    fan' = [fan EXCEPT !.stage = "walking", !.left = @ \ {p},
                       !.outcomes[p] = outcome]

\* A target that the evidence calls unavailable, or one whose turn comes after
\* the deadline, is not called at all.
Skip(p) ==
    /\ fan.stage = "walking" /\ p \in fan.left
    /\ \/ p \notin fan.available /\ MoveOn(p, "unavailable")
       \/ /\ p \in fan.available /\ now > fan.request.deadline
          /\ MoveOn(p, "missing")
    /\ UNCHANGED <<now, manifest, heads, sent, inbound, recorded, serving,
                   handed, walks, troubles>>

\* The call reaches a thread of the responder.
Call(p, t) ==
    /\ fan.stage = "walking" /\ p \in fan.left \cap fan.available
    /\ now <= fan.request.deadline
    /\ serving[p][t].stage = "idle"
    /\ serving' = [serving EXCEPT ![p][t] =
                     [stage |-> "freeze", request |-> fan.request]]
    /\ fan' = [stage |-> "calling", request |-> fan.request, left |-> fan.left,
               available |-> fan.available, outcomes |-> fan.outcomes,
               target |-> p, thread |-> t]
    /\ UNCHANGED <<now, manifest, heads, sent, inbound, recorded, handed,
                   walks, troubles>>

Resume(p, outcome) ==
    fan' = [stage |-> "walking", request |-> fan.request,
            left |-> fan.left \ {p}, available |-> fan.available,
            outcomes |-> [fan.outcomes EXCEPT ![p] = outcome]]

\* The requester gives up on the call; the responder goes on.
GiveUp(outcome) ==
    /\ fan.stage = "calling"
    /\ Trouble
    /\ Resume(fan.target, outcome)
    /\ UNCHANGED <<now, manifest, heads, sent, inbound, recorded, serving,
                   handed, walks>>

AnswerBinds(answer, request) ==
    /\ answer.id = request.id
    /\ answer.manifest = request.manifest
    /\ answer.at <= request.deadline

\* INSERT OR IGNORE and a comparison: the first answer of a responder stays.
Recorded(r, p, answer) ==
    IF recorded[r][p] = None THEN answer ELSE recorded[r][p]

Answered(p, answer) ==
    LET r == fan.request.id
        kept == Recorded(r, p, answer)
        good == AnswerBinds(answer, fan.request)
    IN  IF ~good
        THEN Resume(p, "refused") /\ UNCHANGED recorded
        ELSE /\ recorded' = [recorded EXCEPT ![r][p] = kept]
             /\ Resume(p, IF kept = answer THEN answer.status ELSE "refused")

\* All targets have an outcome: the walk ends with its report.
Report ==
    /\ fan.stage = "walking" /\ fan.left = {}
    /\ fan' = Idle
    /\ UNCHANGED <<now, manifest, heads, sent, inbound, recorded, serving,
                   handed, walks, troubles>>

-----------------------------------------------------------------------------
(* The responder *)

Ends(p, t, result) ==
    serving' = [serving EXCEPT ![p][t] =
        [stage |-> "reply", request |-> @.request, result |-> result]]

Refusal(code) == [kind |-> "error", code |-> code]

\* serve_scope_request up to the cached answer: validated at the earlier of now
\* and the deadline, frozen, and answered from the journal when it can be.
Freeze(p, t) ==
    LET task == serving[p][t]
        request == task.request
        row == inbound[p][request.id]
    IN  /\ task.stage = "freeze"
        /\ IF ~RequestHolds(request, p, Earlier(now, request.deadline))
           THEN /\ Ends(p, t, Refusal("scope_authority_mismatch"))
                /\ UNCHANGED inbound
           ELSE /\ inbound' = [inbound EXCEPT ![p][request.id].frozen = TRUE]
                /\ IF row.answer # None THEN Ends(p, t, row.answer)
                   ELSE IF now > request.deadline
                   THEN Ends(p, t, Refusal("scope_request_expired"))
                   ELSE serving' = [serving EXCEPT ![p][t].stage = "compute"]
        /\ UNCHANGED <<now, manifest, heads, sent, recorded, fan, handed,
                       walks, troubles>>

\* create_scope_response reads the clock again.  Past the deadline it raises
\* scope_request_expired, and so does the refusal the handler then tries to
\* sign; a rejected or oversized body snapshot becomes a signed refusal, and
\* one that cannot be read leaves the request without an answer.
Compute(p, t, status) ==
    LET task == serving[p][t]
        request == task.request
    IN  /\ task.stage = "compute"
        /\ IF status = "responded" THEN UNCHANGED troubles ELSE Trouble
        /\ IF status = "unavailable"
           THEN Ends(p, t, Refusal("body_snapshot_unavailable"))
           ELSE IF RequestHolds(request, p, now)
           THEN serving' = [serving EXCEPT ![p][t] =
                  [stage |-> "cache", request |-> request,
                   answer |-> [kind |-> "answer", id |-> request.id,
                               manifest |-> manifest[p], at |-> now,
                               heads |-> heads[p], status |-> status]]]
           ELSE Ends(p, t, Refusal("scope_request_expired"))
        /\ UNCHANGED <<now, manifest, heads, sent, inbound, recorded, fan,
                       handed, walks>>

\* The answer a second answer of the same request meets in the journal.
Cached(row, answer) == IF row.answer = None THEN answer ELSE row.answer

CacheInbound(p, t) ==
    LET task == serving[p][t]
        r == task.request.id
        kept == Cached(inbound[p][r], task.answer)
    IN  /\ task.stage = "cache"
        /\ inbound' = [inbound EXCEPT ![p][r].answer = kept]
        /\ Ends(p, t, IF kept = task.answer THEN kept
                      ELSE Refusal("scope_response_conflict"))
        /\ UNCHANGED <<now, manifest, heads, sent, recorded, fan, handed,
                       walks, troubles>>

\* The thread ends; its result reaches the walk when it still waits for it.
Reply(p, t) ==
    LET task == serving[p][t]
        awaited == fan.stage = "calling" /\ fan.target = p /\ fan.thread = t
    IN  /\ task.stage = "reply"
        /\ serving' = [serving EXCEPT ![p][t] = Idle]
        /\ handed' = IF task.result.kind = "answer"
                     THEN [handed EXCEPT ![p][task.request.id] = task.result]
                     ELSE handed
        /\ IF ~awaited THEN UNCHANGED <<fan, recorded>>
           ELSE IF task.result.kind = "error"
           THEN Resume(p, "refused") /\ UNCHANGED recorded
           ELSE Answered(p, task.result)
        /\ UNCHANGED <<now, manifest, heads, sent, inbound, walks, troubles>>

-----------------------------------------------------------------------------
(* Time, change and failure *)

Tick ==
    /\ now < MaxNow /\ now' = now + 1
    /\ UNCHANGED <<manifest, heads, sent, inbound, recorded, fan, serving,
                   handed, walks, troubles>>

AdoptManifest(e) ==
    /\ Trouble
    /\ manifest[e] < MaxManifest
    /\ manifest' = [manifest EXCEPT ![e] = @ + 1]
    /\ UNCHANGED <<now, heads, sent, inbound, recorded, fan, serving, handed, walks>>

Change(p) ==
    /\ Trouble
    /\ heads' = [heads EXCEPT ![p] = 1 - @]
    /\ UNCHANGED <<now, manifest, sent, inbound, recorded, fan, serving, handed, walks>>

\* Only the journals outlive a process.
Crash(e) ==
    /\ Trouble
    /\ \/ e = Me /\ fan # Idle /\ fan' = Idle /\ UNCHANGED serving
       \/ /\ e \in Peers
          /\ serving[e] # [t \in Threads |-> Idle]
          /\ serving' = [serving EXCEPT ![e] = [t \in Threads |-> Idle]]
          /\ IF fan.stage = "calling" /\ fan.target = e
             THEN Resume(e, "unavailable") ELSE UNCHANGED fan
    /\ UNCHANGED <<now, manifest, heads, sent, inbound, recorded, handed, walks>>

Next ==
    \/ \E r \in Requests, available \in SUBSET Peers :
          Execute(r, available) \/ ExecuteExact(r, available)
    \/ \E p \in Peers : Skip(p) \/ Change(p)
    \/ \E p \in Peers, t \in Threads :
          Call(p, t) \/ Freeze(p, t) \/ CacheInbound(p, t) \/ Reply(p, t)
    \/ \E p \in Peers, t \in Threads, status \in {"responded", "refused", "unavailable"} :
          Compute(p, t, status)
    \/ \E outcome \in {"missing", "unavailable"} : GiveUp(outcome)
    \/ \E e \in Peers \cup {Me} : AdoptManifest(e) \/ Crash(e)
    \/ Report \/ Tick

Spec == Init /\ [][Next]_vars

-----------------------------------------------------------------------------
\* A responder has one answer per request: what the requester journalled, what
\* the walk reports and what any thread ever handed out, before or after the
\* deadline, is the answer the responder keeps, and it was made in time
\* (scopes.py: freeze_request, cache_inbound_response, record_response).
OneAnswerPerResponder ==
    \A r \in Requests, p \in Peers :
        LET kept == inbound[p][r].answer
        IN  /\ handed[p][r] \in {None, kept}
            /\ recorded[r][p] \in {None, kept}
            /\ kept # None => AnswerBinds(kept, sent[r])
            /\ fan # Idle /\ fan.request.id = r /\ fan.outcomes[p] = "responded"
                 => recorded[r][p] = kept /\ kept.status = "responded"
=============================================================================
