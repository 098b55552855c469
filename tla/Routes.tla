-------------------------------- MODULE Routes --------------------------------
(***************************************************************************)
(* Carrying the legs of Communication (routes.py): RouteCoordinator tries  *)
(* the configured routes in order, AuthenticatedProvider sends a request   *)
(* over each, and where a route ends TransportIngress and OpaqueInbox take *)
(* the bytes in once, keep the answer to every request, and let consumers  *)
(* lease, acknowledge and compact what was taken in.                       *)
(*                                                                         *)
(* The routes of one recipient are modelled. Those of Hubs end at a hub,   *)
(* which keeps the bytes unread in an inbox of its own and answers         *)
(* "hub-accepted"; a consumer of that inbox may carry them on to the       *)
(* recipient, whose own inbox admits only what its validator accepts.      *)
(* A request may be handled after its sender gave up, and an answer may be *)
(* lost. The egress gate either lets the bytes pass or refuses them.       *)
(***************************************************************************)
EXTENDS Communication

CONSTANTS
    Threads,       \* threads of the sender that may dispatch at the same time
    Envelopes,     \* sealed deliveries: [id, bytes, msg]
    Unavailable,   \* routes whose provider is configured unavailable
    Deadlines,     \* deadlines callers choose
    Refused,       \* envelopes the recipient's intake validator refuses
    RouteRefs,     \* routes to the recipient
    Hubs,          \* those of route class hub
    Home,          \* where all other routes end: the recipient
    Carrying       \* bounds: plan |-> dispatches, inbox claims, forwarded requests, threads,
                   \* routes in the order of the profile, envelopes and deadlines of it

ASSUME CarryingAssumption ==
    Carrying \in [Plans -> [calls: Nat, claims: Nat, forwards: Nat, threads: SUBSET Threads,
                            routes: Seq(RouteRefs), envelopes: SUBSET Envelopes,
                            deadlines: SUBSET Deadlines]]
ASSUME HubAssumption == Home \notin RouteRefs
Answers == [status: {"accepted", "refused"},
            outcome: {"recipient-intake", "hub-accepted", "refused"}, seq: Nat, at: Nat]
ASSUME AnswerAssumption == None \notin {"unavailable"} \cup Answers
ASSUME RowAssumption ==
    None \notin [bytes: {e.bytes : e \in Envelopes}, seq: Nat, at: Nat, state: {"pending", "acked"},
                 consumer: Consumers \cup {None}, until: Nat]

VARIABLES
    call,          \* the dispatch of each thread
    calls,         \* dispatches begun
    wire,          \* requests written, with what became of each
    inbox,         \* inbox_items of each host by delivery id: by <<host, id>>
    tombs,         \* inbox_tombstones, likewise
    answers,       \* inbox_requests by attempt
    leases,        \* inbox_claims: what each claim was given
    nextSeq        \* inbox_meta of each host

recipient == <<inbox, tombs, answers, leases, nextSeq>>
rvars == <<call, calls, wire, recipient>>
vars == <<cvars, rvars>>

Idle == [pc |-> "idle", leg |-> None, env |-> None, deadline |-> 0, todo |-> << >>,
         conn |-> 0]
bounds == Carrying[plan]

\* The inboxes: the one of each hub and the recipient's own.
Host(r) == IF r \in Hubs THEN r ELSE Home
Hosts == {Host(r) : r \in RouteRefs}

Init ==
    /\ CInit
    /\ call = [t \in Threads |-> Idle] /\ calls = 0
    /\ wire = << >>
    /\ inbox = << >> /\ tombs = << >> /\ answers = << >> /\ leases = << >>
    /\ nextSeq = [h \in Hosts |-> 1]

At(t, pc) == call[t].pc = pc

\* The process that dies takes its dispatches with it.
Onwards(t, c) ==
    call' = IF crashes' > crashes THEN [u \in Threads |-> Idle]
            ELSE [call EXCEPT ![t] = c]
Then(t, pc) == Onwards(t, [call[t] EXCEPT !.pc = pc])
Fail(t) == call' = [call EXCEPT ![t] = Idle]

\* The next route, or the end of the list.
After(t) ==
    IF Len(call[t].todo) = 1 THEN Idle
    ELSE [call[t] EXCEPT !.pc = "attempt", !.todo = Tail(@), !.conn = 0]

\* An attempt id is uuid5 of leg, delivery, route and deadline.
Attempt(t) ==
    [leg |-> call[t].leg, delivery |-> call[t].env.id, route |-> Head(call[t].todo),
     deadline |-> call[t].deadline]

\* prepare_submission stamps the request with the clock.
Prepared(a, e, at) == [attempt |-> a, bytes |-> e.bytes, issued |-> at]

-----------------------------------------------------------------------------
(* The sender: dispatch. *)

Dispatch(t, l, e, d) ==
    /\ At(t, "idle")
    /\ Begin
    /\ calls < bounds.calls
    /\ bounds.routes # << >>
    /\ d > now
    /\ l \in DOMAIN db.legs /\ db.legs[l].state = "accepted"
    /\ e.msg = l[1]
    /\ calls' = calls + 1
    /\ call' = [call EXCEPT ![t] = [pc |-> "attempt", leg |-> l, env |-> e, deadline |-> d,
                                    todo |-> bounds.routes, conn |-> 0]]
    /\ UNCHANGED <<cvars, wire, recipient>>

NewAttempt(t) ==
    /\ Attempt(t) \notin DOMAIN db.attempts
    /\ db.legs[call[t].leg].state = "accepted"
    /\ call[t].deadline > now

\* _admit_route_egress: a known attempt comes with the request stored with it.
SameEgress(a, request) == a \in DOMAIN db.attempts /\ db.egress[a] = request

\* record_attempt with its egress request.
RecordAttempt(t) ==
    LET a == Attempt(t)
        request == Prepared(a, call[t].env, now)
    IN
    /\ At(t, "attempt")
    /\ Begin
    /\ IF NewAttempt(t)
       THEN /\ Mutate([db EXCEPT
                  !.attempts = Put(@, a, [state |-> "accepted", ack |-> None]),
                  !.egress = Put(@, a, request)])
            /\ Then(t, "delivery")
       ELSE /\ IF SameEgress(a, request)
               THEN call' = [call EXCEPT ![t].pc = "delivery"] ELSE Fail(t)
            /\ UNCHANGED cvars
    /\ UNCHANGED <<calls, wire, recipient>>

\* record_delivery: one delivery id names one leg and one byte string; anything
\* else quarantines the legs of both.
RecordDelivery(t) ==
    LET a == Attempt(t)
        e == call[t].env
        was == db.deliveries[e.id]
    IN
    /\ At(t, "delivery")
    /\ Begin
    /\ IF e.id \notin DOMAIN db.deliveries
       THEN /\ Mutate([db EXCEPT !.deliveries = Put(@, e.id, [attempt |-> a, bytes |-> e.bytes])])
            /\ Then(t, "send")
       ELSE IF was.attempt.leg = a.leg /\ was.bytes = e.bytes
       THEN call' = [call EXCEPT ![t].pc = "send"] /\ UNCHANGED cvars
       ELSE LET next == Quarantined(db, {a.leg}, {}, {a, was.attempt})
                both == [next EXCEPT !.legs[was.attempt.leg].state = "quarantined"]
            IN IF Valid(both) THEN Mutate(both) /\ Onwards(t, Idle)
               ELSE Fail(t) /\ UNCHANGED cvars
    /\ UNCHANGED <<calls, wire, recipient>>

\* record_route_ack
RouteAck(a, state, ack) ==
    IF db.attempts[a].state = "accepted"
    THEN Mutate([db EXCEPT !.attempts = Put(@, a, [state |-> state, ack |-> ack])])
    ELSE UNCHANGED cvars

\* Whether record_route_ack refuses: another ack is already stored.
AckConflicts(a, state, ack) ==
    db.attempts[a].state # "accepted" /\ db.attempts[a] # [state |-> state, ack |-> ack]

\* send_prepared to a provider that is configured unavailable.
SendUnavailable(t) ==
    LET a == Attempt(t) IN
    /\ At(t, "send") /\ a.route \in Unavailable
    /\ now < a.deadline
    /\ Begin
    /\ RouteAck(a, "route-failed", "unavailable")
    /\ IF AckConflicts(a, "route-failed", "unavailable") THEN Fail(t) ELSE Onwards(t, After(t))
    /\ UNCHANGED <<calls, wire, recipient>>

\* send_prepared writes the stored bytes.
Send(t) ==
    LET a == Attempt(t) IN
    /\ At(t, "send") /\ a.route \notin Unavailable
    /\ now < a.deadline
    /\ wire' = Append(wire, [request |-> db.egress[a], to |-> a.route, env |-> call[t].env,
                             state |-> "sent", response |-> None])
    /\ call' = [call EXCEPT ![t].pc = "await", ![t].conn = Len(wire) + 1]
    /\ UNCHANGED <<cvars, calls, recipient>>

\* The request has expired, or the egress gate refuses: no fallback.
SendRefused(t) ==
    /\ At(t, "send")
    /\ Fail(t)
    /\ UNCHANGED <<cvars, calls, wire, recipient>>

\* A timeout or a lost connection: the next route is tried, and the request may
\* still arrive.
GiveUp(t) ==
    /\ At(t, "await")
    /\ call' = [call EXCEPT ![t] = After(t)]
    /\ UNCHANGED <<cvars, calls, wire, recipient>>

\* validate_prepared_response and the end of dispatch: accepted and refused
\* both stop the chain.
Receive(t) ==
    LET a == Attempt(t)
        i == call[t].conn
        response == wire[i].response
        state == IF response.status = "accepted" THEN "route-acked" ELSE "route-failed"
    IN
    /\ At(t, "await") /\ wire[i].state = "handled"
    /\ Begin
    /\ RouteAck(a, state, response)
    /\ wire' = [wire EXCEPT ![i].state = "received"]
    /\ Onwards(t, Idle)
    /\ UNCHANGED <<calls, recipient>>

-----------------------------------------------------------------------------
(* Where a route ends: TransportIngress.handle and OpaqueInbox. *)

\* The row that already stands for a delivery in an inbox.
RowAt(p) ==
    CASE p \in DOMAIN inbox -> inbox[p]
      [] p \in DOMAIN tombs -> tombs[p]
      [] OTHER -> None

\* A hub's consumer submits what a claim gave it over a route of the recipient,
\* as a request of its own. The claim keeps the bytes, so it may do so late.
Forward(k, p, e, r, d) ==
    /\ p \in leases[k].items /\ p[1] \in Hubs
    /\ e.id = p[2] /\ e.bytes = RowAt(p).bytes
    /\ r \notin Hubs /\ d > now
    /\ Cardinality({i \in DOMAIN wire : wire[i].request.attempt.leg = None}) < bounds.forwards
    /\ wire' = Append(wire,
                 [request |-> Prepared([leg |-> None, delivery |-> e.id, route |-> r,
                                        deadline |-> d], e, now),
                  to |-> r, env |-> e, state |-> "sent", response |-> None])
    /\ UNCHANGED <<cvars, call, calls, recipient>>

Handled(i, response) ==
    wire' = [wire EXCEPT ![i].state = "handled", ![i].response = response]

\* The inbox a request comes to, and the delivery there.
Place(i) == <<Host(wire[i].to), wire[i].env.id>>

\* A request that comes too late is rejected without an answer.
Rejected(i) == now >= wire[i].request.attempt.deadline

\* Only the recipient opens what comes; a hub has no intake validator.
Unwelcome(i) == Host(wire[i].to) = Home /\ wire[i].env \in Refused

\* The request id of an attempt is bound to the first request that used it.
RequestConflict(i) ==
    LET a == wire[i].request.attempt IN
    a \in DOMAIN answers /\ answers[a].request # wire[i].request

\* Mutant: a repeated delivery is answered with the time of the repetition.
AcceptedNow(p, row) ==
    [status |-> "accepted", outcome |-> IF p[1] = Home THEN "recipient-intake" ELSE "hub-accepted",
     seq |-> row.seq, at |-> now]

\* What every accepted answer about a delivery says of it, and of who holds it.
Accepted(p, row) ==
    [status |-> "accepted", outcome |-> IF p[1] = Home THEN "recipient-intake" ELSE "hub-accepted",
     seq |-> row.seq, at |-> row.at]

RefusedAnswer == [status |-> "refused", outcome |-> "refused", seq |-> 0, at |-> 0]

\* ingest: the bytes are taken in once, and the answer is stored with the
\* request in the same transaction.
Ingest(i) ==
    LET p == Place(i)
        e == wire[i].env
        a == wire[i].request.attempt
        row == IF RowAt(p) # None THEN RowAt(p)
               ELSE [bytes |-> e.bytes, seq |-> nextSeq[p[1]], at |-> now, state |-> "pending",
                     consumer |-> None, until |-> 0]
    IN
    /\ wire[i].state = "sent" /\ ~Rejected(i)
    /\ ~Unwelcome(i) /\ ~RequestConflict(i)
    /\ row.bytes = e.bytes
    /\ a \in DOMAIN answers => answers[a].response = Accepted(p, row)
    /\ answers' = Put(answers, a, [request |-> wire[i].request, place |-> p,
                                   response |-> Accepted(p, row)])
    /\ IF RowAt(p) = None
       THEN inbox' = Put(inbox, p, row) /\ nextSeq' = [nextSeq EXCEPT ![p[1]] = @ + 1]
       ELSE UNCHANGED <<inbox, nextSeq>>
    /\ Handled(i, Accepted(p, row))
    /\ UNCHANGED <<cvars, call, calls, tombs, leases>>

\* handle_deferred: a request that intake refuses is answered so for good; one
\* whose id is bound to another request or answer gets no answer at all.
Refuse(i) ==
    LET p == Place(i)
        a == wire[i].request.attempt
        wrong == Unwelcome(i) \/ (RowAt(p) # None /\ RowAt(p).bytes # wire[i].env.bytes)
    IN
    /\ wire[i].state = "sent" /\ ~Rejected(i)
    /\ wrong \/ RequestConflict(i)
    /\ IF a \in DOMAIN answers /\ (RequestConflict(i) \/ answers[a].response # RefusedAnswer)
       THEN wire' = [wire EXCEPT ![i].state = "lost"] /\ UNCHANGED answers
       ELSE /\ answers' = Put(answers, a, [request |-> wire[i].request, place |-> p,
                                           response |-> RefusedAnswer])
            /\ Handled(i, RefusedAnswer)
    /\ UNCHANGED <<cvars, call, calls, inbox, tombs, leases, nextSeq>>

Reject(i) ==
    /\ wire[i].state = "sent" /\ Rejected(i)
    /\ wire' = [wire EXCEPT ![i].state = "lost"]
    /\ UNCHANGED <<cvars, call, calls, recipient>>

Free(d) == inbox[d].state = "pending" /\ inbox[d].until <= now

\* OpaqueInbox.claim
InboxClaim(h, c, until, limit) ==
    LET free == {d \in DOMAIN inbox : d[1] = h /\ Free(d)}
        items == {d \in free : inbox[d].seq \in First({inbox[x].seq : x \in free}, limit)}
    IN
    /\ Cardinality(DOMAIN leases) < bounds.claims
    /\ until > now /\ items # {}
    /\ inbox' = [d \in DOMAIN inbox |->
                    IF d \in items THEN [inbox[d] EXCEPT !.consumer = c, !.until = until]
                    ELSE inbox[d]]
    /\ leases' = Put(leases, Cardinality(DOMAIN leases) + 1,
                     [consumer |-> c, items |-> items, until |-> until])
    /\ UNCHANGED <<cvars, call, calls, wire, tombs, answers, nextSeq>>

\* OpaqueInbox.ack: by the consumer that last claimed the row, its lease run
\* out or not.
InboxAck(c, d) ==
    /\ d \in DOMAIN inbox
    /\ inbox[d].consumer = c /\ inbox[d].state = "pending"
    /\ inbox' = [inbox EXCEPT ![d].state = "acked", ![d].until = 0]
    /\ UNCHANGED <<cvars, call, calls, wire, tombs, answers, leases, nextSeq>>

Tombstones(gone) ==
    [d \in DOMAIN tombs \cup gone |-> IF d \in DOMAIN tombs THEN tombs[d] ELSE inbox[d]]

\* OpaqueInbox.compact: an acknowledged prefix becomes tombstones.
InboxCompact(h, s) ==
    LET gone == {d \in DOMAIN inbox : d[1] = h /\ inbox[d].seq <= s} IN
    /\ gone # {}
    /\ \A d \in gone : inbox[d].state = "acked"
    /\ tombs' = Tombstones(gone)
    /\ inbox' = Without(inbox, gone)
    /\ UNCHANGED <<cvars, call, calls, wire, answers, leases, nextSeq>>

-----------------------------------------------------------------------------

\* A step of the store that no dispatch takes.
StoreStep ==
    /\ CNext
    /\ call' = IF crashes' > crashes THEN [t \in Threads |-> Idle] ELSE call
    /\ UNCHANGED <<calls, wire, recipient>>

Exchange(i) == Ingest(i) \/ Refuse(i) \/ Reject(i)

DispatchStep(t) ==
    \/ RecordAttempt(t) \/ RecordDelivery(t)
    \/ SendUnavailable(t) \/ Send(t) \/ SendRefused(t)
    \/ GiveUp(t) \/ Receive(t)

Next ==
    \/ StoreStep
    \/ \E t \in bounds.threads :
          \/ \E l \in DOMAIN db.legs, e \in bounds.envelopes, d \in bounds.deadlines :
                Dispatch(t, l, e, d)
          \/ DispatchStep(t)
    \/ \E i \in DOMAIN wire : Exchange(i)
    \/ \E k \in DOMAIN leases, e \in bounds.envelopes, d \in bounds.deadlines :
          \E p \in leases[k].items, j \in DOMAIN bounds.routes :
             Forward(k, p, e, bounds.routes[j], d)
    \/ \E h \in Hosts, c \in plan.consumers, until \in 1..plan.time + 1, n \in plan.limits :
          InboxClaim(h, c, until, n)
    \/ \E c \in plan.consumers, d \in DOMAIN inbox : InboxAck(c, d)
    \/ \E h \in Hosts : \E s \in 1..nextSeq[h] : InboxCompact(h, s)

Spec == Init /\ [][Next]_vars

-----------------------------------------------------------------------------
(* What the tables and the carriers are. *)

TypeOK ==
    /\ plan \in Plans /\ now \in 0..plan.time /\ crashes \in 0..plan.crashes
    /\ known.messages \subseteq Messages /\ known.receipts \subseteq Receipts
    /\ db.counter \in 0..plan.ops /\ anchor \in {db.counter, db.counter + 1}
    /\ Valid(db) /\ ValidHistories(db)
    /\ db.queue \subseteq 1..db.highwater
    /\ \A t \in Threads : At(t, "await") => call[t].conn \in DOMAIN wire
    /\ \A h \in Hosts :
          nextSeq[h] = Cardinality({p \in DOMAIN inbox \cup DOMAIN tombs : p[1] = h}) + 1

\* An inbox takes the bytes of a delivery in once: over all routes that end there,
\* retries, deadlines, compactions and what a hub carried on, every accepted answer
\* about it gives one position and time.
TakenInOnce ==
    \A a, b \in DOMAIN answers :
        (answers[a].place = answers[b].place /\ answers[a].response.status = "accepted"
            /\ answers[b].response.status = "accepted") =>
            answers[a].response = answers[b].response

\* What a sender recorded as route-acked is in an inbox, or was there and
\* acknowledged, with the bytes that were sent: in the recipient's own only when
\* the sender was told "recipient-intake", and in the hub's that it was sent to
\* when it was told "hub-accepted", which says nothing of the recipient.
AckedIsTaken ==
    \A a \in DOMAIN db.attempts :
        db.attempts[a].state = "route-acked" =>
            LET p == <<Host(a.route), a.delivery>> IN
            /\ RowAt(p) # None /\ RowAt(p).bytes = db.deliveries[a.delivery].bytes
            /\ db.attempts[a].ack.outcome = "recipient-intake" <=> p[1] = Home

\* The recipient's inbox holds only what its validator accepts, although a hub
\* keeps whatever comes and its consumer carries it on.
IntakeIsValidated ==
    \A p \in DOMAIN inbox \cup DOMAIN tombs :
        p[1] = Home => \E e \in Envelopes \ Refused : e.id = p[2] /\ e.bytes = RowAt(p).bytes

\* Two inbox claims whose leases both run hold no pending row in common.
InboxClaimsAreDisjoint ==
    \A k1, k2 \in DOMAIN leases :
        (k1 # k2 /\ leases[k1].until > now /\ leases[k2].until > now) =>
            leases[k1].items \cap leases[k2].items = {}

\* The sender's store: it restarts clean after a crash, what a consumer took is
\* settled, and competing receipts are quarantined.
StoreHolds ==
    TypeOK /\ RestartsClean /\ ConsumedIsSettled /\ CompetingReceiptsQuarantine

\* The way of a message: pages leave no gap, claims exclude each other on both
\* sides, an inbox takes it in once and before it is acknowledged as held there,
\* and what a hub accepted is no intake of the recipient.
DeliveryHolds ==
    /\ PagesLeaveNoGap /\ ClaimsAreDisjoint
    /\ TakenInOnce /\ AckedIsTaken /\ IntakeIsValidated /\ InboxClaimsAreDisjoint
=============================================================================
