-------------------------------- MODULE WeLane --------------------------------
(***************************************************************************)
(* One being's embodiments talk to each other (we_messaging.py) over       *)
(* direct peer calls (peer_transport.py): the author's ledger and outbox,  *)
(* the sibling's exchange store and ledger, and the HTTP exchanges between *)
(* them (daemon.py).                                                       *)
(*                                                                         *)
(* Every step is one SQLite transaction or one transmission. A request may *)
(* arrive after its caller gave up, an answer may be lost, and both hosts  *)
(* may crash. The egress gate of Egress is here a choice: it lets the      *)
(* bytes pass or refuses them. Encryption, signatures and the hosts' clock *)
(* are taken to be right; the clock is one for both.                       *)
(***************************************************************************)
EXTENDS Naturals, Sequences, FiniteSets

CONSTANTS
    Requests,      \* request ids of we.converse
    Texts,         \* what a caller may ask to say
    Siblings,      \* the embodiments a message is addressed to
    Threads,       \* threads of the author that may converse at the same time
    CarrierSecs,   \* WE_CONVERSE_DEADLINE_MS
    LeaseSecs,     \* lease_ms of PeerExchangeStore.begin
    SealSecs,      \* ttl_ms of converse
    None,
    MaxTime,       \* bound: the last instant
    Plans          \* bounds: each behaviour keeps to one of these (see Plan)

ASSUME SecsAssumption ==
    CarrierSecs \in Nat \ {0} /\ LeaseSecs \in Nat \ {0} /\ SealSecs \in Nat \ {0}
\* What a behaviour may use: threads, siblings and texts, the last instant, the
\* number of HTTP exchanges and of crashes.
Plan ==
    [threads: SUBSET Threads, siblings: SUBSET Siblings, texts: SUBSET Texts,
     time: 0..MaxTime, conns: Nat, crashes: Nat]
ASSUME BoundsAssumption == MaxTime \in Nat /\ Plans \subseteq Plan
ASSUME NoneAssumption ==
    /\ None \notin Texts \cup Siblings \cup Threads \cup Requests \cup Nat
    /\ None \notin [by: Threads, expires: Nat] /\ None # "ok"

VARIABLES
    plan,          \* the bounds of this behaviour
    now,           \* the clock
    said,          \* the author's ledger: the message of a request
    resolved,      \* the author's ledger: requests with a resolution
    sealed,        \* the author's RPC journal: the sealed payload of a request
    carriers,      \* peer_outbox_carriers, per request and sibling, by generation
    kept,          \* receipts the author retained, per request and sibling
    thread,        \* the author's threads
    conns,         \* HTTP exchanges, in order of transmission
    exchanges,     \* peer_exchanges of each sibling, by envelope
    effects,       \* peer_exchange_effects of each sibling, by correlation id
    evidence,      \* messages each sibling retained
    receipts,      \* the sibling's ledger: the instant its receipt was authored
    crashes

clock == <<plan, now>>
author == <<said, resolved, sealed, carriers, kept>>
sibling == <<exchanges, effects, evidence, receipts>>
vars == <<clock, author, thread, conns, sibling, crashes>>

MaxConn == CHOOSE n \in {p.conns : p \in Plans} : \A p \in Plans : p.conns <= n

Idle == [pc |-> "idle", req |-> None, text |-> None, payload |-> None, todo |-> {},
         to |-> None, conn |-> None]

\* An envelope id is uuid5 of the logical request and the generation.
Envelope(r, s, g) == [req |-> r, sib |-> s, gen |-> g]
NoRow == [state |-> "none", claim |-> None, lease |-> 0, response |-> None]

Row(env) ==
    IF env \in DOMAIN exchanges THEN exchanges[env] ELSE NoRow

Init ==
    /\ plan \in Plans
    /\ now = 0
    /\ said = [r \in Requests |-> None] /\ resolved = {}
    /\ sealed = [r \in Requests |-> None]
    /\ carriers = [r \in Requests |-> [s \in Siblings |-> << >>]]
    /\ kept = [r \in Requests |-> [s \in Siblings |-> None]]
    /\ thread = [t \in Threads |-> Idle]
    /\ conns = << >>
    /\ exchanges = << >>
    /\ effects = [r \in Requests |-> [s \in Siblings |-> None]]
    /\ evidence = [s \in Siblings |-> {}]
    /\ receipts = [r \in Requests |-> [s \in Siblings |-> None]]
    /\ crashes = 0

Tick ==
    /\ now < plan.time
    /\ now' = now + 1
    /\ UNCHANGED <<plan, author, thread, conns, sibling, crashes>>

-----------------------------------------------------------------------------
(* The author: converse. *)

At(t, pc) == thread[t].pc = pc
Goto(t, pc) == thread' = [thread EXCEPT ![t].pc = pc]

\* converse begins: the audience is resolved and every sibling is to be told.
Converse(t, r, x) ==
    /\ At(t, "idle")
    /\ Len(conns) < plan.conns
    /\ thread' = [thread EXCEPT ![t] =
          [Idle EXCEPT !.pc = "author", !.req = r, !.text = x, !.todo = plan.siblings]]
    /\ UNCHANGED <<clock, author, conns, sibling, crashes>>

\* _author of the message: the first text of a request id is the one said.
AuthorMessage(t) ==
    LET r == thread[t].req IN
    /\ At(t, "author")
    /\ IF said[r] \in {None, thread[t].text}
       THEN /\ said' = [said EXCEPT ![r] = thread[t].text]
            /\ Goto(t, "resolve")
       ELSE /\ thread' = [thread EXCEPT ![t] = Idle]
            /\ UNCHANGED said
    /\ UNCHANGED <<clock, resolved, sealed, carriers, kept, conns, sibling, crashes>>

AuthorResolution(t) ==
    /\ At(t, "resolve")
    /\ resolved' = resolved \cup {thread[t].req}
    /\ Goto(t, "begin")
    /\ UNCHANGED <<clock, said, sealed, carriers, kept, conns, sibling, crashes>>

\* seal_we_message: every sealing is randomized, so no two are the same.
SealedBy(t) == [by |-> t, expires |-> now + SealSecs]

\* open_we_conversation: a sealed payload opens until it expires.
OpensConversation(payload) == now < payload.expires

\* open_peer_payload: an envelope opens from its issue until it expires.
OpensEnvelope(bytes) == bytes.issued <= now /\ now < bytes.expires

\* begin_rpc: a saved payload, or an envelope sealed afresh.
BeginSeal(t) ==
    LET r == thread[t].req IN
    /\ At(t, "begin")
    /\ thread' = [thread EXCEPT ![t].pc = IF sealed[r] = None THEN "save" ELSE "open",
                                ![t].payload = IF sealed[r] = None
                                               THEN SealedBy(t)
                                               ELSE sealed[r]]
    /\ UNCHANGED <<clock, author, conns, sibling, crashes>>

\* Mutant: the finisher goes on with the envelope it sealed.
FinishSealOwn(t) ==
    LET r == thread[t].req IN
    /\ At(t, "save")
    /\ sealed' = IF sealed[r] = None THEN [sealed EXCEPT ![r] = thread[t].payload] ELSE sealed
    /\ thread' = [thread EXCEPT ![t].pc = "open"]
    /\ UNCHANGED <<clock, said, resolved, carriers, kept, conns, sibling, crashes>>

\* finish_rpc: the first envelope is kept and a concurrent finisher reuses it.
FinishSeal(t) ==
    LET r == thread[t].req IN
    /\ At(t, "save")
    /\ sealed' = IF sealed[r] = None THEN [sealed EXCEPT ![r] = thread[t].payload] ELSE sealed
    /\ thread' = [thread EXCEPT ![t].pc = "open", ![t].payload = sealed'[r]]
    /\ UNCHANGED <<clock, said, resolved, carriers, kept, conns, sibling, crashes>>

\* The saved payload is opened before it is sent; an expired one is never
\* sealed again, so the call fails for good.
OpenSaved(t) ==
    /\ At(t, "open")
    /\ thread' = [thread EXCEPT ![t] =
          IF OpensConversation(@.payload) THEN [@ EXCEPT !.pc = "carry"] ELSE Idle]
    /\ UNCHANGED <<clock, author, conns, sibling, crashes>>

LiveCarrier(r, s) ==
    LET c == carriers[r][s] IN Len(c) > 0 /\ now < c[Len(c)].expires

\* seal_peer_payload: the bytes of one generation of a call.
Carrier(r, s, g, payload) ==
    [env |-> Envelope(r, s, g), payload |-> payload, issued |-> now,
     expires |-> now + CarrierSecs]

\* get_or_create_carrier: the live carrier, or the next generation.
Carry(t, s) ==
    LET r == thread[t].req IN
    /\ At(t, "carry") /\ s \in thread[t].todo
    /\ carriers' = IF LiveCarrier(r, s) THEN carriers
                   ELSE [carriers EXCEPT ![r][s] =
                            Append(@, Carrier(r, s, Len(@) + 1, thread[t].payload))]
    /\ thread' = [thread EXCEPT ![t].pc = "send", ![t].to = s]
    /\ UNCHANGED <<clock, said, resolved, sealed, kept, conns, sibling, crashes>>

\* The delivery to the sibling ends, whatever its outcome; converse goes on.
Next1(t) ==
    LET h == thread[t] IN
    [thread EXCEPT ![t] =
        IF h.todo = {h.to} THEN Idle
        ELSE [h EXCEPT !.pc = "carry", !.todo = h.todo \ {h.to}, !.to = None, !.conn = None]]

\* egress.release around round_trip: one transmission of the carrier's bytes.
Send(t) ==
    LET c == carriers[thread[t].req][thread[t].to] IN
    /\ At(t, "send")
    /\ Len(conns) < plan.conns
    /\ conns' = Append(conns,
          [bytes |-> c[Len(c)], pc |-> "net", receipt |-> None, answer |-> None])
    /\ thread' = [thread EXCEPT ![t].pc = "wait", ![t].conn = Len(conns) + 1]
    /\ UNCHANGED <<clock, author, sibling, crashes>>

\* NativeEgressError: the sibling's outcome is undetermined.
SendRefused(t) ==
    /\ At(t, "send")
    /\ thread' = Next1(t)
    /\ UNCHANGED <<clock, author, conns, sibling, crashes>>

\* The connection breaks or times out, or the answer is 503 or 400: nothing
\* is learnt. The sibling may still be at work, or begin only now.
GiveUp(t) ==
    /\ At(t, "wait")
    /\ thread' = Next1(t)
    /\ UNCHANGED <<clock, author, conns, sibling, crashes>>

\* The answer opens under the carrier it replies to and its receipt is kept.
Receive(t) ==
    LET c == conns[thread[t].conn] IN
    /\ At(t, "wait")
    /\ c.answer = "ok" /\ OpensEnvelope(c.bytes)
    /\ kept' = [kept EXCEPT ![thread[t].req][thread[t].to] = c.receipt]
    /\ thread' = Next1(t)
    /\ UNCHANGED <<clock, said, resolved, sealed, carriers, conns, sibling, crashes>>

-----------------------------------------------------------------------------
(* The sibling: dispatch. *)

In(c, pc) == conns[c].pc = pc
Answer(c, a) == conns' = [conns EXCEPT ![c].pc = "done", ![c].answer = a]
Put(env, row) ==
    [e \in DOMAIN exchanges \cup {env} |-> IF e = env THEN row ELSE exchanges[e]]

\* open_peer_payload, then begin.
Begin(c) ==
    LET env == conns[c].bytes.env
        row == Row(env)
    IN
    /\ In(c, "net")
    /\ OpensEnvelope(conns[c].bytes)
    /\ row.state # "responded"
    /\ row.lease <= now
    /\ exchanges' = Put(env, [state |-> "processing", claim |-> c, lease |-> now + LeaseSecs,
                              response |-> None])
    /\ conns' = [conns EXCEPT ![c].pc = "look"]
    /\ UNCHANGED <<clock, author, thread, effects, evidence, receipts, crashes>>

\* The stored response is released again, byte for byte.
Replay(c) ==
    LET row == Row(conns[c].bytes.env) IN
    /\ In(c, "net")
    /\ OpensEnvelope(conns[c].bytes)
    /\ row.state = "responded"
    /\ conns' = [conns EXCEPT ![c].pc = "release", ![c].receipt = row.response]
    /\ UNCHANGED <<clock, author, thread, sibling, crashes>>

\* Mutant: a worker waits until the row is free.
TurnedWaits(c) ==
    /\ In(c, "net")
    /\ ~OpensEnvelope(conns[c].bytes)
    /\ Answer(c, "rejected")
    /\ UNCHANGED <<clock, author, thread, sibling, crashes>>

\* The envelope is over (400), or another worker holds its lease (503).
Turned(c) ==
    LET row == Row(conns[c].bytes.env) IN
    /\ In(c, "net")
    /\ \/ ~OpensEnvelope(conns[c].bytes) /\ Answer(c, "rejected")
       \/ /\ OpensEnvelope(conns[c].bytes)
          /\ row.state = "processing" /\ row.lease > now
          /\ Answer(c, "busy")
    /\ UNCHANGED <<clock, author, thread, sibling, crashes>>

\* logical_response: an earlier carrier of the same call may have done it.
LogicalResponse(c) ==
    LET e == effects[conns[c].bytes.env.req][conns[c].bytes.env.sib] IN
    /\ In(c, "look")
    /\ conns' = [conns EXCEPT ![c].pc = IF e = None THEN "retain" ELSE "finish",
                              ![c].receipt = e]
    /\ UNCHANGED <<clock, author, thread, sibling, crashes>>

\* intake: the sealed payload must still be valid when it is opened.
Retain(c) ==
    LET env == conns[c].bytes.env IN
    /\ In(c, "retain")
    /\ IF OpensConversation(conns[c].bytes.payload)
       THEN /\ evidence' = [evidence EXCEPT ![env.sib] = @ \cup {env.req}]
            /\ conns' = [conns EXCEPT ![c].pc = "receipt"]
       ELSE /\ conns' = [conns EXCEPT ![c].pc = "abort"]
            /\ UNCHANGED evidence
    /\ UNCHANGED <<clock, author, thread, exchanges, effects, receipts, crashes>>

\* Mutant: the identity of a receipt depends on when it is authored.
AuthoredAgain(r, s) == now

\* append_local_idempotent: a repeated intake returns the first receipt.
Authored(r, s) == IF receipts[r][s] = None THEN now ELSE receipts[r][s]

\* _author_receipt.
AuthorReceipt(c) ==
    LET env == conns[c].bytes.env IN
    /\ In(c, "receipt")
    /\ receipts' = [receipts EXCEPT ![env.req][env.sib] = Authored(env.req, env.sib)]
    /\ conns' = [conns EXCEPT ![c].pc = "finish", ![c].receipt = Authored(env.req, env.sib)]
    /\ UNCHANGED <<clock, author, thread, exchanges, effects, evidence, crashes>>

\* finish: the row is still this worker's.
Owns(c) ==
    LET row == Row(conns[c].bytes.env) IN
    row.state = "processing" /\ row.claim = c /\ row.lease > now

Finish(c) ==
    LET env == conns[c].bytes.env
        response == conns[c].receipt
        effect == effects[env.req][env.sib]
    IN
    /\ In(c, "finish")
    /\ now < conns[c].bytes.expires
    /\ Owns(c)
    /\ effect \in {None, response}
    /\ exchanges' = Put(env, [NoRow EXCEPT !.state = "responded", !.response = response])
    /\ effects' = [effects EXCEPT ![env.req][env.sib] = response]
    /\ conns' = [conns EXCEPT ![c].pc = "release"]
    /\ UNCHANGED <<clock, author, thread, evidence, receipts, crashes>>

\* The envelope expired under the handler, or the claim did, or the call is
\* recorded with another response.
FinishDenied(c) ==
    /\ In(c, "finish")
    /\ \/ now >= conns[c].bytes.expires \/ ~Owns(c)
       \/ effects[conns[c].bytes.env.req][conns[c].bytes.env.sib] \notin {None, conns[c].receipt}
    /\ conns' = [conns EXCEPT ![c].pc = "abort"]
    /\ UNCHANGED <<clock, author, thread, sibling, crashes>>

Aborts(c) ==
    LET row == Row(conns[c].bytes.env) IN row.state = "processing" /\ row.claim = c

\* abort, and the PeerTransportError that do_POST answers with 400.
Abort(c) ==
    LET env == conns[c].bytes.env IN
    /\ In(c, "abort")
    /\ exchanges' = IF Aborts(c) THEN [e \in DOMAIN exchanges \ {env} |-> exchanges[e]]
                    ELSE exchanges
    /\ Answer(c, "rejected")
    /\ UNCHANGED <<clock, author, thread, effects, evidence, receipts, crashes>>

\* egress.release of the response; a refusal closes the connection.
Release(c) ==
    /\ In(c, "release")
    /\ \E a \in {"ok", "closed"} : Answer(c, a)
    /\ UNCHANGED <<clock, author, thread, sibling, crashes>>

-----------------------------------------------------------------------------

\* A host dies: the author forgets its threads, the sibling its workers.
CrashAuthor ==
    /\ crashes < plan.crashes /\ crashes' = crashes + 1
    /\ thread' = [t \in Threads |-> Idle]
    /\ UNCHANGED <<clock, author, conns, sibling>>

CrashSibling(s) ==
    /\ crashes < plan.crashes /\ crashes' = crashes + 1
    /\ conns' = [c \in DOMAIN conns |->
          IF conns[c].bytes.env.sib = s /\ conns[c].pc \notin {"net", "done"}
          THEN [conns[c] EXCEPT !.pc = "done", !.answer = "closed"]
          ELSE conns[c]]
    /\ UNCHANGED <<clock, author, thread, sibling>>

Step(t) ==
    \/ AuthorMessage(t) \/ AuthorResolution(t) \/ BeginSeal(t) \/ FinishSeal(t)
    \/ OpenSaved(t) \/ (\E s \in Siblings : Carry(t, s)) \/ Send(t)

Work(c) ==
    \/ Begin(c) \/ Replay(c) \/ Turned(c) \/ LogicalResponse(c) \/ Retain(c)
    \/ AuthorReceipt(c) \/ Finish(c) \/ FinishDenied(c) \/ Abort(c)

Next ==
    \/ Tick \/ CrashAuthor \/ \E s \in plan.siblings : CrashSibling(s)
    \/ \E t \in plan.threads :
        \/ \E r \in Requests, x \in plan.texts : Converse(t, r, x)
        \/ Step(t) \/ SendRefused(t) \/ GiveUp(t) \/ Receive(t)
    \/ \E c \in DOMAIN conns : Work(c) \/ Release(c)

Spec == Init /\ [][Next]_vars

\* Threads and workers run on: SQLite waits are bounded and an HTTP exchange
\* has a timeout. Nobody has to call converse, and hosts need not crash.
Fairness ==
    /\ \A t \in Threads : WF_vars(Step(t)) /\ WF_vars(SendRefused(t)) /\ WF_vars(GiveUp(t))
    /\ \A c \in 1..MaxConn : WF_vars(c \in DOMAIN conns /\ (Work(c) \/ Release(c)))

FairSpec == Spec /\ Fairness

-----------------------------------------------------------------------------
(* Properties. *)

TypeOK ==
    /\ plan \in Plans /\ now \in 0..MaxTime /\ crashes \in 0..plan.crashes
    /\ said \in [Requests -> Texts \cup {None}] /\ resolved \subseteq Requests
    /\ \A r \in Requests : sealed[r] # None => r \in resolved /\ said[r] # None
    /\ \A r \in Requests, s \in Siblings :
        /\ kept[r][s] \in 0..MaxTime \cup {None}
        /\ receipts[r][s] \in 0..MaxTime \cup {None}
        /\ effects[r][s] \in 0..MaxTime \cup {None}
        /\ Len(carriers[r][s]) <= MaxTime + 1
    /\ \A t \in Threads : thread[t].pc \in
        {"idle", "author", "resolve", "begin", "save", "open", "carry", "send", "wait"}
    /\ \A t \in Threads : thread[t].pc = "wait" => thread[t].conn \in DOMAIN conns
    /\ Len(conns) <= plan.conns
    /\ \A c \in DOMAIN conns :
        /\ conns[c].pc \in {"net", "look", "retain", "receipt", "finish", "abort",
                            "release", "done"}
        /\ conns[c].answer \in {None, "ok", "busy", "rejected", "closed"}
    /\ \A e \in DOMAIN exchanges : exchanges[e].state \in {"processing", "responded"}
    /\ evidence \in [Siblings -> SUBSET Requests]

\* The lane keeps HeardOnce: whatever crashes, is lost, retried, renewed or
\* taken over, a sibling authors one receipt per message and the author keeps
\* only that one.
Promise == INSTANCE HeardOnce WITH
    Messages <- Requests, Instants <- 0..MaxTime, heard <- receipts, known <- kept
HearsOnce == Promise!Spec

\* Every response a sibling stored, under whatever envelope, and the effect it
\* recorded for the call carry the receipt of its ledger, and it holds the
\* message the receipt is about.
ResponsesAgree ==
    /\ \A e \in DOMAIN exchanges :
        exchanges[e].state = "responded" =>
            /\ exchanges[e].response = receipts[e.req][e.sib]
            /\ exchanges[e].response = effects[e.req][e.sib]
    /\ \A r \in Requests, s \in Siblings :
        receipts[r][s] # None => r \in evidence[s] /\ sealed[r] # None

\* An envelope id names one byte string for ever, and all carriers of a call
\* carry the one sealed payload of its request.
EnvelopesAreBytes ==
    /\ \A c, d \in DOMAIN conns :
        conns[c].bytes.env = conns[d].bytes.env => conns[c].bytes = conns[d].bytes
    /\ \A c \in DOMAIN conns : conns[c].bytes.payload = sealed[conns[c].bytes.env.req]

\* A stored response is final: later workers, aborts and crashes leave it.
KeepsResponses ==
    \A e \in DOMAIN exchanges :
        exchanges[e].state = "responded" => e \in DOMAIN exchanges' /\ exchanges'[e] = exchanges[e]
ResponsesAreFinal == [][KeepsResponses]_vars

\* A call of converse ends, and a sibling answers or drops every exchange it
\* was sent: no worker waits for another's lease, no thread for a worker.
EverythingEnds ==
    /\ \A t \in Threads : thread[t].pc # "idle" ~> thread[t].pc = "idle"
    /\ \A c \in 1..MaxConn :
        c \in DOMAIN conns ~> c \in DOMAIN conns /\ conns[c].pc = "done"

\* The lane at every instant: responses, effects and receipts agree, and two
\* requests with one envelope are one sequence of bytes.
LaneAgrees == TypeOK /\ ResponsesAgree /\ EnvelopesAreBytes

\* Whatever is repeated, raced or lost, a message is heard once, and what was
\* answered stays answered.
HeardOnceForGood == HearsOnce /\ ResponsesAreFinal

-----------------------------------------------------------------------------
(* The instance that is model-checked: an envelope that outlives its lease  *)
(* and may be renewed within the life of the sealed payload; two threads    *)
(* that converse about one request, a message for two siblings, and a       *)
(* request id that is used again for another text.                          *)

CONSTANTS t1, t2, s1, s2, x1, y1

Bounds(threads, siblings, texts, time, limit, deaths) ==
    [threads |-> threads, siblings |-> siblings, texts |-> texts, time |-> time,
     conns |-> limit, crashes |-> deaths]

Race == Bounds({t1, t2}, {s1}, {x1}, 1, 2, 0)
Fanout == Bounds({t1}, {s1, s2}, {x1}, 0, 2, 1)
Retry == Bounds({t1}, {s1}, {x1, y1}, 3, 2, 1)
Again == Bounds({t1}, {s1}, {x1}, 2, 3, 0)
MCPlans == {Race, Fanout, Retry, Again}
=============================================================================
