---------------------------- MODULE PeerMessaging ----------------------------
(***************************************************************************)
(* One directed lane between two peers (messaging.py, messaging_store.py): *)
(* MessagingSender.prepare reserves a carrier, authors the message and     *)
(* seals an evidence/message pair; MessagingDelivery sends the evidence    *)
(* and then the message, each stage committed as pending before its I/O;   *)
(* MessagingChannel takes both in at the recipient.                        *)
(*                                                                         *)
(* Calls of several threads interleave, a call may stop between two        *)
(* transactions, the clock runs through a carrier's lifetime, and each     *)
(* side learns of changes to the relationship when it learns of them.      *)
(* Cryptography is abstract: what the recipient reconstructs from its own  *)
(* policy opens the envelope exactly when the sender sealed it under the   *)
(* same policy. Forged or altered envelopes are not sent.                  *)
(***************************************************************************)
EXTENDS Naturals, Sequences, FiniteSets, FiniteSetsExt, SequencesExt, TLC

CONSTANTS
    Sends,       \* send ids a client uses
    Replies,     \* those that answer the one message received before
    Threads,     \* calls that may run at the same time
    Ttl,         \* policy.max_ttl_ms
    Versions,    \* the relationship's history is 1..Versions,
    Granting,    \* and these of them grant disclosure
    None,
    MaxTime, MaxCalls, MaxFaults   \* bounds

ASSUME PeerAssumption ==
    /\ Replies \subseteq Sends /\ Ttl \in Nat \ {0}
    /\ Versions \in Nat /\ Granting \subseteq 1..Versions /\ 1 \in Granting
    /\ MaxTime \in Nat /\ MaxCalls \in Nat /\ MaxFaults \in Nat
    /\ None \notin Nat \cup {"recipient-intake", "refused"} \cup Sends \X Nat

VARIABLES
    now,
    view,        \* the version of the relationship each side holds
    carriers,    \* messaging_outbox: <<send, generation>> |-> plan and sealed pair
    stages,      \* messaging_transport_stages: carrier |-> status of each phase
    authored,    \* messages in the sender's ledger, named by the carrier they were
                 \* authored for (append_local_idempotent: once per authorization id)
    observed,    \* when the received message was first answered: its receipt's time
    call,        \* the call of each thread
    sent,        \* requests written: <<carrier, phase>>
    answers,     \* the recipient's transport journal: request |-> outcome
    proofs,      \* recipient: evidence retained, [message, carrier, policy]
    inbox,       \* recipient: messages in the order they were first retained
    settled,     \* recipient: its message's receipt is recorded in its communication
    calls, faults

sender == <<carriers, stages, authored, observed>>
recipient == <<answers, proofs, inbox, settled>>
counters == <<calls, faults>>
vars == <<now, view, sender, call, sent, recipient, counters>>

Phases == {"evidence", "message"}
Outcomes == {"recipient-intake", "refused"}
Open == {"prepared", "pending"}
Idle == [pc |-> "idle", send |-> None, carrier |-> None, phase |-> "evidence",
         transmit |-> FALSE, seen |-> None, result |-> None]

Put(f, k, v) == [x \in DOMAIN f \cup {k} |-> IF x = k THEN v ELSE f[x]]

Init ==
    /\ now = 0 /\ view = [side \in {"sender", "recipient"} |-> 1]
    /\ carriers = << >> /\ stages = << >> /\ authored = {} /\ observed = None
    /\ call = [t \in Threads |-> Idle] /\ sent = {}
    /\ answers = << >> /\ proofs = {} /\ inbox = << >> /\ settled = FALSE
    /\ calls = 0 /\ faults = 0

Fault == faults < MaxFaults /\ faults' = faults + 1
Fine == UNCHANGED faults

-----------------------------------------------------------------------------
(* The sender: prepare. It holds the relationship's writer lock, so two     *)
(* threads are never inside it together.                                    *)

\* _policy_hash raises unless the relationship grants the disclosure now.
Granted(side) == view[side] \in Granting

\* The messaging_outbox rows with the reservation of the send: _reserve refuses
\* a send whose policy has changed since.
Plan(policy) == [policy |-> policy, issued |-> now, expires |-> now + Ttl, message |-> None]
Reserved(s) ==
    IF <<s, 1>> \in DOMAIN carriers THEN carriers
    ELSE Put(carriers, <<s, 1>>, Plan(view["sender"]))
Conflicts(s) == <<s, 1>> \in DOMAIN carriers /\ carriers[<<s, 1>>].policy # view["sender"]

Generations(cs, s) == {c[2] : c \in {d \in DOMAIN cs : d[1] = s}}
Latest(cs, s) == <<s, Max(Generations(cs, s))>>

\* _recorded_intake
Recorded(c) ==
    c \in DOMAIN stages /\ \A p \in Phases : stages[c][p] = "recipient-intake"

\* _carrier: the latest carrier while it lives or is complete, else its successor.
Renewed(cs, s) ==
    LET c == Latest(cs, s) IN
    IF Recorded(c) \/ now < cs[c].expires THEN cs
    ELSE Put(cs, <<s, c[2] + 1>>, Plan(cs[<<s, 1>>].policy))

\* Mutant: every carrier authors its own message.
MessageFresh(cs, c) == c

\* The events are those of the pair sealed first, if that was sealed; else they
\* are authored for this carrier.
MessageOf(cs, c) ==
    IF c[2] > 1 /\ cs[<<c[1], 1>>].message # None
    THEN cs[<<c[1], 1>>].message ELSE c

\* A reply names a message of the inbox; that row is found under the policy it
\* was admitted under, version 1.
Answerable(s) == s \in Replies => view["sender"] = 1

Permitted(s) == Granted("sender") /\ Answerable(s) /\ ~Conflicts(s)

\* prepare, that gets as far as 'stop'.
Prepares(s, stop) ==
    LET cs == Renewed(Reserved(s), s)
        c == Latest(cs, s)
        m == MessageOf(cs, c)
        fresh == cs[c].message = None
    IN
    /\ carriers' = IF fresh /\ stop = "sealed" THEN [cs EXCEPT ![c].message = m] ELSE cs
    /\ authored' = IF fresh /\ stop # "reserved" THEN authored \cup {m} ELSE authored
    /\ observed' = IF fresh /\ stop # "reserved" /\ s \in Replies /\ m = c /\ observed = None
                   THEN cs[c].issued ELSE observed

\* Of the three places to stop, "sealed" is the end.
Interrupted(s) ==
    /\ Fault
    /\ \E stop \in {"reserved", "authored"} : Prepares(s, stop)

-----------------------------------------------------------------------------
(* The sender: send. *)

At(t, pc) == call[t].pc = pc
Leave(t) == call' = [call EXCEPT ![t] = Idle]

Send(t, s) ==
    /\ At(t, "idle") /\ calls < MaxCalls
    /\ calls' = calls + 1
    /\ call' = [call EXCEPT ![t] = [Idle EXCEPT !.pc = "prepare", !.send = s]]
    /\ UNCHANGED <<now, view, sender, sent, recipient, faults>>

Prepare(t) ==
    LET s == call[t].send IN
    /\ At(t, "prepare")
    /\ \/ /\ Permitted(s) /\ Prepares(s, "sealed") /\ Fine
          /\ call' = [call EXCEPT ![t].pc = "stages",
                                  ![t].carrier = Latest(Renewed(Reserved(s), s), s)]
       \/ Permitted(s) /\ Interrupted(s) /\ Leave(t)
       \/ ~Permitted(s) /\ Leave(t) /\ Fine /\ UNCHANGED <<carriers, authored, observed>>
    /\ UNCHANGED <<now, view, stages, sent, recipient, calls>>

\* _transport_stages binds both stages in one transaction; the requests of a
\* carrier that has expired since are refused before any I/O (check_time).
\* A call that finds everything taken in only verifies the stored answers.
Stages(t) ==
    LET c == call[t].carrier
        complete == Recorded(c)
        now1 == IF c \in DOMAIN stages THEN stages ELSE Put(stages, c, [p \in Phases |-> "prepared"])
    IN
    /\ At(t, "stages")
    /\ stages' = now1
    /\ IF complete \/ now < carriers[c].expires
       THEN call' = [call EXCEPT ![t].pc = "phase", ![t].transmit = ~complete,
                                 ![t].seen = now1[c]]
       ELSE Leave(t)
    /\ UNCHANGED <<now, view, carriers, authored, observed, sent, recipient, counters>>

\* Mutant: the update lacks its condition on the status.
StatusOverwrites(c, p, status) == status

\* _transport_status: what a stage's status becomes; an outcome stays.
Status(c, p, status) == IF stages[c][p] \in Open THEN status ELSE stages[c][p]

\* What follows a stage that has the given status.
Advance(t, status) ==
    call' = [call EXCEPT ![t] =
        IF status = "recipient-intake" /\ call[t].phase = "evidence"
        THEN [@ EXCEPT !.pc = "phase", !.phase = "message"] ELSE Idle]

\* _check_time
Alive(c) == now < carriers[c].expires

\* Before each stage prepare runs again, which may renew the carrier; then the
\* stage becomes pending under the lock unless this carrier has expired.
Phase(t) ==
    LET s == call[t].send
        c == call[t].carrier
        p == call[t].phase
    IN
    /\ At(t, "phase")
    /\ \/ /\ Permitted(s) /\ Prepares(s, "sealed") /\ Fine
          /\ IF ~call[t].transmit \/ call[t].seen[p] \notin Open
             THEN Advance(t, call[t].seen[p]) /\ UNCHANGED stages
             ELSE IF ~Alive(c) THEN Leave(t) /\ UNCHANGED stages
             ELSE /\ stages' = [stages EXCEPT ![c][p] = Status(c, p, "pending")]
                  /\ IF stages[c][p] \in Open
                     THEN call' = [call EXCEPT ![t].pc = "write", ![t].result = None]
                     ELSE Advance(t, stages[c][p])
       \/ Permitted(s) /\ Interrupted(s) /\ Leave(t) /\ UNCHANGED stages
       \/ /\ ~Permitted(s) /\ Leave(t) /\ Fine
          /\ UNCHANGED <<carriers, authored, observed, stages>>
    /\ UNCHANGED <<now, view, sent, recipient, calls>>

\* send_prepared writes the stored request; it refuses one that has expired.
Write(t) ==
    /\ At(t, "write") /\ Alive(call[t].carrier)
    /\ sent' = sent \cup {<<call[t].carrier, call[t].phase>>}
    /\ call' = [call EXCEPT ![t].pc = "wait"]
    /\ UNCHANGED <<now, view, sender, recipient, counters>>

\* An authenticated answer.
Answered(t) ==
    LET request == <<call[t].carrier, call[t].phase>> IN
    /\ At(t, "wait") /\ request \in DOMAIN answers
    /\ call' = [call EXCEPT ![t].pc = "record", ![t].result = answers[request]]
    /\ UNCHANGED <<now, view, sender, sent, recipient, counters>>

\* No authenticated outcome: the gate refused, the connection failed or timed out.
GiveUp(t) ==
    /\ At(t, "write") \/ At(t, "wait")
    /\ IF Alive(call[t].carrier) THEN Fault ELSE Fine
    /\ call' = [call EXCEPT ![t].pc = "record", ![t].result = None]
    /\ UNCHANGED <<now, view, sender, sent, recipient, calls>>

\* The outcome is kept only while the carrier and the authority last.
Record(t) ==
    LET c == call[t].carrier
        p == call[t].phase
        r == call[t].result
    IN
    /\ At(t, "record")
    /\ IF ~Alive(c) \/ ~Granted("sender") THEN Leave(t) /\ UNCHANGED stages
       ELSE IF r = None THEN Leave(t) /\ UNCHANGED stages
       ELSE /\ stages' = [stages EXCEPT ![c][p] = Status(c, p, r)]
            /\ Advance(t, Status(c, p, r))
    /\ UNCHANGED <<now, view, carriers, authored, observed, sent, recipient, counters>>

\* The sender's process dies with its calls.
Crash ==
    /\ Fault /\ \E t \in Threads : ~At(t, "idle")
    /\ call' = [t \in Threads |-> Idle]
    /\ UNCHANGED <<now, view, sender, sent, recipient, calls>>

-----------------------------------------------------------------------------
(* The recipient. *)

\* A request that waits for its first answer, within its lifetime; an answered
\* one gets the stored answer again.
Pending(c, p) ==
    /\ <<c, p>> \in sent /\ <<c, p>> \notin DOMAIN answers
    /\ Alive(c)
Answer(c, p, outcome) == answers' = Put(answers, <<c, p>>, outcome)

\* The recipient's own policy reconstructs what the envelope was sealed under.
Opens(c) == Granted("recipient") /\ view["recipient"] = carriers[c].policy

ProofOf(c) == [message |-> carriers[c].message, carrier |-> c, policy |-> view["recipient"]]

\* receive_evidence, and the answer in a second transaction.
ReceiveEvidence(c) ==
    /\ Pending(c, "evidence")
    /\ \/ /\ Opens(c)
          /\ proofs' = proofs \cup {ProofOf(c)}
          /\ \/ Answer(c, "evidence", "recipient-intake") /\ Fine
             \/ Fault /\ UNCHANGED answers
       \/ ~Opens(c) /\ Answer(c, "evidence", "refused") /\ Fine /\ UNCHANGED proofs
    /\ UNCHANGED <<now, view, sender, call, sent, inbox, settled, calls>>

\* receive_message: the evidence must be there under the current policy. The
\* message is retained, then the receipt it carries is reduced, then the answer
\* is stored, each in a transaction of its own.
Hears(c) == Opens(c) /\ ProofOf(c) \in proofs

ReceiveMessage(c) ==
    LET m == carriers[c].message IN
    /\ Pending(c, "message")
    /\ \/ /\ Hears(c)
          /\ inbox' = IF m \in Range(inbox) THEN inbox ELSE Append(inbox, m)
          /\ \/ /\ Answer(c, "message", "recipient-intake") /\ Fine
                /\ settled' = (settled \/ m[1] \in Replies)
             \/ Fault /\ UNCHANGED <<answers, settled>>
             \/ /\ Fault /\ UNCHANGED answers
                /\ settled' = (settled \/ m[1] \in Replies)
       \/ /\ ~Hears(c) /\ Answer(c, "message", "refused") /\ Fine
          /\ UNCHANGED <<inbox, settled>>
    /\ UNCHANGED <<now, view, sender, call, sent, proofs, calls>>

\* reconcile_receipts, when the recipient starts: rows of the current policy. A
\* runtime whose disclosure is refused does not start.
RowsNow == {c \in DOMAIN carriers : carriers[c].policy = view["recipient"]}
Reconcile ==
    /\ Granted("recipient")
    /\ settled' = (settled \/ \E c \in RowsNow : /\ carriers[c].message \in Range(inbox)
                                                 /\ c[1] \in Replies)
    /\ settled' # settled
    /\ UNCHANGED <<now, view, sender, call, sent, answers, proofs, inbox, counters>>

-----------------------------------------------------------------------------
(* The environment. *)

Tick ==
    /\ now < MaxTime
    /\ now' = now + 1
    /\ UNCHANGED <<view, sender, call, sent, recipient, counters>>

\* A side ingests a relationship event.
Learn(side) ==
    /\ view[side] < Versions
    /\ view' = [view EXCEPT ![side] = @ + 1]
    /\ UNCHANGED <<now, sender, call, sent, recipient, counters>>

ThreadNext(t) ==
    \/ \E s \in Sends : Send(t, s)
    \/ Prepare(t) \/ Stages(t) \/ Phase(t) \/ Write(t) \/ Answered(t) \/ GiveUp(t) \/ Record(t)

Next ==
    \/ \E t \in Threads : ThreadNext(t)
    \/ Crash
    \/ \E c \in DOMAIN carriers : ReceiveEvidence(c) \/ ReceiveMessage(c)
    \/ Reconcile
    \/ Tick
    \/ \E side \in DOMAIN view : Learn(side)

Spec == Init /\ [][Next]_vars

\* Calls that run at the same time are interchangeable.
ThreadSymmetry == Permutations(Threads)

-----------------------------------------------------------------------------
(* Properties. *)

Carriers == {<<s, g>> : s \in Sends, g \in 1..MaxTime + 1}

\* Rows, stages, calls and journals have their shapes, and the generations of a
\* send count from one without a gap, which _carrier and _inspection_pair require.
TypeOK ==
    /\ now \in 0..MaxTime /\ view \in [{"sender", "recipient"} -> 1..Versions]
    /\ DOMAIN carriers \subseteq Carriers
    /\ \A c \in DOMAIN carriers :
          /\ carriers[c] \in [policy: 1..Versions, issued: 0..MaxTime,
                              expires: Nat, message: authored \cup {None}]
          /\ c[2] > 1 => <<c[1], c[2] - 1>> \in DOMAIN carriers
    /\ DOMAIN stages \subseteq {c \in DOMAIN carriers : carriers[c].message # None}
    /\ \A c \in DOMAIN stages : stages[c] \in [Phases -> Open \cup Outcomes]
    /\ authored \subseteq DOMAIN carriers /\ observed \in 0..MaxTime \cup {None}
    /\ \A t \in Threads : call[t].pc \in {"idle", "prepare", "stages", "phase", "write", "wait", "record"}
    /\ sent \subseteq (DOMAIN stages) \X Phases
    /\ DOMAIN answers \subseteq sent /\ Range(answers) \subseteq Outcomes
    /\ Range(inbox) \subseteq authored /\ settled \in BOOLEAN
    /\ calls \in 0..MaxCalls /\ faults \in 0..MaxFaults

\* What the outbox records as taken in, the recipient holds: the evidence under
\* that carrier, or the message. A call that gave up, was late or lost a race
\* records nothing of the kind.
RecordedIsHeld ==
    \A c \in DOMAIN stages :
        /\ stages[c]["evidence"] = "recipient-intake" => \E e \in proofs : e.carrier = c
        /\ stages[c]["message"] = "recipient-intake" => carriers[c].message \in Range(inbox)

\* The message of a carrier is written only after the sender has recorded that
\* the recipient took the evidence of the same carrier in.
MessageFollowsEvidence ==
    \A c \in DOMAIN carriers :
        <<c, "message">> \in sent => stages[c]["evidence"] = "recipient-intake"

\* At most one carrier of a send is ever recorded as complete: a late answer to a
\* carrier that was given up does not count beside its successor's.
OneCompleteCarrier ==
    \A c, d \in DOMAIN carriers : c[1] = d[1] /\ Recorded(c) /\ Recorded(d) => c = d

\* When the first carrier of a send was sealed, every later carrier of that send
\* and the recipient's inbox hold that carrier's message and no other.
RenewalKeepsMessage ==
    \A s \in Sends :
        <<s, 1>> \in DOMAIN carriers /\ carriers[<<s, 1>>].message # None =>
            /\ \A c \in DOMAIN carriers :
                  c[1] = s => carriers[c].message \in {None, carriers[<<s, 1>>].message}
            /\ \A m \in Range(inbox) : m[1] = s => m = carriers[<<s, 1>>].message

\* A reply that the recipient answered as taken in has its receipt recorded in
\* the recipient's communication store, crashes between the two included.
AnsweredReplySettles ==
    \A r \in DOMAIN answers :
        r[2] = "message" /\ answers[r] = "recipient-intake" /\ r[1][1] \in Replies => settled

\* An outcome of a stage is never replaced, whatever the other calls of the same
\* send do.
OutcomesStay ==
    [][\A c \in DOMAIN stages : \A p \in Phases :
          stages[c][p] \in Outcomes => stages'[c][p] = stages[c][p]]_vars

\* A send at every instant: what the sender recorded as answered the recipient
\* holds, a message follows its evidence, one carrier is complete, a renewal
\* carries the same message, and an answered reply is settled.
SendsHold ==
    /\ TypeOK /\ RecordedIsHeld /\ MessageFollowsEvidence
    /\ OneCompleteCarrier /\ RenewalKeepsMessage /\ AnsweredReplySettles
=============================================================================
