-------------------------------- MODULE Egress --------------------------------
(***************************************************************************)
(* Mandatory visibility of native traffic: the echo journal and its worker *)
(* (mandatory_echo.py) under the release controller (native_egress.py).    *)
(*                                                                         *)
(* Every native operation is admitted together with an echo obligation.    *)
(* Threads of one process post its parts to Telegram, one attempt at a     *)
(* time under the execution lock, journalling the intent before the HTTP   *)
(* request and the response after it, and release the native bytes under   *)
(* the writer fence once the obligation is discharged. Requests may be     *)
(* lost or be delivered after their sender has given up; an attempt with   *)
(* no response is ambiguous and only the owner may have it repeated.       *)
(***************************************************************************)
EXTENDS Naturals, Sequences

CONSTANTS
    Threads,       \* threads of the process
    Ops,           \* native operations: [id, parts, mirrored]
    Bundles,       \* sequences of operations released by one call
    Approvals,     \* owner retry commands, each with its own bytes and id
    None,          \* Python's None
    MaxAttempts,   \* MAX_ATTEMPTS
    MaxRecords,    \* MAX_RECORDS
    MaxCrashes     \* bound: crashes of the process

Replies == {"confirmed", "rejected"}

Attempt == [reply: Replies \cup {None}, approval: Approvals \cup {None}]

\* attempt_id: the n-th attempt at part p of operation o.
AttemptId == [op: Ops, part: Nat \ {0}, n: Nat \ {0}]

VARIABLES
    record,        \* record[o]: the attempts at each part, or None if not admitted
    queue,         \* the admitted operations by created_at_ms
    cooling,       \* cooling[o]: the delay after a rejection is not over
    current,       \* current[o]: its authority holds and its deadline is ahead
    approvals,     \* approvals[a]: the attempt the owner's command a is about, or None
    expired,       \* commands that are too old
    thread,        \* thread[t]: what thread t is doing
    echoLock,      \* _echo_execution: its holder, or None
    fence,         \* _fence: its holder while native bytes are written, or None
    wire,          \* requests on their way to Telegram
    posts,         \* attempts Telegram has posted
    references,    \* operations whose message id is published
    sent,          \* operations whose native bytes were written
    counted,       \* operations with a release_count above zero
    crashes

journal == <<record, queue, cooling>>
owner == <<current, approvals, expired>>
telegram == <<wire, posts>>
released == <<sent, counted>>
vars == <<journal, owner, thread, echoLock, fence, telegram, references, released, crashes>>

Idle == [pc |-> "idle", about |-> None, seen |-> None, reply |-> None]

Init ==
    /\ record = [o \in Ops |-> None]
    /\ queue = << >>
    /\ cooling = [o \in Ops |-> FALSE]
    /\ current = [o \in Ops |-> TRUE]
    /\ approvals = [a \in Approvals |-> None]
    /\ expired = {}
    /\ thread = [t \in Threads |-> Idle]
    /\ echoLock = None
    /\ fence = None
    /\ wire = {} /\ posts = {}
    /\ references = {}
    /\ sent = {} /\ counted = {}
    /\ crashes = 0

-----------------------------------------------------------------------------
(***************************************************************************)
(* What a record says.                                                     *)
(***************************************************************************)

\* Fault: a request with no response is taken for a rejected one.
PartResultLost(attempts) ==
    IF attempts = << >> \/ attempts[Len(attempts)].reply = None THEN "queued"
    ELSE attempts[Len(attempts)].reply

\* _part_result
PartResult(attempts) ==
    IF attempts = << >> THEN "queued"
    ELSE IF attempts[Len(attempts)].reply = None THEN "ambiguous"
    ELSE attempts[Len(attempts)].reply

Confirmed(r) == \A p \in DOMAIN r : PartResult(r[p]) = "confirmed"

\* _status, for an operation with parts.
Status(r) ==
    IF Confirmed(r) THEN "confirmed"
    ELSE IF \E p \in DOMAIN r : PartResult(r[p]) = "ambiguous" THEN "ambiguous"
    ELSE "queued"

\* The first part that is not confirmed.
PartOpen(r, p) ==
    /\ p \in DOMAIN r /\ PartResult(r[p]) # "confirmed"
    /\ \A q \in DOMAIN r : q < p => PartResult(r[q]) = "confirmed"

\* require_discharged: confirmed, or with no part to post.
Discharged(r) == Confirmed(r)

-----------------------------------------------------------------------------
(***************************************************************************)
(* Admission and publication.                                              *)
(***************************************************************************)
\* EchoJournal._admit: no more than MAX_RECORDS obligations are kept.
Room == Len(queue) < MaxRecords

\* admit_in_transaction: the operation and its obligation in one transaction.
Admit(o) ==
    /\ record[o] = None /\ current[o]
    /\ Room
    /\ queue' = Append(queue, o)
    /\ record' = [record EXCEPT ![o] = [p \in 1..o.parts |-> << >>]]
    /\ UNCHANGED <<cooling, owner, thread, echoLock, fence, telegram, references, released,
                   crashes>>

SlotFree == echoLock = None

\* local_storage: the fence is free for a step.
StorageFree == fence = None

\* verify_echo_retry_command and _validate_retry
ApprovalFits(a, id) == approvals[a] = id /\ a \notin expired

MayTry(attempts) == Len(attempts) < MaxAttempts

\* _advance, the first transaction: the attempt is in the journal before it is
\* made. a is the owner's command of retry_ambiguous, or None.
Intend(t, o, p, a) ==
    LET attempts == record[o][p]
        id == [op |-> o, part |-> p, n |-> Len(attempts) + 1]
    IN  /\ thread[t] = Idle /\ SlotFree /\ StorageFree
        /\ record[o] # None /\ current[o]
        /\ Status(record[o]) = IF a = None THEN "queued" ELSE "ambiguous"
        /\ PartOpen(record[o], p)
        /\ MayTry(attempts) /\ ~ cooling[o]
        /\ a # None =>
              /\ ApprovalFits(a, [op |-> o, part |-> p, n |-> Len(attempts)])
              /\ \A q \in DOMAIN record[o] : \A n \in DOMAIN record[o][q] :
                    record[o][q][n].approval # a
        /\ record' = [record EXCEPT ![o][p] = Append(@, [reply |-> None, approval |-> a])]
        /\ thread' = [thread EXCEPT ![t] =
                         [pc |-> "send", about |-> id, seen |-> record'[o], reply |-> None]]
        /\ echoLock' = t
        /\ UNCHANGED <<queue, cooling, owner, fence, telegram, references, released, crashes>>

\* advance on an operation that is confirmed.
Republish(t, o) ==
    /\ thread[t] = Idle /\ SlotFree /\ StorageFree
    /\ record[o] # None /\ current[o] /\ o.parts > 0 /\ Status(record[o]) = "confirmed"
    /\ references' = references \cup {o}
    /\ UNCHANGED <<journal, owner, thread, echoLock, fence, telegram, released, crashes>>

Send(t) ==
    /\ thread[t].pc = "send" /\ StorageFree
    /\ current[thread[t].about.op]
    /\ wire' = wire \cup {thread[t].about}
    /\ thread' = [thread EXCEPT ![t].pc = "wait"]
    /\ UNCHANGED <<journal, owner, echoLock, fence, posts, references, released, crashes>>

Unlock(t) == thread' = [thread EXCEPT ![t] = Idle] /\ echoLock' = None

\* The authority is gone, the request or its answer is lost, the answer is
\* invalid, or the budget is over: the attempt stays without a response.
GiveUp(t) ==
    /\ thread[t].pc \in {"send", "wait"}
    /\ Unlock(t)
    /\ UNCHANGED <<journal, owner, fence, telegram, references, released, crashes>>

Answered(attempts, reply) == [attempts EXCEPT ![Len(attempts)].reply = reply]

\* _advance, the second transaction, and _publish_reference, which may fail.
Receive(t) ==
    LET id == thread[t].about
    IN  /\ thread[t].pc = "wait" /\ thread[t].reply # None /\ StorageFree
        /\ record[id.op] = thread[t].seen
        /\ record' = [record EXCEPT ![id.op][id.part] = Answered(@, thread[t].reply)]
        /\ cooling' = [cooling EXCEPT ![id.op] = thread[t].reply = "rejected"]
        /\ \/ UNCHANGED references
           \/ Confirmed(record'[id.op]) /\ references' = references \cup {id.op}
        /\ Unlock(t)
        /\ UNCHANGED <<queue, owner, fence, telegram, released, crashes>>

-----------------------------------------------------------------------------
(***************************************************************************)
(* Release.                                                                *)
(***************************************************************************)

\* release, release_all, release_bounded up to the permits: the bytes are
\* written and counted with the fence held.
Permit(t, b) ==
    /\ thread[t] = Idle /\ StorageFree
    /\ \A i \in DOMAIN b :
          /\ record[b[i]] # None /\ current[b[i]]
          /\ b[i].mirrored => Discharged(record[b[i]])
    /\ fence' = t
    /\ thread' = [thread EXCEPT ![t] =
                     [pc |-> "permit", about |-> b, seen |-> None, reply |-> None]]
    /\ UNCHANGED <<journal, owner, echoLock, telegram, references, released, crashes>>

Effect(t) ==
    /\ thread[t].pc = "permit"
    /\ sent' = sent \cup {thread[t].about[i] : i \in DOMAIN thread[t].about}
    /\ thread' = [thread EXCEPT ![t].pc = "effect"]
    /\ UNCHANGED <<journal, owner, echoLock, fence, telegram, references, counted, crashes>>

\* One binding of the call is counted.
Count(t) ==
    /\ thread[t].pc = "effect"
    /\ counted' = counted \cup {thread[t].about[1]}
    /\ thread' = [thread EXCEPT ![t] = Idle]
    /\ fence' = None
    /\ UNCHANGED <<journal, owner, echoLock, telegram, references, sent, crashes>>

\* The deadline has passed, or the effect or the count failed.
Withdraw(t) ==
    /\ thread[t].pc \in {"permit", "effect"}
    /\ thread' = [thread EXCEPT ![t] = Idle]
    /\ fence' = None
    /\ UNCHANGED <<journal, owner, echoLock, telegram, references, released, crashes>>

-----------------------------------------------------------------------------
(***************************************************************************)
(* Telegram, the owner, time and crashes.                                  *)
(***************************************************************************)

\* The thread that still waits for attempt id gets the reply.
Reply(id, reply) ==
    thread' = [t \in Threads |->
                  IF thread[t].pc = "wait" /\ thread[t].about = id
                  THEN [thread[t] EXCEPT !.reply = reply] ELSE thread[t]]

Post(id) ==
    /\ id \in wire
    /\ wire' = wire \ {id} /\ posts' = posts \cup {id}
    /\ Reply(id, "confirmed")
    /\ UNCHANGED <<journal, owner, echoLock, fence, references, released, crashes>>

Reject(id) ==
    /\ id \in wire
    /\ wire' = wire \ {id}
    /\ Reply(id, "rejected")
    /\ UNCHANGED <<journal, owner, echoLock, fence, posts, references, released, crashes>>

Lose(id) ==
    /\ id \in wire
    /\ wire' = wire \ {id}
    /\ UNCHANGED <<journal, owner, thread, echoLock, fence, posts, references, released,
                   crashes>>

\* The owner signs a command about the attempt ambiguity_challenge names.
Approve(a, o, p) ==
    /\ approvals[a] = None /\ record[o] # None /\ current[o] /\ StorageFree
    /\ Status(record[o]) = "ambiguous" /\ PartOpen(record[o], p)
    /\ approvals' = [approvals EXCEPT ![a] =
                        [op |-> o, part |-> p, n |-> Len(record[o][p])]]
    /\ UNCHANGED <<journal, current, expired, thread, echoLock, fence, telegram, references,
                   released, crashes>>

Expire(a) ==
    /\ approvals[a] # None /\ a \notin expired
    /\ expired' = expired \cup {a}
    /\ UNCHANGED <<journal, current, approvals, thread, echoLock, fence, telegram,
                   references, released, crashes>>

\* The deadline passes or the authority is withdrawn.
Revoke(o) ==
    /\ current[o]
    /\ current' = [current EXCEPT ![o] = FALSE]
    /\ UNCHANGED <<journal, approvals, expired, thread, echoLock, fence, telegram,
                   references, released, crashes>>

CoolDown(o) ==
    /\ cooling[o]
    /\ cooling' = [cooling EXCEPT ![o] = FALSE]
    /\ UNCHANGED <<record, queue, owner, thread, echoLock, fence, telegram, references,
                   released, crashes>>

Crash ==
    /\ crashes < MaxCrashes
    /\ \E t \in Threads : thread[t] # Idle
    /\ thread' = [t \in Threads |-> Idle]
    /\ echoLock' = None /\ fence' = None
    /\ crashes' = crashes + 1
    /\ UNCHANGED <<journal, owner, telegram, references, released>>

-----------------------------------------------------------------------------
Parts(o) == 1..o.parts

Advance(t) ==
    \E o \in Ops :
        \/ \E p \in Parts(o) : Intend(t, o, p, None)
        \/ Republish(t, o)

Retry(t) ==
    \E o \in Ops : \E p \in Parts(o) : \E a \in Approvals : Intend(t, o, p, a)

Proceed(t) == Send(t) \/ GiveUp(t) \/ Receive(t) \/ Effect(t) \/ Count(t) \/ Withdraw(t)

World ==
    \/ \E id \in wire : Post(id) \/ Reject(id) \/ Lose(id)
    \/ \E a \in Approvals :
          \/ Expire(a)
          \/ \E o \in Ops : \E p \in Parts(o) : Approve(a, o, p)
    \/ \E o \in Ops : Revoke(o) \/ CoolDown(o)
    \/ Crash

Next ==
    \/ \E o \in Ops : Admit(o)
    \/ \E t \in Threads : Advance(t) \/ Retry(t) \/ Proceed(t)
    \/ \E t \in Threads, b \in Bundles : Permit(t, b)
    \/ World

Spec == Init /\ [][Next]_vars

Exhausted(o) == \E p \in Parts(o) : PartOpen(record[o], p) /\ ~ MayTry(record[o][p])

\* run_worker_batch goes through the operations by age and stops at the first
\* one that fails: echo_attempt_limit comes back at every batch until that
\* operation is no longer authorized.
Blocked(o) ==
    \E i, j \in DOMAIN queue :
        /\ i < j /\ queue[j] = o
        /\ current[queue[i]] /\ Status(record[queue[i]]) = "queued"
        /\ Exhausted(queue[i])

\* The worker loop comes to an operation it can reach.
Reach(o) == ~ Blocked(o) /\ \E t \in Threads : \E p \in Parts(o) : Intend(t, o, p, None)

-----------------------------------------------------------------------------
(***************************************************************************)
(* Properties.                                                             *)
(***************************************************************************)

\* Every variable holds values of its kind; no part has more than MAX_ATTEMPTS
\* attempts.
TypeOK ==
    /\ \A o \in Ops :
          \/ record[o] = None
          \/ /\ DOMAIN record[o] = Parts(o)
             /\ \A p \in Parts(o) :
                   record[o][p] \in Seq(Attempt) /\ Len(record[o][p]) <= MaxAttempts
    /\ queue \in Seq(Ops) /\ Len(queue) <= MaxRecords
    /\ cooling \in [Ops -> BOOLEAN] /\ current \in [Ops -> BOOLEAN]
    /\ approvals \in [Approvals -> AttemptId \cup {None}] /\ expired \subseteq Approvals
    /\ DOMAIN thread = Threads
    /\ \A t \in Threads :
          /\ thread[t].pc \in {"idle", "send", "wait", "permit", "effect"}
          /\ thread[t].pc \in {"send", "wait"} => thread[t].about \in AttemptId
          /\ thread[t].pc \in {"permit", "effect"} => thread[t].about \in Bundles
          /\ thread[t].reply \in Replies \cup {None}
    /\ echoLock \in Threads \cup {None} /\ fence \in Threads \cup {None}
    /\ wire \subseteq AttemptId /\ posts \subseteq AttemptId
    /\ references \subseteq Ops /\ sent \subseteq Ops /\ counted \subseteq Ops
    /\ crashes \in 0..MaxCrashes

Posted(o, p) == \E id \in posts : id.op = o /\ id.part = p

\* Nothing that must be mirrored leaves before Telegram shows all of it, and no
\* message id is published for an operation that is not shown: whatever was
\* lost, late or interrupted, the gate rests on a real post.
ReleasedIsVisible ==
    \A o \in Ops :
        (o \in references \/ (o \in sent \cup counted /\ o.mirrored))
        => \A p \in Parts(o) : Posted(o, p)

\* A part that Telegram has posted is tried again only on the owner's word about
\* that very attempt: lost answers, late deliveries, crashes and rejections
\* never make the process repeat a post by itself.
RepostsAreApproved ==
    \A id \in posts :
        LET attempts == record[id.op][id.part]
        IN  id.n < Len(attempts) =>
               /\ attempts[id.n + 1].approval # None
               /\ approvals[attempts[id.n + 1].approval] = id

\* The parts appear in order: none is sent before the one before it was posted.
PartsInOrder ==
    \A id \in posts \cup wire : \A p \in 1..(id.part - 1) : Posted(id.op, p)

\* The record a thread carries over its HTTP request is the stored one when it
\* comes back: a verified response is never refused with echo_state_conflict.
InFlightIsLatest ==
    \A t \in Threads : thread[t].pc \in {"send", "wait"} =>
        /\ record[thread[t].about.op] = thread[t].seen
        /\ echoLock = t

\* validate_proof_shape: what every stored record must satisfy for the loader to
\* accept it. An attempt follows an ambiguous one with a command about it, each
\* command once, and a rejected one without; nothing follows a confirmed one;
\* a part is begun when the one before it is confirmed.
LoaderAccepts ==
    \A o \in Ops : record[o] # None =>
        /\ \A p \in Parts(o) : \A n \in DOMAIN record[o][p] :
              LET a == record[o][p][n].approval
              IN  IF n = 1 THEN a = None
                  ELSE \/ record[o][p][n - 1].reply = "rejected" /\ a = None
                       \/ /\ record[o][p][n - 1].reply = None /\ a # None
                          /\ approvals[a] = [op |-> o, part |-> p, n |-> n - 1]
        /\ \A p, q \in Parts(o) :
              p < q /\ record[o][q] # << >> => PartResult(record[o][p]) = "confirmed"

\* The journal only grows: no attempt, command or response is ever dropped or
\* rewritten.
EvidenceIsKept ==
    \A o \in Ops : record[o] # None =>
          /\ record'[o] # None
          /\ \A p \in Parts(o) : \A n \in DOMAIN record[o][p] :
                /\ n \in DOMAIN record'[o][p]
                /\ record'[o][p][n].approval = record[o][p][n].approval
                /\ record[o][p][n].reply # None => record'[o][p][n] = record[o][p][n]

\* An operation that came to a decision: shown, in the owner's hands, out of
\* attempts, or no longer authorized; or it stands behind one that is out of
\* attempts, the only thing that may keep the worker from it.
Recorded(o) == record[o] # None
Settled(o) ==
    /\ Recorded(o)
    /\ \/ ~ current[o] \/ Exhausted(o) \/ Blocked(o)
       \/ Status(record[o]) \in {"confirmed", "ambiguous"}
=============================================================================
