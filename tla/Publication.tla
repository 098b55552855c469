---------------------------- MODULE Publication ----------------------------
(***************************************************************************)
(* Publication to one external target (publication.py): hosts of one Me    *)
(* share a ledger of requests and acceptances by synchronisation, and each *)
(* keeps its own journal of claims and attempts.  The provider is external *)
(* and modelled as the repository's own stand-in behaves: it applies a     *)
(* request once, onto its predecessor, and replays the receipt afterwards. *)
(*                                                                         *)
(* Proposal, review and rendering are one request; a claim and a provider  *)
(* lease last one clock step, a review ReviewLife of them.                 *)
(***************************************************************************)
EXTENDS Integers, FiniteSets, Sequences

CONSTANTS Hosts, MaxRequests, ReviewLife, MaxCrashes, MaxRevisions,
    MaxTroubles   \* clock steps, crashes and revisions together

VARIABLES
    now,
    requests,   \* the requests ever authored: predecessor and review expiry
    revised,    \* requests whose source event was superseded in the ledger
    known,      \* host -> the requests its ledger holds
    accepted,   \* host -> the acceptances its ledger holds
    claim,      \* host -> the last claim on the target in its journal
    attempt,    \* host -> request -> stored plan, lease and receipt
    run,        \* host -> the execute() under way
    applied,    \* provider: request -> the lease its receipt names
    order,      \* provider: the requests applied, in order
    crashes

journals == <<claim, attempt>>
provider == <<applied, order>>
vars == <<now, requests, revised, known, accepted, journals, run, provider, crashes>>

Troubles == now + crashes + Cardinality(revised)

None == 0
NoLease == <<"none", 0>>
Idle == [step |-> "idle", request |-> None]
NoClaim == [request |-> None, until |-> 0, state |-> "none"]
NoAttempt == [plan |-> FALSE, lease |-> NoLease, receipt |-> FALSE, state |-> "absent"]
Put(f, k, v) == [x \in DOMAIN f \cup {k} |-> IF x = k THEN v ELSE f[x]]

---------------------------------------------------------------------------
(* The ledger's view *)

AcceptedRequests(h) == {a.request : a \in accepted[h]}

\* _current_acceptance: one root, no fork; the acceptance without successor.
Roots(A) == {a \in A : requests[a.request].previous = None}
Children(A, a) == {b \in A : requests[b.request].previous = a.request}
ChainHolds(A) ==
    /\ A # {} => Cardinality(Roots(A)) = 1
    /\ \A a \in A : Cardinality(Children(A, a)) <= 1
    /\ \A a \in A : requests[a.request].previous \in {b.request : b \in A} \cup {None}
Current(A) == IF A = {} THEN None ELSE (CHOOSE a \in A : Children(A, a) = {}).request

\* queue() refuses a second acceptance of one request.
QueueHolds(h) == Cardinality(AcceptedRequests(h)) = Cardinality(accepted[h])
Pending(h) == known[h] \ AcceptedRequests(h)

SourcesHold(r) == r \notin revised

\* A reviewer's signature over the proposal, until it expires.
Reviewed(r) == now < requests[r].expires

---------------------------------------------------------------------------
(* Requests *)

\* draft and the signed review: the proposal follows the current acceptance.
Drafted(h) == [previous |-> Current(accepted[h]), expires |-> now + ReviewLife]

\* submit; a target takes one pending request.
Submit(h) ==
    /\ Len(requests) < MaxRequests
    /\ ChainHolds(accepted[h]) /\ QueueHolds(h)
    /\ Pending(h) = {}
    /\ requests' = Append(requests, Drafted(h))
    /\ known' = [known EXCEPT ![h] = @ \cup {Len(requests) + 1}]
    /\ attempt' = [g \in Hosts |-> Append(attempt[g], NoAttempt)]
    /\ applied' = Append(applied, NoLease)
    /\ UNCHANGED <<now, revised, accepted, claim, run, order, crashes>>

\* A later event supersedes the source a request was drafted from.
Revise(r) ==
    /\ Cardinality(revised) < MaxRevisions /\ Troubles < MaxTroubles
    /\ r \notin revised
    /\ revised' = revised \cup {r}
    /\ UNCHANGED <<now, requests, known, accepted, journals, run, provider, crashes>>

\* claim(): an expired generation makes room for the next.
Claim(h, r) ==
    /\ QueueHolds(h) /\ r \in Pending(h)
    /\ ~(claim[h].state = "active" /\ claim[h].until > now)
    /\ claim' = [claim EXCEPT ![h] = [request |-> r, until |-> now + 1, state |-> "active"]]
    /\ UNCHANGED <<now, requests, revised, known, accepted, attempt, run, provider, crashes>>

ClaimLive(h) ==
    \/ claim[h].state = "active" /\ claim[h].until > now
    \/ claim[h].state = "completed"

Step(h, step) == run' = [run EXCEPT ![h].step = step]
Stop(h) == run' = [run EXCEPT ![h] = Idle]

---------------------------------------------------------------------------
(* execute(), under the journal's process lock *)

\* The provider still shows what an acceptance's receipt says.
Reconciled(r) == applied[r] # NoLease /\ order[Len(order)] = r

ReplayAccepted(h) ==
    LET r == claim[h].request IN
    /\ run[h].step = "idle" /\ ClaimLive(h)
    /\ r \in AcceptedRequests(h) /\ QueueHolds(h)
    /\ Reconciled(r)
    /\ claim[h].state # "completed"
    /\ claim' = [claim EXCEPT ![h].state = "completed"]
    /\ UNCHANGED <<now, requests, revised, known, accepted, attempt, run, provider, crashes>>

\* What execute() checks before it touches the provider.
Executable(h, r) ==
    /\ r \notin AcceptedRequests(h)
    /\ SourcesHold(r)
    /\ Reviewed(r)
    /\ ChainHolds(accepted[h]) /\ requests[r].previous = Current(accepted[h])

Start(h) ==
    LET r == claim[h].request IN
    /\ run[h].step = "idle" /\ ClaimLive(h) /\ Executable(h, r)
    /\ attempt' = IF attempt[h][r].state = "absent"
                  THEN [attempt EXCEPT ![h][r].state = "pending"] ELSE attempt
    /\ run' = [run EXCEPT ![h] = [step |-> "plan", request |-> r]]
    /\ UNCHANGED <<now, requests, revised, known, accepted, claim, provider, crashes>>

\* The provider plans onto its own last receipt, or again what it applied.
ProviderHead == IF order = <<>> THEN None ELSE order[Len(order)]
Plannable(r) == applied[r] # NoLease \/ requests[r].previous = ProviderHead

Plan(h) ==
    LET r == run[h].request IN
    /\ run[h].step = "plan"
    /\ attempt[h][r].plan \/ Plannable(r)
    /\ attempt' = [attempt EXCEPT ![h][r].plan = TRUE]
    /\ Step(h, "acquire")
    /\ UNCHANGED <<now, requests, revised, known, accepted, claim, provider, crashes>>

LeaseLive(lease) == lease # NoLease /\ now < lease[2] + 1

\* A stored live lease is kept; otherwise a new one, while the claim lasts.
Acquire(h) ==
    LET r == run[h].request IN
    /\ run[h].step = "acquire"
    /\ \/ LeaseLive(attempt[h][r].lease) /\ UNCHANGED attempt
       \/ /\ ~LeaseLive(attempt[h][r].lease) /\ claim[h].until > now
          /\ attempt' = [attempt EXCEPT ![h][r].lease = <<h, now>>]
    /\ Step(h, "apply")
    /\ UNCHANGED <<now, requests, revised, known, accepted, claim, provider, crashes>>

ProviderApply(r, lease) ==
    IF applied[r] # NoLease THEN UNCHANGED provider
    ELSE /\ requests[r].previous = ProviderHead
         /\ applied' = [applied EXCEPT ![r] = lease]
         /\ order' = Append(order, r)

\* _provider_receipt: the receipt must name the lease in hand.
ReceiptBinds(r, lease) == applied[r] = lease

\* A receipt under another lease is refused, and execute() fails.
Apply(h) ==
    LET r == run[h].request
        lease == attempt[h][r].lease
    IN  /\ run[h].step = "apply"
        /\ ProviderApply(r, lease)
        /\ IF ReceiptBinds(r, lease) \/ applied[r] = NoLease THEN Step(h, "receipt") ELSE Stop(h)
        /\ UNCHANGED <<now, requests, revised, known, accepted, journals, crashes>>

StoreReceipt(h) ==
    LET r == run[h].request IN
    /\ run[h].step = "receipt" /\ Reconciled(r)
    /\ attempt' = [attempt EXCEPT ![h][r].receipt = TRUE]
    /\ Step(h, "accept")
    /\ UNCHANGED <<now, requests, revised, known, accepted, claim, provider, crashes>>

Accept(h) ==
    LET r == run[h].request IN
    /\ run[h].step = "accept"
    /\ accepted' = [accepted EXCEPT ![h] = @ \cup {[request |-> r, host |-> h, at |-> now]}]
    /\ Step(h, "finish")
    /\ UNCHANGED <<now, requests, revised, known, journals, provider, crashes>>

Finish(h) ==
    /\ run[h].step = "finish"
    /\ attempt' = [attempt EXCEPT ![h][run[h].request].state = "completed"]
    /\ claim' = [claim EXCEPT ![h].state = IF claim[h].request = run[h].request
                                           THEN "completed" ELSE @]
    /\ Stop(h)
    /\ UNCHANGED <<now, requests, revised, known, accepted, provider, crashes>>

Crash(h) ==
    /\ run[h].step # "idle"
    /\ crashes < MaxCrashes /\ Troubles < MaxTroubles
    /\ Stop(h) /\ crashes' = crashes + 1
    /\ UNCHANGED <<now, requests, revised, known, accepted, journals, provider>>

Sync(h, g) ==
    /\ h # g
    /\ ~(known[h] \subseteq known[g] /\ accepted[h] \subseteq accepted[g])
    /\ known' = [known EXCEPT ![g] = @ \cup known[h]]
    /\ accepted' = [accepted EXCEPT ![g] = @ \cup accepted[h]]
    /\ UNCHANGED <<now, requests, revised, journals, run, provider, crashes>>

Tick ==
    /\ Troubles < MaxTroubles
    /\ now' = now + 1
    /\ UNCHANGED <<requests, revised, known, accepted, journals, run, provider, crashes>>

---------------------------------------------------------------------------
Init ==
    /\ now = 0 /\ requests = <<>> /\ revised = {} /\ crashes = 0
    /\ known = [h \in Hosts |-> {}] /\ accepted = [h \in Hosts |-> {}]
    /\ claim = [h \in Hosts |-> NoClaim] /\ attempt = [h \in Hosts |-> <<>>]
    /\ run = [h \in Hosts |-> Idle]
    /\ applied = <<>> /\ order = <<>>

Execute(h) == \/ Start(h) \/ Plan(h) \/ Acquire(h) \/ Apply(h)
              \/ StoreReceipt(h) \/ Accept(h) \/ Finish(h)

Next ==
    \/ \E h \in Hosts : \/ Submit(h) \/ ReplayAccepted(h) \/ Execute(h) \/ Crash(h)
                        \/ \E r \in known[h] : Claim(h, r)
                        \/ \E g \in Hosts : Sync(h, g)
    \/ \E r \in DOMAIN requests : Revise(r)
    \/ Tick

Spec == Init /\ [][Next]_vars

---------------------------------------------------------------------------
(* Properties *)

AllAccepted == UNION {accepted[h] : h \in Hosts}

\* Acceptances tell what the provider did, whichever hosts crash, retry or
\* race: at most one per request over all hosts, each for an effect the
\* provider holds, and together one chain in the provider's own order.
AcceptancesAreTrue ==
    /\ \A a, b \in AllAccepted : a.request = b.request => a = b
    /\ \A a \in AllAccepted : applied[a.request][1] = a.host
    /\ ChainHolds(AllAccepted)
    /\ \A n \in 1 .. Len(order) - 1 : order[n] \in {a.request : a \in AllAccepted}
===========================================================================
