----------------------------- MODULE HumanReview -----------------------------
(***************************************************************************)
(* Memory policy and human review (memory_policy.py, human_review.py): a   *)
(* candidate memory is evaluated against a checkpoint of the ledger; the   *)
(* plan is executed automatically, or only once a threshold of reviewers   *)
(* signed the exact request.  All of it is events of one ledger; the       *)
(* daemon's worker threads read the ledger and then append to it, and a    *)
(* crash loses the threads.                                                *)
(*                                                                         *)
(* One memory lane and one review group.  The lane is its length and what  *)
(* each record rests on; the rest of the projection is a counter `drift`   *)
(* that other memory and decision events move; `fresh` says whether the    *)
(* ledger's state hash is still the one the automatic plan was made at.    *)
(***************************************************************************)
EXTENDS Integers, FiniteSets, Sequences, SequencesExt, FiniteSetsExt

CONSTANTS Reviewers, Threshold, Workers, Actions,
    PlanLife, MaxOutstanding,
    MaxNow, MaxRequests, MaxDecisions, MaxDrift, MaxCrashes, MaxAutomatic,
    MaxTroubles     \* clock steps, drifts, crashes, revocations and automatic records together

VARIABLES
    now,
    drift,
    lane,       \* the records of the lane: the request each rests on, or None
    revoked,    \* reviewer -> time of the revocation, or Never
    automatic,  \* the plan of an eligible candidate that waits to be executed
    fresh,      \* nothing was appended to the ledger since that plan
    requests,   \* the review requests: plan, times, and the one they succeed
    decisions,  \* the signed decisions, in the order they were registered
    receipts,   \* the execution receipts
    work,       \* worker -> the call it serves
    crashes

ledgerVars == <<drift, lane, revoked, requests, decisions, receipts, fresh>>
vars == <<now, ledgerVars, automatic, work, crashes>>

None == 0
Never == MaxNow + 1
NoPlan == [position |-> None, checkpoint |-> <<>>, expires |-> 0]
Idle == [step |-> "idle", request |-> None, action |-> "none"]

Automatics == Len(SelectSeq(lane, LAMBDA r : r = None))
Trouble ==
    now + drift + crashes + Automatics + Cardinality({v \in Reviewers : revoked[v] # Never}) < MaxTroubles

---------------------------------------------------------------------------
(* Policy *)

\* memory_checkpoint: the lane and the projection as the ledger has them.
Checkpoint == <<Len(lane), drift>>

\* create_memory_candidate and evaluate_memory_candidate: the candidate names
\* the lane's head, the plan the checkpoint it was evaluated at.
PlanNow(position) ==
    [position |-> position, checkpoint |-> Checkpoint, expires |-> now + PlanLife]

\* _lane_reason: a candidate that does not follow the lane's head is quarantined.
LaneHolds(plan) == plan.position = Len(lane) + 1

\* An eligible candidate is planned.
PlanAutomatic ==
    /\ automatic = NoPlan /\ Automatics < MaxAutomatic /\ Trouble
    /\ automatic' = PlanNow(Len(lane) + 1)
    /\ fresh' = TRUE
    /\ UNCHANGED <<now, drift, lane, revoked, requests, decisions, receipts, work, crashes>>

\* execute: the ledger has not moved at all since the checkpoint.
ExecuteAutomatic ==
    /\ automatic # NoPlan
    /\ automatic' = NoPlan
    /\ lane' = IF now <= automatic.expires /\ fresh THEN Append(lane, None) ELSE lane
    /\ fresh' = FALSE
    /\ UNCHANGED <<now, drift, revoked, requests, decisions, receipts, work, crashes>>

---------------------------------------------------------------------------
(* Authority of the reviewers *)

Revoked(v, at) == revoked[v] <= at

\* _active_authorizations: every member of the group is authorised now.
GroupActive == \A v \in Reviewers : ~Revoked(v, now)

Revoke(v) ==
    /\ revoked[v] = Never /\ Trouble
    /\ revoked' = [revoked EXCEPT ![v] = now]
    /\ fresh' = FALSE
    /\ UNCHANGED <<now, drift, lane, automatic, requests, decisions, receipts, work, crashes>>

---------------------------------------------------------------------------
(* Requests and decisions *)

Request(plan, asked, previous) ==
    [plan |-> plan, asked |-> asked, expires |-> plan.expires, previous |-> previous]

RequestReview ==
    /\ Len(requests) < MaxRequests
    /\ GroupActive
    /\ requests' = Append(requests, Request(PlanNow(Len(lane) + 1), now, None))
    /\ fresh' = FALSE
    /\ UNCHANGED <<now, drift, lane, revoked, automatic, decisions, receipts, work, crashes>>

Of(r) == {i \in DOMAIN decisions : decisions[i].request = r}
By(r, v) == {i \in Of(r) : decisions[i].reviewer = v}
Heads(r, v) == {i \in By(r, v) : \A k \in By(r, v) : decisions[k].previous # i}
Terminal(i) == decisions[i].action \in {"accept", "edit", "reject"}

Closed(r) ==
    \/ \E x \in receipts : x.request = r
    \/ \E q \in DOMAIN requests : requests[q].previous = r

\* The requests a reviewer decided that are still open count against it.
Outstanding(v, r) ==
    {q \in DOMAIN requests \ {r} :
        By(q, v) # {} /\ ~Closed(q) /\ requests[q].expires >= now}

\* submit: the reviewer's signature, made at some time since the request; an
\* edit carries the replacement's own plan.
MayDecide(r, v) ==
    /\ GroupActive
    /\ now <= requests[r].expires
    /\ Cardinality(Outstanding(v, r)) < MaxOutstanding
    /\ Cardinality(Heads(r, v)) <= 1
    /\ \A i \in Heads(r, v) : ~Terminal(i)

SubmitChecks(w, r, v, a) ==
    /\ work[w] = Idle /\ Len(decisions) < MaxDecisions
    /\ MayDecide(r, v)
    /\ \E at \in requests[r].asked..now :
          work' = [work EXCEPT ![w] =
             [step |-> "submit", request |-> r, action |-> a, reviewer |-> v, at |-> at,
              plan |-> IF a = "edit" THEN PlanNow(Len(lane) + 1) ELSE NoPlan,
              previous |-> IF Heads(r, v) = {} THEN None ELSE CHOOSE i \in Heads(r, v) : TRUE]]
    /\ UNCHANGED <<now, ledgerVars, automatic, crashes>>

SubmitAppends(w) ==
    /\ work[w].step = "submit"
    /\ decisions' = Append(decisions,
          [request |-> work[w].request, reviewer |-> work[w].reviewer,
           action |-> work[w].action, plan |-> work[w].plan,
           at |-> work[w].at, previous |-> work[w].previous])
    /\ fresh' = FALSE
    /\ work' = [work EXCEPT ![w] = Idle]
    /\ UNCHANGED <<now, drift, lane, revoked, automatic, requests, receipts, crashes>>

\* state: a decision made after its author's revocation is kept and makes
\* the request conflict; so do two heads of one reviewer, or two winners.
Invalid(r) == {i \in Of(r) : Revoked(decisions[i].reviewer, decisions[i].at)}
Vote(i) == <<decisions[i].action, decisions[i].plan>>
Votes(r, x) == {v \in Reviewers : \E i \in Heads(r, v) : Vote(i) = x}
Winners(r) ==
    {x \in {Vote(i) : i \in {k \in Of(r) : Terminal(k)}} : Cardinality(Votes(r, x)) >= Threshold}
Conflict(r) ==
    \/ Invalid(r) # {}
    \/ \E v \in Reviewers : Cardinality(Heads(r, v)) > 1
    \/ Cardinality(Winners(r)) > 1

Status(r) ==
    IF \E x \in receipts : x.request = r THEN "executed"
    ELSE IF Closed(r) THEN "superseded"
    ELSE IF Conflict(r) THEN "conflict"
    ELSE IF Winners(r) # {} THEN "decided"
    ELSE IF now > requests[r].expires THEN "expired" ELSE "pending"

---------------------------------------------------------------------------
(* Execution *)

ExecuteLooks(w, r) ==
    /\ work[w] = Idle
    /\ Status(r) = "decided" /\ GroupActive
    /\ work' = [work EXCEPT ![w] =
          LET x == CHOOSE x \in Winners(r) : TRUE IN
          [step |-> x[1], request |-> r, action |-> x[1], plan |-> x[2]]]
    /\ UNCHANGED <<now, ledgerVars, automatic, crashes>>

UnchangedLane(plan) == plan.checkpoint[1] = Len(lane)

\* execute_reviewed: lane, evidence and projection are what the reviewers
\* saw; the append itself is refused if the ledger moved since they were read.
Unchanged(plan) == plan.checkpoint = Checkpoint

CommitMemory(w) ==
    /\ work[w].step = "accept"
    /\ LET plan == requests[work[w].request].plan IN
       IF now > plan.expires THEN
          /\ work' = [work EXCEPT ![w] = Idle] /\ UNCHANGED <<lane, fresh>>
       ELSE IF Unchanged(plan) THEN
          /\ lane' = Append(lane, work[w].request)
          /\ fresh' = FALSE
          /\ work' = [work EXCEPT ![w].step = "receipt"]
       ELSE /\ work' = [work EXCEPT ![w].step = "revalidate"]
            /\ UNCHANGED <<lane, fresh>>
    /\ UNCHANGED <<now, drift, revoked, automatic, requests, decisions, receipts, crashes>>

\* _create_revalidation_successor: the candidate as it is, at the checkpoint
\* of now; none if it is no longer reviewable.  Its id is derived from its
\* content, so that a repeated attempt at the same checkpoint finds it.
Revalidate(w) ==
    /\ work[w].step = "revalidate"
    /\ LET r == work[w].request
           plan == PlanNow(requests[r].plan.position)
           successor == Request(plan, now, r) IN
       IF LaneHolds(plan) /\ GroupActive /\ successor \notin ToSet(requests) /\ Len(requests) < MaxRequests
       THEN requests' = Append(requests, successor) /\ fresh' = FALSE
       ELSE UNCHANGED <<requests, fresh>>
    /\ work' = [work EXCEPT ![w] = Idle]
    /\ UNCHANGED <<now, drift, lane, revoked, automatic, decisions, receipts, crashes>>

\* An edit's replacement is a request of its own that needs a fresh
\* threshold; it is dated by the last of the deciding votes.
CommitEdit(w) ==
    /\ work[w].step = "edit"
    /\ LET r == work[w].request
           voters == {i \in Of(r) : Vote(i) = <<"edit", work[w].plan>>}
           asked == Max({decisions[i].at : i \in voters}) IN
       IF GroupActive /\ Len(requests) < MaxRequests
       THEN /\ requests' = Append(requests, Request(work[w].plan, asked, r))
            /\ fresh' = FALSE
            /\ work' = [work EXCEPT ![w].step = "receipt"]
       ELSE work' = [work EXCEPT ![w] = Idle] /\ UNCHANGED <<requests, fresh>>
    /\ UNCHANGED <<now, drift, lane, revoked, automatic, decisions, receipts, crashes>>

CommitReject(w) ==
    /\ work[w].step = "reject"
    /\ work' = [work EXCEPT ![w].step = "receipt"]
    /\ UNCHANGED <<now, ledgerVars, automatic, crashes>>

AppendReceipt(w) ==
    /\ work[w].step = "receipt"
    /\ receipts' = receipts \cup {[request |-> work[w].request, action |-> work[w].action, at |-> now]}
    /\ fresh' = FALSE
    /\ work' = [work EXCEPT ![w] = Idle]
    /\ UNCHANGED <<now, drift, lane, revoked, automatic, requests, decisions, crashes>>

---------------------------------------------------------------------------
Tick ==
    /\ now < MaxNow /\ Trouble
    /\ now' = now + 1
    /\ UNCHANGED <<ledgerVars, automatic, work, crashes>>

\* Other events of the ledger that the projection depends on.
OthersWrite ==
    /\ drift < MaxDrift /\ Trouble
    /\ drift' = drift + 1 /\ fresh' = FALSE
    /\ UNCHANGED <<now, lane, revoked, automatic, requests, decisions, receipts, work, crashes>>

Crash ==
    /\ crashes < MaxCrashes /\ Trouble /\ \E w \in Workers : work[w] # Idle
    /\ crashes' = crashes + 1
    /\ work' = [w \in Workers |-> Idle]
    /\ UNCHANGED <<now, ledgerVars, automatic>>

Init ==
    /\ now = 0 /\ drift = 0 /\ lane = <<>> /\ fresh = FALSE
    /\ revoked = [v \in Reviewers |-> Never]
    /\ automatic = NoPlan
    /\ requests = <<>> /\ decisions = <<>> /\ receipts = {}
    /\ work = [w \in Workers |-> Idle]
    /\ crashes = 0

Serve(w) ==
    \/ \E r \in DOMAIN requests, v \in Reviewers, a \in Actions : SubmitChecks(w, r, v, a)
    \/ SubmitAppends(w)
    \/ \E r \in DOMAIN requests : ExecuteLooks(w, r)
    \/ CommitMemory(w) \/ Revalidate(w) \/ CommitEdit(w) \/ CommitReject(w) \/ AppendReceipt(w)

Next ==
    \/ Tick \/ OthersWrite \/ Crash
    \/ PlanAutomatic \/ ExecuteAutomatic
    \/ \E v \in Reviewers : Revoke(v)
    \/ RequestReview
    \/ \E w \in Workers : Serve(w)

Spec == Init /\ [][Next]_vars

---------------------------------------------------------------------------
(* Properties *)

\* A record that rests on a review is appended onto exactly the lane and
\* projection its reviewers were shown, when a threshold of distinct
\* reviewers stands by "accept" for that very request, none of them signed
\* after its revocation, and no request is recorded twice; threads, later
\* drift, a revocation or an edit in between do not change that.
EffectsAreReviewed ==
    \A i \in DOMAIN lane' \ DOMAIN lane :
        lane'[i] # None =>
            LET r == lane'[i] IN
            /\ requests[r].plan.checkpoint = Checkpoint
            /\ Cardinality({v \in Reviewers : \E k \in By(r, v) :
                    decisions[k].action = "accept" /\ decisions[k].at <= revoked[v]}) >= Threshold
            /\ r \notin ToSet(lane)
            /\ requests[r].plan.position = i
==============================================================================
