-------------------------- MODULE CollectiveMemory --------------------------
(***************************************************************************)
(* Collective memory (collective_memory.py), its two directions:           *)
(*                                                                         *)
(*   - inbound, an importer follows the generations a remote source        *)
(*     exports and keeps them in a local source store; the ledger's        *)
(*     source.imported events decide which of them were accepted;          *)
(*   - outbound, a publisher journals a reviewed request, applies it to    *)
(*     the remote provider and authors one acceptance in the ledger.       *)
(*                                                                         *)
(* Every store operation is one transaction under the store's lock; the    *)
(* steps between them (remote calls, ledger appends) are not under it.     *)
(* The remote source and provider are external.  A generation's bytes and  *)
(* artifacts are its number; the ones whose artifacts do not follow their  *)
(* predecessor's are Faulty.                                               *)
(***************************************************************************)
EXTENDS Integers, FiniteSets, Sequences, SequencesExt, FiniteSetsExt

CONSTANTS Importers, Publishers,
    Parent,        \* generation -> the generation it follows, or None
    Faulty, Targets, MaxRequests, MaxTroubles

VARIABLES
    latest,     \* the generation the source exports now
    rows,       \* generation -> state of its row in the source store
    receipted,  \* generations whose row binds a receipt and an event
    imported,   \* the source.imported events of the ledger, in order
    importer,   \* importer -> step, generation, and what is left to do
    requests,   \* request -> target, predecessor and state of its journal row
    asked,      \* requests whose requested event is in the ledger
    accepted,   \* the acceptances of the ledger, in order
    stale,      \* requests one of whose source events was superseded
    drifted,    \* requests whose effect the provider no longer verifies
    effects,    \* the requests the provider applied, in order
    publisher,  \* publisher -> step, request, and what is left to do
    troubles    \* crashes, lost answers, superseded sources and drifts

sourceVars == <<latest, rows, receipted, imported, importer>>
publishVars == <<requests, asked, accepted, stale, drifted, effects, publisher>>
vars == <<sourceVars, publishVars, troubles>>

None == 0
Generations == DOMAIN Parent
Idle == [step |-> "idle", at |-> None, left |-> <<>>]

Trouble == troubles < MaxTroubles /\ troubles' = troubles + 1

---------------------------------------------------------------------------
(* Inbound: the source store *)

InState(s) == {g \in Generations : rows[g] = s}
Stored == Generations \ InState("absent")
Current == IF InState("active") = {} THEN None ELSE CHOOSE g \in InState("active") : TRUE

FollowsAnything(g) == g \notin Faulty

\* prepare's comparison of a manifest with the active one: predecessor,
\* artifact heads, implicit removals.
Follows(g) == Parent[g] = Current /\ g \notin Faulty

\* The walk of preview_catch_up: back from the exported generation to the
\* current one, oldest first.
Ancestry[g \in Generations \cup {None}] ==
    IF g = None THEN <<>> ELSE Append(Ancestry[Parent[g]], g)
Missing == SelectSeq(Ancestry[latest], LAMBDA g : g \notin ToSet(Ancestry[Current]))
Reaches == Current = None \/ Current \in ToSet(Ancestry[latest])

\* rebuild_projection: the rows form one line, the ledger accepted a prefix
\* of it, and at most one row waits for its event.
Accepted(G) == G \cap ToSet(imported)
LogHolds ==
    /\ Stored # {} => Cardinality({g \in Stored : Parent[g] = None}) = 1
    /\ \A g \in Stored : Cardinality({k \in Stored : Parent[k] = g}) <= 1
    /\ \A g \in Stored : Parent[g] \in Stored \cup {None}
    /\ \A g \in Stored \ Accepted(Stored) : g \notin receipted
    /\ \A g \in Accepted(Stored) : Parent[g] \in Accepted(Stored) \cup {None}
    /\ Cardinality(Stored \ Accepted(Stored)) <= 1
LogHead == {g \in Accepted(Stored) : \A k \in Accepted(Stored) : Parent[k] # g}
Projected(g) ==
    IF g \notin Stored THEN "absent"
    ELSE IF g \notin Accepted(Stored) THEN "prepared"
    ELSE IF g \in LogHead THEN "active" ELSE "superseded"

\* The projection agrees with source log and ledger (repair = False).
Verified ==
    /\ LogHolds
    /\ \A g \in Generations : rows[g] = Projected(g)
    /\ Accepted(Stored) \subseteq receipted

\* reconcile: a recorded receipt speaks of the current generation only.
Reconciled(g) == Verified /\ Current = g /\ g \in ToSet(imported)

---------------------------------------------------------------------------
(* Inbound: the adapter *)

At(p, s) == importer[p].step = s
Go(p, s) == importer' = [importer EXCEPT ![p].step = s]
End(p) == importer' = [importer EXCEPT ![p] = Idle]

Export ==
    /\ latest < Max(Generations)
    /\ latest' = latest + 1
    /\ UNCHANGED <<rows, receipted, imported, importer, publishVars, troubles>>

\* preview_catch_up
CatchUp(p) ==
    /\ At(p, "idle") /\ latest # None
    /\ Reaches /\ Missing # <<>>
    /\ importer' = [importer EXCEPT ![p] = [step |-> "apply", at |-> Head(Missing), left |-> Tail(Missing)]]
    /\ UNCHANGED <<latest, rows, receipted, imported, publishVars, troubles>>

\* A caller applies a preview it has kept, of any exported generation.
ApplyKept(p) ==
    /\ At(p, "idle")
    /\ \E g \in 1..latest :
          importer' = [importer EXCEPT ![p] = [step |-> "apply", at |-> g, left |-> <<>>]]
    /\ UNCHANGED <<latest, rows, receipted, imported, publishVars, troubles>>

ApplyNext(p) ==
    LET left == importer[p].left IN
    IF left = <<>> THEN Idle
    ELSE [step |-> "apply", at |-> Head(left), left |-> Tail(left)]

\* _apply, as far as the recorded receipt: one that was recorded is only
\* returned when it still describes the current generation.
ApplyLooks(p) ==
    /\ At(p, "apply")
    /\ LET g == importer[p].at IN
       importer' = [importer EXCEPT ![p] =
           IF g \notin receipted THEN [@ EXCEPT !.step = "fetched"]
           ELSE IF Reconciled(g) THEN ApplyNext(p)
           ELSE Idle]
    /\ UNCHANGED <<latest, rows, receipted, imported, publishVars, troubles>>

\* _fetch fails: the remote is unavailable, a page or object is invalid.
FetchFails(p) ==
    /\ At(p, "fetched") /\ Trouble
    /\ End(p)
    /\ UNCHANGED <<latest, rows, receipted, imported, publishVars>>

\* prepare; the row of an earlier attempt that has no receipt yet ends the
\* apply (only recover continues it).
Prepare(p) ==
    /\ At(p, "fetched")
    /\ LET g == importer[p].at IN
       \/ /\ rows[g] = "absent" /\ Follows(g)
          /\ rows' = [rows EXCEPT ![g] = "prepared"]
          /\ Go(p, "append")
       \/ /\ rows[g] = "absent" /\ ~Follows(g)
          /\ End(p) /\ UNCHANGED rows
       \/ /\ rows[g] # "absent"
          /\ importer' = [importer EXCEPT ![p] = IF g \in receipted THEN ApplyNext(p) ELSE Idle]
          /\ UNCHANGED rows
    /\ UNCHANGED <<latest, receipted, imported, publishVars, troubles>>

\* The ledger's append is idempotent on the generation's event id.
AppendImport(p) ==
    /\ importer[p].step \in {"append", "reappend"}
    /\ imported' = IF importer[p].at \in ToSet(imported) THEN imported
                   ELSE Append(imported, importer[p].at)
    /\ Go(p, IF At(p, "append") THEN "finalize" ELSE "refinalize")
    /\ UNCHANGED <<latest, rows, receipted, publishVars, troubles>>

\* finalize: whatever is active is superseded, and the row activated if it
\* is still prepared; the check on the number of changes counts both.
Finalized(g) ==
    IF rows[g] = "active" THEN rows
    ELSE [k \in Generations |->
            IF rows[k] = "active" THEN "superseded"
            ELSE IF k = g /\ rows[g] = "prepared" THEN "active" ELSE rows[k]]

Changes(g) == Finalized(g) # rows \/ rows[g] = "active"

Finalize(p) ==
    /\ importer[p].step \in {"finalize", "refinalize"}
    /\ LET g == importer[p].at  left == importer[p].left IN
       /\ rows' = Finalized(g)
       /\ receipted' = IF rows[g] = "prepared" THEN receipted \cup {g} ELSE receipted
       /\ importer' = [importer EXCEPT ![p] =
             IF ~Changes(g) \/ left = <<>> THEN Idle
             ELSE [step |-> IF At(p, "finalize") THEN "apply" ELSE "reappend",
                   at |-> Head(left), left |-> Tail(left)]]
    /\ UNCHANGED <<latest, imported, publishVars, troubles>>

\* recover: the prepared rows as they are read now.
Recover(p) ==
    /\ At(p, "idle") /\ InState("prepared") # {}
    /\ LET pending == SetToSortSeq(InState("prepared"), <) IN
       importer' = [importer EXCEPT ![p] =
          [step |-> "reappend", at |-> Head(pending), left |-> Tail(pending)]]
    /\ UNCHANGED <<latest, rows, receipted, imported, publishVars, troubles>>

Rebuild(p) ==
    /\ At(p, "idle") /\ LogHolds
    /\ rows' = [g \in Generations |-> Projected(g)]
    /\ receipted' = receipted \cup Accepted(Stored)
    /\ rows' # rows \/ receipted' # receipted
    /\ UNCHANGED <<latest, imported, importer, publishVars, troubles>>

ImporterCrash(p) ==
    /\ ~At(p, "idle") /\ Trouble
    /\ End(p)
    /\ UNCHANGED <<latest, rows, receipted, imported, publishVars>>

---------------------------------------------------------------------------
(* Outbound: the remote provider *)

OnTarget(s, t) == SelectSeq(s, LAMBDA r : requests[r].target = t)
HeadOf(s, t) == LET q == OnTarget(s, t) IN IF q = <<>> THEN None ELSE Last(q)

\* A plan is made for the state of the target its draft names; the provider
\* applies it onto that state only.
PlannedFor(r) == requests[r].previous
Takes(r) == HeadOf(effects, requests[r].target) = PlannedFor(r)

\* The receipt of a request's own effect, and of no other.
ReceiptBinds(r) == r \in ToSet(effects)
Reconciles(r) == ReceiptBinds(r) /\ r \notin drifted

---------------------------------------------------------------------------
(* Outbound: the publisher *)

Busy(p, s) == publisher[p].step = s
Turn(p, s) == publisher' = [publisher EXCEPT ![p].step = s]
Stop(p) == publisher' = [publisher EXCEPT ![p] = Idle]

\* The unique index over the rows that are not accepted yet.
TargetPending(t) ==
    \E r \in DOMAIN requests :
        requests[r].target = t /\ requests[r].state \notin {"drafted", "accepted"}

\* A draft names the receipt its target's head had when it was written.
Drafted(t) == [target |-> t, previous |-> HeadOf(effects, t), state |-> "drafted"]

\* _verify_sources: the source events a draft rests on are still heads.
SourcesHold(r) == r \notin stale

\* submit, as far as the provider's plan: preview, consent and review hold.
Submit(p, t) ==
    /\ Busy(p, "idle") /\ Len(requests) < MaxRequests
    /\ requests' = Append(requests, Drafted(t))
    /\ publisher' = [publisher EXCEPT ![p] = [step |-> "planned", at |-> Len(requests) + 1, left |-> <<>>]]
    /\ UNCHANGED <<sourceVars, asked, accepted, stale, drifted, effects, troubles>>

\* journal.prepare
JournalPrepare(p) ==
    /\ Busy(p, "planned")
    /\ LET r == publisher[p].at IN
       IF TargetPending(requests[r].target)
       THEN Stop(p) /\ UNCHANGED requests
       ELSE /\ requests' = [requests EXCEPT ![r].state = "prepared"]
            /\ Turn(p, "queue")
    /\ UNCHANGED <<sourceVars, asked, accepted, stale, drifted, effects, troubles>>

\* _predecessor_acceptance: exactly one acceptance of the receipt named.
PredecessorKnown(r) ==
    requests[r].previous = None \/ Cardinality({i \in DOMAIN accepted : accepted[i] = requests[r].previous}) = 1

\* _queue: the request's event, then its row.
Queue(p) ==
    /\ publisher[p].step \in {"queue", "requeue"}
    /\ LET r == publisher[p].at IN
       IF PredecessorKnown(r)
       THEN asked' = asked \cup {r} /\ Turn(p, IF Busy(p, "queue") THEN "mark" ELSE "remark")
       ELSE Stop(p) /\ UNCHANGED asked
    /\ UNCHANGED <<sourceVars, requests, accepted, stale, drifted, effects, troubles>>

MarkQueued(p) ==
    /\ publisher[p].step \in {"mark", "remark"}
    /\ LET r == publisher[p].at IN
       /\ requests' = IF requests[r].state = "prepared" THEN [requests EXCEPT ![r].state = "queued"] ELSE requests
       /\ IF Busy(p, "mark") THEN Stop(p) ELSE Turn(p, "execute")
    /\ UNCHANGED <<sourceVars, asked, accepted, stale, drifted, effects, troubles>>

Pending == {r \in DOMAIN requests : requests[r].state \in {"prepared", "queued", "effected"}}
Opening(r) == IF requests[r].state = "prepared" THEN "requeue" ELSE "execute"

\* execute on a request's event.
Execute(p) ==
    /\ Busy(p, "idle")
    /\ \E r \in DOMAIN requests :
          /\ requests[r].state # "drafted"
          /\ publisher' = [publisher EXCEPT ![p] = [step |-> Opening(r), at |-> r, left |-> <<>>]]
    /\ UNCHANGED <<sourceVars, requests, asked, accepted, stale, drifted, effects, troubles>>

\* recover: each pending request in turn; a failure ends it.
RecoverRequests(p) ==
    /\ Busy(p, "idle") /\ Pending # {}
    /\ LET todo == SetToSortSeq(Pending, <) IN
       publisher' = [publisher EXCEPT ![p] =
          [step |-> Opening(Head(todo)), at |-> Head(todo), left |-> Tail(todo)]]
    /\ UNCHANGED <<sourceVars, requests, asked, accepted, stale, drifted, effects, troubles>>

\* The request of the event, its sources, and the state to continue from.
ExecuteLooks(p) ==
    /\ Busy(p, "execute")
    /\ LET r == publisher[p].at IN
       IF r \notin asked \/ ~SourcesHold(r) THEN Stop(p)
       ELSE Turn(p, CASE requests[r].state = "queued" -> "apply"
                      [] requests[r].state = "effected" -> "verify"
                      [] OTHER -> "reread")
    /\ UNCHANGED <<sourceVars, requests, asked, accepted, stale, drifted, effects, troubles>>

\* The provider's answer to an exact replay is the receipt of the first.
Apply(p) ==
    /\ Busy(p, "apply")
    /\ LET r == publisher[p].at IN
       \/ r \in ToSet(effects) /\ Turn(p, "effect") /\ UNCHANGED effects
       \/ /\ r \notin ToSet(effects) /\ Takes(r)
          /\ effects' = Append(effects, r)
          /\ Turn(p, "effect")
       \/ r \notin ToSet(effects) /\ ~Takes(r) /\ Stop(p) /\ UNCHANGED effects
    /\ UNCHANGED <<sourceVars, requests, asked, accepted, stale, drifted, troubles>>

\* mark_effected, after a fresh reconciliation.
MarkEffected(p) ==
    /\ Busy(p, "effect")
    /\ LET r == publisher[p].at IN
       IF Reconciles(r) /\ requests[r].state \in {"queued", "effected"}
       THEN requests' = [requests EXCEPT ![r].state = "effected"] /\ Turn(p, "verify")
       ELSE Stop(p) /\ UNCHANGED requests
    /\ UNCHANGED <<sourceVars, asked, accepted, stale, drifted, effects, troubles>>

\* A fresh reconciliation again, then the one acceptance event.
Accept(p) ==
    /\ Busy(p, "verify")
    /\ LET r == publisher[p].at IN
       IF Reconciles(r) /\ PredecessorKnown(r)
       THEN /\ accepted' = IF r \in ToSet(accepted) THEN accepted ELSE Append(accepted, r)
            /\ Turn(p, "close")
       ELSE Stop(p) /\ UNCHANGED accepted
    /\ UNCHANGED <<sourceVars, requests, asked, stale, drifted, effects, troubles>>

After(p) ==
    LET left == publisher[p].left IN
    IF left = <<>> THEN Idle ELSE [step |-> Opening(Head(left)), at |-> Head(left), left |-> Tail(left)]

MarkAccepted(p) ==
    /\ Busy(p, "close")
    /\ requests' = [requests EXCEPT ![publisher[p].at].state = "accepted"]
    /\ publisher' = [publisher EXCEPT ![p] = After(p)]
    /\ UNCHANGED <<sourceVars, asked, accepted, stale, drifted, effects, troubles>>

\* An accepted request is answered only while its effect still verifies.
Reread(p) ==
    /\ Busy(p, "reread")
    /\ LET r == publisher[p].at IN
       IF Reconciles(r) /\ r \in ToSet(accepted)
       THEN publisher' = [publisher EXCEPT ![p] = After(p)] ELSE Stop(p)
    /\ UNCHANGED <<sourceVars, requests, asked, accepted, stale, drifted, effects, troubles>>

\* The process dies, or the remote call it is in is not answered: what the
\* provider was asked to do may or may not have happened.
PublisherCrash(p) ==
    /\ ~Busy(p, "idle") /\ Trouble
    /\ LET r == publisher[p].at IN
       \/ UNCHANGED effects
       \/ /\ Busy(p, "apply") /\ r \notin ToSet(effects) /\ Takes(r)
          /\ effects' = Append(effects, r)
    /\ Stop(p)
    /\ UNCHANGED <<sourceVars, requests, asked, accepted, stale, drifted>>

Supersede(r) ==
    /\ r \notin stale /\ Trouble
    /\ stale' = stale \cup {r}
    /\ UNCHANGED <<sourceVars, requests, asked, accepted, drifted, effects, publisher>>

Drift(r) ==
    /\ r \in ToSet(effects) \ drifted /\ Trouble
    /\ drifted' = drifted \cup {r}
    /\ UNCHANGED <<sourceVars, requests, asked, accepted, stale, effects, publisher>>

---------------------------------------------------------------------------
Init ==
    /\ latest = None
    /\ rows = [g \in Generations |-> "absent"] /\ receipted = {} /\ imported = <<>>
    /\ importer = [p \in Importers |-> Idle]
    /\ requests = <<>> /\ asked = {} /\ accepted = <<>>
    /\ stale = {} /\ drifted = {} /\ effects = <<>>
    /\ publisher = [p \in Publishers |-> Idle]
    /\ troubles = 0

Inbound(p) ==
    \/ CatchUp(p) \/ ApplyKept(p) \/ ApplyLooks(p) \/ FetchFails(p) \/ Prepare(p)
    \/ AppendImport(p) \/ Finalize(p) \/ Recover(p) \/ Rebuild(p) \/ ImporterCrash(p)

Outbound(p) ==
    \/ \E t \in Targets : Submit(p, t)
    \/ JournalPrepare(p) \/ Queue(p) \/ MarkQueued(p) \/ Execute(p) \/ RecoverRequests(p)
    \/ ExecuteLooks(p) \/ Apply(p) \/ MarkEffected(p) \/ Accept(p) \/ MarkAccepted(p)
    \/ Reread(p) \/ PublisherCrash(p)

Next ==
    \/ Export
    \/ \E p \in Importers : Inbound(p)
    \/ \E p \in Publishers : Outbound(p)
    \/ \E r \in DOMAIN requests : Supersede(r) \/ Drift(r)

Spec == Init /\ [][Next]_vars

---------------------------------------------------------------------------
(* Properties *)

\* The accepted generations form one line, and no row is active but the last of
\* them.
InOneLine ==
    /\ \A i \in DOMAIN imported : Parent[imported[i]] = IF i = 1 THEN None ELSE imported[i - 1]
    /\ Cardinality(InState("active")) <= 1

\* While generations are imported by one importer at a time: the active one is
\* the last accepted, or, between the ledger's append and the switch, the one
\* before, wherever the import is cut (collective_memory.py: finalize, recover;
\* docs/dm036-collective-memory.md, "Inbound recovery").
HeadIsLastAccepted ==
    imported # <<>> =>
        LET head == Last(imported) IN
        /\ InOneLine
        /\ Current = head \/ (Current = Parent[head] /\ rows[head] = "prepared")

\* However many import: whatever the interleaving did to the rows, the source log
\* and the ledger agree on one line of accepted generations, so a rebuild is
\* possible and makes its last one the head (collective_memory.py:
\* rebuild_projection).
HeadCanBeRestored ==
    /\ InOneLine /\ LogHolds
    /\ ToSet(imported) \subseteq Stored
    /\ imported # <<>> => LogHead = {Last(imported)}
    /\ receipted \subseteq ToSet(imported)

\* No row of either store claims what ledger and provider do not hold: a
\* receipt rests on an import event, a queued row on the request's event, an
\* effected one on an effect that happened once and on the head it was
\* planned for, an accepted one on exactly one acceptance, whose predecessor
\* was accepted before.
RowsClaimNoMore ==
    /\ receipted \subseteq ToSet(imported)
    /\ \A g \in Generations : rows[g] \in {"active", "superseded"} => g \in receipted
    /\ \A r \in DOMAIN requests :
          /\ requests[r].state \in {"queued", "effected", "accepted"} => r \in asked
          /\ requests[r].state \in {"effected", "accepted"} => r \in ToSet(effects)
          /\ requests[r].state = "accepted" => r \in ToSet(accepted)
    /\ \A t \in Targets :
          /\ IsPrefix(OnTarget(accepted, t), OnTarget(effects, t))
          /\ Len(OnTarget(effects, t)) <= Len(OnTarget(accepted, t)) + 1
=============================================================================
