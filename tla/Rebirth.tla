------------------------------ MODULE Rebirth ------------------------------
(***************************************************************************)
(* The operator's ceremonies over one being's authority                    *)
(* (operator_rebirth.py, authority_epochs.py, identity.py): embodiments    *)
(* are enrolled and retired by a quorum of the root holders, and a lost or *)
(* forked root is replaced by the recovery holders. An authority is the    *)
(* signed manifest with the control state it is anchored in; each host     *)
(* keeps a bundle: its authority, the history that led there, the control  *)
(* artifacts and the peers it talks to.                                    *)
(*                                                                         *)
(* Nothing coordinates the hosts or the holders: the intents, shares and   *)
(* activations are files the operator carries. Holders keep no state, so   *)
(* two intents on one base can both reach their quorum. A host is named by *)
(* the embodiment that lives on it. Signatures are modelled by who signed. *)
(***************************************************************************)
EXTENDS Naturals, Sequences, FiniteSets, SequencesExt, FiniteSetsExt

CONSTANTS
    Embodiments,      \* embodiment ids, and so hosts
    First,            \* the embodiment of the first manifest
    Policies,         \* root policies: sets of holders
    Root,             \* the policy of the genesis
    RecoveryHolders,  \* the recovery policy
    Threshold,        \* of every policy
    None,
    Plans,            \* the ceremonies an operator starts: sequences of their kinds
    MaxEvents         \* bound: events of a host

VARIABLES
    bundles,     \* embodiment |-> its host's runtime bundle, or None
    intents,     \* frozen intents |-> who has signed
    done,        \* aggregated: retirements, activations and recovery artifacts
    used,        \* embodiment ids generated so far
    events,      \* ledger of each host: [by, under]
    plan         \* what the operator has yet to start

vars == <<bundles, intents, done, used, events, plan>>

-----------------------------------------------------------------------------
(* Control states and authorities. *)

Artifact(kind, prev, what, root) == [kind |-> kind, prev |-> prev, what |-> what, root |-> root]

Genesis == Artifact("genesis", {}, {}, Root)
GenesisState == [head |-> Genesis, generation |-> 0, root |-> Root, revoked |-> {}]

\* verify_successor for a revocation: it names the head it follows.
Revoked(state, e) ==
    [state EXCEPT !.head = Artifact("revocation", {state.head}, {e}, None),
                  !.revoked = @ \cup {e}]

\* prepare_recovery, and the state verify_recovery derives from it.
Recovered(states, ids, root) ==
    [head |-> Artifact("recovery", {s.head : s \in states}, ids, root),
     generation |-> Max({s.generation : s \in states}) + 1,
     root |-> root,
     revoked |-> ids \cup UNION {s.revoked : s \in states}]

Active(authority) == {e \in DOMAIN authority.rows : authority.rows[e] = "active"}

FirstAuthority ==
    [revision |-> 0, state |-> GenesisState, rows |-> (First :> "active")]

\* A retirement revokes its members one after the other, in the order of ids.
Revocations(ids) == SetToSeq(ids)
RevokedAll(state, ids) == FoldLeft(Revoked, state, Revocations(ids))

-----------------------------------------------------------------------------
(* Intents: what the holders are asked to sign, and what it leads to. *)

Intent(kind, base, known, ids, state) ==
    [kind |-> kind, base |-> base, known |-> known, ids |-> ids, state |-> state]

Later(i) == [i.base EXCEPT !.revision = @ + 1]
As(status, ids) == [e \in ids |-> status]

\* verify_embodiment_enrollment: the same members and one more.
Enrolled(i) == [Later(i) EXCEPT !.rows = As("active", i.ids) @@ @]

\* verify_embodiment_retirement: the members are revoked and marked.
Retired(i) == [Later(i) EXCEPT !.state = i.state, !.rows = As("retired", i.ids) @@ @]

\* verify_recovery_rebirth: one new member under the recovered state.
Reborn(i) == [Later(i) EXCEPT !.state = i.state, !.rows = As("active", i.ids)]

\* The one authority that RootHistoryAuthority lets follow a transition.
Successor(i) ==
    CASE i.kind = "enroll" -> Enrolled(i)
      [] i.kind = "retire" -> Retired(i)
      [] i.kind = "reborn" -> Reborn(i)

\* Whose signatures an intent needs: sets of holders, each with its threshold.
Signatories(i) ==
    CASE i.kind \in {"enroll", "retire"} -> {i.base.state.root}
      [] i.kind = "recover" -> {RecoveryHolders, i.state.root}
      [] i.kind = "reborn" -> {i.state.root}

Hosts == {e \in Embodiments : bundles[e] # None}

Freeze(i) ==
    /\ i \notin DOMAIN intents \cup done
    /\ plan # << >> /\ i.kind = Head(plan) /\ plan' = Tail(plan)
    /\ intents' = (i :> {}) @@ intents

\* create_target_preparation: the embodiment id is generated, and so is new.
Unused == Embodiments \ used
FreshId == CHOOSE e \in Unused : TRUE

\* create_distributed_enrollment_intent on the request of the preparation.
EnrollIntent(g, e) ==
    /\ g \in Hosts /\ Unused # {} /\ e = FreshId
    /\ Freeze(Intent("enroll", bundles[g].authority, {}, {e}, bundles[g].authority.state))
    /\ used' = used \cup {e}
    /\ UNCHANGED <<bundles, done, events>>

\* create_retirement_intent
RetireIntent(g, ids) ==
    LET base == bundles[g].authority IN
    /\ g \in Hosts /\ ids # {} /\ ids \subseteq Active(base)
    /\ Freeze(Intent("retire", base, {}, ids, RevokedAll(base.state, ids)))
    /\ UNCHANGED <<bundles, done, used, events>>

\* create_distributed_recovery_intent over the previous authority and the fork
\* branches the operator knows of (_known_control_authorities).
RecoverIntent(g, branches, root) ==
    LET known == {bundles[b].authority : b \in branches}
        ids == UNION {Active(a) : a \in known}
    IN
    /\ g \in Hosts /\ g \in branches /\ branches \subseteq Hosts
    /\ \A a, b \in known : a.state.head = b.state.head => a = b
    /\ root \cap bundles[g].authority.state.root = {}
    /\ Freeze(Intent("recover", bundles[g].authority, known, ids,
                     Recovered({a.state : a \in known}, ids, root)))
    /\ UNCHANGED <<bundles, done, used, events>>

\* recovery_request_base: verify_recovery_from_anchor, complete revocation, no
\* holder in common.
RequestBase(previous, r) ==
    /\ previous.state.head \in r.state.head.prev
    /\ previous.state.revoked \subseteq r.state.revoked
    /\ Active(previous) \subseteq r.state.head.what
    /\ previous.state.root \cap r.state.root = {}

\* create_recovery_target_preparation and
\* create_distributed_recovery_authorization_intent.
RebornIntent(g, r, e) ==
    /\ g \in Hosts /\ Unused # {} /\ e = FreshId /\ r \in done /\ r.kind = "recover"
    /\ RequestBase(bundles[g].authority, r)
    /\ Freeze(Intent("reborn", bundles[g].authority, {}, {e}, r.state))
    /\ used' = used \cup {e}
    /\ UNCHANGED <<bundles, done, events>>

\* A holder rebuilds the intent from the authority it names and signs it.
Signs(kind, i, k) ==
    /\ i \in DOMAIN intents /\ i.kind = kind
    /\ k \in UNION Signatories(i) \ intents[i]
    /\ intents' = [intents EXCEPT ![i] = @ \cup {k}]
    /\ UNCHANGED <<bundles, done, used, events, plan>>

SignEnrollment(i, k) == Signs("enroll", i, k)
SignRetirement(i, k) == Signs("retire", i, k)
SignRecovery(i, k) == Signs("recover", i, k)
SignRebirth(i, k) == Signs("reborn", i, k)

\* _verify_threshold, for each role.
Quorum(i) == \A p \in Signatories(i) : Cardinality(intents[i] \cap p) >= Threshold

\* The quorum is there, and the successor verifies.
Aggregates(kind, i) ==
    /\ i \in DOMAIN intents /\ i.kind = kind /\ Quorum(i)
    /\ done' = done \cup {i}
    /\ intents' = Restrict(intents, DOMAIN intents \ {i})
    /\ UNCHANGED <<bundles, used, events, plan>>

\* The new member holds no revoked credential.
AggregateEnrollment(i) == Aggregates("enroll", i) /\ i.ids \cap i.state.revoked = {}
AggregateRetirement(i) == Aggregates("retire", i)

\* The artifact is verified against every known state, and once more as the base
\* of a request.
AggregateRecovery(i) == Aggregates("recover", i) /\ RequestBase(i.base, i)
AggregateRebirth(i) == Aggregates("reborn", i) /\ i.ids \cap i.state.revoked = {}

\* No share and no aggregate is made once the intent has expired.
Lapse(i) ==
    /\ i \in DOMAIN intents
    /\ intents' = Restrict(intents, DOMAIN intents \ {i})
    /\ UNCHANGED <<bundles, done, used, events, plan>>

-----------------------------------------------------------------------------
(* Bundles. *)

Bundle(authority, history, controls, targets) ==
    [authority |-> authority, history |-> history, controls |-> controls, targets |-> targets]

\* ControlChain.add: the heads after one more artifact, {} when it is refused.
ChainAdd(states, a) ==
    IF a.kind = "recovery"
    THEN IF a.prev = {s.head : s \in states} THEN {Recovered(states, a.what, a.root)} ELSE {}
    ELSE LET from == {s \in states : a.prev = {s.head}} IN
         (states \ from) \cup {Revoked(s, CHOOSE e \in a.what : TRUE) : s \in from}
Replay(controls) == FoldLeft(ChainAdd, {GenesisState}, Tail(controls))

\* authority_from_runtime_bundle: the artifacts lead to the authority's state, and
\* every step of the history verifies (RootHistoryAuthority).
Verifies(b) ==
    /\ Replay(b.controls) = {b.authority.state}
    /\ \A n \in DOMAIN b.history :
        LET next == IF n < Len(b.history) THEN b.history[n + 1].base ELSE b.authority IN
        b.history[n] \in done /\ Successor(b.history[n]) = next

\* _validate_runtime_peer_transport with exact_targets.
ExactTargets(b, self) ==
    self \in Active(b.authority) /\ b.targets = Active(b.authority) \ {self}

ControlsOf(i) ==
    CASE i.kind = "enroll" -> << >>
      [] i.kind = "retire" ->
            LET ids == Revocations(i.ids) IN
            [n \in DOMAIN ids |-> FoldLeft(Revoked, i.base.state, SubSeq(ids, 1, n)).head]
      [] i.kind = "reborn" -> << i.state.head >>

Advanced(b, i, targets) ==
    Bundle(Successor(i), Append(b.history, i), b.controls \o ControlsOf(i), targets)

\* The bundle's authority is the exact base of the transition.
Applies(b, i) == i \in done /\ b.authority = i.base

\* apply_activation_to_runtime_bundle at a peer that is there already.
Advance(h, i) ==
    /\ h \in Hosts /\ i.kind = "enroll" /\ Applies(bundles[h], i)
    /\ ExactTargets(bundles[h], h)
    /\ LET b == Advanced(bundles[h], i, bundles[h].targets \cup i.ids) IN
        Verifies(b) /\ bundles' = [bundles EXCEPT ![h] = b]
    /\ UNCHANGED <<intents, done, used, events, plan>>

\* apply_retirement_to_runtime_bundle: never at the body that is retired.
Retire(h, i) ==
    /\ h \in Hosts \ i.ids /\ i.kind = "retire" /\ Applies(bundles[h], i)
    /\ LET b == Advanced(bundles[h], i, bundles[h].targets \ i.ids) IN
        Verifies(b) /\ bundles' = [bundles EXCEPT ![h] = b]
    /\ UNCHANGED <<intents, done, used, events, plan>>

\* _activate_target_runtime on the new host, with the bundle of host g.
ActivationBundle(g, i) == Advanced(bundles[g], i, IF i.kind = "enroll" THEN Active(i.base) ELSE {})

Activate(e, g, i) ==
    /\ g \in Hosts /\ e \notin Hosts /\ i.ids = {e} /\ i.kind \in {"enroll", "reborn"}
    /\ Applies(bundles[g], i) /\ ExactTargets(bundles[g], g)
    /\ Verifies(ActivationBundle(g, i)) /\ ExactTargets(ActivationBundle(g, i), e)
    /\ bundles' = [bundles EXCEPT ![e] = ActivationBundle(g, i)]
    /\ UNCHANGED <<intents, done, used, events, plan>>

-----------------------------------------------------------------------------
(* Ledgers: what a host said, under which manifest. *)

Accepted(b) == {b.history[n].base : n \in DOMAIN b.history} \cup {b.authority}

Speak(h) ==
    /\ h \in Hosts /\ h \in Active(bundles[h].authority)
    /\ Cardinality(events[h]) < MaxEvents
    /\ events' = [events EXCEPT ![h] = @ \cup {[by |-> h, under |-> bundles[h].authority]}]
    /\ UNCHANGED <<bundles, intents, done, used, plan>>

Lineage(e, g) ==
    bundles[g].authority \in Accepted(bundles[e]) \ {bundles[e].authority}

\* restore_recovery_ledger: an untouched ledger takes the predecessor's events,
\* all of which its own history must verify.
Restore(e, g) ==
    /\ e \in Hosts /\ g \in Hosts /\ Lineage(e, g)
    /\ g \in Active(bundles[g].authority)
    /\ events[e] \subseteq events[g] /\ events[e] # events[g]
    /\ \A v \in events[g] : v.under \in Accepted(bundles[e])
    /\ events' = [events EXCEPT ![e] = events[g]]
    /\ UNCHANGED <<bundles, intents, done, used, plan>>

-----------------------------------------------------------------------------
FirstBundle == Bundle(FirstAuthority, << >>, <<Genesis>>, {})

Init ==
    /\ bundles = [e \in Embodiments |-> IF e = First THEN FirstBundle ELSE None]
    /\ intents = << >> /\ done = {} /\ used = {First}
    /\ events = [e \in Embodiments |-> {}]
    /\ plan \in Plans

Next ==
    \/ \E g, e \in Embodiments :
        \/ EnrollIntent(g, e)
        \/ Restore(e, g)
        \/ \E r \in done : RebornIntent(g, r, e)
        \/ \E i \in done : Activate(e, g, i)
    \/ \E g \in Embodiments :
        \/ \E ids \in SUBSET Embodiments : RetireIntent(g, ids)
        \/ \E branches \in SUBSET Embodiments, root \in Policies : RecoverIntent(g, branches, root)
        \/ \E i \in done : Advance(g, i) \/ Retire(g, i)
        \/ Speak(g)
    \/ \E i \in DOMAIN intents :
        \/ \E k \in UNION Signatories(i) :
            \/ SignEnrollment(i, k) \/ SignRetirement(i, k)
            \/ SignRecovery(i, k) \/ SignRebirth(i, k)
        \/ AggregateEnrollment(i) \/ AggregateRetirement(i)
        \/ AggregateRecovery(i) \/ AggregateRebirth(i)
        \/ Lapse(i)

Spec == Init /\ [][Next]_vars

-----------------------------------------------------------------------------
(* Properties. *)

Past(b, a) == LET n == CHOOSE k \in DOMAIN b.history : b.history[k].base = a IN SubSeq(b.history, 1, n - 1)
PastOf(b, a) == IF a = b.authority THEN b.history ELSE Past(b, a)

\* An authority has one past: two hosts that both accept a manifest were led to
\* it by the same signed steps, however the operator carried the files around
\* (RootHistoryAuthority). So the ledger of a predecessor always verifies on the
\* host that is to be restored from it.
HistoriesAgree ==
    \A g, h \in Hosts :
        /\ \A a \in Accepted(bundles[g]) \cap Accepted(bundles[h]) :
            PastOf(bundles[g], a) = PastOf(bundles[h], a)
        /\ Lineage(h, g) => \A v \in events[g] : v.under \in Accepted(bundles[h])

\* What was revoked stays out: no host counts an embodiment as active, or talks to
\* it, that its own control state has revoked; what a recovery found active on any
\* branch it cites is never active again under the recovered root; and everyone the
\* host has known as active under an earlier root is revoked under the present one,
\* also whoever was enrolled while the recovery was being signed.
RevokedStaysOut ==
    \A h \in Hosts : LET b == bundles[h] IN
        /\ Active(b.authority) \cap b.authority.state.revoked = {}
        /\ b.targets \subseteq Active(b.authority) \ {h}
        /\ \A r \in done : r.kind = "recover" /\ r.state.head \in Range(b.controls) =>
            \A a \in r.known : Active(a) \cap Active(b.authority) = {}
        /\ \A a \in Accepted(b) :
            a.state.root # b.authority.state.root => Active(a) \subseteq b.authority.state.revoked
=============================================================================
