------------------------------- MODULE Birth -------------------------------
(***************************************************************************)
(* Birth and first awakening (birth.py): a parent signs an offer, whoever  *)
(* holds its awakening key binds it to a being of its own root, a witness  *)
(* attests that the being's first embodiment is active and its ledger      *)
(* empty, and a durable registry records each of the three.                *)
(*                                                                         *)
(* Artifacts travel freely and may be handed to the registry again, late,  *)
(* by several callers at a time.  A call verifies its evidence first and   *)
(* only then begins its transaction; a crash before the commit leaves      *)
(* nothing.                                                                *)
(***************************************************************************)
EXTENDS Naturals, FiniteSets

CONSTANTS
    Newborns,    \* beings that may be born, each with its own root
    Witnesses,   \* beings that may attest an activation
    Callers,     \* callers of the registry
    Life,        \* how long an offer lasts
    MaxOffers, MaxAcceptances, MaxReceipts, MaxNow, MaxHeads, MaxEvents, MaxCrashes

None == [kind |-> "none"]
Idle == [stage |-> "idle"]

VARIABLES
    now,
    head,          \* the parent's control head
    offers,        \* offers signed by the parent
    acceptances,   \* acceptances signed by a newborn root
    receipts,      \* activation receipts signed by a witness
    events,        \* how many events each newborn's ledger holds
    rows,          \* birth_offers
    accepted,      \* birth_acceptances
    activated,     \* birth_activations
    caller,        \* what each caller has verified and not yet committed
    crashes

vars == <<now, head, offers, acceptances, receipts, events, rows, accepted,
          activated, caller, crashes>>

Init ==
    /\ now = 0 /\ head = 0
    /\ offers = {} /\ acceptances = {} /\ receipts = {}
    /\ events = [n \in Newborns |-> 0]
    /\ rows = [i \in 1 .. MaxOffers |-> None]
    /\ accepted = {} /\ activated = {}
    /\ caller = [c \in Callers |-> Idle]
    /\ crashes = 0

-----------------------------------------------------------------------------
(* The artifacts and what their verification asks *)

Timely(offer, at) == offer.issued <= at /\ at < offer.expires

\* validate_birth_offer: the parent's head is the one the offer was signed under.
OfferHolds(offer) == offer.head = head /\ Timely(offer, now)

OfferOf(a) == CHOOSE o \in offers : o.id = a.offer

\* validate_birth_acceptance, which verifies the offer again.
AcceptanceHolds(a) ==
    LET offer == OfferOf(a)
    IN  OfferHolds(offer) /\ Timely(offer, a.at) /\ a.at <= now

\* validate_activation_receipt: the ledger is what the witness saw, and empty.
ReceiptHolds(r) ==
    /\ r.events = events[r.acceptance.newborn]
    /\ r.events = 0

CreateOffer ==
    /\ Cardinality(offers) < MaxOffers
    /\ offers' = offers \cup
         {[id |-> Cardinality(offers) + 1, head |-> head, issued |-> now,
           expires |-> now + Life]}
    /\ UNCHANGED <<now, head, acceptances, receipts, events, rows, accepted,
                   activated, caller, crashes>>

CreateAcceptance(offer, n) ==
    /\ Cardinality(acceptances) < MaxAcceptances
    /\ Timely(offer, now)
    /\ acceptances' = acceptances \cup {[offer |-> offer.id, newborn |-> n, at |-> now]}
    /\ UNCHANGED <<now, head, offers, receipts, events, rows, accepted, activated,
                   caller, crashes>>

CreateReceipt(a, w) ==
    /\ Cardinality(receipts) < MaxReceipts
    /\ events[a.newborn] = 0
    /\ receipts' = receipts \cup {[acceptance |-> a, witness |-> w, events |-> 0]}
    /\ UNCHANGED <<now, head, offers, acceptances, events, rows, accepted,
                   activated, caller, crashes>>

-----------------------------------------------------------------------------
(* The registry *)

\* The evidence is verified before the transaction begins.
Verify(c, call, artifact) ==
    /\ caller[c] = Idle
    /\ CASE call = "observe" -> artifact \in offers /\ OfferHolds(artifact)
         [] call = "accept" -> artifact \in acceptances /\ AcceptanceHolds(artifact)
         [] call = "activate" -> artifact \in receipts /\ ReceiptHolds(artifact)
    /\ caller' = [caller EXCEPT ![c] =
                    [stage |-> "commit", call |-> call, artifact |-> artifact]]
    /\ UNCHANGED <<now, head, offers, acceptances, receipts, events, rows,
                   accepted, activated, crashes>>

Begins(c, call) == caller[c].stage = "commit" /\ caller[c].call = call

Done(c) ==
    /\ caller' = [caller EXCEPT ![c] = Idle]
    /\ UNCHANGED <<now, head, offers, acceptances, receipts, events, crashes>>

ObserveOffer(c) ==
    LET o == caller[c].artifact
    IN  /\ Begins(c, "observe")
        /\ rows' = [rows EXCEPT ![o.id] =
             IF @ = None
             THEN [kind |-> "row", state |-> "offered", accepted |-> None,
                   activation |-> None]
             ELSE @]
        /\ UNCHANGED <<accepted, activated>>
        /\ Done(c)

LineageFirstWins(row, a) ==
    IF row.accepted = None
    THEN [row EXCEPT !.state = "accepted", !.accepted = a]
    ELSE IF row.state = "active" THEN row
    ELSE [row EXCEPT !.state = "quarantined", !.activation = None]

\* What a new acceptance does to the lineage of its offer.
Lineage(row, a) ==
    IF row.accepted = None
    THEN [row EXCEPT !.state = "accepted", !.accepted = a]
    ELSE [row EXCEPT !.state = "quarantined", !.activation = None]

Accept(c) ==
    LET a == caller[c].artifact
    IN  /\ Begins(c, "accept")
        /\ IF rows[a.offer] = None \/ a \in accepted
           THEN UNCHANGED <<rows, accepted>>
           ELSE /\ accepted' = accepted \cup {a}
                /\ rows' = [rows EXCEPT ![a.offer] = Lineage(@, a)]
        /\ UNCHANGED activated
        /\ Done(c)

\* The acceptance is the selected one of a lineage that is not quarantined.
MayActivate(row, r) == row.state # "quarantined" /\ row.accepted = r.acceptance

Activate(c) ==
    LET r == caller[c].artifact
        row == rows[r.acceptance.offer]
    IN  /\ Begins(c, "activate")
        /\ IF r.acceptance \in accepted /\ MayActivate(row, r)
              /\ r \notin activated /\ row.activation = None
           THEN /\ activated' = activated \cup {r}
                /\ rows' = [rows EXCEPT ![r.acceptance.offer] =
                     [@ EXCEPT !.state = "active", !.activation = r]]
           ELSE UNCHANGED <<rows, activated>>
        /\ UNCHANGED accepted
        /\ Done(c)

-----------------------------------------------------------------------------
(* Around the registry *)

\* The process dies before the commit: the transaction is rolled back.
CrashBeforeCommit(c) ==
    /\ caller[c] # Idle
    /\ crashes < MaxCrashes /\ crashes' = crashes + 1
    /\ caller' = [caller EXCEPT ![c] = Idle]
    /\ UNCHANGED <<now, head, offers, acceptances, receipts, events, rows,
                   accepted, activated>>

Tick ==
    /\ now < MaxNow /\ now' = now + 1
    /\ UNCHANGED <<head, offers, acceptances, receipts, events, rows, accepted,
                   activated, caller, crashes>>

\* The parent rotates a key or revokes a credential.
AdvanceParent ==
    /\ head < MaxHeads /\ head' = head + 1
    /\ UNCHANGED <<now, offers, acceptances, receipts, events, rows, accepted,
                   activated, caller, crashes>>

\* The newborn writes its first events.
Write(n) ==
    /\ events[n] < MaxEvents
    /\ events' = [events EXCEPT ![n] = @ + 1]
    /\ UNCHANGED <<now, head, offers, acceptances, receipts, rows, accepted,
                   activated, caller, crashes>>

Next ==
    \/ CreateOffer \/ Tick \/ AdvanceParent
    \/ \E o \in offers, n \in Newborns : CreateAcceptance(o, n)
    \/ \E a \in acceptances, w \in Witnesses : CreateReceipt(a, w)
    \/ \E n \in Newborns : Write(n)
    \/ \E c \in Callers :
          \/ \E o \in offers : Verify(c, "observe", o)
          \/ \E a \in acceptances : Verify(c, "accept", a)
          \/ \E r \in receipts : Verify(c, "activate", r)
          \/ ObserveOffer(c) \/ Accept(c) \/ Activate(c) \/ CrashBeforeCommit(c)

Spec == Init /\ [][Next]_vars

-----------------------------------------------------------------------------
\* A lineage has one newborn or none: it is quarantined exactly when two
\* acceptances of its offer are retained, whichever came first and whether or
\* not one of them was already active, and it is active only through a receipt
\* for the one acceptance it has, attested while that newborn's ledger was empty
\* (birth.py: accept, activate).
OneNewbornPerOffer ==
    \A i \in 1 .. MaxOffers :
        LET row == rows[i]
            known == {a \in accepted : a.offer = i}
        IN  row # None =>
              /\ (row.state = "quarantined") <=> (Cardinality(known) > 1)
              /\ row.state = "active" =>
                    /\ known = {row.activation.acceptance}
                    /\ row.activation \in activated
              /\ row.accepted # None => row.accepted \in known
=============================================================================
