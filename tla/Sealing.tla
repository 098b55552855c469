------------------------------ MODULE Sealing -------------------------------
(***************************************************************************)
(* Sealed deliveries (sealed.py): one author seals one signed message to   *)
(* the concrete credentials of its audience, and every recipient decides   *)
(* with its own records whether it may open the envelope.                  *)
(*                                                                         *)
(* What the world records (a credential rotates, an embodiment retires, a  *)
(* membership or a grant ends) is one history; every party knows a prefix  *)
(* of it.  Nothing of the author's decision travels except the resolution  *)
(* event: the recipient rebuilds the authorization from its own prefix and *)
(* the envelope opens only when both derivations agree.  Processes of the  *)
(* author race on the store that gives one request one ciphertext.         *)
(***************************************************************************)
EXTENDS Naturals, FiniteSets, Sequences

CONSTANTS
    Bodies,       \* possible recipients, each of a being of its own
    Processes,    \* processes of the author that send
    Kinds,        \* subset of {"we", "relationship", "tribe"}
    TTL,          \* life of an envelope
    MaxNow, MaxWorld, MaxMoves, MaxDeliveries    \* bounds

Author == "author"
None == [kind |-> "none"]
Parties == Bodies \cup {Author}

VARIABLES
    now,
    world,      \* the history of changes, oldest first
    view,       \* per party, how much of it the party knows
    message,    \* the message and its signed resolution, or None
    recovery,   \* the author's signed recovery of its carrier, or None
    envelopes,  \* EnvelopeStore: request to the one stored envelope
    sealer,     \* per process, the authorization it is about to seal under
    carried,    \* envelopes a route took
    opened,     \* openings: who, under what it knew, when, which envelope
    moves       \* how often a party learned something, bounded

vars == <<now, world, view, message, recovery, envelopes, sealer, carried,
          opened, moves>>

Requests == {"send", "recover"}

Init ==
    /\ now = 0 /\ world = <<>> /\ moves = 0
    /\ view = [p \in Parties |-> 0]
    /\ message = None /\ recovery = None
    /\ envelopes = [r \in Requests |-> None]
    /\ sealer = [p \in Processes |-> None]
    /\ carried = {} /\ opened = {}

-----------------------------------------------------------------------------
(* What a party that knows n changes holds for true *)

Known(n, change, who) ==
    \E i \in 1 .. n : world[i] = [change |-> change, who |-> who]

\* A credential counts when the manifest of its being lists it as active.
Credential(n, who) == IF Known(n, "rotate", who) THEN 2 ELSE 1
Active(n, who) == ~Known(n, "retire", who)

Descriptor(n, who) == [who |-> who, credential |-> Credential(n, who)]

\* The sender is read from the verified origin of the resolution, and its
\* manifest must still list it with the credential that signed.
SenderHolds(n) ==
    /\ Active(n, Author)
    /\ message.credential = Credential(n, Author)

\* One active proof per membership, for the tribe of the message.
MemberProof(n, who) == Active(n, who) /\ ~Known(n, "leave", who)

Disclosure(n, who) == Active(n, who) /\ ~Known(n, "revoke", who)

\* A resolution inside the being needs no more than active embodiments.
WeResolved(n) == \A b \in message.targets : Active(n, b)

RelationshipResolved(n) == \A b \in message.targets : Disclosure(n, b)

MembershipResolved(n) ==
    /\ MemberProof(n, Author)
    /\ \A b \in message.targets : MemberProof(n, b)

\* The proofs are part of the evidence hash, so two parties agree on the hash
\* only when both could rebuild the same authorization.
Resolved(n) ==
    /\ message.scope = "we" => WeResolved(n)
    /\ message.scope = "relationship" => RelationshipResolved(n)
    /\ message.scope = "tribe" => MembershipResolved(n)

Authorization(n, request) ==
    [request |-> request,
     recipients |-> {Descriptor(n, b) : b \in message.targets},
     sender |-> message.credential,
     from |-> IF request = "send" THEN message.at ELSE recovery.at,
     until |-> IF request = "send" THEN message.at + TTL ELSE recovery.until]

AuthorizationHolds(auth, t) == auth.from <= t /\ t < auth.until

\* A recovery is the author's own, of this message, and later than the life of
\* the carrier it replaces.
RecoveryBinds(r) == r # None /\ r.at >= message.at + TTL

\* The authorization a party derives for a request, when it can derive one.
Derives(n, request) ==
    /\ message # None
    /\ SenderHolds(n)
    /\ Resolved(n)
    /\ request = "recover" => message.scope = "tribe" /\ RecoveryBinds(recovery)

-----------------------------------------------------------------------------
(* The author *)

\* The message and its resolution are signed at one time.
Resolve(scope, targets) ==
    /\ message = None /\ targets # {}
    /\ message' = [kind |-> "message", scope |-> scope, targets |-> targets,
                   at |-> now, credential |-> Credential(view[Author], Author)]
    /\ UNCHANGED <<now, world, view, recovery, envelopes, sealer, carried,
                   opened, moves>>

\* The author signs a recovery of an expired carrier.
Recover ==
    /\ message # None /\ recovery = None
    /\ message.scope = "tribe"
    /\ LET signed == [kind |-> "recovery", at |-> now, until |-> now + TTL]
       IN  RecoveryBinds(signed) /\ recovery' = signed
    /\ UNCHANGED <<now, world, view, message, envelopes, sealer, carried,
                   opened, moves>>

\* A process derives the authorization and the hash of its sealing plan.
Authorize(p, request) ==
    /\ sealer[p] = None
    /\ Derives(view[Author], request)
    /\ sealer' = [sealer EXCEPT ![p] =
         [kind |-> "plan", auth |-> Authorization(view[Author], request)]]
    /\ UNCHANGED <<now, world, view, message, recovery, envelopes, carried,
                   opened, moves>>

\* seal_event at the issue time of the plan: a fresh delivery id and content
\* key every time, so two seals of one plan are two different ciphertexts.
SealedBy(p, auth) == [kind |-> "envelope", auth |-> auth, by |-> p]

\* get_or_create holds the write lock of the store over the factory: a stored
\* envelope of the same plan is returned as it is.
Stored(row, made) == IF row = None THEN made ELSE row

GetOrCreate(p) ==
    /\ sealer[p] # None
    /\ LET auth == sealer[p].auth
           row == envelopes[auth.request]
           kept == Stored(row, SealedBy(p, auth))
       IN  IF row # None /\ row.auth # auth
           THEN UNCHANGED <<envelopes, carried>>       \* SealedDeliveryConflict
           ELSE /\ envelopes' = [envelopes EXCEPT ![auth.request] = kept]
                /\ carried' = carried \cup {kept}
    /\ sealer' = [sealer EXCEPT ![p] = None]
    /\ UNCHANGED <<now, world, view, message, recovery, opened, moves>>

Die(p) ==
    /\ sealer[p] # None
    /\ sealer' = [sealer EXCEPT ![p] = None]
    /\ UNCHANGED <<now, world, view, message, recovery, envelopes, carried,
                   opened, moves>>

-----------------------------------------------------------------------------
(* Routes and recipients *)

\* A route checks framing and expiry only.  What is past its life is dropped.
Drop(envelope) ==
    /\ envelope \in carried
    /\ ~AuthorizationHolds(envelope.auth, now)
    /\ carried' = carried \ {envelope}
    /\ UNCHANGED <<now, world, view, message, recovery, envelopes, sealer,
                   opened, moves>>

\* The signature of an active sender, the life, and the very authorization the
\* recipient derives from its own records.
EnvelopeHolds(envelope, n) ==
    /\ Derives(n, envelope.auth.request)
    /\ envelope.auth = Authorization(n, envelope.auth.request)
    /\ AuthorizationHolds(envelope.auth, now)

\* open_event: exactly one row is the local credential, whose key unwraps.
Open(b, envelope) ==
    /\ envelope \in carried
    /\ EnvelopeHolds(envelope, view[b])
    /\ Descriptor(view[b], b) \in envelope.auth.recipients
    /\ envelope.auth.request = "recover" =>
         MemberProof(view[b], b) /\ MemberProof(view[b], Author)
    /\ opened' = opened \cup {[who |-> b, knew |-> view[b], at |-> now,
                               what |-> envelope]}
    /\ Cardinality(opened') <= MaxDeliveries
    /\ UNCHANGED <<now, world, view, message, recovery, envelopes, sealer,
                   carried, moves>>

-----------------------------------------------------------------------------
(* The world *)

Changes == {"rotate", "retire", "leave", "revoke"}

Happen(change, who) ==
    /\ Len(world) < MaxWorld
    /\ ~Known(Len(world), change, who)
    /\ world' = Append(world, [change |-> change, who |-> who])
    /\ UNCHANGED <<now, view, message, recovery, envelopes, sealer, carried,
                   opened, moves>>

Learn(p) ==
    /\ view[p] < Len(world) /\ moves < MaxMoves
    /\ view' = [view EXCEPT ![p] = @ + 1]
    /\ moves' = moves + 1
    /\ UNCHANGED <<now, world, message, recovery, envelopes, sealer, carried, opened>>

Tick ==
    /\ now < MaxNow /\ now' = now + 1
    /\ UNCHANGED <<world, view, message, recovery, envelopes, sealer, carried,
                   opened, moves>>

Next ==
    \/ \E scope \in Kinds, targets \in SUBSET Bodies : Resolve(scope, targets)
    \/ Recover
    \/ \E p \in Processes, request \in Requests : Authorize(p, request)
    \/ \E p \in Processes : GetOrCreate(p) \/ Die(p)
    \/ \E envelope \in carried : Drop(envelope)
    \/ \E envelope \in carried, b \in Bodies : Open(b, envelope)
    \/ \E change \in Changes, who \in Parties : Happen(change, who)
    \/ \E p \in Parties : Learn(p)
    \/ Tick

Spec == Init /\ [][Next]_vars

-----------------------------------------------------------------------------
\* The ciphertexts that leave the author are one per request and one at a time:
\* whatever process sealed it, and whether or not a recovery replaced it, two
\* openings at the same moment opened the same envelope; and who opened it was
\* addressed, held the credential it was sealed to, and did not know of an end
\* of the author's or its own standing (sealed.py: get_or_create,
\* from_membership_recovery_identity, open_event).
OneEnvelopeForItsAudience ==
    /\ \A r \in Requests : \A e \in carried :
          e.auth.request = r => e = envelopes[r]
    /\ \A x \in opened, y \in opened : x.at = y.at => x.what = y.what
    /\ \A x \in opened :
          /\ x.who \in message.targets
          /\ ~Known(x.knew, "retire", x.who) /\ ~Known(x.knew, "retire", Author)
          /\ message.scope = "tribe" =>
               ~Known(x.knew, "leave", Author) /\ ~Known(x.knew, "leave", x.who)
          /\ [who |-> x.who, credential |-> Credential(x.knew, x.who)]
               \in x.what.auth.recipients
=============================================================================
