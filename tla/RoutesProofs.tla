---------------------------- MODULE RoutesProofs ----------------------------
(***************************************************************************)
(* What TLAPS proves about Communication and Routes, for any messages,     *)
(* receipts, consumers, envelopes, threads, routes, deadlines and plans.   *)
(*                                                                         *)
(* The outcome of a leg needs only BoundsOK: what is accepted is numbered  *)
(* above all legs there are, so no insertion overwrites one.               *)
(*                                                                         *)
(* DeliveryInv is inductive.  Its parts say that the pages of the queue    *)
(* end in increasing places up to the cursor (PagesOK, PagesLeaveNoGap),   *)
(* that a claim holds a batch between them (ClaimsOK), that the rows and   *)
(* tombstones of the recipient, its answers and its leases are about what  *)
(* it took in (RecipientInv), that a connection carries a sealed envelope  *)
(* and what was accepted on it stands (WireOK, TakenOK), that the call of  *)
(* a thread works on a stored delivery (CallOK), and that an acknowledged  *)
(* attempt names bytes the recipient has (AckedOK).                        *)
(*                                                                         *)
(* StoreInv adds what the sender's store rests on: the journal and the     *)
(* anchor a crash leaves (JournalOK), the evidence of receipts, attempts   *)
(* and conflicts with the one leg each is about (EvidenceOK, BindingOK),   *)
(* the calls and answers that lead to an attempt (CarriedOK,               *)
(* AnswersAreSent), consumers and the queue (ReadersOK, QueueOK), cached   *)
(* answers (HistoriesOK), places of the inbox (SeqOK) and what has been    *)
(* answered about a receipt (PresentedOK).                                 *)
(***************************************************************************)
EXTENDS Routes, FiniteSetTheorems, SequenceTheorems, TLAPS

-----------------------------------------------------------------------------
(* The tables of the sender. *)

Fields ==
    {"schema", "counter", "highwater", "messages", "legs", "queue", "attempts", "egress",
     "deliveries", "receipts", "foreign", "conflicts", "cursors", "pages", "batches", "claims",
     "consumers", "compactions"}

\* A step that mutates the columns F of the tables, and no other.
Writes(F) == DOMAIN db' = Fields /\ \A f \in Fields \ (F \cup {"counter"}) : db'[f] = db[f]

LegColumns == {"seq", "state", "receipt"}

\* The legs that exist and the queued ones are numbered up to highwater.
BoundsOK ==
    /\ plan \in Plans /\ now \in Nat
    /\ DOMAIN db = Fields
    /\ db.highwater \in Nat /\ db.queue \subseteq 1..db.highwater
    /\ \A l \in DOMAIN db.legs :
          DOMAIN db.legs[l] = LegColumns /\ db.legs[l].seq \in 1..db.highwater

\* What every step makes of the legs: none is lost or renumbered, what has ended
\* stays so or is quarantined, and new ones come after all others.
LegsMove ==
    /\ db.highwater <= db'.highwater /\ db'.highwater \in Nat
    /\ db'.queue \subseteq db.queue \cup ((db.highwater + 1)..db'.highwater)
    /\ \A l \in DOMAIN db.legs :
          /\ l \in DOMAIN db'.legs
          /\ db'.legs[l].seq = db.legs[l].seq
          /\ db.legs[l].state # "accepted" =>
                /\ db'.legs[l].state \in {db.legs[l].state, "quarantined"}
                /\ db'.legs[l].receipt = db.legs[l].receipt
    /\ \A l \in DOMAIN db'.legs :
          /\ DOMAIN db'.legs[l] = LegColumns
          /\ l \notin DOMAIN db.legs => db'.legs[l].seq \in (db.highwater + 1)..db'.highwater

LEMMA LegsStay == BoundsOK /\ db'.highwater = db.highwater /\ db'.queue \subseteq db.queue
                  /\ db'.legs = db.legs => LegsMove
BY DEF BoundsOK, LegsMove

\* accept numbers the legs of its message after all others.
LEMMA AcceptMoves ==
    ASSUME BoundsOK, NEW m \in Messages, Accept(m)
    PROVE  db' = db \/ (Writes({"messages", "highwater", "legs", "queue"}) /\ LegsMove)
<1> DEFINE n == Len(Targets[m])
           legs == [i \in DOMAIN Targets[m] |-> <<m, Targets[m][i][1], Targets[m][i][2]>>]
           seqs == [l \in LegsOf(m) |->
                       db.highwater + (CHOOSE i \in DOMAIN legs : legs[i] = l)]
<1>1. n \in Nat \ {0} /\ DOMAIN Targets[m] = 1..n BY TargetsAssumption
<1>2. Len(legs) = n BY <1>1
<1>3. ASSUME NEW l \in LegsOf(m)
      PROVE  seqs[l] \in (db.highwater + 1)..(db.highwater + n)
  <2>1. \E i \in DOMAIN legs : legs[i] = l BY DEF LegsOf
  <2>2. PICK i \in DOMAIN legs : seqs[l] = db.highwater + i BY <2>1
  <2>3. i \in 1..n /\ db.highwater \in Nat BY <1>1 DEF BoundsOK
  <2> HIDE DEF seqs
  <2> QED BY <1>1, <2>2, <2>3
<1> DEFINE next == [db EXCEPT
          !.messages = @ \cup {m},
          !.highwater = @ + Len(legs),
          !.legs = [l \in DOMAIN @ \cup LegsOf(m) |->
                       IF l \in DOMAIN @ THEN @[l]
                       ELSE [seq |-> seqs[l], state |-> "accepted", receipt |-> None]],
          !.queue = @ \cup {seqs[l] : l \in LegsOf(m)}]
<1>4. db' = db \/ db' = [next EXCEPT !.counter = @ + 1] BY DEF Accept, Mutate, Commit
<1> HIDE DEF n, legs, seqs
<1>5. CASE db' = [next EXCEPT !.counter = @ + 1]
  <2>1. Writes({"messages", "highwater", "legs", "queue"})
    BY <1>5 DEF Writes, BoundsOK, Fields
  <2>2. /\ db'.highwater = db.highwater + n
        /\ db'.legs = [l \in DOMAIN db.legs \cup LegsOf(m) |->
                       IF l \in DOMAIN db.legs THEN db.legs[l]
                       ELSE [seq |-> seqs[l], state |-> "accepted", receipt |-> None]]
        /\ db'.queue = db.queue \cup {seqs[l] : l \in LegsOf(m)}
    BY <1>2, <1>5 DEF BoundsOK, Fields
  <2> QED BY <1>1, <1>3, <2>1, <2>2 DEF LegsMove, BoundsOK, LegColumns
<1> QED BY <1>4, <1>5

\* The legs that a receipt which is not the first one takes into dispute.
Struck(l, rc) ==
    {l} \cup {k \in DOMAIN db.foreign : rc.foreign /\ db.foreign[k] \in Rivals(db, l, rc)}

\* What becomes of a receipt rests on what it is compared with.
LEMMA JudgeIs ==
    ASSUME NEW l, NEW rc
    PROVE  \/ Rivals(db, l, rc) = {rc} /\ Judge(db, l, rc) = db
           \/ /\ Rivals(db, l, rc) # {} /\ Rivals(db, l, rc) # {rc}
              /\ Judge(db, l, rc) = Quarantined(db, Struck(l, rc), Rivals(db, l, rc) \cup {rc}, {})
           \/ /\ Rivals(db, l, rc) = {} /\ db.legs[l].state = "accepted"
              /\ Judge(db, l, rc) = Ended(db, l, rc)
           \/ /\ Rivals(db, l, rc) = {} /\ db.legs[l].state # "accepted"
              /\ Judge(db, l, rc) = db
<1> DEFINE rivals == Rivals(db, l, rc)
           next == Judge(db, l, rc)
<1>1. next =
         CASE rivals = {rc} -> db
           [] rivals # {} /\ rivals # {rc} -> Quarantined(db, Struck(l, rc), rivals \cup {rc}, {})
           [] OTHER -> IF db.legs[l].state = "accepted" THEN Ended(db, l, rc) ELSE db
  BY DEF Judge, Struck
<1>2. rivals = {rc} \/ rivals = {} \/ (rivals # {} /\ rivals # {rc}) OBVIOUS
<1>3. {rc} # {} OBVIOUS
<1>4. SUFFICES \/ rivals = {rc} /\ next = db
               \/ /\ rivals # {} /\ rivals # {rc}
                  /\ next = Quarantined(db, Struck(l, rc), rivals \cup {rc}, {})
               \/ rivals = {} /\ db.legs[l].state = "accepted" /\ next = Ended(db, l, rc)
               \/ rivals = {} /\ db.legs[l].state # "accepted" /\ next = db
  OBVIOUS
<1> HIDE DEF rivals, next
<1>5. CASE rivals = {rc} BY <1>1, <1>5
<1>6. CASE rivals = {}
  <2>1. rivals # {rc} BY <1>3, <1>6
  <2> QED BY <1>1, <1>6, <2>1
<1>7. CASE rivals # {} /\ rivals # {rc} BY <1>1, <1>7
<1> QED BY <1>2, <1>5, <1>6, <1>7

\* record_receipt and record_foreign_receipt settle what is open or quarantine it.
LEMMA ReceiptMoves ==
    ASSUME BoundsOK, NEW rc \in Receipts, RecordReceipt(rc)
    PROVE  db' = db \/ (Writes({"legs", "receipts", "foreign", "conflicts"}) /\ LegsMove)
<1>1. PICK l \in Bound(db, rc) :
         db' = db \/ db' = [Judge(db, l, rc) EXCEPT !.counter = @ + 1]
  BY DEF RecordReceipt, Commit
<1>2. l \in DOMAIN db.legs BY DEF Bound
<1>3. ASSUME NEW S, NEW R, NEW A, db' = [Quarantined(db, S, R, A) EXCEPT !.counter = @ + 1]
      PROVE  Writes({"legs", "receipts", "foreign", "conflicts"}) /\ LegsMove
  <2>1. Writes({"legs", "receipts", "foreign", "conflicts"})
    BY <1>3 DEF Writes, BoundsOK, Fields, Quarantined
  <2>2. db'.legs = [k \in DOMAIN db.legs |->
                     IF k \in S THEN [db.legs[k] EXCEPT !.state = "quarantined"] ELSE db.legs[k]]
    BY <1>3 DEF BoundsOK, Fields, Quarantined
  <2>3. db'.highwater = db.highwater /\ db'.queue = db.queue BY <2>1 DEF Writes, Fields
  <2> QED BY <2>1, <2>2, <2>3 DEF LegsMove, BoundsOK, LegColumns
<1>4. ASSUME db.legs[l].state = "accepted", db' = [Ended(db, l, rc) EXCEPT !.counter = @ + 1]
      PROVE  Writes({"legs", "receipts", "foreign", "conflicts"}) /\ LegsMove
  <2>1. Writes({"legs", "receipts", "foreign", "conflicts"})
    BY <1>4 DEF Writes, BoundsOK, Fields, Ended
  <2>2. db'.legs = [db.legs EXCEPT ![l] = [@ EXCEPT !.state = rc.outcome, !.receipt = rc.id]]
    BY <1>4 DEF BoundsOK, Fields, Ended
  <2>3. db'.highwater = db.highwater /\ db'.queue = db.queue BY <2>1 DEF Writes, Fields
  <2>4. DOMAIN db'.legs = DOMAIN db.legs BY <2>2
  <2>5. \A k \in DOMAIN db.legs : k # l => db'.legs[k] = db.legs[k] BY <2>2
  <2>6. /\ DOMAIN db'.legs[l] = LegColumns
        /\ db'.legs[l].seq = db.legs[l].seq
    BY <1>2, <2>2 DEF BoundsOK, LegColumns
  <2>7. \A k \in DOMAIN db.legs :
           /\ DOMAIN db'.legs[k] = LegColumns
           /\ db'.legs[k].seq = db.legs[k].seq
           /\ db.legs[k].state # "accepted" => db'.legs[k] = db.legs[k]
    BY <1>2, <1>4, <2>5, <2>6 DEF BoundsOK
  <2>8. db.highwater \in Nat BY DEF BoundsOK
  <2> QED BY <2>1, <2>3, <2>4, <2>7, <2>8 DEF LegsMove
<1>5. CASE db' = [Judge(db, l, rc) EXCEPT !.counter = @ + 1]
  <2>1. \/ Judge(db, l, rc) = db
        \/ \E S, R, A : Judge(db, l, rc) = Quarantined(db, S, R, A)
        \/ db.legs[l].state = "accepted" /\ Judge(db, l, rc) = Ended(db, l, rc) BY JudgeIs
  <2>2. CASE Judge(db, l, rc) = db
    <3>1. db' = [db EXCEPT !.counter = @ + 1] BY <1>5, <2>2
    <3>2. Writes({"legs", "receipts", "foreign", "conflicts"}) BY <3>1 DEF Writes, BoundsOK, Fields
    <3>3. db'.legs = db.legs /\ db'.highwater = db.highwater /\ db'.queue = db.queue
      BY <3>1 DEF BoundsOK, Fields
    <3> QED BY <3>2, <3>3, LegsStay
  <2> QED BY <1>3, <1>4, <1>5, <2>1, <2>2
<1> QED BY <1>1, <1>5

\* No other operation of the store touches a leg but to upgrade its schema.
LEMMA OtherStoreMoves ==
    ASSUME BoundsOK
    PROVE  /\ \A r, c, q, token, limit : Page(r, c, q, token, limit) =>
                 db' = db \/ (Writes({"cursors", "pages"}) /\ LegsMove)
           /\ \A r, c, s : Advance(r, c, s) => db' = db \/ (Writes({"consumers"}) /\ LegsMove)
           /\ \A r, c, k, limit, until, t : Claim(r, c, k, limit, until, t) =>
                 db' = db \/ (Writes({"batches", "claims"}) /\ LegsMove)
           /\ \A r, s : Compact(r, s) =>
                 db' = db \/ (Writes({"queue", "claims", "compactions"}) /\ LegsMove)
           /\ UpgradeReceiptsV2 \/ UpgradeLegsV3 => Writes({"schema", "compactions"}) /\ LegsMove
           /\ Tick \/ Recover => db' = db
           /\ \A m : LearnMessage(m) => db' = db
           /\ \A rc : LearnReceipt(rc) => db' = db
<1> USE DEF BoundsOK
<1>1. ASSUME NEW r, NEW c, NEW q, NEW token, NEW limit, Page(r, c, q, token, limit)
      PROVE  db' = db \/ (Writes({"cursors", "pages"}) /\ LegsMove)
  <2>1. db' = db \/ Writes({"cursors", "pages"}) BY <1>1 DEF Page, Mutate, Commit, Writes, Fields
  <2> QED BY <2>1, LegsStay DEF Writes, Fields
<1>2. ASSUME NEW r, NEW c, NEW s, Advance(r, c, s)
      PROVE  db' = db \/ (Writes({"consumers"}) /\ LegsMove)
  <2>1. db' = db \/ Writes({"consumers"}) BY <1>2 DEF Advance, Mutate, Commit, Writes, Fields
  <2> QED BY <2>1, LegsStay DEF Writes, Fields
<1>3. ASSUME NEW r, NEW c, NEW k, NEW limit, NEW until, NEW t, Claim(r, c, k, limit, until, t)
      PROVE  db' = db \/ (Writes({"batches", "claims"}) /\ LegsMove)
  <2>1. db' = db \/ Writes({"batches", "claims"}) BY <1>3 DEF Claim, Mutate, Commit, Writes, Fields
  <2> QED BY <2>1, LegsStay DEF Writes, Fields
<1>4. ASSUME NEW r, NEW s, Compact(r, s)
      PROVE  db' = db \/ (Writes({"queue", "claims", "compactions"}) /\ LegsMove)
  <2> DEFINE gone == {db.legs[l].seq : l \in Prefix(db, r, s)}
  <2>1. PICK claims, compactions :
           db' \in {db, [[db EXCEPT !.queue = @ \ gone, !.claims = claims,
                                    !.compactions = compactions] EXCEPT !.counter = @ + 1]}
    BY <1>4 DEF Compact, Mutate, Commit
  <2> HIDE DEF gone
  <2>2. ASSUME db' # db
        PROVE  Writes({"queue", "claims", "compactions"}) /\ db'.queue \subseteq db.queue
    <3>1. db' = [[db EXCEPT !.queue = @ \ gone, !.claims = claims,
                            !.compactions = compactions] EXCEPT !.counter = @ + 1]
      BY <2>1, <2>2
    <3>2. Writes({"queue", "claims", "compactions"}) BY <3>1 DEF Writes, Fields
    <3>3. db'.queue = db.queue \ gone BY <3>1 DEF Fields
    <3> QED BY <3>2, <3>3
  <2> QED BY <2>2, LegsStay DEF Writes, Fields
<1>5. UpgradeReceiptsV2 \/ UpgradeLegsV3 => Writes({"schema", "compactions"}) /\ LegsMove
  <2>1. UpgradeReceiptsV2 \/ UpgradeLegsV3 => Writes({"schema", "compactions"})
    BY DEF UpgradeReceiptsV2, UpgradeLegsV3, Writes, Fields
  <2> QED BY <2>1, LegsStay DEF Writes, Fields
<1>6. Tick \/ Recover => db' = db BY DEF Tick, Recover, store
<1>7. /\ \A m : LearnMessage(m) => db' = db
      /\ \A rc : LearnReceipt(rc) => db' = db
  BY DEF LearnMessage, LearnReceipt, store
<1> QED BY <1>1, <1>2, <1>3, <1>4, <1>5, <1>6, <1>7

\* A dispatch touches legs only to quarantine those of a conflict.
LEMMA RouteMoves ==
    ASSUME BoundsOK, NEW t \in Threads
    PROVE  /\ \A l, e, d : Dispatch(t, l, e, d) => db' = db
           /\ RecordAttempt(t) => db' = db \/ (Writes({"attempts", "egress"}) /\ LegsMove)
           /\ RecordDelivery(t) =>
                 db' = db \/ (Writes({"deliveries", "legs", "conflicts"}) /\ LegsMove)
           /\ SendUnavailable(t) \/ Receive(t) => db' = db \/ (Writes({"attempts"}) /\ LegsMove)
           /\ Send(t) \/ SendRefused(t) \/ GiveUp(t) => db' = db
<1> USE DEF BoundsOK
<1>1. \A l, e, d : Dispatch(t, l, e, d) => db' = db BY DEF Dispatch, cvars, store
<1>2. RecordAttempt(t) => db' = db \/ (Writes({"attempts", "egress"}) /\ LegsMove)
  <2>1. RecordAttempt(t) => db' = db \/ Writes({"attempts", "egress"})
    BY DEF RecordAttempt, Mutate, Commit, cvars, store, Writes, Fields
  <2> QED BY <2>1, LegsStay DEF Writes, Fields
<1>3. ASSUME NEW a, NEW s, NEW k, RouteAck(a, s, k)
      PROVE  db' = db \/ (Writes({"attempts"}) /\ LegsMove)
  <2>1. db' = db \/ Writes({"attempts"})
    BY <1>3 DEF RouteAck, Mutate, Commit, cvars, store, Writes, Fields
  <2> QED BY <2>1, LegsStay DEF Writes, Fields
<1>4. SendUnavailable(t) \/ Receive(t) => db' = db \/ (Writes({"attempts"}) /\ LegsMove)
  BY <1>3 DEF SendUnavailable, Receive
<1>5. Send(t) \/ SendRefused(t) \/ GiveUp(t) => db' = db
  BY DEF Send, SendRefused, GiveUp, cvars, store
<1>6. ASSUME RecordDelivery(t)
      PROVE  db' = db \/ (Writes({"deliveries", "legs", "conflicts"}) /\ LegsMove)
  <2> DEFINE a == Attempt(t)
             e == call[t].env
             was == db.deliveries[e.id]
             next == Quarantined(db, {a.leg}, {}, {a, was.attempt})
             both == [next EXCEPT !.legs[was.attempt.leg].state = "quarantined"]
  <2>1. \/ db' = db
        \/ db' = [[db EXCEPT !.deliveries = Put(@, e.id, [attempt |-> a, bytes |-> e.bytes])]
                       EXCEPT !.counter = @ + 1]
        \/ db' = [both EXCEPT !.counter = @ + 1]
    BY <1>6 DEF RecordDelivery, Mutate, Commit, cvars, store
  <2> HIDE DEF a, e, was
  <2>2. CASE db' = [[db EXCEPT !.deliveries = Put(@, e.id, [attempt |-> a, bytes |-> e.bytes])]
                        EXCEPT !.counter = @ + 1]
    <3>1. Writes({"deliveries", "legs", "conflicts"}) BY <2>2 DEF Writes, Fields
    <3>2. db'.legs = db.legs /\ db'.highwater = db.highwater /\ db'.queue = db.queue
      BY <2>2 DEF Fields
    <3> QED BY <3>1, <3>2, LegsStay
  <2>3. CASE db' = [both EXCEPT !.counter = @ + 1]
    <3> DEFINE L == [k \in DOMAIN db.legs |->
                       IF k = a.leg THEN [db.legs[k] EXCEPT !.state = "quarantined"] ELSE db.legs[k]]
    <3>1. Writes({"deliveries", "legs", "conflicts"}) BY <2>3 DEF Writes, Fields, Quarantined
    <3>2. db'.legs = [next.legs EXCEPT ![was.attempt.leg].state = "quarantined"]
      BY <2>3 DEF Fields, Quarantined
    <3>3. next.legs = L BY DEF Quarantined, Fields
    <3> HIDE DEF next
    <3>4. db'.highwater = db.highwater /\ db'.queue = db.queue BY <3>1 DEF Writes, Fields
    <3>5. DOMAIN db'.legs = DOMAIN db.legs BY <3>2, <3>3
    <3>6. \A k \in DOMAIN db.legs :
             /\ DOMAIN L[k] = LegColumns
             /\ L[k].seq = db.legs[k].seq /\ L[k].receipt = db.legs[k].receipt
             /\ L[k].state \in {db.legs[k].state, "quarantined"}
      BY DEF LegColumns
    <3>7. \A k \in DOMAIN db.legs :
             db'.legs[k] \in {L[k], [L[k] EXCEPT !.state = "quarantined"]}
      BY <3>2, <3>3
    <3> HIDE DEF L
    <3>8. \A k \in DOMAIN db.legs :
             /\ DOMAIN db'.legs[k] = LegColumns
             /\ db'.legs[k].seq = db.legs[k].seq /\ db'.legs[k].receipt = db.legs[k].receipt
             /\ db'.legs[k].state \in {db.legs[k].state, "quarantined"}
      BY <3>6, <3>7 DEF LegColumns
    <3> QED BY <3>1, <3>4, <3>5, <3>8 DEF LegsMove
  <2> QED BY <2>1, <2>2, <2>3
<1> QED BY <1>1, <1>2, <1>4, <1>5, <1>6

\* The recipient writes no table of the sender.
LEMMA RecipientMoves ==
    /\ \A i : Exchange(i) => UNCHANGED cvars
    /\ \A k, p, e, r, d : Forward(k, p, e, r, d) => UNCHANGED cvars
    /\ \A h, c, until, n : InboxClaim(h, c, until, n) => UNCHANGED cvars
    /\ \A c, d : InboxAck(c, d) => UNCHANGED cvars
    /\ \A h, s : InboxCompact(h, s) => UNCHANGED cvars
BY DEF Exchange, Ingest, Refuse, Reject, Forward, InboxClaim, InboxAck, InboxCompact

\* The bounds of a behaviour never change and the clock never goes back.
LEMMA ClockMoves ==
    ASSUME now \in Nat, [Next]_vars PROVE plan' = plan /\ now' \in Nat /\ now <= now'
<1>1. CASE Tick BY <1>1 DEF Tick
<1>2. ASSUME UNCHANGED <<plan, now>> PROVE plan' = plan /\ now' \in Nat /\ now <= now'
  BY <1>2
<1>3. CASE StoreStep /\ ~Tick
  <2>1. \A next : Mutate(next) => UNCHANGED <<plan, now>> BY DEF Mutate
  <2>2. /\ \A m : LearnMessage(m) \/ Accept(m) => UNCHANGED <<plan, now>>
        /\ \A rc : LearnReceipt(rc) \/ RecordReceipt(rc) => UNCHANGED <<plan, now>>
        /\ \A r, c, s : Advance(r, c, s) => UNCHANGED <<plan, now>>
        /\ \A r, s : Compact(r, s) => UNCHANGED <<plan, now>>
        /\ UpgradeReceiptsV2 \/ UpgradeLegsV3 \/ Recover => UNCHANGED <<plan, now>>
    BY <2>1 DEF LearnMessage, Accept, LearnReceipt, RecordReceipt, Advance, Compact,
       UpgradeReceiptsV2, UpgradeLegsV3, Recover
  <2>3. \A r, c, q, token, n : Page(r, c, q, token, n) => UNCHANGED <<plan, now>>
    BY <2>1 DEF Page
  <2>4. \A r, c, k, n, until, s : Claim(r, c, k, n, until, s) => UNCHANGED <<plan, now>>
    BY <2>1 DEF Claim
  <2>5. UNCHANGED <<plan, now>> BY <1>3, <2>2, <2>3, <2>4 DEF StoreStep, CNext
  <2> QED BY <1>2, <2>5
<1>4. ASSUME NEW t, (\E l, e, d : Dispatch(t, l, e, d)) \/ DispatchStep(t)
      PROVE  UNCHANGED <<plan, now>>
  BY <1>4 DEF Dispatch, DispatchStep, RecordAttempt, RecordDelivery, SendUnavailable, Send,
     SendRefused, GiveUp, Receive, RouteAck, Mutate, cvars
<1>5. CASE UNCHANGED vars BY <1>2, <1>5 DEF vars, cvars
<1>6. CASE UNCHANGED cvars BY <1>2, <1>6 DEF cvars
<1> QED BY <1>1, <1>2, <1>3, <1>4, <1>5, <1>6, RecipientMoves DEF Next, StoreStep

\* Every step keeps the legs as LegsMove says.
LEMMA BoundsStep ==
    ASSUME BoundsOK, [Next]_vars PROVE BoundsOK' /\ LegsMove
<1>1. plan' = plan /\ now' \in Nat BY ClockMoves DEF BoundsOK
<1>2. db' = db \/ (DOMAIN db' = Fields /\ LegsMove)
  <2> USE DEF Writes
  <2>1. CASE StoreStep
    <3>1. plan \in Plan BY BoundsAssumption DEF BoundsOK
    <3>2. plan.messages \subseteq Messages /\ plan.receipts \subseteq Receipts BY <3>1 DEF Plan
    <3> QED BY <2>1, <3>2, AcceptMoves, ReceiptMoves, OtherStoreMoves DEF StoreStep, CNext
  <2>2. ASSUME NEW t \in bounds.threads, (\E l, e, d : Dispatch(t, l, e, d)) \/ DispatchStep(t)
        PROVE  db' = db \/ (DOMAIN db' = Fields /\ LegsMove)
    <3>1. t \in Threads BY <2>2, CarryingAssumption DEF bounds, BoundsOK
    <3> QED BY <2>2, <3>1, RouteMoves DEF DispatchStep
  <2>3. UNCHANGED cvars \/ UNCHANGED vars => db' = db BY DEF cvars, store, vars
  <2> QED BY <2>1, <2>2, <2>3, RecipientMoves DEF Next
<1>3. LegsMove BY <1>2, LegsStay DEF BoundsOK
<1> QED BY <1>1, <1>2, <1>3 DEF BoundsOK, LegsMove

\* A leg that has ended keeps its outcome and its receipt, or is quarantined by a
\* conflict, whatever receipts, expiries and routes come after, in any order, and
\* across crashes (communication.py: record_receipt, record_delivery).
THEOREM LegOutcomesAreFinal == Spec => OutcomesAreFinal
<1>1. Init => BoundsOK BY DEF Init, CInit, BoundsOK, EmptyStore, Fields
<1>2. BoundsOK /\ [Next]_vars => BoundsOK' BY BoundsStep
<1>3. BoundsOK /\ [Next]_vars =>
        [\A l \in DOMAIN db.legs :
          /\ l \in DOMAIN db'.legs
          /\ db.legs[l].state # "accepted" =>
                /\ db'.legs[l].state \in {db.legs[l].state, "quarantined"}
                /\ db'.legs[l].receipt = db.legs[l].receipt]_db
  BY BoundsStep DEF LegsMove
<1> QED BY <1>1, <1>2, <1>3, PTL DEF Spec, OutcomesAreFinal

-----------------------------------------------------------------------------
(* Pages and claims of the sender's queue. *)

\* A set of naturals has a least one (stated without an operator parameter).
LEMMA LeastNatural ==
    ASSUME NEW T, T \subseteq Nat, T # {}
    PROVE  \E n \in T : \A m \in T : n <= m
<1> DEFINE R == OpToRel(<, Nat)
<1>1. IsWellFoundedOn(R, Nat) BY NatLessThanWellFounded
<1> HIDE DEF R
<1>2. PICK n \in T : \A m \in T : <<m, n>> \notin R BY <1>1, WFMin
<1>3. \A m \in T : ~(m < n) BY <1>2 DEF OpToRel, R
<1> QED BY <1>3

\* Last is the greatest of some of 1..n.
LEMMA LastIsGreatest ==
    ASSUME NEW n \in Nat, NEW S \in SUBSET (1..n), S # {}
    PROVE  Last(S) \in S /\ \A s \in S : s <= Last(S)
<1> DEFINE over == {m \in Nat : \A y \in S : y <= m}
<1>1. over \subseteq Nat /\ n \in over OBVIOUS
<1>2. PICK m \in over : \A k \in over : m <= k
  <2> HIDE DEF over
  <2> QED BY <1>1, LeastNatural
<1>3. m \in S
  <2> SUFFICES ASSUME m \notin S PROVE FALSE OBVIOUS
  <2>1. PICK y \in S : TRUE OBVIOUS
  <2>2. m \in Nat /\ \A x \in S : x \in Nat /\ 1 <= x /\ x < m OBVIOUS
  <2>3. m - 1 \in Nat /\ \A x \in S : x <= m - 1 BY <2>1, <2>2
  <2>4. m - 1 \in over BY <2>3
  <2> QED BY <1>2, <2>2, <2>4
<1>4. \E s \in S : \A t \in S : t <= s BY <1>3
<1> QED BY <1>4, Zenon DEF Last

\* The first ones of a set have no others below them, and there are some.
LEMMA FirstIsPrefix ==
    ASSUME NEW n \in Nat, NEW S \in SUBSET (1..n), NEW k \in Nat \ {0}
    PROVE  /\ First(S, k) \subseteq S
           /\ \A s \in First(S, k), t \in S : t <= s => t \in First(S, k)
           /\ S # {} => First(S, k) # {}
<1> DEFINE Below(s) == {t \in S : t < s}
<1>1. \A s \in S : IsFiniteSet(Below(s))
  <2>1. IsFiniteSet(1..n) BY FS_Interval
  <2>2. \A s \in S : Below(s) \in SUBSET (1..n) OBVIOUS
  <2> HIDE DEF Below
  <2> QED BY <2>1, <2>2, FS_Subset
<1>2. ASSUME NEW s \in First(S, k), NEW t \in S, t <= s PROVE t \in First(S, k)
  <2>1. s \in S /\ Cardinality(Below(s)) < k BY DEF First
  <2>2. s \in Nat /\ t \in Nat BY <2>1
  <2>3. Below(t) \in SUBSET Below(s)
    <3>1. \A u \in Below(t) : u \in Below(s) BY <1>2, <2>2
    <3> QED BY <3>1
  <2>4. IsFiniteSet(Below(s)) /\ IsFiniteSet(Below(t)) BY <1>1, <2>1
  <2> HIDE DEF Below
  <2>5. Cardinality(Below(t)) <= Cardinality(Below(s)) BY <2>3, <2>4, FS_Subset
  <2>6. Cardinality(Below(t)) \in Nat /\ Cardinality(Below(s)) \in Nat
    BY <2>4, FS_CardinalityType
  <2>7. Cardinality(Below(t)) < k BY <2>1, <2>5, <2>6
  <2> QED BY <2>7 DEF First, Below
<1>3. ASSUME S # {} PROVE First(S, k) # {}
  <2>0. S \subseteq Nat OBVIOUS
  <2>1. PICK s \in S : \A t \in S : s <= t
    <3> HIDE DEF Below
    <3> QED BY <1>3, <2>0, LeastNatural
  <2>2. Below(s) = {}
    <3>1. \A t \in S : ~(t < s) BY <2>0, <2>1
    <3> QED BY <3>1
  <2>3. Cardinality(Below(s)) < k BY <2>2, FS_EmptySet
  <2>4. s \in First(S, k) BY <2>3 DEF First
  <2> QED BY <2>4
<1> QED BY <1>2, <1>3 DEF First

\* Where a page ends.
End(p) == IF p.next = None THEN p.cutoff ELSE Last(p.items)

\* The cursors are numbered from one, and a page ends and begins within the queue.
PagesOK ==
    /\ \E n \in Nat : DOMAIN db.cursors = 1..n
    /\ \A k \in DOMAIN db.cursors :
          db.cursors[k].cutoff \in 0..db.highwater /\ db.cursors[k].last \in 0..db.highwater
    /\ \A k \in DOMAIN db.pages :
          LET p == db.pages[k] IN
          End(p) \in 0..db.highwater /\ p.from \in DOMAIN db.cursors \cup {None}

\* New legs come after the pages there are.
LEMMA PagesKept ==
    ASSUME BoundsOK, PagesOK, PagesLeaveNoGap, LegsMove,
           db'.pages = db.pages, db'.cursors = db.cursors
    PROVE  PagesOK' /\ PagesLeaveNoGap'
<1>1. db.highwater \in Nat /\ db'.highwater \in Nat /\ db.highwater <= db'.highwater
  BY DEF BoundsOK, LegsMove
<1>2. PagesOK' BY <1>1 DEF PagesOK, End
<1>3. ASSUME NEW k \in DOMAIN db.pages, NEW l \in RowsOf(db, db.pages[k].rcpt)',
             db'.legs[l].seq <= End(db.pages[k]), Queued(db, l)'
      PROVE  /\ l \in RowsOf(db, db.pages[k].rcpt) /\ Queued(db, l)
             /\ db'.legs[l].seq = db.legs[l].seq
  <2>1. End(db.pages[k]) \in 0..db.highwater BY DEF PagesOK
  <2>2. l \in DOMAIN db'.legs BY <1>3 DEF RowsOf
  <2>3. l \in DOMAIN db.legs
    <3>1. l \notin DOMAIN db.legs => db'.legs[l].seq \in (db.highwater + 1)..db'.highwater
      BY <2>2 DEF LegsMove
    <3> QED BY <1>1, <1>3, <2>1, <3>1
  <2>4. db'.legs[l].seq = db.legs[l].seq /\ db.legs[l].seq \in 1..db.highwater
    BY <2>3 DEF LegsMove, BoundsOK
  <2>5. db.legs[l].seq \in db'.queue BY <1>3, <2>4 DEF Queued
  <2>6. db.legs[l].seq \in db.queue
    <3>1. db.legs[l].seq \in db.queue \cup ((db.highwater + 1)..db'.highwater)
      BY <2>5 DEF LegsMove
    <3> QED BY <1>1, <2>4, <3>1
  <2> QED BY <1>3, <2>3, <2>4, <2>6 DEF RowsOf, Queued
<1>4. PagesLeaveNoGap'
  <2> SUFFICES ASSUME NEW k \in DOMAIN db'.pages
               PROVE  LET p == db'.pages[k]
                          lo == IF p.from = None THEN 0 ELSE db'.cursors[p.from].last
                          hi == End(p)
                      IN  /\ p.from # None => p.cutoff = db'.cursors[p.from].cutoff
                          /\ \A l \in RowsOf(db', p.rcpt) :
                                (lo < db'.legs[l].seq /\ db'.legs[l].seq <= hi) =>
                                    db'.legs[l].seq \in p.items \/ ~Queued(db', l)
    BY DEF PagesLeaveNoGap, End
  <2> DEFINE p == db.pages[k]
             lo == IF p.from = None THEN 0 ELSE db.cursors[p.from].last
  <2>1. k \in DOMAIN db.pages /\ db'.pages[k] = p OBVIOUS
  <2>2. /\ p.from # None => p.cutoff = db.cursors[p.from].cutoff
        /\ \A l \in RowsOf(db, p.rcpt) :
              (lo < db.legs[l].seq /\ db.legs[l].seq <= End(p)) =>
                  db.legs[l].seq \in p.items \/ ~Queued(db, l)
    BY <2>1 DEF PagesLeaveNoGap, End
  <2> QED BY <1>3, <2>1, <2>2
<1> QED BY <1>2, <1>4

\* page begins where its cursor says, or where the last page of the queue ended.
LEMMA PageStep ==
    ASSUME BoundsOK, PagesOK, PagesLeaveNoGap,
           NEW r, NEW c, NEW q, NEW token \in DOMAIN db.cursors \cup {None},
           NEW limit \in plan.limits, Page(r, c, q, token, limit), db' # db
    PROVE  PagesOK' /\ PagesLeaveNoGap'
<1> DEFINE from == PageFrom(token)
           rows == {s \in SeqsOf(db, r) \cap db.queue : from.last < s /\ s <= from.cutoff}
           items == First(rows, limit)
           next == Cardinality(DOMAIN db.cursors) + 1
           more == items # rows
           cursor == [rcpt |-> r, consumer |-> c, cutoff |-> from.cutoff, last |-> Last(items)]
           page == [rcpt |-> r, from |-> token, items |-> items,
                    cutoff |-> from.cutoff, next |-> IF more THEN next ELSE None]
           cursors == IF more THEN Put(db.cursors, next, cursor) ELSE db.cursors
           pages == Put(db.pages, <<c, q>>, page)
<1>1. /\ db' = [[db EXCEPT !.cursors = cursors, !.pages = pages] EXCEPT !.counter = @ + 1]
      /\ <<c, q>> \notin DOMAIN db.pages
  BY DEF Page, Mutate, Commit
<1>2. limit \in Nat \ {0} /\ db.highwater \in Nat /\ db.queue \subseteq 1..db.highwater
  <2>1. plan \in Plan BY BoundsAssumption DEF BoundsOK
  <2>2. plan.limits \subseteq Nat \ {0} BY <2>1 DEF Plan
  <2> QED BY <2>2 DEF BoundsOK
<1>3. PICK n \in Nat : DOMAIN db.cursors = 1..n BY DEF PagesOK
<1>4. next = n + 1
  <2>1. Cardinality(1..n) = n
    <3>1. 1 \in Int /\ n \in Int /\ (1 > n => n = 0) /\ n - 1 + 1 = n OBVIOUS
    <3>2. Cardinality(1..n) = IF 1 > n THEN 0 ELSE n - 1 + 1 BY <3>1, FS_Interval
    <3> QED BY <3>1, <3>2
  <2> QED BY <1>3, <2>1
<1>5. None \notin Nat BY NoneAssumption
<1>6. from.last \in 0..db.highwater /\ from.cutoff \in 0..db.highwater
  BY <1>2 DEF PageFrom, PagesOK
<1>7. rows \in SUBSET (1..db.highwater) BY <1>2
<1> HIDE DEF rows
<1>8. /\ items \subseteq rows
      /\ \A s \in items, t \in rows : t <= s => t \in items
      /\ rows # {} => items # {}
  BY <1>2, <1>7, FirstIsPrefix
<1> HIDE DEF items, next
<1>9. more => Last(items) \in items /\ Last(items) \in 1..db.highwater /\ Last(items) <= from.cutoff
  <2> SUFFICES ASSUME more
               PROVE  Last(items) \in items /\ Last(items) \in 1..db.highwater
                      /\ Last(items) <= from.cutoff
    OBVIOUS
  <2>1. items # {} BY <1>8
  <2>2. items \in SUBSET (1..db.highwater) BY <1>7, <1>8
  <2>3. Last(items) \in items BY <1>2, <2>1, <2>2, LastIsGreatest
  <2> QED BY <1>8, <2>2, <2>3 DEF rows
<1> HIDE DEF from
<1>10. /\ db'.cursors = cursors /\ db'.pages = pages
       /\ db'.highwater = db.highwater /\ db'.legs = db.legs /\ db'.queue = db.queue
  <2> HIDE DEF cursors, pages
  <2> QED BY <1>1 DEF BoundsOK, Fields
<1>11. /\ \A k \in DOMAIN db.cursors : k \in DOMAIN cursors /\ cursors[k] = db.cursors[k]
       /\ \A k \in DOMAIN cursors : cursors[k] = IF more /\ k = next THEN cursor ELSE db.cursors[k]
       /\ \E m \in Nat : DOMAIN cursors = 1..m
       /\ more => DOMAIN cursors = DOMAIN db.cursors \cup {next}
  <2>1. CASE more
    <3>1. cursors = Put(db.cursors, next, cursor) BY <2>1
    <3> HIDE DEF cursor, cursors
    <3>2. DOMAIN cursors = 1..(n + 1)
      <4>1. DOMAIN cursors = (1..n) \cup {n + 1} BY <1>3, <1>4, <3>1 DEF Put
      <4> QED BY <4>1
    <3> QED BY <1>3, <1>4, <2>1, <3>1, <3>2 DEF Put
  <2>2. CASE ~more BY <1>3, <2>2
  <2> QED BY <2>1, <2>2
<1>12. \A k \in DOMAIN cursors : cursors[k].cutoff \in 0..db.highwater
                                 /\ cursors[k].last \in 0..db.highwater
  <2>1. more => cursor.cutoff \in 0..db.highwater /\ cursor.last \in 0..db.highwater
    BY <1>2, <1>6, <1>9
  <2>2. \A k \in DOMAIN cursors : ~(more /\ k = next) => k \in DOMAIN db.cursors
    BY <1>11
  <2> HIDE DEF cursor, cursors
  <2> QED BY <1>11, <2>1, <2>2 DEF PagesOK
<1> HIDE DEF cursors
<1>13. /\ DOMAIN pages = DOMAIN db.pages \cup {<<c, q>>}
       /\ pages[<<c, q>>] = page
       /\ \A k \in DOMAIN db.pages : pages[k] = db.pages[k]
  <2> HIDE DEF page
  <2> QED BY <1>1 DEF Put
<1>14. End(page) = IF more THEN Last(items) ELSE from.cutoff
  BY <1>4, <1>5 DEF End
<1>15. /\ page.from = token /\ page.items = items /\ page.rcpt = r /\ page.cutoff = from.cutoff
  OBVIOUS
<1> HIDE DEF pages, page, cursor
<1>16. PagesOK'
  <2>1. \A k \in DOMAIN pages :
           End(pages[k]) \in 0..db.highwater /\ pages[k].from \in DOMAIN cursors \cup {None}
    <3>1. End(page) \in 0..db.highwater BY <1>2, <1>6, <1>9, <1>14
    <3>2. token \in DOMAIN cursors \cup {None} BY <1>11
    <3> HIDE DEF more
    <3> QED BY <1>11, <1>13, <1>15, <3>1, <3>2 DEF PagesOK
  <2> QED BY <1>10, <1>11, <1>12, <2>1 DEF PagesOK
<1> DEFINE NoGap(p, cs) ==
             LET lo == IF p.from = None THEN 0 ELSE cs[p.from].last IN
             /\ p.from # None => p.cutoff = cs[p.from].cutoff
             /\ \A l \in RowsOf(db, p.rcpt) :
                   (lo < db.legs[l].seq /\ db.legs[l].seq <= End(p)) =>
                       db.legs[l].seq \in p.items \/ ~Queued(db, l)
<1>17. \A k \in DOMAIN db.pages : NoGap(db.pages[k], cursors)
  <2> SUFFICES ASSUME NEW k \in DOMAIN db.pages PROVE NoGap(db.pages[k], cursors) OBVIOUS
  <2>1. NoGap(db.pages[k], db.cursors) BY DEF PagesLeaveNoGap, End
  <2>2. db.pages[k].from \in DOMAIN db.cursors \cup {None} BY DEF PagesOK
  <2>3. db.pages[k].from # None => cursors[db.pages[k].from] = db.cursors[db.pages[k].from]
    BY <1>11, <2>2
  <2> QED BY <2>1, <2>3
<1>18. NoGap(page, cursors)
  <2>1. token # None => cursors[token] = db.cursors[token] /\ from = db.cursors[token]
    BY <1>11 DEF PageFrom, from
  <2>2. token = None => from.last = 0 BY DEF PageFrom, from
  <2>3. ASSUME NEW l \in RowsOf(db, r), from.last < db.legs[l].seq, db.legs[l].seq <= End(page),
               Queued(db, l)
        PROVE  db.legs[l].seq \in items
    <3>1. db.legs[l].seq \in SeqsOf(db, r) \cap db.queue BY <2>3 DEF SeqsOf, Queued
    <3>2. db.legs[l].seq \in 1..db.highwater BY <1>2, <3>1
    <3>3. CASE ~more
      <4>1. db.legs[l].seq \in rows BY <1>14, <2>3, <3>1, <3>3 DEF rows
      <4> QED BY <3>3, <4>1
    <3>4. CASE more
      <4>1. Last(items) \in Nat /\ Last(items) <= from.cutoff /\ from.cutoff \in Nat
            /\ Last(items) \in items
        BY <1>2, <1>6, <1>9, <3>4
      <4>2. db.legs[l].seq <= Last(items) BY <1>14, <2>3, <3>4
      <4>3. db.legs[l].seq \in rows BY <2>3, <3>1, <3>2, <4>1, <4>2 DEF rows
      <4> QED BY <1>8, <4>1, <4>2, <4>3
    <3> QED BY <3>3, <3>4
  <2> QED BY <1>15, <2>1, <2>2, <2>3
<1>19. PagesLeaveNoGap'
  <2>1. \A k \in DOMAIN pages : NoGap(pages[k], cursors) BY <1>13, <1>17, <1>18
  <2>2. \A p : RowsOf(db, p)' = RowsOf(db, p) BY <1>10 DEF RowsOf
  <2>3. \A l : Queued(db, l)' = Queued(db, l) BY <1>10 DEF Queued
  <2> QED BY <1>10, <2>1, <2>2, <2>3 DEF PagesLeaveNoGap, End
<1> QED BY <1>16, <1>19

\* While a lease runs, the queued rows it was given are under it.
ClaimsOK ==
    /\ \A s \in DOMAIN db.claims : db.claims[s].until \in Nat
    /\ \A k \in DOMAIN db.batches :
          /\ db.batches[k].until \in Nat
          /\ db.batches[k].items \subseteq 1..db.highwater
          /\ db.batches[k].until > now =>
                \A s \in db.batches[k].items \cap db.queue :
                   s \in DOMAIN db.claims /\ db.claims[s].until = db.batches[k].until

\* Time and new legs only loosen what claims say.
LEMMA ClaimsKept ==
    ASSUME BoundsOK, ClaimsOK, ClaimsAreDisjoint, LegsMove, now' \in Nat, now <= now',
           db'.batches = db.batches, db'.claims = db.claims
    PROVE  ClaimsOK' /\ ClaimsAreDisjoint'
<1>1. now \in Nat /\ db.highwater \in Nat /\ db'.highwater \in Nat /\ db.highwater <= db'.highwater
  BY DEF BoundsOK, LegsMove
<1>2. ASSUME NEW k \in DOMAIN db.batches
      PROVE  /\ db.batches[k].until \in Nat
             /\ db.batches[k].items \subseteq 1..db'.highwater
             /\ db.batches[k].until > now' => db.batches[k].until > now
             /\ \A s \in db.batches[k].items \cap db'.queue : s \in db.queue
  <2>1. db.batches[k].until \in Nat /\ db.batches[k].items \subseteq 1..db.highwater
    BY DEF ClaimsOK
  <2>2. ASSUME NEW s \in db.batches[k].items, s \in db'.queue PROVE s \in db.queue
    <3>1. s \in db.queue \cup ((db.highwater + 1)..db'.highwater) BY <2>2 DEF LegsMove
    <3> QED BY <1>1, <2>1, <3>1
  <2> QED BY <1>1, <2>1, <2>2
<1>3. ClaimsOK' BY <1>2 DEF ClaimsOK
<1>4. ClaimsAreDisjoint' BY <1>2 DEF ClaimsAreDisjoint
<1> QED BY <1>3, <1>4

\* claim leases rows that no running lease holds.
LEMMA ClaimStep ==
    ASSUME BoundsOK, ClaimsOK, ClaimsAreDisjoint,
           NEW r, NEW c, NEW k, NEW limit, NEW until \in Nat, NEW t \in Nat, t <= now,
           Claim(r, c, k, limit, until, t), db' # db
    PROVE  ClaimsOK' /\ ClaimsAreDisjoint'
<1> DEFINE items == First(Claimable(r, t), limit)
           batch == [consumer |-> c, items |-> items, until |-> until]
           batches == Put(db.batches, k, batch)
           claims == [s \in DOMAIN db.claims \cup items |->
                         IF s \in items /\ (s \in DOMAIN db.claims => db.claims[s].until <= t)
                         THEN [claim |-> k, until |-> until] ELSE db.claims[s]]
<1>1. /\ db' = [[db EXCEPT !.batches = batches, !.claims = claims] EXCEPT !.counter = @ + 1]
      /\ k \notin DOMAIN db.batches /\ now' = now
  BY DEF Claim, Mutate, Commit
<1>2. \A s \in items : /\ s \in db.queue
                       /\ s \in DOMAIN db.claims => db.claims[s].until <= t
  <2>1. items \subseteq Claimable(r, t) BY DEF First
  <2>2. \A s \in Claimable(r, t) : s \in db.queue
                                   /\ (s \in DOMAIN db.claims => db.claims[s].until <= t)
    BY DEF Claimable, Queued
  <2> HIDE DEF items
  <2> QED BY <2>1, <2>2
<1> HIDE DEF items
<1>3. now \in Nat /\ db.highwater \in Nat /\ db.queue \subseteq 1..db.highwater BY DEF BoundsOK
<1>4. /\ db'.batches = batches /\ db'.claims = claims
      /\ db'.highwater = db.highwater /\ db'.queue = db.queue
  <2> HIDE DEF batches, claims
  <2> QED BY <1>1 DEF BoundsOK, Fields
<1>5. /\ DOMAIN claims = DOMAIN db.claims \cup items
      /\ \A s \in items : claims[s].until = until
      /\ \A s \in DOMAIN db.claims \ items : claims[s] = db.claims[s]
  BY <1>2
<1>6. /\ DOMAIN batches = DOMAIN db.batches \cup {k}
      /\ batches[k].items = items /\ batches[k].until = until
      /\ \A j \in DOMAIN db.batches : batches[j] = db.batches[j]
  BY <1>1 DEF Put
<1> HIDE DEF batch, batches, claims
\* What a running lease covers is not claimable.
<1>7. ASSUME NEW j \in DOMAIN db.batches, db.batches[j].until > now
      PROVE  db.batches[j].items \cap items = {}
  <2> SUFFICES ASSUME NEW s \in items, s \in db.batches[j].items PROVE FALSE OBVIOUS
  <2>1. s \in db.queue /\ (s \in DOMAIN db.claims => db.claims[s].until <= t) BY <1>2
  <2>2. s \in DOMAIN db.claims /\ db.claims[s].until = db.batches[j].until
    BY <1>7, <2>1 DEF ClaimsOK
  <2>3. db.batches[j].until \in Nat BY DEF ClaimsOK
  <2> QED BY <1>3, <1>7, <2>1, <2>2, <2>3
<1>8. ClaimsOK'
  <2>1. \A s \in DOMAIN claims : claims[s].until \in Nat
    BY <1>5 DEF ClaimsOK
  <2>2. ASSUME NEW j \in DOMAIN batches
        PROVE  /\ batches[j].until \in Nat
               /\ batches[j].items \subseteq 1..db.highwater
               /\ batches[j].until > now =>
                     \A s \in batches[j].items \cap db.queue :
                        s \in DOMAIN claims /\ claims[s].until = batches[j].until
    <3>1. CASE j = k
      <4>1. items \subseteq 1..db.highwater BY <1>2, <1>3
      <4> QED BY <1>5, <1>6, <3>1, <4>1
    <3>2. CASE j # k
      <4>1. j \in DOMAIN db.batches /\ batches[j] = db.batches[j] BY <1>6, <3>2
      <4> QED BY <1>5, <1>7, <4>1 DEF ClaimsOK
    <3> QED BY <3>1, <3>2
  <2> QED BY <1>1, <1>4, <2>1, <2>2 DEF ClaimsOK
<1>9. ClaimsAreDisjoint'
  <2> SUFFICES ASSUME NEW i \in DOMAIN batches, NEW j \in DOMAIN batches, i # j,
                      batches[i].until > now, batches[j].until > now
               PROVE  batches[i].items \cap batches[j].items = {}
    BY <1>1, <1>4 DEF ClaimsAreDisjoint
  <2>1. CASE i = k \/ j = k BY <1>6, <1>7, <2>1
  <2>2. CASE i # k /\ j # k BY <1>6, <2>2 DEF ClaimsAreDisjoint
  <2> QED BY <2>1, <2>2
<1> QED BY <1>8, <1>9

\* Compaction takes a row and what was claimed of it away together.
LEMMA CompactStep ==
    ASSUME BoundsOK, ClaimsOK, ClaimsAreDisjoint, NEW r, NEW s, Compact(r, s), db' # db
    PROVE  ClaimsOK' /\ ClaimsAreDisjoint'
<1> DEFINE gone == {db.legs[l].seq : l \in Prefix(db, r, s)}
<1>1. /\ now' = now
      /\ \E compactions :
           db' = [[db EXCEPT !.queue = @ \ gone, !.claims = Without(@, gone),
                             !.compactions = compactions] EXCEPT !.counter = @ + 1]
  BY DEF Compact, Mutate, Commit
<1> HIDE DEF gone
<1>2. PICK compactions :
           db' = [[db EXCEPT !.queue = @ \ gone, !.claims = Without(@, gone),
                             !.compactions = compactions] EXCEPT !.counter = @ + 1]
  BY <1>1
<1>3. /\ db'.queue = db.queue \ gone /\ db'.claims = Without(db.claims, gone)
      /\ db'.batches = db.batches /\ db'.highwater = db.highwater
  BY <1>2 DEF BoundsOK, Fields
<1>4. /\ DOMAIN db'.claims = DOMAIN db.claims \ gone
      /\ \A x \in DOMAIN db'.claims : db'.claims[x] = db.claims[x]
  BY <1>3 DEF Without
<1>5. ClaimsOK' BY <1>1, <1>3, <1>4 DEF ClaimsOK
<1>6. ClaimsAreDisjoint' BY <1>1, <1>3 DEF ClaimsAreDisjoint
<1> QED BY <1>5, <1>6

-----------------------------------------------------------------------------
(* The recipient. *)

InboxRow ==
    [bytes: {e.bytes : e \in Envelopes}, seq: Nat, at: Nat, state: {"pending", "acked"},
     consumer: Consumers \cup {None}, until: Nat]

\* The rows that stand for a delivery in an inbox.
Rows == [d \in DOMAIN inbox \cup DOMAIN tombs |-> IF d \in DOMAIN inbox THEN inbox[d] ELSE tombs[d]]

\* A delivery has a row or a tombstone of it, and not both.
RecipientOK ==
    /\ nextSeq \in [Hosts -> Nat]
    /\ \A d \in DOMAIN inbox : inbox[d] \in InboxRow
    /\ \A d \in DOMAIN tombs : tombs[d] \in InboxRow /\ d \notin DOMAIN inbox

\* Every accepted answer about a delivery says what its row says.
AnswersOK ==
    \A a \in DOMAIN answers :
        answers[a].response.status = "accepted" =>
            /\ answers[a].place \in DOMAIN Rows
            /\ answers[a].response = Accepted(answers[a].place, Rows[answers[a].place])

\* What stands in the recipient's own inbox passed its validator.
Validated(p, row) == p[1] = Home => \E e \in Envelopes \ Refused : e.id = p[2] /\ e.bytes = row.bytes
IntakeOK == \A p \in DOMAIN Rows : Validated(p, Rows[p])

\* While a lease runs, the pending rows it was given are under it.
LeasesOK ==
    \A k \in DOMAIN leases :
        /\ leases[k].until \in Nat
        /\ \A d \in leases[k].items :
              /\ d \in DOMAIN Rows
              /\ (leases[k].until > now /\ d \in DOMAIN inbox /\ inbox[d].state = "pending") =>
                    inbox[d].until = leases[k].until

\* What was taken in stays, with its bytes, its position and its time, and what
\* comes in new was validated where it has to be.
InboxMoves ==
    \A d \in DOMAIN Rows :
        /\ d \in DOMAIN Rows'
        /\ Rows'[d].bytes = Rows[d].bytes /\ Rows'[d].seq = Rows[d].seq /\ Rows'[d].at = Rows[d].at
Admits == \A d \in DOMAIN Rows' : d \in DOMAIN Rows \/ Validated(d, Rows'[d])

\* Where nothing comes in, what was validated stays so.
LEMMA IntakeKept ==
    ASSUME IntakeOK, InboxMoves, DOMAIN Rows' = DOMAIN Rows PROVE IntakeOK'
<1> SUFFICES ASSUME NEW p \in DOMAIN Rows' PROVE Validated(p, Rows'[p])
  BY DEF IntakeOK, Validated
<1>1. p \in DOMAIN Rows /\ Rows'[p].bytes = Rows[p].bytes BY DEF InboxMoves
<1>2. Validated(p, Rows[p]) BY <1>1 DEF IntakeOK
<1> QED BY <1>1, <1>2 DEF Validated

\* RowAt finds the row of a delivery.
LEMMA RowAtStanding ==
    ASSUME RecipientOK, NEW p
    PROVE  /\ RowAt(p) # None <=> p \in DOMAIN Rows
           /\ p \in DOMAIN Rows => RowAt(p) = Rows[p] /\ Rows[p] \in InboxRow
<1>1. None \notin InboxRow BY RowAssumption DEF InboxRow
<1>2. CASE p \in DOMAIN inbox
  <2>1. RowAt(p) = inbox[p] BY <1>2 DEF RowAt, RecipientOK
  <2>2. p \in DOMAIN Rows /\ Rows[p] = inbox[p] BY <1>2 DEF Rows
  <2> QED BY <1>1, <1>2, <2>1, <2>2 DEF RecipientOK
<1>3. CASE p \notin DOMAIN inbox /\ p \in DOMAIN tombs
  <2>1. RowAt(p) = tombs[p] BY <1>3 DEF RowAt
  <2>2. p \in DOMAIN Rows /\ Rows[p] = tombs[p] BY <1>3 DEF Rows
  <2> QED BY <1>1, <1>3, <2>1, <2>2 DEF RecipientOK
<1>4. CASE p \notin DOMAIN inbox /\ p \notin DOMAIN tombs
  <2>1. RowAt(p) = None BY <1>4 DEF RowAt
  <2>2. p \notin DOMAIN Rows BY <1>4 DEF Rows
  <2> QED BY <2>1, <2>2
<1> QED BY <1>2, <1>3, <1>4

\* Answers, leases and the rows of the others stand as long as the rows do.
LEMMA AnswersKept ==
    ASSUME AnswersOK, InboxMoves, answers' = answers PROVE AnswersOK'
BY DEF AnswersOK, InboxMoves, Accepted

\* _finalize_retained_intake takes a delivery in at the next place, or answers from its row.
LEMMA IngestStep ==
    ASSUME BoundsOK, RecipientOK, AnswersOK, LeasesOK, InboxClaimsAreDisjoint,
           NEW i, wire[i].env \in Envelopes, wire[i].to \in RouteRefs, Ingest(i)
    PROVE  /\ RecipientOK' /\ AnswersOK' /\ LeasesOK' /\ InboxClaimsAreDisjoint' /\ InboxMoves
           /\ Admits
           /\ Place(i) \in DOMAIN Rows' /\ Rows'[Place(i)].bytes = wire[i].env.bytes
           /\ wire' = [wire EXCEPT ![i].state = "handled",
                                   ![i].response = Accepted(Place(i), Rows'[Place(i)])]
<1> DEFINE env == wire[i].env
           id == Place(i)
           att == wire[i].request.attempt
           fresh == [bytes |-> env.bytes, seq |-> nextSeq[id[1]], at |-> now, state |-> "pending",
                     consumer |-> None, until |-> 0]
           row == IF RowAt(id) # None THEN RowAt(id) ELSE fresh
           answer == [request |-> wire[i].request, place |-> id,
                      response |-> Accepted(id, row)]
<1>1. /\ row.bytes = env.bytes
      /\ answers' = Put(answers, att, answer)
      /\ IF RowAt(id) = None THEN inbox' = Put(inbox, id, row) /\ nextSeq' = [nextSeq EXCEPT ![id[1]] = @ + 1]
         ELSE UNCHANGED <<inbox, nextSeq>>
      /\ tombs' = tombs /\ leases' = leases /\ now' = now
      /\ wire' = [wire EXCEPT ![i].state = "handled", ![i].response = Accepted(id, row)]
      /\ ~Unwelcome(i)
  BY DEF Ingest, Handled, cvars
<1>2. fresh \in InboxRow /\ fresh.bytes = env.bytes
  <2>1. id[1] \in Hosts BY DEF Place, Hosts
  <2>2. nextSeq[id[1]] \in Nat BY <2>1 DEF RecipientOK
  <2> QED BY <2>2 DEF InboxRow, BoundsOK
<1>3. answer.place = id /\ answer.response = Accepted(id, row) OBVIOUS
<1>12. Validated(id, row)
  <2>1. id[1] = Host(wire[i].to) /\ id[2] = env.id BY DEF Place
  <2> QED BY <1>1, <2>1 DEF Validated, Unwelcome
<1> HIDE DEF fresh, answer
<1>4. /\ id \in DOMAIN Rows' /\ Rows'[id] = row /\ row \in InboxRow
      /\ \A x \in DOMAIN Rows : x \in DOMAIN Rows' /\ Rows'[x] = Rows[x]
      /\ \A x \in DOMAIN Rows' : x \in DOMAIN Rows \/ x = id
      /\ \A x \in DOMAIN inbox : x \in DOMAIN inbox' /\ inbox'[x] = inbox[x]
      /\ \A x \in DOMAIN inbox' : x \in DOMAIN inbox \/ (x = id /\ id \notin DOMAIN Rows /\ inbox'[x] = row)
  <2>1. CASE id \in DOMAIN Rows
    <3>1. RowAt(id) # None /\ RowAt(id) = Rows[id] /\ Rows[id] \in InboxRow
      BY <2>1, RowAtStanding
    <3>2. inbox' = inbox /\ row = Rows[id] BY <1>1, <3>1
    <3>3. Rows' = Rows BY <1>1, <3>2 DEF Rows
    <3> HIDE DEF row, id
    <3> QED BY <2>1, <3>1, <3>2, <3>3
  <2>2. CASE id \notin DOMAIN Rows
    <3>1. RowAt(id) = None BY <2>2, RowAtStanding
    <3>2. inbox' = Put(inbox, id, row) /\ row = fresh BY <1>1, <3>1
    <3> HIDE DEF row, id
    <3>3. DOMAIN inbox' = DOMAIN inbox \cup {id} /\ inbox'[id] = row
          /\ \A x \in DOMAIN inbox : x # id => inbox'[x] = inbox[x]
      BY <3>2 DEF Put
    <3>4. id \notin DOMAIN inbox /\ id \notin DOMAIN tombs BY <2>2 DEF Rows
    <3>5. /\ DOMAIN Rows' = DOMAIN Rows \cup {id}
          /\ Rows'[id] = row
          /\ \A x \in DOMAIN Rows : Rows'[x] = Rows[x]
      BY <1>1, <3>3, <3>4 DEF Rows
    <3> QED BY <1>2, <2>2, <3>2, <3>3, <3>4, <3>5
  <2> QED BY <2>1, <2>2
<1> HIDE DEF row
<1>5. InboxMoves /\ Admits BY <1>4, <1>12 DEF InboxMoves, Admits
<1>6. /\ DOMAIN answers' = DOMAIN answers \cup {att} /\ answers'[att] = answer
      /\ \A x \in DOMAIN answers : x # att => answers'[x] = answers[x]
  BY <1>1 DEF Put
<1> HIDE DEF att, id
<1>7. AnswersOK'
  <2> SUFFICES ASSUME NEW x \in DOMAIN answers', answers'[x].response.status = "accepted"
               PROVE  /\ answers'[x].place \in DOMAIN Rows'
                      /\ answers'[x].response = Accepted(answers'[x].place, Rows'[answers'[x].place])
    BY DEF AnswersOK, Accepted
  <2>1. CASE x = att BY <1>3, <1>4, <1>6, <2>1
  <2>2. CASE x # att
    <3>1. x \in DOMAIN answers /\ answers'[x] = answers[x] BY <1>6, <2>2
    <3>2. /\ answers[x].place \in DOMAIN Rows
          /\ answers[x].response = Accepted(answers[x].place, Rows[answers[x].place])
      BY <3>1 DEF AnswersOK
    <3> QED BY <1>4, <3>1, <3>2
  <2> QED BY <2>1, <2>2
<1>8. RecipientOK'
  <2>1. nextSeq' \in [Hosts -> Nat] BY <1>1 DEF RecipientOK
  <2>2. \A x \in DOMAIN inbox' : inbox'[x] \in InboxRow BY <1>4 DEF RecipientOK
  <2>3. \A x \in DOMAIN tombs : x \in DOMAIN Rows BY DEF Rows
  <2>4. \A x \in DOMAIN tombs' : tombs'[x] \in InboxRow /\ x \notin DOMAIN inbox'
    BY <1>1, <1>4, <2>3 DEF RecipientOK
  <2> QED BY <2>1, <2>2, <2>4 DEF RecipientOK
<1>9. LeasesOK'
  <2> SUFFICES ASSUME NEW k \in DOMAIN leases, NEW x \in leases[k].items
               PROVE  /\ x \in DOMAIN Rows'
                      /\ (leases[k].until > now /\ x \in DOMAIN inbox' /\ inbox'[x].state = "pending") =>
                            inbox'[x].until = leases[k].until
    BY <1>1 DEF LeasesOK
  <2>1. x \in DOMAIN Rows BY DEF LeasesOK
  <2>2. x \in DOMAIN inbox' => x \in DOMAIN inbox /\ inbox'[x] = inbox[x] BY <1>4, <2>1
  <2> QED BY <1>4, <2>1, <2>2 DEF LeasesOK
<1>10. InboxClaimsAreDisjoint' BY <1>1 DEF InboxClaimsAreDisjoint
<1>11. Rows'[id].bytes = env.bytes BY <1>1, <1>4
<1>13. wire' = [wire EXCEPT ![i].state = "handled", ![i].response = Accepted(id, Rows'[id])]
  BY <1>1, <1>4
<1> QED BY <1>4, <1>5, <1>7, <1>8, <1>9, <1>10, <1>11, <1>13 DEF id

\* What the recipient keeps between two steps.
RecipientInv == RecipientOK /\ AnswersOK /\ LeasesOK /\ InboxClaimsAreDisjoint /\ IntakeOK

\* A refusal is journalled and changes no row.
LEMMA RefuseStep ==
    ASSUME RecipientInv, now' = now, NEW i, Refuse(i) \/ Reject(i)
    PROVE  RecipientInv' /\ InboxMoves
<1> DEFINE att == wire[i].request.attempt
           answer == [request |-> wire[i].request, place |-> Place(i),
                      response |-> RefusedAnswer]
<1>1. /\ inbox' = inbox /\ tombs' = tombs /\ leases' = leases /\ nextSeq' = nextSeq
      /\ answers' = answers \/ answers' = Put(answers, att, answer)
  BY DEF Refuse, Reject, recipient
<1>2. Rows' = Rows BY <1>1 DEF Rows
<1>3. InboxMoves /\ IntakeOK' BY <1>2 DEF InboxMoves, IntakeOK, RecipientInv
<1>4. answer.response.status # "accepted" BY DEF RefusedAnswer
<1> HIDE DEF answer, att
<1>5. AnswersOK'
  <2>1. CASE answers' = answers BY <1>3, <2>1, AnswersKept DEF RecipientInv
  <2>2. CASE answers' = Put(answers, att, answer)
    <3>1. \A x \in DOMAIN answers' : (x \in DOMAIN answers /\ answers'[x] = answers[x])
                                     \/ answers'[x] = answer
      BY <2>2 DEF Put
    <3> QED BY <1>2, <1>4, <3>1 DEF AnswersOK, Accepted, RecipientInv
  <2> QED BY <1>1, <2>1, <2>2
<1>6. RecipientOK' BY <1>1 DEF RecipientOK, RecipientInv
<1>7. LeasesOK' BY <1>1, <1>2 DEF LeasesOK, RecipientInv
<1>8. InboxClaimsAreDisjoint' BY <1>1 DEF InboxClaimsAreDisjoint, RecipientInv
<1> QED BY <1>3, <1>5, <1>6, <1>7, <1>8 DEF RecipientInv

\* claim leases pending rows that no running lease holds.
LEMMA InboxClaimStep ==
    ASSUME RecipientInv, now \in Nat, now' = now, NEW c \in Consumers, NEW until \in Nat,
           NEW h, NEW limit, InboxClaim(h, c, until, limit)
    PROVE  RecipientInv' /\ InboxMoves
<1> USE DEF RecipientInv
<1> DEFINE free == {d \in DOMAIN inbox : d[1] = h /\ Free(d)}
           items == {d \in free : inbox[d].seq \in First({inbox[x].seq : x \in free}, limit)}
           key == Cardinality(DOMAIN leases) + 1
           lease == [consumer |-> c, items |-> items, until |-> until]
<1>1. /\ inbox' = [d \in DOMAIN inbox |->
                      IF d \in items THEN [inbox[d] EXCEPT !.consumer = c, !.until = until]
                      ELSE inbox[d]]
      /\ leases' = Put(leases, key, lease)
      /\ tombs' = tombs /\ answers' = answers /\ nextSeq' = nextSeq
  BY DEF InboxClaim
<1>2. \A d \in items : d \in DOMAIN inbox /\ inbox[d].state = "pending" /\ inbox[d].until <= now
  BY DEF Free
<1> HIDE DEF items, free
<1>3. lease.items = items /\ lease.until = until OBVIOUS
<1>4. /\ DOMAIN leases' = DOMAIN leases \cup {key} /\ leases'[key] = lease
      /\ \A k \in DOMAIN leases : k # key => leases'[k] = leases[k]
  BY <1>1 DEF Put
<1> HIDE DEF lease, key
<1>5. /\ DOMAIN inbox' = DOMAIN inbox
      /\ \A d \in DOMAIN inbox :
            /\ inbox'[d] \in InboxRow
            /\ inbox'[d].bytes = inbox[d].bytes /\ inbox'[d].seq = inbox[d].seq
            /\ inbox'[d].at = inbox[d].at /\ inbox'[d].state = inbox[d].state
            /\ inbox'[d].until = IF d \in items THEN until ELSE inbox[d].until
  BY <1>1 DEF RecipientOK, InboxRow
<1>6. InboxMoves /\ IntakeOK'
  <2>1. InboxMoves /\ DOMAIN Rows' = DOMAIN Rows BY <1>1, <1>5 DEF InboxMoves, Rows
  <2> QED BY <2>1, IntakeKept
<1>7. AnswersOK' BY <1>1, <1>6, AnswersKept
<1>8. RecipientOK' BY <1>1, <1>5 DEF RecipientOK
\* What a running lease covers is not free.
<1>9. ASSUME NEW k \in DOMAIN leases, leases[k].until > now PROVE leases[k].items \cap items = {}
  <2> SUFFICES ASSUME NEW d \in items, d \in leases[k].items PROVE FALSE OBVIOUS
  <2>1. inbox[d].until = leases[k].until BY <1>2, <1>9 DEF LeasesOK
  <2>2. leases[k].until \in Nat BY DEF LeasesOK
  <2> QED BY <1>2, <1>9, <2>1, <2>2
<1>10. LeasesOK'
  <2> SUFFICES ASSUME NEW k \in DOMAIN leases'
               PROVE  /\ leases'[k].until \in Nat
                      /\ \A d \in leases'[k].items :
                            /\ d \in DOMAIN Rows'
                            /\ (leases'[k].until > now /\ d \in DOMAIN inbox' /\ inbox'[d].state = "pending") =>
                                  inbox'[d].until = leases'[k].until
    BY DEF LeasesOK
  <2>1. CASE k = key
    <3>1. \A d \in items : d \in DOMAIN Rows' BY <1>2, <1>5 DEF Rows
    <3> QED BY <1>3, <1>4, <1>5, <2>1, <3>1
  <2>2. CASE k # key
    <3>1. k \in DOMAIN leases /\ leases'[k] = leases[k] BY <1>4, <2>2
    <3>2. \A d \in leases[k].items : d \in DOMAIN Rows' BY <1>6, <3>1 DEF LeasesOK, InboxMoves
    <3>3. \A d \in leases[k].items : leases[k].until > now => d \notin items BY <1>9, <3>1
    <3> QED BY <1>5, <3>1, <3>2, <3>3 DEF LeasesOK
  <2> QED BY <2>1, <2>2
<1>11. InboxClaimsAreDisjoint'
  <2> SUFFICES ASSUME NEW j \in DOMAIN leases', NEW k \in DOMAIN leases', j # k,
                      leases'[j].until > now, leases'[k].until > now
               PROVE  leases'[j].items \cap leases'[k].items = {}
    BY DEF InboxClaimsAreDisjoint
  <2>1. CASE j = key \/ k = key BY <1>3, <1>4, <1>9, <2>1
  <2>2. CASE j # key /\ k # key BY <1>4, <2>2 DEF InboxClaimsAreDisjoint
  <2> QED BY <2>1, <2>2
<1> QED BY <1>6, <1>7, <1>8, <1>10, <1>11

\* ack ends the lease of the row it settles.
LEMMA InboxAckStep ==
    ASSUME RecipientInv, now' = now, NEW c, NEW d, InboxAck(c, d)
    PROVE  RecipientInv' /\ InboxMoves
<1> USE DEF RecipientInv
<1>1. /\ d \in DOMAIN inbox
      /\ inbox' = [inbox EXCEPT ![d].state = "acked", ![d].until = 0]
      /\ tombs' = tombs /\ answers' = answers /\ nextSeq' = nextSeq /\ leases' = leases
  BY DEF InboxAck
<1>2. /\ DOMAIN inbox' = DOMAIN inbox
      /\ \A x \in DOMAIN inbox : x # d => inbox'[x] = inbox[x]
  BY <1>1
<1>3. /\ inbox'[d] \in InboxRow /\ inbox'[d].state = "acked"
      /\ inbox'[d].bytes = inbox[d].bytes /\ inbox'[d].seq = inbox[d].seq
      /\ inbox'[d].at = inbox[d].at
  BY <1>1 DEF RecipientOK, InboxRow
<1>4. DOMAIN Rows' = DOMAIN Rows BY <1>1, <1>2 DEF Rows
<1>5. InboxMoves /\ IntakeOK'
  <2>1. InboxMoves BY <1>1, <1>2, <1>3 DEF InboxMoves, Rows
  <2> QED BY <1>4, <2>1, IntakeKept
<1>6. AnswersOK' BY <1>1, <1>5, AnswersKept
<1>7. RecipientOK' BY <1>1, <1>2, <1>3 DEF RecipientOK
<1>8. LeasesOK' BY <1>1, <1>2, <1>3, <1>4 DEF LeasesOK
<1>9. InboxClaimsAreDisjoint' BY <1>1 DEF InboxClaimsAreDisjoint
<1> QED BY <1>5, <1>6, <1>7, <1>8, <1>9

\* compact turns acknowledged rows into tombstones that say the same.
LEMMA InboxCompactStep ==
    ASSUME RecipientInv, now' = now, NEW h, NEW s, InboxCompact(h, s)
    PROVE  RecipientInv' /\ InboxMoves
<1> USE DEF RecipientInv
<1> DEFINE gone == {d \in DOMAIN inbox : d[1] = h /\ inbox[d].seq <= s}
<1>1. /\ tombs' = Tombstones(gone) /\ inbox' = Without(inbox, gone)
      /\ answers' = answers /\ nextSeq' = nextSeq /\ leases' = leases
      /\ gone \subseteq DOMAIN inbox
  BY DEF InboxCompact
<1> HIDE DEF gone
<1>2. /\ DOMAIN inbox' = DOMAIN inbox \ gone
      /\ \A d \in DOMAIN inbox' : inbox'[d] = inbox[d]
  BY <1>1 DEF Without
<1>3. /\ DOMAIN tombs' = DOMAIN tombs \cup gone
      /\ \A d \in DOMAIN tombs : tombs'[d] = tombs[d]
      /\ \A d \in gone : d \notin DOMAIN tombs => tombs'[d] = inbox[d]
  BY <1>1 DEF Tombstones
<1>4. \A d \in DOMAIN tombs : tombs[d] \in InboxRow /\ d \notin DOMAIN inbox BY DEF RecipientOK
<1>5. DOMAIN Rows' = DOMAIN Rows BY <1>1, <1>2, <1>3 DEF Rows
<1>6. \A d \in DOMAIN Rows : Rows'[d] = Rows[d]
  <2> SUFFICES ASSUME NEW d \in DOMAIN Rows PROVE Rows'[d] = Rows[d] OBVIOUS
  <2>1. d \in DOMAIN inbox \/ d \in DOMAIN tombs BY DEF Rows
  <2>2. CASE d \in DOMAIN inbox /\ d \notin gone BY <1>2, <2>2 DEF Rows
  <2>3. CASE d \in gone
    <3>1. d \in DOMAIN inbox /\ d \notin DOMAIN tombs BY <1>1, <1>4, <2>3
    <3> QED BY <1>2, <1>3, <2>3, <3>1 DEF Rows
  <2>4. CASE d \notin DOMAIN inbox BY <1>1, <1>2, <1>3, <2>1, <2>4 DEF Rows
  <2> QED BY <2>2, <2>3, <2>4
<1>7. InboxMoves /\ IntakeOK' BY <1>5, <1>6 DEF InboxMoves, IntakeOK
<1>8. AnswersOK' BY <1>1, <1>7, AnswersKept
<1>9. RecipientOK' BY <1>1, <1>2, <1>3, <1>4 DEF RecipientOK
<1>10. LeasesOK' BY <1>1, <1>2, <1>5 DEF LeasesOK
<1>11. InboxClaimsAreDisjoint' BY <1>1 DEF InboxClaimsAreDisjoint
<1> QED BY <1>7, <1>8, <1>9, <1>10, <1>11

-----------------------------------------------------------------------------
(* Which step writes which table. *)

PageTaken ==
    \E r, c, q : \E limit \in plan.limits, token \in DOMAIN db.cursors \cup {None} :
        Page(r, c, q, token, limit)
ClaimTaken ==
    \E r, c, k, limit : \E until \in Nat, t \in Nat : t <= now /\ Claim(r, c, k, limit, until, t)
Compacted == \E r, s : Compact(r, s)

Pages == <<db.pages, db.cursors>>
Claims == <<db.batches, db.claims>>
Carried == <<db.attempts, db.deliveries>>

\* Pages and claims are written by their own operations and by compact.
LEMMA StoreWriters ==
    ASSUME BoundsOK, StoreStep
    PROVE  /\ Pages' = Pages \/ (PageTaken /\ db' # db)
           /\ Claims' = Claims \/ ((ClaimTaken \/ Compacted) /\ db' # db)
           /\ Carried' = Carried
<1> USE DEF Pages, Claims, Carried
<1>1. plan \in Plan BY BoundsAssumption DEF BoundsOK
<1>2. plan.messages \subseteq Messages /\ plan.receipts \subseteq Receipts /\ plan.time \in Nat
  BY <1>1 DEF Plan
<1>3. db' = db => Pages' = Pages /\ Claims' = Claims /\ Carried' = Carried OBVIOUS
<1>5. CASE \E m \in plan.messages : Accept(m)
  <2>1. db' = db \/ Writes({"messages", "highwater", "legs", "queue"}) BY <1>2, <1>5, AcceptMoves
  <2> QED BY <2>1 DEF Writes, Fields
<1>6. CASE \E rc \in plan.receipts : RecordReceipt(rc)
  <2>1. db' = db \/ Writes({"legs", "receipts", "foreign", "conflicts"})
    BY <1>2, <1>6, ReceiptMoves
  <2> QED BY <2>1 DEF Writes, Fields
<1>7. CASE \E r \in Recipients, c \in plan.consumers, s \in 1..db.highwater : Advance(r, c, s)
  <2>1. db' = db \/ Writes({"consumers"}) BY <1>7, OtherStoreMoves
  <2> QED BY <2>1 DEF Writes, Fields
<1>8. CASE UpgradeReceiptsV2 \/ UpgradeLegsV3
  <2>1. Writes({"schema", "compactions"}) BY <1>8, OtherStoreMoves
  <2> QED BY <2>1 DEF Writes, Fields
<1>9. CASE Tick \/ Recover \/ (\E m : LearnMessage(m)) \/ (\E rc : LearnReceipt(rc))
  BY <1>9, OtherStoreMoves
<1>10. CASE \E r \in Recipients, c \in plan.consumers, q \in plan.pages, n \in plan.limits :
              \E token \in DOMAIN db.cursors \cup {None} : Page(r, c, q, token, n)
  <2>1. db' = db \/ Writes({"cursors", "pages"}) BY <1>10, OtherStoreMoves
  <2>2. Claims' = Claims /\ Carried' = Carried BY <2>1 DEF Writes, Fields
  <2>3. PageTaken BY <1>10 DEF PageTaken
  <2> QED BY <1>3, <2>2, <2>3
<1>11. CASE \E r \in Recipients, c \in plan.consumers, k \in plan.claims, n \in plan.limits :
              \E until \in 1..plan.time + 1, t \in {now, now - 1} \cap Nat :
                 Claim(r, c, k, n, until, t)
  <2>1. db' = db \/ Writes({"batches", "claims"}) BY <1>11, OtherStoreMoves
  <2>2. Pages' = Pages /\ Carried' = Carried BY <2>1 DEF Writes, Fields
  <2>3. \A until \in 1..plan.time + 1 : until \in Nat BY <1>2
  <2>4. \A t \in {now, now - 1} \cap Nat : t \in Nat /\ t <= now BY DEF BoundsOK
  <2>5. ClaimTaken BY <1>11, <2>3, <2>4 DEF ClaimTaken
  <2> QED BY <1>3, <2>2, <2>5
<1>12. CASE \E r \in Recipients, s \in 1..db.highwater : Compact(r, s)
  <2>1. db' = db \/ Writes({"queue", "claims", "compactions"}) BY <1>12, OtherStoreMoves
  <2>2. Pages' = Pages /\ Carried' = Carried BY <2>1 DEF Writes, Fields
  <2>3. Compacted BY <1>12 DEF Compacted
  <2> QED BY <1>3, <2>2, <2>3
<1> QED BY <1>5, <1>6, <1>7, <1>8, <1>9, <1>10, <1>11, <1>12 DEF StoreStep, CNext

\* A step of a dispatch.
CarryStep(t) ==
    (\E l \in DOMAIN db.legs, e \in bounds.envelopes, d \in bounds.deadlines : Dispatch(t, l, e, d))
    \/ DispatchStep(t)

\* A dispatch writes neither pages nor claims.
LEMMA CarryWriters ==
    ASSUME BoundsOK, NEW t \in Threads, CarryStep(t)
    PROVE  Pages' = Pages /\ Claims' = Claims
<1>1. db' = db \/ Writes({"attempts", "egress"}) \/ Writes({"deliveries", "legs", "conflicts"})
      \/ Writes({"attempts"})
  BY RouteMoves DEF CarryStep, DispatchStep
<1> QED BY <1>1 DEF Pages, Claims, Writes, Fields

Forwarded ==
    \E k, p, r, d : \E e \in Envelopes : r \in RouteRefs /\ Forward(k, p, e, r, d)

\* The inbox operations leave the sender and its calls alone.
LEMMA InboxWritesNothing ==
    ASSUME (\E i \in DOMAIN wire : Exchange(i)) \/ Forwarded
           \/ (\E h, c, until, n : InboxClaim(h, c, until, n)) \/ (\E c, d : InboxAck(c, d))
           \/ (\E h, s : InboxCompact(h, s)) \/ UNCHANGED vars
    PROVE  db' = db /\ now' = now /\ call' = call /\ UNCHANGED cvars
<1>1. CASE UNCHANGED vars BY <1>1 DEF vars, cvars, store, rvars
<1>2. UNCHANGED cvars => db' = db /\ now' = now BY DEF cvars, store
<1>3. /\ \A i : Exchange(i) => call' = call
      /\ Forwarded => call' = call /\ UNCHANGED cvars
      /\ \A h, c, until, n : InboxClaim(h, c, until, n) => call' = call
      /\ \A c, d : InboxAck(c, d) => call' = call
      /\ \A h, s : InboxCompact(h, s) => call' = call
  BY DEF Exchange, Ingest, Refuse, Reject, Forwarded, Forward, InboxClaim, InboxAck, InboxCompact
<1> QED BY <1>1, <1>2, <1>3, RecipientMoves

\* The three kinds of steps.
LEMMA StepKinds ==
    ASSUME BoundsOK, [Next]_vars
    PROVE  \/ StoreStep
           \/ \E t \in Threads : CarryStep(t)
           \/ \E i \in DOMAIN wire : Exchange(i)
           \/ Forwarded
           \/ \E h, n : \E c \in Consumers, until \in Nat : InboxClaim(h, c, until, n)
           \/ \E c, d : InboxAck(c, d)
           \/ \E h, s : InboxCompact(h, s)
           \/ UNCHANGED vars
<1>1. plan \in Plan BY BoundsAssumption DEF BoundsOK
<1>2. plan.consumers \subseteq Consumers /\ plan.time \in Nat BY <1>1 DEF Plan
<1>3. bounds.threads \subseteq Threads BY CarryingAssumption DEF bounds, BoundsOK
<1>4. \A until \in 1..plan.time + 1 : until \in Nat BY <1>2
<1>5. bounds.envelopes \subseteq Envelopes /\ bounds.routes \in Seq(RouteRefs)
  BY CarryingAssumption DEF bounds, BoundsOK
<1>6. \A j \in DOMAIN bounds.routes : bounds.routes[j] \in RouteRefs BY <1>5
<1> QED BY <1>2, <1>3, <1>4, <1>5, <1>6 DEF Next, CarryStep, Forwarded

\* What the queue of the sender rests on survives every step.
LEMMA SenderStep ==
    ASSUME BoundsOK, PagesOK, PagesLeaveNoGap, ClaimsOK, ClaimsAreDisjoint, [Next]_vars
    PROVE  PagesOK' /\ PagesLeaveNoGap' /\ ClaimsOK' /\ ClaimsAreDisjoint'
<1>1. LegsMove /\ now' \in Nat /\ now <= now' BY BoundsStep, ClockMoves DEF BoundsOK
<1>2. /\ Pages' = Pages \/ (PageTaken /\ db' # db)
      /\ Claims' = Claims \/ ((ClaimTaken \/ Compacted) /\ db' # db)
  <2>1. CASE StoreStep BY <2>1, StoreWriters
  <2>2. CASE \E t \in Threads : CarryStep(t) BY <2>2, CarryWriters
  <2>3. db' = db => Pages' = Pages /\ Claims' = Claims BY DEF Pages, Claims
  <2> QED BY <2>1, <2>2, <2>3, StepKinds, InboxWritesNothing
<1>3. PagesOK' /\ PagesLeaveNoGap'
  <2>1. CASE Pages' = Pages BY <1>1, <2>1, PagesKept DEF Pages
  <2>2. CASE PageTaken /\ db' # db BY <2>2, PageStep DEF PageTaken
  <2> QED BY <1>2, <2>1, <2>2
<1>4. ClaimsOK' /\ ClaimsAreDisjoint'
  <2>1. CASE Claims' = Claims BY <1>1, <2>1, ClaimsKept DEF Claims
  <2>2. CASE ClaimTaken /\ db' # db BY <2>2, ClaimStep DEF ClaimTaken
  <2>3. CASE Compacted /\ db' # db BY <2>3, CompactStep DEF Compacted
  <2> QED BY <1>2, <2>1, <2>2, <2>3
<1> QED BY <1>3, <1>4

-----------------------------------------------------------------------------
(* The way of a message, sender and recipient. *)

WireFields == {"request", "to", "env", "state", "response"}
CallFields == {"pc", "leg", "env", "deadline", "todo", "conn"}

\* Where a connection ends, and its delivery there.
Where(w) == <<Host(w.to), w.env.id>>

\* The connections are numbered in the order they were opened; each carries an
\* envelope over a route.
WireOK ==
    /\ \E n \in Nat : DOMAIN wire = 1..n /\ wire = [j \in 1..n |-> wire[j]]
    /\ \A i \in DOMAIN wire :
          DOMAIN wire[i] = WireFields /\ wire[i].env \in Envelopes /\ wire[i].to \in RouteRefs

\* What an accepted answer to a connection rests on: bytes that stand where it ended.
Stands(w, rs) ==
    /\ Where(w) \in DOMAIN Rows /\ Rows[Where(w)].bytes = w.env.bytes
    /\ rs.outcome = "recipient-intake" <=> Where(w)[1] = Home

AnswerStands(w, rs) ==
    /\ Where(w) \in DOMAIN Rows' /\ Rows'[Where(w)].bytes = w.env.bytes
    /\ rs.outcome = "recipient-intake" <=> Where(w)[1] = Home

\* An accepted answer on its way is about bytes that stand.
TakenOK ==
    \A i \in DOMAIN wire :
        (wire[i].state = "handled" /\ wire[i].response.status = "accepted") =>
            Stands(wire[i], wire[i].response)

\* A dispatch at pc has recorded its delivery, and awaits an answer about it.
CallOK ==
    /\ DOMAIN call = Threads /\ crashes \in Nat
    /\ \A t \in Threads :
          /\ DOMAIN call[t] = CallFields
          /\ call[t].pc \in {"idle", "attempt", "delivery", "send", "await"}
          /\ call[t].pc # "idle" =>
                call[t].env \in Envelopes /\ call[t].todo \in Seq(RouteRefs) /\ call[t].todo # << >>
          /\ call[t].pc \in {"send", "await"} =>
                /\ call[t].env.id \in DOMAIN db.deliveries
                /\ db.deliveries[call[t].env.id].bytes = call[t].env.bytes
          /\ call[t].pc = "await" =>
                /\ call[t].conn \in DOMAIN wire /\ wire[call[t].conn].env = call[t].env
                /\ wire[call[t].conn].to = Head(call[t].todo)

\* A route-acked attempt is about a stored delivery whose bytes are held where its
\* route ends, and its outcome says which inbox that is.
Held(a) == <<Host(a.route), a.delivery>>
AckedOK ==
    \A a \in DOMAIN db.attempts :
        db.attempts[a].state = "route-acked" =>
            /\ a.delivery \in DOMAIN db.deliveries /\ Held(a) \in DOMAIN Rows
            /\ Rows[Held(a)].bytes = db.deliveries[a.delivery].bytes
            /\ db.attempts[a].ack.outcome = "recipient-intake" <=> Held(a)[1] = Home

\* What no step takes back.
WireMoves ==
    \A i \in DOMAIN wire :
        i \in DOMAIN wire' /\ wire'[i].env = wire[i].env /\ wire'[i].to = wire[i].to
DeliveriesMove ==
    \A d \in DOMAIN db.deliveries :
        d \in DOMAIN db'.deliveries /\ db'.deliveries[d] = db.deliveries[d]

\* No step of the sender writes a table of the recipient.
LEMMA SenderLeavesRecipient ==
    /\ StoreStep => recipient' = recipient /\ wire' = wire
    /\ \A t : CarryStep(t) => recipient' = recipient
BY DEF StoreStep, CarryStep, Dispatch, DispatchStep, RecordAttempt, RecordDelivery,
   SendUnavailable, Send, SendRefused, GiveUp, Receive

\* What the inbox rests on survives every step, and nothing taken in goes.
LEMMA RecipientStep ==
    ASSUME BoundsOK, RecipientInv, WireOK, [Next]_vars
    PROVE  RecipientInv' /\ InboxMoves
<1>1. now \in Nat /\ now' \in Nat /\ now <= now' BY ClockMoves DEF BoundsOK
<1>2. ASSUME recipient' = recipient PROVE RecipientInv' /\ InboxMoves
  <2>1. /\ inbox' = inbox /\ tombs' = tombs /\ answers' = answers /\ leases' = leases
        /\ nextSeq' = nextSeq
    BY <1>2 DEF recipient
  <2>2. Rows' = Rows BY <2>1 DEF Rows
  <2>3. InboxMoves /\ IntakeOK' BY <2>2 DEF InboxMoves, IntakeOK, RecipientInv
  <2>4. AnswersOK' BY <2>1, <2>3, AnswersKept DEF RecipientInv
  <2>5. RecipientOK' BY <2>1 DEF RecipientOK, RecipientInv
  <2>6. \A k \in DOMAIN leases : leases[k].until > now' => leases[k].until > now
    BY <1>1 DEF LeasesOK, RecipientInv
  <2>7. LeasesOK' BY <2>1, <2>2, <2>6 DEF LeasesOK, RecipientInv
  <2>8. InboxClaimsAreDisjoint' BY <2>1, <2>6 DEF InboxClaimsAreDisjoint, RecipientInv
  <2> QED BY <2>3, <2>4, <2>5, <2>7, <2>8 DEF RecipientInv
<1>3. CASE StoreStep \/ \E t \in Threads : CarryStep(t) BY <1>2, <1>3, SenderLeavesRecipient
<1>4. CASE \E i \in DOMAIN wire : Exchange(i)
  <2>1. PICK i \in DOMAIN wire : Exchange(i) BY <1>4
  <2>2. now' = now BY <1>4, InboxWritesNothing
  <2>3. CASE Ingest(i)
    <3>1. wire[i].env \in Envelopes /\ wire[i].to \in RouteRefs BY DEF WireOK
    <3>2. /\ RecipientOK' /\ AnswersOK' /\ LeasesOK' /\ InboxClaimsAreDisjoint' /\ InboxMoves
          /\ Admits
      BY <2>3, <3>1, IngestStep DEF RecipientInv
    <3>3. IntakeOK' BY <3>2 DEF Admits, InboxMoves, IntakeOK, Validated, RecipientInv
    <3> QED BY <3>2, <3>3 DEF RecipientInv
  <2>4. CASE Refuse(i) \/ Reject(i) BY <2>2, <2>4, RefuseStep
  <2> QED BY <2>1, <2>3, <2>4 DEF Exchange
<1>5. CASE \E h, n : \E c \in Consumers, until \in Nat : InboxClaim(h, c, until, n)
  <2>1. now' = now BY <1>5, InboxWritesNothing
  <2> QED BY <1>1, <1>5, <2>1, InboxClaimStep
<1>6. CASE (\E c, d : InboxAck(c, d)) \/ (\E h, s : InboxCompact(h, s))
  <2>1. now' = now BY <1>6, InboxWritesNothing
  <2> QED BY <1>6, <2>1, InboxAckStep, InboxCompactStep
<1>7. CASE UNCHANGED vars BY <1>2, <1>7 DEF vars, rvars
<1>8. CASE Forwarded BY <1>2, <1>8 DEF Forwarded, Forward
<1> QED BY <1>3, <1>4, <1>5, <1>6, <1>7, <1>8, StepKinds

\* A request of the wire is changed in its state and its answer only.
Settled(i, st, rs) == [wire EXCEPT ![i].state = st, ![i].response = rs]
Marked(i, st) == [wire EXCEPT ![i].state = st]

\* Settling or marking a request keeps the numbering and the envelopes.
LEMMA WireChange ==
    ASSUME WireOK, NEW i \in DOMAIN wire, NEW st, NEW rs,
           \/ wire' = Settled(i, st, rs)
           \/ wire' = Marked(i, st)
    PROVE  /\ WireOK' /\ WireMoves /\ DOMAIN wire' = DOMAIN wire
           /\ wire'[i].state = st
           /\ wire' = Settled(i, st, rs) => wire'[i].response = rs
           /\ \A j \in DOMAIN wire : j # i => wire'[j] = wire[j]
<1>1. DOMAIN wire' = DOMAIN wire /\ (\A j \in DOMAIN wire : j # i => wire'[j] = wire[j])
  BY DEF Settled, Marked
<1>2. DOMAIN wire[i] = WireFields /\ wire[i].env \in Envelopes /\ wire[i].to \in RouteRefs
  BY DEF WireOK
<1>3. /\ DOMAIN wire'[i] = WireFields /\ wire'[i].env = wire[i].env /\ wire'[i].state = st
      /\ wire'[i].to = wire[i].to
      /\ wire' = Settled(i, st, rs) => wire'[i].response = rs
  BY <1>2 DEF WireFields, Settled, Marked
<1>4. \E n \in Nat : DOMAIN wire' = 1..n /\ wire' = [j \in 1..n |-> wire'[j]]
  <2>1. wire' = [j \in DOMAIN wire |-> wire'[j]] BY DEF Settled, Marked
  <2>2. PICK n \in Nat : DOMAIN wire = 1..n BY DEF WireOK
  <2> QED BY <1>1, <2>1, <2>2
<1>5. WireOK' BY <1>1, <1>2, <1>3, <1>4 DEF WireOK
<1>6. WireMoves BY <1>1, <1>3 DEF WireMoves
<1> QED BY <1>1, <1>3, <1>5, <1>6

\* A connection is opened at the end of the wire.
LEMMA WireGrows ==
    ASSUME WireOK, NEW new, wire' = Append(wire, new)
    PROVE  \E n \in Nat :
              /\ DOMAIN wire = 1..n /\ Len(wire) = n
              /\ DOMAIN wire' = 1..(n + 1) /\ wire'[n + 1] = new
              /\ \A j \in 1..n : wire'[j] = wire[j]
              /\ wire' = [j \in 1..(n + 1) |-> wire'[j]]
<1>1. PICK n \in Nat : DOMAIN wire = 1..n /\ wire = [j \in 1..n |-> wire[j]] BY DEF WireOK
<1> DEFINE S == {wire[j] : j \in 1..n} \cup {new}
<1>2. wire \in Seq(S) /\ Len(wire) = n
  <2>1. wire \in [1..n -> S] BY <1>1
  <2> HIDE DEF S
  <2> QED BY <1>1, <2>1
<1>3. new \in S OBVIOUS
<1> HIDE DEF S
<1>4. wire' \in Seq(S) /\ Len(wire') = n + 1 BY <1>2, <1>3
<1>5. DOMAIN wire' = 1..(n + 1) BY <1>4
<1>6. wire'[n + 1] = new /\ \A j \in 1..n : wire'[j] = wire[j] BY <1>2, <1>3
<1>7. wire' = [j \in 1..(n + 1) |-> wire'[j]]
  <2>1. wire' \in [1..Len(wire') -> S] BY <1>4, LenProperties
  <2>2. wire' = [j \in 1..Len(wire') |-> wire'[j]] BY <2>1
  <2> QED BY <1>4, <2>2
<1> QED BY <1>1, <1>2, <1>5, <1>6, <1>7

\* Whatever stands goes on standing.
LEMMA StandsStill == ASSUME InboxMoves, NEW w, NEW rs, Stands(w, rs) PROVE Stands(w, rs)'
BY DEF Stands, InboxMoves

\* Connections are only added, and an accepted answer stands on a row.
LEMMA WireStep ==
    ASSUME BoundsOK, RecipientInv, WireOK, TakenOK, CallOK, InboxMoves, [Next]_vars
    PROVE  WireOK' /\ TakenOK' /\ WireMoves
<1>1. ASSUME wire' = wire PROVE WireOK' /\ TakenOK' /\ WireMoves
  <2>1. TakenOK' BY <1>1, StandsStill DEF TakenOK
  <2> QED BY <1>1, <2>1 DEF WireOK, WireMoves
<1>2. ASSUME NEW i \in DOMAIN wire, NEW st, NEW rs,
             \/ wire' = Settled(i, st, rs)
             \/ wire' = Marked(i, st) /\ st # "handled",
             (st = "handled" /\ rs.status = "accepted") => AnswerStands(wire[i], rs)
      PROVE  WireOK' /\ TakenOK' /\ WireMoves
  <2>1. /\ WireOK' /\ WireMoves /\ DOMAIN wire' = DOMAIN wire
        /\ wire'[i].state = st
        /\ st = "handled" => wire'[i].response = rs
        /\ \A j \in DOMAIN wire : j # i => wire'[j] = wire[j]
    <3>1. \/ wire' = Settled(i, st, rs)
          \/ wire' = Marked(i, st) /\ st # "handled"
      BY <1>2
    <3>2. /\ WireOK' /\ WireMoves /\ DOMAIN wire' = DOMAIN wire
          /\ wire'[i].state = st
          /\ wire' = Settled(i, st, rs) => wire'[i].response = rs
          /\ \A j \in DOMAIN wire : j # i => wire'[j] = wire[j]
      BY <3>1, WireChange
    <3> QED BY <3>1, <3>2
  <2>2. wire'[i].env = wire[i].env /\ wire'[i].to = wire[i].to BY <2>1 DEF WireMoves
  <2>3. TakenOK'
    <3> SUFFICES ASSUME NEW j \in DOMAIN wire, wire'[j].state = "handled",
                        wire'[j].response.status = "accepted"
                 PROVE  Stands(wire[j], wire[j].response)'
      BY <2>1 DEF TakenOK
    <3>1. CASE j = i BY <1>2, <2>1, <2>2, <3>1 DEF Stands, AnswerStands, Where
    <3>2. CASE j # i
      <4>1. wire'[j] = wire[j] BY <2>1, <3>2
      <4>2. Stands(wire[j], wire[j].response) BY <4>1 DEF TakenOK
      <4> QED BY <4>1, <4>2, StandsStill DEF Stands
    <3> QED BY <3>1, <3>2
  <2> QED BY <2>1, <2>3
<1>3. CASE \E i \in DOMAIN wire : Exchange(i)
  <2>1. PICK i \in DOMAIN wire : Exchange(i) BY <1>3
  <2>2. CASE Ingest(i)
    <3>1. /\ Place(i) \in DOMAIN Rows' /\ Rows'[Place(i)].bytes = wire[i].env.bytes
          /\ wire' = [wire EXCEPT ![i].state = "handled",
                                  ![i].response = Accepted(Place(i), Rows'[Place(i)])]
      BY <2>2, IngestStep DEF RecipientInv, WireOK
    <3> DEFINE ok == Accepted(Place(i), Rows'[Place(i)])
    <3>2. wire' = Settled(i, "handled", ok) BY <3>1 DEF Settled
    <3>3. ok.outcome = "recipient-intake" <=> Place(i)[1] = Home BY DEF Accepted
    <3> HIDE DEF ok
    <3>4. Where(wire[i]) = Place(i) BY DEF Where, Place
    <3>5. /\ Where(wire[i]) \in DOMAIN Rows' /\ Rows'[Where(wire[i])].bytes = wire[i].env.bytes
          /\ ok.outcome = "recipient-intake" <=> Where(wire[i])[1] = Home
      BY <3>1, <3>3, <3>4
    <3>6. AnswerStands(wire[i], ok) BY <3>5 DEF AnswerStands
    <3> QED BY <2>1, <3>2, <3>6, <1>2
  <2>3. CASE Refuse(i)
    <3>1. \/ wire' = Marked(i, "lost")
          \/ wire' = Settled(i, "handled", RefusedAnswer)
      BY <2>3 DEF Refuse, Handled, Settled, Marked
    <3>2. RefusedAnswer.status # "accepted" BY DEF RefusedAnswer
    <3> QED BY <1>2, <3>1, <3>2
  <2>4. CASE Reject(i)
    <3>1. wire' = Marked(i, "lost") BY <2>4 DEF Reject, Marked
    <3> QED BY <1>2, <3>1
  <2> QED BY <2>1, <2>2, <2>3, <2>4 DEF Exchange
<1>4. ASSUME NEW t \in Threads, Receive(t) PROVE WireOK' /\ TakenOK' /\ WireMoves
  <2>1. wire' = Marked(call[t].conn, "received") BY <1>4 DEF Receive, Marked
  <2>2. call[t].conn \in DOMAIN wire BY <1>4 DEF CallOK, Receive, At
  <2> QED BY <1>2, <2>1, <2>2
<1>5. ASSUME NEW new, wire' = Append(wire, new), DOMAIN new = WireFields, new.env \in Envelopes,
             new.to \in RouteRefs, new.state # "handled"
      PROVE  WireOK' /\ TakenOK' /\ WireMoves
  <2>1. PICK n \in Nat :
           /\ DOMAIN wire = 1..n /\ Len(wire) = n
           /\ DOMAIN wire' = 1..(n + 1) /\ wire'[n + 1] = new
           /\ \A j \in 1..n : wire'[j] = wire[j]
           /\ wire' = [j \in 1..(n + 1) |-> wire'[j]]
    BY <1>5, WireGrows
  <2>2. \A j \in DOMAIN wire' : j = n + 1 \/ j \in 1..n BY <2>1
  <2>3. WireOK'
    <3>1. n + 1 \in Nat OBVIOUS
    <3> QED BY <1>5, <2>1, <2>2, <3>1 DEF WireOK
  <2>4. TakenOK' BY <1>5, <2>1, <2>2, StandsStill DEF TakenOK, Stands
  <2>5. WireMoves BY <2>1, <2>2 DEF WireMoves
  <2> QED BY <2>3, <2>4, <2>5
<1>6. ASSUME NEW t \in Threads, Send(t) PROVE WireOK' /\ TakenOK' /\ WireMoves
  <2> DEFINE new == [request |-> db.egress[Attempt(t)], to |-> Attempt(t).route,
                     env |-> call[t].env, state |-> "sent", response |-> None]
  <2>1. wire' = Append(wire, new) BY <1>6 DEF Send
  <2>2. call[t].env \in Envelopes /\ Attempt(t).route \in RouteRefs
    BY <1>6 DEF CallOK, Send, At, Attempt
  <2>3. DOMAIN new = WireFields /\ new.env \in Envelopes /\ new.to \in RouteRefs
        /\ new.state # "handled"
    BY <2>2 DEF WireFields
  <2> HIDE DEF new
  <2> QED BY <1>5, <2>1, <2>3
<1>7. CASE Forwarded
  <2>1. PICK p, r, d : \E e \in Envelopes : r \in RouteRefs /\ \E k : Forward(k, p, e, r, d)
    BY <1>7 DEF Forwarded
  <2>4. PICK e \in Envelopes : r \in RouteRefs /\ \E k : Forward(k, p, e, r, d) BY <2>1
  <2>5. /\ r \in RouteRefs
        /\ wire' = Append(wire,
              [request |-> Prepared([leg |-> None, delivery |-> e.id, route |-> r,
                                     deadline |-> d], e, now),
               to |-> r, env |-> e, state |-> "sent", response |-> None])
    BY <2>4 DEF Forward
  <2> DEFINE new == [request |-> Prepared([leg |-> None, delivery |-> e.id, route |-> r,
                                           deadline |-> d], e, now),
                     to |-> r, env |-> e, state |-> "sent", response |-> None]
  <2>2. wire' = Append(wire, new) BY <2>5
  <2>3. DOMAIN new = WireFields /\ new.env \in Envelopes /\ new.to \in RouteRefs
        /\ new.state # "handled"
    BY <2>5 DEF WireFields
  <2> HIDE DEF new
  <2> QED BY <1>5, <2>2, <2>3
<1>8. ASSUME NEW t \in Threads, CarryStep(t), ~Send(t), ~Receive(t) PROVE wire' = wire
  BY <1>8 DEF CarryStep, Dispatch, DispatchStep, RecordAttempt, RecordDelivery,
     SendUnavailable, SendRefused, GiveUp
<1>9. /\ \A h, c, until, n : InboxClaim(h, c, until, n) => wire' = wire
      /\ \A c, d : InboxAck(c, d) => wire' = wire
      /\ \A h, s : InboxCompact(h, s) => wire' = wire
  BY DEF InboxClaim, InboxAck, InboxCompact
<1>10. UNCHANGED vars => wire' = wire BY DEF vars, rvars
<1> QED BY <1>1, <1>3, <1>4, <1>6, <1>7, <1>8, <1>9, <1>10, SenderLeavesRecipient, StepKinds

\* A commit writes the tables or leaves them; a process that dies is counted.
LEMMA CommitOrNot ==
    ASSUME crashes \in Nat, NEW next, Mutate(next)
    PROVE  \/ db' = [next EXCEPT !.counter = @ + 1] /\ crashes' = crashes
           \/ db' \in {db, [next EXCEPT !.counter = @ + 1]} /\ crashes' = crashes + 1
BY DEF Mutate, Commit

\* What a step of the dispatch of t makes of the attempts, the deliveries and
\* the call: c is the call it goes on with.
Routed(c) == c.todo \in Seq(RouteRefs) /\ c.todo # << >>
Goes(t, c) ==
    /\ DOMAIN c = CallFields
    /\ \/ c.pc = "idle"
       \/ c.pc \in {"attempt", "delivery"} /\ c.env \in Envelopes /\ Routed(c)
       \/ /\ c.pc = "send" /\ c.env \in Envelopes /\ Routed(c)
          /\ c.env.id \in DOMAIN db'.deliveries /\ db'.deliveries[c.env.id].bytes = c.env.bytes
       \/ /\ c.pc = "await" /\ c.env = call[t].env /\ call[t].pc = "send"
          /\ c.conn \in DOMAIN wire' /\ wire'[c.conn].env = c.env
          /\ c.todo = call[t].todo /\ wire'[c.conn].to = Head(c.todo)
CallMoves(t) ==
    \/ call' = [u \in Threads |-> Idle]
    \/ \E c : call' = [call EXCEPT ![t] = c] /\ Goes(t, c)

\* A call that is over rests on nothing.
LEMMA IdleGoes == \A t : Goes(t, Idle)
BY DEF Goes, Idle, CallFields

\* A call that fails is over.
LEMMA FailMoves == \A t : Fail(t) => CallMoves(t)
BY IdleGoes DEF Fail, CallMoves

\* A call goes on where its transaction committed; after a crash all are over.
LEMMA OnwardsMoves ==
    ASSUME NEW t, NEW c, Onwards(t, c), crashes' > crashes \/ Goes(t, c) PROVE CallMoves(t)
BY DEF Onwards, CallMoves

\* After a route, the call takes the next one or is over.
LEMMA AfterGoes ==
    ASSUME CallOK, NEW t \in Threads, call[t].pc # "idle" PROVE Goes(t, After(t))
<1>1. /\ DOMAIN call[t] = CallFields /\ call[t].env \in Envelopes
      /\ call[t].todo \in Seq(RouteRefs) /\ call[t].todo # << >>
  BY DEF CallOK
<1> DEFINE c == [call[t] EXCEPT !.pc = "attempt", !.todo = Tail(@), !.conn = 0]
<1>2. DOMAIN c = CallFields /\ c.pc = "attempt" /\ c.env = call[t].env
      /\ c.todo = Tail(call[t].todo)
  BY <1>1 DEF CallFields
<1> HIDE DEF c
<1>3. ASSUME Len(call[t].todo) # 1 PROVE Goes(t, c)
  <2>1. Tail(call[t].todo) \in Seq(RouteRefs) /\ Len(Tail(call[t].todo)) # 0 BY <1>1, <1>3
  <2>2. Routed(c)
    <3>1. Len(<< >>) = 0 OBVIOUS
    <3> QED BY <1>2, <2>1, <3>1 DEF Routed
  <2> QED BY <1>1, <1>2, <2>2 DEF Goes
<1> QED BY <1>3, IdleGoes DEF After, c

\* A dispatch begins.
LEMMA DispatchMoves ==
    ASSUME BoundsOK, CallOK, NEW t \in Threads,
           NEW l, NEW e \in bounds.envelopes, NEW d, Dispatch(t, l, e, d)
    PROVE  CallMoves(t) /\ db' = db
<1> DEFINE c == [pc |-> "attempt", leg |-> l, env |-> e, deadline |-> d,
                 todo |-> bounds.routes, conn |-> 0]
<1>1. e \in Envelopes BY CarryingAssumption DEF bounds, BoundsOK
<1>4. bounds.routes \in Seq(RouteRefs) /\ bounds.routes # << >>
  BY CarryingAssumption DEF bounds, BoundsOK, Dispatch
<1>2. Goes(t, c) BY <1>1, <1>4 DEF Goes, CallFields, Routed
<1>3. call' = [call EXCEPT ![t] = c] /\ db' = db BY DEF Dispatch, cvars, store
<1> QED BY <1>2, <1>3 DEF CallMoves

\* record_attempt writes the attempt before anything is sent.
LEMMA AttemptMoves ==
    ASSUME BoundsOK, CallOK, NEW t \in Threads, RecordAttempt(t)
    PROVE  /\ CallMoves(t) /\ db'.deliveries = db.deliveries
           /\ \A a \in DOMAIN db'.attempts : db'.attempts[a].state = "route-acked" =>
                 a \in DOMAIN db.attempts /\ db'.attempts[a] = db.attempts[a]
<1> DEFINE c == [call[t] EXCEPT !.pc = "delivery"]
           request == Prepared(Attempt(t), call[t].env, now)
           new == [state |-> "accepted", ack |-> None]
           next == [db EXCEPT !.attempts = Put(@, Attempt(t), new),
                              !.egress = Put(@, Attempt(t), request)]
<1>1. DOMAIN call[t] = CallFields /\ call[t].env \in Envelopes /\ call[t].pc = "attempt"
      /\ Routed(call[t])
  BY DEF CallOK, RecordAttempt, At, Routed
<1>2. DOMAIN c = CallFields /\ c.pc = "delivery" /\ c.env = call[t].env /\ Routed(c)
  BY <1>1 DEF CallFields, Routed
<1>3. \/ Mutate(next) /\ Onwards(t, c)
      \/ (call' = [call EXCEPT ![t] = c] \/ Fail(t)) /\ db' = db
  BY DEF RecordAttempt, Then, cvars, store
<1> HIDE DEF c, request
<1>4. Goes(t, c) BY <1>1, <1>2 DEF Goes
<1>5. CallMoves(t) BY <1>3, <1>4, FailMoves, OnwardsMoves DEF CallMoves
<1>6. new.state = "accepted" OBVIOUS
<1> HIDE DEF new
<1>7. db' = db \/ db' = [next EXCEPT !.counter = @ + 1]
  <2> HIDE DEF next
  <2> QED BY <1>3, CommitOrNot DEF CallOK
<1>8. CASE db' = [next EXCEPT !.counter = @ + 1]
  <2>1. db'.deliveries = db.deliveries /\ db'.attempts = Put(db.attempts, Attempt(t), new)
    BY <1>8 DEF BoundsOK, Fields
  <2> QED BY <1>5, <1>6, <2>1 DEF Put
<1> QED BY <1>5, <1>7, <1>8

\* record_delivery stores the bytes, or quarantines bytes that differ.
LEMMA DeliveryMoves ==
    ASSUME BoundsOK, CallOK, NEW t \in Threads, RecordDelivery(t)
    PROVE  CallMoves(t) /\ DeliveriesMove /\ db'.attempts = db.attempts
<1> DEFINE att == Attempt(t)
           env == call[t].env
           was == db.deliveries[env.id]
           row == [attempt |-> att, bytes |-> env.bytes]
           put == [db EXCEPT !.deliveries = Put(@, env.id, row)]
           next == Quarantined(db, {att.leg}, {}, {att, was.attempt})
           both == [next EXCEPT !.legs[was.attempt.leg].state = "quarantined"]
           c == [call[t] EXCEPT !.pc = "send"]
<1>1. DOMAIN call[t] = CallFields /\ env \in Envelopes /\ call[t].pc = "delivery"
      /\ Routed(call[t])
  BY DEF CallOK, RecordDelivery, At, Routed
<1>2. DOMAIN c = CallFields /\ c.pc = "send" /\ c.env = env /\ Routed(c)
  BY <1>1 DEF CallFields, Routed
<1>3. \/ env.id \notin DOMAIN db.deliveries /\ Mutate(put) /\ Onwards(t, c)
      \/ /\ env.id \in DOMAIN db.deliveries /\ was.bytes = env.bytes
         /\ call' = [call EXCEPT ![t] = c] /\ db' = db
      \/ Mutate(both) /\ Onwards(t, Idle)
      \/ Fail(t) /\ db' = db
  BY DEF RecordDelivery, Then, cvars, store
<1>4. row.bytes = env.bytes OBVIOUS
<1> HIDE DEF c, att, row
<1>5. CASE env.id \notin DOMAIN db.deliveries /\ Mutate(put) /\ Onwards(t, c)
  <2> DEFINE done == db' = [put EXCEPT !.counter = @ + 1]
  <2>1. (done /\ crashes' = crashes) \/ ((done \/ db' = db) /\ crashes' = crashes + 1)
    <3> HIDE DEF put
    <3> QED BY <1>5, CommitOrNot DEF CallOK
  <2>2. done => /\ db'.deliveries = Put(db.deliveries, env.id, row)
                /\ db'.attempts = db.attempts
    BY DEF BoundsOK, Fields
  <2> HIDE DEF done, env
  <2>3. done => DeliveriesMove /\ env.id \in DOMAIN db'.deliveries /\ db'.deliveries[env.id] = row
    BY <1>5, <2>2 DEF DeliveriesMove, Put
  <2>4. crashes' > crashes \/ Goes(t, c)
    BY <1>1, <1>2, <1>4, <2>1, <2>3 DEF Goes, CallOK
  <2>5. CallMoves(t) BY <1>5, <2>4, OnwardsMoves
  <2>6. db' = db => DeliveriesMove /\ db'.attempts = db.attempts BY DEF DeliveriesMove
  <2> QED BY <2>1, <2>2, <2>3, <2>5, <2>6
<1>6. CASE /\ env.id \in DOMAIN db.deliveries /\ was.bytes = env.bytes
           /\ call' = [call EXCEPT ![t] = c] /\ db' = db
  <2>1. Goes(t, c) BY <1>1, <1>2, <1>6 DEF Goes
  <2> QED BY <1>6, <2>1 DEF CallMoves, DeliveriesMove
<1>7. CASE Mutate(both) /\ Onwards(t, Idle)
  <2>1. db' = db \/ db' = [both EXCEPT !.counter = @ + 1]
    <3> HIDE DEF both
    <3> QED BY <1>7, CommitOrNot DEF CallOK
  <2>2. db' = [both EXCEPT !.counter = @ + 1] =>
           db'.deliveries = db.deliveries /\ db'.attempts = db.attempts
    BY DEF BoundsOK, Fields, Quarantined
  <2>3. CallMoves(t) BY <1>7, IdleGoes, OnwardsMoves
  <2> QED BY <2>1, <2>2, <2>3 DEF DeliveriesMove
<1>8. CASE Fail(t) /\ db' = db BY <1>8, FailMoves DEF DeliveriesMove
<1> QED BY <1>3, <1>5, <1>6, <1>7, <1>8

\* record_route_ack writes the state and the answer of an attempt, once.
LEMMA AckMoves ==
    ASSUME BoundsOK, crashes \in Nat, NEW a, NEW s, NEW k, RouteAck(a, s, k)
    PROVE  /\ db'.deliveries = db.deliveries
           /\ \A b \in DOMAIN db'.attempts :
                 \/ b \in DOMAIN db.attempts /\ db'.attempts[b] = db.attempts[b]
                 \/ b = a /\ db'.attempts[b].state = s /\ db'.attempts[b].ack = k
<1> DEFINE new == [state |-> s, ack |-> k]
           next == [db EXCEPT !.attempts = Put(@, a, new)]
<1>1. db' = db \/ db' = [next EXCEPT !.counter = @ + 1]
  <2>1. Mutate(next) \/ UNCHANGED cvars BY DEF RouteAck
  <2>2. UNCHANGED cvars => db' = db BY DEF cvars, store
  <2> HIDE DEF next
  <2> QED BY <2>1, <2>2, CommitOrNot
<1>2. new.state = s /\ new.ack = k OBVIOUS
<1> HIDE DEF new
<1>3. CASE db' = [next EXCEPT !.counter = @ + 1]
  <2>1. db'.deliveries = db.deliveries /\ db'.attempts = Put(db.attempts, a, new)
    BY <1>3 DEF BoundsOK, Fields
  <2> QED BY <1>2, <2>1 DEF Put
<1> QED BY <1>1, <1>3

\* An answer is recorded for the attempt that was sent.
LEMMA AnswerMoves ==
    ASSUME BoundsOK, CallOK, NEW t \in Threads
    PROVE  /\ SendUnavailable(t) =>
                 /\ CallMoves(t) /\ db'.deliveries = db.deliveries
                 /\ \A a \in DOMAIN db'.attempts : db'.attempts[a].state = "route-acked" =>
                       a \in DOMAIN db.attempts /\ db'.attempts[a] = db.attempts[a]
           /\ Receive(t) =>
                 /\ CallMoves(t) /\ db'.deliveries = db.deliveries
                 /\ \A a \in DOMAIN db'.attempts : db'.attempts[a].state = "route-acked" =>
                       \/ a \in DOMAIN db.attempts /\ db'.attempts[a] = db.attempts[a]
                       \/ /\ a = Attempt(t) /\ wire[call[t].conn].response.status = "accepted"
                          /\ db'.attempts[a].ack = wire[call[t].conn].response
<1>1. ASSUME SendUnavailable(t)
      PROVE  /\ CallMoves(t) /\ db'.deliveries = db.deliveries
             /\ \A a \in DOMAIN db'.attempts : db'.attempts[a].state = "route-acked" =>
                   a \in DOMAIN db.attempts /\ db'.attempts[a] = db.attempts[a]
  <2>1. RouteAck(Attempt(t), "route-failed", "unavailable") /\ (Fail(t) \/ Onwards(t, After(t)))
    BY <1>1 DEF SendUnavailable
  <2>2. call[t].pc # "idle" BY <1>1 DEF SendUnavailable, At
  <2>3. CallMoves(t) BY <2>1, <2>2, AfterGoes, FailMoves, OnwardsMoves
  <2>4. /\ db'.deliveries = db.deliveries
        /\ \A b \in DOMAIN db'.attempts :
              \/ b \in DOMAIN db.attempts /\ db'.attempts[b] = db.attempts[b]
              \/ b = Attempt(t) /\ db'.attempts[b].state = "route-failed"
    BY <2>1, AckMoves DEF CallOK
  <2> QED BY <2>3, <2>4
<1>2. ASSUME Receive(t)
      PROVE  /\ CallMoves(t) /\ db'.deliveries = db.deliveries
             /\ \A a \in DOMAIN db'.attempts : db'.attempts[a].state = "route-acked" =>
                   \/ a \in DOMAIN db.attempts /\ db'.attempts[a] = db.attempts[a]
                   \/ /\ a = Attempt(t) /\ wire[call[t].conn].response.status = "accepted"
                      /\ db'.attempts[a].ack = wire[call[t].conn].response
  <2> DEFINE rs == wire[call[t].conn].response
             st == IF rs.status = "accepted" THEN "route-acked" ELSE "route-failed"
  <2>1. RouteAck(Attempt(t), st, rs) /\ Onwards(t, Idle) BY <1>2 DEF Receive
  <2>2. st = "route-acked" => rs.status = "accepted" OBVIOUS
  <2> HIDE DEF st
  <2>3. CallMoves(t) BY <2>1, IdleGoes, OnwardsMoves
  <2>4. /\ db'.deliveries = db.deliveries
        /\ \A b \in DOMAIN db'.attempts :
              \/ b \in DOMAIN db.attempts /\ db'.attempts[b] = db.attempts[b]
              \/ b = Attempt(t) /\ db'.attempts[b].state = st /\ db'.attempts[b].ack = rs
    <3> HIDE DEF rs
    <3> QED BY <2>1, AckMoves DEF CallOK
  <2> QED BY <2>2, <2>3, <2>4
<1> QED BY <1>1, <1>2

\* A request is sent for the stored delivery.
LEMMA SendMoves ==
    ASSUME BoundsOK, CallOK, WireOK, NEW t \in Threads
    PROVE  Send(t) \/ SendRefused(t) \/ GiveUp(t) => CallMoves(t) /\ db' = db
<1>1. Send(t) \/ SendRefused(t) \/ GiveUp(t) => db' = db BY RouteMoves
<1>2. SendRefused(t) => CallMoves(t) BY FailMoves DEF SendRefused
<1>3. ASSUME GiveUp(t) PROVE CallMoves(t)
  <2>1. call[t].pc # "idle" /\ call' = [call EXCEPT ![t] = After(t)] BY <1>3 DEF GiveUp, At
  <2> QED BY <2>1, AfterGoes DEF CallMoves
<1>4. ASSUME Send(t) PROVE CallMoves(t)
  <2> DEFINE c == [call[t] EXCEPT !.pc = "await", !.conn = Len(wire) + 1]
             new == [request |-> db.egress[Attempt(t)], to |-> Attempt(t).route,
                     env |-> call[t].env, state |-> "sent", response |-> None]
  <2>1. /\ call[t].pc = "send" /\ wire' = Append(wire, new)
        /\ call' = [call EXCEPT ![t] = c]
    BY <1>4 DEF Send, At
  <2>2. DOMAIN call[t] = CallFields BY DEF CallOK
  <2>3. /\ DOMAIN c = CallFields /\ c.pc = "await" /\ c.env = call[t].env
        /\ c.conn = Len(wire) + 1 /\ c.todo = call[t].todo
    BY <2>2 DEF CallFields
  <2>4. new.env = call[t].env /\ new.to = Head(call[t].todo) BY DEF Attempt
  <2> HIDE DEF c, new
  <2>5. Len(wire) + 1 \in DOMAIN wire' /\ wire'[Len(wire) + 1] = new BY <2>1, WireGrows
  <2>6. Goes(t, c) BY <2>1, <2>3, <2>4, <2>5 DEF Goes
  <2> QED BY <2>1, <2>6 DEF CallMoves
<1> QED BY <1>1, <1>2, <1>3, <1>4

\* A step of a dispatch: only the answer it received makes an attempt acked.
LEMMA CarryMoves ==
    ASSUME BoundsOK, CallOK, WireOK, NEW t \in Threads, CarryStep(t)
    PROVE  /\ CallMoves(t) /\ DeliveriesMove
           /\ \A a \in DOMAIN db'.attempts : db'.attempts[a].state = "route-acked" =>
                 \/ a \in DOMAIN db.attempts /\ db'.attempts[a] = db.attempts[a]
                 \/ /\ a = Attempt(t) /\ Receive(t)
                    /\ wire[call[t].conn].response.status = "accepted"
                    /\ db'.attempts[a].ack = wire[call[t].conn].response
<1>1. db'.deliveries = db.deliveries => DeliveriesMove BY DEF DeliveriesMove
<1>2. CASE \E l \in DOMAIN db.legs, e \in bounds.envelopes, d \in bounds.deadlines : Dispatch(t, l, e, d)
  BY <1>1, <1>2, DispatchMoves
<1>3. CASE RecordAttempt(t) BY <1>1, <1>3, AttemptMoves
<1>4. CASE RecordDelivery(t) BY <1>4, DeliveryMoves
<1>5. CASE SendUnavailable(t) BY <1>1, <1>5, AnswerMoves
<1>6. CASE Receive(t) BY <1>1, <1>6, AnswerMoves
<1>7. CASE Send(t) \/ SendRefused(t) \/ GiveUp(t) BY <1>1, <1>7, SendMoves
<1> QED BY <1>2, <1>3, <1>4, <1>5, <1>6, <1>7 DEF CarryStep, DispatchStep

\* The crashes are a number.
LEMMA CrashesAreCounted == ASSUME crashes \in Nat, [Next]_vars PROVE crashes' \in Nat
<1>1. \A next : Commit(next) => crashes' \in {crashes, crashes + 1} BY DEF Commit
<1>2. \A next : Mutate(next) => crashes' \in {crashes, crashes + 1} BY <1>1 DEF Mutate
<1>3. UNCHANGED cvars \/ UNCHANGED store => crashes' = crashes BY DEF cvars, store
<1>4. /\ \A m : LearnMessage(m) \/ Accept(m) => crashes' \in {crashes, crashes + 1}
      /\ \A rc : LearnReceipt(rc) => crashes' = crashes
      /\ \A r, c, s : Advance(r, c, s) => crashes' \in {crashes, crashes + 1}
      /\ \A r, s : Compact(r, s) => crashes' \in {crashes, crashes + 1}
      /\ UpgradeReceiptsV2 \/ UpgradeLegsV3 \/ Recover \/ Tick => crashes' = crashes
  BY <1>2, <1>3 DEF LearnMessage, Accept, LearnReceipt, Advance, Compact,
     UpgradeReceiptsV2, UpgradeLegsV3, Recover, Tick, store
<1>5. \A rc : RecordReceipt(rc) => crashes' \in {crashes, crashes + 1}
  BY <1>1 DEF RecordReceipt
<1>6. \A r, c, q, token, n : Page(r, c, q, token, n) => crashes' \in {crashes, crashes + 1}
  BY <1>2 DEF Page
<1>7. \A r, c, k, n, until, s : Claim(r, c, k, n, until, s) => crashes' \in {crashes, crashes + 1}
  BY <1>2, Zenon DEF Claim
<1>8. StoreStep => crashes' \in {crashes, crashes + 1}
  BY <1>4, <1>5, <1>6, <1>7 DEF StoreStep, CNext
<1>9. ASSUME NEW t, (\E l, e, d : Dispatch(t, l, e, d)) \/ DispatchStep(t)
      PROVE  crashes' \in {crashes, crashes + 1}
  <2>1. \A a, s, k : RouteAck(a, s, k) => crashes' \in {crashes, crashes + 1}
    BY <1>2, <1>3 DEF RouteAck
  <2>2. RecordAttempt(t) \/ RecordDelivery(t) => crashes' \in {crashes, crashes + 1}
    BY <1>2, <1>3 DEF RecordAttempt, RecordDelivery
  <2> QED BY <1>3, <1>9, <2>1, <2>2 DEF Dispatch, DispatchStep, SendUnavailable, Send,
             SendRefused, GiveUp, Receive
<1>10. UNCHANGED vars => crashes' = crashes BY <1>3 DEF vars
<1> QED BY <1>3, <1>8, <1>9, <1>10, RecipientMoves DEF Next

\* What a dispatch and its acknowledgement rest on survives every step.
LEMMA CallStep ==
    ASSUME CallOK, WireMoves, DeliveriesMove, crashes' \in Nat,
           call' = call \/ \E t \in Threads : CallMoves(t)
    PROVE  CallOK'
<1> DEFINE Holds(c) ==
             /\ DOMAIN c = CallFields
             /\ c.pc \in {"idle", "attempt", "delivery", "send", "await"}
             /\ c.pc # "idle" => c.env \in Envelopes /\ Routed(c)
             /\ c.pc \in {"send", "await"} =>
                   /\ c.env.id \in DOMAIN db'.deliveries
                   /\ db'.deliveries[c.env.id].bytes = c.env.bytes
             /\ c.pc = "await" =>
                   /\ c.conn \in DOMAIN wire' /\ wire'[c.conn].env = c.env
                   /\ wire'[c.conn].to = Head(c.todo)
<1>1. \A t \in Threads : Holds(call[t]) BY DEF CallOK, WireMoves, DeliveriesMove, Routed
<1>2. Holds(Idle) BY DEF Idle, CallFields
<1>3. ASSUME NEW t \in Threads, NEW c, Goes(t, c) PROVE Holds(c)
  <2>1. CASE c.pc = "await" /\ c.env = call[t].env /\ call[t].pc = "send"
    BY <1>1, <1>3, <2>1 DEF Goes, Routed
  <2> QED BY <1>3, <2>1 DEF Goes
<1>4. DOMAIN call' = Threads /\ \A t \in Threads : Holds(call'[t])
  <2> HIDE DEF Holds
  <2>1. CASE call' = call BY <1>1, <2>1 DEF CallOK
  <2>2. CASE \E t \in Threads : CallMoves(t)
    <3>1. PICK t \in Threads : CallMoves(t) BY <2>2
    <3>2. CASE call' = [u \in Threads |-> Idle] BY <1>2, <3>2
    <3>3. CASE \E c : call' = [call EXCEPT ![t] = c] /\ Goes(t, c)
      BY <1>1, <1>3, <3>3 DEF CallOK
    <3> QED BY <3>1, <3>2, <3>3 DEF CallMoves
  <2> QED BY <2>1, <2>2
<1> QED BY <1>4 DEF CallOK, Routed

\* An attempt that becomes acked was answered for bytes that stand.
LEMMA CarryingStep ==
    ASSUME BoundsOK, RecipientInv, WireOK, TakenOK, CallOK, AckedOK, [Next]_vars
    PROVE  WireOK' /\ TakenOK' /\ CallOK' /\ AckedOK'
<1>1. InboxMoves BY RecipientStep
<1>2. WireOK' /\ TakenOK' /\ WireMoves BY <1>1, WireStep
<1>3. crashes' \in Nat BY CrashesAreCounted DEF CallOK
<1>4. ASSUME DeliveriesMove,
             \A a \in DOMAIN db'.attempts : db'.attempts[a].state = "route-acked" =>
                \/ a \in DOMAIN db.attempts /\ db'.attempts[a] = db.attempts[a]
                \/ \E t \in Threads : /\ a = Attempt(t) /\ Receive(t)
                                      /\ wire[call[t].conn].response.status = "accepted"
                                      /\ db'.attempts[a].ack = wire[call[t].conn].response
      PROVE  AckedOK'
  <2> SUFFICES ASSUME NEW a \in DOMAIN db'.attempts, db'.attempts[a].state = "route-acked"
               PROVE  /\ a.delivery \in DOMAIN db'.deliveries /\ Held(a) \in DOMAIN Rows'
                      /\ Rows'[Held(a)].bytes = db'.deliveries[a.delivery].bytes
                      /\ db'.attempts[a].ack.outcome = "recipient-intake" <=> Held(a)[1] = Home
    BY DEF AckedOK, Held
  <2>1. CASE a \in DOMAIN db.attempts /\ db'.attempts[a] = db.attempts[a]
    <3>1. /\ a.delivery \in DOMAIN db.deliveries /\ Held(a) \in DOMAIN Rows
          /\ Rows[Held(a)].bytes = db.deliveries[a.delivery].bytes
          /\ db.attempts[a].ack.outcome = "recipient-intake" <=> Held(a)[1] = Home
      BY <2>1 DEF AckedOK
    <3> QED BY <1>1, <1>4, <2>1, <3>1 DEF InboxMoves, DeliveriesMove
  <2>2. ASSUME NEW t \in Threads, a = Attempt(t), Receive(t),
               wire[call[t].conn].response.status = "accepted",
               db'.attempts[a].ack = wire[call[t].conn].response
        PROVE  /\ a.delivery \in DOMAIN db'.deliveries /\ Held(a) \in DOMAIN Rows'
               /\ Rows'[Held(a)].bytes = db'.deliveries[a.delivery].bytes
               /\ db'.attempts[a].ack.outcome = "recipient-intake" <=> Held(a)[1] = Home
    <3>1. call[t].pc = "await" /\ wire[call[t].conn].state = "handled" BY <2>2 DEF Receive, At
    <3>2. /\ call[t].env.id \in DOMAIN db.deliveries
          /\ db.deliveries[call[t].env.id].bytes = call[t].env.bytes
          /\ call[t].conn \in DOMAIN wire /\ wire[call[t].conn].env = call[t].env
          /\ wire[call[t].conn].to = Head(call[t].todo)
      BY <3>1 DEF CallOK
    <3>3. a.delivery = call[t].env.id /\ a.route = Head(call[t].todo) BY <2>2 DEF Attempt
    <3>4. Held(a) = Where(wire[call[t].conn]) BY <3>2, <3>3 DEF Held, Where
    <3>5. Stands(wire[call[t].conn], wire[call[t].conn].response) BY <2>2, <3>1, <3>2 DEF TakenOK
    <3>6. /\ Held(a) \in DOMAIN Rows /\ Rows[Held(a)].bytes = call[t].env.bytes
          /\ db'.attempts[a].ack.outcome = "recipient-intake" <=> Held(a)[1] = Home
      BY <2>2, <3>2, <3>4, <3>5 DEF Stands
    <3> QED BY <1>1, <1>4, <3>2, <3>3, <3>6 DEF InboxMoves, DeliveriesMove
  <2> QED BY <1>4, <2>1, <2>2
<1>5. CASE \E t \in Threads : CarryStep(t)
  <2>1. PICK t \in Threads : CarryStep(t) BY <1>5
  <2> QED BY <1>2, <1>3, <1>4, <2>1, CarryMoves, CallStep
<1>6. CASE Carried' = Carried /\ (call' = call \/ call' = [t \in Threads |-> Idle])
  <2>1. DeliveriesMove /\ db'.attempts = db.attempts BY <1>6 DEF Carried, DeliveriesMove
  <2>2. CallOK'
    <3>1. CASE call' = call BY <1>2, <1>3, <2>1, <3>1, CallStep
    <3>2. CASE call' = [t \in Threads |-> Idle]
      BY <1>3, <3>2 DEF CallOK, Idle, CallFields
    <3> QED BY <1>6, <3>1, <3>2
  <2> QED BY <1>2, <1>4, <2>1, <2>2
<1>7. CASE StoreStep
  <2>1. call' = call \/ call' = [t \in Threads |-> Idle] BY <1>7 DEF StoreStep
  <2> QED BY <1>6, <1>7, <2>1, StoreWriters
<1>8. db' = db => Carried' = Carried BY DEF Carried
<1> QED BY <1>5, <1>6, <1>7, <1>8, StepKinds, InboxWritesNothing

\* What the way of a message rests on, at its sender and its recipient.
DeliveryInv ==
    /\ BoundsOK /\ PagesOK /\ PagesLeaveNoGap /\ ClaimsOK /\ ClaimsAreDisjoint
    /\ RecipientInv /\ WireOK /\ TakenOK /\ CallOK /\ AckedOK

\* Nothing has been sent yet.
LEMMA DeliveryStarts == Init => DeliveryInv
<1> SUFFICES ASSUME Init PROVE DeliveryInv OBVIOUS
<1> USE DEF Init, CInit
<1>1. BoundsOK BY DEF BoundsOK, EmptyStore, Fields
<1>2. PagesOK /\ PagesLeaveNoGap
  <2>1. DOMAIN db.cursors = {} /\ DOMAIN db.pages = {} BY DEF EmptyStore
  <2>2. 0 \in Nat /\ 1..0 = {} OBVIOUS
  <2>3. \E n \in Nat : DOMAIN db.cursors = 1..n BY <2>1, <2>2
  <2> QED BY <2>1, <2>3 DEF PagesOK, PagesLeaveNoGap
<1>3. ClaimsOK /\ ClaimsAreDisjoint
  <2>1. DOMAIN db.claims = {} /\ DOMAIN db.batches = {} BY DEF EmptyStore
  <2> QED BY <2>1 DEF ClaimsOK, ClaimsAreDisjoint
<1>4. DOMAIN inbox = {} /\ DOMAIN tombs = {} /\ DOMAIN answers = {} /\ DOMAIN leases = {}
  OBVIOUS
<1>5. RecipientInv
  BY <1>4 DEF RecipientInv, RecipientOK, AnswersOK, LeasesOK, InboxClaimsAreDisjoint, IntakeOK,
     Rows
<1>6. WireOK /\ TakenOK
  <2>1. DOMAIN wire = {} /\ 1..0 = {} /\ 0 \in Nat OBVIOUS
  <2>2. wire = [j \in 1..0 |-> wire[j]] BY <2>1
  <2> QED BY <2>1, <2>2 DEF WireOK, TakenOK
<1>7. CallOK BY DEF CallOK, Idle, CallFields
<1>8. AckedOK
  <2>1. DOMAIN db.attempts = {} BY DEF EmptyStore
  <2> QED BY <2>1 DEF AckedOK
<1> QED BY <1>1, <1>2, <1>3, <1>5, <1>6, <1>7, <1>8 DEF DeliveryInv

\* What the way of a message rests on survives every step.
LEMMA DeliveryStays == DeliveryInv /\ [Next]_vars => DeliveryInv'
BY BoundsStep, SenderStep, RecipientStep, CarryingStep DEF DeliveryInv

\* Every inbox takes an envelope in once, with one answer for all its attempts; an
\* acknowledged attempt means that the inbox its route ends at has these bytes, the
\* recipient's own exactly when the answer was "recipient-intake" and otherwise a
\* hub's; the recipient's holds only what its validator accepts; and neither the
\* sender's pages and claims nor the inboxes' leases overlap or leave a gap,
\* however connections are lost and repeated and hubs carry on what they hold
\* (communication.py: page, claim; routes.py: dispatch, handle_deferred, claim, ack).
THEOREM DeliveryStaysSound == Spec => []DeliveryHolds
<1>1. DeliveryInv => DeliveryHolds
  <2> SUFFICES ASSUME DeliveryInv PROVE DeliveryHolds OBVIOUS
  <2> USE DEF DeliveryInv
  <2>1. TakenInOnce BY DEF TakenInOnce, RecipientInv, AnswersOK
  <2>2. AckedIsTaken
    <3> SUFFICES ASSUME NEW a \in DOMAIN db.attempts, db.attempts[a].state = "route-acked"
                 PROVE  /\ RowAt(Held(a)) # None
                        /\ RowAt(Held(a)).bytes = db.deliveries[a.delivery].bytes
                        /\ db.attempts[a].ack.outcome = "recipient-intake" <=> Held(a)[1] = Home
      BY DEF AckedIsTaken, Held
    <3>1. /\ Held(a) \in DOMAIN Rows
          /\ Rows[Held(a)].bytes = db.deliveries[a.delivery].bytes
          /\ db.attempts[a].ack.outcome = "recipient-intake" <=> Held(a)[1] = Home
      BY DEF AckedOK
    <3>2. RowAt(Held(a)) # None /\ RowAt(Held(a)) = Rows[Held(a)]
      BY <3>1, RowAtStanding DEF RecipientInv
    <3> QED BY <3>1, <3>2
  <2>3. IntakeIsValidated
    <3> SUFFICES ASSUME NEW p \in DOMAIN inbox \cup DOMAIN tombs, p[1] = Home
                 PROVE  \E e \in Envelopes \ Refused : e.id = p[2] /\ e.bytes = RowAt(p).bytes
      BY DEF IntakeIsValidated
    <3>1. p \in DOMAIN Rows BY DEF Rows
    <3>2. RowAt(p) = Rows[p] BY <3>1, RowAtStanding DEF RecipientInv
    <3> QED BY <3>1, <3>2 DEF RecipientInv, IntakeOK, Validated
  <2> QED BY <2>1, <2>2, <2>3 DEF DeliveryHolds, RecipientInv
<1> QED BY <1>1, DeliveryStarts, DeliveryStays, PTL DEF Spec

-----------------------------------------------------------------------------
(* The sender's store: its files, its proofs and its consumers. *)

\* What a process that died leaves: a journal between whose ends the tables and
\* the anchor are, or none; from schema 2 on the anchor then agrees.
JournalOK ==
    /\ plan \in Plan /\ now \in 0..plan.time /\ crashes \in 0..plan.crashes
    /\ DOMAIN known = {"messages", "receipts"}
    /\ known.messages \subseteq Messages /\ known.receipts \subseteq Receipts
    /\ db.schema \in 1..3 /\ db.counter \in 0..plan.ops
    /\ anchor \in {db.counter, db.counter + 1}
    /\ IF pending = {} THEN db.schema >= 2 => anchor = db.counter ELSE Recoverable

\* A commit of a change to the columns F.
Commits(F) ==
    /\ Begin
    /\ \E next : /\ DOMAIN next = Fields /\ \A f \in Fields \ F : next[f] = db[f]
                 /\ Commit(next)

files == <<db, anchor, pending, crashes>>
Data == Fields \ {"schema", "counter"}

\* A mutation of the tables is a commit of what it changes.
LEMMA CommitsIs ==
    ASSUME Begin, NEW next, Mutate(next),
           DOMAIN next = Fields, \A f \in Fields \ Data : next[f] = db[f]
    PROVE  Commits(Data)
BY DEF Mutate, Commits

\* Every step commits once, or leaves the files alone, upgrades or recovers.
LEMMA StepCommits ==
    ASSUME BoundsOK, [Next]_vars
    PROVE  UNCHANGED files \/ Commits(Data) \/ UpgradeReceiptsV2 \/ UpgradeLegsV3 \/ Recover
<1> USE DEF BoundsOK
<1>1. UNCHANGED cvars \/ UNCHANGED store \/ UNCHANGED vars => UNCHANGED files
  BY DEF cvars, store, files, vars
<1>2. ASSUME NEW m, Accept(m) PROVE Commits(Data)
  <2> DEFINE legs == [i \in DOMAIN Targets[m] |-> <<m, Targets[m][i][1], Targets[m][i][2]>>]
             seqs == [l \in LegsOf(m) |->
                         db.highwater + (CHOOSE i \in DOMAIN legs : legs[i] = l)]
             grown == [l \in DOMAIN db.legs \cup LegsOf(m) |->
                         IF l \in DOMAIN db.legs THEN db.legs[l]
                         ELSE [seq |-> seqs[l], state |-> "accepted", receipt |-> None]]
             next == [db EXCEPT !.messages = @ \cup {m}, !.highwater = @ + Len(legs),
                                !.legs = grown, !.queue = @ \cup {seqs[l] : l \in LegsOf(m)}]
  <2>1. Begin /\ Mutate(next) BY <1>2 DEF Accept
  <2> HIDE DEF legs, seqs, grown
  <2>2. DOMAIN next = Fields /\ \A f \in Fields \ Data : next[f] = db[f] BY DEF Data, Fields
  <2> QED BY <2>1, <2>2, CommitsIs
<1>3. ASSUME NEW rc, RecordReceipt(rc) PROVE UNCHANGED files \/ Commits(Data)
  <2>1. PICK l \in Bound(db, rc) :
           \/ UNCHANGED files
           \/ Judge(db, l, rc) # db /\ Commit(Judge(db, l, rc))
    BY <1>3 DEF RecordReceipt, files
  <2>2. \A S, R, A : LET next == Quarantined(db, S, R, A) IN
           DOMAIN next = Fields /\ \A f \in Fields \ Data : next[f] = db[f]
    BY DEF Quarantined, Data, Fields
  <2>3. LET next == Ended(db, l, rc) IN
           DOMAIN next = Fields /\ \A f \in Fields \ Data : next[f] = db[f]
    BY DEF Ended, Data, Fields
  <2> DEFINE next == Judge(db, l, rc)
  <2>4. next = db \/ (\E S, R, A : next = Quarantined(db, S, R, A)) \/ next = Ended(db, l, rc)
    BY JudgeIs
  <2> HIDE DEF next
  <2>5. next # db => DOMAIN next = Fields /\ \A f \in Fields \ Data : next[f] = db[f]
    BY <2>2, <2>3, <2>4
  <2>6. Begin BY <1>3 DEF RecordReceipt
  <2>7. next # db /\ Commit(next) => Commits(Data) BY <2>5, <2>6 DEF Commits
  <2> QED BY <2>1, <2>7 DEF next
<1>4. \A r, c, s : Advance(r, c, s) => Commits(Data)
  BY DEF Advance, Mutate, Commits, Data, Fields
<1>13. ASSUME NEW r, NEW s, Compact(r, s) PROVE Commits(Data)
  <2>1. PICK queue, claims, compactions :
           Begin /\ Mutate([db EXCEPT !.queue = queue, !.claims = claims,
                                      !.compactions = compactions])
    BY <1>13 DEF Compact
  <2> QED BY <2>1, CommitsIs DEF Data, Fields
<1>5. ASSUME NEW r, NEW c, NEW q, NEW token, NEW n, Page(r, c, q, token, n) PROVE Commits(Data)
  <2>1. PICK cursors, pages : Begin /\ Mutate([db EXCEPT !.cursors = cursors, !.pages = pages])
    BY <1>5 DEF Page
  <2> QED BY <2>1, CommitsIs DEF Data, Fields
<1>6. ASSUME NEW r, NEW c, NEW k, NEW n, NEW until, NEW t, Claim(r, c, k, n, until, t)
      PROVE  Commits(Data)
  <2>1. PICK batches, claims : Begin /\ Mutate([db EXCEPT !.batches = batches, !.claims = claims])
    BY <1>6 DEF Claim
  <2> QED BY <2>1, CommitsIs DEF Data, Fields
<1>7. /\ \A m : LearnMessage(m) => UNCHANGED store
      /\ \A rc : LearnReceipt(rc) => UNCHANGED store
      /\ Tick => UNCHANGED store
  BY DEF LearnMessage, LearnReceipt, Tick
<1>8. StoreStep => UNCHANGED files \/ Commits(Data) \/ UpgradeReceiptsV2 \/ UpgradeLegsV3 \/ Recover
  BY <1>1, <1>2, <1>3, <1>4, <1>5, <1>6, <1>7, <1>13 DEF StoreStep, CNext
<1>9. ASSUME NEW t, CarryStep(t) PROVE UNCHANGED files \/ Commits(Data)
  <2>1. RecordAttempt(t) => UNCHANGED cvars \/ Commits(Data)
    BY DEF RecordAttempt, Mutate, Commits, Data, Fields
  <2>2. ASSUME Begin, NEW a, NEW s, NEW k, RouteAck(a, s, k)
        PROVE  UNCHANGED cvars \/ Commits(Data)
    BY <2>2 DEF RouteAck, Mutate, Commits, Data, Fields
  <2>3. SendUnavailable(t) \/ Receive(t) => UNCHANGED cvars \/ Commits(Data)
    BY <2>2 DEF SendUnavailable, Receive
  <2>4. RecordDelivery(t) => UNCHANGED cvars \/ Commits(Data)
    BY DEF RecordDelivery, Mutate, Commits, Data, Fields, Quarantined
  <2>5. Send(t) \/ SendRefused(t) \/ GiveUp(t) => UNCHANGED cvars
    BY DEF Send, SendRefused, GiveUp
  <2>6. \A l, e, d : Dispatch(t, l, e, d) => UNCHANGED cvars BY DEF Dispatch
  <2> QED BY <1>1, <1>9, <2>1, <2>3, <2>4, <2>5, <2>6 DEF CarryStep, DispatchStep
<1> QED BY <1>1, <1>8, <1>9, StepKinds, RecipientMoves DEF Forwarded

\* The ledger only grows, and the clock stays within its bound.
LEMMA KnownStep ==
    ASSUME BoundsOK, JournalOK, [Next]_vars
    PROVE  /\ plan' = plan /\ now' \in 0..plan.time
           /\ DOMAIN known' = {"messages", "receipts"}
           /\ known'.messages \subseteq Messages /\ known'.receipts \subseteq Receipts
<1>1. plan.messages \subseteq Messages /\ plan.receipts \subseteq Receipts /\ plan.time \in Nat
  BY DEF JournalOK, Plan
<1>2. \A next : Mutate(next) => UNCHANGED <<now, known>> BY DEF Mutate
<1>3. UNCHANGED cvars \/ UNCHANGED vars => UNCHANGED <<now, known>> BY DEF cvars, vars
<1>4. CASE UNCHANGED <<now, known>>
  BY <1>4, ClockMoves DEF JournalOK, BoundsOK
<1>5. CASE Tick BY <1>1, <1>5 DEF Tick, JournalOK
<1>6. CASE \E m \in plan.messages : LearnMessage(m) BY <1>1, <1>6 DEF LearnMessage, JournalOK
<1>7. CASE \E rc \in plan.receipts : LearnReceipt(rc) BY <1>1, <1>7 DEF LearnReceipt, JournalOK
<1>8. /\ \A m : Accept(m) => UNCHANGED <<now, known>>
      /\ \A rc : RecordReceipt(rc) => UNCHANGED <<now, known>>
      /\ \A r, c, s : Advance(r, c, s) => UNCHANGED <<now, known>>
      /\ \A r, s : Compact(r, s) => UNCHANGED <<now, known>>
      /\ UpgradeReceiptsV2 \/ UpgradeLegsV3 \/ Recover => UNCHANGED <<now, known>>
  BY <1>2 DEF Accept, RecordReceipt, Advance, Compact, UpgradeReceiptsV2, UpgradeLegsV3, Recover
<1>9. \A r, c, q, token, n : Page(r, c, q, token, n) => UNCHANGED <<now, known>>
  BY <1>2 DEF Page
<1>10. \A r, c, k, n, until, t : Claim(r, c, k, n, until, t) => UNCHANGED <<now, known>>
  BY <1>2, Zenon DEF Claim
<1>11. CASE StoreStep
  BY <1>4, <1>5, <1>6, <1>7, <1>8, <1>9, <1>10, <1>11 DEF StoreStep, CNext
<1>12. ASSUME NEW t, CarryStep(t) PROVE UNCHANGED <<now, known>>
  BY <1>2, <1>3, <1>12 DEF CarryStep, Dispatch, DispatchStep, RecordAttempt, RecordDelivery,
     SendUnavailable, Send, SendRefused, GiveUp, Receive, RouteAck
<1> QED BY <1>3, <1>4, <1>11, <1>12, StepKinds, RecipientMoves DEF Forwarded

\* A crash within a commit leaves files that initialize accepts.
LEMMA JournalStep ==
    ASSUME BoundsOK, JournalOK, [Next]_vars PROVE JournalOK'
<1>1. /\ plan' = plan /\ now' \in 0..plan.time
      /\ DOMAIN known' = {"messages", "receipts"}
      /\ known'.messages \subseteq Messages /\ known'.receipts \subseteq Receipts
  BY KnownStep
<1>2. plan.crashes \in Nat /\ plan.ops \in Nat BY DEF JournalOK, Plan
<1>3. SUFFICES /\ crashes' \in 0..plan.crashes
               /\ db'.schema \in 1..3 /\ db'.counter \in 0..plan.ops
               /\ anchor' \in {db'.counter, db'.counter + 1}
               /\ IF pending' = {} THEN db'.schema >= 2 => anchor' = db'.counter ELSE Recoverable'
  BY <1>1 DEF JournalOK
<1>4. CASE UNCHANGED files BY <1>4 DEF JournalOK, files, Recoverable
<1>5. CASE Commits(Data)
  <2>1. PICK next : DOMAIN next = Fields /\ (\A f \in Fields \ Data : next[f] = db[f]) /\ Commit(next)
    BY <1>5 DEF Commits
  <2>2. next.schema = db.schema /\ next.counter = db.counter BY <2>1 DEF Data, Fields
  <2>3. pending = {} /\ anchor = db.counter /\ db.counter < plan.ops
    BY <1>5 DEF Commits, Begin, Initialized
  <2> DEFINE after == [next EXCEPT !.counter = @ + 1]
             journal == [before |-> db, after |-> after]
  <2>4. after.schema = db.schema /\ after.counter = db.counter + 1 BY <2>1, <2>2 DEF Fields
  <2>5. db.counter + 1 \in 0..plan.ops BY <1>2, <2>3 DEF JournalOK
  <2>6. \/ db' = after /\ anchor' = after.counter /\ pending' = pending /\ crashes' = crashes
        \/ /\ crashes < plan.crashes /\ crashes' = crashes + 1
           /\ \/ db.schema = 1 /\ anchor' = after.counter /\ db' = db /\ pending' = pending
              \/ /\ pending' = {journal}
                 /\ \/ db' = db /\ anchor' = anchor
                    \/ anchor' = after.counter /\ db' \in {db, after}
    BY <2>1 DEF Commit
  <2>7. journal.before = db /\ journal.after = after OBVIOUS
  <2> HIDE DEF after, journal
  <2>8. crashes' \in 0..plan.crashes BY <1>2, <2>6 DEF JournalOK
  <2>9. pending' = {journal} => pending' # {} OBVIOUS
  <2>10. ASSUME pending' = {journal} PROVE Recoverable'
    <3>1. anchor' \in {db.counter, after.counter} /\ db' \in {db, after}
      BY <2>3, <2>4, <2>6, <2>10
    <3> QED BY <2>7, <2>10, <3>1 DEF Recoverable
  <2> QED BY <2>3, <2>4, <2>5, <2>6, <2>8, <2>9, <2>10 DEF JournalOK
<1>6. CASE UpgradeReceiptsV2 \/ UpgradeLegsV3
  <2>1. /\ db'.schema \in {2, 3} /\ db'.counter = db.counter
        /\ anchor' = anchor /\ pending' = pending /\ crashes' = crashes
    BY <1>6 DEF UpgradeReceiptsV2, UpgradeLegsV3, BoundsOK, Fields
  <2>2. pending = {} /\ anchor = db.counter BY <1>6 DEF UpgradeReceiptsV2, UpgradeLegsV3, Initialized
  <2> QED BY <2>1, <2>2 DEF JournalOK
<1>7. CASE Recover BY <1>7 DEF Recover, JournalOK
<1> QED BY <1>4, <1>5, <1>6, <1>7, StepCommits

\* What the receipts of a store are about: its legs, one each.  Before schema 3
\* a recipient has one leg of a message.
BindingOK(d) ==
    /\ d.schema \in 1..3
    /\ \A l \in DOMAIN d.legs : d.legs[l].state \in {"accepted", "quarantined"} \cup TerminalOutcomes
    /\ d.schema < 3 => \A l, k \in DOMAIN d.legs : l[1] = k[1] /\ l[2] = k[2] => l = k
    /\ \A l \in DOMAIN d.receipts :
          /\ l \in DOMAIN d.legs /\ ~d.receipts[l].foreign
          /\ d.receipts[l].msg \in d.messages /\ Bound(d, d.receipts[l]) \subseteq {l}
    /\ \A l \in DOMAIN d.foreign :
          d.foreign[l].foreign /\ d.foreign[l].msg \in d.messages /\ l \in Bound(d, d.foreign[l])
    /\ \A c \in d.conflicts :
          /\ c.leg \in DOMAIN d.legs /\ \A a \in c.attempts : a.leg \in DOMAIN d.legs
          /\ \A rc \in c.receipts : rc.msg \in d.messages

\* What _validate_store finds of messages, receipts, attempts and conflicts.
EvidenceOK(d) ==
    ValidVector(d) /\ ValidProofs(d) /\ ValidAttempts(d) /\ ValidConflicts(d) /\ BindingOK(d)

\* The legs are the triples of their messages.
LEMMA LegIsTriple ==
    ASSUME NEW d, ValidVector(d), NEW l \in DOMAIN d.legs
    PROVE  l[1] \in d.messages /\ l \in LegsOf(l[1]) /\ l = <<l[1], l[2], l[3]>>
<1>1. l[1] \in d.messages /\ l \in LegsOf(l[1]) BY DEF ValidVector
<1>2. l = <<l[1], l[2], l[3]>> BY <1>1 DEF LegsOf
<1> QED BY <1>1, <1>2

\* A receipt is about one leg.
LEMMA OneLeg ==
    ASSUME NEW d, ValidVector(d), BindingOK(d), NEW rc, NEW l \in Bound(d, rc), NEW k \in Bound(d, rc)
    PROVE  l = k
<1>1. /\ l \in DOMAIN d.legs /\ k \in DOMAIN d.legs
      /\ l[1] = k[1] /\ l[2] = k[2]
      /\ (rc.foreign \/ d.schema >= 3 \/ rc.outcome = "delivered") => l[3] = k[3]
  BY DEF Bound
<1>2. l = <<l[1], l[2], l[3]>> /\ k = <<k[1], k[2], k[3]>> BY <1>1, LegIsTriple
<1>3. CASE l[3] = k[3] BY <1>1, <1>2, <1>3
<1>4. CASE d.schema < 3 BY <1>1, <1>4 DEF BindingOK
<1>5. d.schema < 3 \/ d.schema >= 3 BY DEF BindingOK
<1> QED BY <1>1, <1>3, <1>4, <1>5

\* e is d with the legs S quarantined, those of L with the evidence R and A.
Strikes(d, e, L, S, R, A) ==
    /\ L \subseteq S /\ S \subseteq DOMAIN d.legs
    /\ \A l \in DOMAIN d.legs : DOMAIN d.legs[l] = LegColumns
    /\ e.schema = d.schema /\ e.messages = d.messages /\ e.receipts = d.receipts
    /\ e.foreign = d.foreign /\ e.attempts = d.attempts
    /\ e.conflicts = d.conflicts \cup {[leg |-> l, receipts |-> R, attempts |-> A] : l \in L}
    /\ e.legs = [k \in DOMAIN d.legs |->
                    IF k \in S THEN [d.legs[k] EXCEPT !.state = "quarantined"] ELSE d.legs[k]]
    /\ \A rc \in R : rc.msg \in d.messages /\ Bound(d, rc) \subseteq S
    /\ \A a \in A : a \in DOMAIN d.attempts /\ a.leg \in S

\* Quarantining every leg of a dispute keeps the evidence whole.
LEMMA StrikeKeeps ==
    ASSUME NEW d, NEW e, EvidenceOK(d), NEW L, NEW S, NEW R, NEW A, Strikes(d, e, L, S, R, A)
    PROVE  EvidenceOK(e)
<1> USE DEF Strikes
<1> DEFINE struck == [k \in DOMAIN d.legs |->
                        IF k \in S THEN [d.legs[k] EXCEPT !.state = "quarantined"] ELSE d.legs[k]]
<1>1. /\ DOMAIN struck = DOMAIN d.legs
      /\ \A k \in DOMAIN d.legs :
            /\ struck[k].receipt = d.legs[k].receipt
            /\ k \in S => struck[k].state = "quarantined"
            /\ k \notin S => struck[k].state = d.legs[k].state
  BY DEF LegColumns
<1> HIDE DEF struck
<1>2. e.legs = struck BY DEF struck
<1>3. \A rc : Bound(e, rc) = Bound(d, rc) BY <1>1, <1>2 DEF Bound
<1>4. ValidVector(e) BY <1>1, <1>2 DEF EvidenceOK, ValidVector
<1>5. ValidAttempts(e) BY DEF EvidenceOK, ValidAttempts
<1>6. \A k \in DOMAIN d.legs : d.legs[k].state = "quarantined" => struck[k].state = "quarantined"
  BY <1>1
<1>7. \A c \in e.conflicts : c \in d.conflicts \/
         (c.leg \in S /\ c.receipts = R /\ c.attempts = A)
  OBVIOUS
<1>8. ValidConflicts(e)
  <2> SUFFICES ASSUME NEW c \in e.conflicts
               PROVE  /\ struck[c.leg].state = "quarantined"
                      /\ \A rc \in c.receipts : \A l \in Bound(d, rc) : struck[l].state = "quarantined"
                      /\ \A a \in c.attempts :
                             a \in DOMAIN d.attempts /\ struck[a.leg].state = "quarantined"
    BY <1>2, <1>3 DEF ValidConflicts
  <2>1. CASE c \in d.conflicts
    <3>1. c.leg \in DOMAIN d.legs /\ d.legs[c.leg].state = "quarantined"
      BY <2>1 DEF EvidenceOK, ValidConflicts, BindingOK
    <3>2. \A rc \in c.receipts : \A l \in Bound(d, rc) :
             l \in DOMAIN d.legs /\ d.legs[l].state = "quarantined"
      BY <2>1 DEF EvidenceOK, ValidConflicts, Bound
    <3>3. \A a \in c.attempts :
             a \in DOMAIN d.attempts /\ d.legs[a.leg].state = "quarantined"
      BY <2>1 DEF EvidenceOK, ValidConflicts
    <3>4. \A a \in c.attempts : a.leg \in DOMAIN d.legs
      BY <2>1 DEF EvidenceOK, BindingOK
    <3> QED BY <1>6, <3>1, <3>2, <3>3, <3>4
  <2>2. CASE c.leg \in S /\ c.receipts = R /\ c.attempts = A
    BY <1>1, <2>2
  <2> QED BY <1>7, <2>1, <2>2
<1>9. ValidProofs(e)
  <2> SUFFICES ASSUME NEW l \in DOMAIN d.legs
               PROVE  LET row == struck[l] IN
                      CASE l \in DOMAIN d.foreign ->
                             /\ l \notin DOMAIN d.receipts
                             /\ row.receipt = d.foreign[l].id
                             /\ row.state \in {"delivered", "quarantined"}
                        [] l \in DOMAIN d.receipts \ DOMAIN d.foreign ->
                             /\ row.receipt = d.receipts[l].id
                             /\ row.state \in {d.receipts[l].outcome, "quarantined"}
                        [] OTHER -> row.receipt = None /\ row.state \notin TerminalOutcomes
    BY <1>1, <1>2 DEF ValidProofs, Terminal
  <2>1. "quarantined" \notin TerminalOutcomes BY DEF TerminalOutcomes
  <2> QED BY <1>1, <2>1 DEF EvidenceOK, ValidProofs, Terminal
<1>10. BindingOK(e)
  <2>1. \A l \in DOMAIN d.legs :
           struck[l].state \in {"accepted", "quarantined"} \cup TerminalOutcomes
    BY <1>1 DEF EvidenceOK, BindingOK
  <2>2. \A c \in e.conflicts :
           /\ c.leg \in DOMAIN d.legs /\ \A a \in c.attempts : a.leg \in DOMAIN d.legs
           /\ \A rc \in c.receipts : rc.msg \in d.messages
    BY <1>7 DEF EvidenceOK, BindingOK
  <2>3. d.schema \in 1..3 /\ (d.schema < 3 =>
           \A l, k \in DOMAIN d.legs : l[1] = k[1] /\ l[2] = k[2] => l = k)
    BY DEF EvidenceOK, BindingOK
  <2>4. \A l \in DOMAIN d.receipts :
           /\ l \in DOMAIN d.legs /\ ~d.receipts[l].foreign
           /\ d.receipts[l].msg \in d.messages /\ Bound(e, d.receipts[l]) \subseteq {l}
    BY <1>3 DEF EvidenceOK, BindingOK
  <2>5. \A l \in DOMAIN d.foreign :
           d.foreign[l].foreign /\ d.foreign[l].msg \in d.messages /\ l \in Bound(e, d.foreign[l])
    BY <1>3 DEF EvidenceOK, BindingOK
  <2> QED BY <1>1, <1>2, <2>1, <2>2, <2>3, <2>4, <2>5 DEF BindingOK
<1> QED BY <1>4, <1>5, <1>8, <1>9, <1>10 DEF EvidenceOK

\* The first receipt of a leg keeps the evidence whole.
LEMMA EndKeeps ==
    ASSUME NEW d, DOMAIN d = Fields, EvidenceOK(d), NEW rc \in Receipts, NEW l \in Bound(d, rc),
           Rivals(d, l, rc) = {}, d.legs[l].state = "accepted", DOMAIN d.legs[l] = LegColumns
    PROVE  EvidenceOK(Ended(d, l, rc))
<1> DEFINE e == Ended(d, l, rc)
<1>1. /\ rc.foreign \in BOOLEAN /\ rc.outcome \in TerminalOutcomes
      /\ rc.foreign => rc.outcome = "delivered"
  BY BoundsAssumption DEF Receipt
<1>2. l \in DOMAIN d.legs /\ rc.msg \in d.messages
  BY LegIsTriple DEF Bound, EvidenceOK
<1>3. l \notin DOMAIN d.foreign /\ l \notin DOMAIN d.receipts BY DEF Rivals
<1>4. /\ e.schema = d.schema /\ e.messages = d.messages /\ e.attempts = d.attempts
      /\ e.conflicts = d.conflicts
      /\ e.receipts = IF rc.foreign THEN d.receipts ELSE Put(d.receipts, l, rc)
      /\ e.foreign = IF rc.foreign THEN Put(d.foreign, l, rc) ELSE d.foreign
      /\ e.legs = [d.legs EXCEPT ![l] = [@ EXCEPT !.state = rc.outcome, !.receipt = rc.id]]
  BY DEF Ended, Fields
<1> HIDE DEF e
<1>5. /\ DOMAIN e.legs = DOMAIN d.legs
      /\ \A k \in DOMAIN d.legs : k # l => e.legs[k] = d.legs[k]
      /\ e.legs[l].state = rc.outcome /\ e.legs[l].receipt = rc.id
  BY <1>2, <1>4 DEF LegColumns
<1>6. \A x : Bound(e, x) = Bound(d, x) BY <1>4, <1>5 DEF Bound
<1>7. ValidVector(e) BY <1>4, <1>5 DEF EvidenceOK, ValidVector
<1>8. ValidAttempts(e) BY <1>4 DEF EvidenceOK, ValidAttempts
<1>9. \A k \in DOMAIN d.legs : d.legs[k].state = "quarantined" => e.legs[k].state = "quarantined"
  BY <1>5
<1>10. ValidConflicts(e)
  <2> SUFFICES ASSUME NEW c \in d.conflicts
               PROVE  /\ e.legs[c.leg].state = "quarantined"
                      /\ \A x \in c.receipts : \A k \in Bound(d, x) : e.legs[k].state = "quarantined"
                      /\ \A a \in c.attempts :
                             a \in DOMAIN d.attempts /\ e.legs[a.leg].state = "quarantined"
    BY <1>4, <1>6 DEF ValidConflicts
  <2>1. c.leg \in DOMAIN d.legs /\ d.legs[c.leg].state = "quarantined"
    BY DEF EvidenceOK, ValidConflicts, BindingOK
  <2>2. \A x \in c.receipts : \A k \in Bound(d, x) :
           k \in DOMAIN d.legs /\ d.legs[k].state = "quarantined"
    BY DEF EvidenceOK, ValidConflicts, Bound
  <2>3. \A a \in c.attempts : /\ a \in DOMAIN d.attempts /\ d.legs[a.leg].state = "quarantined"
                              /\ a.leg \in DOMAIN d.legs
    BY DEF EvidenceOK, ValidConflicts, BindingOK
  <2> QED BY <1>9, <2>1, <2>2, <2>3
<1>11. /\ ~rc.foreign => /\ DOMAIN e.receipts = DOMAIN d.receipts \cup {l} /\ e.receipts[l] = rc
                         /\ e.foreign = d.foreign
       /\ rc.foreign => /\ DOMAIN e.foreign = DOMAIN d.foreign \cup {l} /\ e.foreign[l] = rc
                        /\ e.receipts = d.receipts
       /\ \A k \in DOMAIN d.receipts : k \in DOMAIN e.receipts /\ e.receipts[k] = d.receipts[k]
       /\ \A k \in DOMAIN d.foreign : k \in DOMAIN e.foreign /\ e.foreign[k] = d.foreign[k]
  BY <1>3, <1>4 DEF Put
<1>12. ValidProofs(e)
  <2> SUFFICES ASSUME NEW k \in DOMAIN d.legs
               PROVE  LET row == e.legs[k] IN
                      CASE k \in DOMAIN e.foreign ->
                             /\ k \notin DOMAIN e.receipts
                             /\ row.receipt = e.foreign[k].id
                             /\ row.state \in {"delivered", "quarantined"}
                        [] k \in DOMAIN e.receipts \ DOMAIN e.foreign ->
                             /\ row.receipt = e.receipts[k].id
                             /\ row.state \in {e.receipts[k].outcome, "quarantined"}
                        [] OTHER -> row.receipt = None /\ row.state \notin TerminalOutcomes
    BY <1>5 DEF ValidProofs, Terminal
  <2>1. CASE k = l BY <1>1, <1>3, <1>5, <1>11, <2>1
  <2>2. CASE k # l
    <3>1. /\ k \in DOMAIN e.foreign <=> k \in DOMAIN d.foreign
          /\ k \in DOMAIN e.receipts <=> k \in DOMAIN d.receipts
          /\ e.legs[k] = d.legs[k]
      BY <1>1, <1>5, <1>11, <2>2
    <3> QED BY <1>11, <3>1 DEF EvidenceOK, ValidProofs, Terminal
  <2> QED BY <2>1, <2>2
<1>13. BindingOK(e)
  <2>1. \A k \in DOMAIN e.legs : e.legs[k].state \in {"accepted", "quarantined"} \cup TerminalOutcomes
    BY <1>1, <1>5 DEF EvidenceOK, BindingOK
  <2>2. \A c \in e.conflicts :
           /\ c.leg \in DOMAIN e.legs /\ \A a \in c.attempts : a.leg \in DOMAIN e.legs
           /\ \A x \in c.receipts : x.msg \in e.messages
    BY <1>4, <1>5 DEF EvidenceOK, BindingOK
  <2>3. e.schema \in 1..3 /\ (e.schema < 3 =>
           \A j, k \in DOMAIN e.legs : j[1] = k[1] /\ j[2] = k[2] => j = k)
    BY <1>4, <1>5 DEF EvidenceOK, BindingOK
  <2>4. Bound(d, rc) \subseteq {l} BY OneLeg DEF EvidenceOK
  <2>5. ASSUME NEW k \in DOMAIN e.receipts
        PROVE  /\ k \in DOMAIN e.legs /\ ~e.receipts[k].foreign
               /\ e.receipts[k].msg \in e.messages /\ Bound(e, e.receipts[k]) \subseteq {k}
    <3>1. CASE k \in DOMAIN d.receipts
      <4>1. e.receipts[k] = d.receipts[k] BY <1>11, <3>1
      <4>2. /\ k \in DOMAIN d.legs /\ ~d.receipts[k].foreign
            /\ d.receipts[k].msg \in d.messages /\ Bound(d, d.receipts[k]) \subseteq {k}
        BY <3>1 DEF EvidenceOK, BindingOK
      <4> QED BY <1>4, <1>5, <1>6, <4>1, <4>2
    <3>2. CASE k \notin DOMAIN d.receipts
      <4>1. ~rc.foreign /\ k = l BY <1>1, <1>11, <3>2
      <4> QED BY <1>2, <1>4, <1>5, <1>6, <1>11, <2>4, <4>1
    <3> QED BY <3>1, <3>2
  <2>6. ASSUME NEW k \in DOMAIN e.foreign
        PROVE  e.foreign[k].foreign /\ e.foreign[k].msg \in e.messages /\ k \in Bound(e, e.foreign[k])
    <3>1. CASE k \in DOMAIN d.foreign
      <4>1. e.foreign[k] = d.foreign[k] BY <1>11, <3>1
      <4>2. d.foreign[k].foreign /\ d.foreign[k].msg \in d.messages /\ k \in Bound(d, d.foreign[k])
        BY <3>1 DEF EvidenceOK, BindingOK
      <4> QED BY <1>4, <1>6, <4>1, <4>2
    <3>2. CASE k \notin DOMAIN d.foreign
      <4>1. rc.foreign /\ k = l BY <1>1, <1>11, <3>2
      <4> QED BY <1>2, <1>4, <1>5, <1>6, <1>11, <4>1
    <3> QED BY <3>1, <3>2
  <2> QED BY <2>1, <2>2, <2>3, <2>5, <2>6 DEF BindingOK
<1> QED BY <1>7, <1>8, <1>10, <1>12, <1>13 DEF EvidenceOK, e

\* What a receipt is compared with is about legs the dispute takes in.
LEMMA RivalsAreStruck ==
    ASSUME EvidenceOK(db), NEW rc, NEW l \in Bound(db, rc)
    PROVE  /\ Struck(l, rc) \subseteq DOMAIN db.legs /\ l \in Struck(l, rc)
           /\ \A x \in Rivals(db, l, rc) \cup {rc} :
                 x.msg \in db.messages /\ Bound(db, x) \subseteq Struck(l, rc)
<1> USE DEF EvidenceOK
<1>1. \A k \in DOMAIN db.foreign : k \in DOMAIN db.legs BY DEF BindingOK, Bound
<1>2. l \in DOMAIN db.legs /\ rc.msg \in db.messages BY LegIsTriple DEF Bound
<1>3. Bound(db, rc) \subseteq {l} BY OneLeg
<1>4. ASSUME NEW k \in DOMAIN db.foreign, db.foreign[k] \in Rivals(db, l, rc), k = l \/ rc.foreign
      PROVE  db.foreign[k].msg \in db.messages /\ Bound(db, db.foreign[k]) \subseteq Struck(l, rc)
  <2>1. k \in Struck(l, rc) BY <1>4 DEF Struck
  <2>2. k \in Bound(db, db.foreign[k]) /\ db.foreign[k].msg \in db.messages BY DEF BindingOK
  <2>3. Bound(db, db.foreign[k]) \subseteq {k} BY <2>2, OneLeg
  <2> QED BY <2>1, <2>2, <2>3
<1>5. ASSUME l \in DOMAIN db.receipts
      PROVE  db.receipts[l].msg \in db.messages /\ Bound(db, db.receipts[l]) \subseteq Struck(l, rc)
  BY <1>5 DEF BindingOK, Struck
<1>6. \A x \in Rivals(db, l, rc) :
         \/ \E k \in DOMAIN db.foreign : x = db.foreign[k] /\ (k = l \/ rc.foreign)
         \/ l \in DOMAIN db.receipts /\ x = db.receipts[l]
  BY DEF Rivals
<1>7. Struck(l, rc) \subseteq DOMAIN db.legs /\ l \in Struck(l, rc) BY <1>1, <1>2 DEF Struck
<1> QED BY <1>2, <1>3, <1>4, <1>5, <1>6, <1>7

\* record_receipt and record_foreign_receipt keep the evidence whole.
LEMMA JudgeKeeps ==
    ASSUME BoundsOK, EvidenceOK(db), NEW rc \in Receipts, NEW l \in Bound(db, rc)
    PROVE  EvidenceOK(Judge(db, l, rc))
<1>1. l \in DOMAIN db.legs BY DEF Bound
<1>2. \A k \in DOMAIN db.legs : DOMAIN db.legs[k] = LegColumns BY DEF BoundsOK
<1>3. CASE Rivals(db, l, rc) = {} /\ db.legs[l].state = "accepted"
  <2>1. EvidenceOK(Ended(db, l, rc)) BY <1>1, <1>2, <1>3, EndKeeps DEF BoundsOK
  <2>2. Judge(db, l, rc) \in {db, Ended(db, l, rc)} \/ Rivals(db, l, rc) # {} BY JudgeIs
  <2> QED BY <1>3, <2>1, <2>2
<1>4. ASSUME Judge(db, l, rc) = Quarantined(db, Struck(l, rc), Rivals(db, l, rc) \cup {rc}, {})
      PROVE  EvidenceOK(Judge(db, l, rc))
  <2> DEFINE S == Struck(l, rc)
             R == Rivals(db, l, rc) \cup {rc}
             e == Quarantined(db, S, R, {})
  <2>1. S \subseteq DOMAIN db.legs /\ \A x \in R : x.msg \in db.messages /\ Bound(db, x) \subseteq S
    BY RivalsAreStruck
  <2> HIDE DEF S, R
  <2>2. /\ e.schema = db.schema /\ e.messages = db.messages /\ e.receipts = db.receipts
        /\ e.foreign = db.foreign /\ e.attempts = db.attempts
        /\ e.conflicts = db.conflicts \cup {[leg |-> k, receipts |-> R, attempts |-> {}] : k \in S}
        /\ e.legs = [k \in DOMAIN db.legs |->
                        IF k \in S THEN [db.legs[k] EXCEPT !.state = "quarantined"] ELSE db.legs[k]]
    BY DEF Quarantined, BoundsOK, Fields
  <2> HIDE DEF e
  <2>3. \A x \in R : x.msg \in db.messages /\ Bound(db, x) \subseteq S BY <2>1
  <2>4. \A a \in {} : a \in DOMAIN db.attempts /\ a.leg \in S OBVIOUS
  <2>5. S \subseteq S /\ S \subseteq DOMAIN db.legs BY <2>1
  <2>6. Strikes(db, e, S, S, R, {}) BY <1>2, <2>2, <2>3, <2>4, <2>5 DEF Strikes
  <2>7. EvidenceOK(e) BY <2>6, StrikeKeeps
  <2> QED BY <1>4, <2>7 DEF e, S, R
<1> QED BY <1>3, <1>4, JudgeIs

\* Evidence stays whole where only the schema and the attempts move forward.
LEMMA EvidenceKept ==
    ASSUME NEW d, NEW e, EvidenceOK(d), e.schema \in 1..3, d.schema <= e.schema,
           e.messages = d.messages, e.legs = d.legs, e.receipts = d.receipts,
           e.foreign = d.foreign, e.conflicts = d.conflicts,
           DOMAIN d.attempts \subseteq DOMAIN e.attempts, ValidAttempts(e)
    PROVE  EvidenceOK(e)
<1>1. d.schema \in 1..3 BY DEF EvidenceOK, BindingOK
<1>2. \A rc : Bound(e, rc) \subseteq Bound(d, rc) BY <1>1 DEF Bound
<1>3. \A rc : rc.foreign = TRUE => Bound(e, rc) = Bound(d, rc) BY DEF Bound
<1>4. ValidVector(e) BY DEF EvidenceOK, ValidVector
<1>5. ValidProofs(e) BY DEF EvidenceOK, ValidProofs, Terminal
<1>6. ValidConflicts(e) BY <1>2 DEF EvidenceOK, ValidConflicts
<1>7. BindingOK(e)
  <2>1. e.schema < 3 => d.schema < 3 BY <1>1
  <2>2. \A l \in DOMAIN e.receipts : Bound(e, e.receipts[l]) \subseteq {l}
    BY <1>2 DEF EvidenceOK, BindingOK
  <2>3. ASSUME NEW l \in DOMAIN e.foreign PROVE l \in Bound(e, e.foreign[l])
    <3>1. d.foreign[l].foreign /\ l \in Bound(d, d.foreign[l]) BY DEF EvidenceOK, BindingOK
    <3> QED BY <3>1 DEF Bound
  <2> QED BY <2>1, <2>2, <2>3 DEF EvidenceOK, BindingOK
<1> QED BY <1>4, <1>5, <1>6, <1>7 DEF EvidenceOK

\* As many recipients as targets: no recipient is named twice.
LEMMA DistinctRecipients ==
    ASSUME NEW m \in Messages, Cardinality({l[2] : l \in LegsOf(m)}) = Len(Targets[m])
    PROVE  \A l, k \in LegsOf(m) : l[2] = k[2] => l = k
<1> DEFINE n == Len(Targets[m])
           R == {l[2] : l \in LegsOf(m)}
           f == [i \in 1..n |-> Targets[m][i][1]]
<1>1. n \in Nat /\ DOMAIN Targets[m] = 1..n BY TargetsAssumption
<1>2. \A l \in LegsOf(m) : \E i \in 1..n :
         l = <<m, Targets[m][i][1], Targets[m][i][2]>>
  BY <1>1 DEF LegsOf
<1>3. \A i \in 1..n : <<m, Targets[m][i][1], Targets[m][i][2]>> \in LegsOf(m)
  BY <1>1 DEF LegsOf
<1>4. \A i \in 1..n : f[i] \in R
  <2> TAKE i \in 1..n
  <2>1. <<m, Targets[m][i][1], Targets[m][i][2]>>[2] = f[i] OBVIOUS
  <2> QED BY <1>3, <2>1
<1>5. \A r \in R : \E i \in 1..n : f[i] = r
  <2> TAKE r \in R
  <2>1. PICK l \in LegsOf(m) : r = l[2] OBVIOUS
  <2>2. PICK i \in 1..n : l = <<m, Targets[m][i][1], Targets[m][i][2]>> BY <1>2
  <2>3. f[i] = r BY <2>1, <2>2
  <2> QED BY <2>3
<1>6. f \in Surjection(1..n, R)
  <2>1. f \in [1..n -> R] BY <1>4
  <2> HIDE DEF f, R
  <2> QED BY <1>5, <2>1 DEF Surjection
<1>7. IsFiniteSet(1..n) /\ Cardinality(1..n) = n BY <1>1, FS_Interval
<1>8. f \in Injection(1..n, R)
  <2>1. Cardinality(R) = Cardinality(1..n) BY <1>7
  <2> HIDE DEF f, R, n
  <2> QED BY <1>6, <1>7, <2>1, FS_Surjection
<1>9. \A i, j \in 1..n : f[i] = f[j] => i = j
  <2> HIDE DEF f, R, n
  <2> QED BY <1>8 DEF Injection, IsInjective
<1> SUFFICES ASSUME NEW l \in LegsOf(m), NEW k \in LegsOf(m), l[2] = k[2] PROVE l = k
  OBVIOUS
<1>10. PICK i \in 1..n : l = <<m, Targets[m][i][1], Targets[m][i][2]>> BY <1>2
<1>11. PICK j \in 1..n : k = <<m, Targets[m][j][1], Targets[m][j][2]>> BY <1>2
<1>12. f[i] = f[j] BY <1>10, <1>11
<1> QED BY <1>9, <1>10, <1>11, <1>12

\* e is d with the legs of message m, all open.
Accepts(d, e, m) ==
    /\ m \in Messages \ d.messages
    /\ d.schema < 3 => Cardinality({l[2] : l \in LegsOf(m)}) = Len(Targets[m])
    /\ e.schema = d.schema /\ e.messages = d.messages \cup {m} /\ e.receipts = d.receipts
    /\ e.foreign = d.foreign /\ e.attempts = d.attempts /\ e.conflicts = d.conflicts
    /\ DOMAIN e.legs = DOMAIN d.legs \cup LegsOf(m)
    /\ \A l \in DOMAIN d.legs : e.legs[l] = d.legs[l]
    /\ \A l \in LegsOf(m) \ DOMAIN d.legs : e.legs[l].state = "accepted" /\ e.legs[l].receipt = None

\* No receipt of another message is about the legs of a new one.
LEMMA NewLegsAreFree ==
    ASSUME NEW d, NEW e, EvidenceOK(d), NEW m, Accepts(d, e, m)
    PROVE  /\ \A l \in LegsOf(m) : l[1] = m /\ l \notin DOMAIN d.legs
           /\ \A rc : rc.msg \in d.messages => Bound(e, rc) = Bound(d, rc)
<1>1. \A l \in LegsOf(m) : l[1] = m BY DEF LegsOf
<1>2. \A l \in DOMAIN d.legs : l[1] \in d.messages BY LegIsTriple DEF EvidenceOK
<1>3. \A l \in LegsOf(m) : l \notin DOMAIN d.legs BY <1>1, <1>2 DEF Accepts
<1>4. ASSUME NEW rc, rc.msg \in d.messages PROVE Bound(e, rc) = Bound(d, rc)
  <2>1. rc.msg # m BY <1>4 DEF Accepts
  <2>2. \A l \in DOMAIN e.legs : l[1] = rc.msg => l \in DOMAIN d.legs
    BY <1>1, <2>1 DEF Accepts
  <2>3. DOMAIN d.legs \subseteq DOMAIN e.legs /\ e.schema = d.schema BY DEF Accepts
  <2> QED BY <2>2, <2>3 DEF Bound
<1> QED BY <1>1, <1>3, <1>4

\* accept keeps the evidence whole.
LEMMA AcceptKeeps ==
    ASSUME NEW d, NEW e, EvidenceOK(d), NEW m, Accepts(d, e, m) PROVE EvidenceOK(e)
<1>1. /\ \A l \in LegsOf(m) : l[1] = m /\ l \notin DOMAIN d.legs
      /\ \A rc : rc.msg \in d.messages => Bound(e, rc) = Bound(d, rc)
  BY NewLegsAreFree
<1>2. \A l \in DOMAIN d.legs : l[1] # m BY LegIsTriple DEF EvidenceOK, Accepts
<1>3. ValidVector(e)
  <2>1. {l[1] : l \in DOMAIN e.legs} \subseteq e.messages
    BY <1>1, LegIsTriple DEF Accepts, EvidenceOK
  <2>2. {l \in DOMAIN e.legs : l[1] = m} = LegsOf(m) BY <1>1, <1>2 DEF Accepts
  <2>3. \A x \in d.messages : {l \in DOMAIN e.legs : l[1] = x} = {l \in DOMAIN d.legs : l[1] = x}
    BY <1>1 DEF Accepts
  <2>4. \A x \in d.messages : {l \in DOMAIN d.legs : l[1] = x} = LegsOf(x)
    BY DEF EvidenceOK, ValidVector
  <2> QED BY <2>1, <2>2, <2>3, <2>4 DEF ValidVector, Accepts
<1>4. ValidAttempts(e) BY DEF EvidenceOK, ValidAttempts, Accepts
<1>5. \A l \in DOMAIN d.receipts : l \in DOMAIN d.legs BY DEF EvidenceOK, BindingOK
<1>6. \A l \in DOMAIN d.foreign : l \in DOMAIN d.legs BY DEF EvidenceOK, BindingOK, Bound
<1>7. ValidProofs(e)
  <2> SUFFICES ASSUME NEW l \in DOMAIN e.legs
               PROVE  LET row == e.legs[l] IN
                      CASE l \in DOMAIN d.foreign ->
                             /\ l \notin DOMAIN d.receipts
                             /\ row.receipt = d.foreign[l].id
                             /\ row.state \in {"delivered", "quarantined"}
                        [] l \in DOMAIN d.receipts \ DOMAIN d.foreign ->
                             /\ row.receipt = d.receipts[l].id
                             /\ row.state \in {d.receipts[l].outcome, "quarantined"}
                        [] OTHER -> row.receipt = None /\ row.state \notin TerminalOutcomes
    BY DEF ValidProofs, Terminal, Accepts
  <2>1. CASE l \in DOMAIN d.legs
    <3>1. e.legs[l] = d.legs[l] BY <2>1 DEF Accepts
    <3> QED BY <2>1, <3>1 DEF EvidenceOK, ValidProofs, Terminal
  <2>2. CASE l \notin DOMAIN d.legs
    <3>1. l \notin DOMAIN d.foreign /\ l \notin DOMAIN d.receipts BY <1>5, <1>6, <2>2
    <3>2. e.legs[l].state = "accepted" /\ e.legs[l].receipt = None BY <2>2 DEF Accepts
    <3>3. "accepted" \notin TerminalOutcomes BY DEF TerminalOutcomes
    <3> QED BY <3>1, <3>2, <3>3
  <2> QED BY <2>1, <2>2
<1>8. ValidConflicts(e)
  <2> SUFFICES ASSUME NEW c \in d.conflicts
               PROVE  /\ e.legs[c.leg].state = "quarantined"
                      /\ \A x \in c.receipts : \A k \in Bound(e, x) : e.legs[k].state = "quarantined"
                      /\ \A a \in c.attempts :
                             a \in DOMAIN d.attempts /\ e.legs[a.leg].state = "quarantined"
    BY DEF ValidConflicts, Accepts
  <2>1. c.leg \in DOMAIN d.legs /\ d.legs[c.leg].state = "quarantined"
    BY DEF EvidenceOK, ValidConflicts, BindingOK
  <2>2. \A x \in c.receipts : Bound(e, x) = Bound(d, x) BY <1>1 DEF EvidenceOK, BindingOK
  <2>3. \A x \in c.receipts : \A k \in Bound(d, x) :
           k \in DOMAIN d.legs /\ d.legs[k].state = "quarantined"
    BY DEF EvidenceOK, ValidConflicts, Bound
  <2>4. \A a \in c.attempts : /\ a \in DOMAIN d.attempts /\ d.legs[a.leg].state = "quarantined"
                              /\ a.leg \in DOMAIN d.legs
    BY DEF EvidenceOK, ValidConflicts, BindingOK
  <2>5. \A k \in DOMAIN d.legs : e.legs[k] = d.legs[k] BY DEF Accepts
  <2> QED BY <2>1, <2>2, <2>3, <2>4, <2>5
<1>9. BindingOK(e)
  <2>1. e.schema \in 1..3 BY DEF EvidenceOK, BindingOK, Accepts
  <2>2. \A l \in DOMAIN e.legs :
           e.legs[l].state \in {"accepted", "quarantined"} \cup TerminalOutcomes
    BY DEF EvidenceOK, BindingOK, Accepts
  <2>3. ASSUME e.schema < 3, NEW l \in DOMAIN e.legs, NEW k \in DOMAIN e.legs,
               l[1] = k[1], l[2] = k[2]
        PROVE  l = k
    <3>1. CASE l \in DOMAIN d.legs
      <4>1. k \in DOMAIN d.legs BY <1>1, <1>2, <2>3, <3>1 DEF Accepts
      <4> QED BY <2>3, <3>1, <4>1 DEF EvidenceOK, BindingOK, Accepts
    <3>2. CASE l \in LegsOf(m)
      <4>1. k \in LegsOf(m) BY <1>1, <1>2, <2>3, <3>2 DEF Accepts
      <4>2. Cardinality({x[2] : x \in LegsOf(m)}) = Len(Targets[m]) /\ m \in Messages
        BY <2>3 DEF Accepts
      <4> QED BY <2>3, <3>2, <4>1, <4>2, DistinctRecipients
    <3> QED BY <3>1, <3>2 DEF Accepts
  <2>4. ASSUME NEW l \in DOMAIN d.receipts
        PROVE  /\ l \in DOMAIN e.legs /\ ~d.receipts[l].foreign
               /\ d.receipts[l].msg \in e.messages /\ Bound(e, d.receipts[l]) \subseteq {l}
    <3>1. /\ l \in DOMAIN d.legs /\ ~d.receipts[l].foreign
          /\ d.receipts[l].msg \in d.messages /\ Bound(d, d.receipts[l]) \subseteq {l}
      BY DEF EvidenceOK, BindingOK
    <3> QED BY <1>1, <3>1 DEF Accepts
  <2>5. ASSUME NEW l \in DOMAIN d.foreign
        PROVE  d.foreign[l].foreign /\ d.foreign[l].msg \in e.messages /\ l \in Bound(e, d.foreign[l])
    <3>1. d.foreign[l].foreign /\ d.foreign[l].msg \in d.messages /\ l \in Bound(d, d.foreign[l])
      BY DEF EvidenceOK, BindingOK
    <3> QED BY <1>1, <3>1 DEF Accepts
  <2>6. \A c \in e.conflicts :
           /\ c.leg \in DOMAIN e.legs /\ \A a \in c.attempts : a.leg \in DOMAIN e.legs
           /\ \A rc \in c.receipts : rc.msg \in e.messages
    BY DEF EvidenceOK, BindingOK, Accepts
  <2>7. e.receipts = d.receipts /\ e.foreign = d.foreign BY DEF Accepts
  <2> QED BY <2>1, <2>2, <2>3, <2>4, <2>5, <2>6, <2>7 DEF BindingOK
<1> QED BY <1>3, <1>4, <1>7, <1>8, <1>9 DEF EvidenceOK

-----------------------------------------------------------------------------
(* What a dispatch works on, and the evidence it writes. *)

AttemptOf(c) ==
    [leg |-> c.leg, delivery |-> c.env.id, route |-> Head(c.todo), deadline |-> c.deadline]

\* A call is about a leg there is and, once recorded, about its attempt.
Carries(d, c) ==
    /\ c.pc # "idle" => c.leg \in DOMAIN d.legs
    /\ c.pc \in {"delivery", "send", "await"} => AttemptOf(c) \in DOMAIN d.attempts

CarriedOK ==
    /\ \A t \in Threads : Carries(db, call[t])
    /\ \A x \in DOMAIN db.deliveries :
          /\ db.deliveries[x].attempt \in DOMAIN db.attempts
          /\ db.deliveries[x].attempt.leg \in DOMAIN db.legs

\* Whatever a recipient answers is a number of the inbox, or a refusal.
AnswersAreSent ==
    \A i \in DOMAIN wire : wire[i].state = "handled" => wire[i].response \in Answers

\* What the dispatch of t makes of its call and of the tables it rests on.
CarriesOn(t) ==
    /\ EvidenceOK(db')
    /\ DOMAIN db.attempts \subseteq DOMAIN db'.attempts
    /\ \/ call' = [u \in Threads |-> Idle]
       \/ \E c : call' = [call EXCEPT ![t] = c] /\ Carries(db', c)
    /\ \A x \in DOMAIN db'.deliveries :
          \/ x \in DOMAIN db.deliveries /\ db'.deliveries[x] = db.deliveries[x]
          \/ /\ db'.deliveries[x].attempt \in DOMAIN db.attempts
             /\ db'.deliveries[x].attempt.leg \in DOMAIN db.legs

\* An idle call rests on nothing.
LEMMA IdleCarries == \A d : Carries(d, Idle)
BY DEF Carries, Idle

\* An attempt is open exactly while it has no answer.
LEMMA AttemptKeeps ==
    ASSUME BoundsOK, EvidenceOK(db), NEW a, NEW s, NEW k, s = "accepted" <=> k = None,
           db' = db \/ Writes({"attempts", "egress"}),
           db' # db => db'.attempts = Put(db.attempts, a, [state |-> s, ack |-> k])
    PROVE  EvidenceOK(db') /\ DOMAIN db.attempts \subseteq DOMAIN db'.attempts
<1> DEFINE new == [state |-> s, ack |-> k]
<1>1. new.state = "accepted" <=> new.ack = None OBVIOUS
<1> HIDE DEF new
<1>2. CASE db' = db BY <1>2
<1>3. CASE Writes({"attempts", "egress"}) /\ db'.attempts = Put(db.attempts, a, new)
  <2>1. DOMAIN db.attempts \subseteq DOMAIN db'.attempts BY <1>3 DEF Put
  <2>2. ASSUME NEW b \in DOMAIN db'.attempts
        PROVE  db'.attempts[b].state = "accepted" <=> db'.attempts[b].ack = None
    <3>1. db'.attempts[b] = new \/ (b \in DOMAIN db.attempts /\ db'.attempts[b] = db.attempts[b])
      BY <1>3 DEF Put
    <3>2. b \in DOMAIN db.attempts =>
             (db.attempts[b].state = "accepted" <=> db.attempts[b].ack = None)
      BY DEF EvidenceOK, ValidAttempts
    <3> QED BY <1>1, <3>1, <3>2
  <2>3. ValidAttempts(db') BY <2>2 DEF ValidAttempts
  <2>4. /\ db'.messages = db.messages /\ db'.legs = db.legs /\ db'.receipts = db.receipts
        /\ db'.foreign = db.foreign /\ db'.conflicts = db.conflicts /\ db'.schema = db.schema
    BY <1>3 DEF Writes, Fields
  <2>5. db'.schema \in 1..3 /\ db.schema <= db'.schema BY <2>4 DEF EvidenceOK, BindingOK
  <2> QED BY <2>1, <2>3, <2>4, <2>5, EvidenceKept
<1> QED BY <1>2, <1>3 DEF new

\* record_attempt: the leg is there, and the attempt is before anything is sent.
LEMMA AttemptCarries ==
    ASSUME BoundsOK, CallOK, EvidenceOK(db), CarriedOK, NEW t \in Threads, RecordAttempt(t)
    PROVE  CarriesOn(t)
<1> DEFINE c == [call[t] EXCEPT !.pc = "delivery"]
           new == [state |-> "accepted", ack |-> None]
           request == Prepared(Attempt(t), call[t].env, now)
           next == [db EXCEPT !.attempts = Put(@, Attempt(t), new),
                              !.egress = Put(@, Attempt(t), request)]
<1>1. DOMAIN call[t] = CallFields /\ call[t].pc = "attempt"
  BY DEF CallOK, RecordAttempt, At
<1>2. /\ c.pc = "delivery" /\ c.leg = call[t].leg /\ c.env = call[t].env
      /\ c.todo = call[t].todo /\ c.deadline = call[t].deadline
  BY <1>1 DEF CallFields
<1>3. AttemptOf(c) = Attempt(t) BY <1>2 DEF AttemptOf, Attempt
<1>4. call[t].leg \in DOMAIN db.legs BY <1>1 DEF CarriedOK, Carries
<1>5. \/ Mutate(next) /\ Onwards(t, c)
      \/ /\ db' = db
         /\ \/ Attempt(t) \in DOMAIN db.attempts /\ call' = [call EXCEPT ![t] = c]
            \/ call' = [call EXCEPT ![t] = Idle]
  BY DEF RecordAttempt, Then, cvars, store, Fail, SameEgress
<1> HIDE DEF c, request
<1>6. CASE Mutate(next) /\ Onwards(t, c)
  <2> DEFINE done == db' = [next EXCEPT !.counter = @ + 1]
  <2>1. (done /\ crashes' = crashes) \/ ((done \/ db' = db) /\ crashes' = crashes + 1)
    <3> HIDE DEF next
    <3> QED BY <1>6, CommitOrNot DEF CallOK
  <2>2. done => /\ Writes({"attempts", "egress"}) /\ db'.attempts = Put(db.attempts, Attempt(t), new)
                /\ db'.legs = db.legs /\ db'.deliveries = db.deliveries
    BY DEF BoundsOK, Fields, Writes
  <2> HIDE DEF done
  <2>3. EvidenceOK(db') /\ DOMAIN db.attempts \subseteq DOMAIN db'.attempts
    BY <2>1, <2>2, AttemptKeeps
  <2>4. done => Carries(db', c) BY <1>2, <1>3, <1>4, <2>2 DEF Carries, Put
  <2>5. crashes \in Nat BY DEF CallOK
  <2>6. \/ call' = [u \in Threads |-> Idle]
        \/ \E x : call' = [call EXCEPT ![t] = x] /\ Carries(db', x)
    BY <1>6, <2>1, <2>4, <2>5 DEF Onwards
  <2>7. db'.deliveries = db.deliveries BY <2>1, <2>2
  <2> QED BY <2>3, <2>6, <2>7 DEF CarriesOn
<1>7. CASE /\ db' = db
           /\ \/ Attempt(t) \in DOMAIN db.attempts /\ call' = [call EXCEPT ![t] = c]
              \/ call' = [call EXCEPT ![t] = Idle]
  <2>1. Attempt(t) \in DOMAIN db.attempts => Carries(db', c)
    BY <1>2, <1>3, <1>4, <1>7 DEF Carries
  <2> QED BY <1>7, <2>1, IdleCarries DEF CarriesOn
<1> QED BY <1>5, <1>6, <1>7

\* What record_delivery makes of a delivery of attempt b that comes with a.
Contradicted(a, b) ==
    LET next == Quarantined(db, {a.leg}, {}, {a, b})
    IN  [next EXCEPT !.legs[b.leg].state = "quarantined"]

\* record_delivery: both legs of a delivery that conflicts are quarantined.
LEMMA ConflictKeeps ==
    ASSUME BoundsOK, EvidenceOK(db), NEW a \in DOMAIN db.attempts, a.leg \in DOMAIN db.legs,
           NEW b \in DOMAIN db.attempts, b.leg \in DOMAIN db.legs,
           NEW e, e = [Contradicted(a, b) EXCEPT !.counter = @ + 1]
    PROVE  EvidenceOK(e) /\ e.attempts = db.attempts /\ e.deliveries = db.deliveries
<1> DEFINE next == Quarantined(db, {a.leg}, {}, {a, b})
<1>0. e = [[next EXCEPT !.legs[b.leg].state = "quarantined"] EXCEPT !.counter = @ + 1]
  BY DEF Contradicted
<1> DEFINE struck(S) ==
             [k \in DOMAIN db.legs |->
                IF k \in S THEN [db.legs[k] EXCEPT !.state = "quarantined"] ELSE db.legs[k]]
           S == {a.leg, b.leg}
           conflict == [leg |-> a.leg, receipts |-> {}, attempts |-> {a, b}]
<1>1. /\ DOMAIN next = Fields
      /\ next.legs = struck({a.leg}) /\ next.conflicts = db.conflicts \cup {conflict}
      /\ \A f \in Fields \ {"legs", "conflicts"} : next[f] = db[f]
  <2>1. {[leg |-> l, receipts |-> {}, attempts |-> {a, b}] : l \in {a.leg}} = {conflict} OBVIOUS
  <2> HIDE DEF conflict
  <2> QED BY <2>1 DEF Quarantined, BoundsOK, Fields
<1> HIDE DEF next
<1>2. /\ DOMAIN e.legs = DOMAIN next.legs
      /\ e.legs[b.leg] = [next.legs[b.leg] EXCEPT !.state = "quarantined"]
      /\ \A k \in DOMAIN next.legs : k # b.leg => e.legs[k] = next.legs[k]
      /\ e.legs = [k \in DOMAIN next.legs |-> e.legs[k]]
  <2>1. e.legs = [next.legs EXCEPT ![b.leg] = [next.legs[b.leg] EXCEPT !.state = "quarantined"]]
    BY <1>0, <1>1 DEF Fields
  <2>2. b.leg \in DOMAIN next.legs BY <1>1
  <2> QED BY <2>1, <2>2
<1>3. \A f \in Fields \ {"legs", "counter"} : e[f] = next[f] BY <1>0, <1>1 DEF Fields
<1>4. \A l \in DOMAIN db.legs : DOMAIN db.legs[l] = LegColumns BY DEF BoundsOK
<1>5. \A k \in DOMAIN db.legs : e.legs[k] = struck(S)[k]
  <2>1. \A r : [[r EXCEPT !.state = "quarantined"] EXCEPT !.state = "quarantined"]
               = [r EXCEPT !.state = "quarantined"]
    OBVIOUS
  <2>2. \A k \in DOMAIN db.legs : next.legs[k] =
           IF k = a.leg THEN [db.legs[k] EXCEPT !.state = "quarantined"] ELSE db.legs[k]
    BY <1>1
  <2>3. e.legs[b.leg] = [db.legs[b.leg] EXCEPT !.state = "quarantined"]
    <3>1. CASE a.leg = b.leg
      <4>1. next.legs[b.leg] = [db.legs[b.leg] EXCEPT !.state = "quarantined"] BY <2>2, <3>1
      <4> QED BY <1>2, <2>1, <4>1
    <3>2. CASE a.leg # b.leg
      <4>1. next.legs[b.leg] = db.legs[b.leg] BY <2>2, <3>2
      <4> QED BY <1>2, <4>1
    <3> QED BY <3>1, <3>2
  <2>4. \A k \in DOMAIN db.legs : k # b.leg => e.legs[k] =
           IF k = a.leg THEN [db.legs[k] EXCEPT !.state = "quarantined"] ELSE db.legs[k]
    BY <1>1, <1>2, <2>2
  <2>5. \A k \in DOMAIN db.legs : k \in S <=> k = a.leg \/ k = b.leg OBVIOUS
  <2> HIDE DEF S
  <2> QED BY <2>3, <2>4, <2>5
<1>6. e.legs = struck(S)
  <2>1. DOMAIN next.legs = DOMAIN db.legs BY <1>1
  <2> HIDE DEF S
  <2> QED BY <1>2, <1>5, <2>1
<1>7. /\ e.schema = db.schema /\ e.messages = db.messages /\ e.receipts = db.receipts
      /\ e.foreign = db.foreign /\ e.attempts = db.attempts /\ e.deliveries = db.deliveries
      /\ e.conflicts = db.conflicts \cup {[leg |-> l, receipts |-> {}, attempts |-> {a, b}] :
                                               l \in {a.leg}}
  <2>1. {[leg |-> l, receipts |-> {}, attempts |-> {a, b}] : l \in {a.leg}} = {conflict} OBVIOUS
  <2> HIDE DEF conflict
  <2> QED BY <1>1, <1>3, <2>1 DEF Fields
<1>8. Strikes(db, e, {a.leg}, S, {}, {a, b})
  <2>1. {a.leg} \subseteq S /\ S \subseteq DOMAIN db.legs OBVIOUS
  <2>2. \A y \in {a, b} : y \in DOMAIN db.attempts /\ y.leg \in S OBVIOUS
  <2> HIDE DEF S
  <2> QED BY <1>4, <1>6, <1>7, <2>1, <2>2 DEF Strikes
<1> HIDE DEF S
<1> QED BY <1>7, <1>8, StrikeKeeps

\* record_delivery stores the attempt it came with, or quarantines both legs.
LEMMA DeliveryCarries ==
    ASSUME BoundsOK, CallOK, EvidenceOK(db), CarriedOK, NEW t \in Threads, RecordDelivery(t)
    PROVE  CarriesOn(t)
<1> DEFINE a == Attempt(t)
           env == call[t].env
           was == db.deliveries[env.id]
           row == [attempt |-> a, bytes |-> env.bytes]
           put == [db EXCEPT !.deliveries = Put(@, env.id, row)]
           next == Quarantined(db, {a.leg}, {}, {a, was.attempt})
           both == [next EXCEPT !.legs[was.attempt.leg].state = "quarantined"]
           c == [call[t] EXCEPT !.pc = "send"]
<1>1. DOMAIN call[t] = CallFields /\ call[t].pc = "delivery"
  BY DEF CallOK, RecordDelivery, At
<1>2. /\ c.pc = "send" /\ c.leg = call[t].leg /\ c.env = call[t].env
      /\ c.todo = call[t].todo /\ c.deadline = call[t].deadline
  BY <1>1 DEF CallFields
<1>3. AttemptOf(c) = a /\ AttemptOf(call[t]) = a /\ a.leg = call[t].leg
  BY <1>2 DEF AttemptOf, Attempt
<1>4. a.leg \in DOMAIN db.legs /\ a \in DOMAIN db.attempts
  BY <1>1, <1>3 DEF CarriedOK, Carries
<1>5. \/ env.id \notin DOMAIN db.deliveries /\ Mutate(put) /\ Onwards(t, c)
      \/ call' = [call EXCEPT ![t] = c] /\ db' = db
      \/ env.id \in DOMAIN db.deliveries /\ Mutate(both) /\ Onwards(t, Idle)
      \/ call' = [call EXCEPT ![t] = Idle] /\ db' = db
  BY DEF RecordDelivery, Then, cvars, store, Fail
<1>6. crashes \in Nat BY DEF CallOK
<1>7. row.attempt = a OBVIOUS
<1> HIDE DEF c, a, row, env
<1>8. db' = db => /\ EvidenceOK(db') /\ DOMAIN db.attempts \subseteq DOMAIN db'.attempts
                  /\ db'.deliveries = db.deliveries
  OBVIOUS
<1>9. CASE env.id \notin DOMAIN db.deliveries /\ Mutate(put) /\ Onwards(t, c)
  <2> DEFINE done == db' = [put EXCEPT !.counter = @ + 1]
  <2>1. (done /\ crashes' = crashes) \/ ((done \/ db' = db) /\ crashes' = crashes + 1)
    <3> HIDE DEF put
    <3> QED BY <1>9, CommitOrNot, <1>6
  <2>2. done => /\ db'.deliveries = Put(db.deliveries, env.id, row)
                /\ db'.attempts = db.attempts /\ db'.legs = db.legs
                /\ db'.messages = db.messages /\ db'.receipts = db.receipts
                /\ db'.foreign = db.foreign /\ db'.conflicts = db.conflicts
                /\ db'.schema = db.schema
    BY DEF BoundsOK, Fields
  <2> HIDE DEF done
  <2>3. ASSUME done
        PROVE  EvidenceOK(db') /\ DOMAIN db.attempts \subseteq DOMAIN db'.attempts /\ Carries(db', c)
    <3>1. db'.schema \in 1..3 /\ db.schema <= db'.schema BY <2>2, <2>3 DEF EvidenceOK, BindingOK
    <3>2. ValidAttempts(db') BY <2>2, <2>3 DEF EvidenceOK, ValidAttempts
    <3>3. EvidenceOK(db') BY <2>2, <2>3, <3>1, <3>2, EvidenceKept
    <3>4. Carries(db', c) BY <1>2, <1>3, <1>4, <2>2, <2>3 DEF Carries
    <3> QED BY <2>2, <2>3, <3>3, <3>4
  <2>4. \/ call' = [u \in Threads |-> Idle]
        \/ \E x : call' = [call EXCEPT ![t] = x] /\ Carries(db', x)
    BY <1>6, <1>9, <2>1, <2>3 DEF Onwards
  <2>5. \A x \in DOMAIN db'.deliveries :
           \/ x \in DOMAIN db.deliveries /\ db'.deliveries[x] = db.deliveries[x]
           \/ db'.deliveries[x] = row
    BY <1>8, <2>1, <2>2 DEF Put
  <2> QED BY <1>4, <1>7, <1>8, <2>1, <2>3, <2>4, <2>5 DEF CarriesOn
<1>10. CASE call' = [call EXCEPT ![t] = c] /\ db' = db
  <2>1. Carries(db', c) BY <1>2, <1>3, <1>4, <1>10 DEF Carries
  <2> QED BY <1>8, <1>10, <2>1 DEF CarriesOn
<1>11. CASE env.id \in DOMAIN db.deliveries /\ Mutate(both) /\ Onwards(t, Idle)
  <2>1. db' = db \/ db' = [both EXCEPT !.counter = @ + 1]
    <3> HIDE DEF both
    <3> QED BY <1>11, CommitOrNot, <1>6
  <2>2. was.attempt \in DOMAIN db.attempts /\ was.attempt.leg \in DOMAIN db.legs
    BY <1>11 DEF CarriedOK
  <2> HIDE DEF was
  <2>3. db' # db => EvidenceOK(db') /\ db'.attempts = db.attempts /\ db'.deliveries = db.deliveries
    <3>1. both = Contradicted(a, was.attempt) BY DEF Contradicted
    <3> HIDE DEF both
    <3> QED BY <1>4, <2>1, <2>2, <3>1, ConflictKeeps
  <2>4. \/ call' = [u \in Threads |-> Idle]
        \/ \E x : call' = [call EXCEPT ![t] = x] /\ Carries(db', x)
    BY <1>11, IdleCarries DEF Onwards
  <2> QED BY <1>8, <2>3, <2>4 DEF CarriesOn
<1>12. CASE call' = [call EXCEPT ![t] = Idle] /\ db' = db
  BY <1>8, <1>12, IdleCarries DEF CarriesOn
<1> QED BY <1>5, <1>9, <1>10, <1>11, <1>12

\* record_route_ack answers an open attempt.
LEMMA AckKeeps ==
    ASSUME BoundsOK, crashes \in Nat, EvidenceOK(db), NEW a, NEW s, NEW k,
           s \in {"route-acked", "route-failed"}, k # None, RouteAck(a, s, k)
    PROVE  /\ EvidenceOK(db') /\ DOMAIN db.attempts \subseteq DOMAIN db'.attempts
           /\ db'.deliveries = db.deliveries /\ db'.legs = db.legs
<1> DEFINE new == [state |-> s, ack |-> k]
           next == [db EXCEPT !.attempts = Put(@, a, new)]
<1>1. db' = db \/ db' = [next EXCEPT !.counter = @ + 1]
  <2>1. Mutate(next) \/ UNCHANGED cvars BY DEF RouteAck
  <2>2. UNCHANGED cvars => db' = db BY DEF cvars, store
  <2> HIDE DEF next
  <2> QED BY <2>1, <2>2, CommitOrNot
<1> HIDE DEF new
<1>2. db' = [next EXCEPT !.counter = @ + 1] =>
         /\ Writes({"attempts", "egress"}) /\ db'.attempts = Put(db.attempts, a, new)
         /\ db'.deliveries = db.deliveries /\ db'.legs = db.legs
  BY DEF BoundsOK, Fields, Writes
<1>3. db' = db \/ Writes({"attempts", "egress"}) BY <1>1, <1>2
<1>4. db' # db => db'.attempts = Put(db.attempts, a, [state |-> s, ack |-> k])
  BY <1>1, <1>2 DEF new
<1> HIDE DEF next
<1>5. s = "accepted" <=> k = None OBVIOUS
<1>6. EvidenceOK(db') /\ DOMAIN db.attempts \subseteq DOMAIN db'.attempts
  BY <1>3, <1>4, <1>5, AttemptKeeps
<1> QED BY <1>1, <1>2, <1>6

\* A call goes on to the next route with the leg it has.
LEMMA AfterCarries ==
    ASSUME CallOK, NEW t \in Threads, call[t].pc # "idle", NEW d, call[t].leg \in DOMAIN d.legs
    PROVE  Carries(d, After(t))
<1> DEFINE c == [call[t] EXCEPT !.pc = "attempt", !.todo = Tail(@), !.conn = 0]
<1>1. DOMAIN call[t] = CallFields BY DEF CallOK
<1>2. c.pc = "attempt" /\ c.leg = call[t].leg BY <1>1 DEF CallFields
<1> HIDE DEF c
<1>3. Carries(d, c) BY <1>2 DEF Carries
<1> QED BY <1>3, IdleCarries DEF After, c

\* The other steps of a dispatch.
LEMMA AnswerCarries ==
    ASSUME BoundsOK, CallOK, EvidenceOK(db), CarriedOK, AnswersAreSent, NEW t \in Threads,
           SendUnavailable(t) \/ Receive(t)
    PROVE  CarriesOn(t)
<1>1. crashes \in Nat BY DEF CallOK
<1>2. None # "unavailable" /\ None \notin Answers BY AnswerAssumption
<1>3. call[t].pc # "idle" /\ call[t].leg \in DOMAIN db.legs
  <2>1. call[t].pc \in {"send", "await"} BY DEF SendUnavailable, Receive, At
  <2> QED BY <2>1 DEF CarriedOK, Carries
<1>4. PICK s, k, c :
         /\ s \in {"route-acked", "route-failed"} /\ k # None /\ RouteAck(Attempt(t), s, k)
         /\ c \in {Idle, After(t)} /\ (Onwards(t, c) \/ Fail(t))
  <2>1. CASE SendUnavailable(t)
    <3>1. RouteAck(Attempt(t), "route-failed", "unavailable") /\ (Fail(t) \/ Onwards(t, After(t)))
      BY <2>1 DEF SendUnavailable
    <3> QED BY <1>2, <3>1
  <2>2. CASE Receive(t)
    <3> DEFINE rs == wire[call[t].conn].response
               s == IF rs.status = "accepted" THEN "route-acked" ELSE "route-failed"
    <3>1. RouteAck(Attempt(t), s, rs) /\ Onwards(t, Idle) BY <2>2 DEF Receive
    <3>2. s \in {"route-acked", "route-failed"} OBVIOUS
    <3>3. call[t].conn \in DOMAIN wire /\ wire[call[t].conn].state = "handled"
      BY <2>2 DEF Receive, At, CallOK
    <3>4. rs # None BY <1>2, <3>3 DEF AnswersAreSent
    <3> HIDE DEF rs, s
    <3> QED BY <3>1, <3>2, <3>4
  <2> QED BY <2>1, <2>2
<1>5. /\ EvidenceOK(db') /\ DOMAIN db.attempts \subseteq DOMAIN db'.attempts
      /\ db'.deliveries = db.deliveries /\ db'.legs = db.legs
  BY <1>1, <1>4, AckKeeps
<1>6. Carries(db', c) /\ Carries(db', Idle) BY <1>3, <1>4, <1>5, AfterCarries, IdleCarries
<1>7. \/ call' = [u \in Threads |-> Idle]
      \/ \E x : call' = [call EXCEPT ![t] = x] /\ Carries(db', x)
  BY <1>4, <1>6 DEF Onwards, Fail
<1> QED BY <1>5, <1>7 DEF CarriesOn

\* A dispatch keeps the evidence whole and what it rests on.
LEMMA CarryCarries ==
    ASSUME BoundsOK, CallOK, EvidenceOK(db), CarriedOK, AnswersAreSent,
           NEW t \in Threads, CarryStep(t)
    PROVE  CarriesOn(t)
<1>1. ASSUME db' = db, NEW c, call' = [call EXCEPT ![t] = c], Carries(db, c) PROVE CarriesOn(t)
  BY <1>1 DEF CarriesOn
<1>2. ASSUME NEW l \in DOMAIN db.legs, NEW e, NEW d, Dispatch(t, l, e, d) PROVE CarriesOn(t)
  <2> DEFINE c == [pc |-> "attempt", leg |-> l, env |-> e, deadline |-> d,
                   todo |-> bounds.routes, conn |-> 0]
  <2>1. call' = [call EXCEPT ![t] = c] /\ db' = db BY <1>2 DEF Dispatch, cvars, store
  <2>2. Carries(db, c) BY DEF Carries
  <2> QED BY <1>1, <2>1, <2>2
<1>3. ASSUME Send(t) PROVE CarriesOn(t)
  <2> DEFINE c == [call[t] EXCEPT !.pc = "await", !.conn = Len(wire) + 1]
  <2>1. call[t].pc = "send" /\ call' = [call EXCEPT ![t] = c] /\ db' = db
    BY <1>3 DEF Send, At, cvars, store
  <2>2. DOMAIN call[t] = CallFields BY DEF CallOK
  <2>3. /\ c.pc = "await" /\ c.leg = call[t].leg /\ c.env = call[t].env
        /\ c.todo = call[t].todo /\ c.deadline = call[t].deadline
    BY <2>2 DEF CallFields
  <2> HIDE DEF c
  <2>4. Carries(db, c) BY <2>1, <2>3 DEF CarriedOK, Carries, AttemptOf
  <2> QED BY <1>1, <2>1, <2>4
<1>4. ASSUME SendRefused(t) PROVE CarriesOn(t)
  <2>1. call' = [call EXCEPT ![t] = Idle] /\ db' = db BY <1>4 DEF SendRefused, Fail, cvars, store
  <2> QED BY <1>1, <2>1, IdleCarries
<1>5. ASSUME GiveUp(t) PROVE CarriesOn(t)
  <2>1. call[t].pc = "await" /\ call' = [call EXCEPT ![t] = After(t)] /\ db' = db
    BY <1>5 DEF GiveUp, At, cvars, store
  <2>2. call[t].leg \in DOMAIN db.legs BY <2>1 DEF CarriedOK, Carries
  <2>3. Carries(db, After(t)) BY <2>1, <2>2, AfterCarries
  <2> QED BY <1>1, <2>1, <2>3
<1> QED BY <1>2, <1>3, <1>4, <1>5, AttemptCarries, DeliveryCarries, AnswerCarries
     DEF CarryStep, DispatchStep

\* accept adds the open legs of a message that has none.
LEMMA AcceptsIs ==
    ASSUME BoundsOK, NEW m \in Messages, Accept(m), db' # db PROVE Accepts(db, db', m)
<1> DEFINE legs == [i \in DOMAIN Targets[m] |-> <<m, Targets[m][i][1], Targets[m][i][2]>>]
           seqs == [l \in LegsOf(m) |->
                       db.highwater + (CHOOSE i \in DOMAIN legs : legs[i] = l)]
           next == [db EXCEPT
             !.messages = @ \cup {m},
             !.highwater = @ + Len(legs),
             !.legs = [l \in DOMAIN @ \cup LegsOf(m) |->
                          IF l \in DOMAIN @ THEN @[l]
                          ELSE [seq |-> seqs[l], state |-> "accepted", receipt |-> None]],
             !.queue = @ \cup {seqs[l] : l \in LegsOf(m)}]
<1>1. /\ m \notin db.messages
      /\ db.schema < 3 => Cardinality({l[2] : l \in LegsOf(m)}) = Len(Targets[m])
      /\ db' = [next EXCEPT !.counter = @ + 1]
  BY DEF Accept, Mutate, Commit
<1> HIDE DEF legs, seqs
<1>2. /\ db'.schema = db.schema /\ db'.messages = db.messages \cup {m}
      /\ db'.receipts = db.receipts /\ db'.foreign = db.foreign /\ db'.attempts = db.attempts
      /\ db'.conflicts = db.conflicts
      /\ db'.legs = [l \in DOMAIN db.legs \cup LegsOf(m) |->
                        IF l \in DOMAIN db.legs THEN db.legs[l]
                        ELSE [seq |-> seqs[l], state |-> "accepted", receipt |-> None]]
  BY <1>1 DEF BoundsOK, Fields
<1> HIDE DEF next
<1>3. /\ DOMAIN db'.legs = DOMAIN db.legs \cup LegsOf(m)
      /\ \A l \in DOMAIN db.legs : db'.legs[l] = db.legs[l]
      /\ \A l \in LegsOf(m) \ DOMAIN db.legs :
            db'.legs[l].state = "accepted" /\ db'.legs[l].receipt = None
  BY <1>2
<1> QED BY <1>1, <1>2, <1>3 DEF Accepts

\* A step that writes none of the evidence but the schema keeps it whole.
LEMMA OthersKeep ==
    ASSUME BoundsOK, EvidenceOK(db), db' = db \/ Writes({"schema", "highwater", "queue",
              "deliveries", "cursors", "pages", "batches", "claims", "consumers", "compactions"}),
           db'.schema \in 1..3, db.schema <= db'.schema
    PROVE  EvidenceOK(db')
<1>1. CASE db' = db BY <1>1
<1>2. CASE db' # db
  <2>1. /\ db'.messages = db.messages /\ db'.legs = db.legs /\ db'.receipts = db.receipts
        /\ db'.foreign = db.foreign /\ db'.conflicts = db.conflicts /\ db'.attempts = db.attempts
    BY <1>2 DEF Writes, Fields
  <2>2. ValidAttempts(db') BY <2>1 DEF EvidenceOK, ValidAttempts
  <2> QED BY <2>1, <2>2, EvidenceKept
<1> QED BY <1>1, <1>2

\* A receipt keeps the evidence whole, whether it is committed or not.
LEMMA ReceiptKeeps ==
    ASSUME BoundsOK, EvidenceOK(db), NEW rc \in Receipts, RecordReceipt(rc)
    PROVE  EvidenceOK(db')
<1>1. PICK l \in Bound(db, rc) :
         db' = db \/ db' = [Judge(db, l, rc) EXCEPT !.counter = @ + 1]
  BY DEF RecordReceipt, Commit
<1> DEFINE next == Judge(db, l, rc)
<1>2. EvidenceOK(next) BY JudgeKeeps
<1>3. DOMAIN next = Fields
  <2>1. \A S, R, A : DOMAIN Quarantined(db, S, R, A) = Fields
    BY DEF Quarantined, BoundsOK, Fields
  <2>2. DOMAIN Ended(db, l, rc) = Fields BY DEF Ended, BoundsOK, Fields
  <2>3. \/ next = db \/ next = Ended(db, l, rc) \/ \E S, R, A : next = Quarantined(db, S, R, A)
    BY JudgeIs
  <2> HIDE DEF next
  <2> QED BY <2>1, <2>2, <2>3 DEF BoundsOK
<1> HIDE DEF next
<1>4. CASE db' = [next EXCEPT !.counter = @ + 1]
  <2>1. /\ db'.messages = next.messages /\ db'.legs = next.legs /\ db'.receipts = next.receipts
        /\ db'.foreign = next.foreign /\ db'.conflicts = next.conflicts
        /\ db'.attempts = next.attempts /\ db'.schema = next.schema
    BY <1>3, <1>4 DEF Fields
  <2>2. ValidAttempts(db') BY <1>2, <2>1 DEF EvidenceOK, ValidAttempts
  <2>3. db'.schema \in 1..3 /\ next.schema <= db'.schema BY <1>2, <2>1 DEF EvidenceOK, BindingOK
  <2> QED BY <1>2, <2>1, <2>2, <2>3, EvidenceKept
<1> QED BY <1>1, <1>4 DEF next

\* The evidence stays whole, the attempts are kept, and a call goes on with what it rests on.
LEMMA EvidenceStep ==
    ASSUME BoundsOK, CallOK, EvidenceOK(db), CarriedOK, AnswersAreSent, [Next]_vars
    PROVE  EvidenceOK(db')
<1>1. plan.messages \subseteq Messages /\ plan.receipts \subseteq Receipts
  BY BoundsAssumption DEF BoundsOK, Plan
<1>2. db.schema \in 1..3 BY DEF EvidenceOK, BindingOK
<1>3. ASSUME NEW F \in SUBSET {"highwater", "queue", "deliveries", "cursors", "pages", "batches",
                               "claims", "consumers", "compactions"},
             db' = db \/ Writes(F)
      PROVE  EvidenceOK(db')
  <2>1. db' = db \/ Writes({"schema", "highwater", "queue", "deliveries", "cursors", "pages",
                            "batches", "claims", "consumers", "compactions"})
    BY <1>3 DEF Writes
  <2>2. db'.schema = db.schema BY <1>3 DEF Writes, Fields
  <2> QED BY <1>2, <2>1, <2>2, OthersKeep
<1>4. CASE StoreStep
  <2>1. ASSUME NEW m \in plan.messages, Accept(m) PROVE EvidenceOK(db')
    <3>1. m \in Messages BY <1>1
    <3>2. db' # db => Accepts(db, db', m) BY <2>1, <3>1, AcceptsIs
    <3> QED BY <3>2, AcceptKeeps
  <2>2. ASSUME NEW rc \in plan.receipts, RecordReceipt(rc) PROVE EvidenceOK(db')
    BY <1>1, <2>2, ReceiptKeeps
  <2>3. ASSUME UpgradeReceiptsV2 \/ UpgradeLegsV3 PROVE EvidenceOK(db')
    <3>1. Writes({"schema", "compactions"}) BY <2>3, OtherStoreMoves
    <3>2. db'.schema \in 1..3 /\ db.schema <= db'.schema
      <4>1. UpgradeReceiptsV2 => db.schema = 1 /\ db'.schema = 2
        BY DEF UpgradeReceiptsV2, BoundsOK, Fields
      <4>2. UpgradeLegsV3 => db.schema = 2 /\ db' = [db EXCEPT !.schema = 3]
        BY DEF UpgradeLegsV3
      <4>3. UpgradeLegsV3 => db.schema = 2 /\ db'.schema = 3 BY <4>2 DEF BoundsOK, Fields
      <4> QED BY <2>3, <4>1, <4>3
    <3>3. Writes({"schema", "highwater", "queue", "deliveries", "cursors", "pages",
                  "batches", "claims", "consumers", "compactions"})
      BY <3>1 DEF Writes
    <3> QED BY <3>2, <3>3, OthersKeep
  <2>4. ASSUME NEW r, NEW c, NEW q, NEW token, NEW n, Page(r, c, q, token, n) PROVE EvidenceOK(db')
    BY <1>3, <2>4, OtherStoreMoves
  <2>5. ASSUME NEW r, NEW c, NEW s, Advance(r, c, s) PROVE EvidenceOK(db')
    BY <1>3, <2>5, OtherStoreMoves
  <2>6. ASSUME NEW r, NEW c, NEW k, NEW n, NEW until, NEW t, Claim(r, c, k, n, until, t)
        PROVE  EvidenceOK(db')
    BY <1>3, <2>6, OtherStoreMoves
  <2>7. ASSUME NEW r, NEW s, Compact(r, s) PROVE EvidenceOK(db')
    BY <1>3, <2>7, OtherStoreMoves
  <2>8. CASE Tick \/ Recover \/ (\E m : LearnMessage(m)) \/ (\E rc : LearnReceipt(rc))
    BY <1>3, <2>8, OtherStoreMoves
  <2> QED BY <1>4, <2>1, <2>2, <2>3, <2>4, <2>5, <2>6, <2>7, <2>8 DEF StoreStep, CNext
<1>5. CASE \E t \in Threads : CarryStep(t) BY <1>5, CarryCarries DEF CarriesOn
<1>6. CASE db' = db BY <1>6
<1> QED BY <1>4, <1>5, <1>6, StepKinds, InboxWritesNothing

\* What a dispatch works on stays there.
LEMMA CarriedStep ==
    ASSUME BoundsOK, CallOK, EvidenceOK(db), CarriedOK, AnswersAreSent, [Next]_vars
    PROVE  CarriedOK'
<1>1. \A l \in DOMAIN db.legs : l \in DOMAIN db'.legs BY BoundsStep DEF LegsMove
<1>2. ASSUME DOMAIN db.attempts \subseteq DOMAIN db'.attempts, NEW c, Carries(db, c)
      PROVE  Carries(db', c)
  BY <1>1, <1>2 DEF Carries
<1>3. CASE \E t \in Threads : CarryStep(t)
  <2>1. PICK t \in Threads : CarriesOn(t) BY <1>3, CarryCarries
  <2>2. DOMAIN db.attempts \subseteq DOMAIN db'.attempts BY <2>1 DEF CarriesOn
  <2>3. \A u \in Threads : Carries(db', call[u]) BY <1>2, <2>2 DEF CarriedOK
  <2>4. DOMAIN call = Threads BY DEF CallOK
  <2>5. \A u \in Threads : Carries(db', call'[u])
    <3>1. CASE call' = [u \in Threads |-> Idle] BY <3>1, IdleCarries
    <3>2. CASE \E c : call' = [call EXCEPT ![t] = c] /\ Carries(db', c)
      BY <2>3, <2>4, <3>2
    <3> QED BY <2>1, <3>1, <3>2 DEF CarriesOn
  <2>6. \A x \in DOMAIN db'.deliveries :
           /\ db'.deliveries[x].attempt \in DOMAIN db.attempts
           /\ db'.deliveries[x].attempt.leg \in DOMAIN db.legs
    BY <2>1 DEF CarriesOn, CarriedOK
  <2> QED BY <1>1, <2>2, <2>5, <2>6 DEF CarriedOK
<1>4. CASE Carried' = Carried /\ (call' = call \/ call' = [t \in Threads |-> Idle])
  <2>1. db'.attempts = db.attempts /\ db'.deliveries = db.deliveries BY <1>4 DEF Carried
  <2>2. \A u \in Threads : Carries(db', call[u]) BY <1>2, <2>1 DEF CarriedOK
  <2>3. \A u \in Threads : Carries(db', call'[u]) BY <1>4, <2>2, IdleCarries
  <2> QED BY <1>1, <2>1, <2>3 DEF CarriedOK
<1>5. CASE StoreStep
  <2>1. call' = call \/ call' = [t \in Threads |-> Idle] BY <1>5 DEF StoreStep
  <2> QED BY <1>4, <1>5, <2>1, StoreWriters
<1>6. db' = db => Carried' = Carried BY DEF Carried
<1> QED BY <1>3, <1>4, <1>5, <1>6, StepKinds, InboxWritesNothing

\* An answer on its way is one the recipient gave.
LEMMA AnswersSentStep ==
    ASSUME BoundsOK, RecipientInv, WireOK, TakenOK, CallOK, AnswersAreSent, [Next]_vars
    PROVE  AnswersAreSent'
<1>1. ASSUME wire' = wire PROVE AnswersAreSent' BY <1>1 DEF AnswersAreSent
<1>2. ASSUME NEW i \in DOMAIN wire, NEW st, NEW rs,
             \/ wire' = Settled(i, st, rs) /\ rs \in Answers
             \/ wire' = Marked(i, st) /\ st # "handled"
      PROVE  AnswersAreSent'
  <2>1. \/ wire' = Settled(i, st, rs)
        \/ wire' = Marked(i, st)
    BY <1>2
  <2>2. /\ DOMAIN wire' = DOMAIN wire /\ wire'[i].state = st
        /\ wire' = Settled(i, st, rs) => wire'[i].response = rs
        /\ \A j \in DOMAIN wire : j # i => wire'[j] = wire[j]
    BY <2>1, WireChange
  <2>3. wire'[i].state = "handled" => wire'[i].response \in Answers BY <1>2, <2>2
  <2> QED BY <2>2, <2>3 DEF AnswersAreSent
<1>3. CASE \E i \in DOMAIN wire : Exchange(i)
  <2>1. PICK i \in DOMAIN wire : Exchange(i) BY <1>3
  <2>2. CASE Ingest(i)
    <3> DEFINE row == IF RowAt(Place(i)) # None THEN RowAt(Place(i))
                      ELSE [bytes |-> wire[i].env.bytes, seq |-> nextSeq[Place(i)[1]], at |-> now,
                            state |-> "pending", consumer |-> None, until |-> 0]
    <3>1. wire' = Settled(i, "handled", Accepted(Place(i), row))
      BY <2>2 DEF Ingest, Handled, Settled
    <3>2. row.seq \in Nat /\ row.at \in Nat
      <4>1. Place(i)[1] \in Hosts BY DEF Place, Hosts, WireOK
      <4>2. nextSeq[Place(i)[1]] \in Nat /\ now \in Nat
        BY <4>1 DEF RecipientInv, RecipientOK, BoundsOK
      <4>3. RowAt(Place(i)) # None => RowAt(Place(i)) \in InboxRow
        BY RowAtStanding DEF RecipientInv
      <4> QED BY <4>2, <4>3 DEF InboxRow
    <3> HIDE DEF row
    <3>3. Accepted(Place(i), row) \in Answers BY <3>2 DEF Accepted, Answers
    <3> QED BY <1>2, <3>1, <3>3
  <2>3. CASE Refuse(i)
    <3>1. \/ wire' = Marked(i, "lost")
          \/ wire' = Settled(i, "handled", RefusedAnswer)
      BY <2>3 DEF Refuse, Handled, Settled, Marked
    <3>2. RefusedAnswer \in Answers BY DEF RefusedAnswer, Answers
    <3> QED BY <1>2, <3>1, <3>2
  <2>4. CASE Reject(i)
    <3>1. wire' = Marked(i, "lost") BY <2>4 DEF Reject, Marked
    <3> QED BY <1>2, <3>1
  <2> QED BY <2>1, <2>2, <2>3, <2>4 DEF Exchange
<1>4. ASSUME NEW t \in Threads, Receive(t) PROVE AnswersAreSent'
  <2>1. wire' = Marked(call[t].conn, "received") BY <1>4 DEF Receive, Marked
  <2>2. call[t].conn \in DOMAIN wire BY <1>4 DEF CallOK, Receive, At
  <2> QED BY <1>2, <2>1, <2>2
<1>5. ASSUME NEW new, wire' = Append(wire, new), new.state # "handled" PROVE AnswersAreSent'
  <2>1. PICK n \in Nat :
           /\ DOMAIN wire = 1..n /\ Len(wire) = n
           /\ DOMAIN wire' = 1..(n + 1) /\ wire'[n + 1] = new
           /\ \A j \in 1..n : wire'[j] = wire[j]
           /\ wire' = [j \in 1..(n + 1) |-> wire'[j]]
    BY <1>5, WireGrows
  <2>2. \A j \in DOMAIN wire' : j = n + 1 \/ j \in DOMAIN wire BY <2>1
  <2> QED BY <1>5, <2>1, <2>2 DEF AnswersAreSent
<1>9. ASSUME NEW t \in Threads, Send(t) PROVE AnswersAreSent'
  <2> DEFINE new == [request |-> db.egress[Attempt(t)], to |-> Attempt(t).route,
                     env |-> call[t].env, state |-> "sent", response |-> None]
  <2>1. wire' = Append(wire, new) /\ new.state # "handled" BY <1>9 DEF Send
  <2> HIDE DEF new
  <2> QED BY <1>5, <2>1
<1>10. CASE Forwarded
  <2>1. PICK k, p, r, d, e : Forward(k, p, e, r, d) BY <1>10 DEF Forwarded
  <2> DEFINE new == [request |-> Prepared([leg |-> None, delivery |-> e.id, route |-> r,
                                           deadline |-> d], e, now),
                     to |-> r, env |-> e, state |-> "sent", response |-> None]
  <2>2. wire' = Append(wire, new) /\ new.state # "handled" BY <2>1 DEF Forward
  <2> HIDE DEF new
  <2> QED BY <1>5, <2>2
<1>6. ASSUME NEW t \in Threads, CarryStep(t), ~Send(t), ~Receive(t) PROVE wire' = wire
  BY <1>6 DEF CarryStep, Dispatch, DispatchStep, RecordAttempt, RecordDelivery,
     SendUnavailable, SendRefused, GiveUp
<1>7. /\ \A h, c, until, n : InboxClaim(h, c, until, n) => wire' = wire
      /\ \A c, d : InboxAck(c, d) => wire' = wire
      /\ \A h, s : InboxCompact(h, s) => wire' = wire
  BY DEF InboxClaim, InboxAck, InboxCompact
<1>8. UNCHANGED vars => wire' = wire BY DEF vars, rvars
<1> QED BY <1>1, <1>3, <1>4, <1>6, <1>7, <1>8, <1>9, <1>10, SenderLeavesRecipient, StepKinds

-----------------------------------------------------------------------------
(* Consumers, the queue and what pages and claims have answered. *)

\* A consumer is at a place of the queue; what is compacted was read by one.
ReadersOK ==
    /\ db.messages \subseteq Messages
    /\ \A k \in DOMAIN db.consumers : db.consumers[k] \in Nat
    /\ \A r \in DOMAIN db.compactions :
          /\ db.compactions[r] \in Nat
          /\ \E k \in DOMAIN db.consumers : k[1] = r /\ db.consumers[k] >= db.compactions[r]

QueueOK == db.schema >= 2 => ValidConsumers(db) /\ ValidQueue(db)

\* No message is forgotten, and no consumer goes back.
ReadersMove ==
    /\ db.messages \subseteq db'.messages
    /\ \A k \in DOMAIN db.consumers :
          k \in DOMAIN db'.consumers /\ db.consumers[k] <= db'.consumers[k]

\* Messages, receipts, consumers and compactions are written by their own operations.
LEMMA TableWriters ==
    ASSUME BoundsOK, [Next]_vars
    PROVE  /\ db'.messages = db.messages \/ \E m \in Messages : Accept(m) /\ db' # db
           /\ \/ db'.receipts = db.receipts /\ db'.foreign = db.foreign
              \/ \E rc \in Receipts : RecordReceipt(rc) /\ db' # db
           /\ \/ db'.consumers = db.consumers
              \/ \E r, c : \E s \in 1..db.highwater : Advance(r, c, s) /\ db' # db
           /\ \/ db'.compactions = db.compactions
              \/ \E r : \E s \in 1..db.highwater : Compact(r, s) /\ db' # db
              \/ UpgradeReceiptsV2
<1>1. plan.messages \subseteq Messages /\ plan.receipts \subseteq Receipts
  BY BoundsAssumption DEF BoundsOK, Plan
<1>2. ASSUME NEW F \in SUBSET Fields, db' = db \/ Writes(F)
      PROVE  \A f \in Fields \ (F \cup {"counter"}) : db'[f] = db[f]
  BY <1>2 DEF Writes
<1>3. CASE StoreStep
  <2>1. ASSUME NEW m \in plan.messages, Accept(m)
        PROVE  /\ \E x \in Messages : Accept(x)
               /\ db'.receipts = db.receipts /\ db'.foreign = db.foreign
               /\ db'.consumers = db.consumers /\ db'.compactions = db.compactions
    <3>1. m \in Messages BY <1>1
    <3>2. db' = db \/ Writes({"messages", "highwater", "legs", "queue"})
      BY <2>1, <3>1, AcceptMoves
    <3> QED BY <2>1, <3>1, <3>2 DEF Writes, Fields
  <2>2. ASSUME NEW rc \in plan.receipts, RecordReceipt(rc)
        PROVE  /\ \E x \in Receipts : RecordReceipt(x)
               /\ db'.messages = db.messages
               /\ db'.consumers = db.consumers /\ db'.compactions = db.compactions
    <3>1. rc \in Receipts BY <1>1
    <3>2. db' = db \/ Writes({"legs", "receipts", "foreign", "conflicts"})
      BY <2>2, <3>1, ReceiptMoves
    <3> QED BY <2>2, <3>1, <3>2 DEF Writes, Fields
  <2>3. ASSUME UpgradeReceiptsV2 \/ UpgradeLegsV3
        PROVE  /\ db'.messages = db.messages /\ db'.receipts = db.receipts
               /\ db'.foreign = db.foreign /\ db'.consumers = db.consumers
               /\ UpgradeLegsV3 => db'.compactions = db.compactions
    <3>1. Writes({"schema", "compactions"}) BY <2>3, OtherStoreMoves
    <3>2. UpgradeLegsV3 => db' = [db EXCEPT !.schema = 3] BY DEF UpgradeLegsV3
    <3>3. UpgradeLegsV3 => db'.compactions = db.compactions BY <3>2 DEF BoundsOK, Fields
    <3> QED BY <3>1, <3>3 DEF Writes, Fields
  <2>4. ASSUME NEW r, NEW c, NEW q, NEW token, NEW n, Page(r, c, q, token, n)
        PROVE  /\ db'.messages = db.messages /\ db'.receipts = db.receipts
               /\ db'.foreign = db.foreign /\ db'.consumers = db.consumers
               /\ db'.compactions = db.compactions
    <3>1. db' = db \/ Writes({"cursors", "pages"}) BY <2>4, OtherStoreMoves
    <3> QED BY <3>1 DEF Writes, Fields
  <2>5. ASSUME NEW r, NEW c, NEW s, Advance(r, c, s)
        PROVE  /\ db'.messages = db.messages /\ db'.receipts = db.receipts
               /\ db'.foreign = db.foreign /\ db'.compactions = db.compactions
    <3>1. db' = db \/ Writes({"consumers"}) BY <2>5, OtherStoreMoves
    <3> QED BY <3>1 DEF Writes, Fields
  <2>6. ASSUME NEW r, NEW c, NEW k, NEW n, NEW until, NEW t, Claim(r, c, k, n, until, t)
        PROVE  /\ db'.messages = db.messages /\ db'.receipts = db.receipts
               /\ db'.foreign = db.foreign /\ db'.consumers = db.consumers
               /\ db'.compactions = db.compactions
    <3>1. db' = db \/ Writes({"batches", "claims"}) BY <2>6, OtherStoreMoves
    <3> QED BY <3>1 DEF Writes, Fields
  <2>7. ASSUME NEW r, NEW s, Compact(r, s)
        PROVE  /\ db'.messages = db.messages /\ db'.receipts = db.receipts
               /\ db'.foreign = db.foreign /\ db'.consumers = db.consumers
    <3>1. db' = db \/ Writes({"queue", "claims", "compactions"}) BY <2>7, OtherStoreMoves
    <3> QED BY <3>1 DEF Writes, Fields
  <2>8. CASE Tick \/ Recover \/ (\E m : LearnMessage(m)) \/ (\E rc : LearnReceipt(rc))
    <3>1. db' = db BY <2>8, OtherStoreMoves
    <3> QED BY <3>1
  <2>9. CASE \E m \in plan.messages : Accept(m) BY <2>1, <2>9
  <2>10. CASE \E rc \in plan.receipts : RecordReceipt(rc) BY <2>2, <2>10
  <2>11. CASE UpgradeReceiptsV2 \/ UpgradeLegsV3 BY <2>3, <2>11
  <2>12. CASE \E r \in Recipients, c \in plan.consumers, s \in 1..db.highwater : Advance(r, c, s)
    BY <2>5, <2>12
  <2>13. CASE \E r \in Recipients, s \in 1..db.highwater : Compact(r, s) BY <2>7, <2>13
  <2>14. CASE \E r, c, q, token, n : Page(r, c, q, token, n) BY <2>4, <2>14
  <2>15. CASE \E r, c, k, n, until, t : Claim(r, c, k, n, until, t) BY <2>6, <2>15
  <2> QED BY <1>3, <2>8, <2>9, <2>10, <2>11, <2>12, <2>13, <2>14, <2>15 DEF StoreStep, CNext
<1>4. CASE \E t \in Threads : CarryStep(t)
  <2>1. db' = db \/ Writes({"attempts", "egress"}) \/ Writes({"deliveries", "legs", "conflicts"})
        \/ Writes({"attempts"})
    BY <1>4, RouteMoves DEF CarryStep, DispatchStep
  <2> QED BY <2>1 DEF Writes, Fields
<1>5. CASE db' = db BY <1>5
<1> QED BY <1>3, <1>4, <1>5, StepKinds, InboxWritesNothing

\* Consumers only advance, to a place of the queue.
LEMMA ConsumersStep ==
    ASSUME BoundsOK, ReadersOK, [Next]_vars
    PROVE  ReadersMove /\ \A k \in DOMAIN db'.consumers : db'.consumers[k] \in Nat
<1>1. db'.messages = db.messages \/ \E m \in Messages : Accept(m) /\ db' # db
  BY TableWriters
<1>2. db.messages \subseteq db'.messages
  <2>1. ASSUME NEW m \in Messages, Accept(m), db' # db PROVE db.messages \subseteq db'.messages
    BY <2>1, AcceptsIs DEF Accepts
  <2> QED BY <1>1, <2>1
<1>3. CASE db'.consumers = db.consumers BY <1>2, <1>3 DEF ReadersOK, ReadersMove
<1>4. ASSUME NEW r, NEW c, NEW s \in 1..db.highwater, Advance(r, c, s), db' # db
      PROVE  ReadersMove /\ \A k \in DOMAIN db'.consumers : db'.consumers[k] \in Nat
  <2> DEFINE next == [db EXCEPT !.consumers = Put(@, <<r, c>>, s)]
  <2>1. /\ <<r, c>> \in DOMAIN db.consumers => db.consumers[<<r, c>>] < s
        /\ db' = [next EXCEPT !.counter = @ + 1]
    BY <1>4 DEF Advance, Mutate, Commit
  <2>2. db'.consumers = Put(db.consumers, <<r, c>>, s) BY <2>1 DEF BoundsOK, Fields
  <2>3. s \in Nat BY DEF BoundsOK
  <2>4. \A k \in DOMAIN db.consumers :
           k \in DOMAIN db'.consumers /\ db.consumers[k] <= db'.consumers[k]
    BY <2>1, <2>2, <2>3 DEF Put, ReadersOK
  <2>5. \A k \in DOMAIN db'.consumers : db'.consumers[k] \in Nat
    BY <2>2, <2>3 DEF Put, ReadersOK
  <2> QED BY <1>2, <2>4, <2>5 DEF ReadersMove
<1> QED BY <1>3, <1>4, TableWriters

\* What was missing before schema 2, and what its upgrade makes of it.
Gone(r) == {db.legs[l].seq : l \in {l \in RowsOf(db, r) : ~Queued(db, l)}}

\* The last missing place is one, and no other is beyond it.
LEMMA LegacyIs ==
    ASSUME BoundsOK
    PROVE  /\ DOMAIN LegacyCompactions = {r \in Recipients : Gone(r) # {}}
           /\ \A r \in DOMAIN LegacyCompactions :
                 /\ LegacyCompactions[r] \in 1..db.highwater
                 /\ \A s \in Gone(r) : s <= LegacyCompactions[r]
<1>1. LegacyCompactions = [r \in {r \in Recipients : Gone(r) # {}} |-> Last(Gone(r))]
  BY DEF LegacyCompactions, Gone
<1>2. ASSUME NEW r, Gone(r) # {}
      PROVE  Last(Gone(r)) \in 1..db.highwater /\ \A s \in Gone(r) : s <= Last(Gone(r))
  <2>1. Gone(r) \in SUBSET (1..db.highwater) /\ db.highwater \in Nat
    BY DEF Gone, RowsOf, BoundsOK
  <2>2. Last(Gone(r)) \in Gone(r) /\ \A s \in Gone(r) : s <= Last(Gone(r))
    BY <1>2, <2>1, LastIsGreatest
  <2> QED BY <2>1, <2>2
<1> QED BY <1>1, <1>2

\* compact and the upgrade keep back what a consumer has still to read.
LEMMA ReadersStep ==
    ASSUME BoundsOK, ReadersOK, [Next]_vars
    PROVE  ReadersOK'
<1>1. ReadersMove /\ \A k \in DOMAIN db'.consumers : db'.consumers[k] \in Nat BY ConsumersStep
<1>2. db'.messages \subseteq Messages
  <2>1. ASSUME NEW m \in Messages, Accept(m), db' # db PROVE db'.messages \subseteq Messages
    <3>1. Accepts(db, db', m) BY <2>1, AcceptsIs
    <3>2. db'.messages = db.messages \cup {m} BY <3>1 DEF Accepts
    <3> QED BY <3>2 DEF ReadersOK
  <2> QED BY <2>1, TableWriters DEF ReadersOK
<1>3. ASSUME NEW r, NEW n \in Nat,
             \E k \in DOMAIN db.consumers : k[1] = r /\ db.consumers[k] >= n
      PROVE  \E k \in DOMAIN db'.consumers : k[1] = r /\ db'.consumers[k] >= n
  <2>1. PICK k \in DOMAIN db.consumers : k[1] = r /\ db.consumers[k] >= n BY <1>3
  <2>2. /\ k \in DOMAIN db'.consumers /\ db.consumers[k] <= db'.consumers[k]
        /\ db.consumers[k] \in Nat /\ db'.consumers[k] \in Nat
    BY <1>1 DEF ReadersMove, ReadersOK
  <2> QED BY <2>1, <2>2
<1>4. ASSUME NEW r \in DOMAIN db'.compactions
      PROVE  /\ db'.compactions[r] \in Nat
             /\ \E k \in DOMAIN db.consumers : k[1] = r /\ db.consumers[k] >= db'.compactions[r]
  <2>1. CASE db'.compactions = db.compactions BY <2>1 DEF ReadersOK
  <2>2. ASSUME NEW x, NEW s \in 1..db.highwater, Compact(x, s), db' # db
        PROVE  /\ db'.compactions[r] \in Nat
               /\ \E k \in DOMAIN db.consumers : k[1] = r /\ db.consumers[k] >= db'.compactions[r]
    <3> DEFINE taken == IF LastTaken(db, x) > s THEN LastTaken(db, x) ELSE s
               gone == {db.legs[l].seq : l \in Prefix(db, x, s)}
               comp == IF db.schema = 1 THEN db.compactions ELSE Put(db.compactions, x, taken)
               next == [db EXCEPT !.queue = @ \ gone, !.claims = Without(@, gone),
                                  !.compactions = comp]
    <3>1. /\ {k \in DOMAIN db.consumers : k[1] = x} # {}
          /\ \A k \in {k \in DOMAIN db.consumers : k[1] = x} : db.consumers[k] >= s
          /\ db' = [next EXCEPT !.counter = @ + 1]
      BY <2>2 DEF Compact, Mutate, Commit
    <3> HIDE DEF comp, gone
    <3>2. db'.compactions = comp BY <3>1 DEF BoundsOK, Fields
    <3> HIDE DEF next
    <3>3. \/ r \in DOMAIN db.compactions /\ comp[r] = db.compactions[r]
          \/ r = x /\ comp[r] = taken
      BY <3>2 DEF comp, Put
    <3>4. s \in Nat /\ s > 0 BY DEF BoundsOK
    <3>5. /\ taken \in Nat
          /\ \E k \in DOMAIN db.consumers : k[1] = x /\ db.consumers[k] >= taken
      <4>1. CASE LastTaken(db, x) > s
        <5>1. x \in DOMAIN db.compactions /\ LastTaken(db, x) = db.compactions[x]
          BY <3>4, <4>1 DEF LastTaken
        <5> QED BY <4>1, <5>1 DEF ReadersOK
      <4>2. CASE ~(LastTaken(db, x) > s) BY <3>1, <3>4, <4>2
      <4> QED BY <4>1, <4>2
    <3> HIDE DEF taken
    <3> QED BY <3>2, <3>3, <3>5 DEF ReadersOK
  <2>3. CASE UpgradeReceiptsV2
    <3>1. /\ \A x \in DOMAIN LegacyCompactions : LegacyCompacted(x, LegacyCompactions[x])
          /\ db' = [db EXCEPT !.schema = 2, !.compactions = LegacyCompactions]
      BY <2>3 DEF UpgradeReceiptsV2
    <3>2. db'.compactions = LegacyCompactions BY <3>1 DEF BoundsOK, Fields
    <3>3. /\ \E k \in DOMAIN db.consumers : k[1] = r
          /\ \A k \in DOMAIN db.consumers : k[1] = r => db.consumers[k] >= LegacyCompactions[r]
      BY <3>1, <3>2 DEF LegacyCompacted
    <3>4. LegacyCompactions[r] \in Nat BY <3>2, LegacyIs DEF BoundsOK
    <3> QED BY <3>2, <3>3, <3>4
  <2> QED BY <2>1, <2>2, <2>3, TableWriters
<1>5. \A r \in DOMAIN db'.compactions :
         /\ db'.compactions[r] \in Nat
         /\ \E k \in DOMAIN db'.consumers : k[1] = r /\ db'.consumers[k] >= db'.compactions[r]
  BY <1>3, <1>4
<1> QED BY <1>1, <1>2, <1>5 DEF ReadersOK

\* Tables that differ in what verification does not read verify alike.
LEMMA ValidAlike ==
    ASSUME NEW d, NEW e, Valid(d), e.schema = d.schema, e.messages = d.messages,
           e.legs = d.legs, e.receipts = d.receipts, e.foreign = d.foreign,
           e.attempts = d.attempts, e.conflicts = d.conflicts, e.consumers = d.consumers,
           e.compactions = d.compactions, e.queue = d.queue, e.highwater = d.highwater
    PROVE  Valid(e)
<1>1. ValidVector(d) => ValidVector(e) BY DEF ValidVector
<1>2. ValidProofs(d) => ValidProofs(e) BY DEF ValidProofs, Terminal
<1>3. ValidAttempts(d) => ValidAttempts(e) BY DEF ValidAttempts
<1>4. ValidConsumers(d) => ValidConsumers(e)
  BY DEF ValidConsumers, Consumable, Prefix, RowsOf, Terminal
<1>5. ValidQueue(d) => ValidQueue(e)
  BY DEF ValidQueue, Prefix, RowsOf, Terminal, Queued, LastTaken
<1>6. \A rc : Bound(e, rc) = Bound(d, rc) BY DEF Bound
<1>7. ValidConflicts(d) => ValidConflicts(e) BY <1>6 DEF ValidConflicts
<1> QED BY <1>1, <1>2, <1>3, <1>4, <1>5, <1>7 DEF Valid

\* What a commit leaves has been verified.
LEMMA CommitsVerify ==
    ASSUME BoundsOK, Commits(Data), db' # db PROVE Valid(db') /\ db'.schema = db.schema
<1>1. PICK next : /\ DOMAIN next = Fields /\ \A f \in Fields \ Data : next[f] = db[f]
                  /\ Commit(next)
  BY DEF Commits
<1>2. Valid(next) /\ db' = [next EXCEPT !.counter = @ + 1] BY <1>1 DEF Commit, Verifies
<1>3. /\ db'.schema = next.schema /\ db'.messages = next.messages /\ db'.legs = next.legs
      /\ db'.receipts = next.receipts /\ db'.foreign = next.foreign
      /\ db'.attempts = next.attempts /\ db'.conflicts = next.conflicts
      /\ db'.consumers = next.consumers /\ db'.compactions = next.compactions
      /\ db'.queue = next.queue /\ db'.highwater = next.highwater
  BY <1>1, <1>2 DEF Fields
<1>4. next.schema = db.schema BY <1>1 DEF Fields, Data
<1> HIDE DEF Data
<1> QED BY <1>2, <1>3, <1>4, ValidAlike

\* The upgrade to schema 2 takes over consumers and a queue that verify.
LEMMA UpgradeKeepsQueue ==
    ASSUME BoundsOK, EvidenceOK(db), db.messages \subseteq Messages, UpgradeReceiptsV2
    PROVE  ValidConsumers(db') /\ ValidQueue(db')
<1>1. /\ ValidConsumers(db)
      /\ \A r \in DOMAIN LegacyCompactions : LegacyCompacted(r, LegacyCompactions[r])
      /\ db' = [db EXCEPT !.schema = 2, !.compactions = LegacyCompactions]
  BY DEF UpgradeReceiptsV2
<1>2. /\ db'.legs = db.legs /\ db'.queue = db.queue /\ db'.highwater = db.highwater
      /\ db'.consumers = db.consumers /\ db'.compactions = LegacyCompactions
  BY <1>1 DEF BoundsOK, Fields
<1>3. ValidConsumers(db')
  BY <1>1, <1>2 DEF ValidConsumers, Consumable, Prefix, RowsOf, Terminal
<1>4. ASSUME NEW r \in DOMAIN LegacyCompactions
      PROVE  /\ LegacyCompactions[r] <= db.highwater
             /\ \A l \in Prefix(db, r, LegacyCompactions[r]) : Terminal(db, l) /\ ~Queued(db, l)
  BY <1>1, LegacyIs DEF LegacyCompacted, BoundsOK
<1>5. ASSUME NEW l \in DOMAIN db.legs, ~Queued(db, l)
      PROVE  /\ l[2] \in DOMAIN LegacyCompactions
             /\ Terminal(db, l) /\ db.legs[l].seq <= LegacyCompactions[l[2]]
  <2>1. l \in RowsOf(db, l[2]) BY DEF RowsOf
  <2>2. db.legs[l].seq \in Gone(l[2]) BY <1>5, <2>1 DEF Gone
  <2>3. l[2] \in Recipients
    <3>1. l[1] \in Messages /\ l \in LegsOf(l[1]) BY LegIsTriple DEF EvidenceOK
    <3> QED BY <3>1 DEF Recipients, Legs
  <2>4. l[2] \in DOMAIN LegacyCompactions /\ db.legs[l].seq <= LegacyCompactions[l[2]]
    BY <2>2, <2>3, LegacyIs
  <2>5. l \in Prefix(db, l[2], LegacyCompactions[l[2]]) BY <2>1, <2>4 DEF Prefix
  <2> QED BY <1>4, <2>4, <2>5
<1>6. ValidQueue(db')
  <2>1. \A r \in DOMAIN db'.compactions :
           /\ db'.compactions[r] <= db'.highwater
           /\ \A l \in Prefix(db', r, db'.compactions[r]) : Terminal(db', l) /\ ~Queued(db', l)
    BY <1>2, <1>4 DEF Prefix, RowsOf, Terminal, Queued
  <2>2. \A l \in DOMAIN db'.legs :
           Queued(db', l) \/ (Terminal(db', l) /\ db'.legs[l].seq <= LastTaken(db', l[2]))
    BY <1>2, <1>5 DEF Terminal, Queued, LastTaken
  <2> QED BY <2>1, <2>2 DEF ValidQueue
<1> QED BY <1>3, <1>6

\* From schema 2 on consumers and the queue verify, whatever commits or upgrades.
LEMMA QueueStep ==
    ASSUME BoundsOK, EvidenceOK(db), db.messages \subseteq Messages, QueueOK, [Next]_vars
    PROVE  QueueOK'
<1>1. CASE db' = db
  BY <1>1 DEF QueueOK, ValidConsumers, ValidQueue, Consumable, Prefix, RowsOf, Terminal, Queued,
     LastTaken
<1>2. CASE Commits(Data) /\ db' # db
  <2>1. Valid(db') BY <1>2, CommitsVerify
  <2> QED BY <2>1 DEF QueueOK, Valid
<1>3. CASE UpgradeReceiptsV2
  <2>1. ValidConsumers(db') /\ ValidQueue(db') BY <1>3, UpgradeKeepsQueue
  <2> QED BY <2>1 DEF QueueOK
<1>4. CASE UpgradeLegsV3
  <2>1. Valid(db') /\ db'.schema = 3
    <3>1. Valid([db EXCEPT !.schema = 3]) /\ db' = [db EXCEPT !.schema = 3]
      BY <1>4 DEF UpgradeLegsV3
    <3>2. db'.schema = 3 BY <3>1 DEF BoundsOK, Fields
    <3> QED BY <3>1, <3>2
  <2> QED BY <2>1 DEF QueueOK, Valid
<1>5. UNCHANGED files \/ Recover => db' = db BY DEF files, Recover
<1> QED BY <1>1, <1>2, <1>3, <1>4, <1>5, StepCommits

\* The answers of page and claim still hold, and a page knows its cursor.
HistoriesOK ==
    /\ ValidHistories(db)
    /\ \A k \in DOMAIN db.pages : db.pages[k].next \in DOMAIN db.cursors \cup {None}

\* What was answered about legs stays true of them.
LEMMA HistoriesStep ==
    ASSUME BoundsOK, PagesOK, HistoriesOK, [Next]_vars
    PROVE  HistoriesOK'
<1> DEFINE StaysGood(p) == ValidSnapshot(db', p) /\ p.next \in DOMAIN db'.cursors \cup {None}
           Seqs == {db.legs[l].seq : l \in DOMAIN db.legs}
           NewSeqs == {db'.legs[l].seq : l \in DOMAIN db'.legs}
<1>1. LegsMove BY BoundsStep
<1>2. \A r : SeqsOf(db, r) \subseteq SeqsOf(db', r) BY <1>1 DEF LegsMove, SeqsOf, RowsOf
<1>3. Seqs \subseteq NewSeqs BY <1>1 DEF LegsMove
<1> HIDE DEF Seqs, NewSeqs
<1>4. /\ Pages' = Pages \/ (PageTaken /\ db' # db)
      /\ Claims' = Claims \/ ((ClaimTaken \/ Compacted) /\ db' # db)
  <2>1. CASE StoreStep BY <2>1, StoreWriters
  <2>2. CASE \E t \in Threads : CarryStep(t) BY <2>2, CarryWriters
  <2>3. db' = db => Pages' = Pages /\ Claims' = Claims BY DEF Pages, Claims
  <2> QED BY <2>1, <2>2, <2>3, StepKinds, InboxWritesNothing
<1>5. ASSUME NEW p, ValidSnapshot(db, p), p.next \in DOMAIN db.cursors \cup {None},
             \A n \in DOMAIN db.cursors : n \in DOMAIN db'.cursors /\ db'.cursors[n] = db.cursors[n]
      PROVE  StaysGood(p)
  BY <1>2, <1>5 DEF ValidSnapshot
<1>6. \A k \in DOMAIN db.pages :
         ValidSnapshot(db, db.pages[k]) /\ db.pages[k].next \in DOMAIN db.cursors \cup {None}
  BY DEF HistoriesOK, ValidHistories
<1>7. ASSUME NEW k \in DOMAIN db'.pages PROVE StaysGood(db'.pages[k])
  <2>1. CASE Pages' = Pages BY <1>5, <1>6, <2>1 DEF Pages
  <2>2. ASSUME NEW r, NEW c, NEW q, NEW token, NEW limit, Page(r, c, q, token, limit), db' # db
        PROVE  StaysGood(db'.pages[k])
    <3> DEFINE from == PageFrom(token)
               rows == {s \in SeqsOf(db, r) \cap db.queue : from.last < s /\ s <= from.cutoff}
               items == First(rows, limit)
               next == Cardinality(DOMAIN db.cursors) + 1
               more == items # rows
               cursor == [rcpt |-> r, consumer |-> c, cutoff |-> from.cutoff, last |-> Last(items)]
               cursors == IF more THEN Put(db.cursors, next, cursor) ELSE db.cursors
               page == [rcpt |-> r, from |-> token, items |-> items,
                        cutoff |-> from.cutoff, next |-> IF more THEN next ELSE None]
    <3>1. db' = [[db EXCEPT !.cursors = cursors, !.pages = Put(@, <<c, q>>, page)]
                    EXCEPT !.counter = @ + 1]
      BY <2>2 DEF Page, Mutate, Commit
    <3>2. items \subseteq rows BY DEF First
    <3>3. items \subseteq SeqsOf(db, r) /\ \A s \in items : s <= from.cutoff BY <3>2
    <3> HIDE DEF items, from, more
    <3>4. next \notin DOMAIN db.cursors
      <4>1. PICK n \in Nat : DOMAIN db.cursors = 1..n BY DEF PagesOK
      <4>2. Cardinality(1..n) = n BY FS_Interval
      <4> QED BY <4>1, <4>2
    <3>5. /\ page.rcpt = r /\ page.items = items /\ page.cutoff = from.cutoff
          /\ page.next = IF more THEN next ELSE None
          /\ cursor.cutoff = from.cutoff /\ cursor.last = Last(items)
      OBVIOUS
    <3> HIDE DEF page, next, cursor
    <3>6. more => next \in DOMAIN cursors /\ cursors[next] = cursor BY DEF Put
    <3>7. \A n \in DOMAIN db.cursors : n \in DOMAIN cursors /\ cursors[n] = db.cursors[n]
      BY <3>4 DEF Put
    <3> HIDE DEF cursors
    <3>8. db'.cursors = cursors /\ db'.pages = Put(db.pages, <<c, q>>, page)
      BY <3>1 DEF BoundsOK, Fields
    <3>9. db'.pages[k] = page \/ (k \in DOMAIN db.pages /\ db'.pages[k] = db.pages[k])
      BY <3>8 DEF Put
    <3>10. CASE k \in DOMAIN db.pages /\ db'.pages[k] = db.pages[k]
      BY <1>5, <1>6, <3>7, <3>8, <3>10
    <3>11. CASE db'.pages[k] = page
      <4>1. items \subseteq SeqsOf(db', r) BY <1>2, <3>3
      <4>2. page.next # None => more /\ page.next = next BY <3>5
      <4>3. page.next \in DOMAIN db'.cursors \cup {None} BY <3>5, <3>6, <3>8
      <4>4. ValidSnapshot(db', page)
        BY <3>3, <3>5, <3>6, <3>8, <4>1, <4>2 DEF ValidSnapshot
      <4> QED BY <3>11, <4>3, <4>4
    <3> QED BY <3>9, <3>10, <3>11
  <2> QED BY <1>4, <2>1, <2>2 DEF PageTaken
<1>8. ASSUME NEW k \in DOMAIN db'.batches PROVE db'.batches[k].items \subseteq NewSeqs
  <2>1. ASSUME k \in DOMAIN db.batches, db'.batches[k] = db.batches[k]
        PROVE  db'.batches[k].items \subseteq NewSeqs
    BY <1>3, <2>1 DEF HistoriesOK, ValidHistories, Seqs
  <2>2. CASE Claims' = Claims BY <2>1, <2>2 DEF Claims
  <2>3. ASSUME NEW r, NEW s, Compact(r, s), db' # db PROVE db'.batches = db.batches
    <3>1. Writes({"queue", "claims", "compactions"}) BY <2>3, OtherStoreMoves
    <3> QED BY <3>1 DEF Writes, Fields
  <2>4. ASSUME NEW r, NEW c, NEW x, NEW limit, NEW until, NEW t,
               Claim(r, c, x, limit, until, t), db' # db
        PROVE  db'.batches[k].items \subseteq NewSeqs
    <3> DEFINE items == First(Claimable(r, t), limit)
               batch == [consumer |-> c, items |-> items, until |-> until]
               claims == [s \in DOMAIN db.claims \cup items |->
                            IF s \in items /\ (s \in DOMAIN db.claims => db.claims[s].until <= t)
                            THEN [claim |-> x, until |-> until] ELSE db.claims[s]]
    <3>1. db' = [[db EXCEPT !.batches = Put(@, x, batch), !.claims = claims]
                    EXCEPT !.counter = @ + 1]
      BY <2>4, Zenon DEF Claim, Mutate, Commit
    <3>2. items \subseteq Seqs
      <4>1. items \subseteq Claimable(r, t) BY DEF First
      <4>2. Claimable(r, t) \subseteq Seqs BY DEF Claimable, RowsOf, Seqs
      <4> QED BY <4>1, <4>2
    <3>3. batch.items = items OBVIOUS
    <3> HIDE DEF items, batch, claims
    <3>4. db'.batches = Put(db.batches, x, batch) BY <3>1 DEF BoundsOK, Fields
    <3>5. db'.batches[k] = batch \/ (k \in DOMAIN db.batches /\ db'.batches[k] = db.batches[k])
      BY <3>4 DEF Put
    <3> QED BY <1>3, <2>1, <3>2, <3>3, <3>5
  <2> QED BY <1>4, <2>1, <2>2, <2>3, <2>4 DEF ClaimTaken, Compacted
<1>9. ValidHistories(db') BY <1>7, <1>8 DEF ValidHistories, NewSeqs
<1> QED BY <1>7, <1>9 DEF HistoriesOK

\* The next place of an inbox is one after the rows and tombstones it has.
SeqOK ==
    /\ IsFiniteSet(DOMAIN inbox \cup DOMAIN tombs)
    /\ \A h \in Hosts :
          nextSeq[h] = Cardinality({p \in DOMAIN inbox \cup DOMAIN tombs : p[1] = h}) + 1

\* A place is given out once, and none is left out.
LEMMA SeqStep == ASSUME BoundsOK, RecipientInv, WireOK, SeqOK, [Next]_vars PROVE SeqOK'
<1> DEFINE D == DOMAIN inbox \cup DOMAIN tombs
<1>1. ASSUME D' = D, nextSeq' = nextSeq PROVE SeqOK' BY <1>1 DEF SeqOK
<1>2. recipient' = recipient => D' = D /\ nextSeq' = nextSeq BY DEF recipient
<1>3. ASSUME NEW i \in DOMAIN wire, Ingest(i) PROVE SeqOK'
  <2> DEFINE id == Place(i)
  <2>1. CASE RowAt(id) # None
    <3>1. inbox' = inbox /\ nextSeq' = nextSeq /\ tombs' = tombs BY <1>3, <2>1 DEF Ingest
    <3> QED BY <1>1, <3>1
  <2>2. CASE RowAt(id) = None
    <3>1. /\ DOMAIN inbox' = DOMAIN inbox \cup {id} /\ tombs' = tombs
          /\ nextSeq' = [nextSeq EXCEPT ![id[1]] = @ + 1]
      BY <1>3, <2>2 DEF Ingest, Put
    <3>2. id \notin D BY <2>2, RowAtStanding DEF RecipientInv, Rows
    <3>3. D' = D \cup {id} BY <3>1
    <3>4. DOMAIN nextSeq = Hosts BY DEF RecipientInv, RecipientOK
    <3> HIDE DEF D, id
    <3>5. IsFiniteSet(D) /\ \A h \in Hosts : nextSeq[h] = Cardinality({p \in D : p[1] = h}) + 1
      BY DEF SeqOK, D
    <3>6. IsFiniteSet(D') BY <3>3, <3>5, FS_AddElement
    <3>7. ASSUME NEW h \in Hosts PROVE nextSeq'[h] = Cardinality({p \in D' : p[1] = h}) + 1
      <4> DEFINE E == {p \in D : p[1] = h}
      <4>1. IsFiniteSet(E) BY <3>5, FS_Subset
      <4>2. CASE h = id[1]
        <5>1. {p \in D' : p[1] = h} = E \cup {id} /\ id \notin E BY <3>2, <3>3, <4>2
        <5>2. nextSeq'[h] = nextSeq[h] + 1 BY <3>1, <3>4, <4>2
        <5>3. nextSeq[h] = Cardinality(E) + 1 BY <3>5
        <5> HIDE DEF E
        <5> QED BY <4>1, <5>1, <5>2, <5>3, FS_AddElement, FS_CardinalityType
      <4>3. CASE h # id[1]
        <5>1. {p \in D' : p[1] = h} = E BY <3>3, <4>3
        <5>2. nextSeq'[h] = nextSeq[h] BY <3>1, <3>4, <4>3
        <5> QED BY <3>5, <5>1, <5>2
      <4> QED BY <4>2, <4>3
    <3> QED BY <3>6, <3>7 DEF SeqOK, D
  <2> QED BY <2>1, <2>2
<1>4. \A i : Refuse(i) \/ Reject(i) => D' = D /\ nextSeq' = nextSeq
  BY DEF Refuse, Reject, recipient
<1>5. \A h, c, until, n : InboxClaim(h, c, until, n) => D' = D /\ nextSeq' = nextSeq
  BY DEF InboxClaim
<1>6. \A c, d : InboxAck(c, d) => D' = D /\ nextSeq' = nextSeq BY DEF InboxAck
<1>7. \A h, s : InboxCompact(h, s) => D' = D /\ nextSeq' = nextSeq
  <2> SUFFICES ASSUME NEW h, NEW s, InboxCompact(h, s) PROVE D' = D /\ nextSeq' = nextSeq OBVIOUS
  <2> DEFINE gone == {d \in DOMAIN inbox : d[1] = h /\ inbox[d].seq <= s}
  <2>1. DOMAIN tombs' = DOMAIN tombs \cup gone /\ DOMAIN inbox' = DOMAIN inbox \ gone
        /\ nextSeq' = nextSeq
    BY DEF InboxCompact, Tombstones, Without
  <2>2. gone \subseteq DOMAIN inbox OBVIOUS
  <2> HIDE DEF gone
  <2> QED BY <2>1, <2>2
<1>8. UNCHANGED vars \/ Forwarded => recipient' = recipient BY DEF vars, rvars, Forwarded, Forward
<1> QED BY <1>1, <1>2, <1>3, <1>4, <1>5, <1>6, <1>7, <1>8, SenderLeavesRecipient, StepKinds
     DEF Exchange

-----------------------------------------------------------------------------
(* Receipts the store has answered. *)

\* The receipt rc about leg l is in dispute, is the one that ended the leg, or
\* contradicts what a consumer has passed.
Decided(l, rc) ==
    \/ db.legs[l].state = "quarantined"
    \/ l \in DOMAIN db.receipts /\ db.receipts[l] = rc
    \/ l \in DOMAIN db.foreign /\ db.foreign[l] = rc
    \/ Passed(l)
    \/ \E k \in DOMAIN db.legs : Disputes(k, rc) /\ Passed(k)

PresentedOK ==
    \A rc \in presented :
        rc \in Receipts /\ rc.msg \in db.messages /\ \A l \in Bound(db, rc) : Decided(l, rc)

\* Verification finds the queue in order when no leg a consumer passed reopens.
LEMMA SettledQueue ==
    ASSUME BoundsOK, ReadersOK, ValidConsumers(db), ValidQueue(db), NEW e,
           e.queue = db.queue, e.highwater = db.highwater, e.consumers = db.consumers,
           e.compactions = db.compactions, DOMAIN e.legs = DOMAIN db.legs,
           \A k \in DOMAIN db.legs : e.legs[k].seq = db.legs[k].seq,
           \A k \in DOMAIN db.legs : Passed(k) /\ Terminal(db, k) => Terminal(e, k)
    PROVE  ValidConsumers(e) /\ ValidQueue(e)
<1>1. /\ \A r : RowsOf(e, r) = RowsOf(db, r)
      /\ \A r, s : Prefix(e, r, s) = Prefix(db, r, s)
      /\ \A r : LastTaken(e, r) = LastTaken(db, r)
      /\ \A k \in DOMAIN db.legs : Queued(e, k) <=> Queued(db, k)
  BY DEF RowsOf, Prefix, LastTaken, Queued
<1>2. \A k \in DOMAIN db.legs : db.legs[k].seq \in Nat /\ db.legs[k].seq > 0 BY DEF BoundsOK
<1>3. ASSUME NEW x \in DOMAIN db.consumers
      PROVE  /\ db.consumers[x] <= e.highwater
             /\ Consumable(e, x[1], db.consumers[x])
  <2>1. /\ db.consumers[x] <= db.highwater
        /\ \E l \in RowsOf(db, x[1]) : db.legs[l].seq = db.consumers[x]
        /\ \A l \in Prefix(db, x[1], db.consumers[x]) : Terminal(db, l)
    BY DEF ValidConsumers, Consumable
  <2>2. \A l \in Prefix(db, x[1], db.consumers[x]) : l \in DOMAIN db.legs /\ Passed(l)
    BY <1>2 DEF Prefix, RowsOf, Passed, ReadersOK
  <2>3. \A l \in RowsOf(db, x[1]) : e.legs[l].seq = db.legs[l].seq BY DEF RowsOf
  <2> QED BY <1>1, <2>1, <2>2, <2>3 DEF Consumable
<1>4. ASSUME NEW r \in DOMAIN db.compactions, NEW l \in DOMAIN db.legs,
             l[2] = r, db.legs[l].seq <= db.compactions[r]
      PROVE  Passed(l)
  <2>1. PICK x \in DOMAIN db.consumers : x[1] = r /\ db.consumers[x] >= db.compactions[r]
    BY DEF ReadersOK
  <2>2. db.consumers[x] \in Nat /\ db.compactions[r] \in Nat BY DEF ReadersOK
  <2>3. db.consumers[x] >= db.legs[l].seq BY <1>2, <1>4, <2>1, <2>2
  <2> QED BY <1>4, <2>1, <2>3 DEF Passed
<1>5. ASSUME NEW r \in DOMAIN db.compactions
      PROVE  /\ db.compactions[r] <= e.highwater
             /\ \A l \in Prefix(e, r, db.compactions[r]) : Terminal(e, l) /\ ~Queued(e, l)
  <2>1. /\ db.compactions[r] <= db.highwater
        /\ \A l \in Prefix(db, r, db.compactions[r]) : Terminal(db, l) /\ ~Queued(db, l)
    BY DEF ValidQueue
  <2>2. \A l \in Prefix(db, r, db.compactions[r]) : l \in DOMAIN db.legs /\ Passed(l)
    BY <1>4 DEF Prefix, RowsOf
  <2> QED BY <1>1, <2>1, <2>2
<1>6. ASSUME NEW l \in DOMAIN db.legs, ~Queued(e, l)
      PROVE  Terminal(e, l) /\ e.legs[l].seq <= LastTaken(e, l[2])
  <2>1. Terminal(db, l) /\ db.legs[l].seq <= LastTaken(db, l[2])
    BY <1>1, <1>6 DEF ValidQueue
  <2>2. l[2] \in DOMAIN db.compactions /\ LastTaken(db, l[2]) = db.compactions[l[2]]
    BY <1>2, <2>1 DEF LastTaken
  <2>3. Passed(l) BY <1>4, <2>1, <2>2
  <2> QED BY <1>1, <2>1, <2>3
<1>7. ValidConsumers(e) BY <1>3 DEF ValidConsumers
<1>8. ValidQueue(e)
  <2>1. \A r \in DOMAIN e.compactions :
           /\ e.compactions[r] <= e.highwater
           /\ \A l \in Prefix(e, r, e.compactions[r]) : Terminal(e, l) /\ ~Queued(e, l)
    BY <1>5
  <2>2. \A l \in DOMAIN e.legs :
           Queued(e, l) \/ (Terminal(e, l) /\ e.legs[l].seq <= LastTaken(e, l[2]))
    BY <1>6
  <2> QED BY <2>1, <2>2 DEF ValidQueue
<1> QED BY <1>7, <1>8

\* The tables after the first receipt of a leg.
LEMMA EndedIs ==
    ASSUME BoundsOK, NEW rc, NEW l \in DOMAIN db.legs
    PROVE  LET e == Ended(db, l, rc) IN
           /\ DOMAIN e = Fields /\ e.schema = db.schema
           /\ e.queue = db.queue /\ e.highwater = db.highwater
           /\ e.consumers = db.consumers /\ e.compactions = db.compactions
           /\ e.receipts = IF rc.foreign THEN db.receipts ELSE Put(db.receipts, l, rc)
           /\ e.foreign = IF rc.foreign THEN Put(db.foreign, l, rc) ELSE db.foreign
           /\ DOMAIN e.legs = DOMAIN db.legs
           /\ \A k \in DOMAIN db.legs : e.legs[k].seq = db.legs[k].seq
           /\ \A k \in DOMAIN db.legs : k # l => e.legs[k] = db.legs[k]
           /\ e.legs[l].state = rc.outcome
<1> DEFINE e == Ended(db, l, rc)
<1>1. /\ DOMAIN e = Fields /\ e.schema = db.schema
      /\ e.queue = db.queue /\ e.highwater = db.highwater
      /\ e.consumers = db.consumers /\ e.compactions = db.compactions
      /\ e.receipts = IF rc.foreign THEN db.receipts ELSE Put(db.receipts, l, rc)
      /\ e.foreign = IF rc.foreign THEN Put(db.foreign, l, rc) ELSE db.foreign
      /\ e.legs = [db.legs EXCEPT ![l] = [@ EXCEPT !.state = rc.outcome, !.receipt = rc.id]]
  BY DEF Ended, BoundsOK, Fields
<1> HIDE DEF e
<1>2. DOMAIN db.legs[l] = LegColumns BY DEF BoundsOK
<1>3. /\ DOMAIN e.legs = DOMAIN db.legs
      /\ \A k \in DOMAIN db.legs : k # l => e.legs[k] = db.legs[k]
      /\ e.legs[l].state = rc.outcome /\ e.legs[l].seq = db.legs[l].seq
  BY <1>1, <1>2 DEF LegColumns
<1> QED BY <1>1, <1>3 DEF e

\* The tables after a receipt that contradicts another.
LEMMA QuarantinedIs ==
    ASSUME BoundsOK, NEW S, NEW R, NEW A
    PROVE  LET e == Quarantined(db, S, R, A) IN
           /\ DOMAIN e = Fields /\ e.schema = db.schema
           /\ e.queue = db.queue /\ e.highwater = db.highwater
           /\ e.consumers = db.consumers /\ e.compactions = db.compactions
           /\ e.receipts = db.receipts /\ e.foreign = db.foreign
           /\ DOMAIN e.legs = DOMAIN db.legs
           /\ \A k \in DOMAIN db.legs : e.legs[k].seq = db.legs[k].seq
           /\ \A k \in DOMAIN db.legs : k \notin S => e.legs[k] = db.legs[k]
           /\ \A k \in DOMAIN db.legs : k \in S => e.legs[k].state = "quarantined"
<1> DEFINE e == Quarantined(db, S, R, A)
<1>1. /\ DOMAIN e = Fields /\ e.schema = db.schema
      /\ e.queue = db.queue /\ e.highwater = db.highwater
      /\ e.consumers = db.consumers /\ e.compactions = db.compactions
      /\ e.receipts = db.receipts /\ e.foreign = db.foreign
      /\ e.legs = [k \in DOMAIN db.legs |->
                      IF k \in S THEN [db.legs[k] EXCEPT !.state = "quarantined"] ELSE db.legs[k]]
  BY DEF Quarantined, BoundsOK, Fields
<1> HIDE DEF e
<1>2. \A k \in DOMAIN db.legs : DOMAIN db.legs[k] = LegColumns BY DEF BoundsOK
<1>3. /\ DOMAIN e.legs = DOMAIN db.legs
      /\ \A k \in DOMAIN db.legs : e.legs[k].seq = db.legs[k].seq
      /\ \A k \in DOMAIN db.legs : k \notin S => e.legs[k] = db.legs[k]
      /\ \A k \in DOMAIN db.legs : k \in S => e.legs[k].state = "quarantined"
  BY <1>1, <1>2 DEF LegColumns
<1> QED BY <1>1, <1>3 DEF e

\* The leg a receipt takes into dispute is its own or one whose proof it disputes.
LEMMA StruckIsDisputed ==
    ASSUME EvidenceOK(db), NEW rc, NEW l \in Bound(db, rc), NEW k \in Struck(l, rc)
    PROVE  k = l \/ Disputes(k, rc)
<1> SUFFICES ASSUME k # l PROVE Disputes(k, rc) OBVIOUS
<1>1. k \in DOMAIN db.foreign /\ rc.foreign /\ db.foreign[k] \in Rivals(db, l, rc) BY DEF Struck
<1>2. \/ l \in DOMAIN db.receipts /\ db.foreign[k] = db.receipts[l]
      \/ \E j \in DOMAIN db.foreign :
            /\ db.foreign[k] = db.foreign[j]
            /\ \/ j = l
               \/ rc.foreign /\ (db.foreign[j].id = rc.id \/ db.foreign[j].pos = rc.pos)
  BY <1>1 DEF Rivals
<1>3. CASE l \in DOMAIN db.receipts /\ db.foreign[k] = db.receipts[l]
  <2>1. db.foreign[k].foreign /\ ~db.receipts[l].foreign
    BY <1>1, <1>3 DEF EvidenceOK, BindingOK
  <2> QED BY <1>3, <2>1
<1>4. ASSUME NEW j \in DOMAIN db.foreign, db.foreign[k] = db.foreign[j],
             \/ j = l
             \/ rc.foreign /\ (db.foreign[j].id = rc.id \/ db.foreign[j].pos = rc.pos)
      PROVE  Disputes(k, rc)
  <2>1. k \in Bound(db, db.foreign[k]) /\ j \in Bound(db, db.foreign[k])
    BY <1>1, <1>4 DEF EvidenceOK, BindingOK
  <2>2. k = j BY <2>1, OneLeg DEF EvidenceOK
  <2> QED BY <1>1, <1>4, <2>2 DEF Disputes
<1> QED BY <1>2, <1>3, <1>4

\* A dispute is refused only where a consumer has passed one of its legs.
LEMMA RefusedDispute ==
    ASSUME BoundsOK, EvidenceOK(db), ReadersOK, QueueOK, NEW rc \in Receipts,
           NEW l \in Bound(db, rc), NEW S \in SUBSET DOMAIN db.legs, NEW R,
           Judge(db, l, rc) = Quarantined(db, S, R, {}), ~Valid(Judge(db, l, rc))
    PROVE  \E k \in S : Passed(k)
<1> DEFINE e == Quarantined(db, S, R, {})
<1>1. EvidenceOK(e) BY JudgeKeeps
<1>2. /\ DOMAIN e = Fields /\ e.schema = db.schema
      /\ e.queue = db.queue /\ e.highwater = db.highwater
      /\ e.consumers = db.consumers /\ e.compactions = db.compactions
      /\ DOMAIN e.legs = DOMAIN db.legs
      /\ \A k \in DOMAIN db.legs : e.legs[k].seq = db.legs[k].seq
      /\ \A k \in DOMAIN db.legs : k \notin S => e.legs[k] = db.legs[k]
  BY QuarantinedIs
<1> HIDE DEF e
<1>3. e.schema >= 2 /\ ~(ValidConsumers(e) /\ ValidQueue(e))
  BY <1>1 DEF Valid, EvidenceOK, e
<1>4. ValidConsumers(db) /\ ValidQueue(db) BY <1>2, <1>3 DEF QueueOK
<1>5. SUFFICES ASSUME \A k \in S : ~Passed(k) PROVE FALSE OBVIOUS
<1>6. \A k \in DOMAIN db.legs : Passed(k) /\ Terminal(db, k) => Terminal(e, k)
  BY <1>2, <1>5 DEF Terminal
<1> QED BY <1>2, <1>3, <1>4, <1>6, SettledQueue

\* The first receipt of a leg is never refused.
LEMMA FirstIsTaken ==
    ASSUME BoundsOK, EvidenceOK(db), ReadersOK, QueueOK, NEW rc \in Receipts,
           NEW l \in Bound(db, rc), db.legs[l].state = "accepted",
           Judge(db, l, rc) = Ended(db, l, rc)
    PROVE  Judge(db, l, rc) # db /\ Valid(Judge(db, l, rc))
<1> DEFINE e == Ended(db, l, rc)
<1>1. EvidenceOK(e) BY JudgeKeeps
<1>2. l \in DOMAIN db.legs BY DEF Bound
<1>3. /\ DOMAIN e = Fields /\ e.schema = db.schema
      /\ e.queue = db.queue /\ e.highwater = db.highwater
      /\ e.consumers = db.consumers /\ e.compactions = db.compactions
      /\ DOMAIN e.legs = DOMAIN db.legs
      /\ \A k \in DOMAIN db.legs : e.legs[k].seq = db.legs[k].seq
      /\ \A k \in DOMAIN db.legs : k # l => e.legs[k] = db.legs[k]
      /\ e.legs[l].state = rc.outcome
  BY <1>2, EndedIs
<1>4. rc.outcome \in TerminalOutcomes BY BoundsAssumption DEF Receipt
<1> HIDE DEF e
<1>5. "accepted" \notin TerminalOutcomes BY DEF TerminalOutcomes
<1>6. e # db BY <1>3, <1>4, <1>5
<1>7. \A k \in DOMAIN db.legs : Passed(k) /\ Terminal(db, k) => Terminal(e, k)
  BY <1>3, <1>4 DEF Terminal
<1>8. e.schema >= 2 => ValidConsumers(e) /\ ValidQueue(e)
  BY <1>3, <1>7, SettledQueue DEF QueueOK
<1>9. Valid(e) BY <1>1, <1>8 DEF Valid, EvidenceOK
<1> QED BY <1>6, <1>9 DEF e

\* What the store has answered about a receipt is decided there and then.
LEMMA AnswerDecides ==
    ASSUME BoundsOK, EvidenceOK(db), ReadersOK, QueueOK, NEW rc \in Receipts,
           NEW l \in Bound(db, rc)
    PROVE  /\ Judge(db, l, rc) = db \/ ~Verifies(Judge(db, l, rc)) => Decided(l, rc)
           /\ db' = [Judge(db, l, rc) EXCEPT !.counter = @ + 1] => Decided(l, rc)'
<1> DEFINE next == Judge(db, l, rc)
<1>1. l \in DOMAIN db.legs BY DEF Bound
<1>2. CASE Rivals(db, l, rc) = {rc} /\ next = db
  <2>1. \/ l \in DOMAIN db.receipts /\ db.receipts[l] = rc
        \/ \E k \in DOMAIN db.foreign : db.foreign[k] = rc
    <3>1. rc \in Rivals(db, l, rc) BY <1>2
    <3> QED BY <3>1 DEF Rivals
  <2>2. ASSUME NEW k \in DOMAIN db.foreign, db.foreign[k] = rc PROVE k = l
    <3>1. k \in Bound(db, rc) BY <2>2 DEF EvidenceOK, BindingOK
    <3> QED BY <3>1, OneLeg DEF EvidenceOK
  <2>3. \/ l \in DOMAIN db.receipts /\ db.receipts[l] = rc
        \/ l \in DOMAIN db.foreign /\ db.foreign[l] = rc
    BY <2>1, <2>2
  <2>4. db' = [next EXCEPT !.counter = @ + 1] =>
           db'.receipts = db.receipts /\ db'.foreign = db.foreign
    BY <1>2 DEF BoundsOK, Fields
  <2> HIDE DEF next
  <2>5. Decided(l, rc) BY <2>3 DEF Decided
  <2>6. db' = [next EXCEPT !.counter = @ + 1] => Decided(l, rc)' BY <2>3, <2>4 DEF Decided
  <2> QED BY <2>5, <2>6 DEF next
<1>3. CASE Rivals(db, l, rc) = {} /\ db.legs[l].state # "accepted" /\ next = db
  <2>1. l \notin DOMAIN db.foreign /\ l \notin DOMAIN db.receipts BY <1>3 DEF Rivals
  <2>2. ~Terminal(db, l) BY <1>1, <2>1 DEF EvidenceOK, ValidProofs
  <2>3. db.legs[l].state = "quarantined" BY <1>1, <1>3, <2>2 DEF EvidenceOK, BindingOK, Terminal
  <2>4. db' = [next EXCEPT !.counter = @ + 1] => db'.legs = db.legs
    BY <1>3 DEF BoundsOK, Fields
  <2> HIDE DEF next
  <2>5. Decided(l, rc) BY <2>3 DEF Decided
  <2>6. db' = [next EXCEPT !.counter = @ + 1] => Decided(l, rc)' BY <2>3, <2>4 DEF Decided
  <2> QED BY <2>5, <2>6 DEF next
<1>4. CASE Rivals(db, l, rc) = {} /\ db.legs[l].state = "accepted" /\ next = Ended(db, l, rc)
  <2>1. next # db /\ Verifies(next) BY <1>4, FirstIsTaken DEF Verifies
  <2>2. /\ DOMAIN next = Fields
        /\ next.receipts = IF rc.foreign THEN db.receipts ELSE Put(db.receipts, l, rc)
        /\ next.foreign = IF rc.foreign THEN Put(db.foreign, l, rc) ELSE db.foreign
    BY <1>1, <1>4, EndedIs
  <2> HIDE DEF next
  <2>3. ASSUME db' = [next EXCEPT !.counter = @ + 1] PROVE Decided(l, rc)'
    <3>1. db'.receipts = next.receipts /\ db'.foreign = next.foreign BY <2>2, <2>3 DEF Fields
    <3>2. CASE rc.foreign
      <4>1. l \in DOMAIN db'.foreign /\ db'.foreign[l] = rc BY <2>2, <3>1, <3>2 DEF Put
      <4> QED BY <4>1 DEF Decided
    <3>3. CASE ~rc.foreign
      <4>1. l \in DOMAIN db'.receipts /\ db'.receipts[l] = rc BY <2>2, <3>1, <3>3 DEF Put
      <4> QED BY <4>1 DEF Decided
    <3> QED BY <3>2, <3>3
  <2> QED BY <2>1, <2>3 DEF next
<1>5. CASE next = Quarantined(db, Struck(l, rc), Rivals(db, l, rc) \cup {rc}, {})
  <2> DEFINE S == Struck(l, rc)
             R == Rivals(db, l, rc) \cup {rc}
  <2>1. S \in SUBSET DOMAIN db.legs /\ l \in S BY RivalsAreStruck
  <2>2. \A k \in S : k = l \/ Disputes(k, rc) BY StruckIsDisputed
  <2>3. next = Quarantined(db, S, R, {}) BY <1>5
  <2> HIDE DEF S, R
  <2>4. DOMAIN next = Fields /\ next.legs[l].state = "quarantined"
    BY <1>1, <2>1, <2>3, QuarantinedIs
  <2>5. ~Valid(next) => \E k \in S : Passed(k) BY <2>1, <2>3, RefusedDispute
  <2> HIDE DEF next
  <2>6. next = db => Decided(l, rc) BY <2>4 DEF Decided
  <2>7. ~Verifies(next) => Decided(l, rc) BY <2>1, <2>2, <2>5 DEF Decided, Verifies
  <2>8. ASSUME db' = [next EXCEPT !.counter = @ + 1] PROVE Decided(l, rc)'
    <3>1. db'.legs = next.legs BY <2>4, <2>8 DEF Fields
    <3> QED BY <2>4, <3>1 DEF Decided
  <2> QED BY <2>6, <2>7, <2>8 DEF next
<1> QED BY <1>2, <1>3, <1>4, <1>5, JudgeIs

\* What the store has answered changes only where a receipt is recorded.
LEMMA PresentedMoves ==
    ASSUME BoundsOK, [Next]_vars
    PROVE  presented' = presented \/ \E rc \in Receipts : RecordReceipt(rc)
<1>1. plan.receipts \subseteq Receipts BY BoundsAssumption DEF BoundsOK, Plan
<1>2. \A next : Mutate(next) => presented' = presented BY DEF Mutate
<1>3. UNCHANGED cvars \/ UNCHANGED store \/ UNCHANGED vars => presented' = presented
  BY DEF cvars, store, vars
<1>4. /\ \A m : LearnMessage(m) \/ Accept(m) => presented' = presented
      /\ \A rc : LearnReceipt(rc) => presented' = presented
      /\ \A r, c, s : Advance(r, c, s) => presented' = presented
      /\ \A r, s : Compact(r, s) => presented' = presented
      /\ UpgradeReceiptsV2 \/ UpgradeLegsV3 \/ Recover \/ Tick => presented' = presented
  BY <1>2, <1>3 DEF LearnMessage, Accept, LearnReceipt, Advance, Compact,
     UpgradeReceiptsV2, UpgradeLegsV3, Recover, Tick
<1>5. \A r, c, q, token, n : Page(r, c, q, token, n) => presented' = presented
  BY <1>2 DEF Page
<1>6. \A r, c, k, n, until, t : Claim(r, c, k, n, until, t) => presented' = presented
  BY <1>2, Zenon DEF Claim
<1>7. CASE StoreStep BY <1>1, <1>4, <1>5, <1>6, <1>7 DEF StoreStep, CNext
<1>8. ASSUME NEW t, CarryStep(t) PROVE presented' = presented
  BY <1>2, <1>3, <1>8 DEF CarryStep, Dispatch, DispatchStep, RecordAttempt, RecordDelivery,
     SendUnavailable, Send, SendRefused, GiveUp, Receive, RouteAck
<1> QED BY <1>3, <1>7, <1>8, StepKinds, RecipientMoves DEF Forwarded

\* What decides a receipt never goes away.
DecisionsStick ==
    /\ \A l \in DOMAIN db.legs :
          /\ l \in DOMAIN db'.legs /\ db'.legs[l].seq = db.legs[l].seq
          /\ db.legs[l].state = "quarantined" => db'.legs[l].state = "quarantined"
          /\ Passed(l) => Passed(l)'
    /\ \A l \in DOMAIN db.receipts : l \in DOMAIN db'.receipts /\ db'.receipts[l] = db.receipts[l]
    /\ \A l \in DOMAIN db.foreign : l \in DOMAIN db'.foreign /\ db'.foreign[l] = db.foreign[l]
    /\ db.messages \subseteq db'.messages
    /\ \A rc : rc.msg \in db.messages => Bound(db', rc) \subseteq Bound(db, rc)

\* The persisted schema never goes back.
LEMMA SchemaGrows ==
    ASSUME BoundsOK, EvidenceOK(db), [Next]_vars PROVE db.schema <= db'.schema
<1>1. db.schema \in 1..3 BY DEF EvidenceOK, BindingOK
<1>2. CASE Commits(Data)
  <2>1. db' # db => db'.schema = db.schema BY <1>2, CommitsVerify
  <2> QED BY <1>1, <2>1
<1>3. UpgradeReceiptsV2 => db.schema = 1 /\ db'.schema = 2
  BY DEF UpgradeReceiptsV2, BoundsOK, Fields
<1>4. UpgradeLegsV3 => db.schema = 2 /\ db'.schema = 3
  <2>1. UpgradeLegsV3 => db.schema = 2 /\ db' = [db EXCEPT !.schema = 3] BY DEF UpgradeLegsV3
  <2> QED BY <2>1 DEF BoundsOK, Fields
<1>5. UNCHANGED files \/ Recover => db' = db BY DEF files, Recover
<1> QED BY <1>1, <1>2, <1>3, <1>4, <1>5, StepCommits

\* No step takes a recorded receipt away, lets a consumer go back or reopens a leg.
LEMMA StickStep ==
    ASSUME BoundsOK, CallOK, EvidenceOK(db), CarriedOK, AnswersAreSent, ReadersOK, [Next]_vars
    PROVE  DecisionsStick
<1>1. LegsMove BY BoundsStep
<1>2. ReadersMove /\ \A k \in DOMAIN db'.consumers : db'.consumers[k] \in Nat BY ConsumersStep
<1>3. EvidenceOK(db') BY EvidenceStep
<1>4. db.schema <= db'.schema /\ db.schema \in 1..3 /\ db'.schema \in 1..3
  BY <1>3, SchemaGrows DEF EvidenceOK, BindingOK
<1>5. ASSUME NEW l \in DOMAIN db.legs
      PROVE  /\ l \in DOMAIN db'.legs /\ db'.legs[l].seq = db.legs[l].seq
             /\ db.legs[l].state = "quarantined" => db'.legs[l].state = "quarantined"
             /\ Passed(l) => Passed(l)'
  <2>1. /\ l \in DOMAIN db'.legs /\ db'.legs[l].seq = db.legs[l].seq
        /\ db.legs[l].state # "accepted" => db'.legs[l].state \in {db.legs[l].state, "quarantined"}
    BY <1>1 DEF LegsMove
  <2>2. db.legs[l].seq \in Nat BY DEF BoundsOK
  <2>3. ASSUME NEW k \in DOMAIN db.consumers, k[1] = l[2], db.consumers[k] >= db.legs[l].seq
        PROVE  /\ k \in DOMAIN db'.consumers /\ k[1] = l[2]
               /\ db'.consumers[k] >= db'.legs[l].seq
    <3>1. /\ k \in DOMAIN db'.consumers /\ db.consumers[k] <= db'.consumers[k]
          /\ db.consumers[k] \in Nat /\ db'.consumers[k] \in Nat
      BY <1>2 DEF ReadersMove, ReadersOK
    <3> QED BY <2>1, <2>2, <2>3, <3>1
  <2>4. Passed(l) => Passed(l)' BY <2>3 DEF Passed
  <2> QED BY <2>1, <2>4
<1>6. /\ \A l \in DOMAIN db.receipts : l \in DOMAIN db'.receipts /\ db'.receipts[l] = db.receipts[l]
      /\ \A l \in DOMAIN db.foreign : l \in DOMAIN db'.foreign /\ db'.foreign[l] = db.foreign[l]
  <2>1. CASE db'.receipts = db.receipts /\ db'.foreign = db.foreign BY <2>1
  <2>2. ASSUME NEW rc \in Receipts, RecordReceipt(rc), db' # db
        PROVE  /\ \A l \in DOMAIN db.receipts :
                     l \in DOMAIN db'.receipts /\ db'.receipts[l] = db.receipts[l]
               /\ \A l \in DOMAIN db.foreign :
                     l \in DOMAIN db'.foreign /\ db'.foreign[l] = db.foreign[l]
    <3>1. PICK j \in Bound(db, rc) : db' = [Judge(db, j, rc) EXCEPT !.counter = @ + 1]
      BY <2>2 DEF RecordReceipt, Commit
    <3>2. j \in DOMAIN db.legs BY DEF Bound
    <3> DEFINE next == Judge(db, j, rc)
    <3>3. DOMAIN next = Fields
      <4>1. DOMAIN Ended(db, j, rc) = Fields BY <3>2, EndedIs
      <4>2. \A S, R, A : DOMAIN Quarantined(db, S, R, A) = Fields BY QuarantinedIs
      <4>3. next = db \/ next = Ended(db, j, rc) \/ \E S, R, A : next = Quarantined(db, S, R, A)
        BY JudgeIs
      <4> HIDE DEF next
      <4> QED BY <4>1, <4>2, <4>3 DEF BoundsOK
    <3>4. \/ next.receipts = db.receipts /\ next.foreign = db.foreign
          \/ /\ j \notin DOMAIN db.receipts /\ j \notin DOMAIN db.foreign
             /\ next.receipts = IF rc.foreign THEN db.receipts ELSE Put(db.receipts, j, rc)
             /\ next.foreign = IF rc.foreign THEN Put(db.foreign, j, rc) ELSE db.foreign
      <4>1. /\ Ended(db, j, rc).receipts = IF rc.foreign THEN db.receipts ELSE Put(db.receipts, j, rc)
            /\ Ended(db, j, rc).foreign = IF rc.foreign THEN Put(db.foreign, j, rc) ELSE db.foreign
        BY <3>2, EndedIs
      <4>2. \A S, R, A : /\ Quarantined(db, S, R, A).receipts = db.receipts
                         /\ Quarantined(db, S, R, A).foreign = db.foreign
        BY QuarantinedIs
      <4>3. Rivals(db, j, rc) = {} => j \notin DOMAIN db.receipts /\ j \notin DOMAIN db.foreign
        BY DEF Rivals
      <4>4. \/ next = db \/ (\E S, R, A : next = Quarantined(db, S, R, A))
            \/ Rivals(db, j, rc) = {} /\ next = Ended(db, j, rc)
        BY JudgeIs
      <4> HIDE DEF next
      <4> QED BY <4>1, <4>2, <4>3, <4>4
    <3> HIDE DEF next
    <3>5. db'.receipts = next.receipts /\ db'.foreign = next.foreign BY <3>1, <3>3 DEF Fields, next
    <3> QED BY <3>4, <3>5 DEF Put
  <2> QED BY <2>1, <2>2, TableWriters
<1>7. ASSUME NEW rc, rc.msg \in db.messages PROVE Bound(db', rc) \subseteq Bound(db, rc)
  <2> SUFFICES ASSUME NEW l \in Bound(db', rc) PROVE l \in Bound(db, rc) OBVIOUS
  <2>1. l \in DOMAIN db'.legs /\ l[1] = rc.msg BY DEF Bound
  <2>2. l \in LegsOf(rc.msg) BY <1>3, <2>1, LegIsTriple DEF EvidenceOK
  <2>3. l \in DOMAIN db.legs BY <1>7, <2>2 DEF EvidenceOK, ValidVector
  <2> QED BY <1>4, <2>3 DEF Bound
<1> QED BY <1>2, <1>5, <1>6, <1>7 DEF DecisionsStick, ReadersMove

\* What has been answered stays decided, and what is answered now is.
LEMMA PresentedStep ==
    ASSUME BoundsOK, CallOK, EvidenceOK(db), CarriedOK, AnswersAreSent, ReadersOK, QueueOK,
           PresentedOK, [Next]_vars
    PROVE  PresentedOK'
<1>1. DecisionsStick BY StickStep
<1>2. ASSUME NEW rc, NEW l \in DOMAIN db.legs, Decided(l, rc) PROVE Decided(l, rc)'
  <2>1. CASE db.legs[l].state = "quarantined" \/ Passed(l)
    BY <1>1, <2>1 DEF DecisionsStick, Decided
  <2>2. CASE l \in DOMAIN db.receipts /\ db.receipts[l] = rc
    BY <1>1, <2>2 DEF DecisionsStick, Decided
  <2>3. CASE l \in DOMAIN db.foreign /\ db.foreign[l] = rc
    BY <1>1, <2>3 DEF DecisionsStick, Decided
  <2>4. ASSUME NEW k \in DOMAIN db.legs, Disputes(k, rc), Passed(k) PROVE Decided(l, rc)'
    <3>1. Passed(k)' /\ k \in DOMAIN db'.legs BY <1>1, <2>4 DEF DecisionsStick
    <3>2. Disputes(k, rc)' BY <1>1, <2>4 DEF DecisionsStick, Disputes
    <3> QED BY <3>1, <3>2 DEF Decided
  <2> QED BY <1>2, <2>1, <2>2, <2>3, <2>4 DEF Decided
<1>3. ASSUME NEW rc \in presented
      PROVE  rc \in Receipts /\ rc.msg \in db'.messages /\ \A l \in Bound(db', rc) : Decided(l, rc)'
  <2>1. /\ rc \in Receipts /\ rc.msg \in db.messages
        /\ \A l \in Bound(db, rc) : l \in DOMAIN db.legs /\ Decided(l, rc)
    BY DEF PresentedOK, Bound
  <2>2. Bound(db', rc) \subseteq Bound(db, rc) /\ rc.msg \in db'.messages
    BY <1>1, <2>1 DEF DecisionsStick
  <2> QED BY <1>2, <2>1, <2>2
<1>4. ASSUME NEW rc \in Receipts, RecordReceipt(rc), rc \in presented'
      PROVE  \/ rc \in presented
             \/ rc.msg \in db'.messages /\ \A l \in Bound(db', rc) : Decided(l, rc)'
  <2>1. PICK l \in Bound(db, rc) :
           LET next == Judge(db, l, rc) IN
           IF next = db \/ ~Verifies(next)
           THEN presented' = presented \cup {rc} /\ UNCHANGED <<db, anchor, pending, crashes>>
           ELSE /\ Commit(next)
                /\ presented' = IF crashes' > crashes THEN presented ELSE presented \cup {rc}
    BY <1>4 DEF RecordReceipt
  <2>2. l \in DOMAIN db.legs /\ rc.msg \in db.messages BY LegIsTriple DEF Bound, EvidenceOK
  <2>3. \A k \in Bound(db', rc) : k = l
    <3>1. Bound(db', rc) \subseteq Bound(db, rc) BY <1>1, <2>2 DEF DecisionsStick
    <3> QED BY <3>1, OneLeg DEF EvidenceOK
  <2>4. rc.msg \in db'.messages BY <1>1, <2>2 DEF DecisionsStick
  <2> DEFINE next == Judge(db, l, rc)
  <2>5. /\ next = db \/ ~Verifies(next) => Decided(l, rc)
        /\ db' = [next EXCEPT !.counter = @ + 1] => Decided(l, rc)'
    BY AnswerDecides
  <2>6. \/ (next = db \/ ~Verifies(next)) /\ db' = db
        \/ Commit(next) /\ presented' = IF crashes' > crashes THEN presented ELSE presented \cup {rc}
    BY <2>1
  <2> HIDE DEF next
  <2>7. CASE (next = db \/ ~Verifies(next)) /\ db' = db
    BY <1>2, <2>2, <2>3, <2>4, <2>5, <2>7
  <2>8. CASE Commit(next) /\ presented' = IF crashes' > crashes THEN presented
                                          ELSE presented \cup {rc}
    <3>1. \/ db' = [next EXCEPT !.counter = @ + 1]
          \/ crashes' = crashes + 1
      BY <2>8 DEF Commit
    <3>2. crashes' = crashes + 1 => presented' = presented BY <2>8 DEF CallOK
    <3> QED BY <1>4, <2>3, <2>4, <2>5, <3>1, <3>2
  <2> QED BY <2>6, <2>7, <2>8
<1>5. ASSUME NEW rc \in presented', rc \notin presented
      PROVE  rc \in Receipts /\ RecordReceipt(rc)
  <2>1. PICK x \in Receipts : RecordReceipt(x) BY <1>5, PresentedMoves
  <2>2. presented' \in {presented, presented \cup {x}} BY <2>1 DEF RecordReceipt
  <2>3. rc = x BY <1>5, <2>2
  <2> QED BY <2>1, <2>3
<1> QED BY <1>3, <1>4, <1>5 DEF PresentedOK

\* What the store of the sender rests on, files, tables and calls.
StoreInv ==
    /\ DeliveryInv /\ JournalOK
    /\ EvidenceOK(db) /\ CarriedOK /\ AnswersAreSent
    /\ ReadersOK /\ QueueOK /\ HistoriesOK /\ SeqOK /\ PresentedOK

\* An empty store is in order.
LEMMA StoreStarts == Init => StoreInv
<1> SUFFICES ASSUME Init PROVE StoreInv OBVIOUS
<1>1. DeliveryInv BY DeliveryStarts
<1>2. /\ plan \in Plans /\ now = 0 /\ known = [messages |-> {}, receipts |-> {}]
      /\ db = EmptyStore(plan.schema) /\ anchor = 0 /\ pending = {}
      /\ presented = {} /\ crashes = 0
      /\ call = [t \in Threads |-> Idle] /\ wire = << >> /\ inbox = << >> /\ tombs = << >>
      /\ nextSeq = [h \in Hosts |-> 1]
  BY DEF Init, CInit
<1>3. plan \in Plan BY <1>2, BoundsAssumption
<1>4. plan.schema \in 1..3 /\ plan.time \in Nat /\ plan.crashes \in Nat /\ plan.ops \in Nat
  BY <1>3 DEF Plan
<1>5. /\ db.schema = plan.schema /\ db.counter = 0 /\ db.messages = {} /\ db.conflicts = {}
      /\ DOMAIN db.legs = {} /\ DOMAIN db.attempts = {} /\ DOMAIN db.deliveries = {}
      /\ DOMAIN db.receipts = {} /\ DOMAIN db.foreign = {} /\ DOMAIN db.pages = {}
      /\ DOMAIN db.batches = {} /\ DOMAIN db.consumers = {} /\ DOMAIN db.compactions = {}
  BY <1>2 DEF EmptyStore
<1>6. JournalOK
  BY <1>2, <1>3, <1>4, <1>5 DEF JournalOK
<1>7. EvidenceOK(db)
  BY <1>4, <1>5 DEF EvidenceOK, ValidVector, ValidProofs, ValidAttempts, ValidConflicts, BindingOK
<1>8. CarriedOK BY <1>2, <1>5, IdleCarries DEF CarriedOK
<1>9. AnswersAreSent /\ PresentedOK BY <1>2 DEF AnswersAreSent, PresentedOK
<1>10. ReadersOK BY <1>5 DEF ReadersOK
<1>11. QueueOK BY <1>5 DEF QueueOK, ValidConsumers, ValidQueue
<1>12. HistoriesOK BY <1>5 DEF HistoriesOK, ValidHistories
<1>13. SeqOK
  <2>1. DOMAIN inbox \cup DOMAIN tombs = {} BY <1>2
  <2>2. \A h : {p \in DOMAIN inbox \cup DOMAIN tombs : p[1] = h} = {} BY <2>1
  <2> QED BY <1>2, <2>1, <2>2, FS_EmptySet DEF SeqOK
<1> QED BY <1>1, <1>6, <1>7, <1>8, <1>9, <1>10, <1>11, <1>12, <1>13 DEF StoreInv

\* What the store rests on survives every step.
LEMMA StoreStays == StoreInv /\ [Next]_vars => StoreInv'
<1> SUFFICES ASSUME StoreInv, [Next]_vars PROVE StoreInv' OBVIOUS
<1> USE DEF StoreInv
<1>1. DeliveryInv' BY DeliveryStays
<1>2. BoundsOK /\ CallOK /\ PagesOK /\ RecipientInv /\ WireOK /\ TakenOK BY DEF DeliveryInv
<1>3. JournalOK' BY <1>2, JournalStep
<1>4. EvidenceOK(db') BY <1>2, EvidenceStep
<1>5. CarriedOK' BY <1>2, CarriedStep
<1>6. AnswersAreSent' BY <1>2, AnswersSentStep
<1>7. ReadersOK' BY <1>2, ReadersStep
<1>8. QueueOK' BY <1>2, QueueStep DEF ReadersOK
<1>9. HistoriesOK' BY <1>2, HistoriesStep
<1>10. SeqOK' BY <1>2, SeqStep
<1>11. PresentedOK' BY <1>2, PresentedStep
<1> QED BY <1>1, <1>3, <1>4, <1>5, <1>6, <1>7, <1>8, <1>9, <1>10, <1>11

\* Two receipts that are answered about one leg: one alone can have ended it.
LEMMA DecidedQuarantines ==
    ASSUME StoreInv PROVE CompetingReceiptsQuarantine
<1> SUFFICES ASSUME NEW rc1 \in presented, NEW rc2 \in presented,
                    NEW l \in Bound(db, rc1) \cap Bound(db, rc2), rc1 # rc2,
                    db.legs[l].state # "quarantined",
                    \A k \in DOMAIN db.legs :
                       (k = l \/ Disputes(k, rc1) \/ Disputes(k, rc2)) => ~Passed(k)
             PROVE  FALSE
  BY DEF CompetingReceiptsQuarantine
<1>1. l \in DOMAIN db.legs BY DEF Bound
<1>2. Decided(l, rc1) /\ Decided(l, rc2) BY DEF StoreInv, PresentedOK
<1>3. \A rc : Decided(l, rc) /\ (\A k \in DOMAIN db.legs : Disputes(k, rc) => ~Passed(k)) =>
         \/ l \in DOMAIN db.receipts /\ db.receipts[l] = rc
         \/ l \in DOMAIN db.foreign /\ db.foreign[l] = rc
  BY <1>1 DEF Decided
<1>4. ~(l \in DOMAIN db.foreign /\ l \in DOMAIN db.receipts)
  BY <1>1 DEF StoreInv, EvidenceOK, ValidProofs
<1> QED BY <1>2, <1>3, <1>4

\* What a consumer passed is settled.
LEMMA VerifiedIsSettled ==
    ASSUME StoreInv PROVE ConsumedIsSettled
<1> SUFFICES ASSUME db.schema >= 2, NEW l \in DOMAIN db.legs
             PROVE  \/ Terminal(db, l) /\ l \in DOMAIN db.receipts \cup DOMAIN db.foreign
                    \/ Queued(db, l) /\ ~Passed(l)
  BY DEF ConsumedIsSettled
<1>1. ValidConsumers(db) /\ ValidQueue(db) BY DEF StoreInv, QueueOK
<1>2. Terminal(db, l) => l \in DOMAIN db.receipts \cup DOMAIN db.foreign
  BY DEF StoreInv, EvidenceOK, ValidProofs
<1>3. ~Terminal(db, l) => Queued(db, l) BY <1>1 DEF ValidQueue
<1>4. ASSUME Passed(l) PROVE Terminal(db, l)
  <2>1. PICK k \in DOMAIN db.consumers : k[1] = l[2] /\ db.consumers[k] >= db.legs[l].seq
    BY <1>4 DEF Passed
  <2>2. db.consumers[k] \in Nat /\ db.legs[l].seq \in Nat
    BY DEF StoreInv, DeliveryInv, BoundsOK, ReadersOK
  <2>3. l \in Prefix(db, k[1], db.consumers[k]) BY <2>1, <2>2 DEF Prefix, RowsOf
  <2> QED BY <1>1, <2>3 DEF ValidConsumers, Consumable
<1> QED BY <1>2, <1>3, <1>4

\* The sender's store survives a crash at any point of a commit, keeps one
\* proof for every leg that ended, never lets a leg reopen that a consumer passed,
\* and of two receipts about a leg lets none win by its arrival
\* (communication.py: _arm_commit, _recover_pending, _validate_store,
\* record_receipt, _record_foreign_receipt, advance_consumer, compact).
THEOREM StoreStaysSound == Spec => []StoreHolds
<1>1. StoreInv => StoreHolds
  <2> SUFFICES ASSUME StoreInv PROVE StoreHolds OBVIOUS
  <2>1. TypeOK
    <3>1. plan \in Plans /\ db.queue \subseteq 1..db.highwater
      BY DEF StoreInv, DeliveryInv, BoundsOK
    <3>2. \A t \in Threads : At(t, "await") => call[t].conn \in DOMAIN wire
      BY DEF StoreInv, DeliveryInv, CallOK, At
    <3>3. Valid(db) BY DEF StoreInv, EvidenceOK, QueueOK, Valid
    <3>4. /\ ValidHistories(db)
          /\ \A h \in Hosts :
                nextSeq[h] = Cardinality({p \in DOMAIN inbox \cup DOMAIN tombs : p[1] = h}) + 1
      BY DEF StoreInv, HistoriesOK, SeqOK
    <3> QED BY <3>1, <3>2, <3>3, <3>4 DEF TypeOK, StoreInv, JournalOK
  <2>2. RestartsClean BY DEF RestartsClean, StoreInv, JournalOK
  <2> QED BY <2>1, <2>2, DecidedQuarantines, VerifiedIsSettled DEF StoreHolds
<1> QED BY <1>1, StoreStarts, StoreStays, PTL DEF Spec
=============================================================================
