--------------------------- MODULE TribeLaneProofs ---------------------------
(***************************************************************************)
(* What TLAPS proves about TribeLane, for any messages, bodies, recovery   *)
(* ids, deadlines, capacities and plans.                                   *)
(*                                                                         *)
(* LaneInv is inductive.  Its parts say on which records a running call, a *)
(* worker and an attempt to return a receipt rest (CallsOK, RowsOK,        *)
(* ReturnsOK), that recoveries exist only when their original is over      *)
(* (RecoveriesOK), and that a message is carried by the one or the other   *)
(* (CarriedOnce).                                                          *)
(***************************************************************************)
EXTENDS TribeLane, FiniteSetTheorems, TLAPS

\* What runs is one of the places of the code.
PlacesOK ==
    /\ bounds \in Plans
    /\ pc \in [Carriers -> {"idle", "planned", "checked", "selected", "ready", "admitted", "fanout"}]
    /\ task \in [Copies -> {"idle", "started", "reserved", "waiting"}]
    /\ back \in [Legs -> {"idle", "authored", "sending", "waiting"}]

\* A call rests on the records of the steps it has taken.
CallsOK ==
    \A c \in Carriers :
        /\ pc[c] = "planned" => ~IsRecovery(c)
        /\ pc[c] \in {"checked", "selected"} => IsRecovery(c)
        /\ pc[c] # "idle" => c[1] \in DOMAIN plan
        /\ pc[c] = "selected" => c[1] \in DOMAIN selection /\ selection[c[1]] = c[2]
        /\ pc[c] \in {"ready", "admitted", "fanout"} /\ IsRecovery(c) => c \in DOMAIN intents
        /\ pc[c] \in {"admitted", "fanout"} => c \in natives
        /\ pc[c] = "fanout" => c \in visible

\* A recovery exists only when its original is over.
RecoveriesOK ==
    \A c \in Carriers :
        IsRecovery(c) /\ (pc[c] # "idle" \/ c \in natives)
            => c[1] \in DOMAIN plan /\ plan[c[1]].expires <= now

RowsOK ==
    \A y \in Copies :
        /\ task[y] = "started" => y[1] \in visible
        /\ task[y] \in {"reserved", "waiting"} => y \in transports
        /\ task[y] = "waiting" => y \in released

ReturnsOK ==
    /\ \A l \in Legs : back[l] # "idle" => l \in DOMAIN receipts
    /\ posted \subseteq DOMAIN receipts
    /\ controls \subseteq posted /\ controlAcks \subseteq controls
    /\ DOMAIN returned \subseteq controlAcks
    /\ \A l \in DOMAIN ended : ended[l] # "expired" => l \in DOMAIN returned

\* A recovery is carried only when the original never was, and never after.
CarriedOnce ==
    \A y \in released : IsRecovery(y[1]) =>
        \A b \in Bodies : <<Original(y[1][1]), b>> \notin released

RoomOK ==
    /\ \A b \in Bodies : IsFiniteSet(UnackedAt(b)) /\ IsFiniteSet(OwedAt(b))
    /\ IsFiniteSet(controls \ controlAcks) /\ IsFiniteSet(controls \ projected)
    /\ CapacityHolds

LaneInv ==
    /\ TypeOK /\ PlacesOK /\ CallsOK /\ RecoveriesOK /\ RowsOK /\ ReturnsOK
    /\ ReceiptsShowFirstObservation /\ CarriedOnce /\ RoomOK

-----------------------------------------------------------------------------
(* Records and carriers. *)

\* A carrier is a message with "original" or a recovery id.
LEMMA CarrierFacts ==
    /\ \A c \in Carriers : c = <<c[1], c[2]>> /\ c[1] \in Messages
    /\ \A m \in Messages : Original(m) \in Carriers /\ ~IsRecovery(Original(m))
    /\ \A m \in Messages, v \in Recoveries : <<m, v>> \in Carriers /\ IsRecovery(<<m, v>>)
    /\ \A c \in Carriers : ~IsRecovery(c) => c = Original(c[1])
    /\ \A y \in Copies : y = <<y[1], y[2]>> /\ y[1] \in Carriers /\ y[2] \in Bodies
BY LaneAssumption DEF LaneAssumption, Carriers, Original, IsRecovery, Copies

-----------------------------------------------------------------------------
(* What a step does to each table. *)

\* The author's tables: each has one step that writes it.
AuthorWrites ==
    /\ bounds' = bounds
    /\ now' = now \/ Tick
    /\ members' = members \/ \E b \in Bodies : Depart(b)
    /\ plan' = plan \/ \E m \in Messages : Send(m)
    /\ authored' = authored \/ \E m \in Messages : Author(m)
    /\ natives' = natives \/ \E c \in Carriers : Admit(c)
    /\ visible' = visible \/ \E c \in Carriers : Publish(c)
    /\ selection' = selection \/ \E c \in Carriers : Select(c)
    /\ intents' = intents \/ \E c \in Carriers : Intend(c)
    /\ transports' = transports \/ \E c \in Carriers, b \in Bodies : ReserveTransport(c, b)
    /\ results' = results \/ \E c \in Carriers, b \in Bodies : Answered(c, b)
    /\ released' = released \/ \E c \in Carriers, b \in Bodies : Release(c, b)

\* The bodies' tables and the author's about receipts.
BodyWrites ==
    /\ UNCHANGED <<owed, admitted>> \/ \E c \in Carriers, b \in Bodies : AdmitMessage(c, b)
    /\ acks' = acks \/ \E c \in Carriers, b \in Bodies : Acknowledge(c, b)
    /\ receipts' = receipts \/ \E l \in Legs : AuthorReceipt(l)
    /\ returned' = returned \/ \E l \in Legs : ReceiptReturned(l)
    /\ ended' = ended \/ \E l \in Legs : Decide(l)
    /\ posted' = posted \/ \E l \in Legs : PostReceipt(l)
    /\ controls' = controls \/ \E l \in Legs : AdmitControl(l)
    /\ controlAcks' = controlAcks \/ \E l \in Legs : AckControl(l)
    /\ projected' = projected \/ \E l \in Legs : EndControl(l)
    /\ delivered' = delivered \/ \E l \in Legs : Project(l)

\* Every table is written by its own step.
LEMMA WhoWrites ==
    ASSUME Next
    PROVE  AuthorWrites /\ BodyWrites
<1> USE DEF env, budget, author, control, intake, return
<1>1. ASSUME NEW m \in Messages, Send(m) PROVE AuthorWrites /\ BodyWrites
  BY <1>1 DEF Send, AuthorWrites, BodyWrites
<1>2. ASSUME NEW m \in Messages, Author(m) PROVE AuthorWrites /\ BodyWrites
  BY <1>2 DEF Author, AuthorWrites, BodyWrites
<1>3. ASSUME NEW m \in Messages, NEW v \in Recoveries, Recover(m, v) PROVE AuthorWrites /\ BodyWrites
  BY <1>3 DEF Recover, AuthorWrites, BodyWrites
<1>4. ASSUME NEW c \in Carriers, Select(c) PROVE AuthorWrites /\ BodyWrites
  BY <1>4 DEF Select, AuthorWrites, BodyWrites
<1>5. ASSUME NEW c \in Carriers, Intend(c) PROVE AuthorWrites /\ BodyWrites
  BY <1>5 DEF Intend, AuthorWrites, BodyWrites
<1>6. ASSUME NEW c \in Carriers, Admit(c) PROVE AuthorWrites /\ BodyWrites
  BY <1>6 DEF Admit, AuthorWrites, BodyWrites
<1>7. ASSUME NEW c \in Carriers, Publish(c) PROVE AuthorWrites /\ BodyWrites
  BY <1>7 DEF Publish, AuthorWrites, BodyWrites
<1>8. ASSUME NEW c \in Carriers, Break(c) PROVE AuthorWrites /\ BodyWrites
  BY <1>8 DEF Break, AuthorWrites, BodyWrites
<1>9. ASSUME NEW c \in Carriers, Leave(c) PROVE AuthorWrites /\ BodyWrites
  BY <1>9 DEF Leave, AuthorWrites, BodyWrites
<1>10. ASSUME NEW c \in Carriers, NEW b \in Bodies, Start(c, b) PROVE AuthorWrites /\ BodyWrites
  BY <1>10 DEF Start, AuthorWrites, BodyWrites
<1>11. ASSUME NEW c \in Carriers, NEW b \in Bodies, ReserveTransport(c, b) PROVE AuthorWrites /\ BodyWrites
  BY <1>11 DEF ReserveTransport, AuthorWrites, BodyWrites
<1>12. ASSUME NEW c \in Carriers, NEW b \in Bodies, Release(c, b) PROVE AuthorWrites /\ BodyWrites
  BY <1>12 DEF Release, AuthorWrites, BodyWrites
<1>13. ASSUME NEW c \in Carriers, NEW b \in Bodies, Answered(c, b) PROVE AuthorWrites /\ BodyWrites
  BY <1>13 DEF Answered, AuthorWrites, BodyWrites
<1>14. ASSUME NEW c \in Carriers, NEW b \in Bodies, Lose(c, b) PROVE AuthorWrites /\ BodyWrites
  BY <1>14 DEF Lose, AuthorWrites, BodyWrites
<1>15. ASSUME NEW c \in Carriers, NEW b \in Bodies, AdmitMessage(c, b) PROVE AuthorWrites /\ BodyWrites
  BY <1>15 DEF AdmitMessage, AuthorWrites, BodyWrites
<1>16. ASSUME NEW c \in Carriers, NEW b \in Bodies, RefuseMessage(c, b) PROVE AuthorWrites /\ BodyWrites
  BY <1>16 DEF RefuseMessage, AuthorWrites, BodyWrites
<1>17. ASSUME NEW c \in Carriers, NEW b \in Bodies, Finalize(c, b) PROVE AuthorWrites /\ BodyWrites
  BY <1>17 DEF Finalize, AuthorWrites, BodyWrites
<1>18. ASSUME NEW c \in Carriers, NEW b \in Bodies, Acknowledge(c, b) PROVE AuthorWrites /\ BodyWrites
  BY <1>18 DEF Acknowledge, AuthorWrites, BodyWrites
<1>19. ASSUME NEW l \in Legs, AuthorReceipt(l) PROVE AuthorWrites /\ BodyWrites
  BY <1>19 DEF AuthorReceipt, AuthorWrites, BodyWrites
<1>20. ASSUME NEW l \in Legs, Decide(l) PROVE AuthorWrites /\ BodyWrites
  BY <1>20 DEF Decide, AuthorWrites, BodyWrites
<1>21. ASSUME NEW l \in Legs, PostReceipt(l) PROVE AuthorWrites /\ BodyWrites
  BY <1>21 DEF PostReceipt, AuthorWrites, BodyWrites
<1>22. ASSUME NEW l \in Legs, ReceiptReturned(l) PROVE AuthorWrites /\ BodyWrites
  BY <1>22 DEF ReceiptReturned, AuthorWrites, BodyWrites
<1>23. ASSUME NEW l \in Legs, ReceiptLost(l) PROVE AuthorWrites /\ BodyWrites
  BY <1>23 DEF ReceiptLost, AuthorWrites, BodyWrites
<1>24. ASSUME NEW l \in Legs, AdmitControl(l) PROVE AuthorWrites /\ BodyWrites
  BY <1>24 DEF AdmitControl, AuthorWrites, BodyWrites
<1>25. ASSUME NEW l \in Legs, AckControl(l) PROVE AuthorWrites /\ BodyWrites
  BY <1>25 DEF AckControl, AuthorWrites, BodyWrites
<1>26. ASSUME NEW l \in Legs, Project(l) PROVE AuthorWrites /\ BodyWrites
  BY <1>26 DEF Project, AuthorWrites, BodyWrites
<1>27. ASSUME NEW l \in Legs, EndControl(l) PROVE AuthorWrites /\ BodyWrites
  BY <1>27 DEF EndControl, AuthorWrites, BodyWrites
<1>28. ASSUME AuthorCrash PROVE AuthorWrites /\ BodyWrites
  BY <1>28 DEF AuthorCrash, AuthorWrites, BodyWrites
<1>29. ASSUME Tick PROVE AuthorWrites /\ BodyWrites
  BY <1>29 DEF Tick, AuthorWrites, BodyWrites
<1>30. ASSUME NEW b \in Bodies, BodyCrash(b) PROVE AuthorWrites /\ BodyWrites
  BY <1>30 DEF BodyCrash, AuthorWrites, BodyWrites
<1>31. ASSUME NEW b \in Bodies, Depart(b) PROVE AuthorWrites /\ BodyWrites
  BY <1>31 DEF Depart, AuthorWrites, BodyWrites
<1>32. ASSUME NEW b \in Bodies, Move(b) PROVE AuthorWrites /\ BodyWrites
  BY <1>32 DEF Move, AuthorWrites, BodyWrites
<1>33. ASSUME NEW b \in Bodies, Retire(b) PROVE AuthorWrites /\ BodyWrites
  BY <1>33 DEF Retire, AuthorWrites, BodyWrites
<1> QED BY <1>1, <1>2, <1>3, <1>4, <1>5, <1>6, <1>7, <1>8, <1>9, <1>10, <1>11, <1>12, <1>13, <1>14, <1>15, <1>16, <1>17, <1>18, <1>19, <1>20, <1>21, <1>22, <1>23, <1>24, <1>25, <1>26, <1>27, <1>28, <1>29, <1>30, <1>31, <1>32, <1>33
  DEF Next, CallNext, RowNext, LegNext

-----------------------------------------------------------------------------
(* The records are kept. *)

\* What a table of entries f was is in g.
Extends(g, f) == \A x \in DOMAIN f : x \in DOMAIN g /\ g[x] = f[x]

AuthorKeeps ==
    /\ now <= now' /\ Extends(plan', plan) /\ Extends(selection', selection)
    /\ Extends(intents', intents)
    /\ authored \subseteq authored' /\ natives \subseteq natives' /\ visible \subseteq visible'
    /\ transports \subseteq transports' /\ released \subseteq released'

BodyKeeps ==
    /\ Extends(owed', owed) /\ Extends(receipts', receipts)
    /\ DOMAIN returned \subseteq DOMAIN returned' /\ posted \subseteq posted'
    /\ controls \subseteq controls' /\ controlAcks \subseteq controlAcks'
    /\ delivered \subseteq delivered' /\ projected \subseteq projected'

\* No step drops or rewrites a record.
LEMMA RecordsKept ==
    ASSUME TypeOK, Next
    PROVE  AuthorKeeps /\ BodyKeeps
<1>1. AuthorWrites /\ BodyWrites BY WhoWrites
<1>2. now <= now' BY <1>1 DEF AuthorWrites, Tick, TypeOK
<1>3. Extends(plan', plan)
  BY <1>1 DEF AuthorWrites, Send, Extends, Put
<1>4. Extends(selection', selection)
  <2>1. CASE selection' = selection BY <2>1 DEF Extends
  <2>2. ASSUME NEW c \in Carriers, Select(c) PROVE Extends(selection', selection)
    <3>1. CASE c[1] \in DOMAIN selection /\ selection[c[1]] # c[2]
      BY <2>2, <3>1 DEF Select, Extends
    <3>2. CASE ~(c[1] \in DOMAIN selection /\ selection[c[1]] # c[2])
      <4>1. selection' = Put(selection, c[1], c[2]) BY <2>2, <3>2 DEF Select
      <4> QED BY <4>1, <3>2 DEF Extends, Put
    <3> QED BY <3>1, <3>2
  <2> QED BY <1>1, <2>1, <2>2 DEF AuthorWrites
<1>5. Extends(intents', intents)
  BY <1>1 DEF AuthorWrites, Intend, Extends, Put
<1>6. authored \subseteq authored' BY <1>1 DEF AuthorWrites, Author
<1>7. natives \subseteq natives' BY <1>1 DEF AuthorWrites, Admit
<1>8. visible \subseteq visible' BY <1>1 DEF AuthorWrites, Publish
<1>9. transports \subseteq transports' BY <1>1 DEF AuthorWrites, ReserveTransport
<1>10. released \subseteq released' BY <1>1 DEF AuthorWrites, Release
<1>11. Extends(owed', owed)
  BY <1>1 DEF BodyWrites, AdmitMessage, Extends, Put
<1>12. Extends(receipts', receipts)
  BY <1>1 DEF BodyWrites, AuthorReceipt, Extends, Put
<1>13. DOMAIN returned \subseteq DOMAIN returned'
  BY <1>1 DEF BodyWrites, ReceiptReturned, Put
<1>14. posted \subseteq posted' BY <1>1 DEF BodyWrites, PostReceipt
<1>15. controls \subseteq controls' BY <1>1 DEF BodyWrites, AdmitControl
<1>16. controlAcks \subseteq controlAcks' BY <1>1 DEF BodyWrites, AckControl
<1>17. delivered \subseteq delivered' BY <1>1 DEF BodyWrites, Project
<1>18. projected \subseteq projected' BY <1>1 DEF BodyWrites, EndControl
<1> QED
  BY <1>2, <1>3, <1>4, <1>5, <1>6, <1>7, <1>8, <1>9, <1>10, <1>11, <1>12, <1>13, <1>14,
     <1>15, <1>16, <1>17, <1>18 DEF AuthorKeeps, BodyKeeps

-----------------------------------------------------------------------------
(* How calls, workers and returns move. *)

\* A call stays, ends, or takes the next step and leaves its record.
CallMoves(c) ==
    \/ pc'[c] = pc[c]
    \/ pc'[c] = "idle"
    \/ pc'[c] = "planned" /\ ~IsRecovery(c) /\ c[1] \in DOMAIN plan'
    \/ pc'[c] = "checked" /\ IsRecovery(c) /\ c[1] \in authored /\ plan[c[1]].expires <= now
    \/ pc[c] = "checked" /\ pc'[c] = "selected" /\ c[1] \in DOMAIN selection' /\ selection'[c[1]] = c[2]
    \/ pc[c] = "planned" /\ pc'[c] = "ready"
    \/ pc[c] = "selected" /\ pc'[c] = "ready" /\ c \in DOMAIN intents'
    \/ pc[c] = "ready" /\ pc'[c] = "admitted" /\ c \in natives'
    \/ pc[c] = "admitted" /\ pc'[c] = "fanout" /\ c \in visible'

\* A worker of a row: likewise.
RowMoves(y) ==
    \/ task'[y] = task[y]
    \/ task'[y] = "idle"
    \/ pc[y[1]] = "fanout" /\ task'[y] = "started"
    \/ task[y] = "started" /\ task'[y] = "reserved" /\ y \in transports'
    \/ task[y] = "reserved" /\ task'[y] = "waiting" /\ y \in released'
    \/ task[y] = "waiting" /\ task'[y] = "reserved"

\* An attempt to return a receipt: likewise.
ReturnMoves(l) ==
    \/ back'[l] = back[l]
    \/ back'[l] = "idle"
    \/ back'[l] \in {"authored", "sending", "waiting"} /\ (back[l] = "idle" => l \in DOMAIN receipts')

Moves ==
    /\ PlacesOK'
    /\ \A c \in Carriers : CallMoves(c)
    /\ \A y \in Copies : RowMoves(y)
    /\ \A l \in Legs : ReturnMoves(l)

\* Every step moves calls, workers and returns like this.
LEMMA EveryStepMoves ==
    ASSUME TypeOK, PlacesOK, CallsOK, Next
    PROVE  Moves
<1> USE CarrierFacts DEF PlacesOK, env, budget, author, control, intake, return
<1>1. ASSUME NEW m \in Messages, Send(m) PROVE Moves
  BY <1>1 DEF Send, Moves, CallMoves, RowMoves, ReturnMoves, Step, Original, Put
<1>2. ASSUME NEW m \in Messages, Author(m) PROVE Moves
  BY <1>2 DEF Author, Moves, CallMoves, RowMoves, ReturnMoves, Step, Original
<1>3. ASSUME NEW m \in Messages, NEW v \in Recoveries, Recover(m, v) PROVE Moves
  BY <1>3 DEF Recover, Moves, CallMoves, RowMoves, ReturnMoves, Step
<1>4. ASSUME NEW c \in Carriers, Select(c) PROVE Moves
  BY <1>4 DEF Select, Moves, CallMoves, RowMoves, ReturnMoves, Step, Stop, Put
<1>5. ASSUME NEW c \in Carriers, Intend(c) PROVE Moves
  BY <1>5 DEF Intend, Moves, CallMoves, RowMoves, ReturnMoves, Step, Stop, Put
<1>6. ASSUME NEW c \in Carriers, Admit(c) PROVE Moves
  BY <1>6 DEF Admit, Moves, CallMoves, RowMoves, ReturnMoves, Step, Stop
<1>7. ASSUME NEW c \in Carriers, Publish(c) PROVE Moves
  BY <1>7 DEF Publish, Moves, CallMoves, RowMoves, ReturnMoves, Step, Stop
<1>8. ASSUME NEW c \in Carriers, Break(c) PROVE Moves
  BY <1>8 DEF Break, Moves, CallMoves, RowMoves, ReturnMoves, Step, Stop
<1>9. ASSUME NEW c \in Carriers, Leave(c) PROVE Moves
  BY <1>9 DEF Leave, Moves, CallMoves, RowMoves, ReturnMoves, Step, Stop
<1>10. ASSUME NEW c \in Carriers, NEW b \in Bodies, Start(c, b) PROVE Moves
  BY <1>10 DEF Start, Moves, CallMoves, RowMoves, ReturnMoves, Work
<1>11. ASSUME NEW c \in Carriers, NEW b \in Bodies, ReserveTransport(c, b) PROVE Moves
  BY <1>11 DEF ReserveTransport, Moves, CallMoves, RowMoves, ReturnMoves, Work
<1>12. ASSUME NEW c \in Carriers, NEW b \in Bodies, Release(c, b) PROVE Moves
  BY <1>12 DEF Release, Moves, CallMoves, RowMoves, ReturnMoves, Work
<1>13. ASSUME NEW c \in Carriers, NEW b \in Bodies, Answered(c, b) PROVE Moves
  BY <1>13 DEF Answered, Moves, CallMoves, RowMoves, ReturnMoves, Work
<1>14. ASSUME NEW c \in Carriers, NEW b \in Bodies, Lose(c, b) PROVE Moves
  BY <1>14 DEF Lose, Moves, CallMoves, RowMoves, ReturnMoves, Work
<1>15. ASSUME NEW c \in Carriers, NEW b \in Bodies, AdmitMessage(c, b) PROVE Moves
  BY <1>15 DEF AdmitMessage, Moves, CallMoves, RowMoves, ReturnMoves
<1>16. ASSUME NEW c \in Carriers, NEW b \in Bodies, RefuseMessage(c, b) PROVE Moves
  BY <1>16 DEF RefuseMessage, Moves, CallMoves, RowMoves, ReturnMoves
<1>17. ASSUME NEW c \in Carriers, NEW b \in Bodies, Finalize(c, b) PROVE Moves
  BY <1>17 DEF Finalize, Moves, CallMoves, RowMoves, ReturnMoves
<1>18. ASSUME NEW c \in Carriers, NEW b \in Bodies, Acknowledge(c, b) PROVE Moves
  BY <1>18 DEF Acknowledge, Moves, CallMoves, RowMoves, ReturnMoves
<1>19. ASSUME NEW l \in Legs, AuthorReceipt(l) PROVE Moves
  BY <1>19 DEF AuthorReceipt, Moves, CallMoves, RowMoves, ReturnMoves, Return, Put
<1>20. ASSUME NEW l \in Legs, Decide(l) PROVE Moves
  BY <1>20 DEF Decide, Moves, CallMoves, RowMoves, ReturnMoves, Return
<1>21. ASSUME NEW l \in Legs, PostReceipt(l) PROVE Moves
  BY <1>21 DEF PostReceipt, Moves, CallMoves, RowMoves, ReturnMoves, Return
<1>22. ASSUME NEW l \in Legs, ReceiptReturned(l) PROVE Moves
  BY <1>22 DEF ReceiptReturned, Moves, CallMoves, RowMoves, ReturnMoves, Return
<1>23. ASSUME NEW l \in Legs, ReceiptLost(l) PROVE Moves
  BY <1>23 DEF ReceiptLost, Moves, CallMoves, RowMoves, ReturnMoves, Return
<1>24. ASSUME NEW l \in Legs, AdmitControl(l) PROVE Moves
  BY <1>24 DEF AdmitControl, Moves, CallMoves, RowMoves, ReturnMoves
<1>25. ASSUME NEW l \in Legs, AckControl(l) PROVE Moves
  BY <1>25 DEF AckControl, Moves, CallMoves, RowMoves, ReturnMoves
<1>26. ASSUME NEW l \in Legs, Project(l) PROVE Moves
  BY <1>26 DEF Project, Moves, CallMoves, RowMoves, ReturnMoves
<1>27. ASSUME NEW l \in Legs, EndControl(l) PROVE Moves
  BY <1>27 DEF EndControl, Moves, CallMoves, RowMoves, ReturnMoves
<1>28. ASSUME AuthorCrash PROVE Moves
  BY <1>28 DEF AuthorCrash, Moves, CallMoves, RowMoves, ReturnMoves
<1>29. ASSUME Tick PROVE Moves
  BY <1>29 DEF Tick, Moves, CallMoves, RowMoves, ReturnMoves
<1>30. ASSUME NEW b \in Bodies, BodyCrash(b) PROVE Moves
  BY <1>30 DEF BodyCrash, Moves, CallMoves, RowMoves, ReturnMoves
<1>31. ASSUME NEW b \in Bodies, Depart(b) PROVE Moves
  BY <1>31 DEF Depart, Moves, CallMoves, RowMoves, ReturnMoves
<1>32. ASSUME NEW b \in Bodies, Move(b) PROVE Moves
  BY <1>32 DEF Move, Moves, CallMoves, RowMoves, ReturnMoves
<1>33. ASSUME NEW b \in Bodies, Retire(b) PROVE Moves
  BY <1>33 DEF Retire, Moves, CallMoves, RowMoves, ReturnMoves
<1> QED BY <1>1, <1>2, <1>3, <1>4, <1>5, <1>6, <1>7, <1>8, <1>9, <1>10, <1>11, <1>12, <1>13, <1>14, <1>15, <1>16, <1>17, <1>18, <1>19, <1>20, <1>21, <1>22, <1>23, <1>24, <1>25, <1>26, <1>27, <1>28, <1>29, <1>30, <1>31, <1>32, <1>33
  DEF Next, CallNext, RowNext, LegNext

-----------------------------------------------------------------------------
(* The parts of the invariant, one after the other. *)

\* A call rests on the records it left (messaging.py: send, recover).
LEMMA CallsStay ==
    ASSUME LaneInv, Next
    PROVE  CallsOK'
<1>1. Moves /\ AuthorKeeps BY EveryStepMoves, RecordsKept DEF LaneInv
<1>2. SUFFICES ASSUME NEW c \in Carriers
      PROVE  /\ pc'[c] = "planned" => ~IsRecovery(c)
             /\ pc'[c] \in {"checked", "selected"} => IsRecovery(c)
             /\ pc'[c] # "idle" => c[1] \in DOMAIN plan'
             /\ pc'[c] = "selected" => c[1] \in DOMAIN selection' /\ selection'[c[1]] = c[2]
             /\ pc'[c] \in {"ready", "admitted", "fanout"} /\ IsRecovery(c) => c \in DOMAIN intents'
             /\ pc'[c] \in {"admitted", "fanout"} => c \in natives'
             /\ pc'[c] = "fanout" => c \in visible'
  BY DEF CallsOK, IsRecovery
<1>3. /\ pc[c] = "planned" => ~IsRecovery(c)
      /\ pc[c] \in {"checked", "selected"} => IsRecovery(c)
      /\ pc[c] # "idle" => c[1] \in DOMAIN plan
      /\ pc[c] = "selected" => c[1] \in DOMAIN selection /\ selection[c[1]] = c[2]
      /\ pc[c] \in {"ready", "admitted", "fanout"} /\ IsRecovery(c) => c \in DOMAIN intents
      /\ pc[c] \in {"admitted", "fanout"} => c \in natives
      /\ pc[c] = "fanout" => c \in visible
  BY DEF LaneInv, CallsOK
<1>4. CallMoves(c) BY <1>1 DEF Moves
<1>5. authored \subseteq DOMAIN plan BY DEF LaneInv, TypeOK
<1> QED BY <1>1, <1>3, <1>4, <1>5 DEF CallMoves, AuthorKeeps, Extends

\* A recovery exists only when its original is over: the clock does not go back.
LEMMA RecoveriesStay ==
    ASSUME LaneInv, Next
    PROVE  RecoveriesOK'
<1>1. Moves /\ AuthorKeeps /\ AuthorWrites BY EveryStepMoves, RecordsKept, WhoWrites DEF LaneInv
<1>2. SUFFICES ASSUME NEW c \in Carriers, IsRecovery(c), pc'[c] # "idle" \/ c \in natives'
      PROVE  c[1] \in DOMAIN plan' /\ plan'[c[1]].expires <= now'
  BY DEF RecoveriesOK, IsRecovery
<1>3. c[1] \in DOMAIN plan /\ plan[c[1]].expires <= now
  <2>1. pc[c] # "idle" \/ c \in natives => c[1] \in DOMAIN plan /\ plan[c[1]].expires <= now
    BY <1>2 DEF LaneInv, RecoveriesOK
  <2>2. CASE pc'[c] # "idle"
    <3>1. CallMoves(c) BY <1>1 DEF Moves
    <3>2. authored \subseteq DOMAIN plan BY DEF LaneInv, TypeOK
    <3> QED BY <1>2, <2>1, <2>2, <3>1, <3>2 DEF CallMoves
  <2>3. CASE c \in natives' /\ c \notin natives
    <3>1. pc[c] = "ready" BY <1>1, <2>3 DEF AuthorWrites, Admit
    <3> QED BY <2>1, <3>1
  <2> QED BY <1>2, <2>1, <2>2, <2>3
<1>4. plan'[c[1]] = plan[c[1]] /\ c[1] \in DOMAIN plan' BY <1>1, <1>3 DEF AuthorKeeps, Extends
<1>5. now \in Nat /\ now' \in Nat /\ plan[c[1]].expires \in Nat /\ now <= now'
  BY <1>1, <1>3, LaneAssumption DEF LaneInv, TypeOK, AuthorKeeps, AuthorWrites, Tick, LaneAssumption
<1> QED BY <1>3, <1>4, <1>5

\* A worker of a row rests on what it reserved and wrote (_transmit_one).
LEMMA RowsStay ==
    ASSUME LaneInv, Next
    PROVE  RowsOK'
<1>1. Moves /\ AuthorKeeps BY EveryStepMoves, RecordsKept DEF LaneInv
<1>2. SUFFICES ASSUME NEW y \in Copies
      PROVE  /\ task'[y] = "started" => y[1] \in visible'
             /\ task'[y] \in {"reserved", "waiting"} => y \in transports'
             /\ task'[y] = "waiting" => y \in released'
  BY DEF RowsOK
<1>3. /\ task[y] = "started" => y[1] \in visible
      /\ task[y] \in {"reserved", "waiting"} => y \in transports
      /\ task[y] = "waiting" => y \in released
  BY DEF LaneInv, RowsOK
<1>4. y[1] \in Carriers /\ (pc[y[1]] = "fanout" => y[1] \in visible)
  BY CarrierFacts DEF LaneInv, CallsOK
<1>5. RowMoves(y) BY <1>1 DEF Moves
<1> QED BY <1>1, <1>3, <1>4, <1>5 DEF RowMoves, AuthorKeeps

\* A receipt is posted, proven and ended in this order (complete_receipt).
LEMMA ReturnsStay ==
    ASSUME LaneInv, Next
    PROVE  ReturnsOK'
<1>1. Moves /\ BodyKeeps /\ BodyWrites BY EveryStepMoves, RecordsKept, WhoWrites DEF LaneInv
<1> USE DEF LaneInv, ReturnsOK
<1>2. \A l \in Legs : back'[l] # "idle" => l \in DOMAIN receipts'
  <2>1. SUFFICES ASSUME NEW l \in Legs, back'[l] # "idle" PROVE l \in DOMAIN receipts' OBVIOUS
  <2>2. CASE back[l] # "idle" BY <1>1, <2>2 DEF BodyKeeps, Extends
  <2>3. CASE back[l] = "idle" BY <1>1, <2>1, <2>3 DEF Moves, ReturnMoves
  <2> QED BY <2>2, <2>3
<1>3. posted' \subseteq DOMAIN receipts'
  BY <1>1 DEF BodyKeeps, BodyWrites, Extends, PostReceipt
<1>4. controls' \subseteq posted'
  BY <1>1 DEF BodyKeeps, BodyWrites, AdmitControl
<1>5. controlAcks' \subseteq controls'
  BY <1>1 DEF BodyKeeps, BodyWrites, AckControl
<1>6. DOMAIN returned' \subseteq controlAcks'
  BY <1>1 DEF BodyKeeps, BodyWrites, ReceiptReturned, Put
<1>7. \A l \in DOMAIN ended' : ended'[l] # "expired" => l \in DOMAIN returned'
  BY <1>1 DEF BodyKeeps, BodyWrites, Decide, Put
<1> QED BY <1>2, <1>3, <1>4, <1>5, <1>6, <1>7

\* A receipt shows the time of the first observation.
LEMMA ObservationsStay ==
    ASSUME LaneInv, Next
    PROVE  ReceiptsShowFirstObservation'
<1>1. ReturnsOK' /\ BodyKeeps /\ BodyWrites BY ReturnsStay, RecordsKept, WhoWrites DEF LaneInv
<1>2. delivered' \subseteq DOMAIN receipts'
  <2>1. delivered' \subseteq delivered \cup controlAcks BY <1>1 DEF BodyWrites, Project
  <2>2. delivered \subseteq controls BY DEF LaneInv, TypeOK
  <2> QED BY <1>1, <2>1, <2>2 DEF ReturnsOK, BodyKeeps, LaneInv
<1>3. \A l \in DOMAIN receipts' : l \in DOMAIN owed' /\ receipts'[l] = owed'[l].observed
  <2>1. \A l \in DOMAIN receipts : l \in DOMAIN owed' /\ receipts[l] = owed'[l].observed
    BY <1>1 DEF LaneInv, ReceiptsShowFirstObservation, BodyKeeps, Extends
  <2>2. CASE receipts' = receipts BY <2>1, <2>2
  <2>3. ASSUME NEW l \in Legs, AuthorReceipt(l)
        PROVE  \A k \in DOMAIN receipts' : k \in DOMAIN owed' /\ receipts'[k] = owed'[k].observed
    BY <2>1, <2>3 DEF AuthorReceipt, Put, intake
  <2> QED BY <1>1, <2>2, <2>3 DEF BodyWrites
<1> QED BY <1>2, <1>3 DEF ReceiptsShowFirstObservation

\* Records name the records they rest on.
LEMMA AuthorTypesStay ==
    ASSUME LaneInv, Next
    PROVE  /\ now' \in 0..MaxTime /\ members' \subseteq Bodies
           /\ DOMAIN plan' \subseteq Messages /\ authored' \subseteq DOMAIN plan'
           /\ \A m \in DOMAIN plan' : plan'[m] \in [rows: SUBSET Bodies, expires: 0..MaxTime]
<1>1. AuthorKeeps /\ AuthorWrites BY RecordsKept, WhoWrites DEF LaneInv
<1> USE DEF LaneInv
<1>2. now' \in 0..MaxTime
  BY <1>1, LaneAssumption DEF AuthorWrites, Tick, TypeOK, LaneAssumption
<1>3. members' \subseteq Bodies BY <1>1 DEF AuthorWrites, Depart, TypeOK
<1>4. plan' = plan \/ \E m \in Messages :
        /\ plan' = Put(plan, m, [rows |-> Addressed, expires |-> now + Ttl])
        /\ InReach
  BY <1>1 DEF AuthorWrites, Send
<1>5. authored' \subseteq DOMAIN plan'
  <2>1. ASSUME NEW m \in Messages, Author(m) PROVE m \in DOMAIN plan
    BY <2>1, CarrierFacts DEF Author, CallsOK, Original
  <2>2. authored' \subseteq DOMAIN plan BY <1>1, <2>1 DEF AuthorWrites, Author, TypeOK
  <2> QED BY <1>1, <2>2 DEF AuthorKeeps, Extends
<1>6. /\ DOMAIN plan' \subseteq Messages
      /\ \A m \in DOMAIN plan' : plan'[m] \in [rows: SUBSET Bodies, expires: 0..MaxTime]
  <2>1. CASE plan' = plan BY <2>1 DEF TypeOK
  <2>2. ASSUME NEW m \in Messages, InReach,
               plan' = Put(plan, m, [rows |-> Addressed, expires |-> now + Ttl])
        PROVE  /\ DOMAIN plan' \subseteq Messages
               /\ \A k \in DOMAIN plan' : plan'[k] \in [rows: SUBSET Bodies, expires: 0..MaxTime]
    <3>1. now + Ttl \in 0..MaxTime
      BY <2>2, LaneAssumption DEF InReach, TypeOK, LaneAssumption
    <3>2. [rows |-> Addressed, expires |-> now + Ttl] \in [rows: SUBSET Bodies, expires: 0..MaxTime]
      BY <3>1 DEF TypeOK, Addressed
    <3>3. /\ DOMAIN plan' = DOMAIN plan \cup {m}
          /\ plan'[m] = [rows |-> Addressed, expires |-> now + Ttl]
          /\ \A k \in DOMAIN plan : k # m => plan'[k] = plan[k]
      BY <2>2 DEF Put
    <3> QED BY <3>2, <3>3 DEF TypeOK
  <2> QED BY <1>4, <2>1, <2>2 DEF TypeOK
<1> QED BY <1>2, <1>3, <1>5, <1>6

\* A carrier is released after it is reserved, visible, admitted and intended.
LEMMA CarrierTypesStay ==
    ASSUME LaneInv, Next
    PROVE  /\ visible' \subseteq natives' /\ natives' \subseteq Carriers
           /\ \A c \in natives' : IsRecovery(c) => c \in DOMAIN intents'
           /\ \A c \in DOMAIN intents' : c[1] \in DOMAIN selection' /\ selection'[c[1]] = c[2]
           /\ released' \subseteq transports' /\ transports' \subseteq visible' \X Bodies
           /\ DOMAIN results' \subseteq released'
<1>1. AuthorKeeps /\ AuthorWrites BY RecordsKept, WhoWrites DEF LaneInv
<1> USE DEF LaneInv
<1>2. visible' \subseteq natives'
  BY <1>1 DEF AuthorKeeps, AuthorWrites, Publish, TypeOK, CallsOK
<1>3. natives' \subseteq Carriers BY <1>1 DEF AuthorWrites, Admit, TypeOK
<1>4. \A c \in natives' : IsRecovery(c) => c \in DOMAIN intents'
  <2>1. \A c \in natives' : IsRecovery(c) => c \in DOMAIN intents
    BY <1>1 DEF AuthorWrites, Admit, TypeOK, CallsOK
  <2> QED BY <1>1, <2>1 DEF AuthorKeeps, Extends
<1>5. \A c \in DOMAIN intents' : c[1] \in DOMAIN selection' /\ selection'[c[1]] = c[2]
  <2>1. \A c \in DOMAIN intents' : c[1] \in DOMAIN selection /\ selection[c[1]] = c[2]
    <3>1. CASE intents' = intents BY <3>1 DEF TypeOK
    <3>2. ASSUME NEW d \in Carriers, Intend(d)
          PROVE  \A c \in DOMAIN intents' : c[1] \in DOMAIN selection /\ selection[c[1]] = c[2]
      <4>1. pc[d] = "selected" /\ DOMAIN intents' \subseteq DOMAIN intents \cup {d}
        BY <3>2 DEF Intend, Put
      <4> QED BY <4>1 DEF TypeOK, CallsOK
    <3> QED BY <1>1, <3>1, <3>2 DEF AuthorWrites
  <2> QED BY <1>1, <2>1 DEF AuthorKeeps, Extends
<1>6. released' \subseteq transports'
  <2>1. ASSUME NEW c \in Carriers, NEW b \in Bodies, Release(c, b) PROVE released' \subseteq transports
    <3>1. <<c, b>> \in Copies BY DEF Copies
    <3>2. <<c, b>> \in transports BY <2>1, <3>1 DEF Release, RowsOK
    <3> QED BY <2>1, <3>2 DEF Release, TypeOK
  <2> QED BY <1>1, <2>1 DEF AuthorKeeps, AuthorWrites, TypeOK
<1>7. transports' \subseteq visible' \X Bodies
  <2>1. ASSUME NEW c \in Carriers, NEW b \in Bodies, ReserveTransport(c, b)
        PROVE  transports' \subseteq visible \X Bodies
    <3>1. <<c, b>> \in Copies /\ <<c, b>>[1] = c BY DEF Copies
    <3>2. c \in visible BY <2>1, <3>1 DEF ReserveTransport, RowsOK
    <3> QED BY <2>1, <3>2 DEF ReserveTransport, TypeOK
  <2> QED BY <1>1, <2>1 DEF AuthorKeeps, AuthorWrites, TypeOK
<1>8. DOMAIN results' \subseteq released'
  <2>1. ASSUME NEW c \in Carriers, NEW b \in Bodies, Answered(c, b)
        PROVE  DOMAIN results' \subseteq released
    <3>1. <<c, b>> \in Copies BY DEF Copies
    <3>2. <<c, b>> \in released BY <2>1, <3>1 DEF Answered, RowsOK
    <3>3. DOMAIN results' = DOMAIN results \cup {<<c, b>>} BY <2>1 DEF Answered, Put
    <3> QED BY <3>2, <3>3 DEF TypeOK
  <2> QED BY <1>1, <2>1 DEF AuthorKeeps, AuthorWrites, TypeOK
<1> QED BY <1>2, <1>3, <1>4, <1>5, <1>6, <1>7, <1>8

\* A body's records, and the author's about receipts, likewise.
LEMMA BodyTypesStay ==
    ASSUME LaneInv, Next
    PROVE  /\ admitted' \subseteq released' /\ acks' \subseteq admitted'
           /\ projected' \subseteq delivered' /\ delivered' \subseteq controls'
           /\ DOMAIN ended' \subseteq DOMAIN receipts' /\ DOMAIN receipts' \subseteq DOMAIN owed'
<1>1. AuthorKeeps /\ BodyKeeps /\ BodyWrites BY RecordsKept, WhoWrites DEF LaneInv
<1>2. ReturnsOK' /\ ReceiptsShowFirstObservation' BY ReturnsStay, ObservationsStay
<1> USE DEF LaneInv
<1>3. admitted' \subseteq released' BY <1>1 DEF AuthorKeeps, BodyWrites, AdmitMessage, TypeOK
<1>4. acks' \subseteq admitted'
  <2>1. admitted \subseteq admitted' BY <1>1 DEF BodyWrites, AdmitMessage
  <2> QED BY <1>1, <2>1 DEF BodyWrites, Acknowledge, TypeOK
<1>5. projected' \subseteq delivered' BY <1>1 DEF BodyKeeps, BodyWrites, EndControl, TypeOK
<1>6. delivered' \subseteq controls'
  BY <1>1 DEF BodyKeeps, BodyWrites, Project, TypeOK, ReturnsOK
<1>7. DOMAIN ended' \subseteq DOMAIN receipts'
  <2>1. ASSUME NEW l \in Legs, Decide(l) PROVE DOMAIN ended' \subseteq DOMAIN receipts
    <3>1. l \in DOMAIN receipts BY <2>1 DEF Decide, ReturnsOK
    <3>2. DOMAIN ended' \subseteq DOMAIN ended \cup {l} BY <2>1 DEF Decide, Put
    <3> QED BY <3>1, <3>2 DEF TypeOK
  <2>2. DOMAIN ended' \subseteq DOMAIN receipts BY <1>1, <2>1 DEF BodyWrites, TypeOK
  <2> QED BY <1>1, <2>2 DEF BodyKeeps, Extends
<1>8. DOMAIN receipts' \subseteq DOMAIN owed'
  BY <1>2 DEF ReceiptsShowFirstObservation
<1> QED BY <1>3, <1>4, <1>5, <1>6, <1>7, <1>8

\* The type invariant is kept.
LEMMA TypesStay ==
    ASSUME LaneInv, Next
    PROVE  TypeOK'
BY AuthorTypesStay, CarrierTypesStay, BodyTypesStay DEF TypeOK, IsRecovery

\* A recovery is released only if the original never was, and the original only
\* before its deadline, when no recovery exists (_validate_recovery_parent).
LEMMA CarriedOnceStays ==
    ASSUME LaneInv, Next
    PROVE  CarriedOnce'
<1>1. AuthorWrites BY WhoWrites
<1>2. CASE released' = released BY <1>2 DEF LaneInv, CarriedOnce, IsRecovery, Original
<1>3. ASSUME NEW c \in Carriers, NEW b \in Bodies, Release(c, b) PROVE CarriedOnce'
  <2>1. released' = released \cup {<<c, b>>} /\ Releasable(c) BY <1>3 DEF Release
  <2>2. \A y \in released : y[1] \in Carriers /\ y[1] \in natives
    BY DEF LaneInv, TypeOK
  <2>3. CASE IsRecovery(c)
    <3>1. \A d \in Bodies : <<Original(c[1]), d>> \notin released
      BY <2>1, <2>3 DEF Releasable, ParentHolds, Unattempted
    <3>2. \A m \in Messages : Original(m) # c BY <2>3, CarrierFacts
    <3> QED BY <2>1, <2>2, <3>1, <3>2, CarrierFacts DEF LaneInv, CarriedOnce, IsRecovery, Original
  <2>4. CASE ~IsRecovery(c)
    <3>1. now < plan[c[1]].expires BY <2>1, <2>4 DEF Releasable, Deadline
    <3>2. \A y \in released : IsRecovery(y[1]) => c[1] # y[1][1]
      <4>1. SUFFICES ASSUME NEW y \in released, IsRecovery(y[1]), c[1] = y[1][1] PROVE FALSE
        OBVIOUS
      <4>2. c[1] \in DOMAIN plan /\ plan[c[1]].expires <= now
        BY <2>2, <4>1 DEF LaneInv, RecoveriesOK
      <4>3. plan[c[1]].expires \in Nat /\ now \in Nat
        BY <4>2, LaneAssumption DEF LaneInv, TypeOK, LaneAssumption
      <4> QED BY <3>1, <4>2, <4>3
    <3>3. c = Original(c[1]) BY <2>4, CarrierFacts
    <3> QED BY <2>1, <2>2, <2>4, <3>2, <3>3 DEF LaneInv, CarriedOnce, IsRecovery, Original
  <2> QED BY <2>3, <2>4
<1> QED BY <1>1, <1>2, <1>3 DEF AuthorWrites

-----------------------------------------------------------------------------
(* Room. *)

\* A set with room takes one more element.
LEMMA OneMore ==
    ASSUME NEW S, NEW T, NEW x, NEW k \in Nat, IsFiniteSet(S), Cardinality(S) < k, T \subseteq S \cup {x}
    PROVE  IsFiniteSet(T) /\ Cardinality(T) <= k
<1>1. IsFiniteSet(S \cup {x}) /\ Cardinality(S) \in Nat
  BY FS_AddElement, FS_CardinalityType
<1>2. Cardinality(S \cup {x}) = Cardinality(S) \/ Cardinality(S \cup {x}) = Cardinality(S) + 1
  BY FS_AddElement
<1>3. IsFiniteSet(T) /\ Cardinality(T) \in Nat /\ Cardinality(T) <= Cardinality(S \cup {x})
  BY <1>1, FS_Subset, FS_CardinalityType
<1> QED BY <1>1, <1>2, <1>3

\* A part of a set needs no more room.
LEMMA NoMore ==
    ASSUME NEW S, NEW T, NEW k \in Nat, IsFiniteSet(S), Cardinality(S) <= k, T \subseteq S
    PROVE  IsFiniteSet(T) /\ Cardinality(T) <= k
<1>1. IsFiniteSet(T) /\ Cardinality(T) <= Cardinality(S) BY FS_Subset
<1>2. Cardinality(T) \in Nat /\ Cardinality(S) \in Nat BY <1>1, FS_CardinalityType
<1> QED BY <1>1, <1>2

\* A body never holds more unfinished records than its capacity (commit_intake).
LEMMA BodyRoomStays ==
    ASSUME LaneInv, Next, NEW b \in Bodies
    PROVE  /\ IsFiniteSet(UnackedAt(b)') /\ Cardinality(UnackedAt(b)') <= MaxPending
           /\ IsFiniteSet(OwedAt(b)') /\ Cardinality(OwedAt(b)') <= MaxPending
<1>1. BodyWrites BY WhoWrites
<1>2. /\ IsFiniteSet(UnackedAt(b)) /\ Cardinality(UnackedAt(b)) <= MaxPending
      /\ IsFiniteSet(OwedAt(b)) /\ Cardinality(OwedAt(b)) <= MaxPending
  BY DEF LaneInv, RoomOK, CapacityHolds
<1>3. MaxPending \in Nat BY LaneAssumption DEF LaneAssumption
<1>4. acks \subseteq acks' BY <1>1 DEF BodyWrites, Acknowledge
<1>5. DOMAIN ended \subseteq DOMAIN ended' BY <1>1 DEF BodyWrites, Decide, Put
<1>6. CASE UNCHANGED <<owed, admitted>>
  <2>1. UnackedAt(b)' \subseteq UnackedAt(b) BY <1>4, <1>6 DEF UnackedAt
  <2>2. OwedAt(b)' \subseteq OwedAt(b) BY <1>5, <1>6 DEF OwedAt
  <2> QED BY <1>2, <1>3, <2>1, <2>2, NoMore
<1>7. ASSUME NEW c \in Carriers, NEW d \in Bodies, AdmitMessage(c, d)
      PROVE  /\ IsFiniteSet(UnackedAt(b)') /\ Cardinality(UnackedAt(b)') <= MaxPending
             /\ IsFiniteSet(OwedAt(b)') /\ Cardinality(OwedAt(b)') <= MaxPending
  <2>1. /\ admitted' = admitted \cup {<<c, d>>} /\ HasRoom(d, <<c[1], d>>)
        /\ DOMAIN owed' \subseteq DOMAIN owed \cup {<<c[1], d>>}
    BY <1>7 DEF AdmitMessage, Put
  <2>2. CASE b = d
    <3>1. UnackedAt(b)' \subseteq UnackedAt(b) \cup {<<c, b>>}
      BY <1>4, <2>1, <2>2 DEF UnackedAt
    <3>2. Cardinality(UnackedAt(b)) < MaxPending BY <2>1, <2>2 DEF HasRoom
    <3>3. IsFiniteSet(UnackedAt(b)') /\ Cardinality(UnackedAt(b)') <= MaxPending
      BY <1>2, <1>3, <3>1, <3>2, OneMore
    <3>4. CASE <<c[1], b>> \in DOMAIN owed
      <4>1. OwedAt(b)' \subseteq OwedAt(b) BY <1>5, <2>1, <2>2, <3>4 DEF OwedAt
      <4> QED BY <1>2, <1>3, <3>3, <4>1, NoMore
    <3>5. CASE <<c[1], b>> \notin DOMAIN owed
      <4>1. OwedAt(b)' \subseteq OwedAt(b) \cup {<<c[1], b>>} BY <1>5, <2>1, <2>2 DEF OwedAt
      <4>2. Cardinality(OwedAt(b)) < MaxPending BY <2>1, <2>2, <3>5 DEF HasRoom
      <4> QED BY <1>2, <1>3, <3>3, <4>1, <4>2, OneMore
    <3> QED BY <3>4, <3>5
  <2>3. CASE b # d
    <3>1. UnackedAt(b)' \subseteq UnackedAt(b) BY <1>4, <2>1, <2>3 DEF UnackedAt
    <3>2. OwedAt(b)' \subseteq OwedAt(b) BY <1>5, <2>1, <2>3 DEF OwedAt
    <3> QED BY <1>2, <1>3, <3>1, <3>2, NoMore
  <2> QED BY <2>2, <2>3
<1> QED BY <1>1, <1>6, <1>7 DEF BodyWrites

\* The author neither (commit_control).
LEMMA ControlRoomStays ==
    ASSUME LaneInv, Next
    PROVE  /\ IsFiniteSet((controls \ controlAcks)') /\ Cardinality((controls \ controlAcks)') <= MaxPending
           /\ IsFiniteSet((controls \ projected)') /\ Cardinality((controls \ projected)') <= MaxPending
<1>1. BodyWrites BY WhoWrites
<1>2. /\ IsFiniteSet(controls \ controlAcks) /\ Cardinality(controls \ controlAcks) <= MaxPending
      /\ IsFiniteSet(controls \ projected) /\ Cardinality(controls \ projected) <= MaxPending
  BY DEF LaneInv, RoomOK, CapacityHolds
<1>3. MaxPending \in Nat BY LaneAssumption DEF LaneAssumption
<1>4. controlAcks \subseteq controlAcks' BY <1>1 DEF BodyWrites, AckControl
<1>5. projected \subseteq projected' BY <1>1 DEF BodyWrites, EndControl
<1>6. CASE controls' = controls
  <2>1. /\ (controls \ controlAcks)' \subseteq controls \ controlAcks
        /\ (controls \ projected)' \subseteq controls \ projected
    BY <1>4, <1>5, <1>6
  <2> QED BY <1>2, <1>3, <2>1, NoMore
<1>7. ASSUME NEW l \in Legs, AdmitControl(l)
      PROVE  /\ IsFiniteSet((controls \ controlAcks)') /\ Cardinality((controls \ controlAcks)') <= MaxPending
             /\ IsFiniteSet((controls \ projected)') /\ Cardinality((controls \ projected)') <= MaxPending
  <2>1. /\ controls' = controls \cup {l}
        /\ Cardinality(controls \ controlAcks) < MaxPending
        /\ Cardinality(controls \ projected) < MaxPending
    BY <1>7 DEF AdmitControl, ControlHasRoom
  <2>2. /\ (controls \ controlAcks)' \subseteq (controls \ controlAcks) \cup {l}
        /\ (controls \ projected)' \subseteq (controls \ projected) \cup {l}
    BY <1>4, <1>5, <2>1
  <2> QED BY <1>2, <1>3, <2>1, <2>2, OneMore
<1> QED BY <1>1, <1>6, <1>7 DEF BodyWrites

\* Room is kept on both sides.
LEMMA RoomStays ==
    ASSUME LaneInv, Next
    PROVE  RoomOK'
BY BodyRoomStays, ControlRoomStays DEF RoomOK, CapacityHolds

-----------------------------------------------------------------------------
(* The theorems. *)

\* The lane starts with empty tables.
LEMMA LaneStarts == Init => LaneInv
<1> SUFFICES ASSUME Init PROVE LaneInv OBVIOUS
<1> USE LaneAssumption DEF LaneAssumption, Init
<1>1. TypeOK BY DEF TypeOK
<1>2. PlacesOK BY DEF PlacesOK
<1>3. CallsOK /\ RecoveriesOK /\ RowsOK BY DEF CallsOK, RecoveriesOK, RowsOK
<1>4. ReturnsOK /\ ReceiptsShowFirstObservation /\ CarriedOnce
  BY DEF ReturnsOK, ReceiptsShowFirstObservation, CarriedOnce
<1>5. RoomOK
  <2>1. /\ controls \ controlAcks = {} /\ controls \ projected = {}
        /\ \A b \in Bodies : UnackedAt(b) = {} /\ OwedAt(b) = {}
    BY DEF UnackedAt, OwedAt
  <2>2. IsFiniteSet({}) /\ Cardinality({}) <= MaxPending BY FS_EmptySet
  <2> HIDE DEF Init
  <2> QED BY <2>1, <2>2 DEF RoomOK, CapacityHolds
<1> QED BY <1>1, <1>2, <1>3, <1>4, <1>5 DEF LaneInv

\* LaneInv is inductive.
LEMMA LaneInvStays == LaneInv /\ [Next]_vars => LaneInv'
<1> SUFFICES ASSUME LaneInv, [Next]_vars PROVE LaneInv' OBVIOUS
<1>1. CASE Next
  <2>1. PlacesOK' BY <1>1, EveryStepMoves DEF LaneInv, Moves
  <2> QED
    BY <1>1, <2>1, TypesStay, CallsStay, RecoveriesStay, RowsStay, ReturnsStay, ObservationsStay,
       CarriedOnceStays, RoomStays DEF LaneInv
<1>2. CASE UNCHANGED vars
  <2> USE <1>2 DEF vars, env, budget, author, control, intake, return
  <2>1. TypeOK' /\ PlacesOK' BY DEF LaneInv, TypeOK, PlacesOK, IsRecovery
  <2>2. CallsOK' /\ RecoveriesOK' /\ RowsOK'
    BY DEF LaneInv, CallsOK, RecoveriesOK, RowsOK, IsRecovery
  <2>3. ReturnsOK' /\ ReceiptsShowFirstObservation' /\ CarriedOnce'
    BY DEF LaneInv, ReturnsOK, ReceiptsShowFirstObservation, CarriedOnce, IsRecovery, Original
  <2>4. RoomOK' BY DEF LaneInv, RoomOK, CapacityHolds, UnackedAt, OwedAt
  <2> QED BY <2>1, <2>2, <2>3, <2>4 DEF LaneInv
<1> QED BY <1>1, <1>2

\* LaneInv holds in every state.
LEMMA LaneInvHolds == Spec => []LaneInv
BY LaneStarts, LaneInvStays, PTL DEF Spec

\* The invariant implies the property of the runs: two recoveries of a message are
\* the selected one, and the original excludes them.
LEMMA LaneIsSound == LaneInv => ObligationsHold
<1> SUFFICES ASSUME LaneInv PROVE ObligationsHold OBVIOUS
<1> USE DEF LaneInv
<1>1. OneCarrierReleased
  <2>1. SUFFICES ASSUME NEW y \in released, NEW z \in released, y[1][1] = z[1][1] PROVE y[1] = z[1]
    BY DEF OneCarrierReleased
  <2>2. \A x \in released : x = <<x[1], x[2]>> /\ x[1] \in Carriers /\ x[1] \in natives /\ x[2] \in Bodies
    BY DEF TypeOK
  <2>3. CASE IsRecovery(y[1]) /\ IsRecovery(z[1])
    <3>1. y[1][2] = z[1][2] BY <2>1, <2>2, <2>3 DEF TypeOK
    <3> QED BY <2>1, <2>2, <3>1, CarrierFacts
  <2>4. CASE ~IsRecovery(y[1]) /\ ~IsRecovery(z[1])
    BY <2>1, <2>2, <2>4, CarrierFacts
  <2>5. ASSUME NEW u \in released, NEW w \in released, u[1][1] = w[1][1], IsRecovery(u[1]), ~IsRecovery(w[1])
        PROVE  FALSE
    <3>1. w[1] = Original(u[1][1]) BY <2>2, <2>5, CarrierFacts
    <3>2. <<Original(u[1][1]), w[2]>> \notin released BY <2>2, <2>5 DEF CarriedOnce
    <3> QED BY <2>2, <3>1, <3>2
  <2> QED BY <2>1, <2>3, <2>4, <2>5
<1>2. EndedIsProven
  BY DEF EndedIsProven, ReturnsOK
<1> QED BY <1>1, <1>2 DEF ObligationsHold, RoomOK

\* However calls, workers, deadlines, departures and crashes interleave: a message
\* is carried by its original or by one recovery, receipts show what was observed
\* first, ends are proven, and no side exceeds its capacity (messaging.py,
\* tribe_conversation.py).
THEOREM ObligationsStaySound == Spec => []ObligationsHold
BY LaneInvHolds, LaneIsSound, PTL

\* What is released rests on the membership of that moment.
ReleasesToMembers ==
    \A y \in released' \ released : IsRecovery(y[1]) => plan[y[1][1]].rows \subseteq members

\* Only Release writes to the wire, and it looks at the members.
LEMMA EveryReleaseToMembers == [Next]_vars => [ReleasesToMembers]_vars
<1> SUFFICES ASSUME Next PROVE ReleasesToMembers OBVIOUS
<1>1. released' = released \/ \E c \in Carriers, b \in Bodies : Release(c, b)
  BY WhoWrites DEF AuthorWrites
<1>2. ASSUME NEW c \in Carriers, NEW b \in Bodies, Release(c, b) PROVE ReleasesToMembers
  BY <1>2 DEF Release, Releasable, ParentHolds, StillMembers, ReleasesToMembers
<1> QED BY <1>1, <1>2 DEF ReleasesToMembers

\* No recovery is released for an audience of which someone left before, although
\* the audience was checked when the recovery was prepared (messaging.py:
\* _validate_recovery_parent at the gate).
THEOREM DepartedGetNoRecovery == Spec => NoRecoveryAfterDeparture
BY EveryReleaseToMembers, PTL DEF Spec, NoRecoveryAfterDeparture, ReleasesToMembers
=============================================================================
