------------------------- MODULE HostedWeaveProofs -------------------------
(***************************************************************************)
(* Proofs about HostedWeave, for any set of requests and workers.          *)
(***************************************************************************)
EXTENDS HostedWeave, FiniteSetTheorems, SequenceTheorems, TLAPS

LEMMA KeyOfRequest == ASSUME NEW r \in Requests PROVE r.key \in Keys
BY DEF Keys

\* The authoring transaction answers with the event it found or stored, or
\* with a gap.
LEMMA AuthorOutcome ==
    ASSUME NEW w \in Workers, AuthorOnce(w)
    PROVE  LET r == worker[w].req
           IN  \/ /\ operations[r.key] # None
                  /\ Respond(w, Ok(operations[r.key].event))
                  /\ UNCHANGED <<rows, operations>>
               \/ /\ operations[r.key] = None
                  /\ Dependencies(r) \subseteq DOMAIN rows
                  /\ rows' = Append(rows, EventOf(r))
                  /\ operations' = [operations EXCEPT ![r.key] =
                                       [req |-> r, event |-> Len(rows) + 1]]
                  /\ Respond(w, Ok(Len(rows) + 1))
               \/ /\ Respond(w, Error("causal_gap"))
                  /\ UNCHANGED <<rows, operations>>
BY DEF AuthorOnce

LEMMA EventTyped == ASSUME NEW r \in Requests PROVE EventOf(r) \in Row
<1>1. /\ r.method \in Authoring \cup {"we.decide", "we.projection.receipt"}
      /\ r.target \in EventRef /\ r.supersedes \in EventRef /\ r.basis \in EventRef
  BY RequestAssumption
<1>2. r.decision \in Field("decision") /\ r.effect \in Field("effect")
      /\ r.evidence \in Field("evidence")
  BY DEF Field
<1>3. EventOf(r).kind \in Kinds
  BY <1>1 DEF EventOf, Kinds, Authoring, Projectable, Proposals
<1>4. QED
  BY <1>1, <1>2, <1>3 DEF EventOf, Row

LEMMA RemoteTyped ==
    ASSUME NEW k \in {"configuration.proposed", "adoption.decided"}, NEW t \in EventRef
    PROVE  RemoteEvent(k, t) \in Row
BY DEF RemoteEvent, Row, Kinds, Projectable, Proposals, Field, EventRef

LEMMA ResponseTyped ==
    /\ \A i \in Nat \ {0} : Ok(i) \in Response
    /\ \A c \in Codes : Error(c) \in Response
BY DEF Ok, Error, Response, EventRef, Codes

LEMMA TypeInit == Init => TypeOK
BY DEF Init, TypeOK, Keys, Idle, Thread, Stages

\* A thread that moves on, or responds, stays a thread.
LEMMA GoTyped ==
    ASSUME worker \in [Workers -> Thread], NEW w \in Workers, NEW pc \in Stages, Go(w, pc)
    PROVE  worker' \in [Workers -> Thread]
BY DEF Go, Thread

LEMMA RespondTyped ==
    ASSUME worker \in [Workers -> Thread], NEW w \in Workers,
           NEW response \in Response, Respond(w, response)
    PROVE  worker' \in [Workers -> Thread]
BY DEF Respond, Thread, Stages

LEMMA StartTyped ==
    ASSUME worker \in [Workers -> Thread], NEW w \in Workers, NEW r \in Requests,
           NEW again \in BOOLEAN, Start(w, r, again)
    PROVE  worker' \in [Workers -> Thread]
BY DEF Start, Thread, Idle, Stages

LEMMA IdleTyped == Idle \in Thread
BY DEF Idle, Thread, Stages

LEMMA AnswerTyped ==
    ASSUME answers \subseteq Requests \X Response, NEW r \in Requests,
           NEW response \in Response, Answer(r, response)
    PROVE  answers' \subseteq Requests \X Response
BY DEF Answer

LEMMA AuthorTyped ==
    ASSUME TypeOK, NEW w \in Workers, worker[w].req \in Requests, AuthorOnce(w)
    PROVE  /\ rows' \in Seq(Row)
           /\ operations' \in [Keys -> OperationRow \cup {None}]
           /\ worker' \in [Workers -> Thread]
<1> DEFINE r == worker[w].req
<1>k. r.key \in Keys  BY KeyOfRequest
<1>n. Len(rows) + 1 \in Nat \ {0}  BY DEF TypeOK
<1>1. CASE /\ operations[r.key] # None
           /\ Respond(w, Ok(operations[r.key].event))
           /\ UNCHANGED <<rows, operations>>
  <2>1. operations[r.key].event \in Nat \ {0}
    BY <1>1, <1>k DEF TypeOK, OperationRow
  <2>2. Ok(operations[r.key].event) \in Response  BY <2>1, ResponseTyped
  <2>3. QED  BY <1>1, <2>2, RespondTyped DEF TypeOK
<1>2. CASE /\ rows' = Append(rows, EventOf(r))
           /\ operations' = [operations EXCEPT ![r.key] =
                                [req |-> r, event |-> Len(rows) + 1]]
           /\ Respond(w, Ok(Len(rows) + 1))
  <2>1. Ok(Len(rows) + 1) \in Response  BY <1>n, ResponseTyped
  <2>2. worker' \in [Workers -> Thread]  BY <1>2, <2>1, RespondTyped DEF TypeOK
  <2>3. rows' \in Seq(Row)
    <3>1. EventOf(r) \in Row  BY EventTyped
    <3>2. QED  BY <3>1, <1>2 DEF TypeOK
  <2>4. [req |-> r, event |-> Len(rows) + 1] \in OperationRow  BY <1>n DEF OperationRow
  <2>5. operations' \in [Keys -> OperationRow \cup {None}]  BY <1>2, <2>4 DEF TypeOK
  <2>6. QED  BY <2>2, <2>3, <2>5
<1>3. CASE /\ Respond(w, Error("causal_gap"))
           /\ UNCHANGED <<rows, operations>>
  <2>1. Error("causal_gap") \in Response  BY ResponseTyped DEF Codes
  <2>2. QED  BY <1>3, <2>1, RespondTyped DEF TypeOK
<1>4. QED  BY <1>1, <1>2, <1>3, AuthorOutcome

LEMMA RefusalTyped ==
    ASSUME NEW r
    PROVE  /\ DecideRefusal(r) \in Response \cup {None}
           /\ ReceiptRefusal(r) \in Response \cup {None}
<1>1. DecideRefusal(r) \in Response \cup {None}
  BY ResponseTyped DEF DecideRefusal, Codes
<1>2. ReceiptRefusal(r) \in Response \cup {None}
  BY ResponseTyped DEF ReceiptRefusal, Codes
<1>3. QED  BY <1>1, <1>2

-----------------------------------------------------------------------------
(***************************************************************************)
(* What a running thread holds on to: its request is in the journal.       *)
(***************************************************************************)
Held ==
    /\ \A k \in Keys : journal[k] # None => journal[k].req.key = k
    /\ \A w \in Workers :
          /\ worker[w].pc # "idle" => worker[w].req \in Requests /\ Journalled(worker[w].req)
          /\ worker[w].pc = "finish" => worker[w].response \in Response

BaseInv == TypeOK /\ Held

LEMMA BaseInit == Init => BaseInv
BY TypeInit DEF Init, BaseInv, Held, Idle, Keys

\* Steps in which one thread goes on with its request and the journal stays.
LEMMA HeldByFrame ==
    ASSUME BaseInv, NEW w \in Workers, worker[w].pc # "idle", UNCHANGED journal,
           \A v \in Workers \ {w} : worker'[v] = worker[v],
           worker'[w].req = worker[w].req,
           worker'[w].pc = "finish" => worker'[w].response \in Response
    PROVE  Held'
<1>1. ASSUME NEW v \in Workers
      PROVE  /\ worker'[v].pc # "idle" =>
                    worker'[v].req \in Requests /\ Journalled(worker[v].req)'
             /\ worker'[v].pc = "finish" => worker'[v].response \in Response
  <2>1. CASE v = w  BY <2>1 DEF BaseInv, Held, Journalled
  <2>2. CASE v # w  BY <2>2 DEF BaseInv, Held, Journalled
  <2>3. QED  BY <2>1, <2>2
<1>2. QED  BY <1>1 DEF BaseInv, Held

LEMMA HeldByMove ==
    ASSUME BaseInv, NEW w \in Workers, worker[w].pc # "idle", UNCHANGED journal,
           \/ \E pc \in Stages \ {"idle", "finish"}, view \in Nat :
                 worker' = [worker EXCEPT ![w].pc = pc, ![w].view = view]
           \/ \E pc \in Stages \ {"idle", "finish"} : Go(w, pc)
           \/ \E response \in Response : Respond(w, response)
    PROVE  worker' \in [Workers -> Thread] /\ Held'
<1>0. worker \in [Workers -> Thread]  BY DEF BaseInv, TypeOK
<1>1. ASSUME NEW pc \in Stages \ {"idle", "finish"}, NEW view \in Nat,
             worker' = [worker EXCEPT ![w].pc = pc, ![w].view = view]
      PROVE  worker' \in [Workers -> Thread] /\ Held'
  <2>1. worker' \in [Workers -> Thread]  BY <1>0, <1>1 DEF Thread
  <2>2. /\ \A v \in Workers \ {w} : worker'[v] = worker[v]
        /\ worker'[w].req = worker[w].req /\ worker'[w].pc = pc
    BY <1>0, <1>1 DEF Thread
  <2>3. QED  BY <2>1, <2>2, HeldByFrame
<1>2. ASSUME NEW pc \in Stages \ {"idle", "finish"}, Go(w, pc)
      PROVE  worker' \in [Workers -> Thread] /\ Held'
  <2>1. /\ \A v \in Workers \ {w} : worker'[v] = worker[v]
        /\ worker'[w].req = worker[w].req /\ worker'[w].pc = pc
    BY <1>0, <1>2 DEF Go, Thread
  <2>2. QED  BY <1>0, <1>2, <2>1, HeldByFrame, GoTyped
<1>3. ASSUME NEW response \in Response, Respond(w, response)
      PROVE  worker' \in [Workers -> Thread] /\ Held'
  <2>1. /\ \A v \in Workers \ {w} : worker'[v] = worker[v]
        /\ worker'[w].req = worker[w].req /\ worker'[w].response = response
    <3>1. worker' = [worker EXCEPT ![w].pc = "finish", ![w].response = response]
      BY <1>3 DEF Respond
    <3>2. worker[w] \in [pc: Stages, req: Requests \cup {None}, view: Nat,
                         again: BOOLEAN, response: Response \cup {None}]
      BY <1>0 DEF Thread
    <3>3. worker'[w] = [worker[w] EXCEPT !.pc = "finish", !.response = response]
      BY <1>0, <3>1
    <3>4. \A v \in Workers \ {w} : worker'[v] = worker[v]  BY <1>0, <3>1
    <3>5. QED  BY <3>2, <3>3, <3>4
  <2>2. worker' \in [Workers -> Thread]  BY <1>0, <1>3, RespondTyped
  <2>3. worker'[w].response \in Response  BY <2>1
  <2>4. Held'  BY <2>1, <2>3, HeldByFrame
  <2>5. QED  BY <2>2, <2>4
<1>4. QED  BY <1>1, <1>2, <1>3

LEMMA HeldByAuthor ==
    ASSUME BaseInv, NEW w \in Workers, worker[w].pc # "idle", AuthorOnce(w),
           UNCHANGED <<journal, equivocations, stale, answers, crashes>>
    PROVE  BaseInv'
<1>1. worker[w].req \in Requests  BY DEF BaseInv, Held
<1>2. TypeOK'  BY <1>1, AuthorTyped DEF BaseInv, TypeOK
<1>3. \E response \in Response : Respond(w, response)
  <2>1. \/ \E i \in Nat \ {0} : Respond(w, Ok(i))
        \/ Respond(w, Error("causal_gap"))
    <3>1. worker[w].req.key \in Keys  BY <1>1, KeyOfRequest
    <3>2. operations[worker[w].req.key] # None =>
             operations[worker[w].req.key].event \in Nat \ {0}
      BY <3>1 DEF BaseInv, TypeOK, OperationRow
    <3>3. Len(rows) + 1 \in Nat \ {0}  BY DEF BaseInv, TypeOK
    <3>4. QED  BY <3>2, <3>3, AuthorOutcome
  <2>2. QED  BY <2>1, ResponseTyped DEF Codes
<1>4. Held'  BY <1>3, HeldByMove
<1>5. QED  BY <1>2, <1>4 DEF BaseInv

LEMMA BaseStep == BaseInv /\ [Next]_vars => BaseInv'
<1> SUFFICES ASSUME BaseInv, [Next]_vars PROVE BaseInv'
  OBVIOUS
<1> USE DEF BaseInv
<1>1. ASSUME NEW w \in Workers, NEW r \in Requests, Begin(w, r) PROVE BaseInv'
  <2>1. worker' \in [Workers -> Thread]  BY <1>1, StartTyped DEF Begin, TypeOK
  <2>2. r.key \in Keys  BY KeyOfRequest
  <2>3. [req |-> r, response |-> None] \in JournalRow  BY DEF JournalRow
  <2>4. journal' \in [Keys -> JournalRow \cup {None}]
    BY <1>1, <2>2, <2>3 DEF Begin, TypeOK
  <2>5. TypeOK'  BY <1>1, <2>1, <2>4 DEF Begin, TypeOK
  <2>6. [req |-> r, response |-> None] # None  BY <2>3, NoneAssumption
  <2>7. journal' = [journal EXCEPT ![r.key] = [req |-> r, response |-> None]]
    BY <1>1 DEF Begin
  <2>8. journal[r.key] = None \/ journal[r.key].req = r
    BY <1>1 DEF Begin, Journalled
  <2>9. \A k \in Keys : journal'[k] # None => journal'[k].req.key = k
    BY <2>2, <2>7 DEF Held, TypeOK
  <2>10. \A x \in Requests : Journalled(x) => Journalled(x)'
    BY <2>2, <2>6, <2>7, <2>8, KeyOfRequest DEF Journalled, TypeOK
  <2>11. Journalled(r)'
    BY <2>2, <2>6, <2>7 DEF Journalled, TypeOK
  <2>12. worker' = [worker EXCEPT ![w] = [Idle EXCEPT !.pc = "dispatch", !.req = r,
                                                      !.again = FALSE]]
    BY <1>1 DEF Begin, Start
  <2>13. \A v \in Workers : v # w => worker'[v] = worker[v]
    BY <2>12 DEF TypeOK
  <2>14. worker'[w].pc = "dispatch" /\ worker'[w].req = r
    BY <2>12 DEF TypeOK, Idle
  <2>15. ASSUME NEW v \in Workers
         PROVE  /\ worker'[v].pc # "idle" =>
                       worker'[v].req \in Requests /\ Journalled(worker[v].req)'
                /\ worker'[v].pc = "finish" => worker'[v].response \in Response
    <3>1. CASE v = w
      BY <3>1, <2>11, <2>14 DEF Journalled
    <3>2. CASE v # w
      BY <3>2, <2>10, <2>13 DEF Held, Journalled
    <3>3. QED  BY <3>1, <3>2
  <2>16. QED  BY <2>5, <2>9, <2>15 DEF Held
<1>2. ASSUME NEW w \in Workers, NEW r \in Requests, BeginConflict(w, r) PROVE BaseInv'
  <2>1. Error("request_conflict") \in Response  BY ResponseTyped DEF Codes
  <2>2. answers' \subseteq Requests \X Response
    BY <1>2, <2>1, AnswerTyped DEF BeginConflict, TypeOK
  <2>3. r.key \in Keys  BY KeyOfRequest
  <2>4. QED  BY <1>2, <2>2, <2>3 DEF BeginConflict, TypeOK, Held, Journalled
<1>3. ASSUME NEW w \in Workers, NEW r \in Requests, Replay(w, r) PROVE BaseInv'
  <2>1. CASE r.method = "we.projection.receipt"
    <3>1. Start(w, r, TRUE) /\ UNCHANGED answers  BY <1>3, <2>1 DEF Replay
    <3>2. worker' \in [Workers -> Thread]  BY <3>1, StartTyped DEF TypeOK
    <3>3. TypeOK'  BY <1>3, <3>1, <3>2 DEF Replay, TypeOK, store
    <3>4. Journalled(r) /\ UNCHANGED journal  BY <1>3 DEF Replay, store
    <3>5. QED  BY <3>1, <3>3, <3>4 DEF Start, Idle, Held, Journalled, TypeOK
  <2>2. CASE r.method # "we.projection.receipt"
    <3>1. Answer(r, journal[r.key].response) /\ UNCHANGED worker
      BY <1>3, <2>2 DEF Replay
    <3>2. journal[r.key].response \in Response
      BY <1>3, KeyOfRequest DEF Replay, Journalled, TypeOK, JournalRow
    <3>3. answers' \subseteq Requests \X Response  BY <3>1, <3>2, AnswerTyped DEF TypeOK
    <3>4. QED  BY <1>3, <3>1, <3>3 DEF Replay, TypeOK, Held, Journalled, store
  <2>3. QED  BY <2>1, <2>2
<1>4. ASSUME NEW w \in Workers, Observe(w) \/ DecideAuthor(w) \/ ReceiptAuthor(w)
      PROVE BaseInv'
  BY <1>4, HeldByAuthor DEF Observe, DecideAuthor, ReceiptAuthor, At
<1>5. ASSUME NEW w \in Workers, DecideRead(w) PROVE BaseInv'
  <2>1. \/ Go(w, "decide")
        \/ DecideRefusal(worker[w].req) \in Response
              /\ Respond(w, DecideRefusal(worker[w].req))
    BY <1>5, RefusalTyped DEF DecideRead
  <2>2. worker' \in [Workers -> Thread] /\ Held'
    BY <1>5, <2>1, HeldByMove DEF DecideRead, At, store, Stages
  <2>3. QED  BY <1>5, <2>2 DEF DecideRead, TypeOK, store
<1>6. ASSUME NEW w \in Workers, ReceiptRead(w) PROVE BaseInv'
  <2>1. \/ \E view \in Nat : worker' = [worker EXCEPT ![w].pc = "observe", ![w].view = view]
        \/ ReceiptRefusal(worker[w].req) \in Response
              /\ Respond(w, ReceiptRefusal(worker[w].req))
    <3>1. Len(rows) \in Nat  BY DEF TypeOK
    <3>2. QED  BY <1>6, <3>1, RefusalTyped DEF ReceiptRead, Respond
  <2>2. worker' \in [Workers -> Thread] /\ Held'
    BY <1>6, <2>1, HeldByMove DEF ReceiptRead, At, store, Stages
  <2>3. QED  BY <1>6, <2>2 DEF ReceiptRead, TypeOK, store
<1>7. ASSUME NEW w \in Workers, NEW verified \in BOOLEAN, ReceiptObserve(w, verified)
      PROVE BaseInv'
  <2>1. Go(w, "lookup") \/ \E response \in Response : Respond(w, response)
    BY <1>7, ResponseTyped DEF ReceiptObserve, Codes
  <2>2. worker' \in [Workers -> Thread] /\ Held'
    BY <1>7, <2>1, HeldByMove DEF ReceiptObserve, At, store, Stages
  <2>3. QED  BY <1>7, <2>2 DEF ReceiptObserve, TypeOK, store
<1>8. ASSUME NEW w \in Workers, ReceiptLookup(w) PROVE BaseInv'
  <2>1. \A i \in DOMAIN rows : i \in Nat \ {0}  BY DEF TypeOK
  <2>2. Go(w, "receipt") \/ \E response \in Response : Respond(w, response)
    BY <1>8, <2>1, ResponseTyped DEF ReceiptLookup, ReceiptsOf, Codes
  <2>3. worker' \in [Workers -> Thread] /\ Held'
    BY <1>8, <2>2, HeldByMove DEF ReceiptLookup, At, store, Stages
  <2>4. QED  BY <1>8, <2>3 DEF ReceiptLookup, TypeOK, store
<1>9. ASSUME NEW w \in Workers, ReceiptChanged(w) \/ DispatchFails(w) PROVE BaseInv'
  <2>1. Error("runtime_unavailable") \in Response  BY ResponseTyped DEF Codes
  <2>2. worker' \in [Workers -> Thread] /\ Held'
    BY <1>9, <2>1, HeldByMove DEF ReceiptChanged, DispatchFails, At, store
  <2>3. QED  BY <1>9, <2>2 DEF ReceiptChanged, DispatchFails, TypeOK, store
<1>10. ASSUME NEW w \in Workers, Finish(w) PROVE BaseInv'
  <2> DEFINE r == worker[w].req
             row == [journal[r.key] EXCEPT !.response = Stored(r, worker[w].response)]
  <2>1. r \in Requests /\ Journalled(r) /\ worker[w].response \in Response
    BY <1>10 DEF Finish, At, Held
  <2>2. r.key \in Keys  BY <2>1, KeyOfRequest
  <2>3. journal[r.key] \in JournalRow /\ journal[r.key].req = r
    BY <2>1, <2>2 DEF Journalled, TypeOK
  <2>4. Stored(r, worker[w].response) \in Response
    BY <2>1, <2>3 DEF Stored, JournalRow
  <2>5. row \in JournalRow /\ row.req = r  BY <2>3, <2>4 DEF JournalRow
  <2>6. row # None  BY <2>5, NoneAssumption
  <2>7. journal' = [journal EXCEPT ![r.key] = row]
    BY <1>10, <2>2 DEF Finish, TypeOK
  <2>8. worker' = [worker EXCEPT ![w] = Idle]  BY <1>10 DEF Finish
  <2>9. answers' \subseteq Requests \X Response
    BY <1>10, <2>1, <2>4, AnswerTyped DEF Finish, TypeOK
  <2> HIDE DEF r, row
  <2>10. TypeOK'
    <3>1. journal' \in [Keys -> JournalRow \cup {None}]  BY <2>5, <2>7 DEF TypeOK
    <3>2. worker' \in [Workers -> Thread]  BY <2>8, IdleTyped DEF TypeOK
    <3>3. QED  BY <1>10, <2>9, <3>1, <3>2 DEF Finish, TypeOK
  <2>11. \A k \in Keys : journal'[k] # None => journal'[k].req.key = k
    BY <2>2, <2>5, <2>7 DEF Held, TypeOK
  <2>12. \A x \in Requests : Journalled(x) => Journalled(x)'
    BY <2>2, <2>3, <2>5, <2>6, <2>7, KeyOfRequest DEF Journalled, TypeOK
  <2>13. ASSUME NEW v \in Workers
         PROVE  /\ worker'[v].pc # "idle" =>
                       worker'[v].req \in Requests /\ Journalled(worker[v].req)'
                /\ worker'[v].pc = "finish" => worker'[v].response \in Response
    <3>1. CASE v = w
      BY <3>1, <2>8 DEF Idle, TypeOK
    <3>2. CASE v # w
      BY <3>2, <2>8, <2>12 DEF Held, Journalled, TypeOK
    <3>3. QED  BY <3>1, <3>2
  <2>14. QED  BY <2>10, <2>11, <2>13 DEF Held
<1>11. ASSUME NEW w \in Workers, AnswerAgain(w) PROVE BaseInv'
  <2>1. worker[w].req \in Requests /\ worker[w].response \in Response
    BY <1>11 DEF AnswerAgain, At, Held
  <2>2. answers' \subseteq Requests \X Response
    BY <1>11, <2>1, AnswerTyped DEF AnswerAgain, TypeOK
  <2>3. QED
    BY <1>11, <2>2, IdleTyped DEF AnswerAgain, TypeOK, Held, Journalled, Idle, store
<1>12. CASE Crash
  BY <1>12, IdleTyped DEF Crash, TypeOK, Held, Journalled, Idle, store
<1>13. ASSUME NEW e \in Row, Arrive(e) PROVE BaseInv'
  BY <1>13 DEF Arrive, TypeOK, Held, Journalled
<1>14. ASSUME NEW r \in Aging, Expire(r) PROVE BaseInv'
  BY <1>14, AgingAssumption DEF Expire, TypeOK, Held, Journalled, store
<1>15. CASE UNCHANGED vars
  BY <1>15 DEF vars, store, TypeOK, Held, Journalled
<1>16. CASE Next
  <2>1. CASE \E w \in Workers : WorkerStep(w)
    BY <2>1, <1>4, <1>5, <1>6, <1>7, <1>8, <1>9, <1>10, <1>11 DEF WorkerStep
  <2>2. CASE \E w \in Workers, r \in Requests : Receive(w, r)
    BY <2>2, <1>1, <1>2, <1>3 DEF Receive
  <2>3. CASE Environment
    <3>1. RemoteEvent("configuration.proposed", None) \in Row
      BY RemoteTyped DEF EventRef
    <3>2. \A t \in DOMAIN rows : RemoteEvent("adoption.decided", t) \in Row
      BY RemoteTyped DEF EventRef, TypeOK
    <3>3. QED  BY <2>3, <3>1, <3>2, <1>12, <1>13, <1>14 DEF Environment
  <2>4. QED  BY <1>16, <2>1, <2>2, <2>3 DEF Next
<1>17. QED  BY <1>15, <1>16

LEMMA BaseAlways == Spec => []BaseInv
BY BaseInit, BaseStep, PTL DEF Spec

\* Every table and every thread of the service holds values of its type.
THEOREM ServiceTypeCorrect == Spec => []TypeOK
BY BaseAlways, PTL DEF BaseInv
-----------------------------------------------------------------------------
(***************************************************************************)
(* Every event comes from one authoring transaction of one request.        *)
(***************************************************************************)
Current(r) ==
    /\ EntryState(rows, r.target) = "adopt"
    /\ DecisionTip(rows, r.target) = r.basis

\* What a thread in the middle of a dispatch may rely on.
StageInv ==
    \A w \in Workers :
        LET t == worker[w]
        IN  /\ t.pc = "decide" => t.req.method = "we.decide"
            /\ t.pc \in {"observe", "lookup", "receipt"} =>
                  /\ t.req.method = "we.projection.receipt"
                  /\ t.view <= Len(rows)
                  /\ t.view = Len(rows) => Current(t.req)
            /\ t.pc = "receipt" => \A i \in 1..t.view : rows[i].effect # t.req.effect

OperationInv ==
    /\ \A k \in Keys : operations[k] # None =>
          /\ operations[k].event \in DOMAIN rows
          /\ rows[operations[k].event] = EventOf(operations[k].req)
          /\ operations[k].req.key = k
          /\ Journalled(operations[k].req)
    /\ \A i \in DOMAIN rows : rows[i].local =>
          /\ rows[i].req \in Requests
          /\ rows[i] = EventOf(rows[i].req)
          /\ operations[rows[i].req.key] # None
          /\ operations[rows[i].req.key].event = i
    /\ \A i \in DOMAIN rows : ~ rows[i].local => rows[i].effect = None

EffectUnique ==
    \A i, j \in DOMAIN rows :
        (rows[i].effect # None /\ rows[i].effect = rows[j].effect) => i = j

\* The three ways the history may move in one step.
Authored(w) ==
    LET r == worker[w].req
    IN  /\ worker[w].pc \in {"dispatch", "decide", "receipt"}
        /\ worker[w].pc = "dispatch" => r.method \in Authoring
        /\ worker[w].pc = "receipt" => worker[w].view = Len(rows)
        /\ operations[r.key] = None
        /\ rows' = Append(rows, EventOf(r))
        /\ operations' = [operations EXCEPT ![r.key] =
                             [req |-> r, event |-> Len(rows) + 1]]
        /\ Respond(w, Ok(Len(rows) + 1))
        /\ UNCHANGED <<journal, answers>>

Received(e) ==
    /\ ~ e.local /\ e.effect = None
    /\ rows' = Append(rows, e)
    /\ UNCHANGED <<operations, journal, worker, answers>>

LEMMA AuthorSteps ==
    ASSUME NEW w \in Workers, Observe(w) \/ DecideAuthor(w) \/ ReceiptAuthor(w)
    PROVE  \/ Authored(w)
           \/ /\ UNCHANGED <<rows, operations, journal, answers>>
              /\ worker[w].pc # "idle"
              /\ \/ /\ operations[worker[w].req.key] # None
                    /\ Respond(w, Ok(operations[worker[w].req.key].event))
                 \/ Respond(w, Error("causal_gap"))
<1>1. AuthorOnce(w) /\ UNCHANGED <<journal, answers>>
  BY DEF Observe, DecideAuthor, ReceiptAuthor
<1>2. /\ worker[w].pc \in {"dispatch", "decide", "receipt"}
      /\ worker[w].pc = "dispatch" => worker[w].req.method \in Authoring
      /\ (worker[w].pc = "receipt" /\ operations[worker[w].req.key] = None)
             => worker[w].view = Len(rows)
  BY DEF Observe, DecideAuthor, ReceiptAuthor, At, UnchangedSince
<1>3. QED  BY <1>1, <1>2, AuthorOutcome DEF Authored

LEMMA HistorySteps ==
    ASSUME BaseInv, [Next]_vars
    PROVE  \/ UNCHANGED <<rows, operations>>
           \/ \E w \in Workers : Authored(w)
           \/ \E e \in Row : Received(e)
<1>1. CASE \E w \in Workers : WorkerStep(w)
  <2>1. PICK w \in Workers : WorkerStep(w)  BY <1>1
  <2>2. CASE Observe(w) \/ DecideAuthor(w) \/ ReceiptAuthor(w)
    BY <2>2, AuthorSteps
  <2>3. CASE ~ (Observe(w) \/ DecideAuthor(w) \/ ReceiptAuthor(w))
    BY <2>1, <2>3 DEF WorkerStep, DecideRead, ReceiptRead, ReceiptObserve,
       ReceiptLookup, ReceiptChanged, DispatchFails, Finish, AnswerAgain, store
  <2>4. QED  BY <2>2, <2>3
<1>2. CASE \E w \in Workers, r \in Requests : Receive(w, r)
  BY <1>2 DEF Receive, Begin, BeginConflict, Replay, store
<1>3. CASE Environment
  <2>1. CASE \E e : Arrive(e) /\ e \in Row /\ ~ e.local /\ e.effect = None
    BY <2>1 DEF Arrive, Received
  <2>2. CASE Crash \/ \E r \in Aging : Expire(r)
    BY <2>2 DEF Crash, Expire, store
  <2>3. RemoteEvent("configuration.proposed", None) \in Row
    BY RemoteTyped DEF EventRef
  <2>4. \A t \in DOMAIN rows : RemoteEvent("adoption.decided", t) \in Row
    BY RemoteTyped DEF EventRef, BaseInv, TypeOK
  <2>5. \A k, t : ~ RemoteEvent(k, t).local /\ RemoteEvent(k, t).effect = None
    BY DEF RemoteEvent
  <2>6. QED  BY <1>3, <2>1, <2>2, <2>3, <2>4, <2>5 DEF Environment
<1>4. CASE UNCHANGED vars  BY <1>4 DEF vars, store
<1>5. QED  BY <1>1, <1>2, <1>3, <1>4 DEF Next

\* An appended row leaves the others where they are.
LEMMA AppendFacts ==
    ASSUME rows \in Seq(Row), NEW e \in Row, rows' = Append(rows, e)
    PROVE  /\ Len(rows') = Len(rows) + 1
           /\ DOMAIN rows = 1..Len(rows) /\ DOMAIN rows' = 1..(Len(rows) + 1)
           /\ \A i \in DOMAIN rows : rows'[i] = rows[i]
           /\ rows'[Len(rows) + 1] = e
OBVIOUS

\* The journal keeps the request of every row and the first response.
LEMMA JournalStep ==
    ASSUME BaseInv, [Next]_vars, NEW r \in Requests, Journalled(r)
    PROVE  /\ Journalled(r)'
           /\ journal[r.key].response # None =>
                 journal'[r.key].response = journal[r.key].response
<1>k. r.key \in Keys  BY KeyOfRequest
<1>t. journal \in [Keys -> JournalRow \cup {None}]  BY DEF BaseInv, TypeOK
<1>1. CASE UNCHANGED journal  BY <1>1 DEF Journalled
<1>2. ASSUME NEW w \in Workers, NEW q \in Requests, Begin(w, q)
      PROVE  /\ Journalled(r)'
             /\ journal[r.key].response # None =>
                   journal'[r.key].response = journal[r.key].response
  <2>1. journal' = [journal EXCEPT ![q.key] = [req |-> q, response |-> None]]
    BY <1>2 DEF Begin
  <2>2. q.key \in Keys  BY KeyOfRequest
  <2>3. [req |-> q, response |-> None] # None
    BY NoneAssumption DEF JournalRow
  <2>4. journal[q.key] = None \/ (journal[q.key].req = q /\ journal[q.key].response = None)
    BY <1>2 DEF Begin, Journalled
  <2>5. QED  BY <1>k, <1>t, <2>1, <2>2, <2>3, <2>4 DEF Journalled
<1>3. ASSUME NEW w \in Workers, Finish(w)
      PROVE  /\ Journalled(r)'
             /\ journal[r.key].response # None =>
                   journal'[r.key].response = journal[r.key].response
  <2>1. PICK q : q = worker[w].req  OBVIOUS
  <2>2. q \in Requests /\ Journalled(q)  BY <1>3, <2>1 DEF Finish, At, BaseInv, Held
  <2>3. q.key \in Keys  BY <2>2, KeyOfRequest
  <2>4. PICK x : x = Stored(q, worker[w].response)  OBVIOUS
  <2>5. journal' = [journal EXCEPT ![q.key].response = x]
    BY <1>3, <2>1, <2>4 DEF Finish
  <2>6. journal[q.key] \in JournalRow  BY <2>2, <2>3, <1>t DEF Journalled
  <2>7. journal[q.key].response # None => x = journal[q.key].response
    BY <2>4 DEF Stored
  <2>8. worker[w].response \in Response  BY <1>3 DEF Finish, At, BaseInv, Held
  <2>9. [journal[q.key] EXCEPT !.response = x] \in JournalRow
    BY <2>4, <2>6, <2>8 DEF JournalRow, Stored
  <2>10. journal'[q.key] # None /\ journal'[q.key].req = journal[q.key].req
         /\ journal'[q.key].response = x
    BY <1>t, <2>3, <2>5, <2>6, <2>9, NoneAssumption DEF JournalRow
  <2>11. \A k \in Keys \ {q.key} : journal'[k] = journal[k]
    BY <1>t, <2>3, <2>5
  <2>12. QED  BY <1>k, <2>7, <2>10, <2>11 DEF Journalled
<1>4. QED
  <2>1. UNCHANGED journal \/ (\E w \in Workers, q \in Requests : Begin(w, q))
        \/ (\E w \in Workers : Finish(w))
    BY DEF Next, WorkerStep, Receive, Environment, vars, store, Observe, DecideRead,
       DecideAuthor, ReceiptRead, ReceiptObserve, ReceiptLookup, ReceiptAuthor,
       ReceiptChanged, DispatchFails, AnswerAgain, BeginConflict, Replay, Crash,
       Arrive, Expire
  <2>2. QED  BY <2>1, <1>1, <1>2, <1>3

HistoryInv == BaseInv /\ StageInv /\ OperationInv /\ EffectUnique

LEMMA HistoryInit == Init => HistoryInv
<1> SUFFICES ASSUME Init PROVE HistoryInv
  OBVIOUS
<1>1. BaseInv  BY BaseInit
<1>2. StageInv  BY DEF Init, StageInv, Idle
<1>3. DOMAIN rows = {}  BY DEF Init
<1>4. OperationInv  BY <1>3 DEF Init, OperationInv
<1>5. EffectUnique  BY <1>3 DEF EffectUnique
<1>6. QED  BY <1>1, <1>2, <1>4, <1>5 DEF HistoryInv

\* History only grows at its end, by a typed row.
LEMMA HistoryGrows ==
    ASSUME BaseInv, [Next]_vars
    PROVE  rows' = rows \/ \E e \in Row : rows' = Append(rows, e)
<1>1. \A w \in Workers : Authored(w) => EventOf(worker[w].req) \in Row
  BY EventTyped DEF Authored, BaseInv, Held
<1>2. QED  BY <1>1, HistorySteps DEF Authored, Received

\* A thread that keeps its place keeps what it relies on, whatever arrives.
LEMMA StageKept ==
    ASSUME HistoryInv, NEW w \in Workers,
           rows' = rows \/ \E e \in Row : rows' = Append(rows, e)
    PROVE  LET t == worker[w]
           IN  /\ t.pc \in {"observe", "lookup", "receipt"} =>
                     /\ t.view <= Len(rows')
                     /\ t.view = Len(rows') => Current(t.req) /\ rows' = rows
               /\ t.pc = "receipt" => \A i \in 1..t.view : rows'[i].effect # t.req.effect
<1>1. CASE rows' = rows  BY <1>1 DEF HistoryInv, StageInv
<1>2. ASSUME NEW e \in Row, rows' = Append(rows, e)
      PROVE  LET t == worker[w]
             IN  /\ t.pc \in {"observe", "lookup", "receipt"} =>
                       t.view <= Len(rows') /\ t.view # Len(rows')
                 /\ t.pc = "receipt" => \A i \in 1..t.view : rows'[i].effect # t.req.effect
  <2>1. rows \in Seq(Row) /\ worker[w].view \in Nat /\ Len(rows) \in Nat
    BY DEF HistoryInv, BaseInv, TypeOK, Thread
  <2>2. /\ Len(rows') = Len(rows) + 1
        /\ DOMAIN rows = 1..Len(rows)
        /\ \A i \in DOMAIN rows : rows'[i] = rows[i]
    BY <1>2, <2>1, AppendFacts
  <2>3. QED  BY <2>1, <2>2 DEF HistoryInv, StageInv
<1>3. QED  BY <1>1, <1>2

\* Rows with an effect are receipts.
LEMMA EffectsAreReceipts ==
    ASSUME HistoryInv, NEW i \in DOMAIN rows, rows[i].effect # None
    PROVE  rows[i].kind = "projection.receipted"
<1>1. rows[i].local  BY DEF HistoryInv, OperationInv
<1>2. rows[i].req \in Requests /\ rows[i] = EventOf(rows[i].req)
  BY <1>1 DEF HistoryInv, OperationInv
<1>3. PICK r \in Requests : rows[i] = EventOf(r)  BY <1>2
<1>4. r.effect # None  BY <1>3 DEF EventOf
<1>5. r.method = "we.projection.receipt"  BY <1>4, RequestAssumption
<1>6. EventOf(r).kind = "projection.receipted"  BY <1>5 DEF EventOf
<1>7. QED  BY <1>3, <1>6

\* What one step makes of thread v.
LEMMA ThreadStep ==
    ASSUME worker \in [Workers -> Thread], [Next]_vars, NEW v \in Workers
    PROVE  \/ worker'[v] = worker[v]
           \/ worker'[v].pc \in {"idle", "dispatch", "finish"}
           \/ DecideRead(v) /\ worker'[v].pc = "decide"
           \/ ReceiptRead(v) /\ worker'[v].pc = "observe"
           \/ (\E x \in BOOLEAN : ReceiptObserve(v, x)) /\ worker'[v].pc = "lookup"
           \/ ReceiptLookup(v) /\ worker'[v].pc = "receipt"
<1>1. \A w \in Workers : \A x : Respond(w, x) =>
         worker'[v] = worker[v] \/ worker'[v].pc = "finish"
  BY DEF Respond, Thread
<1>2. \A w \in Workers : \A pc : Go(w, pc) =>
         worker'[v] = worker[v] \/ (w = v /\ worker'[v].pc = pc)
  BY DEF Go, Thread
<1>3. \A w \in Workers : \A r, again : Start(w, r, again) =>
         worker'[v] = worker[v] \/ worker'[v].pc = "dispatch"
  BY DEF Start, Idle
<1>4. ASSUME NEW w \in Workers, WorkerStep(w)
      PROVE  \/ worker'[v] = worker[v]
             \/ worker'[v].pc \in {"idle", "dispatch", "finish"}
             \/ DecideRead(v) /\ worker'[v].pc = "decide"
             \/ ReceiptRead(v) /\ worker'[v].pc = "observe"
             \/ (\E x \in BOOLEAN : ReceiptObserve(v, x)) /\ worker'[v].pc = "lookup"
             \/ ReceiptLookup(v) /\ worker'[v].pc = "receipt"
  <2>1. CASE Observe(w) \/ DecideAuthor(w) \/ ReceiptAuthor(w)
    <3>1. \E x : Respond(w, x)
      BY <2>1, AuthorSteps DEF Authored
    <3>2. QED  BY <3>1, <1>1
  <2>2. CASE DecideRead(w)
    <3>1. Go(w, "decide") \/ \E x : Respond(w, x)  BY <2>2 DEF DecideRead
    <3>2. QED  BY <2>2, <3>1, <1>1, <1>2
  <2>3. CASE ReceiptRead(w)
    <3>1. \/ worker' = [worker EXCEPT ![w].pc = "observe", ![w].view = Len(rows)]
          \/ \E x : Respond(w, x)
      BY <2>3 DEF ReceiptRead, Respond
    <3>2. CASE worker' = [worker EXCEPT ![w].pc = "observe", ![w].view = Len(rows)]
      <4>1. worker[w] \in [pc: Stages, req: Requests \cup {None}, view: Nat,
                           again: BOOLEAN, response: Response \cup {None}]
        BY DEF Thread
      <4>2. worker'[w] = [worker[w] EXCEPT !.pc = "observe", !.view = Len(rows)]
        BY <3>2
      <4>3. worker'[w].pc = "observe"  BY <4>1, <4>2
      <4>4. v # w => worker'[v] = worker[v]  BY <3>2
      <4>5. QED  BY <2>3, <4>3, <4>4
    <3>3. QED  BY <3>1, <3>2, <1>1
  <2>4. ASSUME NEW x \in BOOLEAN, ReceiptObserve(w, x)
        PROVE  \/ worker'[v] = worker[v]
               \/ worker'[v].pc \in {"idle", "dispatch", "finish"}
               \/ (\E y \in BOOLEAN : ReceiptObserve(v, y)) /\ worker'[v].pc = "lookup"
    <3>1. Go(w, "lookup") \/ \E y : Respond(w, y)  BY <2>4 DEF ReceiptObserve
    <3>2. QED  BY <2>4, <3>1, <1>1, <1>2
  <2>5. CASE ReceiptLookup(w)
    <3>1. Go(w, "receipt") \/ \E x : Respond(w, x)  BY <2>5 DEF ReceiptLookup
    <3>2. QED  BY <2>5, <3>1, <1>1, <1>2
  <2>6. CASE ReceiptChanged(w) \/ DispatchFails(w)
    BY <2>6, <1>1 DEF ReceiptChanged, DispatchFails
  <2>7. CASE Finish(w) \/ AnswerAgain(w)
    BY <2>7 DEF Finish, AnswerAgain, Idle
  <2>8. QED  BY <1>4, <2>1, <2>2, <2>3, <2>4, <2>5, <2>6, <2>7 DEF WorkerStep
<1>5. ASSUME NEW w \in Workers, NEW r \in Requests, Receive(w, r)
      PROVE  worker'[v] = worker[v] \/ worker'[v].pc = "dispatch"
  BY <1>5, <1>3 DEF Receive, Begin, BeginConflict, Replay
<1>6. CASE Environment
  <2>1. CASE Crash  BY <2>1 DEF Crash, Idle
  <2>2. CASE \E e : Arrive(e)  BY <2>2 DEF Arrive
  <2>3. CASE \E r \in Aging : Expire(r)  BY <2>3 DEF Expire
  <2>4. QED  BY <1>6, <2>1, <2>2, <2>3 DEF Environment
<1>7. CASE UNCHANGED vars  BY <1>7 DEF vars
<1>8. QED  BY <1>4, <1>5, <1>6, <1>7 DEF Next

\* StageInv for one thread in the next state.
LEMMA StageStep == HistoryInv /\ [Next]_vars => StageInv'
<1> SUFFICES ASSUME HistoryInv, [Next]_vars, NEW v \in Workers
             PROVE  LET t == worker'[v]
                    IN  /\ t.pc = "decide" => t.req.method = "we.decide"
                        /\ t.pc \in {"observe", "lookup", "receipt"} =>
                              /\ t.req.method = "we.projection.receipt"
                              /\ t.view <= Len(rows')
                              /\ t.view = Len(rows') => Current(worker[v].req)'
                        /\ t.pc = "receipt" =>
                              \A i \in 1..t.view : rows'[i].effect # t.req.effect
  BY DEF StageInv, Current
<1>t. worker \in [Workers -> Thread] /\ rows \in Seq(Row)
  BY DEF HistoryInv, BaseInv, TypeOK
<1>g. rows' = rows \/ \E e \in Row : rows' = Append(rows, e)
  BY HistoryGrows DEF HistoryInv
<1>1. CASE worker'[v] = worker[v]
  <2>1. rows' = rows => (Current(worker[v].req) => Current(worker[v].req)')
    BY <1>1 DEF Current
  <2>2. QED  BY <1>1, <1>g, <2>1, StageKept DEF HistoryInv, StageInv
<1>2. CASE worker'[v].pc \in {"idle", "dispatch", "finish"}  BY <1>2
<1>3. CASE DecideRead(v) /\ worker'[v].pc = "decide"
  <2>1. Go(v, "decide") \/ \E x : Respond(v, x)  BY <1>3 DEF DecideRead
  <2>2. worker'[v].req = worker[v].req
    BY <2>1, <1>t DEF Go, Respond, Thread
  <2>3. QED  BY <1>3, <2>2 DEF DecideRead
<1>4. CASE ReceiptRead(v) /\ worker'[v].pc = "observe"
  <2>1. ReceiptRefusal(worker[v].req) = None
    BY <1>4, <1>t DEF ReceiptRead, Thread
  <2>2. Current(worker[v].req)
    BY <2>1, NoneAssumption, ResponseTyped DEF ReceiptRefusal, Current, Codes
  <2>3. /\ worker'[v].req = worker[v].req /\ worker'[v].view = Len(rows)
        /\ rows' = rows /\ worker[v].req.method = "we.projection.receipt"
    BY <1>4, <1>t, <2>1 DEF ReceiptRead, Thread, store
  <2>4. Current(worker[v].req)'  BY <2>2, <2>3 DEF Current
  <2>5. QED  BY <1>4, <1>t, <2>3, <2>4
<1>5. CASE (\E x \in BOOLEAN : ReceiptObserve(v, x)) /\ worker'[v].pc = "lookup"
  <2>1. Go(v, "lookup") \/ \E x : Respond(v, x)  BY <1>5 DEF ReceiptObserve
  <2>2. /\ worker'[v].req = worker[v].req /\ worker'[v].view = worker[v].view
    BY <1>5, <2>1, <1>t DEF Go, Respond, Thread
  <2>3. worker[v].pc = "observe" /\ rows' = rows  BY <1>5 DEF ReceiptObserve, At, store
  <2>4. Current(worker[v].req) => Current(worker[v].req)'  BY <2>2, <2>3 DEF Current
  <2>5. QED  BY <1>5, <2>2, <2>3, <2>4 DEF HistoryInv, StageInv
<1>6. CASE ReceiptLookup(v) /\ worker'[v].pc = "receipt"
  <2>1. worker[v].pc = "lookup" /\ rows' = rows  BY <1>6 DEF ReceiptLookup, At, store
  <2>2. \A x : Respond(v, x) => worker'[v].pc = "finish"  BY <1>t DEF Respond, Thread
  <2>3. Go(v, "receipt") /\ ReceiptsOf(worker[v].req.effect) = {}
    BY <1>6, <2>2 DEF ReceiptLookup
  <2>4. /\ worker'[v].req = worker[v].req /\ worker'[v].view = worker[v].view
    BY <2>3, <1>t DEF Go, Thread
  <2>5. worker[v].req \in Requests  BY <2>1 DEF HistoryInv, BaseInv, Held
  <2>6. worker[v].req.method = "we.projection.receipt" /\ worker[v].view <= Len(rows)
        /\ (worker[v].view = Len(rows) => Current(worker[v].req))
    BY <2>1 DEF HistoryInv, StageInv
  <2>7. worker[v].req.effect # None  BY <2>5, <2>6, RequestAssumption
  <2>8. \A i \in DOMAIN rows : rows[i].effect # worker[v].req.effect
    BY <2>3, <2>7, EffectsAreReceipts DEF ReceiptsOf
  <2>9. worker[v].view \in Nat /\ DOMAIN rows = 1..Len(rows) /\ Len(rows) \in Nat
    BY <1>t DEF Thread
  <2>10. Current(worker[v].req) => Current(worker[v].req)'  BY <2>1, <2>4 DEF Current
  <2>11. \A i \in 1..worker[v].view : i \in DOMAIN rows  BY <2>6, <2>9
  <2>12. QED  BY <1>6, <2>1, <2>4, <2>6, <2>8, <2>10, <2>11
<1>7. QED  BY <1>t, <1>1, <1>2, <1>3, <1>4, <1>5, <1>6, ThreadStep

LEMMA OperationStep == HistoryInv /\ [Next]_vars => OperationInv'
<1> SUFFICES ASSUME HistoryInv, [Next]_vars PROVE OperationInv'
  OBVIOUS
<1>b. BaseInv /\ OperationInv  BY DEF HistoryInv
<1>t. rows \in Seq(Row) /\ operations \in [Keys -> OperationRow \cup {None}]
  BY <1>b DEF BaseInv, TypeOK
<1>j. \A r \in Requests : Journalled(r) => Journalled(r)'  BY <1>b, JournalStep
<1>r. \A k \in Keys : operations[k] # None => operations[k].req \in Requests
  BY <1>t DEF OperationRow
<1>1. CASE UNCHANGED <<rows, operations>>
  BY <1>1, <1>b, <1>j, <1>r DEF OperationInv
<1>2. ASSUME NEW w \in Workers, Authored(w) PROVE OperationInv'
  <2>1. PICK r : r = worker[w].req  OBVIOUS
  <2>2. r \in Requests /\ Journalled(r)
    BY <1>2, <1>b, <2>1 DEF Authored, BaseInv, Held
  <2>3. r.key \in Keys  BY <2>2, KeyOfRequest
  <2>4. PICK e : e = EventOf(r)  OBVIOUS
  <2>5. e \in Row  BY <2>2, <2>4, EventTyped
  <2>6. /\ rows' = Append(rows, e) /\ operations[r.key] = None
        /\ operations' = [operations EXCEPT ![r.key] =
                             [req |-> r, event |-> Len(rows) + 1]]
    BY <1>2, <2>1, <2>4 DEF Authored
  <2>7. /\ Len(rows) \in Nat
        /\ DOMAIN rows = 1..Len(rows) /\ DOMAIN rows' = 1..(Len(rows) + 1)
        /\ \A i \in DOMAIN rows : rows'[i] = rows[i]
        /\ rows'[Len(rows) + 1] = e
    BY <1>t, <2>5, <2>6, AppendFacts
  <2>8. e.local /\ e.req = r  BY <2>4 DEF EventOf
  <2>9. /\ operations'[r.key] = [req |-> r, event |-> Len(rows) + 1]
        /\ \A k \in Keys \ {r.key} : operations'[k] = operations[k]
    BY <1>t, <2>3, <2>6
  <2>10. operations'[r.key] # None
    BY <2>2, <2>7, <2>9, NoneAssumption DEF OperationRow
  <2>11. ASSUME NEW k \in Keys, operations'[k] # None
         PROVE  /\ operations'[k].event \in DOMAIN rows'
                /\ rows'[operations'[k].event] = EventOf(operations'[k].req)
                /\ operations'[k].req.key = k
                /\ Journalled(operations[k].req)'
    <3>1. CASE k = r.key
      <4>1. operations'[k].req = r /\ operations'[k].event = Len(rows) + 1
        BY <3>1, <2>9
      <4>2. Journalled(r)'  BY <1>j, <2>2
      <4>3. QED  BY <3>1, <4>1, <4>2, <2>4, <2>7 DEF Journalled
    <3>2. CASE k # r.key
      <4>1. operations'[k] = operations[k] /\ operations[k] # None
        BY <3>2, <2>9, <2>11
      <4>2. operations[k].req \in Requests /\ Journalled(operations[k].req)
            /\ operations[k].event \in DOMAIN rows
            /\ rows[operations[k].event] = EventOf(operations[k].req)
            /\ operations[k].req.key = k
        BY <4>1, <1>b, <1>r DEF OperationInv
      <4>3. PICK q : q = operations[k].req  OBVIOUS
      <4>4. Journalled(q)'  BY <4>2, <4>3, <1>j
      <4>5. QED  BY <4>1, <4>2, <4>3, <4>4, <2>7 DEF Journalled
    <3>3. QED  BY <3>1, <3>2
  <2>12. ASSUME NEW i \in DOMAIN rows', rows'[i].local
         PROVE  /\ rows'[i].req \in Requests
                /\ rows'[i] = EventOf(rows'[i].req)
                /\ operations'[rows'[i].req.key] # None
                /\ operations'[rows'[i].req.key].event = i
    <3>1. CASE i = Len(rows) + 1
      BY <3>1, <2>2, <2>4, <2>7, <2>8, <2>9, <2>10
    <3>2. CASE i # Len(rows) + 1
      <4>1. i \in DOMAIN rows /\ rows'[i] = rows[i]  BY <3>2, <2>7
      <4>2. /\ rows[i].req \in Requests /\ rows[i] = EventOf(rows[i].req)
            /\ operations[rows[i].req.key] # None
            /\ operations[rows[i].req.key].event = i
        BY <4>1, <2>12, <1>b DEF OperationInv
      <4>3. rows[i].req.key \in Keys /\ rows[i].req.key # r.key
        BY <4>2, <2>6, KeyOfRequest
      <4>4. QED  BY <4>1, <4>2, <4>3, <2>9
    <3>3. QED  BY <3>1, <3>2
  <2>13. \A i \in DOMAIN rows' : ~ rows'[i].local => rows'[i].effect = None
    BY <2>7, <2>8, <1>b DEF OperationInv
  <2>14. QED  BY <2>11, <2>12, <2>13 DEF OperationInv, Journalled
<1>3. ASSUME NEW e \in Row, Received(e) PROVE OperationInv'
  <2>1. rows' = Append(rows, e) /\ ~ e.local /\ e.effect = None
        /\ UNCHANGED <<operations, journal>>
    BY <1>3 DEF Received
  <2>2. /\ Len(rows) \in Nat
        /\ DOMAIN rows = 1..Len(rows) /\ DOMAIN rows' = 1..(Len(rows) + 1)
        /\ \A i \in DOMAIN rows : rows'[i] = rows[i]
        /\ rows'[Len(rows) + 1] = e
    BY <1>t, <2>1, AppendFacts
  <2>3. \A k \in Keys : operations'[k] # None =>
          /\ operations'[k].event \in DOMAIN rows'
          /\ rows'[operations'[k].event] = EventOf(operations'[k].req)
          /\ operations'[k].req.key = k
          /\ Journalled(operations[k].req)'
    BY <2>1, <2>2, <1>b DEF OperationInv, Journalled
  <2>4. \A i \in DOMAIN rows' : rows'[i].local => i \in DOMAIN rows /\ rows'[i] = rows[i]
    BY <2>1, <2>2
  <2>5. \A i \in DOMAIN rows' : ~ rows'[i].local => rows'[i].effect = None
    BY <2>1, <2>2, <1>b DEF OperationInv
  <2>6. QED  BY <2>1, <2>3, <2>4, <2>5, <1>b DEF OperationInv, Journalled
<1>4. QED  BY <1>1, <1>2, <1>3, <1>b, HistorySteps

LEMMA EffectStep == HistoryInv /\ [Next]_vars => EffectUnique'
<1> SUFFICES ASSUME HistoryInv, [Next]_vars PROVE EffectUnique'
  OBVIOUS
<1>b. BaseInv /\ EffectUnique  BY DEF HistoryInv
<1>t. rows \in Seq(Row)  BY <1>b DEF BaseInv, TypeOK
<1>1. CASE UNCHANGED <<rows, operations>>  BY <1>1, <1>b DEF EffectUnique
<1>2. ASSUME NEW e \in Row, rows' = Append(rows, e),
             e.effect # None => \A i \in DOMAIN rows : rows[i].effect # e.effect
      PROVE  EffectUnique'
  <2>1. /\ Len(rows) \in Nat
        /\ DOMAIN rows = 1..Len(rows) /\ DOMAIN rows' = 1..(Len(rows) + 1)
        /\ \A i \in DOMAIN rows : rows'[i] = rows[i]
        /\ rows'[Len(rows) + 1] = e
    BY <1>t, <1>2, AppendFacts
  <2>2. QED  BY <1>2, <1>b, <2>1 DEF EffectUnique
<1>3. ASSUME NEW w \in Workers, Authored(w) PROVE EffectUnique'
  <2>1. PICK r : r = worker[w].req  OBVIOUS
  <2>2. r \in Requests  BY <1>3, <1>b, <2>1 DEF Authored, BaseInv, Held
  <2>3. PICK e : e = EventOf(r)  OBVIOUS
  <2>4. e \in Row /\ e.effect = r.effect
    <3>1. e \in Row  BY <2>2, <2>3, EventTyped
    <3>2. e.effect = r.effect  BY <2>3 DEF EventOf
    <3>3. QED  BY <3>1, <3>2
  <2>5. ASSUME r.effect # None PROVE \A i \in DOMAIN rows : rows[i].effect # r.effect
    <3>1. r.method = "we.projection.receipt"  BY <2>2, <2>5, RequestAssumption
    <3>2. worker[w].pc = "receipt"
      BY <3>1, <1>3, <2>1 DEF Authored, Authoring, HistoryInv, StageInv
    <3>3. worker[w].view = Len(rows)  BY <3>2, <1>3 DEF Authored
    <3>4. \A i \in 1..worker[w].view : rows[i].effect # r.effect
      BY <3>2, <2>1 DEF HistoryInv, StageInv
    <3>5. DOMAIN rows = 1..Len(rows)  BY <1>t
    <3>6. QED  BY <3>3, <3>4, <3>5
  <2>6. rows' = Append(rows, e)  BY <1>3, <2>1, <2>3 DEF Authored
  <2>7. QED  BY <1>2, <2>4, <2>5, <2>6
<1>4. ASSUME NEW e \in Row, Received(e) PROVE EffectUnique'
  BY <1>2, <1>4 DEF Received
<1>5. QED  BY <1>1, <1>3, <1>4, <1>b, HistorySteps

LEMMA HistoryAlways == Spec => []HistoryInv
<1>1. HistoryInv /\ [Next]_vars => HistoryInv'
  BY BaseStep, StageStep, OperationStep, EffectStep DEF HistoryInv
<1>2. QED  BY <1>1, HistoryInit, PTL DEF Spec

\* A request authors at most one event and an effect is receipted at most once,
\* for any number of threads, copies of a request and crashes.
THEOREM EffectsHappenOnce == Spec => []EffectOnce
<1>1. HistoryInv => EffectOnce
  BY DEF HistoryInv, OperationInv, EffectUnique, EffectOnce
<1>2. QED  BY <1>1, HistoryAlways, PTL

\* No receipt is stored for an adoption that is no longer the effective one,
\* whatever other threads and other bodies append meanwhile.
THEOREM ReceiptsRestOnAdoption == Spec => ReceiptRestsOnCurrentAdoption
<1>1. ASSUME HistoryInv, [Next]_vars
      PROVE  \A i \in DOMAIN rows' \ DOMAIN rows :
                rows'[i].kind = "projection.receipted" =>
                    /\ EntryState(rows, rows'[i].target) = "adopt"
                    /\ DecisionTip(rows, rows'[i].target) = rows'[i].basis
  <2>b. BaseInv  BY <1>1 DEF HistoryInv
  <2>t. rows \in Seq(Row)  BY <2>b DEF BaseInv, TypeOK
  <2>1. CASE UNCHANGED <<rows, operations>>  BY <2>1
  <2>2. ASSUME NEW w \in Workers, Authored(w), NEW i \in DOMAIN rows' \ DOMAIN rows,
               rows'[i].kind = "projection.receipted"
        PROVE  /\ EntryState(rows, rows'[i].target) = "adopt"
               /\ DecisionTip(rows, rows'[i].target) = rows'[i].basis
    <3>1. PICK r : r = worker[w].req  OBVIOUS
    <3>2. r \in Requests  BY <2>2, <2>b, <3>1 DEF Authored, BaseInv, Held
    <3>3. EventOf(r) \in Row  BY <3>2, EventTyped
    <3>4. rows' = Append(rows, EventOf(r))  BY <2>2, <3>1 DEF Authored
    <3>5. rows'[i] = EventOf(r)  BY <2>t, <2>2, <3>3, <3>4, AppendFacts
    <3>6. rows'[i].target = r.target /\ rows'[i].basis = r.basis
      BY <3>5 DEF EventOf
    <3>7. r.method = "we.projection.receipt"
      <4>1. r.method \in Authoring \cup {"we.decide", "we.projection.receipt"}
        BY <3>2, RequestAssumption
      <4>2. QED  BY <4>1, <3>5, <2>2 DEF EventOf, Authoring
    <3>8. worker[w].pc = "receipt" /\ worker[w].view = Len(rows)
      BY <1>1, <2>2, <3>1, <3>7 DEF Authored, Authoring, HistoryInv, StageInv
    <3>9. Current(r)  BY <1>1, <3>1, <3>8 DEF HistoryInv, StageInv
    <3>10. QED  BY <3>6, <3>9 DEF Current
  <2>4. ASSUME NEW w \in Workers, NEW r \in Requests, Receive(w, r)
        PROVE  UNCHANGED rows
    BY <2>4 DEF Receive, Begin, BeginConflict, Replay, store
  <2>5. CASE Environment
    <3>1. \A k, t : RemoteEvent(k, t).kind = k  BY DEF RemoteEvent
    <3>2. ASSUME NEW e \in Row, Arrive(e), NEW i \in DOMAIN rows' \ DOMAIN rows
          PROVE  rows'[i] = e
      BY <2>t, <3>2, AppendFacts DEF Arrive
    <3>3. RemoteEvent("configuration.proposed", None) \in Row
      BY RemoteTyped DEF EventRef
    <3>4. \A t \in DOMAIN rows : RemoteEvent("adoption.decided", t) \in Row
      BY <2>t, RemoteTyped DEF EventRef
    <3>5. CASE Crash \/ \E r \in Aging : Expire(r)  BY <3>5 DEF Crash, Expire, store
    <3>6. CASE Arrive(RemoteEvent("configuration.proposed", None))
      BY <3>1, <3>2, <3>3, <3>6
    <3>7. CASE \E t \in DOMAIN rows : Arrive(RemoteEvent("adoption.decided", t))
      BY <3>1, <3>2, <3>4, <3>7
    <3>8. QED  BY <2>5, <3>5, <3>6, <3>7 DEF Environment
  <2>6. ASSUME NEW w \in Workers, WorkerStep(w)
        PROVE  UNCHANGED <<rows, operations>> \/ Authored(w)
    <3>1. CASE Observe(w) \/ DecideAuthor(w) \/ ReceiptAuthor(w)  BY <3>1, AuthorSteps
    <3>2. CASE ~ (Observe(w) \/ DecideAuthor(w) \/ ReceiptAuthor(w))
      BY <2>6, <3>2 DEF WorkerStep, DecideRead, ReceiptRead, ReceiptObserve,
         ReceiptLookup, ReceiptChanged, DispatchFails, Finish, AnswerAgain, store
    <3>3. QED  BY <3>1, <3>2
  <2>7. CASE UNCHANGED vars  BY <2>7 DEF vars, store
  <2>8. QED  BY <1>1, <2>1, <2>2, <2>4, <2>5, <2>6, <2>7 DEF Next
<1>2. QED  BY <1>1, HistoryAlways, PTL DEF Spec, ReceiptRestsOnCurrentAdoption

-----------------------------------------------------------------------------
(***************************************************************************)
(* What the service has answered.                                          *)
(***************************************************************************)

\* An acknowledged event stays acknowledged: history only grows.
LEMMA AcknowledgesKept ==
    ASSUME BaseInv, [Next]_vars, NEW r, NEW response, Acknowledges(r, response)
    PROVE  Acknowledges(r, response)'
<1>t. rows \in Seq(Row)  BY DEF BaseInv, TypeOK
<1>1. DOMAIN rows \subseteq DOMAIN rows' /\ \A i \in DOMAIN rows : rows'[i] = rows[i]
  <2>1. ASSUME NEW e \in Row, rows' = Append(rows, e)
        PROVE  DOMAIN rows \subseteq DOMAIN rows' /\ \A i \in DOMAIN rows : rows'[i] = rows[i]
    BY <1>t, <2>1, AppendFacts
  <2>2. QED  BY <2>1, HistoryGrows
<1>2. QED  BY <1>1 DEF Acknowledges, SamePayload

\* A refusal is an error.
LEMMA RefusalFails ==
    ASSUME NEW r
    PROVE  /\ DecideRefusal(r) # None => ~ DecideRefusal(r).ok
           /\ ReceiptRefusal(r) # None => ~ ReceiptRefusal(r).ok
<1>1. DecideRefusal(r) # None => ~ DecideRefusal(r).ok  BY DEF DecideRefusal, Error
<1>2. ReceiptRefusal(r) # None => ~ ReceiptRefusal(r).ok  BY DEF ReceiptRefusal, Error
<1>3. QED  BY <1>1, <1>2

\* The event a request authored acknowledges it.
LEMMA OwnEvent ==
    ASSUME NEW r \in Requests, NEW i, i \in DOMAIN rows, rows[i] = EventOf(r)
    PROVE  Acknowledges(r, Ok(i))
<1>1. rows[i].req = r /\ rows[i].effect = r.effect  BY DEF EventOf
<1>2. QED  BY <1>1 DEF Acknowledges, Ok, SamePayload

\* What a dispatch answers is true when it is given.
LEMMA Responses ==
    ASSUME HistoryInv, [Next]_vars, NEW w \in Workers, WorkerStep(w),
           NEW r, r = worker[w].req
    PROVE  \/ worker'[w].pc # "finish"
           \/ \E x : Respond(w, x) /\ Acknowledges(r, x)'
<1>b. BaseInv  BY DEF HistoryInv
<1>t. worker \in [Workers -> Thread] /\ rows \in Seq(Row)
      /\ operations \in [Keys -> OperationRow \cup {None}]
  BY <1>b DEF BaseInv, TypeOK
<1>e. \A x : ~ x.ok => Acknowledges(r, x)'  BY DEF Acknowledges
<1>c. \A c : ~ Error(c).ok  BY DEF Error
<1>g. \A pc \in Stages \ {"finish"} : Go(w, pc) => worker'[w].pc # "finish"
  BY <1>t DEF Go, Thread
<1>1. CASE Observe(w) \/ DecideAuthor(w) \/ ReceiptAuthor(w)
  <2>1. CASE Authored(w)
    <3>1. r \in Requests  BY <2>1, <1>b DEF Authored, BaseInv, Held
    <3>2. EventOf(r) \in Row  BY <3>1, EventTyped
    <3>3. rows' = Append(rows, EventOf(r)) /\ Respond(w, Ok(Len(rows) + 1))
      BY <2>1 DEF Authored
    <3>4. PICK i : i = Len(rows) + 1  OBVIOUS
    <3>5. i \in DOMAIN rows' /\ rows'[i] = EventOf(r)
      BY <1>t, <3>2, <3>3, <3>4, AppendFacts
    <3>6. Acknowledges(r, Ok(i))'
      <4>1. rows'[i].req = r /\ rows'[i].effect = r.effect  BY <3>5 DEF EventOf
      <4>2. QED  BY <3>5, <4>1 DEF Acknowledges, Ok, SamePayload
    <3>7. QED  BY <3>3, <3>4, <3>6
  <2>2. CASE /\ worker[w].pc # "idle" /\ operations[r.key] # None
             /\ Respond(w, Ok(operations[r.key].event))
    <3>1. r \in Requests /\ Journalled(r)  BY <2>2, <1>b DEF BaseInv, Held
    <3>2. r.key \in Keys  BY <3>1, KeyOfRequest
    <3>3. operations[r.key].req.key = r.key /\ Journalled(operations[r.key].req)
          /\ operations[r.key].event \in DOMAIN rows
          /\ rows[operations[r.key].event] = EventOf(operations[r.key].req)
      BY <2>2, <3>2 DEF HistoryInv, OperationInv
    <3>4. operations[r.key].req = r  BY <3>1, <3>3 DEF Journalled
    <3>5. PICK i : i = operations[r.key].event  OBVIOUS
    <3>6. Acknowledges(r, Ok(i))  BY <3>1, <3>3, <3>4, <3>5, OwnEvent
    <3>7. Acknowledges(r, Ok(i))'  BY <1>b, <3>6, AcknowledgesKept
    <3>8. QED  BY <2>2, <3>5, <3>7
  <2>3. CASE Respond(w, Error("causal_gap"))  BY <2>3, <1>e, <1>c
  <2>4. QED  BY <1>1, <2>1, <2>2, <2>3, AuthorSteps
<1>2. CASE DecideRead(w)
  <2>1. \/ Go(w, "decide")
        \/ Respond(w, DecideRefusal(r)) /\ ~ DecideRefusal(r).ok
    BY <1>2, RefusalFails DEF DecideRead
  <2>2. PICK x : x = DecideRefusal(r)  OBVIOUS
  <2>3. QED  BY <2>1, <2>2, <1>e, <1>g DEF Stages
<1>3. CASE ReceiptRead(w)
  <2>1. \/ worker' = [worker EXCEPT ![w].pc = "observe", ![w].view = Len(rows)]
        \/ Respond(w, ReceiptRefusal(r)) /\ ~ ReceiptRefusal(r).ok
    BY <1>3, RefusalFails DEF ReceiptRead, Respond
  <2>2. PICK x : x = ReceiptRefusal(r)  OBVIOUS
  <2>3. worker' = [worker EXCEPT ![w].pc = "observe", ![w].view = Len(rows)]
           => worker'[w].pc = "observe"
    BY <1>t DEF Thread
  <2>4. QED  BY <2>1, <2>2, <2>3, <1>e
<1>4. CASE \E verified \in BOOLEAN : ReceiptObserve(w, verified)
  BY <1>4, <1>e, <1>c, <1>g DEF ReceiptObserve, Stages
<1>5. CASE ReceiptLookup(w)
  <2>1. CASE Go(w, "receipt")  BY <2>1, <1>g DEF Stages
  <2>2. CASE Respond(w, Error("projection_effect_identity_conflict"))
    BY <2>2, <1>e, <1>c
  <2>3. ASSUME NEW i \in ReceiptsOf(r.effect), SamePayload(rows[i], EventOf(r)),
               Respond(w, Ok(i))
        PROVE  \E x : Respond(w, x) /\ Acknowledges(r, x)'
    <3>1. r.method = "we.projection.receipt"
      BY <1>5 DEF ReceiptLookup, At, HistoryInv, StageInv
    <3>2. Acknowledges(r, Ok(i))
      BY <2>3, <3>1 DEF Acknowledges, Ok, ReceiptsOf
    <3>3. Acknowledges(r, Ok(i))'  BY <1>b, <3>2, AcknowledgesKept
    <3>4. QED  BY <2>3, <3>3
  <2>4. \/ Go(w, "receipt")
        \/ \E i \in ReceiptsOf(r.effect) :
              Respond(w, IF SamePayload(rows[i], EventOf(r)) THEN Ok(i)
                         ELSE Error("projection_effect_identity_conflict"))
    BY <1>5 DEF ReceiptLookup
  <2>5. ASSUME NEW i \in ReceiptsOf(r.effect),
               Respond(w, IF SamePayload(rows[i], EventOf(r)) THEN Ok(i)
                          ELSE Error("projection_effect_identity_conflict"))
        PROVE  \E x : Respond(w, x) /\ Acknowledges(r, x)'
    <3>1. CASE SamePayload(rows[i], EventOf(r))  BY <2>3, <2>5, <3>1
    <3>2. CASE ~ SamePayload(rows[i], EventOf(r))  BY <2>5, <3>2, <1>e, <1>c
    <3>3. QED  BY <3>1, <3>2
  <2>6. QED  BY <2>1, <2>4, <2>5
<1>6. CASE ReceiptChanged(w) \/ DispatchFails(w)
  BY <1>6, <1>e, <1>c DEF ReceiptChanged, DispatchFails
<1>7. CASE Finish(w) \/ AnswerAgain(w)
  BY <1>7, <1>t DEF Finish, AnswerAgain, Idle
<1>8. QED  BY <1>1, <1>2, <1>3, <1>4, <1>5, <1>6, <1>7 DEF WorkerStep

\* A thread about to answer holds a true answer, and what was sent for a request
\* is its journalled response, or a conflict when the journal has another's.
AnswerInv ==
    /\ SuccessIsTrue
    /\ \A w \in Workers : worker[w].pc = "finish" =>
          Acknowledges(worker[w].req, worker[w].response)
    /\ \A w \in Workers : worker[w].again =>
          worker[w].req.method = "we.projection.receipt"
    /\ \A a \in answers : a[1].method # "we.projection.receipt" =>
          /\ journal[a[1].key] # None
          /\ \/ Journalled(a[1]) /\ journal[a[1].key].response = a[2]
             \/ ~ Journalled(a[1]) /\ a[2] = Error("request_conflict")

LEMMA ThreadsAnswerTruly ==
    ASSUME HistoryInv, AnswerInv, [Next]_vars, NEW v \in Workers, worker'[v].pc = "finish"
    PROVE  Acknowledges(worker[v].req, worker[v].response)'
<1>b. BaseInv  BY DEF HistoryInv
<1>t. worker \in [Workers -> Thread]  BY <1>b DEF BaseInv, TypeOK
<1>1. CASE worker'[v] = worker[v]
  <2>1. PICK r, x : r = worker[v].req /\ x = worker[v].response  OBVIOUS
  <2>2. Acknowledges(r, x)  BY <1>1, <2>1 DEF AnswerInv
  <2>3. Acknowledges(r, x)'  BY <1>b, <2>2, AcknowledgesKept
  <2>4. QED  BY <1>1, <2>1, <2>3
<1>2. CASE WorkerStep(v)
  <2>1. PICK r : r = worker[v].req  OBVIOUS
  <2>2. PICK x : Respond(v, x) /\ Acknowledges(r, x)'  BY <1>2, <2>1, Responses
  <2>3. worker[v] \in [pc: Stages, req: Requests \cup {None}, view: Nat,
                       again: BOOLEAN, response: Response \cup {None}]
    BY <1>t DEF Thread
  <2>4. worker'[v] = [worker[v] EXCEPT !.pc = "finish", !.response = x]
    BY <1>t, <2>2 DEF Respond
  <2>5. worker'[v].req = r /\ worker'[v].response = x  BY <2>1, <2>3, <2>4
  <2>6. QED  BY <2>2, <2>5
<1>3. CASE worker'[v].pc = "idle" \/ worker'[v].pc = "dispatch"  BY <1>3
<1>4. QED
  <2>1. ASSUME NEW w \in Workers, WorkerStep(w), w # v PROVE worker'[v] = worker[v]
    <3>1. CASE Observe(w) \/ DecideAuthor(w) \/ ReceiptAuthor(w)
      <4>1. \E x : Respond(w, x)  BY <3>1, AuthorSteps DEF Authored
      <4>2. QED  BY <1>t, <2>1, <4>1 DEF Respond
    <3>2. CASE ~ (Observe(w) \/ DecideAuthor(w) \/ ReceiptAuthor(w))
      BY <1>t, <2>1, <3>2 DEF WorkerStep, DecideRead, ReceiptRead, ReceiptObserve,
         ReceiptLookup, ReceiptChanged, DispatchFails, Finish, AnswerAgain, Go, Respond
    <3>3. QED  BY <3>1, <3>2
  <2>2. ASSUME NEW w \in Workers, NEW r \in Requests, Receive(w, r)
        PROVE  worker'[v] = worker[v] \/ worker'[v].pc = "dispatch"
    BY <1>t, <2>2 DEF Receive, Begin, BeginConflict, Replay, Start, Idle
  <2>3. CASE Environment
    <3>1. CASE Crash  BY <3>1, <1>3 DEF Crash, Idle
    <3>2. CASE \E e : Arrive(e)  BY <3>2, <1>1 DEF Arrive
    <3>3. CASE \E r \in Aging : Expire(r)  BY <3>3, <1>1 DEF Expire
    <3>4. QED  BY <2>3, <3>1, <3>2, <3>3 DEF Environment
  <2>4. CASE UNCHANGED vars  BY <2>4, <1>1 DEF vars
  <2>5. QED  BY <1>1, <1>2, <1>3, <2>1, <2>2, <2>3, <2>4 DEF Next

\* Only a reconciliation runs again.
LEMMA AgainStep ==
    ASSUME BaseInv, [Next]_vars, NEW v \in Workers,
           worker[v].again => worker[v].req.method = "we.projection.receipt"
    PROVE  worker'[v].again => worker'[v].req.method = "we.projection.receipt"
<1>t. worker \in [Workers -> Thread]  BY DEF BaseInv, TypeOK
<1>1. \A w \in Workers : \A x : Respond(w, x) =>
         worker'[v].req = worker[v].req /\ worker'[v].again = worker[v].again
  BY <1>t DEF Respond, Thread
<1>2. \A w \in Workers : \A pc : Go(w, pc) =>
         worker'[v].req = worker[v].req /\ worker'[v].again = worker[v].again
  BY <1>t DEF Go, Thread
<1>3. ASSUME NEW w \in Workers, WorkerStep(w)
      PROVE  \/ worker'[v].req = worker[v].req /\ worker'[v].again = worker[v].again
             \/ worker'[v].again = FALSE
  <2>1. CASE Observe(w) \/ DecideAuthor(w) \/ ReceiptAuthor(w)
    <3>1. \E x : Respond(w, x)  BY <2>1, AuthorSteps DEF Authored
    <3>2. QED  BY <3>1, <1>1
  <2>2. CASE DecideRead(w)  BY <2>2, <1>1, <1>2 DEF DecideRead
  <2>3. CASE ReceiptRead(w)
    <3>1. \/ worker' = [worker EXCEPT ![w].pc = "observe", ![w].view = Len(rows)]
          \/ \E x : Respond(w, x)
      BY <2>3 DEF ReceiptRead, Respond
    <3>2. worker' = [worker EXCEPT ![w].pc = "observe", ![w].view = Len(rows)] =>
             worker'[v].req = worker[v].req /\ worker'[v].again = worker[v].again
      BY <1>t DEF Thread
    <3>3. QED  BY <3>1, <3>2, <1>1
  <2>4. CASE \E x \in BOOLEAN : ReceiptObserve(w, x)
    BY <2>4, <1>1, <1>2 DEF ReceiptObserve
  <2>5. CASE ReceiptLookup(w)  BY <2>5, <1>1, <1>2 DEF ReceiptLookup
  <2>6. CASE ReceiptChanged(w) \/ DispatchFails(w)
    BY <2>6, <1>1 DEF ReceiptChanged, DispatchFails
  <2>7. CASE Finish(w) \/ AnswerAgain(w)
    BY <1>t, <2>7 DEF Finish, AnswerAgain, Idle
  <2>8. QED  BY <1>3, <2>1, <2>2, <2>3, <2>4, <2>5, <2>6, <2>7 DEF WorkerStep
<1>4. ASSUME NEW w \in Workers, NEW r \in Requests, Receive(w, r)
      PROVE  \/ worker'[v] = worker[v]
             \/ worker'[v].again = FALSE
             \/ worker'[v].req = r /\ r.method = "we.projection.receipt"
  BY <1>t, <1>4 DEF Receive, Begin, BeginConflict, Replay, Start, Idle
<1>5. CASE Environment
  <2>1. CASE Crash  BY <2>1 DEF Crash, Idle
  <2>2. CASE \E e : Arrive(e)  BY <2>2 DEF Arrive
  <2>3. CASE \E r \in Aging : Expire(r)  BY <2>3 DEF Expire
  <2>4. QED  BY <1>5, <2>1, <2>2, <2>3 DEF Environment
<1>6. CASE UNCHANGED vars  BY <1>6 DEF vars
<1>7. QED  BY <1>3, <1>4, <1>5, <1>6 DEF Next

\* What may be answered for r in a step: true, and the journal's word.
Sound(r, x) ==
    /\ r \in Requests /\ x \in Response
    /\ Acknowledges(r, x)
    /\ r.method # "we.projection.receipt" =>
          /\ journal'[r.key] # None
          /\ \/ Journalled(r)' /\ journal'[r.key].response = x
             \/ ~ Journalled(r)' /\ x = Error("request_conflict")

\* finish_rpc keeps the first response.
LEMMA FinishFacts ==
    ASSUME HistoryInv, AnswerInv, NEW w \in Workers, Finish(w), NEW r, r = worker[w].req
    PROVE  /\ r \in Requests /\ r.key \in Keys /\ Journalled(r)
           /\ \A k \in Keys \ {r.key} : journal'[k] = journal[k]
           /\ journal'[r.key] # None /\ journal'[r.key].req = r
           /\ journal'[r.key].response = Stored(r, worker[w].response)
           /\ Stored(r, worker[w].response) \in Response
           /\ worker[w].response \in Response
           /\ Acknowledges(r, Stored(r, worker[w].response))
           /\ Acknowledges(r, worker[w].response)
           /\ rows' = rows
<1>b. BaseInv  BY DEF HistoryInv
<1>t. journal \in [Keys -> JournalRow \cup {None}]  BY <1>b DEF BaseInv, TypeOK
<1>1. r \in Requests /\ Journalled(r) /\ worker[w].response \in Response
  BY <1>b DEF Finish, At, BaseInv, Held
<1>2. r.key \in Keys  BY <1>1, KeyOfRequest
<1>3. journal[r.key] \in JournalRow /\ journal[r.key].req = r
  BY <1>1, <1>2, <1>t DEF Journalled
<1>4. PICK x : x = Stored(r, worker[w].response)  OBVIOUS
<1>5. journal' = [journal EXCEPT ![r.key].response = x]  BY <1>4 DEF Finish
<1>6. x \in Response  BY <1>1, <1>3, <1>4 DEF Stored, JournalRow
<1>7. journal'[r.key] = [journal[r.key] EXCEPT !.response = x]  BY <1>2, <1>5, <1>t
<1>8. journal'[r.key] \in JournalRow /\ journal'[r.key].req = r
      /\ journal'[r.key].response = x
  BY <1>3, <1>6, <1>7 DEF JournalRow
<1>9. journal'[r.key] # None  BY <1>8, NoneAssumption
<1>10. Acknowledges(r, worker[w].response)  BY DEF Finish, At, AnswerInv
<1>11. Acknowledges(r, x)
  <2>1. CASE journal[r.key].response = None  BY <2>1, <1>4, <1>10 DEF Stored
  <2>2. CASE journal[r.key].response # None
    BY <2>2, <1>1, <1>2, <1>3, <1>4 DEF Stored, AnswerInv, SuccessIsTrue, Journalled
  <2>3. QED  BY <2>1, <2>2
<1>12. \A k \in Keys \ {r.key} : journal'[k] = journal[k]  BY <1>2, <1>5, <1>t
<1>13. rows' = rows  BY DEF Finish
<1>14. QED  BY <1>1, <1>2, <1>4, <1>6, <1>8, <1>9, <1>10, <1>11, <1>12, <1>13

LEMMA AnswersMove ==
    ASSUME HistoryInv, AnswerInv, [Next]_vars
    PROVE  answers' = answers \/ \E r, x : Sound(r, x) /\ Answer(r, x)
<1>b. BaseInv  BY DEF HistoryInv
<1>t. journal \in [Keys -> JournalRow \cup {None}]  BY <1>b DEF BaseInv, TypeOK
<1>1. ASSUME NEW w \in Workers, NEW r \in Requests, BeginConflict(w, r)
      PROVE  \E q, x : Sound(q, x) /\ Answer(q, x)
  <2>1. Error("request_conflict") \in Response /\ ~ Error("request_conflict").ok
    BY ResponseTyped DEF Codes, Error
  <2>2. journal' = journal /\ journal[r.key] # None /\ ~ Journalled(r)
        /\ Answer(r, Error("request_conflict"))
    BY <1>1 DEF BeginConflict
  <2>3. Acknowledges(r, Error("request_conflict"))  BY <2>1 DEF Acknowledges
  <2>4. Sound(r, Error("request_conflict"))
    BY <2>1, <2>2, <2>3 DEF Sound, Journalled
  <2>5. QED  BY <2>2, <2>4
<1>2. ASSUME NEW w \in Workers, NEW r \in Requests, Replay(w, r)
      PROVE  answers' = answers \/ \E q, x : Sound(q, x) /\ Answer(q, x)
  <2>1. CASE r.method = "we.projection.receipt"  BY <1>2, <2>1 DEF Replay
  <2>2. CASE r.method # "we.projection.receipt"
    <3>1. Answer(r, journal[r.key].response) /\ journal' = journal /\ Journalled(r)
          /\ journal[r.key].response # None
      BY <1>2, <2>2 DEF Replay, store
    <3>2. r.key \in Keys  BY KeyOfRequest
    <3>3. journal[r.key].response \in Response
      BY <3>1, <3>2, <1>t DEF Journalled, JournalRow
    <3>4. Acknowledges(r, journal[r.key].response)
      BY <3>1, <3>2 DEF AnswerInv, SuccessIsTrue, Journalled
    <3>5. Sound(r, journal[r.key].response)
      BY <3>1, <3>3, <3>4 DEF Sound, Journalled
    <3>6. QED  BY <3>1, <3>5
  <2>3. QED  BY <2>1, <2>2
<1>3. ASSUME NEW w \in Workers, Finish(w)
      PROVE  \E q, x : Sound(q, x) /\ Answer(q, x)
  <2>1. PICK r : r = worker[w].req  OBVIOUS
  <2>2. PICK s : s = Stored(r, worker[w].response)  OBVIOUS
  <2>3. PICK x : x = IF r.method = "we.projection.receipt" THEN worker[w].response ELSE s
    OBVIOUS
  <2>4. Answer(r, x)  BY <1>3, <2>1, <2>2, <2>3 DEF Finish
  <2>5. /\ r \in Requests /\ journal'[r.key] # None /\ journal'[r.key].req = r
        /\ journal'[r.key].response = s
        /\ s \in Response /\ worker[w].response \in Response
        /\ Acknowledges(r, s) /\ Acknowledges(r, worker[w].response)
    BY <1>3, <2>1, <2>2, FinishFacts
  <2>6. Sound(r, x)  BY <2>3, <2>5 DEF Sound, Journalled
  <2>7. QED  BY <2>4, <2>6
<1>4. ASSUME NEW w \in Workers, AnswerAgain(w)
      PROVE  \E q, x : Sound(q, x) /\ Answer(q, x)
  <2>1. worker[w].req \in Requests /\ worker[w].response \in Response
    BY <1>4, <1>b DEF AnswerAgain, At, BaseInv, Held
  <2>2. worker[w].req.method = "we.projection.receipt"
        /\ Acknowledges(worker[w].req, worker[w].response)
    BY <1>4 DEF AnswerAgain, At, AnswerInv
  <2>3. QED  BY <1>4, <2>1, <2>2 DEF AnswerAgain, Sound
<1>5. \/ answers' = answers
      \/ \E w \in Workers : Finish(w) \/ AnswerAgain(w)
      \/ \E w \in Workers, r \in Requests : BeginConflict(w, r) \/ Replay(w, r)
  BY DEF Next, WorkerStep, Receive, Environment, vars, Observe, DecideRead,
     DecideAuthor, ReceiptRead, ReceiptObserve, ReceiptLookup, ReceiptAuthor,
     ReceiptChanged, DispatchFails, Begin, Crash, Arrive, Expire
<1>6. QED  BY <1>1, <1>2, <1>3, <1>4, <1>5

LEMMA AnswerStep == HistoryInv /\ AnswerInv /\ [Next]_vars => AnswerInv'
<1> SUFFICES ASSUME HistoryInv, AnswerInv, [Next]_vars PROVE AnswerInv'
  OBVIOUS
<1>b. BaseInv  BY DEF HistoryInv
<1>t. /\ journal \in [Keys -> JournalRow \cup {None}]
      /\ answers \subseteq Requests \X Response
  BY <1>b DEF BaseInv, TypeOK
<1>1. \A w \in Workers : worker'[w].pc = "finish" =>
         Acknowledges(worker[w].req, worker[w].response)'
  BY ThreadsAnswerTruly
<1>2. \A w \in Workers : worker'[w].again =>
         worker'[w].req.method = "we.projection.receipt"
  BY <1>b, AgainStep DEF AnswerInv
<1>3. ASSUME NEW k \in Keys, journal'[k] # None, journal'[k].response # None
      PROVE  Acknowledges(journal[k].req, journal[k].response)'
  <2>1. CASE journal'[k] = journal[k]
    <3>1. PICK r, x : r = journal[k].req /\ x = journal[k].response  OBVIOUS
    <3>2. Acknowledges(r, x)  BY <1>3, <2>1, <3>1 DEF AnswerInv, SuccessIsTrue
    <3>3. Acknowledges(r, x)'  BY <1>b, <3>2, AcknowledgesKept
    <3>4. QED  BY <2>1, <3>1, <3>3
  <2>2. ASSUME NEW w \in Workers, NEW r \in Requests, Begin(w, r)
        PROVE  journal'[k] = journal[k]
    BY <1>3, <1>t, <2>2, KeyOfRequest DEF Begin
  <2>3. ASSUME NEW w \in Workers, Finish(w)
        PROVE  Acknowledges(journal[k].req, journal[k].response)'
    <3>1. PICK r : r = worker[w].req  OBVIOUS
    <3>2. PICK x : x = Stored(r, worker[w].response)  OBVIOUS
    <3>3. /\ \A m \in Keys \ {r.key} : journal'[m] = journal[m]
          /\ journal'[r.key].req = r /\ journal'[r.key].response = x
          /\ Acknowledges(r, x)
      BY <2>3, <3>1, <3>2, FinishFacts
    <3>4. Acknowledges(r, x)'  BY <1>b, <3>3, AcknowledgesKept
    <3>5. QED  BY <2>1, <3>3, <3>4
  <2>4. \/ journal' = journal
        \/ \E w \in Workers : Finish(w)
        \/ \E w \in Workers, r \in Requests : Begin(w, r)
    BY DEF Next, WorkerStep, Receive, Environment, vars, store, Observe, DecideRead,
       DecideAuthor, ReceiptRead, ReceiptObserve, ReceiptLookup, ReceiptAuthor,
       ReceiptChanged, DispatchFails, AnswerAgain, BeginConflict, Replay, Crash,
       Arrive, Expire
  <2>5. QED  BY <2>1, <2>2, <2>3, <2>4
<1>4. ASSUME NEW a \in answers'
      PROVE  a \in answers \/ Sound(a[1], a[2])
  <2>1. CASE answers' = answers  BY <2>1
  <2>2. ASSUME NEW r, NEW x, Sound(r, x), Answer(r, x)
        PROVE  a \in answers \/ Sound(a[1], a[2])
    <3>1. a \in answers \/ a = <<r, x>>  BY <2>2 DEF Answer
    <3>2. QED  BY <2>2, <3>1
  <2>3. QED  BY <2>1, <2>2, AnswersMove
<1>5. ASSUME NEW a \in answers'
      PROVE  /\ Acknowledges(a[1], a[2])'
             /\ a[1].method # "we.projection.receipt" =>
                  /\ journal'[a[1].key] # None
                  /\ \/ Journalled(a[1])' /\ journal'[a[1].key].response = a[2]
                     \/ ~ Journalled(a[1])' /\ a[2] = Error("request_conflict")
  <2>1. PICK r, x : r = a[1] /\ x = a[2]  OBVIOUS
  <2>2. CASE Sound(r, x)
    <3>1. Acknowledges(r, x)'  BY <1>b, <2>2, AcknowledgesKept DEF Sound
    <3>2. QED  BY <2>1, <2>2, <3>1 DEF Sound
  <2>3. CASE a \in answers
    <3>1. r \in Requests /\ x \in Response /\ x # None
      BY <1>t, <2>1, <2>3, NoneAssumption
    <3>2. r.key \in Keys  BY <3>1, KeyOfRequest
    <3>3. Acknowledges(r, x)  BY <2>1, <2>3 DEF AnswerInv, SuccessIsTrue
    <3>4. Acknowledges(r, x)'  BY <1>b, <3>3, AcknowledgesKept
    <3>5. ASSUME r.method # "we.projection.receipt"
          PROVE  /\ journal'[r.key] # None
                 /\ \/ Journalled(r)' /\ journal'[r.key].response = x
                    \/ ~ Journalled(r)' /\ x = Error("request_conflict")
      <4>1. /\ journal[r.key] # None
            /\ \/ Journalled(r) /\ journal[r.key].response = x
               \/ ~ Journalled(r) /\ x = Error("request_conflict")
        BY <2>1, <2>3, <3>5 DEF AnswerInv
      <4>2. PICK q : q = journal[r.key].req  OBVIOUS
      <4>3. q \in Requests /\ q.key = r.key
        BY <1>b, <1>t, <3>2, <4>1, <4>2 DEF JournalRow, BaseInv, Held
      <4>4. Journalled(q)  BY <4>1, <4>2, <4>3 DEF Journalled
      <4>5. /\ Journalled(q)'
            /\ journal[q.key].response # None =>
                  journal'[q.key].response = journal[q.key].response
        BY <1>b, <4>3, <4>4, JournalStep
      <4>6. journal'[r.key] # None /\ journal'[r.key].req = q
        BY <4>3, <4>5 DEF Journalled
      <4>7. CASE Journalled(r) /\ journal[r.key].response = x
        BY <3>1, <4>2, <4>3, <4>5, <4>6, <4>7 DEF Journalled
      <4>8. CASE ~ Journalled(r) /\ x = Error("request_conflict")
        BY <4>1, <4>2, <4>6, <4>8 DEF Journalled
      <4>9. QED  BY <4>1, <4>6, <4>7, <4>8
    <3>6. QED  BY <2>1, <3>4, <3>5
  <2>4. QED  BY <1>4, <2>1, <2>2, <2>3
<1>6. SuccessIsTrue'  BY <1>3, <1>5 DEF SuccessIsTrue
<1>7. QED  BY <1>1, <1>2, <1>5, <1>6 DEF AnswerInv

LEMMA AnswerAlways == Spec => []AnswerInv
<1>1. Init => AnswerInv
  BY DEF Init, AnswerInv, SuccessIsTrue, Idle
<1>2. QED  BY <1>1, AnswerStep, HistoryAlways, PTL DEF Spec

\* Whatever succeeds in the journal or at a client names a stored event that
\* says what was asked for, in every interleaving of threads and crashes.
THEOREM SuccessesAreTrue == Spec => []SuccessIsTrue
BY AnswerAlways, PTL DEF AnswerInv

\* All copies of a request that are ever answered get the same answer.
THEOREM RetriesGetOneAnswer == Spec => []OneAnswer
<1>1. AnswerInv => OneAnswer
  BY DEF AnswerInv, OneAnswer
<1>2. QED  BY <1>1, AnswerAlways, PTL

\* The service keeps its promise to clients that retry: one effect and one answer
\* per request, and every success is true (service.py: handle).
THEOREM RequestsGetOneAnswer == Spec => []RequestsAreAnsweredOnce
BY ServiceTypeCorrect, EffectsHappenOnce, RetriesGetOneAnswer, SuccessesAreTrue, PTL
   DEF RequestsAreAnsweredOnce

-----------------------------------------------------------------------------
(***************************************************************************)
(* The chain of local decisions (projections.py: _decision_chain).         *)
(***************************************************************************)

\* A set of naturals has a least one (stated without an operator parameter).
LEMMA LeastNatural ==
    ASSUME NEW T, T \subseteq Nat, T # {}
    PROVE  \E n \in T : \A m \in T : n <= m
<1> DEFINE R == OpToRel(<, Nat)
<1>1. IsWellFoundedOn(R, Nat) BY NatLessThanWellFounded
<1> HIDE DEF R
<1>2. PICK n \in T : \A m \in T : <<m, n>> \notin R BY <1>1, WFMin
<1>3. \A m \in T : ~(m < n) BY <1>2 DEF OpToRel, R
<1> QED BY <1>3

\* What holds of 0 and carries over to the next number holds up to n; S is the
\* set of the numbers it holds of.
LEMMA UpTo ==
    ASSUME NEW n \in Nat, NEW S, 0 \in S,
           \A k \in Nat : (k < n /\ k \in S) => k + 1 \in S
    PROVE  \A k \in 0..n : k \in S
<1> DEFINE out == {k \in 0..n : k \notin S}
<1>1. SUFFICES ASSUME out # {} PROVE FALSE OBVIOUS
<1>2. out \subseteq Nat OBVIOUS
<1>3. PICK k \in out : \A m \in out : k <= m
  <2> HIDE DEF out
  <2> QED BY <1>1, <1>2, LeastNatural
<1>4. k \in Nat /\ k <= n /\ k \notin S OBVIOUS
<1>5. k # 0 BY <1>4
<1>6. k - 1 \in Nat /\ k - 1 < n /\ (k - 1) + 1 = k /\ k - 1 \in 0..n BY <1>4, <1>5
<1>7. k - 1 \notin S BY <1>4, <1>6
<1>8. k - 1 \in out BY <1>6, <1>7
<1> QED BY <1>3, <1>4, <1>6, <1>8

\* The values of c are those of h applied again and again.
Applies(c, h, base, n) == c[0] = base /\ \A k \in Nat : k < n => c[k + 1] = h[c[k]]

LEMMA Repeated ==
    ASSUME NEW n \in Nat, NEW V, NEW base \in V, NEW h \in [V -> V]
    PROVE  \E c \in [0..n -> V] : Applies(c, h, base, n)
<1> DEFINE Path(c, m) == Applies(c, h, base, m)
           S == {m \in 0..n : \E c \in [0..m -> V] : Path(c, m)}
<1> USE DEF Applies
<1>1. 0 \in S
  <2>1. [m \in 0..0 |-> base] \in [0..0 -> V] /\ Path([m \in 0..0 |-> base], 0) OBVIOUS
  <2> HIDE DEF Path
  <2> QED BY <2>1
<1>2. ASSUME NEW m \in Nat, m < n, m \in S PROVE m + 1 \in S
  <2>1. PICK b \in [0..m -> V] : Path(b, m) BY <1>2
  <2> DEFINE c == [k \in 0..(m + 1) |-> IF k = m + 1 THEN h[b[m]] ELSE b[k]]
  <2>2. m \in 0..m /\ b[m] \in V /\ h[b[m]] \in V BY <1>2
  <2>3. c \in [0..(m + 1) -> V] BY <2>2
  <2>4. c[0] = base BY <2>1, <1>2
  <2>5. ASSUME NEW k \in Nat, k < m + 1 PROVE c[k + 1] = h[c[k]]
    <3>1. k \in 0..(m + 1) /\ k + 1 \in 0..(m + 1) /\ k # m + 1 BY <2>5
    <3>2. c[k] = b[k] BY <3>1
    <3>3. CASE k = m BY <3>1, <3>2, <3>3
    <3>4. CASE k # m
      <4>1. k < m /\ k + 1 # m + 1 BY <2>5, <3>4
      <4>2. c[k + 1] = b[k + 1] BY <3>1, <4>1
      <4> QED BY <2>1, <3>2, <4>1, <4>2
    <3> QED BY <3>3, <3>4
  <2> HIDE DEF c
  <2>6. Path(c, m + 1) BY <2>4, <2>5
  <2>7. m + 1 \in 0..n BY <1>2
  <2> HIDE DEF Path
  <2> QED BY <2>3, <2>6, <2>7
<1> HIDE DEF S
<1>3. \A m \in 0..n : m \in S BY <1>1, <1>2, UpTo
<1>4. n \in S BY <1>3
<1> HIDE DEF Applies
<1> QED BY <1>4 DEF S

\* One step of the walk.
Follow(D, sup, chain) ==
    IF Children(D, sup, Last(chain)) = {} THEN chain
    ELSE Append(chain, CHOOSE d \in Children(D, sup, Last(chain)) : TRUE)

\* Chains that are not empty.
Chain(D) == Seq(D) \ {<< >>}

LEMMA FollowIsChain ==
    ASSUME NEW D, NEW sup, NEW s \in Chain(D)
    PROVE  /\ Follow(D, sup, s) \in Chain(D)
           /\ Len(s) \in Nat \ {0} /\ Last(s) = s[Len(s)]
           /\ \/ Follow(D, sup, s) = s /\ Children(D, sup, Last(s)) = {}
              \/ \E d \in Children(D, sup, Last(s)) : Follow(D, sup, s) = Append(s, d)
<1>1. s \in Seq(D) /\ s # << >> BY DEF Chain
<1>2. Len(s) \in Nat \ {0} BY <1>1, EmptySeq
<1>3. Last(s) = s[Len(s)] BY DEF Last
<1>4. CASE Children(D, sup, Last(s)) = {}
  BY <1>1, <1>2, <1>3, <1>4 DEF Follow, Chain
<1>5. CASE Children(D, sup, Last(s)) # {}
  <2> DEFINE d == CHOOSE x \in Children(D, sup, Last(s)) : TRUE
  <2>1. d \in Children(D, sup, Last(s)) BY <1>5
  <2>2. d \in D BY <2>1 DEF Children
  <2>3. Follow(D, sup, s) = Append(s, d) BY <1>5 DEF Follow
  <2> HIDE DEF d
  <2>4. Append(s, d) \in Seq(D) /\ Append(s, d) # << >> BY <1>1, <2>2
  <2> QED BY <1>2, <1>3, <2>1, <2>3, <2>4 DEF Chain
<1> QED BY <1>4, <1>5

\* The walk takes as many steps as there are decisions, from the root.
LEMMA WalkSteps ==
    ASSUME NEW D, IsFiniteSet(D), NEW sup, Roots(D, sup) # {}
    PROVE  \E c \in [0..Cardinality(D) -> Chain(D)] :
              /\ c[0] = <<CHOOSE r \in Roots(D, sup) : TRUE>>
              /\ \A k \in Nat : k < Cardinality(D) => c[k + 1] = Follow(D, sup, c[k])
              /\ Walk(D, sup) = c[Cardinality(D)]
<1> DEFINE n == Cardinality(D)
           base == <<CHOOSE r \in Roots(D, sup) : TRUE>>
           pick(s) == CHOOSE x \in s : TRUE
           F(s) == Follow(D, sup, s)
           iter[s \in SUBSET D] == IF s = {} THEN base ELSE F(iter[s \ {pick(s)}])
           h == [s \in Chain(D) |-> F(s)]
<1>0. n \in Nat BY FS_CardinalityType
<1>1. Walk(D, sup) = iter[D] BY DEF Walk, FoldSet, MapThenFoldSet, Follow
<1>2. iter = CHOOSE f : f = [s \in SUBSET D |-> IF s = {} THEN base ELSE F(f[s \ {pick(s)}])]
  OBVIOUS
<1> HIDE DEF iter, n
<1>3. base \in Chain(D)
  <2>1. (CHOOSE r \in Roots(D, sup) : TRUE) \in D BY DEF Roots
  <2> QED BY <2>1 DEF Chain
<1>4. h \in [Chain(D) -> Chain(D)]
  <2>1. \A s \in Chain(D) : F(s) \in Chain(D) BY FollowIsChain
  <2> HIDE DEF F
  <2> QED BY <2>1
<1>5. PICK c \in [0..n -> Chain(D)] :
         c[0] = base /\ \A k \in Nat : k < n => c[k + 1] = h[c[k]]
  <2> DEFINE V == Chain(D)
  <2>1. base \in V /\ h \in [V -> V] BY <1>3, <1>4
  <2> HIDE DEF base, h, V
  <2>2. \E c \in [0..n -> V] : Applies(c, h, base, n) BY <1>0, <2>1, Repeated
  <2> QED BY <2>2 DEF V, Applies
<1>6. \A k \in Nat : k < n => c[k + 1] = F(c[k])
  <2> SUFFICES ASSUME NEW k \in Nat, k < n PROVE c[k + 1] = F(c[k]) OBVIOUS
  <2>1. k \in 0..n BY <1>0
  <2>2. c[k] \in Chain(D) BY <1>5, <2>1
  <2> HIDE DEF F
  <2> QED BY <1>5, <2>2
<1> HIDE DEF h, F, pick, base
<1>7. \A s \in SUBSET D : IsFiniteSet(s) /\ Cardinality(s) \in 0..n
  <2> SUFFICES ASSUME NEW s \in SUBSET D PROVE IsFiniteSet(s) /\ Cardinality(s) \in 0..n
    OBVIOUS
  <2>1. IsFiniteSet(s) /\ Cardinality(s) <= n BY FS_Subset DEF n
  <2>2. Cardinality(s) \in Nat BY <2>1, FS_CardinalityType
  <2> QED BY <1>0, <2>1, <2>2
<1>8. ASSUME NEW s \in SUBSET D, s # {}
      PROVE  /\ s \ {pick(s)} \in SUBSET D
             /\ Cardinality(s) \in Nat \ {0}
             /\ Cardinality(s \ {pick(s)}) = Cardinality(s) - 1
  <2>1. pick(s) \in s BY <1>8 DEF pick
  <2>2. IsFiniteSet(s) /\ Cardinality(s) \in Nat BY <1>7
  <2>3. Cardinality(s) # 0 BY <1>8, <2>2, FS_EmptySet
  <2>4. Cardinality(s \ {pick(s)}) = Cardinality(s) - 1 BY <2>1, <2>2, FS_RemoveElement
  <2> QED BY <2>2, <2>3, <2>4
<1> DEFINE it == [s \in SUBSET D |-> c[Cardinality(s)]]
<1>9. it = [s \in SUBSET D |-> IF s = {} THEN base ELSE F(it[s \ {pick(s)}])]
  <2>1. ASSUME NEW s \in SUBSET D
        PROVE  it[s] = IF s = {} THEN base ELSE F(it[s \ {pick(s)}])
    <3>1. CASE s = {}
      <4>1. Cardinality(s) = 0 BY <3>1, FS_EmptySet
      <4>2. it[s] = c[0] BY <4>1
      <4> HIDE DEF it
      <4> QED BY <1>5, <3>1, <4>2
    <3>2. CASE s # {}
      <4> DEFINE k == Cardinality(s) - 1
      <4>0. Cardinality(s) \in Nat \ {0} /\ Cardinality(s) \in 0..n BY <1>7, <1>8, <3>2
      <4>1. k \in Nat /\ k < n /\ k + 1 = Cardinality(s) BY <1>0, <4>0
      <4>2. it[s \ {pick(s)}] = c[k] /\ it[s] = c[Cardinality(s)] BY <1>8, <3>2
      <4> HIDE DEF k, it
      <4> QED BY <1>6, <3>2, <4>1, <4>2
    <3> QED BY <3>1, <3>2
  <2>2. it = [s \in SUBSET D |-> it[s]] OBVIOUS
  <2> HIDE DEF it
  <2>3. [s \in SUBSET D |-> it[s]] =
          [s \in SUBSET D |-> IF s = {} THEN base ELSE F(it[s \ {pick(s)}])]
    BY <2>1
  <2> QED BY <2>2, <2>3
<1> HIDE DEF it
<1>10. iter = [s \in SUBSET D |-> IF s = {} THEN base ELSE F(iter[s \ {pick(s)}])]
  BY <1>2, <1>9
<1> DEFINE S == {k \in 0..n : \A s \in SUBSET D : Cardinality(s) = k => iter[s] = c[k]}
<1>11. 0 \in S
  <2>1. ASSUME NEW s \in SUBSET D, Cardinality(s) = 0 PROVE iter[s] = c[0]
    <3>1. s = {} BY <1>7, <2>1, FS_EmptySet
    <3> QED BY <1>5, <1>10, <3>1
  <2>2. 0 \in 0..n BY <1>0
  <2> QED BY <2>1, <2>2
<1>12. ASSUME NEW k \in Nat, k < n, k \in S PROVE k + 1 \in S
  <2>1. ASSUME NEW s \in SUBSET D, Cardinality(s) = k + 1 PROVE iter[s] = c[k + 1]
    <3>1. s # {}
      <4>1. k + 1 # 0 OBVIOUS
      <4> QED BY <2>1, <4>1, FS_EmptySet
    <3>2. s \ {pick(s)} \in SUBSET D /\ Cardinality(s \ {pick(s)}) = k BY <1>8, <2>1, <3>1
    <3>3. iter[s \ {pick(s)}] = c[k] BY <1>12, <3>2
    <3>4. iter[s] = F(iter[s \ {pick(s)}]) BY <1>10, <3>1
    <3> QED BY <1>6, <1>12, <3>3, <3>4
  <2>2. k + 1 \in 0..n BY <1>0, <1>12
  <2> QED BY <2>1, <2>2
<1> HIDE DEF S
<1>13. n \in S
  <2>1. \A k \in 0..n : k \in S BY <1>0, <1>11, <1>12, UpTo
  <2>2. n \in 0..n BY <1>0
  <2> QED BY <2>1, <2>2
<1>14. iter[D] = c[n] BY <1>13 DEF S, n
<1> QED BY <1>1, <1>5, <1>6, <1>14 DEF n, F, base

\* Each decision of s supersedes the one before it, the first none.
Linked(s, sup) == sup[s[1]] = None /\ \A i \in 2..Len(s) : sup[s[i]] = s[i - 1]

\* s lists D as a "connected, non-forking" chain.
Lists(s, D, sup) ==
    s \in Seq(D) /\ Len(s) = Cardinality(D) /\ Range(s) = D /\ Linked(s, sup)

\* A linked chain comes back to no decision.
LEMMA LinkedOnce ==
    ASSUME NEW D, None \notin D, NEW sup, NEW s \in Seq(D), Linked(s, sup)
    PROVE  /\ \A i, j \in 1..Len(s) : s[i] = s[j] => i = j
           /\ IsFiniteSet(Range(s)) /\ Cardinality(Range(s)) = Len(s)
<1>0. /\ Len(s) \in Nat /\ DOMAIN s = 1..Len(s) /\ s \in [1..Len(s) -> D]
  BY LenProperties
<1> DEFINE S == {i \in 0..Len(s) : \A j \in 1..Len(s) : i > 0 /\ j > i => s[i] # s[j]}
<1>1. 0 \in S BY <1>0
<1>2. ASSUME NEW i \in Nat, i < Len(s), i \in S PROVE i + 1 \in S
  <2>1. ASSUME NEW j \in 1..Len(s), j > i + 1, s[i + 1] = s[j] PROVE FALSE
    <3>1. j \in 2..Len(s) /\ j - 1 \in 1..Len(s) /\ s[j - 1] \in D BY <1>0, <2>1
    <3>2. sup[s[j]] = s[j - 1] BY <3>1 DEF Linked
    <3>3. CASE i = 0
      <4>1. sup[s[1]] = None BY DEF Linked
      <4> QED BY <2>1, <3>1, <3>2, <3>3, <4>1
    <3>4. CASE i # 0
      <4>1. i + 1 \in 2..Len(s) /\ (i + 1) - 1 = i /\ i > 0 /\ j - 1 > i BY <1>0, <1>2, <2>1, <3>4
      <4>2. sup[s[i + 1]] = s[i] BY <4>1 DEF Linked
      <4>3. s[i] = s[j - 1] BY <2>1, <3>2, <4>2
      <4> QED BY <1>2, <3>1, <4>1, <4>3
    <3> QED BY <3>3, <3>4
  <2>2. i + 1 \in 0..Len(s) BY <1>0, <1>2
  <2> QED BY <2>1, <2>2
<1> HIDE DEF S
<1>3. \A i \in 0..Len(s) : i \in S BY <1>0, <1>1, <1>2, UpTo
<1>4. ASSUME NEW i \in 1..Len(s), NEW j \in 1..Len(s), s[i] = s[j] PROVE i = j
  <2>1. i \in S /\ j \in S BY <1>0, <1>3
  <2>2. ~(i < j) /\ ~(j < i) BY <1>0, <1>4, <2>1 DEF S
  <2> QED BY <1>0, <2>2
<1>5. s \in Bijection(1..Len(s), Range(s))
  <2>1. Range(s) = {s[i] : i \in 1..Len(s)} BY <1>0 DEF Range
  <2> QED BY <1>0, <1>4, <2>1, Zenon DEF Bijection, Injection, Surjection, IsInjective
<1>6. ExistsBijection(1..Len(s), Range(s)) BY <1>5 DEF ExistsBijection
<1>7. IsFiniteSet(Range(s)) /\ Cardinality(Range(s)) = Len(s)
  BY <1>0, <1>6, FS_CountingElements, FS_NatBijection
<1> QED BY <1>4, <1>7

\* What a listing says of the sets the walk looks at.
LEMMA ListingIsWellFormed ==
    ASSUME NEW D, IsFiniteSet(D), D # {}, None \notin D, NEW sup, NEW s, Lists(s, D, sup)
    PROVE  /\ Cardinality(D) \in Nat \ {0}
           /\ Roots(D, sup) = {s[1]}
           /\ \A i \in 1..Cardinality(D) :
                 Children(D, sup, s[i]) = IF i < Cardinality(D) THEN {s[i + 1]} ELSE {}
           /\ ~Malformed(D, sup)
<1> DEFINE n == Cardinality(D)
<1>0. s \in Seq(D) /\ Len(s) = n /\ Range(s) = D /\ Linked(s, sup) BY DEF Lists
<1>1. n \in Nat \ {0} BY FS_CardinalityType, FS_EmptySet
<1>2. \A i, j \in 1..n : s[i] = s[j] => i = j BY <1>0, LinkedOnce
<1> HIDE DEF n
<1>3. DOMAIN s = 1..n /\ \A i \in 1..n : s[i] \in D BY <1>0, LenProperties, ElementOfSeq
<1>4. \A d \in D : \E i \in 1..n : d = s[i] BY <1>0, <1>3 DEF Range
<1>5. sup[s[1]] = None /\ \A i \in 2..n : sup[s[i]] = s[i - 1] BY <1>0 DEF Linked
<1>6. \A i \in 2..n : i - 1 \in 1..n /\ sup[s[i]] \in D BY <1>1, <1>3, <1>5
<1>7. Roots(D, sup) = {s[1]}
  <2>1. s[1] \in D /\ sup[s[1]] = None BY <1>1, <1>3, <1>5
  <2>2. ASSUME NEW d \in D, sup[d] = None PROVE d = s[1]
    <3>1. PICK i \in 1..n : d = s[i] BY <1>4
    <3>2. i = 1 \/ i \in 2..n BY <1>1
    <3> QED BY <1>6, <2>2, <3>1, <3>2
  <2> QED BY <2>1, <2>2 DEF Roots
<1>8. ASSUME NEW i \in 1..n
      PROVE  Children(D, sup, s[i]) = IF i < n THEN {s[i + 1]} ELSE {}
  <2>1. ASSUME NEW d \in D, sup[d] = s[i] PROVE i < n /\ d = s[i + 1]
    <3>1. PICK j \in 1..n : d = s[j] BY <1>4
    <3>2. j # 1 BY <1>3, <1>5, <2>1, <3>1
    <3>3. j \in 2..n /\ j - 1 \in 1..n BY <1>1, <3>2
    <3>4. s[j - 1] = s[i] BY <1>5, <2>1, <3>1, <3>3
    <3>5. j - 1 = i BY <1>2, <3>3, <3>4
    <3>6. j = i + 1 /\ i < n BY <1>1, <3>3, <3>5
    <3> QED BY <3>1, <3>6
  <2>2. ASSUME i < n PROVE s[i + 1] \in D /\ sup[s[i + 1]] = s[i]
    <3>1. i + 1 \in 2..n /\ i + 1 \in 1..n /\ (i + 1) - 1 = i BY <1>1, <2>2
    <3> QED BY <1>3, <1>5, <3>1
  <2> QED BY <2>1, <2>2 DEF Children
<1>9. ~Malformed(D, sup)
  <2>1. Cardinality(Roots(D, sup)) = 1 BY <1>7, FS_Singleton
  <2>2. ASSUME NEW d \in D, sup[d] # None PROVE sup[d] \in D
    <3>1. PICK i \in 1..n : d = s[i] BY <1>4
    <3>2. i \in 2..n BY <1>1, <1>5, <2>2, <3>1
    <3> QED BY <1>6, <3>1, <3>2
  <2>3. ASSUME NEW p \in D PROVE ~(Cardinality(Children(D, sup, p)) > 1)
    <3>1. PICK i \in 1..n : p = s[i] BY <1>4
    <3>2. Children(D, sup, p) = {} \/ Children(D, sup, p) = {s[i + 1]} BY <1>8, <3>1
    <3>3. Cardinality(Children(D, sup, p)) \in {0, 1} BY <3>2, FS_EmptySet, FS_Singleton
    <3> QED BY <3>3
  <2> QED BY <2>1, <2>2, <2>3 DEF Malformed
<1> QED BY <1>1, <1>7, <1>8, <1>9 DEF n

\* The walk along a listing is that listing.
LEMMA WalkOfListing ==
    ASSUME NEW D, IsFiniteSet(D), D # {}, None \notin D, NEW sup, NEW s, Lists(s, D, sup)
    PROVE  Walk(D, sup) = s
<1> DEFINE n == Cardinality(D)
<1>1. /\ n \in Nat \ {0}
      /\ Roots(D, sup) = {s[1]}
      /\ \A i \in 1..n : Children(D, sup, s[i]) = IF i < n THEN {s[i + 1]} ELSE {}
  BY ListingIsWellFormed
<1>2. PICK c \in [0..n -> Chain(D)] :
              /\ c[0] = <<CHOOSE r \in Roots(D, sup) : TRUE>>
              /\ \A k \in Nat : k < n => c[k + 1] = Follow(D, sup, c[k])
              /\ Walk(D, sup) = c[n]
  <2>1. Roots(D, sup) # {} BY <1>1
  <2> QED BY <2>1, WalkSteps
<1>3. s \in Seq(D) /\ Len(s) = n BY DEF Lists
<1> HIDE DEF n
<1> DEFINE Upto(k) == IF k < n THEN k + 1 ELSE n
           Along(k) == /\ Len(c[k]) = Upto(k)
                       /\ \A i \in 1..Upto(k) : c[k][i] = s[i]
           S == {k \in 0..n : Along(k)}
<1>4. 0 \in S
  <2>1. (CHOOSE r \in Roots(D, sup) : TRUE) = s[1] BY <1>1
  <2>2. c[0] = <<s[1]>> BY <1>2, <2>1
  <2>3. Upto(0) = 1 /\ 0 \in 0..n BY <1>1
  <2>4. Len(<<s[1]>>) = 1 /\ \A i \in 1..1 : <<s[1]>>[i] = s[i] OBVIOUS
  <2> HIDE DEF Upto
  <2> QED BY <2>2, <2>3, <2>4
<1>5. ASSUME NEW k \in Nat, k < n, k \in S PROVE k + 1 \in S
  <2>1. k + 1 \in 0..n /\ k \in 0..n /\ Upto(k) = k + 1 /\ k + 1 \in 1..n BY <1>1, <1>5
  <2>2. c[k] \in Chain(D) /\ c[k] \in Seq(D) BY <1>2, <2>1 DEF Chain
  <2>3. Len(c[k]) = k + 1 /\ \A i \in 1..(k + 1) : c[k][i] = s[i] BY <1>5, <2>1
  <2>4. Last(c[k]) = s[k + 1]
    <3>1. Last(c[k]) = c[k][Len(c[k])] BY <2>2, FollowIsChain
    <3>2. k + 1 \in 1..(k + 1) OBVIOUS
    <3> QED BY <2>3, <3>1, <3>2
  <2>5. c[k + 1] = Follow(D, sup, c[k]) BY <1>2, <1>5
  <2>6. CASE k + 1 < n
    <3>1. Children(D, sup, s[k + 1]) = {s[(k + 1) + 1]} BY <1>1, <2>1, <2>6
    <3>2. c[k + 1] = Append(c[k], s[(k + 1) + 1]) BY <2>2, <2>4, <2>5, <3>1, FollowIsChain
    <3>3. (k + 1) + 1 \in 1..Len(s) BY <1>1, <1>3, <2>6
    <3>4. s[(k + 1) + 1] \in D BY <1>3, <3>3, ElementOfSeq
    <3>5. Len(c[k + 1]) = (k + 1) + 1 BY <2>2, <2>3, <3>2, <3>4
    <3>6. ASSUME NEW i \in 1..((k + 1) + 1) PROVE c[k + 1][i] = s[i]
      <4>1. CASE i = (k + 1) + 1 BY <2>2, <2>3, <3>2, <3>4, <4>1
      <4>2. CASE i # (k + 1) + 1
        <5>1. i \in 1..(k + 1) BY <4>2
        <5>2. c[k + 1][i] = c[k][i] BY <2>2, <2>3, <3>2, <3>4, <5>1
        <5> QED BY <2>3, <5>1, <5>2
      <4> QED BY <4>1, <4>2
    <3>7. Upto(k + 1) = (k + 1) + 1 BY <2>6
    <3> QED BY <2>1, <3>5, <3>6, <3>7
  <2>7. CASE ~(k + 1 < n)
    <3>1. k + 1 = n BY <1>1, <1>5, <2>7
    <3>2. Children(D, sup, s[k + 1]) = {} BY <1>1, <2>1, <2>7
    <3>3. c[k + 1] = c[k] BY <2>2, <2>4, <2>5, <3>2, FollowIsChain
    <3>4. Upto(k + 1) = k + 1 BY <2>7, <3>1
    <3> QED BY <2>1, <2>3, <3>3, <3>4
  <2> QED BY <2>6, <2>7
<1> HIDE DEF S
<1>6. n \in S
  <2>1. \A k \in 0..n : k \in S BY <1>1, <1>4, <1>5, UpTo
  <2> QED BY <1>1, <2>1
<1>7. Len(c[n]) = n /\ \A i \in 1..n : c[n][i] = s[i] BY <1>1, <1>6 DEF S
<1>8. c[n] \in Seq(D) BY <1>1, <1>2 DEF Chain
<1>9. c[n] = s BY <1>3, <1>7, <1>8, SeqEqual
<1> QED BY <1>2, <1>9

\* A walk that reaches every decision of a chain that is not malformed lists it.
LEMMA WalkIsListing ==
    ASSUME NEW D, IsFiniteSet(D), D # {}, None \notin D, NEW sup, ~ChainFailed(D, sup)
    PROVE  Lists(Walk(D, sup), D, sup)
<1> DEFINE n == Cardinality(D)
<1>1. Cardinality(Roots(D, sup)) = 1 /\ Range(Walk(D, sup)) = D
  BY DEF ChainFailed, Malformed
<1>2. Roots(D, sup) # {} BY <1>1, FS_EmptySet
<1>3. n \in Nat BY FS_CardinalityType
<1>4. PICK c \in [0..n -> Chain(D)] :
              /\ c[0] = <<CHOOSE r \in Roots(D, sup) : TRUE>>
              /\ \A k \in Nat : k < n => c[k + 1] = Follow(D, sup, c[k])
              /\ Walk(D, sup) = c[n]
  BY <1>2, WalkSteps
<1> HIDE DEF n
<1> DEFINE S == {k \in 0..n : Linked(c[k], sup)}
<1>5. 0 \in S
  <2> DEFINE r == CHOOSE x \in Roots(D, sup) : TRUE
  <2>1. r \in Roots(D, sup) BY <1>2
  <2>2. sup[r] = None BY <2>1 DEF Roots
  <2>3. c[0] = <<r>> BY <1>4
  <2> HIDE DEF r
  <2>4. Len(<<r>>) = 1 /\ <<r>>[1] = r OBVIOUS
  <2>5. Linked(<<r>>, sup) BY <2>2, <2>4 DEF Linked
  <2> QED BY <1>3, <2>3, <2>5
<1>6. ASSUME NEW k \in Nat, k < n, k \in S PROVE k + 1 \in S
  <2>1. k \in 0..n /\ k + 1 \in 0..n BY <1>3, <1>6
  <2>2. c[k] \in Chain(D) /\ c[k] \in Seq(D) BY <1>4, <2>1 DEF Chain
  <2>3. c[k + 1] = Follow(D, sup, c[k]) BY <1>4, <1>6
  <2>4. Len(c[k]) \in Nat \ {0} /\ Last(c[k]) = c[k][Len(c[k])] BY <2>2, FollowIsChain
  <2>5. Linked(c[k], sup) BY <1>6
  <2>6. CASE c[k + 1] = c[k] BY <2>1, <2>5, <2>6
  <2>7. CASE c[k + 1] # c[k]
    <3>1. PICK d \in Children(D, sup, Last(c[k])) : c[k + 1] = Append(c[k], d)
      BY <2>2, <2>3, <2>7, FollowIsChain
    <3>2. d \in D /\ sup[d] = c[k][Len(c[k])] BY <2>4, <3>1 DEF Children
    <3> DEFINE t == c[k]
               m == Len(t)
    <3>3. t \in Seq(D) /\ m \in Nat \ {0} /\ Linked(t, sup) /\ sup[d] = t[m]
      BY <2>2, <2>4, <2>5, <3>2
    <3> HIDE DEF t
    <3>4. /\ Len(Append(t, d)) = m + 1 /\ Append(t, d)[m + 1] = d
          /\ \A i \in 1..m : Append(t, d)[i] = t[i]
      BY <3>2, <3>3
    <3> HIDE DEF m
    <3>5. sup[Append(t, d)[1]] = None BY <3>3, <3>4 DEF Linked
    <3>6. ASSUME NEW i \in 2..(m + 1) PROVE sup[Append(t, d)[i]] = Append(t, d)[i - 1]
      <4>1. i - 1 \in 1..m /\ Append(t, d)[i - 1] = t[i - 1] BY <3>3, <3>4
      <4>2. CASE i = m + 1 BY <3>3, <3>4, <4>1, <4>2
      <4>3. CASE i # m + 1
        <5>1. i \in 1..m /\ i \in 2..m BY <3>3, <4>3
        <5>2. sup[t[i]] = t[i - 1] BY <3>3, <5>1 DEF Linked, m
        <5> QED BY <3>4, <4>1, <5>1, <5>2
      <4> QED BY <4>2, <4>3
    <3>7. Linked(Append(t, d), sup) BY <3>4, <3>5, <3>6 DEF Linked
    <3> QED BY <2>1, <3>1, <3>7 DEF t
  <2> QED BY <2>6, <2>7
<1> HIDE DEF S
<1>7. n \in S
  <2>1. \A k \in 0..n : k \in S BY <1>3, <1>5, <1>6, UpTo
  <2> QED BY <1>3, <2>1
<1>8. Linked(c[n], sup) BY <1>7 DEF S
<1>9. c[n] \in Seq(D) BY <1>3, <1>4 DEF Chain
<1>10. Cardinality(Range(c[n])) = Len(c[n]) BY <1>8, <1>9, LinkedOnce
<1> QED BY <1>1, <1>4, <1>8, <1>9, <1>10 DEF Lists, n

\* The decisions on a proposal are accepted exactly when they form one chain
\* without a fork, in whatever order they arrived, and what the body then goes by
\* is the last decision of that chain (projections.py: _decision_chain).
THEOREM ChainIsTheListing ==
    ASSUME NEW D, IsFiniteSet(D), D # {}, None \notin D, NEW sup
    PROVE  /\ ChainFailed(D, sup) <=> ~\E s : Lists(s, D, sup)
           /\ \A s : Lists(s, D, sup) =>
                 Walk(D, sup) = s /\ Tip(D, sup) = s[Cardinality(D)]
<1>1. ASSUME NEW s, Lists(s, D, sup)
      PROVE  ~ChainFailed(D, sup) /\ Walk(D, sup) = s /\ Tip(D, sup) = s[Cardinality(D)]
  <2>1. Walk(D, sup) = s BY <1>1, WalkOfListing
  <2>2. ~Malformed(D, sup) BY <1>1, ListingIsWellFormed
  <2>3. Range(s) = D /\ Len(s) = Cardinality(D) BY <1>1 DEF Lists
  <2>4. ~ChainFailed(D, sup) BY <2>1, <2>2, <2>3 DEF ChainFailed
  <2>5. Last(s) = s[Len(s)] BY DEF Last
  <2> QED BY <2>1, <2>3, <2>4, <2>5 DEF Tip
<1>2. ~ChainFailed(D, sup) => \E s : Lists(s, D, sup) BY WalkIsListing
<1> QED BY <1>1, <1>2
=============================================================================
