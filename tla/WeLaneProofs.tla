------------------------------ MODULE WeLaneProofs ------------------------------
(***************************************************************************)
(* Proofs about WeLane: the lane agrees at every instant and implements    *)
(* HeardOnce, for any threads, siblings, requests, texts, deadlines and    *)
(* bounds.                                                                 *)
(*                                                                         *)
(* LaneInv is inductive: a thread's place says what it has stored, a       *)
(* carrier holds the one sealed payload of its request, an exchange holds  *)
(* a stored carrier, and what it is about to answer is the receipt of the  *)
(* sibling's ledger.                                                       *)
(***************************************************************************)
EXTENDS WeLane, TLAPS

Instants == 0..MaxTime
Payloads == [by: Threads, expires: Nat]
Envelopes == [req: Requests, sib: Siblings, gen: Nat]
Carried == [env: Envelopes, payload: Payloads, issued: Nat, expires: Nat]
CallPlaces ==
    {"idle", "author", "resolve", "begin", "save", "open", "carry", "send", "wait"}
ExchangePlaces == {"net", "look", "retain", "receipt", "finish", "abort", "release", "done"}
Replies == {None, "ok", "busy", "rejected", "closed"}
Calls ==
    [pc: CallPlaces, req: Requests \cup {None}, text: Texts \cup {None},
     payload: Payloads \cup {None}, todo: SUBSET Siblings, to: Siblings \cup {None},
     conn: Nat \cup {None}]
Exchange ==
    [bytes: Carried, pc: ExchangePlaces, receipt: Instants \cup {None}, answer: Replies]

\* The shapes of the tables beside TypeOK.
Shapes ==
    /\ sealed \in [Requests -> Payloads \cup {None}]
    /\ carriers \in [Requests -> [Siblings -> Seq(Carried)]]
    /\ kept \in [Requests -> [Siblings -> Instants \cup {None}]]
    /\ receipts \in [Requests -> [Siblings -> Instants \cup {None}]]
    /\ effects \in [Requests -> [Siblings -> Instants \cup {None}]]
    /\ thread \in [Threads -> Calls]
    /\ conns \in Seq(Exchange)
    /\ DOMAIN exchanges \subseteq Envelopes
    /\ \A e \in DOMAIN exchanges : exchanges[e].response \in Instants \cup {None}

\* What a thread has done before it is where it is.
CallOK(h) ==
    /\ h.pc # "idle" => h.req \in Requests
    /\ h.pc = "author" => h.text \in Texts
    /\ h.pc \notin {"idle", "author"} => said[h.req] # None
    /\ h.pc \notin {"idle", "author", "resolve"} => h.req \in resolved
    /\ h.pc = "save" => h.payload # None
    /\ h.pc \in {"open", "carry", "send", "wait"} =>
          sealed[h.req] # None /\ h.payload = sealed[h.req]
    /\ h.pc \in {"send", "wait"} => h.to \in Siblings
    /\ h.pc = "send" => Len(carriers[h.req][h.to]) > 0
    /\ h.pc = "wait" =>
          /\ h.conn \in DOMAIN conns
          /\ conns[h.conn].bytes.env.req = h.req /\ conns[h.conn].bytes.env.sib = h.to
CallInv == \A t \in Threads : CallOK(thread[t])

\* Carriers are numbered, carry the request's one payload, and none is issued
\* before its predecessor is over.
CarrierOK(k, r, s, i) ==
    /\ k.env = Envelope(r, s, i)
    /\ sealed[r] # None /\ k.payload = sealed[r]
    /\ k.issued >= i - 1 /\ k.expires = k.issued + CarrierSecs
CarrierInv ==
    \A r \in Requests, s \in Siblings : \A i \in 1..Len(carriers[r][s]) :
        CarrierOK(carriers[r][s][i], r, s, i)

\* What an exchange carries is a stored carrier, and what it answers is the
\* receipt of the sibling's ledger.
ExchangeOK(k) ==
    LET e == k.bytes.env IN
    /\ e.gen \in 1..Len(carriers[e.req][e.sib]) /\ k.bytes = carriers[e.req][e.sib][e.gen]
    /\ k.answer = "ok" => k.pc = "done"
    /\ k.pc = "receipt" => e.req \in evidence[e.sib]
    /\ k.pc \in {"finish", "release"} \/ k.answer = "ok" =>
          k.receipt # None /\ k.receipt = receipts[e.req][e.sib]
ExchangeInv == \A c \in DOMAIN conns : ExchangeOK(conns[c])

\* An effect is the receipt, and no stored response is empty.
EffectInv ==
    /\ \A r \in Requests, s \in Siblings :
        effects[r][s] # None => effects[r][s] = receipts[r][s]
    /\ \A e \in DOMAIN exchanges :
        exchanges[e].state = "responded" => exchanges[e].response # None

LaneInv ==
    /\ TypeOK /\ Shapes /\ CallInv /\ CarrierInv /\ ExchangeInv /\ EffectInv /\ ResponsesAgree

\* The steps of a thread that change nothing else.
LEMMA CallMoves ==
    ASSUME LaneInv, UNCHANGED <<clock, author, conns, sibling, crashes>>,
           NEW t \in Threads, thread' \in [Threads -> Calls],
           \A u \in Threads \ {t} : thread'[u] = thread[u], CallOK(thread'[t])
    PROVE  LaneInv'
<1> USE DEF LaneInv, clock, author, sibling
<1>1. CallInv' BY DEF CallInv, CallOK
<1>2. TypeOK' BY <1>1 DEF TypeOK, CallInv, CallOK, Calls, CallPlaces
<1>3. Shapes' BY DEF Shapes
<1>4. CarrierInv' BY DEF CarrierInv, CarrierOK
<1>5. ExchangeInv' BY DEF ExchangeInv, ExchangeOK
<1>6. EffectInv' BY DEF EffectInv
<1>7. ResponsesAgree' BY DEF ResponsesAgree
<1> QED BY <1>1, <1>2, <1>3, <1>4, <1>5, <1>6, <1>7

\* The steps of an exchange that change nothing else.
LEMMA ExchangeMoves ==
    ASSUME LaneInv, UNCHANGED <<clock, author, thread, sibling, crashes>>,
           conns' \in Seq(Exchange), DOMAIN conns' = DOMAIN conns,
           \A c \in DOMAIN conns : conns'[c].bytes = conns[c].bytes /\ ExchangeOK(conns'[c])
    PROVE  LaneInv'
<1> USE DEF LaneInv, clock, author, sibling
<1>1. CallInv' BY DEF CallInv, CallOK, Shapes, Calls
<1>2. ExchangeInv' BY DEF ExchangeInv, ExchangeOK
<1>3. Len(conns') = Len(conns) BY DEF Shapes
<1>9. \A c \in DOMAIN conns' : conns'[c] \in Exchange OBVIOUS
<1>10. \A c \in DOMAIN conns' : conns'[c].pc \in ExchangePlaces /\ conns'[c].answer \in Replies
  BY <1>9 DEF Exchange
<1>4. TypeOK' BY <1>1, <1>3, <1>10 DEF TypeOK, ExchangePlaces, Replies
<1>5. Shapes' BY DEF Shapes
<1>6. CarrierInv' BY DEF CarrierInv, CarrierOK
<1>7. EffectInv' BY DEF EffectInv
<1>8. ResponsesAgree' BY DEF ResponsesAgree
<1> QED BY <1>1, <1>2, <1>4, <1>5, <1>6, <1>7, <1>8

LEMMA LaneStarts == Init => LaneInv
<1> SUFFICES ASSUME Init PROVE LaneInv OBVIOUS
<1> USE DEF Init
<1>0. /\ plan \in Plan /\ MaxTime \in Nat /\ 0 \in Instants /\ CarrierSecs \in Nat
  BY BoundsAssumption, SecsAssumption DEF Instants
<1>1. plan.crashes \in Nat /\ plan.conns \in Nat BY <1>0 DEF Plan
<1>2. Idle \in Calls BY DEF Idle, Calls, CallPlaces
<1>3. Shapes BY <1>0, <1>2 DEF Shapes
<1>4. CallInv BY DEF CallInv, CallOK, Idle
<1>5. CarrierInv BY DEF CarrierInv
<1>6. ExchangeInv BY DEF ExchangeInv
<1>7. EffectInv BY DEF EffectInv
<1>8. ResponsesAgree BY DEF ResponsesAgree
<1>9. TypeOK BY <1>0, <1>1, <1>4 DEF TypeOK, CallInv, CallOK, Instants, Idle
<1> QED BY <1>3, <1>4, <1>5, <1>6, <1>7, <1>8, <1>9 DEF LaneInv

\* Facts about the bounds and the records that the steps use.
LEMMA LaneFacts ==
    ASSUME LaneInv
    PROVE  /\ MaxTime \in Nat /\ now \in Nat /\ now \in Instants
           /\ plan \in Plan /\ plan.time \in Instants /\ plan.siblings \subseteq Siblings
           /\ plan.threads \subseteq Threads /\ plan.texts \subseteq Texts
           /\ plan.conns \in Nat /\ plan.crashes \in Nat
           /\ CarrierSecs \in Nat \ {0} /\ SealSecs \in Nat \ {0} /\ LeaseSecs \in Nat \ {0}
           /\ Idle \in Calls
BY BoundsAssumption, SecsAssumption DEF LaneInv, TypeOK, Plan, Instants, Idle, Calls, CallPlaces

LEMMA ConverseKeeps ==
    ASSUME LaneInv, NEW t \in plan.threads, NEW r \in Requests, NEW x \in plan.texts,
           Converse(t, r, x)
    PROVE  LaneInv'
<1> USE LaneFacts DEF Converse, LaneInv
<1>1. thread' \in [Threads -> Calls] BY DEF Shapes, Calls, Idle, CallPlaces
<1>2. CallOK(thread'[t]) BY DEF Shapes, Idle, CallOK
<1>3. \A u \in Threads \ {t} : thread'[u] = thread[u] BY DEF Shapes
<1> QED BY <1>1, <1>2, <1>3, CallMoves

LEMMA BeginSealKeeps ==
    ASSUME LaneInv, NEW t \in plan.threads, BeginSeal(t) PROVE LaneInv'
<1> USE LaneFacts DEF BeginSeal, LaneInv, At
<1> DEFINE r == thread[t].req
<1>0. t \in Threads /\ thread[t] \in Calls /\ r \in Requests /\ said[r] # None /\ r \in resolved
  BY DEF Shapes, CallInv, CallOK
<1>1. SealedBy(t) \in Payloads /\ SealedBy(t) # None
  BY <1>0, NoneAssumption DEF SealedBy, Payloads
<1> DEFINE h == [thread[t] EXCEPT !.pc = IF sealed[r] = None THEN "save" ELSE "open",
                                 !.payload = IF sealed[r] = None THEN SealedBy(t) ELSE sealed[r]]
<1>a. thread' = [thread EXCEPT ![t] = h] BY <1>0 DEF Shapes
<1>b. h \in Calls
  <2>1. CASE sealed[r] = None
    <3>1. [thread[t] EXCEPT !.pc = "save", !.payload = SealedBy(t)] \in Calls
      BY <1>0, <1>1 DEF Calls, CallPlaces
    <3> QED BY <2>1, <3>1
  <2>2. CASE sealed[r] # None BY <1>0, <2>2 DEF Calls, CallPlaces, Shapes
  <2> QED BY <2>1, <2>2
<1>2. thread' \in [Threads -> Calls] BY <1>0, <1>a, <1>b DEF Shapes
<1>3. CallOK(thread'[t]) BY <1>0, <1>1 DEF Shapes, CallOK, Calls
<1>4. \A u \in Threads \ {t} : thread'[u] = thread[u] BY DEF Shapes
<1> QED BY <1>0, <1>2, <1>3, <1>4, CallMoves

LEMMA OpenSavedKeeps ==
    ASSUME LaneInv, NEW t \in plan.threads, OpenSaved(t) PROVE LaneInv'
<1> USE LaneFacts DEF OpenSaved, LaneInv, At
<1>0. t \in Threads /\ thread[t] \in Calls BY DEF Shapes
<1>1. CallOK(thread[t]) BY <1>0 DEF CallInv
<1> DEFINE h == [thread[t] EXCEPT !.pc = "carry"]
<1>a. h \in Calls BY <1>0 DEF Calls, CallPlaces
<1>b. thread' = [thread EXCEPT ![t] = h] \/ thread' = [thread EXCEPT ![t] = Idle]
  BY <1>0 DEF Shapes
<1>2. thread' \in [Threads -> Calls] BY <1>0, <1>a, <1>b DEF Shapes
<1>3. CallOK(thread'[t]) BY <1>0, <1>1 DEF Shapes, CallOK, Calls, Idle
<1>4. \A u \in Threads \ {t} : thread'[u] = thread[u] BY DEF Shapes
<1> QED BY <1>0, <1>2, <1>3, <1>4, CallMoves

\* What a thread is after it is done with a sibling.
LEMMA NextCall ==
    ASSUME LaneInv, NEW t \in Threads, thread[t].pc \in {"send", "wait"}
    PROVE  /\ Next1(t) \in [Threads -> Calls] /\ CallOK(Next1(t)[t])
           /\ \A u \in Threads \ {t} : Next1(t)[u] = thread[u]
<1> USE LaneFacts DEF LaneInv, Next1
<1>0. thread[t] \in Calls BY DEF Shapes
<1>1. CallOK(thread[t]) BY DEF CallInv
<1> DEFINE h == [thread[t] EXCEPT !.pc = "carry", !.todo = thread[t].todo \ {thread[t].to},
                                 !.to = None, !.conn = None]
<1>a. h \in Calls BY <1>0 DEF Calls, CallPlaces
<1>b. Next1(t) = [thread EXCEPT ![t] = h] \/ Next1(t) = [thread EXCEPT ![t] = Idle]
  <2>1. CASE thread[t].todo = {thread[t].to} BY <1>0, <2>1 DEF Shapes
  <2>2. CASE thread[t].todo # {thread[t].to} BY <1>0, <2>2 DEF Shapes
  <2> QED BY <2>1, <2>2
<1>2. Next1(t) \in [Threads -> Calls] BY <1>0, <1>a, <1>b DEF Shapes
<1>3. CallOK(Next1(t)[t]) BY <1>0, <1>1, <1>b DEF Shapes, CallOK, Calls, Idle
<1>4. \A u \in Threads \ {t} : Next1(t)[u] = thread[u] BY DEF Shapes
<1> QED BY <1>2, <1>3, <1>4

LEMMA GiveUpKeeps ==
    ASSUME LaneInv, NEW t \in plan.threads, SendRefused(t) \/ GiveUp(t) PROVE LaneInv'
<1>1. t \in Threads /\ thread[t].pc \in {"send", "wait"} BY LaneFacts DEF SendRefused, GiveUp, At
<1>2. thread' = Next1(t) /\ UNCHANGED <<clock, author, conns, sibling, crashes>>
  BY DEF SendRefused, GiveUp
<1> QED BY <1>1, <1>2, NextCall, CallMoves

LEMMA CrashAuthorKeeps == ASSUME LaneInv, CrashAuthor PROVE LaneInv'
<1> USE LaneFacts DEF CrashAuthor, LaneInv, clock, author, sibling
<1>1. CallInv' BY DEF CallInv, CallOK, Idle
<1>2. TypeOK' BY DEF TypeOK, Idle
<1>3. Shapes' BY DEF Shapes
<1>4. CarrierInv' BY DEF CarrierInv, CarrierOK
<1>5. ExchangeInv' BY DEF ExchangeInv, ExchangeOK
<1>6. EffectInv' BY DEF EffectInv
<1>7. ResponsesAgree' BY DEF ResponsesAgree
<1> QED BY <1>1, <1>2, <1>3, <1>4, <1>5, <1>6, <1>7

LEMMA TickKeeps == ASSUME LaneInv, Tick PROVE LaneInv'
<1> USE LaneFacts DEF Tick, LaneInv, author, sibling
<1>1. CallInv' BY DEF CallInv, CallOK
<1>2. TypeOK' BY DEF TypeOK, Instants
<1>3. Shapes' BY DEF Shapes
<1>4. CarrierInv' BY DEF CarrierInv, CarrierOK
<1>5. ExchangeInv' BY DEF ExchangeInv, ExchangeOK
<1>6. EffectInv' BY DEF EffectInv
<1>7. ResponsesAgree' BY DEF ResponsesAgree
<1> QED BY <1>1, <1>2, <1>3, <1>4, <1>5, <1>6, <1>7

LEMMA AuthorMessageKeeps ==
    ASSUME LaneInv, NEW t \in plan.threads, AuthorMessage(t) PROVE LaneInv'
<1> USE LaneFacts DEF AuthorMessage, LaneInv, At, clock, author, sibling
<1>0. t \in Threads /\ thread[t] \in Calls /\ CallOK(thread[t]) BY DEF Shapes, CallInv
<1>a. CASE said[thread[t].req] \in {None, thread[t].text}
  <2> USE <1>a DEF Goto
  <2>0. /\ thread[t].req \in Requests /\ thread[t].text \in Texts /\ thread[t].text # None
        /\ said' = [said EXCEPT ![thread[t].req] = thread[t].text]
        /\ thread' = [thread EXCEPT ![t].pc = "resolve"]
    BY <1>0, NoneAssumption DEF CallOK
  <2>1. thread' \in [Threads -> Calls] BY <1>0, <2>0 DEF Shapes, Calls, CallPlaces
  <2>2. \A r \in Requests : said[r] # None => said'[r] # None BY <2>0 DEF TypeOK
  <2>3. said'[thread[t].req] # None BY <2>0 DEF TypeOK
  <2>4. CallInv' BY <1>0, <2>0, <2>2, <2>3 DEF CallInv, CallOK, Shapes, Calls
  <2>5. TypeOK' BY <2>0, <2>1, <2>2 DEF TypeOK, Calls, CallPlaces, Shapes
  <2>6. Shapes' BY <2>1 DEF Shapes
  <2>7. CarrierInv' BY DEF CarrierInv, CarrierOK
  <2>8. ExchangeInv' BY DEF ExchangeInv, ExchangeOK
  <2>9. EffectInv' BY DEF EffectInv
  <2>10. ResponsesAgree' BY DEF ResponsesAgree
  <2> QED BY <2>4, <2>5, <2>6, <2>7, <2>8, <2>9, <2>10
<1>b. CASE said[thread[t].req] \notin {None, thread[t].text}
  <2>1. thread' = [thread EXCEPT ![t] = Idle] /\ UNCHANGED said BY <1>b
  <2>2. thread' \in [Threads -> Calls] BY <1>0, <2>1 DEF Shapes
  <2>3. CallOK(thread'[t]) BY <1>0, <2>1 DEF Shapes, CallOK, Idle
  <2>4. \A u \in Threads \ {t} : thread'[u] = thread[u] BY <2>1 DEF Shapes
  <2> QED BY <1>0, <2>1, <2>2, <2>3, <2>4, CallMoves
<1> QED BY <1>a, <1>b

LEMMA AuthorResolutionKeeps ==
    ASSUME LaneInv, NEW t \in plan.threads, AuthorResolution(t) PROVE LaneInv'
<1> USE LaneFacts DEF AuthorResolution, LaneInv, At, Goto, clock, author, sibling
<1>0. t \in Threads /\ thread[t] \in Calls /\ CallOK(thread[t]) BY DEF Shapes, CallInv
<1>1. thread' \in [Threads -> Calls] BY <1>0 DEF Shapes, Calls, CallPlaces
<1>2. resolved \subseteq resolved' /\ thread[t].req \in resolved' /\ resolved' \subseteq Requests
  BY <1>0 DEF CallOK, TypeOK
<1>3. CallInv' BY <1>0, <1>2 DEF CallInv, CallOK, Shapes, Calls
<1>4. TypeOK' BY <1>1, <1>2 DEF TypeOK, Calls, CallPlaces, Shapes
<1>5. Shapes' BY <1>1 DEF Shapes
<1>6. CarrierInv' BY DEF CarrierInv, CarrierOK
<1>7. ExchangeInv' BY DEF ExchangeInv, ExchangeOK
<1>8. EffectInv' BY DEF EffectInv
<1>9. ResponsesAgree' BY DEF ResponsesAgree
<1> QED BY <1>3, <1>4, <1>5, <1>6, <1>7, <1>8, <1>9

\* A thread that does not move keeps what it relies on: the tables only grow.
LEMMA CallStays ==
    ASSUME NEW u \in Threads, CallOK(thread[u]), thread'[u] = thread[u],
           UNCHANGED <<said, resolved>>,
           \A q \in Requests : sealed[q] # None => sealed'[q] = sealed[q],
           \A q \in Requests, s \in Siblings :
               Len(carriers[q][s]) > 0 => Len(carriers'[q][s]) > 0,
           \A c \in DOMAIN conns : c \in DOMAIN conns' /\ conns'[c].bytes = conns[c].bytes
    PROVE  CallOK(thread[u])'
BY DEF CallOK

\* The first sealed payload of a request stays.
LEMMA FinishSealKeeps ==
    ASSUME LaneInv, NEW t \in plan.threads, FinishSeal(t) PROVE LaneInv'
<1> USE LaneFacts DEF FinishSeal, LaneInv, At, clock, author, sibling
<1> DEFINE r == thread[t].req
<1>0. t \in Threads /\ thread[t] \in Calls /\ CallOK(thread[t]) BY DEF Shapes, CallInv
<1>1. /\ r \in Requests /\ r \in resolved /\ said[r] # None
      /\ thread[t].payload \in Payloads /\ thread[t].payload # None
  BY <1>0 DEF CallOK, Calls
<1>2. sealed' \in [Requests -> Payloads \cup {None}] BY <1>1 DEF Shapes
<1>3. \A q \in Requests : sealed[q] # None => sealed'[q] = sealed[q] BY <1>1 DEF Shapes
<1>4. sealed'[r] # None BY <1>1 DEF Shapes
<1>5. \A q \in Requests \ {r} : sealed'[q] = sealed[q] BY <1>1 DEF Shapes
<1>6. thread' \in [Threads -> Calls] BY <1>0, <1>1, <1>2 DEF Shapes, Calls, CallPlaces
<1>7. CallInv'
  <2>1. /\ thread'[t].pc = "open" /\ thread'[t].req = r /\ thread'[t].payload = sealed'[r]
        /\ \A u \in Threads \ {t} : thread'[u] = thread[u]
    BY <1>0 DEF Shapes, Calls
  <2>2. CallOK(thread[t])' BY <1>1, <1>4, <2>1 DEF CallOK
  <2>3. ASSUME NEW u \in Threads \ {t} PROVE CallOK(thread[u])'
    <3>1. CallOK(thread[u]) BY DEF CallInv
    <3> QED BY <2>1, <1>3, <3>1, CallStays
  <2> QED BY <2>2, <2>3 DEF CallInv
<1>8. TypeOK' BY <1>1, <1>5, <1>6 DEF TypeOK, Calls, CallPlaces, Shapes
<1>9. Shapes' BY <1>2, <1>6 DEF Shapes
<1>10. CarrierInv' BY <1>3 DEF CarrierInv, CarrierOK
<1>11. ExchangeInv' BY DEF ExchangeInv, ExchangeOK
<1>12. EffectInv' BY DEF EffectInv
<1>13. ResponsesAgree' BY <1>3 DEF ResponsesAgree
<1> QED BY <1>7, <1>8, <1>9, <1>10, <1>11, <1>12, <1>13

\* A new carrier is the next generation of its call.
LEMMA CarryKeeps ==
    ASSUME LaneInv, NEW t \in plan.threads, NEW s \in Siblings, Carry(t, s) PROVE LaneInv'
<1> USE DEF LaneInv
<1>f. /\ t \in Threads /\ now \in Nat /\ now \in Instants /\ MaxTime \in Nat
      /\ CarrierSecs \in Nat /\ CarrierSecs > 0
  BY LaneFacts
<1> DEFINE r == thread[t].req
           k == Carrier(r, s, Len(carriers[r][s]) + 1, thread[t].payload)
<1>0. t \in Threads /\ thread[t] \in Calls /\ CallOK(thread[t]) BY <1>f DEF Shapes, CallInv
<1>1. /\ r \in Requests /\ sealed[r] # None /\ sealed[r] \in Payloads
      /\ thread[t].payload = sealed[r]
  BY <1>0 DEF CallOK, Calls, Shapes, Carry, At
<1>2. carriers[r][s] \in Seq(Carried) /\ Len(carriers[r][s]) \in Nat BY <1>1 DEF Shapes
<1>3. k = [env |-> [req |-> r, sib |-> s, gen |-> Len(carriers[r][s]) + 1],
           payload |-> sealed[r], issued |-> now, expires |-> now + CarrierSecs]
  BY <1>1 DEF Carrier, Envelope
<1>6. UNCHANGED <<clock, said, resolved, sealed, kept, conns, sibling, crashes>> BY DEF Carry
<1>7. carriers' = IF LiveCarrier(r, s) THEN carriers
                  ELSE [carriers EXCEPT ![r][s] = Append(carriers[r][s], k)]
  BY <1>1 DEF Carry, Shapes
<1>8. thread' = [thread EXCEPT ![t] = [thread[t] EXCEPT !.pc = "send", !.to = s]]
  BY <1>0 DEF Shapes, Carry
<1>9. LiveCarrier(r, s) <=> Len(carriers[r][s]) > 0 /\ now < carriers[r][s][Len(carriers[r][s])].expires
  BY DEF LiveCarrier
<1>10. r = thread[t].req OBVIOUS
<1> HIDE DEF r, k
<1>4. thread' \in [Threads -> Calls]
  <2>1. [thread[t] EXCEPT !.pc = "send", !.to = s] \in Calls BY <1>0 DEF Calls, CallPlaces
  <2> QED BY <2>1, <1>8 DEF Shapes
<1>5. /\ thread'[t].pc = "send" /\ thread'[t].to = s /\ thread'[t].req = r
      /\ thread'[t].payload = sealed[r]
      /\ \A u \in Threads \ {t} : thread'[u] = thread[u]
  BY <1>0, <1>1, <1>8, <1>10 DEF Shapes, Calls
<1>11. k \in Carried
  <2>1. [req |-> r, sib |-> s, gen |-> Len(carriers[r][s]) + 1] \in Envelopes
    BY <1>1, <1>2 DEF Envelopes
  <2> QED BY <1>f, <1>1, <1>3, <2>1 DEF Carried
<1>a. CASE LiveCarrier(r, s)
  <2>1. carriers' = carriers /\ Len(carriers[r][s]) > 0 BY <1>a, <1>7, <1>9
  <2>2. CallOK(thread'[t]) BY <1>0, <1>1, <1>5, <1>10, <2>1 DEF CallOK, Carry, At
  <2> QED BY <1>0, <1>4, <1>5, <1>6, <2>1, <2>2, CallMoves DEF author
<1>b. CASE ~LiveCarrier(r, s)
  <2>1. carriers' = [carriers EXCEPT ![r][s] = Append(carriers[r][s], k)]
    BY <1>b, <1>7
  <2>2. carriers' \in [Requests -> [Siblings -> Seq(Carried)]]
    <3>1. Append(carriers[r][s], k) \in Seq(Carried) BY <1>2, <1>11
    <3> QED BY <1>1, <2>1, <3>1 DEF Shapes
  <2>3. carriers'[r][s] = Append(carriers[r][s], k) BY <1>1, <2>1 DEF Shapes
  <2>4. /\ Len(carriers'[r][s]) = Len(carriers[r][s]) + 1
        /\ carriers'[r][s][Len(carriers[r][s]) + 1] = k
        /\ \A i \in 1..Len(carriers[r][s]) : carriers'[r][s][i] = carriers[r][s][i]
    BY <1>2, <1>11, <2>3
  <2>5. \A q \in Requests, z \in Siblings : q # r \/ z # s => carriers'[q][z] = carriers[q][z]
    BY <1>1, <2>1 DEF Shapes
  <2>6. now >= Len(carriers[r][s])
    <3>1. CASE Len(carriers[r][s]) = 0 BY <1>f, <3>1
    <3>2. CASE Len(carriers[r][s]) > 0
      <4> DEFINE n == Len(carriers[r][s])
      <4>1. n \in 1..Len(carriers[r][s]) /\ carriers[r][s][n] \in Carried BY <1>2, <3>2
      <4>2. /\ carriers[r][s][n].issued >= n - 1
            /\ carriers[r][s][n].expires = carriers[r][s][n].issued + CarrierSecs
        BY <1>1, <4>1 DEF CarrierInv, CarrierOK
      <4>3. carriers[r][s][n].issued \in Nat BY <4>1 DEF Carried
      <4>4. now >= carriers[r][s][n].expires BY <1>f, <1>b, <1>9, <3>2, <4>2, <4>3
      <4>5. n \in Nat BY <1>2
      <4> HIDE DEF n
      <4>6. now >= n BY <1>f, <4>2, <4>3, <4>4, <4>5
      <4> QED BY <4>6 DEF n
    <3> QED BY <1>f, <1>2, <3>1, <3>2
  <2>7. CarrierInv'
    <3> SUFFICES ASSUME NEW q \in Requests, NEW z \in Siblings, NEW i \in 1..Len(carriers'[q][z])
                 PROVE  CarrierOK(carriers'[q][z][i], q, z, i)
      BY <1>6, <2>2 DEF CarrierInv, CarrierOK
    <3>1. CASE q # r \/ z # s BY <2>5, <3>1 DEF CarrierInv
    <3>2. CASE q = r /\ z = s /\ i \in 1..Len(carriers[r][s])
      <4>1. carriers'[r][s][i] = carriers[r][s][i] BY <2>4, <3>2
      <4> QED BY <1>1, <3>2, <4>1 DEF CarrierInv
    <3>3. CASE q = r /\ z = s /\ i = Len(carriers[r][s]) + 1
      <4>1. carriers'[r][s][i] = k BY <2>4, <3>3
      <4>2. k.env = Envelope(r, s, i) BY <1>3, <3>3 DEF Envelope
      <4>3. k.payload = sealed[r] /\ k.issued = now /\ k.expires = now + CarrierSecs BY <1>3
      <4>4. now >= i - 1 BY <1>f, <1>2, <2>6, <3>3
      <4> QED BY <1>1, <3>3, <4>1, <4>2, <4>3, <4>4 DEF CarrierOK
    <3>4. q = r /\ z = s => i \in 1..Len(carriers[r][s]) \/ i = Len(carriers[r][s]) + 1
      BY <1>2, <2>4
    <3> QED BY <3>1, <3>2, <3>3, <3>4
  <2>8. CallInv'
    <3>1. CallOK(thread[t])' BY <1>0, <1>1, <1>2, <1>5, <1>6, <1>10, <2>4 DEF CallOK, Carry, At
    <3>2. ASSUME NEW u \in Threads \ {t} PROVE CallOK(thread[u])'
      <4>1. CallOK(thread[u]) BY DEF CallInv
      <4>2. \A q \in Requests, z \in Siblings :
               Len(carriers[q][z]) > 0 => Len(carriers'[q][z]) > 0
        BY <1>2, <2>4, <2>5
      <4> QED BY <1>5, <1>6, <4>1, <4>2, CallStays
    <3> QED BY <3>1, <3>2 DEF CallInv
  <2>9. ExchangeInv'
    <3> SUFFICES ASSUME NEW c \in DOMAIN conns PROVE ExchangeOK(conns[c])'
      BY <1>6 DEF ExchangeInv
    <3> DEFINE e == conns[c].bytes.env
    <3>1. ExchangeOK(conns[c]) /\ e.req \in Requests /\ e.sib \in Siblings
      <4>1. conns[c] \in Exchange BY DEF Shapes
      <4> QED BY <4>1 DEF ExchangeInv, Exchange, Carried, Envelopes
    <3>2. /\ e.gen \in 1..Len(carriers'[e.req][e.sib])
          /\ conns[c].bytes = carriers'[e.req][e.sib][e.gen]
      <4>1. CASE e.req # r \/ e.sib # s BY <2>5, <3>1, <4>1 DEF ExchangeOK
      <4>2. CASE e.req = r /\ e.sib = s
        <5>1. e.gen \in 1..Len(carriers[r][s]) /\ conns[c].bytes = carriers[r][s][e.gen]
          BY <3>1, <4>2 DEF ExchangeOK
        <5> HIDE DEF e
        <5> QED BY <1>2, <2>4, <4>2, <5>1
      <4> QED BY <4>1, <4>2
    <3> QED BY <1>6, <3>1, <3>2 DEF ExchangeOK, sibling
  <2>10. Len(carriers'[r][s]) <= MaxTime + 1 BY <1>f, <1>2, <2>4, <2>6 DEF Instants
  <2>11. \A u \in Threads : thread'[u].pc \in CallPlaces BY <1>4 DEF Calls
  <2>12. TypeOK'
    BY <1>5, <1>6, <2>5, <2>10, <2>11 DEF TypeOK, CallPlaces, sibling, clock
  <2>13. Shapes' BY <1>4, <1>6, <2>2 DEF Shapes, sibling
  <2>14. EffectInv' BY <1>6 DEF EffectInv, sibling
  <2>15. ResponsesAgree' BY <1>6 DEF ResponsesAgree, sibling
  <2> QED BY <2>7, <2>8, <2>9, <2>12, <2>13, <2>14, <2>15
<1> QED BY <1>a, <1>b

\* A transmission carries the latest carrier.
LEMMA SendKeeps ==
    ASSUME LaneInv, NEW t \in plan.threads, Send(t) PROVE LaneInv'
<1> USE DEF LaneInv
<1>f. t \in Threads /\ plan.conns \in Nat BY LaneFacts
<1> DEFINE r == thread[t].req
           s == thread[t].to
           n == Len(carriers[r][s])
           x == [bytes |-> carriers[r][s][n], pc |-> "net", receipt |-> None, answer |-> None]
<1>0. t \in Threads /\ thread[t] \in Calls /\ CallOK(thread[t]) BY <1>f DEF Shapes, CallInv
<1>1. r \in Requests /\ s \in Siblings /\ n > 0 BY <1>0 DEF CallOK, Send, At
<1>b. sealed[r] # None /\ thread[t].payload = sealed[r] /\ said[r] # None /\ r \in resolved
  BY <1>0 DEF CallOK, Send, At
<1>2. carriers[r][s] \in Seq(Carried) /\ n \in Nat /\ n \in 1..n BY <1>1 DEF Shapes
<1>3. carriers[r][s][n] \in Carried /\ CarrierOK(carriers[r][s][n], r, s, n)
  BY <1>1, <1>2 DEF CarrierInv
<1>c. carriers[r][s][n].env = Envelope(r, s, n) BY <1>3 DEF CarrierOK
<1>4. conns \in Seq(Exchange) /\ Len(conns) \in Nat BY DEF Shapes
<1>5. x \in Exchange BY <1>3 DEF Exchange, ExchangePlaces, Replies
<1>6. /\ conns' = Append(conns, x) /\ UNCHANGED <<clock, author, sibling, crashes>>
      /\ thread' = [thread EXCEPT ![t].pc = "wait", ![t].conn = Len(conns) + 1]
  BY DEF Send
<1>d. /\ thread[t].req = r /\ thread[t].to = s
      /\ x.bytes = carriers[r][s][n] /\ x.pc = "net" /\ x.answer = None
      /\ n = Len(carriers[r][s])
  OBVIOUS
<1> HIDE DEF r, s, n, x
<1>7. /\ conns' \in Seq(Exchange) /\ Len(conns') = Len(conns) + 1
      /\ conns'[Len(conns) + 1] = x
      /\ \A c \in DOMAIN conns : c \in DOMAIN conns' /\ conns'[c] = conns[c]
      /\ \A c \in DOMAIN conns' : c \in DOMAIN conns \/ c = Len(conns) + 1
      /\ Len(conns) + 1 \in DOMAIN conns'
  BY <1>4, <1>5, <1>6
<1>8. thread' \in [Threads -> Calls]
  <2>1. [thread[t] EXCEPT !.pc = "wait", !.conn = Len(conns) + 1] \in Calls
    <3>1. Len(conns) + 1 \in Nat /\ "wait" \in CallPlaces BY <1>4 DEF CallPlaces
    <3> QED BY <1>0, <3>1 DEF Calls
  <2>2. thread' = [thread EXCEPT ![t] = [thread[t] EXCEPT !.pc = "wait", !.conn = Len(conns) + 1]]
    BY <1>0, <1>6 DEF Shapes
  <2> QED BY <2>1, <2>2 DEF Shapes
<1>9. /\ thread'[t].pc = "wait" /\ thread'[t].to = s /\ thread'[t].req = r
      /\ thread'[t].payload = thread[t].payload /\ thread'[t].conn = Len(conns) + 1
      /\ \A u \in Threads \ {t} : thread'[u] = thread[u]
  BY <1>0, <1>6, <1>d DEF Shapes, Calls
<1>10. CallInv'
  <2>1. CallOK(thread[t])'
    <3>1. conns'[thread'[t].conn].bytes.env = Envelope(r, s, n) BY <1>c, <1>d, <1>7, <1>9
    <3> QED BY <1>b, <1>1, <1>6, <1>7, <1>9, <3>1 DEF CallOK, author, Envelope
  <2>2. ASSUME NEW u \in Threads \ {t} PROVE CallOK(thread[u])'
    <3>1. CallOK(thread[u]) BY DEF CallInv
    <3> QED BY <1>6, <1>7, <1>9, <3>1, CallStays DEF author
  <2> QED BY <2>1, <2>2 DEF CallInv
<1>11. ExchangeInv'
  <2>1. ASSUME NEW c \in DOMAIN conns PROVE ExchangeOK(conns[c])'
    <3>1. ExchangeOK(conns[c]) BY DEF ExchangeInv
    <3> QED BY <1>6, <1>7, <3>1 DEF ExchangeOK, author, sibling
  <2>2. ASSUME NEW c \in DOMAIN conns', c = Len(conns) + 1 PROVE ExchangeOK(conns[c])'
    <3>1. ExchangeOK(x)
      <4>1. /\ x.bytes.env.req = r /\ x.bytes.env.sib = s /\ x.bytes.env.gen = n
            /\ x.answer # "ok"
        BY <1>c, <1>d, NoneAssumption DEF Envelope
      <4> QED BY <1>2, <1>d, <4>1 DEF ExchangeOK
    <3>2. conns'[c] = x BY <1>7, <2>2
    <3> QED BY <1>6, <3>1, <3>2 DEF ExchangeOK, author, sibling
  <2> QED BY <1>7, <2>1, <2>2 DEF ExchangeInv
<1>12. \A c \in DOMAIN conns' : conns'[c].pc \in ExchangePlaces /\ conns'[c].answer \in Replies
  <2>1. \A c \in DOMAIN conns' : conns'[c] \in Exchange BY <1>7
  <2> QED BY <2>1 DEF Exchange
<1>13. \A u \in Threads : thread'[u].pc \in CallPlaces BY <1>8 DEF Calls
<1>14. \A u \in Threads : thread'[u].pc = "wait" => thread'[u].conn \in DOMAIN conns'
  BY <1>10 DEF CallInv, CallOK
<1>15. Len(conns') <= plan.conns BY <1>f, <1>4, <1>7 DEF Send
<1>16. TypeOK'
  BY <1>6, <1>12, <1>13, <1>14, <1>15
  DEF TypeOK, CallPlaces, ExchangePlaces, Replies, sibling, clock, author
<1>17. Shapes' BY <1>6, <1>7, <1>8 DEF Shapes, sibling, author
<1>18. CarrierInv' BY <1>6 DEF CarrierInv, CarrierOK, author
<1>19. EffectInv' BY <1>6 DEF EffectInv, sibling
<1>20. ResponsesAgree' BY <1>6 DEF ResponsesAgree, sibling, author
<1> QED BY <1>10, <1>11, <1>16, <1>17, <1>18, <1>19, <1>20

\* The author keeps the receipt of the sibling's ledger.
LEMMA ReceiveLearns ==
    ASSUME LaneInv, NEW t \in plan.threads, Receive(t)
    PROVE  LET r == thread[t].req
               s == thread[t].to
           IN  /\ r \in Requests /\ s \in Siblings /\ receipts[r][s] # None
               /\ kept' = [kept EXCEPT ![r][s] = receipts[r][s]]
<1> USE DEF LaneInv
<1> DEFINE r == thread[t].req
           s == thread[t].to
           c == thread[t].conn
<1>1. t \in Threads /\ CallOK(thread[t]) BY LaneFacts DEF CallInv
<1>2. /\ r \in Requests /\ s \in Siblings /\ c \in DOMAIN conns
      /\ conns[c].bytes.env.req = r /\ conns[c].bytes.env.sib = s
  BY <1>1 DEF CallOK, Receive, At
<1>3. conns[c].answer = "ok" /\ kept' = [kept EXCEPT ![r][s] = conns[c].receipt] BY DEF Receive
<1>4. conns[c].receipt # None /\ conns[c].receipt = receipts[r][s]
  <2>1. ExchangeOK(conns[c]) BY <1>2 DEF ExchangeInv
  <2> QED BY <1>2, <1>3, <2>1 DEF ExchangeOK
<1> QED BY <1>2, <1>3, <1>4

LEMMA ReceiveKeeps ==
    ASSUME LaneInv, NEW t \in plan.threads, Receive(t) PROVE LaneInv'
<1> USE DEF LaneInv
<1>1. t \in Threads /\ thread[t].pc \in {"send", "wait"} BY LaneFacts DEF Receive, At
<1>2. /\ thread' = Next1(t)
      /\ UNCHANGED <<clock, said, resolved, sealed, carriers, conns, sibling, crashes>>
  BY DEF Receive
<1>3. PICK r \in Requests, s \in Siblings : kept' = [kept EXCEPT ![r][s] = receipts[r][s]]
  BY ReceiveLearns
<1>4. kept' \in [Requests -> [Siblings -> Instants \cup {None}]] BY <1>3 DEF Shapes
<1>5. /\ thread' \in [Threads -> Calls] /\ CallOK(thread'[t])
      /\ \A u \in Threads \ {t} : thread'[u] = thread[u]
  BY <1>1, <1>2, NextCall
<1>6. CallInv' BY <1>2, <1>5 DEF CallInv, CallOK
<1>7. \A u \in Threads : thread'[u].pc \in CallPlaces BY <1>5 DEF Calls
<1>8. TypeOK' BY <1>2, <1>4, <1>6, <1>7
  DEF TypeOK, CallInv, CallOK, CallPlaces, Instants, clock, sibling
<1>9. Shapes' BY <1>2, <1>4, <1>5 DEF Shapes, sibling
<1>10. CarrierInv' BY <1>2 DEF CarrierInv, CarrierOK
<1>11. ExchangeInv' BY <1>2 DEF ExchangeInv, ExchangeOK, sibling
<1>12. EffectInv' BY <1>2 DEF EffectInv, sibling
<1>13. ResponsesAgree' BY <1>2 DEF ResponsesAgree, sibling
<1> QED BY <1>6, <1>8, <1>9, <1>10, <1>11, <1>12, <1>13

\* An exchange that moves: its record, and the others untouched.
LEMMA ExchangeFacts ==
    ASSUME LaneInv, NEW c \in DOMAIN conns
    PROVE  /\ conns[c] \in Exchange /\ ExchangeOK(conns[c])
           /\ conns[c].bytes.env \in Envelopes
           /\ conns[c].bytes.env.req \in Requests /\ conns[c].bytes.env.sib \in Siblings
           /\ sealed[conns[c].bytes.env.req] # None
<1> USE DEF LaneInv
<1>1. conns[c] \in Exchange BY DEF Shapes
<1>2. ExchangeOK(conns[c]) BY DEF ExchangeInv
<1>3. conns[c].bytes.env \in Envelopes BY <1>1 DEF Exchange, Carried
<1>4. conns[c].bytes.env.req \in Requests /\ conns[c].bytes.env.sib \in Siblings
  BY <1>3 DEF Envelopes
<1>5. sealed[conns[c].bytes.env.req] # None BY <1>2, <1>4 DEF ExchangeOK, CarrierInv, CarrierOK
<1> QED BY <1>1, <1>2, <1>3, <1>4, <1>5

\* What the other conjuncts need to know of conns when some exchange moves.
LEMMA ConnsMove ==
    ASSUME LaneInv, UNCHANGED <<clock, author, thread, crashes>>,
           NEW c \in DOMAIN conns, conns'[c] \in Exchange,
           conns' = [conns EXCEPT ![c] = conns'[c]], conns'[c].bytes = conns[c].bytes
    PROVE  /\ conns' \in Seq(Exchange) /\ DOMAIN conns' = DOMAIN conns /\ Len(conns') = Len(conns)
           /\ \A d \in DOMAIN conns : conns'[d].bytes = conns[d].bytes
           /\ \A d \in DOMAIN conns \ {c} : conns'[d] = conns[d]
           /\ \A d \in DOMAIN conns' :
                 conns'[d].pc \in ExchangePlaces /\ conns'[d].answer \in Replies
           /\ CallInv' /\ CarrierInv'
<1> USE DEF LaneInv, clock, author
<1>1. conns \in Seq(Exchange) BY DEF Shapes
<1>2. conns' \in Seq(Exchange) /\ DOMAIN conns' = DOMAIN conns /\ Len(conns') = Len(conns)
  BY <1>1
<1>3. \A d \in DOMAIN conns \ {c} : conns'[d] = conns[d] BY <1>1
<1>4. \A d \in DOMAIN conns : conns'[d].bytes = conns[d].bytes BY <1>3
<1>5. \A d \in DOMAIN conns' : conns'[d] \in Exchange BY <1>2
<1>6. \A d \in DOMAIN conns' : conns'[d].pc \in ExchangePlaces /\ conns'[d].answer \in Replies
  BY <1>5 DEF Exchange
<1>7. CallInv' BY <1>2, <1>4 DEF CallInv, CallOK
<1>8. CarrierInv' BY DEF CarrierInv, CarrierOK
<1> QED BY <1>2, <1>3, <1>4, <1>6, <1>7, <1>8

\* The steps of one exchange that leave the sibling's tables alone.
LEMMA WorkMoves ==
    ASSUME LaneInv, UNCHANGED <<clock, author, thread, sibling, crashes>>,
           NEW c \in DOMAIN conns, conns'[c] \in Exchange,
           conns' = [conns EXCEPT ![c] = conns'[c]], conns'[c].bytes = conns[c].bytes,
           ExchangeOK(conns'[c])
    PROVE  LaneInv'
<1>1. \A d \in DOMAIN conns \ {c} : ExchangeOK(conns'[d])
  BY ConnsMove, ExchangeFacts
<1> QED BY <1>1, ConnsMove, ExchangeMoves

LEMMA TurnedKeeps ==
    ASSUME LaneInv, NEW c \in DOMAIN conns, Turned(c) PROVE LaneInv'
<1>1. PICK a \in {"rejected", "busy"} : Answer(c, a) BY DEF Turned
<1>2. UNCHANGED <<clock, author, thread, sibling, crashes>> /\ In(c, "net") BY DEF Turned
<1>3. conns[c] \in Exchange /\ ExchangeOK(conns[c]) /\ conns \in Seq(Exchange)
  BY ExchangeFacts DEF LaneInv, Shapes
<1>4. conns' = [conns EXCEPT ![c] = [conns[c] EXCEPT !.pc = "done", !.answer = a]]
  BY <1>1, <1>3 DEF Answer
<1>5. conns'[c] = [conns[c] EXCEPT !.pc = "done", !.answer = a] BY <1>3, <1>4
<1>6. conns'[c] \in Exchange BY <1>3, <1>5 DEF Exchange, ExchangePlaces, Replies
<1>7. ExchangeOK(conns'[c]) BY <1>3, <1>5 DEF ExchangeOK, Exchange
<1> QED BY <1>2, <1>3, <1>4, <1>5, <1>6, <1>7, WorkMoves DEF Exchange

LEMMA ReplayKeeps ==
    ASSUME LaneInv, NEW c \in DOMAIN conns, Replay(c) PROVE LaneInv'
<1> DEFINE e == conns[c].bytes.env
           v == Row(e).response
<1>1. /\ UNCHANGED <<clock, author, thread, sibling, crashes>> /\ Row(e).state = "responded"
      /\ conns' = [conns EXCEPT ![c].pc = "release", ![c].receipt = v]
  BY DEF Replay
<1>2. /\ conns[c] \in Exchange /\ ExchangeOK(conns[c]) /\ conns \in Seq(Exchange)
      /\ e \in Envelopes
  BY ExchangeFacts DEF LaneInv, Shapes
<1>3. v # None /\ v = receipts[e.req][e.sib] /\ v \in Instants
  <2>1. e \in DOMAIN exchanges /\ exchanges[e].state = "responded" /\ v = exchanges[e].response
    BY <1>1 DEF Row, NoRow
  <2> QED BY <2>1 DEF LaneInv, EffectInv, ResponsesAgree, Shapes
<1> HIDE DEF v
<1>4. conns' = [conns EXCEPT ![c] = [conns[c] EXCEPT !.pc = "release", !.receipt = v]]
  BY <1>1, <1>2
<1>5. conns'[c] = [conns[c] EXCEPT !.pc = "release", !.receipt = v] BY <1>2, <1>4
<1>6. conns'[c] \in Exchange BY <1>2, <1>3, <1>5 DEF Exchange, ExchangePlaces
<1>7. conns[c].answer # "ok" BY <1>2 DEF ExchangeOK, Replay, In
<1>8. ExchangeOK(conns'[c]) BY <1>2, <1>3, <1>5, <1>7 DEF ExchangeOK, Exchange
<1> QED BY <1>1, <1>2, <1>4, <1>5, <1>6, <1>8, WorkMoves DEF Exchange

LEMMA LogicalResponseKeeps ==
    ASSUME LaneInv, NEW c \in DOMAIN conns, LogicalResponse(c) PROVE LaneInv'
<1> DEFINE e == conns[c].bytes.env
           v == effects[e.req][e.sib]
           p == IF v = None THEN "retain" ELSE "finish"
<1>1. /\ UNCHANGED <<clock, author, thread, sibling, crashes>> /\ conns[c].pc = "look"
      /\ conns' = [conns EXCEPT ![c].pc = p, ![c].receipt = v]
  BY DEF LogicalResponse, In
<1>2. /\ conns[c] \in Exchange /\ ExchangeOK(conns[c]) /\ conns \in Seq(Exchange)
      /\ e.req \in Requests /\ e.sib \in Siblings
  BY ExchangeFacts DEF LaneInv, Shapes
<1>3. v \in Instants \cup {None} /\ (v # None => v = receipts[e.req][e.sib])
  BY <1>2 DEF LaneInv, EffectInv, Shapes
<1>4. p \in ExchangePlaces /\ p \notin {"receipt", "release"} /\ (p = "finish" => v # None)
  BY DEF ExchangePlaces
<1> HIDE DEF v, p
<1>5. conns' = [conns EXCEPT ![c] = [conns[c] EXCEPT !.pc = p, !.receipt = v]] BY <1>1, <1>2
<1>6. conns'[c] = [conns[c] EXCEPT !.pc = p, !.receipt = v] BY <1>2, <1>5
<1>7. conns'[c] \in Exchange BY <1>2, <1>3, <1>4, <1>6 DEF Exchange
<1>8. conns[c].answer # "ok" BY <1>1, <1>2 DEF ExchangeOK
<1>9. ExchangeOK(conns'[c]) BY <1>2, <1>3, <1>4, <1>6, <1>8 DEF ExchangeOK, Exchange
<1> QED BY <1>1, <1>2, <1>5, <1>6, <1>7, <1>9, WorkMoves DEF Exchange

LEMMA FinishDeniedKeeps ==
    ASSUME LaneInv, NEW c \in DOMAIN conns, FinishDenied(c) PROVE LaneInv'
<1>1. /\ UNCHANGED <<clock, author, thread, sibling, crashes>> /\ conns[c].pc = "finish"
      /\ conns' = [conns EXCEPT ![c].pc = "abort"]
  BY DEF FinishDenied, In
<1>2. conns[c] \in Exchange /\ ExchangeOK(conns[c]) /\ conns \in Seq(Exchange)
  BY ExchangeFacts DEF LaneInv, Shapes
<1>3. conns' = [conns EXCEPT ![c] = [conns[c] EXCEPT !.pc = "abort"]] BY <1>1, <1>2
<1>4. conns'[c] = [conns[c] EXCEPT !.pc = "abort"] BY <1>2, <1>3
<1>5. conns'[c] \in Exchange BY <1>2, <1>4 DEF Exchange, ExchangePlaces
<1>6. ExchangeOK(conns'[c]) BY <1>1, <1>2, <1>4 DEF ExchangeOK, Exchange
<1> QED BY <1>1, <1>2, <1>3, <1>4, <1>5, <1>6, WorkMoves DEF Exchange

LEMMA ReleaseKeeps ==
    ASSUME LaneInv, NEW c \in DOMAIN conns, Release(c) PROVE LaneInv'
<1>1. PICK a \in {"ok", "closed"} : Answer(c, a) BY DEF Release
<1>2. UNCHANGED <<clock, author, thread, sibling, crashes>> /\ conns[c].pc = "release"
  BY DEF Release, In
<1>3. conns[c] \in Exchange /\ ExchangeOK(conns[c]) /\ conns \in Seq(Exchange)
  BY ExchangeFacts DEF LaneInv, Shapes
<1>4. conns' = [conns EXCEPT ![c] = [conns[c] EXCEPT !.pc = "done", !.answer = a]]
  BY <1>1, <1>3 DEF Answer
<1>5. conns'[c] = [conns[c] EXCEPT !.pc = "done", !.answer = a] BY <1>3, <1>4
<1>6. conns'[c] \in Exchange BY <1>3, <1>5 DEF Exchange, ExchangePlaces, Replies
<1>7. ExchangeOK(conns'[c]) BY <1>2, <1>3, <1>5 DEF ExchangeOK, Exchange
<1> QED BY <1>2, <1>3, <1>4, <1>5, <1>6, <1>7, WorkMoves DEF Exchange

LEMMA CrashSiblingKeeps ==
    ASSUME LaneInv, NEW s \in plan.siblings, CrashSibling(s) PROVE LaneInv'
<1> DEFINE cut(c) == conns[c].bytes.env.sib = s /\ conns[c].pc \notin {"net", "done"}
           dead(c) == [conns[c] EXCEPT !.pc = "done", !.answer = "closed"]
<1>1. /\ UNCHANGED <<clock, author, thread, sibling>> /\ crashes' = crashes + 1
      /\ crashes < plan.crashes
      /\ conns' = [c \in DOMAIN conns |-> IF cut(c) THEN dead(c) ELSE conns[c]]
  BY DEF CrashSibling
<1>2. conns \in Seq(Exchange) BY DEF LaneInv, Shapes
<1>3. DOMAIN conns' = DOMAIN conns /\ DOMAIN conns = 1..Len(conns) /\ Len(conns) \in Nat
  <2>1. DOMAIN conns = 1..Len(conns) /\ Len(conns) \in Nat BY <1>2
  <2>2. DOMAIN conns' = DOMAIN conns BY <1>1
  <2> QED BY <2>1, <2>2
<1>4. ASSUME NEW c \in DOMAIN conns
      PROVE  conns'[c] \in Exchange /\ conns'[c].bytes = conns[c].bytes /\ ExchangeOK(conns'[c])
  <2>1. conns[c] \in Exchange /\ ExchangeOK(conns[c]) BY ExchangeFacts
  <2>2. dead(c) \in Exchange /\ dead(c).bytes = conns[c].bytes
    BY <2>1 DEF Exchange, ExchangePlaces, Replies
  <2>3. ExchangeOK(dead(c)) BY <2>1 DEF ExchangeOK, Exchange
  <2>4. conns'[c] = dead(c) \/ conns'[c] = conns[c] BY <1>1
  <2> QED BY <2>1, <2>2, <2>3, <2>4
<1>5. conns' \in Seq(Exchange) /\ Len(conns') = Len(conns)
  <2>1. conns' \in [1..Len(conns) -> Exchange] BY <1>1, <1>3, <1>4
  <2> QED BY <1>3, <2>1
<1>a. UNCHANGED <<clock, author, thread, sibling>> /\ crashes' = crashes + 1 BY <1>1
<1> HIDE DEF cut, dead
<1> USE DEF LaneInv, clock, author, sibling
<1>6. ExchangeInv' BY <1>a, <1>3, <1>4 DEF ExchangeInv, ExchangeOK
<1>7. CallInv' BY <1>a, <1>3, <1>4 DEF CallInv, CallOK
<1>8. \A c \in DOMAIN conns' : conns'[c].pc \in ExchangePlaces /\ conns'[c].answer \in Replies
  BY <1>3, <1>4 DEF Exchange
<1>9. plan.crashes \in Nat /\ crashes \in Nat BY LaneFacts DEF TypeOK
<1>b. crashes < plan.crashes BY <1>1
<1>10. TypeOK' BY <1>a, <1>b, <1>3, <1>5, <1>8, <1>9 DEF TypeOK, ExchangePlaces, Replies
<1>11. Shapes' BY <1>a, <1>5 DEF Shapes
<1>12. CarrierInv' BY <1>a DEF CarrierInv, CarrierOK
<1>13. EffectInv' BY <1>a DEF EffectInv
<1>14. ResponsesAgree' BY <1>a DEF ResponsesAgree
<1> QED BY <1>6, <1>7, <1>10, <1>11, <1>12, <1>13, <1>14

LEMMA RetainKeeps ==
    ASSUME LaneInv, NEW c \in DOMAIN conns, Retain(c) PROVE LaneInv'
<1> DEFINE e == conns[c].bytes.env
           p == IF OpensConversation(conns[c].bytes.payload) THEN "receipt" ELSE "abort"
<1>1. /\ UNCHANGED <<clock, author, thread, exchanges, effects, receipts, crashes>>
      /\ conns[c].pc = "retain" /\ conns' = [conns EXCEPT ![c].pc = p]
      /\ evidence' = IF p = "receipt" THEN [evidence EXCEPT ![e.sib] = @ \cup {e.req}] ELSE evidence
  BY DEF Retain, In
<1>2. /\ conns[c] \in Exchange /\ ExchangeOK(conns[c]) /\ conns \in Seq(Exchange)
      /\ e.req \in Requests /\ e.sib \in Siblings
  BY ExchangeFacts DEF LaneInv, Shapes
<1>3. p \in {"receipt", "abort"} OBVIOUS
<1> HIDE DEF p
<1> USE DEF LaneInv
<1>4. conns' = [conns EXCEPT ![c] = [conns[c] EXCEPT !.pc = p]] BY <1>1, <1>2
<1>5. conns'[c] = [conns[c] EXCEPT !.pc = p] BY <1>2, <1>4
<1>6. conns'[c] \in Exchange /\ conns'[c].bytes = conns[c].bytes
  BY <1>2, <1>3, <1>5 DEF Exchange, ExchangePlaces
<1>7. evidence' \in [Siblings -> SUBSET Requests] BY <1>1, <1>2 DEF TypeOK
<1>8. \A s \in Siblings : evidence[s] \subseteq evidence'[s] BY <1>1, <1>2 DEF TypeOK
<1>9. p = "receipt" => e.req \in evidence'[e.sib] BY <1>1, <1>2 DEF TypeOK
<1>10. ASSUME NEW d \in DOMAIN conns PROVE ExchangeOK(conns[d])'
  <2>1. ExchangeOK(conns[d]) /\ conns[d].bytes.env.sib \in Siblings BY ExchangeFacts
  <2>2. CASE d = c
    BY <1>1, <1>2, <1>3, <1>5, <1>6, <1>9, <2>2 DEF ExchangeOK, Exchange, author
  <2>3. CASE d # c
    <3>1. conns'[d] = conns[d] BY <1>2, <1>4, <2>3
    <3> QED BY <1>1, <1>8, <2>1, <3>1 DEF ExchangeOK, author
  <2> QED BY <2>2, <2>3
<1>11. /\ conns' \in Seq(Exchange) /\ DOMAIN conns' = DOMAIN conns /\ Len(conns') = Len(conns)
       /\ \A d \in DOMAIN conns' : conns'[d].pc \in ExchangePlaces /\ conns'[d].answer \in Replies
       /\ CallInv' /\ CarrierInv'
  BY <1>1, <1>4, <1>5, <1>6, ConnsMove
<1>12. ExchangeInv' BY <1>10, <1>11 DEF ExchangeInv
<1>13. TypeOK' BY <1>1, <1>7, <1>11 DEF TypeOK, ExchangePlaces, Replies, clock, author
<1>14. Shapes' BY <1>1, <1>11 DEF Shapes, author
<1>15. EffectInv' BY <1>1 DEF EffectInv
<1>16. ResponsesAgree' BY <1>1, <1>8 DEF ResponsesAgree, author
<1> QED BY <1>11, <1>12, <1>13, <1>14, <1>15, <1>16

\* The receipt of a sibling's ledger is authored once.
LEMMA ReceiptIsHeard ==
    ASSUME LaneInv, NEW c \in DOMAIN conns, AuthorReceipt(c)
    PROVE  LET e == conns[c].bytes.env IN
           /\ e.req \in Requests /\ e.sib \in Siblings
           /\ \/ receipts[e.req][e.sib] # None /\ receipts' = receipts
              \/ /\ receipts[e.req][e.sib] = None
                 /\ receipts' = [receipts EXCEPT ![e.req][e.sib] = now]
<1> DEFINE e == conns[c].bytes.env
<1>1. e.req \in Requests /\ e.sib \in Siblings BY ExchangeFacts
<1>2. receipts' = [receipts EXCEPT ![e.req][e.sib] = Authored(e.req, e.sib)] BY DEF AuthorReceipt
<1>3. CASE receipts[e.req][e.sib] # None
  <2>1. receipts' = [receipts EXCEPT ![e.req][e.sib] = receipts[e.req][e.sib]]
    BY <1>2, <1>3 DEF Authored
  <2>2. receipts' = receipts BY <1>1, <2>1 DEF LaneInv, Shapes
  <2> QED BY <1>1, <1>3, <2>2
<1>4. CASE receipts[e.req][e.sib] = None BY <1>1, <1>2, <1>4 DEF Authored
<1> QED BY <1>3, <1>4

LEMMA AuthorReceiptKeeps ==
    ASSUME LaneInv, NEW c \in DOMAIN conns, AuthorReceipt(c) PROVE LaneInv'
<1> DEFINE e == conns[c].bytes.env
           v == Authored(e.req, e.sib)
<1>1. /\ UNCHANGED <<clock, author, thread, exchanges, effects, evidence, crashes>>
      /\ conns[c].pc = "receipt" /\ conns' = [conns EXCEPT ![c].pc = "finish", ![c].receipt = v]
      /\ receipts' = [receipts EXCEPT ![e.req][e.sib] = v]
  BY DEF AuthorReceipt, In
<1>2. /\ conns[c] \in Exchange /\ ExchangeOK(conns[c]) /\ conns \in Seq(Exchange)
      /\ e.req \in Requests /\ e.sib \in Siblings /\ sealed[e.req] # None
      /\ e.req \in evidence[e.sib]
  BY <1>1, ExchangeFacts DEF LaneInv, Shapes, ExchangeOK
<1>3. v \in Instants /\ v # None /\ (receipts[e.req][e.sib] # None => v = receipts[e.req][e.sib])
  BY <1>2, LaneFacts, NoneAssumption DEF Authored, LaneInv, Shapes, Instants
<1> HIDE DEF v
<1> USE DEF LaneInv
<1>4. conns' = [conns EXCEPT ![c] = [conns[c] EXCEPT !.pc = "finish", !.receipt = v]]
  BY <1>1, <1>2
<1>5. conns'[c] = [conns[c] EXCEPT !.pc = "finish", !.receipt = v] BY <1>2, <1>4
<1>6. conns'[c] \in Exchange /\ conns'[c].bytes = conns[c].bytes
  BY <1>2, <1>3, <1>5 DEF Exchange, ExchangePlaces
<1>7. receipts' \in [Requests -> [Siblings -> Instants \cup {None}]] BY <1>1, <1>2, <1>3 DEF Shapes
<1>8. /\ receipts'[e.req][e.sib] = v
      /\ \A r \in Requests, s \in Siblings :
            /\ receipts[r][s] # None => receipts'[r][s] = receipts[r][s]
            /\ r # e.req \/ s # e.sib => receipts'[r][s] = receipts[r][s]
  BY <1>1, <1>2, <1>3 DEF Shapes
<1>9. ASSUME NEW d \in DOMAIN conns PROVE ExchangeOK(conns[d])'
  <2>1. /\ ExchangeOK(conns[d]) /\ conns[d].bytes.env.sib \in Siblings
        /\ conns[d].bytes.env.req \in Requests
    BY ExchangeFacts
  <2>2. CASE d = c
    BY <1>1, <1>2, <1>3, <1>5, <1>6, <1>8, <2>2 DEF ExchangeOK, Exchange, author
  <2>3. CASE d # c
    <3>1. conns'[d] = conns[d] BY <1>2, <1>4, <2>3
    <3> QED BY <1>1, <1>8, <2>1, <3>1 DEF ExchangeOK, author
  <2> QED BY <2>2, <2>3
<1>10. /\ conns' \in Seq(Exchange) /\ DOMAIN conns' = DOMAIN conns /\ Len(conns') = Len(conns)
       /\ \A d \in DOMAIN conns' : conns'[d].pc \in ExchangePlaces /\ conns'[d].answer \in Replies
       /\ CallInv' /\ CarrierInv'
  BY <1>1, <1>4, <1>5, <1>6, ConnsMove
<1>11. ExchangeInv' BY <1>9, <1>10 DEF ExchangeInv
<1>12. TypeOK' BY <1>1, <1>7, <1>10 DEF TypeOK, ExchangePlaces, Replies, Instants, clock, author
<1>13. Shapes' BY <1>1, <1>7, <1>10 DEF Shapes, author
<1>14. EffectInv' BY <1>1, <1>8 DEF EffectInv
<1>15. ResponsesAgree'
  <2>1. ASSUME NEW x \in DOMAIN exchanges, exchanges[x].state = "responded"
        PROVE  /\ exchanges[x].response = receipts'[x.req][x.sib]
               /\ exchanges[x].response = effects[x.req][x.sib]
    <3>1. x.req \in Requests /\ x.sib \in Siblings BY DEF Shapes, Envelopes
    <3>2. /\ exchanges[x].response = receipts[x.req][x.sib] /\ exchanges[x].response # None
          /\ exchanges[x].response = effects[x.req][x.sib]
      BY <2>1 DEF ResponsesAgree, EffectInv
    <3> QED BY <1>8, <3>1, <3>2
  <2>2. ASSUME NEW r \in Requests, NEW s \in Siblings, receipts'[r][s] # None
        PROVE  r \in evidence[s] /\ sealed[r] # None
    BY <1>2, <1>8, <2>2 DEF ResponsesAgree
  <2> QED BY <1>1, <2>1, <2>2 DEF ResponsesAgree, author
<1> QED BY <1>10, <1>11, <1>12, <1>13, <1>14, <1>15

\* What the sibling's rows must satisfy, one at a time.
RowOK(x, row) ==
    /\ row.state \in {"processing", "responded"} /\ row.response \in Instants \cup {None}
    /\ row.state = "responded" =>
          /\ row.response # None /\ row.response = receipts[x.req][x.sib]
          /\ row.response = effects[x.req][x.sib]

LEMMA RowsAreOK ==
    ASSUME LaneInv
    PROVE  \A x \in DOMAIN exchanges : x \in Envelopes /\ RowOK(x, exchanges[x])
BY DEF LaneInv, TypeOK, Shapes, EffectInv, ResponsesAgree, RowOK

\* The steps that write a row without an answer, or take one away.
LEMMA RowMoves ==
    ASSUME LaneInv, UNCHANGED <<clock, author, thread, effects, evidence, receipts, crashes>>,
           NEW c \in DOMAIN conns, conns'[c] \in Exchange,
           conns' = [conns EXCEPT ![c] = conns'[c]], conns'[c].bytes = conns[c].bytes,
           ExchangeOK(conns'[c]),
           \A x \in DOMAIN exchanges' : x \in Envelopes /\ RowOK(x, exchanges'[x])
    PROVE  LaneInv'
<1>1. /\ conns' \in Seq(Exchange) /\ DOMAIN conns' = DOMAIN conns /\ Len(conns') = Len(conns)
      /\ \A d \in DOMAIN conns' : conns'[d].pc \in ExchangePlaces /\ conns'[d].answer \in Replies
      /\ \A d \in DOMAIN conns \ {c} : conns'[d] = conns[d]
      /\ CallInv' /\ CarrierInv'
  BY ConnsMove
<1> USE DEF LaneInv
<1>2. ExchangeInv'
  <2>1. \A d \in DOMAIN conns : ExchangeOK(conns'[d]) BY <1>1, ExchangeFacts
  <2> QED BY <1>1, <2>1 DEF ExchangeInv, ExchangeOK, author
<1>3. TypeOK' BY <1>1 DEF TypeOK, ExchangePlaces, Replies, RowOK, clock, author
<1>4. Shapes' BY <1>1 DEF Shapes, RowOK, author
<1>5. EffectInv' BY DEF EffectInv, RowOK
<1>6. ResponsesAgree' BY DEF ResponsesAgree, RowOK, author
<1> QED BY <1>1, <1>2, <1>3, <1>4, <1>5, <1>6

LEMMA BeginKeeps ==
    ASSUME LaneInv, NEW c \in DOMAIN conns, Begin(c) PROVE LaneInv'
<1> DEFINE e == conns[c].bytes.env
           row == [state |-> "processing", claim |-> c, lease |-> now + LeaseSecs,
                   response |-> None]
<1>1. /\ UNCHANGED <<clock, author, thread, effects, evidence, receipts, crashes>>
      /\ conns[c].pc = "net" /\ conns' = [conns EXCEPT ![c].pc = "look"]
      /\ exchanges' = Put(e, row)
  BY DEF Begin, In
<1>2. conns[c] \in Exchange /\ ExchangeOK(conns[c]) /\ conns \in Seq(Exchange) /\ e \in Envelopes
  BY ExchangeFacts DEF LaneInv, Shapes
<1>3. conns' = [conns EXCEPT ![c] = [conns[c] EXCEPT !.pc = "look"]] BY <1>1, <1>2
<1>4. conns'[c] = [conns[c] EXCEPT !.pc = "look"] BY <1>2, <1>3
<1>5. conns'[c] \in Exchange BY <1>2, <1>4 DEF Exchange, ExchangePlaces
<1>6. ExchangeOK(conns'[c]) BY <1>1, <1>2, <1>4 DEF ExchangeOK, Exchange
<1>7. RowOK(e, row) BY DEF RowOK
<1> HIDE DEF row
<1>8. \A x \in DOMAIN exchanges' : x \in Envelopes /\ RowOK(x, exchanges'[x])
  BY <1>1, <1>2, <1>7, RowsAreOK DEF Put
<1> QED BY <1>1, <1>2, <1>3, <1>4, <1>5, <1>6, <1>8, RowMoves DEF Exchange

LEMMA AbortKeeps ==
    ASSUME LaneInv, NEW c \in DOMAIN conns, Abort(c) PROVE LaneInv'
<1>1. /\ UNCHANGED <<clock, author, thread, effects, evidence, receipts, crashes>>
      /\ conns[c].pc = "abort" /\ Answer(c, "rejected")
  BY DEF Abort, In
<1>2. conns[c] \in Exchange /\ ExchangeOK(conns[c]) /\ conns \in Seq(Exchange)
  BY ExchangeFacts DEF LaneInv, Shapes
<1>3. conns' = [conns EXCEPT ![c] = [conns[c] EXCEPT !.pc = "done", !.answer = "rejected"]]
  BY <1>1, <1>2 DEF Answer
<1>4. conns'[c] = [conns[c] EXCEPT !.pc = "done", !.answer = "rejected"] BY <1>2, <1>3
<1>5. conns'[c] \in Exchange BY <1>2, <1>4 DEF Exchange, ExchangePlaces, Replies
<1>6. ExchangeOK(conns'[c]) BY <1>1, <1>2, <1>4 DEF ExchangeOK, Exchange
<1>7. \A x \in DOMAIN exchanges' : x \in DOMAIN exchanges /\ exchanges'[x] = exchanges[x]
  BY DEF Abort
<1>8. \A x \in DOMAIN exchanges' : x \in Envelopes /\ RowOK(x, exchanges'[x])
  BY <1>7, RowsAreOK
<1> QED BY <1>1, <1>2, <1>3, <1>4, <1>5, <1>6, <1>8, RowMoves DEF Exchange

\* The answer of the worker that holds the claim is the receipt.
LEMMA FinishKeeps ==
    ASSUME LaneInv, NEW c \in DOMAIN conns, Finish(c) PROVE LaneInv'
<1> DEFINE e == conns[c].bytes.env
           v == conns[c].receipt
           row == [NoRow EXCEPT !.state = "responded", !.response = v]
<1>1. /\ UNCHANGED <<clock, author, thread, evidence, receipts, crashes>>
      /\ conns[c].pc = "finish" /\ conns' = [conns EXCEPT ![c].pc = "release"]
      /\ exchanges' = Put(e, row) /\ effects' = [effects EXCEPT ![e.req][e.sib] = v]
  BY DEF Finish, In
<1>2. /\ conns[c] \in Exchange /\ ExchangeOK(conns[c]) /\ conns \in Seq(Exchange)
      /\ e \in Envelopes /\ e.req \in Requests /\ e.sib \in Siblings
  BY ExchangeFacts DEF LaneInv, Shapes
<1>3. v # None /\ v = receipts[e.req][e.sib] /\ v \in Instants
  BY <1>1, <1>2 DEF ExchangeOK, Exchange
<1>4. row.state = "responded" /\ row.response = v BY DEF NoRow
<1> HIDE DEF v, row
<1> USE DEF LaneInv
<1>5. conns' = [conns EXCEPT ![c] = [conns[c] EXCEPT !.pc = "release"]] BY <1>1, <1>2
<1>6. conns'[c] = [conns[c] EXCEPT !.pc = "release"] BY <1>2, <1>5
<1>7. conns'[c] \in Exchange /\ conns'[c].bytes = conns[c].bytes
  BY <1>2, <1>6 DEF Exchange, ExchangePlaces
<1>8. ExchangeOK(conns'[c]) BY <1>1, <1>2, <1>6 DEF ExchangeOK, Exchange
<1>9. /\ conns' \in Seq(Exchange) /\ DOMAIN conns' = DOMAIN conns /\ Len(conns') = Len(conns)
      /\ \A d \in DOMAIN conns' : conns'[d].pc \in ExchangePlaces /\ conns'[d].answer \in Replies
      /\ \A d \in DOMAIN conns \ {c} : conns'[d] = conns[d]
      /\ CallInv' /\ CarrierInv'
  BY <1>1, <1>5, <1>6, <1>7, ConnsMove
<1>10. effects' \in [Requests -> [Siblings -> Instants \cup {None}]] BY <1>1, <1>2, <1>3 DEF Shapes
<1>11. /\ effects'[e.req][e.sib] = v
       /\ \A r \in Requests, s \in Siblings :
             r # e.req \/ s # e.sib => effects'[r][s] = effects[r][s]
  BY <1>1, <1>2 DEF Shapes
<1>a. UNCHANGED <<clock, author, thread, evidence, receipts, crashes>> BY <1>1
<1>12. ASSUME NEW x \in DOMAIN exchanges'
       PROVE  x \in Envelopes /\ RowOK(x, exchanges[x])'
  <2>1. CASE x = e
    <3>1. exchanges'[x] = row BY <1>1, <2>1 DEF Put
    <3> QED BY <1>a, <1>2, <1>3, <1>4, <1>11, <2>1, <3>1 DEF RowOK
  <2>2. CASE x # e
    <3>1. x \in DOMAIN exchanges /\ exchanges'[x] = exchanges[x] BY <1>1, <2>2 DEF Put
    <3>2. x \in Envelopes /\ RowOK(x, exchanges[x]) BY <3>1, RowsAreOK
    <3>3. x.req \in Requests /\ x.sib \in Siblings BY <3>2 DEF Envelopes
    <3>4. effects'[x.req][x.sib] = effects[x.req][x.sib] \/ (x.req = e.req /\ x.sib = e.sib)
      BY <1>11, <3>3
    <3> QED BY <1>a, <1>3, <1>11, <3>1, <3>2, <3>4 DEF RowOK
  <2> QED BY <2>1, <2>2
<1>13. ExchangeInv'
  <2>1. \A d \in DOMAIN conns : ExchangeOK(conns'[d]) BY <1>8, <1>9, ExchangeFacts
  <2> QED BY <1>a, <1>9, <2>1 DEF ExchangeInv, ExchangeOK, author
<1>14. TypeOK'
  BY <1>a, <1>9, <1>10, <1>12
  DEF TypeOK, ExchangePlaces, Replies, RowOK, Instants, clock, author
<1>15. Shapes' BY <1>a, <1>9, <1>10, <1>12 DEF Shapes, RowOK, author
<1>16. EffectInv' BY <1>a, <1>3, <1>11, <1>12 DEF EffectInv, RowOK
<1>17. ResponsesAgree' BY <1>a, <1>12 DEF ResponsesAgree, RowOK, author
<1> QED BY <1>9, <1>13, <1>14, <1>15, <1>16, <1>17

LEMMA LaneSteps == LaneInv /\ [Next]_vars => LaneInv'
<1> SUFFICES ASSUME LaneInv, [Next]_vars PROVE LaneInv' OBVIOUS
<1>1. CASE Tick BY <1>1, TickKeeps
<1>2. CASE CrashAuthor BY <1>2, CrashAuthorKeeps
<1>3. CASE \E s \in plan.siblings : CrashSibling(s) BY <1>3, CrashSiblingKeeps
<1>4. ASSUME NEW t \in plan.threads, NEW r \in Requests, NEW x \in plan.texts, Converse(t, r, x)
      PROVE  LaneInv'
  BY <1>4, ConverseKeeps
<1>5. ASSUME NEW t \in plan.threads, Step(t) PROVE LaneInv'
  BY <1>5, AuthorMessageKeeps, AuthorResolutionKeeps, BeginSealKeeps, FinishSealKeeps,
     OpenSavedKeeps, CarryKeeps, SendKeeps DEF Step
<1>6. ASSUME NEW t \in plan.threads, SendRefused(t) \/ GiveUp(t) \/ Receive(t) PROVE LaneInv'
  BY <1>6, GiveUpKeeps, ReceiveKeeps
<1>7. ASSUME NEW c \in DOMAIN conns, Work(c) \/ Release(c) PROVE LaneInv'
  BY <1>7, BeginKeeps, ReplayKeeps, TurnedKeeps, LogicalResponseKeeps, RetainKeeps,
     AuthorReceiptKeeps, FinishKeeps, FinishDeniedKeeps, AbortKeeps, ReleaseKeeps DEF Work
<1>8. CASE UNCHANGED vars
  <2>1. UNCHANGED <<clock, author, conns, sibling, crashes>> /\ thread' = thread
    BY <1>8 DEF vars
  <2> USE DEF LaneInv, clock, author, sibling
  <2>2. TypeOK' /\ Shapes' BY <2>1 DEF TypeOK, Shapes
  <2>3. CallInv' BY <2>1 DEF CallInv, CallOK
  <2>4. CarrierInv' /\ ExchangeInv' BY <2>1 DEF CarrierInv, CarrierOK, ExchangeInv, ExchangeOK
  <2>5. EffectInv' /\ ResponsesAgree' BY <2>1 DEF EffectInv, ResponsesAgree
  <2> QED BY <2>2, <2>3, <2>4, <2>5
<1> QED BY <1>1, <1>2, <1>3, <1>4, <1>5, <1>6, <1>7, <1>8 DEF Next

\* Two exchanges with one envelope carry one stored carrier, whose payload is
\* the request's.
LEMMA LaneMeans == LaneInv => LaneAgrees
<1> SUFFICES ASSUME LaneInv PROVE EnvelopesAreBytes BY DEF LaneInv, LaneAgrees
<1>1. ASSUME NEW c \in DOMAIN conns
      PROVE  LET e == conns[c].bytes.env IN
             /\ conns[c].bytes = carriers[e.req][e.sib][e.gen]
             /\ conns[c].bytes.payload = sealed[e.req]
  <2> DEFINE e == conns[c].bytes.env
  <2>1. /\ e.req \in Requests /\ e.sib \in Siblings /\ e.gen \in 1..Len(carriers[e.req][e.sib])
        /\ conns[c].bytes = carriers[e.req][e.sib][e.gen]
    BY ExchangeFacts DEF ExchangeOK
  <2>2. CarrierOK(carriers[e.req][e.sib][e.gen], e.req, e.sib, e.gen)
    BY <2>1 DEF LaneInv, CarrierInv
  <2> QED BY <2>1, <2>2 DEF CarrierOK
<1> QED BY <1>1 DEF EnvelopesAreBytes

\* The lane at every instant, for any number of threads, siblings, requests,
\* renewals and crashes: stored responses, effects and receipts are one, an
\* envelope id is one byte string (peer_transport.py, we_messaging.py).
THEOREM LaneStaysInAgreement == Spec => []LaneAgrees
<1>1. Init => LaneInv BY LaneStarts
<1>2. LaneInv /\ [Next]_vars => LaneInv' BY LaneSteps
<1>3. LaneInv => LaneAgrees BY LaneMeans
<1> QED BY <1>1, <1>2, <1>3, PTL DEF Spec

\* Every step of the lane hears a message, learns of it or does neither.
LEMMA LaneHears == LaneInv /\ [Next]_vars => [Promise!Next]_(Promise!vars)
<1> SUFFICES ASSUME LaneInv, [Next]_vars PROVE Promise!Next \/ UNCHANGED <<receipts, kept>>
  BY DEF Promise!vars
<1>1. ASSUME NEW t \in plan.threads, Receive(t) PROVE Promise!Next
  <2> DEFINE r == thread[t].req
             s == thread[t].to
  <2>1. /\ r \in Requests /\ s \in Siblings /\ receipts[r][s] # None
        /\ kept' = [kept EXCEPT ![r][s] = receipts[r][s]]
    BY <1>1, ReceiveLearns
  <2>2. UNCHANGED receipts BY <1>1 DEF Receive, sibling
  <2>3. Promise!Learn(r, s) BY <2>1, <2>2 DEF Promise!Learn
  <2> QED BY <2>1, <2>3 DEF Promise!Next
<1>2. ASSUME NEW c \in DOMAIN conns, AuthorReceipt(c)
      PROVE  Promise!Next \/ UNCHANGED <<receipts, kept>>
  <2> DEFINE e == conns[c].bytes.env
  <2>1. UNCHANGED kept BY <1>2 DEF AuthorReceipt, author
  <2>2. CASE receipts' = receipts BY <2>1, <2>2
  <2>3. CASE /\ receipts[e.req][e.sib] = None
             /\ receipts' = [receipts EXCEPT ![e.req][e.sib] = now]
    <3>1. e.req \in Requests /\ e.sib \in Siblings BY ExchangeFacts
    <3>2. now \in 0..MaxTime BY LaneFacts DEF Instants
    <3>3. Promise!Hear(e.req, e.sib, now) BY <2>1, <2>3 DEF Promise!Hear
    <3> QED BY <3>1, <3>2, <3>3 DEF Promise!Next
  <2> QED BY <1>2, <2>2, <2>3, ReceiptIsHeard
<1>3. CASE Tick BY <1>3 DEF Tick, author, sibling
<1>4. CASE CrashAuthor \/ \E s \in plan.siblings : CrashSibling(s)
  BY <1>4 DEF CrashAuthor, CrashSibling, author, sibling
<1>5. ASSUME NEW t \in plan.threads, NEW r \in Requests, NEW x \in plan.texts, Converse(t, r, x)
      PROVE  UNCHANGED <<receipts, kept>>
  BY <1>5 DEF Converse, author, sibling
<1>6. ASSUME NEW t \in plan.threads, Step(t) \/ SendRefused(t) \/ GiveUp(t)
      PROVE  UNCHANGED <<receipts, kept>>
  BY <1>6 DEF Step, AuthorMessage, AuthorResolution, BeginSeal, FinishSeal, OpenSaved, Carry,
              Send, SendRefused, GiveUp, author, sibling
<1>7. ASSUME NEW c \in DOMAIN conns, Work(c) \/ Release(c), ~AuthorReceipt(c)
      PROVE  UNCHANGED <<receipts, kept>>
  BY <1>7 DEF Work, Begin, Replay, Turned, LogicalResponse, Retain, Finish, FinishDenied, Abort,
              Release, author, sibling
<1>8. CASE UNCHANGED vars BY <1>8 DEF vars, author, sibling
<1> QED BY <1>1, <1>2, <1>3, <1>4, <1>5, <1>6, <1>7, <1>8 DEF Next, Work

\* A stored response is nobody's to replace.
LEMMA LaneIsFinal ==
    ASSUME LaneInv, [Next]_vars, NEW x \in DOMAIN exchanges, exchanges[x].state = "responded"
    PROVE  x \in DOMAIN exchanges' /\ exchanges'[x] = exchanges[x]
<1>1. ASSUME NEW c \in DOMAIN conns, Begin(c)
      PROVE  x \in DOMAIN exchanges' /\ exchanges'[x] = exchanges[x]
  BY <1>1 DEF Begin, Row, Put
<1>2. ASSUME NEW c \in DOMAIN conns, Finish(c)
      PROVE  x \in DOMAIN exchanges' /\ exchanges'[x] = exchanges[x]
  BY <1>2 DEF Finish, Owns, Row, Put
<1>3. ASSUME NEW c \in DOMAIN conns, Abort(c)
      PROVE  x \in DOMAIN exchanges' /\ exchanges'[x] = exchanges[x]
  BY <1>3 DEF Abort, Aborts, Row
<1>4. CASE Tick \/ CrashAuthor \/ \E s \in plan.siblings : CrashSibling(s)
  BY <1>4 DEF Tick, CrashAuthor, CrashSibling, sibling
<1>5. ASSUME NEW t \in plan.threads, NEW r \in Requests, NEW y \in plan.texts, Converse(t, r, y)
      PROVE  UNCHANGED exchanges
  BY <1>5 DEF Converse, sibling
<1>6. ASSUME NEW t \in plan.threads, Step(t) \/ SendRefused(t) \/ GiveUp(t) \/ Receive(t)
      PROVE  UNCHANGED exchanges
  BY <1>6 DEF Step, AuthorMessage, AuthorResolution, BeginSeal, FinishSeal, OpenSaved, Carry,
              Send, SendRefused, GiveUp, Receive, sibling
<1>7. ASSUME NEW c \in DOMAIN conns,
             \/ Replay(c) \/ Turned(c) \/ LogicalResponse(c) \/ Retain(c) \/ AuthorReceipt(c)
             \/ FinishDenied(c) \/ Release(c)
      PROVE  UNCHANGED exchanges
  BY <1>7 DEF Replay, Turned, LogicalResponse, Retain, AuthorReceipt, FinishDenied, Release, sibling
<1>8. CASE UNCHANGED vars BY <1>8 DEF vars, sibling
<1> QED BY <1>1, <1>2, <1>3, <1>4, <1>5, <1>6, <1>7, <1>8 DEF Next, Work

\* The lane implements HeardOnce, and what was answered stays answered: no
\* renewal, retry, lease that is taken over or crash makes a sibling hear a
\* message twice (PeerExchangeStore, intake of we_messaging.py).
THEOREM LaneHearsOnceForGood == Spec => HeardOnceForGood
<1>1. Init => LaneInv BY LaneStarts
<1>2. LaneInv /\ [Next]_vars => LaneInv' BY LaneSteps
<1>3. Init => Promise!Init BY DEF Init, Promise!Init
<1>4. LaneInv /\ [Next]_vars => [Promise!Next]_(Promise!vars) BY LaneHears
<1>5. LaneInv /\ [Next]_vars => [KeepsResponses]_vars BY LaneIsFinal DEF KeepsResponses
<1>6. Spec => HearsOnce BY <1>1, <1>2, <1>3, <1>4, PTL DEF Spec, HearsOnce, Promise!Spec
<1>7. Spec => ResponsesAreFinal BY <1>1, <1>2, <1>5, PTL DEF Spec, ResponsesAreFinal
<1> QED BY <1>6, <1>7 DEF HeardOnceForGood
=============================================================================
