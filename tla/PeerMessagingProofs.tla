------------------------- MODULE PeerMessagingProofs -------------------------
(***************************************************************************)
(* Proofs about PeerMessaging: sends hold and outcomes stay, for any sends,*)
(* threads, lifetimes and histories of the relationship.                   *)
(*                                                                         *)
(* PeerInv is inductive: the carriers of a send are numbered and follow    *)
(* each other in time, an outcome of a stage is an answer of the recipient *)
(* and is recorded only while its carrier lives, hence before it has a     *)
(* successor, and the place of a call says which of this it rests on.      *)
(***************************************************************************)
EXTENDS PeerMessaging, FiniteSetTheorems, TLAPS

\* What a sealed carrier holds: the message of the first if that was sealed.
Message(cs, c) == IF cs[<<c[1], 1>>].message = None THEN c ELSE <<c[1], 1>>

Rows ==
    [policy: 1..Versions, issued: 0..MaxTime, expires: Nat, message: Carriers \cup {None}]

\* The outbox at instant n: generations without a gap, each issued when its
\* predecessor was over, all sealed ones with one message.
OutboxOK(cs, n) ==
    /\ DOMAIN cs \subseteq Carriers /\ cs \in [DOMAIN cs -> Rows]
    /\ \A c \in DOMAIN cs :
          /\ cs[c].expires = cs[c].issued + Ttl
          /\ cs[c].issued <= n /\ c[2] <= cs[c].issued + 1
          /\ \A g \in 1..c[2] : <<c[1], g>> \in DOMAIN cs
          /\ cs[c].message \in {None, Message(cs, c)}
    /\ \A c, d \in DOMAIN cs :
          c[1] = d[1] /\ c[2] < d[2] => cs[c].expires <= cs[d].issued

Kinds == Open \cup Outcomes
Places == {"idle", "prepare", "stages", "phase", "write", "wait", "record"}
Calls ==
    [pc: Places, send: Sends \cup {None}, carrier: Carriers \cup {None}, phase: Phases,
     transmit: BOOLEAN, seen: [Phases -> Kinds] \cup {None}, result: Outcomes \cup {None}]

\* What the outbox has sealed, and None.
Messages == {carriers[c].message : c \in DOMAIN carriers}

\* The shapes of the tables.
Shapes ==
    /\ now \in 0..MaxTime /\ view \in [{"sender", "recipient"} -> 1..Versions]
    /\ authored \subseteq DOMAIN carriers /\ observed \in (0..MaxTime) \cup {None}
    /\ \A c \in DOMAIN carriers : carriers[c].message \in authored \cup {None}
    /\ call \in [Threads -> Calls]
    /\ inbox \in Seq(Carriers) /\ Range(inbox) \subseteq Messages \ {None} /\ settled \in BOOLEAN
    /\ calls \in 0..MaxCalls /\ faults \in 0..MaxFaults

\* Stages are of sealed carriers, an outcome is the recipient's answer, and a
\* carrier that has a successor did not complete.
StagesOK ==
    /\ DOMAIN stages \subseteq {c \in DOMAIN carriers : carriers[c].message # None}
    /\ stages \in [DOMAIN stages -> [Phases -> Kinds]]
    /\ \A c \in DOMAIN stages : \A p \in Phases :
          stages[c][p] \in Outcomes =>
              <<c, p>> \in DOMAIN answers /\ answers[<<c, p>>] = stages[c][p]
    /\ \A c, d \in DOMAIN carriers : c[1] = d[1] /\ c[2] < d[2] => ~Recorded(c)

\* What the call of a thread rests on.
CallOK(h) ==
    /\ h.pc # "idle" => h.send \in Sends
    /\ h.pc \notin {"idle", "prepare"} =>
          /\ h.carrier \in DOMAIN carriers /\ h.carrier[1] = h.send
          /\ carriers[h.carrier].message # None
    /\ h.pc \in {"prepare", "stages"} => h.phase = "evidence"
    /\ h.pc \in {"phase", "write", "wait", "record"} =>
          /\ h.carrier \in DOMAIN stages
          /\ h.phase = "message" => stages[h.carrier]["evidence"] = "recipient-intake"
    /\ h.pc \in {"phase", "write", "wait", "record"} =>
          /\ h.seen \in [Phases -> Kinds]
          /\ \A p \in Phases : /\ h.seen[p] \in Outcomes => stages[h.carrier][p] = h.seen[p]
                               /\ ~h.transmit => h.seen[p] = "recipient-intake"
    /\ h.pc = "record" /\ h.result # None =>
          /\ <<h.carrier, h.phase>> \in DOMAIN answers
          /\ answers[<<h.carrier, h.phase>>] = h.result
CallsOK == \A t \in Threads : CallOK(call[t])

\* What was written has its stages, a message with the evidence taken in; what
\* was answered as taken in is there.
WireOK ==
    /\ sent \subseteq (DOMAIN stages) \X Phases
    /\ \A c \in DOMAIN carriers :
          <<c, "message">> \in sent => stages[c]["evidence"] = "recipient-intake"
    /\ DOMAIN answers \subseteq sent /\ answers \in [DOMAIN answers -> Outcomes]
    /\ \A c \in DOMAIN carriers :
          /\ <<c, "evidence">> \in DOMAIN answers /\ answers[<<c, "evidence">>] = "recipient-intake" =>
                \E e \in proofs : e.carrier = c
          /\ <<c, "message">> \in DOMAIN answers /\ answers[<<c, "message">>] = "recipient-intake" =>
                /\ carriers[c].message \in Range(inbox)
                /\ c[1] \in Replies => settled

PeerInv == Shapes /\ OutboxOK(carriers, now) /\ StagesOK /\ CallsOK /\ WireOK

-----------------------------------------------------------------------------
(***************************************************************************)
(* Generations.                                                            *)
(***************************************************************************)

\* Sets of finite sets have a smallest one.
LEMMA SmallestSet ==
    ASSUME NEW S, NEW T, T # {}, T \subseteq FiniteSubsetsOf(S)
    PROVE  \E x \in T : \A y \in T : y \subseteq x => y = x
<1>1. IsWellFoundedOn(StrictSubsetOrdering(S), FiniteSubsetsOf(S))
  BY FS_StrictSubsetOrderingWellFounded
<1>2. PICK x \in T : \A y \in T : ~ (<<y, x>> \in StrictSubsetOrdering(S))
  BY <1>1, WFMin
<1>3. ASSUME NEW y \in T, y \subseteq x, y # x PROVE FALSE
  <2>1. <<y, x>> \in (SUBSET S) \X (SUBSET S) BY DEF FiniteSubsetsOf
  <2> QED BY <1>2, <1>3, <2>1 DEF StrictSubsetOrdering
<1> QED BY <1>3

\* A set of numbers up to n has a greatest one: the fewest numbers are above it.
LEMMA GreatestNat ==
    ASSUME NEW n \in Nat, NEW S \in SUBSET (1..n), S # {}
    PROVE  Max(S) \in S /\ \A m \in S : m <= Max(S)
<1> DEFINE T == {m..n : m \in S}
<1>1. T \subseteq FiniteSubsetsOf(Int)
  <2> SUFFICES ASSUME NEW m \in S PROVE m..n \in FiniteSubsetsOf(Int) OBVIOUS
  <2> QED BY FS_Interval DEF FiniteSubsetsOf
<1>2. T # {} OBVIOUS
<1>3. PICK x \in T : \A y \in T : y \subseteq x => y = x
  <2> HIDE DEF T
  <2> QED BY <1>1, <1>2, SmallestSet
<1>4. PICK k \in S : x = k..n OBVIOUS
<1>5. ASSUME NEW m \in S PROVE k >= m
  <2>1. m..n \in T /\ k \in 1..n /\ m \in 1..n OBVIOUS
  <2>2. SUFFICES ASSUME k < m PROVE FALSE BY <2>1
  <2>3. m..n \subseteq k..n BY <2>1, <2>2
  <2>4. m..n = k..n BY <1>3, <1>4, <2>1, <2>3
  <2>5. k \in m..n BY <2>1, <2>4
  <2> QED BY <2>1, <2>2, <2>5
<1> DEFINE g == Max(S)
<1>6. g \in S /\ \A m \in S : g >= m BY <1>5 DEF Max
<1> HIDE DEF g
<1>7. \A m \in S : m \in Nat BY SMT
<1>8. \A m \in S : m <= g BY <1>6, <1>7
<1> QED BY <1>6, <1>8 DEF g

LEMMA CarrierFacts ==
    ASSUME NEW c \in Carriers
    PROVE  c = <<c[1], c[2]>> /\ c[1] \in Sends /\ c[2] \in 1..(MaxTime + 1) /\ c # None
           /\ c[2] \in Nat
BY PeerAssumption DEF Carriers

\* The latest carrier of a reserved send is in the outbox, and none is later.
LEMMA LatestIsLast ==
    ASSUME NEW cs, NEW s \in Sends, DOMAIN cs \subseteq Carriers, <<s, 1>> \in DOMAIN cs
    PROVE  /\ Latest(cs, s) \in DOMAIN cs /\ Latest(cs, s)[1] = s
           /\ Latest(cs, s)[2] \in Nat \ {0}
           /\ \A d \in DOMAIN cs : d[1] = s => d[2] <= Latest(cs, s)[2]
<1> DEFINE G == Generations(cs, s)
<1>1. \A g \in G : g \in 1..(MaxTime + 1) /\ <<s, g>> \in DOMAIN cs
  BY CarrierFacts DEF Generations
<1>2. 1 \in G BY DEF Generations
<1>3. \A d \in DOMAIN cs : d[1] = s => d[2] \in G BY DEF Generations
<1> HIDE DEF G
<1>4. MaxTime + 1 \in Nat BY PeerAssumption
<1>5. Max(G) \in G /\ \A m \in G : m <= Max(G) BY <1>1, <1>2, <1>4, GreatestNat
<1>6. Latest(cs, s) = <<s, Max(G)>> BY DEF Latest, G
<1> QED BY <1>1, <1>3, <1>5, <1>6

-----------------------------------------------------------------------------
(***************************************************************************)
(* prepare.                                                                *)
(***************************************************************************)

LEMMA PlanIsRow ==
    ASSUME now \in 0..MaxTime, NEW p \in 1..Versions
    PROVE  /\ Plan(p) \in Rows /\ Plan(p).message = None /\ Plan(p).issued = now
           /\ Plan(p).expires = now + Ttl
BY PeerAssumption DEF Plan, Rows

\* A new first carrier, when the send has none.
LEMMA ReservedOK ==
    ASSUME OutboxOK(carriers, now), now \in 0..MaxTime, view["sender"] \in 1..Versions,
           NEW s \in Sends
    PROVE  /\ OutboxOK(Reserved(s), now) /\ <<s, 1>> \in DOMAIN Reserved(s)
           /\ \A c \in DOMAIN carriers : c \in DOMAIN Reserved(s) /\ Reserved(s)[c] = carriers[c]
           /\ \A d \in DOMAIN Reserved(s) : d \notin DOMAIN carriers =>
                 /\ Reserved(s)[d].message = None
                 /\ d[2] = 1
<1>1. CASE <<s, 1>> \in DOMAIN carriers BY <1>1 DEF Reserved
<1>2. CASE <<s, 1>> \notin DOMAIN carriers
  <2> DEFINE k == <<s, 1>>
             v == Plan(view["sender"])
             r == Reserved(s)
  <2>1. r = Put(carriers, k, v) BY <1>2 DEF Reserved
  <2>2. v \in Rows /\ v.message = None /\ v.issued = now /\ v.expires = now + Ttl
    BY PlanIsRow
  <2>3. k \in Carriers /\ k[1] = s /\ k[2] = 1 BY PeerAssumption DEF Carriers
  <2>4. DOMAIN r = DOMAIN carriers \cup {k} BY <2>1 DEF Put
  <2>5. r[k] = v /\ \A c \in DOMAIN carriers : r[c] = carriers[c] BY <1>2, <2>1 DEF Put
  <2>6. \A c \in DOMAIN carriers : c[1] # s
    <3> SUFFICES ASSUME NEW c \in DOMAIN carriers, c[1] = s PROVE FALSE OBVIOUS
    <3>1. c \in Carriers /\ \A g \in 1..c[2] : <<c[1], g>> \in DOMAIN carriers BY DEF OutboxOK
    <3>2. c[2] \in 1..(MaxTime + 1) /\ 1 \in 1..c[2] BY <3>1, CarrierFacts
    <3> QED BY <1>2, <3>1, <3>2
  <2>7. r = [c \in DOMAIN r |-> r[c]] BY <2>1 DEF Put
  <2> HIDE DEF r, v
  <2>8. DOMAIN r \subseteq Carriers /\ r \in [DOMAIN r -> Rows]
    <3>1. \A c \in DOMAIN r : r[c] \in Rows BY <2>2, <2>4, <2>5 DEF OutboxOK
    <3> QED BY <2>3, <2>4, <2>7, <3>1 DEF OutboxOK
  <2>9. ASSUME NEW c \in DOMAIN r
        PROVE  /\ r[c].expires = r[c].issued + Ttl
               /\ r[c].issued <= now /\ c[2] <= r[c].issued + 1
               /\ \A g \in 1..c[2] : <<c[1], g>> \in DOMAIN r
               /\ r[c].message \in {None, Message(r, c)}
    <3>1. CASE c = k BY <2>2, <2>3, <2>4, <2>5, <3>1
    <3>2. CASE c \in DOMAIN carriers
      <4>1. <<c[1], 1>> \in DOMAIN carriers
        <5>1. c[2] \in 1..(MaxTime + 1) /\ 1 \in 1..c[2] BY <3>2, CarrierFacts DEF OutboxOK
        <5> QED BY <3>2, <5>1 DEF OutboxOK
      <4>2. Message(r, c) = Message(carriers, c) BY <2>5, <4>1 DEF Message
      <4> QED BY <2>4, <2>5, <3>2, <4>2 DEF OutboxOK
    <3> QED BY <2>4, <3>1, <3>2
  <2>10. ASSUME NEW c \in DOMAIN r, NEW d \in DOMAIN r, c[1] = d[1], c[2] < d[2]
         PROVE  r[c].expires <= r[d].issued
    BY <2>3, <2>4, <2>5, <2>6, <2>10 DEF OutboxOK
  <2>11. OutboxOK(r, now) BY <2>8, <2>9, <2>10 DEF OutboxOK
  <2> QED BY <2>2, <2>3, <2>4, <2>5, <2>11 DEF r
<1> QED BY <1>1, <1>2

\* A successor of the latest carrier, when that is over and did not complete.
LEMMA RenewedOK ==
    ASSUME NEW cs, OutboxOK(cs, now), now \in 0..MaxTime, NEW s \in Sends,
           <<s, 1>> \in DOMAIN cs
    PROVE  LET r == Renewed(cs, s) IN
           /\ OutboxOK(r, now)
           /\ \A c \in DOMAIN cs : c \in DOMAIN r /\ r[c] = cs[c]
           /\ \A d \in DOMAIN r : d \notin DOMAIN cs =>
                 /\ r[d].message = None /\ d[1] = s
                 /\ ~Recorded(Latest(cs, s)) /\ d[2] = Latest(cs, s)[2] + 1
<1> DEFINE c0 == Latest(cs, s)
           r == Renewed(cs, s)
<1>1. /\ c0 \in DOMAIN cs /\ c0[1] = s /\ c0[2] \in Nat \ {0}
      /\ \A d \in DOMAIN cs : d[1] = s => d[2] <= c0[2]
  BY LatestIsLast DEF OutboxOK
<1> HIDE DEF c0
<1>2. CASE Recorded(c0) \/ now < cs[c0].expires
  <2>1. r = cs BY <1>2 DEF Renewed, c0
  <2> QED BY <2>1
<1>3. CASE ~Recorded(c0) /\ ~(now < cs[c0].expires)
  <2> DEFINE k == <<s, c0[2] + 1>>
             v == Plan(cs[<<s, 1>>].policy)
  <2>1. r = Put(cs, k, v) BY <1>3 DEF Renewed, c0
  <2>2. v \in Rows /\ v.message = None /\ v.issued = now /\ v.expires = now + Ttl
    BY PlanIsRow DEF OutboxOK, Rows
  <2>3. /\ cs[c0] \in Rows /\ cs[c0].expires = cs[c0].issued + Ttl
        /\ c0[2] <= cs[c0].issued + 1 /\ cs[c0].expires <= now
    BY <1>1, <1>3 DEF OutboxOK, Rows
  <2>4. c0[2] + 1 <= now + 1 BY <1>1, <2>3, PeerAssumption DEF Rows
  <2>5. k \in Carriers /\ k[1] = s /\ k[2] = c0[2] + 1 BY <1>1, <2>4, PeerAssumption DEF Carriers
  <2>6. k \notin DOMAIN cs BY <1>1, <2>5
  <2>7. DOMAIN r = DOMAIN cs \cup {k} BY <2>1 DEF Put
  <2>8. r[k] = v /\ \A c \in DOMAIN cs : r[c] = cs[c] BY <2>1, <2>6 DEF Put
  <2>9. r = [c \in DOMAIN r |-> r[c]] BY <2>1 DEF Put
  <2> HIDE DEF r, v
  <2>10. DOMAIN r \subseteq Carriers /\ r \in [DOMAIN r -> Rows]
    <3>1. \A c \in DOMAIN r : r[c] \in Rows BY <2>2, <2>7, <2>8 DEF OutboxOK
    <3> QED BY <2>5, <2>7, <2>9, <3>1 DEF OutboxOK
  <2>11. \A c \in DOMAIN cs : <<c[1], 1>> \in DOMAIN cs
    <3> SUFFICES ASSUME NEW c \in DOMAIN cs PROVE <<c[1], 1>> \in DOMAIN cs OBVIOUS
    <3>1. c[2] \in 1..(MaxTime + 1) /\ 1 \in 1..c[2] BY CarrierFacts DEF OutboxOK
    <3> QED BY <3>1 DEF OutboxOK
  <2>12. ASSUME NEW c \in DOMAIN r
        PROVE  /\ r[c].expires = r[c].issued + Ttl
               /\ r[c].issued <= now /\ c[2] <= r[c].issued + 1
               /\ \A g \in 1..c[2] : <<c[1], g>> \in DOMAIN r
               /\ r[c].message \in {None, Message(r, c)}
    <3>1. CASE c = k
      <4>1. ASSUME NEW g \in 1..c[2] PROVE <<c[1], g>> \in DOMAIN r
        <5>1. CASE g = c0[2] + 1 BY <2>5, <2>7, <3>1, <5>1
        <5>2. CASE g # c0[2] + 1
          <6>1. g \in 1..c0[2] BY <1>1, <2>5, <3>1, <5>2
          <6>2. <<c0[1], g>> \in DOMAIN cs BY <1>1, <6>1 DEF OutboxOK
          <6> QED BY <1>1, <2>5, <2>7, <3>1, <6>2
        <5> QED BY <5>1, <5>2
      <4> QED BY <2>2, <2>4, <2>5, <2>8, <3>1, <4>1
    <3>2. CASE c \in DOMAIN cs
      <4>2. Message(r, c) = Message(cs, c) BY <2>8, <2>11, <3>2 DEF Message
      <4> QED BY <2>7, <2>8, <3>2, <4>2 DEF OutboxOK
    <3> QED BY <2>7, <3>1, <3>2
  <2>13. ASSUME NEW c \in DOMAIN r, NEW d \in DOMAIN r, c[1] = d[1], c[2] < d[2]
         PROVE  r[c].expires <= r[d].issued
    <3>1. CASE c \in DOMAIN cs /\ d \in DOMAIN cs BY <2>8, <2>13, <3>1 DEF OutboxOK
    <3>2. CASE c = k
      <4>1. d \in DOMAIN cs BY <2>7, <2>13, <2>5, <3>2, <1>1
      <4>2. d[2] <= c0[2] BY <1>1, <2>13, <2>5, <3>2, <4>1
      <4>3. d[2] \in Nat BY <4>1, CarrierFacts DEF OutboxOK
      <4> QED BY <1>1, <2>13, <2>5, <3>2, <4>2, <4>3
    <3>3. CASE c \in DOMAIN cs /\ d = k
      <4>1. c[2] <= c0[2] /\ c[2] \in Nat BY <1>1, <2>13, <2>5, <3>3, CarrierFacts DEF OutboxOK
      <4>2. cs[c].expires \in Nat /\ cs[c0].issued \in Nat /\ Ttl \in Nat /\ cs[c0].expires \in Nat
        BY <1>1, <3>3, PeerAssumption DEF OutboxOK, Rows
      <4>3. CASE c[2] = c0[2]
        <5>1. c = c0 BY <1>1, <2>13, <2>5, <3>3, <4>3, CarrierFacts DEF OutboxOK
        <5> QED BY <2>2, <2>3, <2>8, <3>3, <5>1
      <4>4. CASE c[2] < c0[2]
        <5>1. cs[c].expires <= cs[c0].issued BY <1>1, <2>13, <2>5, <3>3, <4>4 DEF OutboxOK
        <5> QED BY <2>2, <2>3, <2>8, <3>3, <4>2, <5>1
      <4> QED BY <1>1, <4>1, <4>3, <4>4
    <3> QED BY <2>7, <3>1, <3>2, <3>3
  <2>14. OutboxOK(r, now) BY <2>10, <2>12, <2>13 DEF OutboxOK
  <2> QED BY <1>3, <2>2, <2>5, <2>7, <2>8, <2>14 DEF c0, r
<1> QED BY <1>2, <1>3 DEF r

\* The latest carrier is sealed with the message of the first, if that was.
LEMMA SealedOK ==
    ASSUME NEW cs, NEW n, OutboxOK(cs, n), NEW s \in Sends, <<s, 1>> \in DOMAIN cs,
           cs[Latest(cs, s)].message = None
    PROVE  LET c == Latest(cs, s)
               m == MessageOf(cs, c)
           IN  /\ OutboxOK([cs EXCEPT ![c].message = m], n)
               /\ m \in {c, <<s, 1>>} /\ m \in DOMAIN cs /\ m # None
<1> DEFINE c == Latest(cs, s)
           m == MessageOf(cs, c)
           r == [cs EXCEPT ![c].message = m]
<1>1. /\ c \in DOMAIN cs /\ c[1] = s /\ c[2] \in Nat \ {0}
      /\ \A d \in DOMAIN cs : d[1] = s => d[2] <= c[2]
  BY LatestIsLast DEF OutboxOK
<1>2. c \in Carriers /\ c = <<s, c[2]>> /\ <<s, 1>> \in Carriers BY <1>1, CarrierFacts DEF OutboxOK
<1>3. c[2] = 1 => c = <<s, 1>> BY <1>2
<1>4. m = IF cs[<<s, 1>>].message # None THEN <<s, 1>> ELSE c
  <2>1. cs[<<s, 1>>].message \in {None, Message(cs, <<s, 1>>)} BY DEF OutboxOK
  <2>2. Message(cs, <<s, 1>>) = <<s, 1>> BY DEF Message
  <2>3. cs[c].message = None OBVIOUS
  <2> HIDE DEF c
  <2>4. c[2] > 1 \/ c = <<s, 1>> BY <1>1, <1>3
  <2> QED BY <1>1, <1>2, <2>1, <2>2, <2>3, <2>4 DEF MessageOf
<1>5. m \in {c, <<s, 1>>} /\ m \in DOMAIN cs /\ m \in Carriers BY <1>1, <1>2, <1>4
<1>6. m # None BY <1>5, CarrierFacts
<1>7. \A d \in DOMAIN cs : <<d[1], 1>> \in DOMAIN cs
    <3> SUFFICES ASSUME NEW d \in DOMAIN cs PROVE <<d[1], 1>> \in DOMAIN cs OBVIOUS
    <3>1. d[2] \in 1..(MaxTime + 1) /\ 1 \in 1..d[2] BY CarrierFacts DEF OutboxOK
    <3> QED BY <3>1 DEF OutboxOK
<1>8. cs[c].message = None OBVIOUS
<1> HIDE DEF c, m
<1>9. cs \in [DOMAIN cs -> Rows] BY DEF OutboxOK
<1>10. DOMAIN r = DOMAIN cs BY <1>1, <1>9
<1>11. r[c] = [cs[c] EXCEPT !.message = m] /\ \A d \in DOMAIN cs : d # c => r[d] = cs[d]
  BY <1>1, <1>9
<1>12. cs[c] \in Rows BY <1>1, <1>9
<1>13. r[c] \in Rows BY <1>5, <1>11, <1>12 DEF Rows
<1>14. r \in [DOMAIN r -> Rows] BY <1>1, <1>9, <1>12, <1>13
<1>15. \A d \in DOMAIN cs : /\ r[d].policy = cs[d].policy /\ r[d].issued = cs[d].issued
                            /\ r[d].expires = cs[d].expires
                            /\ r[d].message = IF d = c THEN m ELSE cs[d].message
  BY <1>1, <1>9, <1>11, <1>12 DEF Rows
<1> HIDE DEF r
<1>16. ASSUME NEW d \in DOMAIN cs PROVE r[d].message \in {None, Message(r, d)}
  <2>0. cs[d].message \in {None, Message(cs, d)} BY DEF OutboxOK
  <2>1. CASE d[1] = s
    <3>1. CASE d = c
      <4>1. r[d].message = m BY <1>1, <1>15, <3>1
      <4>2. CASE c = <<s, 1>>
        <5>1. r[<<d[1], 1>>].message = m BY <1>1, <1>15, <2>1, <4>2
        <5>2. Message(r, d) = <<s, 1>> BY <1>6, <2>1, <5>1 DEF Message
        <5> QED BY <1>5, <4>1, <4>2, <5>2
      <4>3. CASE c # <<s, 1>>
        <5>1. r[<<d[1], 1>>].message = cs[<<s, 1>>].message BY <1>15, <2>1, <4>3
        <5> QED BY <1>4, <2>1, <3>1, <4>1, <5>1 DEF Message
      <4> QED BY <4>2, <4>3
    <3>2. CASE d # c
      <4>1. c # <<s, 1>>
        <5>1. SUFFICES ASSUME c = <<s, 1>> PROVE FALSE OBVIOUS
        <5>2. d[2] <= 1 BY <1>1, <2>1, <5>1
        <5>3. d \in Carriers BY DEF OutboxOK
        <5>4. d[2] = 1 BY <5>2, <5>3, CarrierFacts
        <5> QED BY <2>1, <3>2, <5>1, <5>3, <5>4, CarrierFacts
      <4>2. r[<<d[1], 1>>].message = cs[<<d[1], 1>>].message BY <1>7, <1>15, <2>1, <4>1
      <4> QED BY <1>15, <2>0, <3>2, <4>2 DEF Message
    <3> QED BY <3>1, <3>2
  <2>2. CASE d[1] # s
    <3>1. d # c /\ <<d[1], 1>> # c BY <1>1, <2>2
    <3>2. r[<<d[1], 1>>].message = cs[<<d[1], 1>>].message BY <1>7, <1>15, <3>1
    <3> QED BY <1>15, <2>0, <3>1, <3>2 DEF Message
  <2> QED BY <2>1, <2>2
<1>17. ASSUME NEW d \in DOMAIN cs
       PROVE  /\ r[d].expires = r[d].issued + Ttl
              /\ r[d].issued <= n /\ d[2] <= r[d].issued + 1
              /\ \A g \in 1..d[2] : <<d[1], g>> \in DOMAIN r
              /\ r[d].message \in {None, Message(r, d)}
  BY <1>10, <1>15, <1>16 DEF OutboxOK
<1>18. \A d, e \in DOMAIN r : d[1] = e[1] /\ d[2] < e[2] => r[d].expires <= r[e].issued
  BY <1>10, <1>15 DEF OutboxOK
<1>19. DOMAIN r \subseteq Carriers BY <1>10 DEF OutboxOK
<1>20. OutboxOK(r, n) BY <1>10, <1>14, <1>17, <1>18, <1>19 DEF OutboxOK
<1> QED BY <1>5, <1>6, <1>20 DEF r, c, m

\* Rows of the outbox stay, and what is sealed stays sealed.
RowsKept ==
    \A c \in DOMAIN carriers :
        /\ c \in DOMAIN carriers'
        /\ carriers'[c].issued = carriers[c].issued
        /\ carriers'[c].expires = carriers[c].expires
        /\ carriers[c].message # None => carriers'[c].message = carriers[c].message

\* What prepare does, as far as it gets.
LEMMA PreparesGives ==
    ASSUME PeerInv, NEW s \in Sends, NEW stop \in {"reserved", "authored", "sealed"},
           Prepares(s, stop), UNCHANGED now
    PROVE  /\ OutboxOK(carriers', now') /\ RowsKept
           /\ authored' \subseteq DOMAIN carriers' /\ observed' \in (0..MaxTime) \cup {None}
           /\ \A c \in DOMAIN carriers' : carriers'[c].message \in authored' \cup {None}
           /\ \A c, d \in DOMAIN carriers' : c[1] = d[1] /\ c[2] < d[2] => ~Recorded(c)
           /\ stop = "sealed" =>
                 LET c == Latest(Renewed(Reserved(s), s), s) IN
                 c \in DOMAIN carriers' /\ c[1] = s /\ carriers'[c].message # None
<1> DEFINE rs == Reserved(s)
           cs == Renewed(rs, s)
           c0 == Latest(cs, s)
           m == MessageOf(cs, c0)
           sl == [cs EXCEPT ![c0].message = m]
<1>1. /\ OutboxOK(carriers, now) /\ now \in 0..MaxTime /\ view["sender"] \in 1..Versions
      /\ authored \subseteq DOMAIN carriers /\ observed \in (0..MaxTime) \cup {None}
      /\ \A c \in DOMAIN carriers : carriers[c].message \in authored \cup {None}
      /\ \A c, d \in DOMAIN carriers : c[1] = d[1] /\ c[2] < d[2] => ~Recorded(c)
      /\ DOMAIN stages \subseteq DOMAIN carriers
  BY DEF PeerInv, Shapes, StagesOK
<1>2. /\ OutboxOK(rs, now) /\ <<s, 1>> \in DOMAIN rs
      /\ \A c \in DOMAIN carriers : c \in DOMAIN rs /\ rs[c] = carriers[c]
      /\ \A d \in DOMAIN rs : d \notin DOMAIN carriers =>
                 rs[d].message = None /\ d[2] = 1
  BY <1>1, ReservedOK
<1> HIDE DEF rs
<1>3. /\ OutboxOK(cs, now)
      /\ \A c \in DOMAIN rs : c \in DOMAIN cs /\ cs[c] = rs[c]
      /\ \A d \in DOMAIN cs : d \notin DOMAIN rs =>
            /\ cs[d].message = None /\ d[1] = s
            /\ ~Recorded(Latest(rs, s)) /\ d[2] = Latest(rs, s)[2] + 1
  BY <1>1, <1>2, RenewedOK
<1> HIDE DEF cs
<1>4. <<s, 1>> \in DOMAIN cs /\ DOMAIN cs \subseteq Carriers /\ cs \in [DOMAIN cs -> Rows]
  BY <1>2, <1>3 DEF OutboxOK
<1>5. c0 \in DOMAIN cs /\ c0[1] = s BY <1>4, LatestIsLast
<1>6. cs[c0].message = None => /\ OutboxOK(sl, now)
                               /\ m \in {c0, <<s, 1>>} /\ m \in DOMAIN cs /\ m # None
  BY <1>3, <1>4, SealedOK
<1>7. /\ carriers' = IF cs[c0].message = None /\ stop = "sealed" THEN sl ELSE cs
      /\ authored' = IF cs[c0].message = None /\ stop # "reserved" THEN authored \cup {m} ELSE authored
      /\ observed' = IF cs[c0].message = None /\ stop # "reserved" /\ s \in Replies /\ m = c0 /\ observed = None
                   THEN cs[c0].issued ELSE observed
  BY DEF Prepares, rs, cs
<1> HIDE DEF c0, m
<1>8. DOMAIN carriers' = DOMAIN cs BY <1>7
<1>9. \A c \in DOMAIN cs : /\ sl[c].issued = cs[c].issued /\ sl[c].expires = cs[c].expires
                           /\ sl[c].message = IF c = c0 THEN m ELSE cs[c].message
  BY <1>4, <1>5 DEF Rows
<1> HIDE DEF sl
<1>10. OutboxOK(carriers', now') BY <1>3, <1>6, <1>7
<1>11. RowsKept BY <1>2, <1>3, <1>7, <1>8, <1>9 DEF RowsKept
<1>12. authored' \subseteq DOMAIN carriers' BY <1>1, <1>2, <1>3, <1>6, <1>7, <1>8
<1>13. cs[c0].issued \in 0..MaxTime BY <1>4, <1>5 DEF Rows
<1>14. observed' \in (0..MaxTime) \cup {None} BY <1>1, <1>7, <1>13
<1>15. \A c \in DOMAIN cs : cs[c].message \in authored \cup {None} BY <1>1, <1>2, <1>3
<1>16. \A c \in DOMAIN carriers' : carriers'[c].message \in authored' \cup {None}
  BY <1>7, <1>8, <1>9, <1>15
<1>17. ASSUME NEW c \in DOMAIN carriers', NEW d \in DOMAIN carriers', c[1] = d[1], c[2] < d[2],
              Recorded(c)
       PROVE  FALSE
  <2>1. c \in DOMAIN carriers /\ c \in DOMAIN rs BY <1>1, <1>2, <1>17 DEF Recorded
  <2>2. c \in Carriers /\ d \in Carriers /\ c[2] \in Nat \ {0} BY <1>4, <1>8, CarrierFacts
  <2>3. d \notin DOMAIN carriers BY <1>1, <1>17, <2>1
  <2>4. d \notin DOMAIN rs BY <1>2, <1>17, <2>2, <2>3, CarrierFacts
  <2>5. d[1] = s /\ ~Recorded(Latest(rs, s)) /\ d[2] = Latest(rs, s)[2] + 1 BY <1>3, <1>8, <2>4
  <2>6. /\ Latest(rs, s) \in DOMAIN rs /\ Latest(rs, s)[1] = s /\ Latest(rs, s)[2] \in Nat
        /\ c[2] <= Latest(rs, s)[2]
    BY <1>2, <1>17, <2>1, <2>5, LatestIsLast DEF OutboxOK
  <2>7. c # Latest(rs, s) BY <1>17, <2>5
  <2>8. c[2] < Latest(rs, s)[2]
    <3>1. c[2] # Latest(rs, s)[2]
      BY <1>2, <1>17, <2>2, <2>5, <2>6, <2>7, CarrierFacts DEF OutboxOK
    <3> QED BY <2>2, <2>6, <3>1
  <2>9. Latest(rs, s) \in DOMAIN carriers BY <1>2, <2>2, <2>6, <2>8
  <2> QED BY <1>1, <1>17, <2>1, <2>5, <2>6, <2>8, <2>9
<1>18. c0 \in DOMAIN carriers' /\ (stop = "sealed" => carriers'[c0].message # None)
  BY <1>5, <1>6, <1>7, <1>8, <1>9
<1> QED BY <1>5, <1>10, <1>11, <1>12, <1>14, <1>16, <1>17, <1>18 DEF c0, cs, rs

-----------------------------------------------------------------------------
(***************************************************************************)
(* What every step keeps.                                                  *)
(***************************************************************************)

StagesKept ==
    \A c \in DOMAIN stages :
        /\ c \in DOMAIN stages'
        /\ \A p \in Phases : stages[c][p] \in Outcomes => stages'[c][p] = stages[c][p]
AnswersKept == \A r \in DOMAIN answers : r \in DOMAIN answers' /\ answers'[r] = answers[r]

\* A call that does not move keeps what it rests on.
LEMMA CallStays ==
    ASSUME NEW t \in Threads, CallOK(call[t]), call[t] \in Calls, call'[t] = call[t],
           RowsKept, StagesKept, AnswersKept
    PROVE  CallOK(call[t])'
<1> DEFINE h == call[t]
<1>1. h.carrier \in DOMAIN carriers /\ carriers[h.carrier].message # None =>
          h.carrier \in DOMAIN carriers' /\ carriers'[h.carrier].message # None
  BY DEF RowsKept
<1>2. h.carrier \in DOMAIN stages => h.carrier \in DOMAIN stages' BY DEF StagesKept
<1>3. ASSUME NEW p \in Phases, h.carrier \in DOMAIN stages, stages[h.carrier][p] \in Outcomes
      PROVE  stages'[h.carrier][p] = stages[h.carrier][p]
  BY <1>3 DEF StagesKept
<1>4. <<h.carrier, h.phase>> \in DOMAIN answers =>
          /\ <<h.carrier, h.phase>> \in DOMAIN answers'
          /\ answers'[<<h.carrier, h.phase>>] = answers[<<h.carrier, h.phase>>]
  BY DEF AnswersKept
<1>5. "recipient-intake" \in Outcomes /\ "evidence" \in Phases BY DEF Outcomes, Phases
<1>6. h.carrier \in DOMAIN stages /\ stages[h.carrier]["evidence"] = "recipient-intake" =>
          stages'[h.carrier]["evidence"] = "recipient-intake"
  BY <1>3, <1>5
<1>7. ASSUME h.carrier \in DOMAIN stages, h.seen \in [Phases -> Kinds],
             \A p \in Phases : h.seen[p] \in Outcomes => stages[h.carrier][p] = h.seen[p]
      PROVE  \A p \in Phases : h.seen[p] \in Outcomes => stages'[h.carrier][p] = h.seen[p]
  BY <1>3, <1>7
<1> HIDE DEF h
<1>8. CallOK(h) BY DEF h
<1>9. /\ h.pc \notin {"idle", "prepare"} =>
          /\ h.carrier \in DOMAIN carriers' /\ h.carrier[1] = h.send
          /\ carriers'[h.carrier].message # None
      /\ h.pc \in {"phase", "write", "wait", "record"} =>
          /\ h.carrier \in DOMAIN stages'
          /\ h.phase = "message" => stages'[h.carrier]["evidence"] = "recipient-intake"
  BY <1>1, <1>2, <1>6, <1>8 DEF CallOK
<1>10. h.pc \in {"phase", "write", "wait", "record"} =>
          /\ h.seen \in [Phases -> Kinds]
          /\ \A p \in Phases : /\ h.seen[p] \in Outcomes => stages'[h.carrier][p] = h.seen[p]
                               /\ ~h.transmit => h.seen[p] = "recipient-intake"
  BY <1>7, <1>8 DEF CallOK
<1>11. h.pc = "record" /\ h.result # None =>
          /\ <<h.carrier, h.phase>> \in DOMAIN answers'
          /\ answers'[<<h.carrier, h.phase>>] = h.result
  BY <1>4, <1>8 DEF CallOK
<1> QED BY <1>8, <1>9, <1>10, <1>11 DEF CallOK, h

\* A step of one call that writes nothing but stages and the outbox.
LEMMA SenderMoves ==
    ASSUME PeerInv, UNCHANGED <<now, view, recipient>>,
           sent \subseteq sent', sent' \subseteq (DOMAIN stages') \X Phases,
           \A c \in DOMAIN stages' :
               <<c, "message">> \in sent' => stages'[c]["evidence"] = "recipient-intake",
           calls' \in 0..MaxCalls, faults' \in 0..MaxFaults,
           RowsKept, StagesKept, StagesOK', OutboxOK(carriers', now'),
           authored' \subseteq DOMAIN carriers', observed' \in (0..MaxTime) \cup {None},
           \A c \in DOMAIN carriers' : carriers'[c].message \in authored' \cup {None},
           NEW t \in Threads, NEW h \in Calls, call' = [call EXCEPT ![t] = h], CallOK(call[t])'
    PROVE  PeerInv'
<1>1. call \in [Threads -> Calls] /\ call'[t] = h BY DEF PeerInv, Shapes
<1>2. call' \in [Threads -> Calls] BY <1>1
<1>3. AnswersKept BY DEF AnswersKept, recipient
<1>4. CallsOK'
  <2> SUFFICES ASSUME NEW u \in Threads PROVE CallOK(call[u])' BY DEF CallsOK
  <2>1. CASE u = t BY <2>1
  <2>2. CASE u # t
    <3>1. call'[u] = call[u] BY <1>1, <2>2
    <3> QED BY <1>1, <1>3, <3>1, CallStays DEF PeerInv, CallsOK
  <2> QED BY <2>1, <2>2
<1>5. \A c \in DOMAIN answers : c[1] \in DOMAIN carriers /\ carriers[c[1]].message # None
  BY DEF PeerInv, WireOK, StagesOK
<1>6. Messages \ {None} \subseteq Messages'
  BY DEF Messages, RowsKept
<1>7. Shapes' BY <1>2, <1>6 DEF PeerInv, Shapes, recipient
<1>8. DOMAIN stages' \subseteq DOMAIN carriers' BY DEF StagesOK
<1>9. \A c \in DOMAIN carriers' :
          <<c, "message">> \in sent' => stages'[c]["evidence"] = "recipient-intake"
  OBVIOUS
<1>10. ASSUME NEW c \in DOMAIN carriers', NEW p \in Phases, <<c, p>> \in DOMAIN answers
       PROVE  c \in DOMAIN carriers /\ carriers'[c].message = carriers[c].message
  BY <1>5, <1>10 DEF RowsKept
<1>11. WireOK'
  <2> USE DEF WireOK, PeerInv, recipient
  <2>1. DOMAIN answers' \subseteq sent' OBVIOUS
  <2>2. ASSUME NEW c \in DOMAIN carriers'
        PROVE  /\ <<c, "evidence">> \in DOMAIN answers' /\ answers'[<<c, "evidence">>] = "recipient-intake" =>
                      \E e \in proofs' : e.carrier = c
               /\ <<c, "message">> \in DOMAIN answers' /\ answers'[<<c, "message">>] = "recipient-intake" =>
                      /\ carriers'[c].message \in Range(inbox')
                      /\ c[1] \in Replies => settled'
    BY <1>10 DEF Phases
  <2> QED BY <1>9, <2>1, <2>2
<1> QED BY <1>4, <1>7, <1>11 DEF PeerInv

\* A step that changes one call, and may write a request.
LEMMA CallMoves ==
    ASSUME PeerInv, UNCHANGED <<now, view, sender, recipient>>,
           sent \subseteq sent', sent' \subseteq (DOMAIN stages) \X Phases,
           \A c \in DOMAIN stages :
               <<c, "message">> \in sent' => stages[c]["evidence"] = "recipient-intake",
           calls' \in 0..MaxCalls, faults' \in 0..MaxFaults,
           NEW t \in Threads, NEW h \in Calls, call' = [call EXCEPT ![t] = h], CallOK(call[t])'
    PROVE  PeerInv'
<1> USE DEF sender, recipient
<1>1. RowsKept /\ StagesKept BY DEF RowsKept, StagesKept
<1>2. StagesOK' BY DEF PeerInv, StagesOK, Recorded
<1>3. OutboxOK(carriers', now') BY DEF PeerInv
<1>4. /\ authored' \subseteq DOMAIN carriers' /\ observed' \in (0..MaxTime) \cup {None}
      /\ \A c \in DOMAIN carriers' : carriers'[c].message \in authored' \cup {None}
  BY DEF PeerInv, Shapes
<1>5. sent' \subseteq (DOMAIN stages') \X Phases
      /\ \A c \in DOMAIN stages' :
               <<c, "message">> \in sent' => stages'[c]["evidence"] = "recipient-intake"
  OBVIOUS
<1>6. UNCHANGED <<now, view, recipient>> OBVIOUS
<1> QED BY <1>1, <1>2, <1>3, <1>4, <1>5, <1>6, SenderMoves

LEMMA SentFacts ==
    ASSUME PeerInv
    PROVE  /\ sent \subseteq (DOMAIN stages) \X Phases
           /\ \A c \in DOMAIN stages :
                 <<c, "message">> \in sent => stages[c]["evidence"] = "recipient-intake"
           /\ calls \in 0..MaxCalls /\ faults \in 0..MaxFaults /\ call \in [Threads -> Calls]
BY DEF PeerInv, WireOK, StagesOK, Shapes

LEMMA IdleIsCall == Idle \in Calls
BY DEF Idle, Calls, Places, Phases

LEMMA FaultCounts == ASSUME PeerInv, Fault PROVE faults' \in 0..MaxFaults
BY PeerAssumption DEF PeerInv, Shapes, Fault

\* A call that ends.
LEMMA LeaveKeeps ==
    ASSUME PeerInv, NEW t \in Threads, Leave(t), UNCHANGED <<now, view, sender, sent, recipient>>,
           calls' \in 0..MaxCalls, faults' \in 0..MaxFaults
    PROVE  PeerInv'
<1>1. call' = [call EXCEPT ![t] = Idle] BY DEF Leave
<1>2. CallOK(call[t])' BY <1>1, SentFacts DEF CallOK, Idle
<1> QED BY <1>1, <1>2, IdleIsCall, SentFacts, CallMoves

LEMMA SendKeeps ==
    ASSUME PeerInv, NEW t \in Threads, NEW s \in Sends, Send(t, s) PROVE PeerInv'
<1> DEFINE h == [Idle EXCEPT !.pc = "prepare", !.send = s]
<1>1. call' = [call EXCEPT ![t] = h] /\ UNCHANGED <<now, view, sender, sent, recipient, faults>>
  BY DEF Send
<1>2. calls' \in 0..MaxCalls BY PeerAssumption DEF Send, PeerInv, Shapes
<1>3. h \in Calls /\ h.pc = "prepare" /\ h.send = s /\ h.phase = "evidence" BY DEF Idle, Calls, Places, Phases
<1> HIDE DEF h
<1>4. call'[t] = h BY <1>1, SentFacts
<1>5. CallOK(call[t])' BY <1>3, <1>4 DEF CallOK
<1> QED BY <1>1, <1>2, <1>3, <1>5, SentFacts, CallMoves

LEMMA WriteKeeps == ASSUME PeerInv, NEW t \in Threads, Write(t) PROVE PeerInv'
<1> DEFINE h == [call[t] EXCEPT !.pc = "wait"]
<1>1. /\ call' = [call EXCEPT ![t] = h] /\ UNCHANGED <<now, view, sender, recipient, counters>>
      /\ sent' = sent \cup {<<call[t].carrier, call[t].phase>>} /\ call[t].pc = "write"
  BY SentFacts DEF Write, At
<1>2. call[t] \in Calls /\ CallOK(call[t]) BY SentFacts DEF PeerInv, CallsOK
<1>3. /\ h \in Calls /\ h.pc = "wait" /\ h.send = call[t].send /\ h.carrier = call[t].carrier
      /\ h.phase = call[t].phase /\ h.seen = call[t].seen /\ h.transmit = call[t].transmit
  BY <1>2 DEF Calls, Places
<1> HIDE DEF h
<1>4. call'[t] = h BY <1>1, SentFacts
<1>5. CallOK(call[t])' BY <1>1, <1>2, <1>3, <1>4 DEF CallOK, sender
<1>6. /\ call[t].carrier \in DOMAIN stages /\ call[t].phase \in Phases
      /\ call[t].phase = "message" => stages[call[t].carrier]["evidence"] = "recipient-intake"
  BY <1>1, <1>2 DEF CallOK, Calls
<1>7. sent' \subseteq (DOMAIN stages) \X Phases BY <1>1, <1>6, SentFacts
<1>8. \A c \in DOMAIN stages :
          <<c, "message">> \in sent' => stages[c]["evidence"] = "recipient-intake"
  BY <1>1, <1>6, SentFacts
<1>9. calls' \in 0..MaxCalls /\ faults' \in 0..MaxFaults BY <1>1, SentFacts DEF counters
<1> QED BY <1>1, <1>3, <1>5, <1>7, <1>8, <1>9, CallMoves

LEMMA AnsweredKeeps == ASSUME PeerInv, NEW t \in Threads, Answered(t) PROVE PeerInv'
<1> DEFINE request == <<call[t].carrier, call[t].phase>>
           h == [call[t] EXCEPT !.pc = "record", !.result = answers[request]]
<1>1. /\ call' = [call EXCEPT ![t] = h]
      /\ UNCHANGED <<now, view, sender, sent, recipient, counters>>
      /\ request \in DOMAIN answers /\ call[t].pc = "wait"
  BY SentFacts DEF Answered, At
<1>2. call[t] \in Calls /\ CallOK(call[t]) BY SentFacts DEF PeerInv, CallsOK
<1>3. answers[request] \in Outcomes BY <1>1 DEF PeerInv, WireOK
<1>4. /\ h \in Calls /\ h.pc = "record" /\ h.send = call[t].send /\ h.carrier = call[t].carrier
      /\ h.phase = call[t].phase /\ h.result = answers[request]
      /\ h.seen = call[t].seen /\ h.transmit = call[t].transmit
  BY <1>2, <1>3 DEF Calls, Places
<1> HIDE DEF h
<1>5. call'[t] = h BY <1>1, SentFacts
<1>6. CallOK(call[t])' BY <1>1, <1>2, <1>4, <1>5 DEF CallOK, sender, recipient
<1>7. calls' \in 0..MaxCalls /\ faults' \in 0..MaxFaults BY <1>1, SentFacts DEF counters
<1> QED BY <1>1, <1>4, <1>6, <1>7, SentFacts, CallMoves

LEMMA GiveUpKeeps == ASSUME PeerInv, NEW t \in Threads, GiveUp(t) PROVE PeerInv'
<1> DEFINE h == [call[t] EXCEPT !.pc = "record", !.result = None]
<1>1. /\ call' = [call EXCEPT ![t] = h]
      /\ UNCHANGED <<now, view, sender, sent, recipient, calls>>
      /\ call[t].pc \in {"write", "wait"}
  BY SentFacts DEF GiveUp, At
<1>2. call[t] \in Calls /\ CallOK(call[t]) BY SentFacts DEF PeerInv, CallsOK
<1>4. /\ h \in Calls /\ h.pc = "record" /\ h.send = call[t].send /\ h.carrier = call[t].carrier
      /\ h.phase = call[t].phase /\ h.result = None
      /\ h.seen = call[t].seen /\ h.transmit = call[t].transmit
  BY <1>2 DEF Calls, Places
<1> HIDE DEF h
<1>5. call'[t] = h BY <1>1, SentFacts
<1>6. CallOK(call[t])' BY <1>1, <1>2, <1>4, <1>5 DEF CallOK, sender, recipient
<1>7. calls' \in 0..MaxCalls BY <1>1, SentFacts
<1>8. faults' \in 0..MaxFaults BY FaultCounts, SentFacts DEF GiveUp, Fine
<1> QED BY <1>1, <1>4, <1>6, <1>7, <1>8, SentFacts, CallMoves

\* A call that goes on with the next phase or ends.
LEMMA AdvanceOK ==
    ASSUME PeerInv, NEW t \in Threads, NEW status, Advance(t, status),
           call[t].pc \in {"phase", "record"}, RowsKept, StagesKept, AnswersKept,
           status = "recipient-intake" =>
               stages'[call[t].carrier][call[t].phase] = "recipient-intake"
    PROVE  \E h \in Calls : call' = [call EXCEPT ![t] = h] /\ CallOK(call[t])'
<1>1. call[t] \in Calls /\ CallOK(call[t]) BY SentFacts DEF PeerInv, CallsOK
<1>2. CASE status = "recipient-intake" /\ call[t].phase = "evidence"
  <2> DEFINE h == [call[t] EXCEPT !.pc = "phase", !.phase = "message"]
  <2>1. call' = [call EXCEPT ![t] = h] BY <1>2, SentFacts DEF Advance
  <2>2. /\ h \in Calls /\ h.pc = "phase" /\ h.send = call[t].send /\ h.carrier = call[t].carrier
        /\ h.phase = "message" /\ h.seen = call[t].seen /\ h.transmit = call[t].transmit
    BY <1>1 DEF Calls, Places, Phases
  <2> HIDE DEF h
  <2>3. call'[t] = h BY <2>1, SentFacts
  <2>4. /\ call[t].carrier \in DOMAIN carriers /\ call[t].carrier \in DOMAIN stages
        /\ carriers[call[t].carrier].message # None
    BY <1>1 DEF CallOK
  <2>5. /\ call[t].carrier \in DOMAIN carriers' /\ call[t].carrier \in DOMAIN stages'
        /\ carriers'[call[t].carrier].message # None
        /\ stages'[call[t].carrier]["evidence"] = "recipient-intake"
    BY <1>2, <2>4 DEF RowsKept, StagesKept
  <2>6. \A p \in Phases : h.seen[p] \in Outcomes => stages'[h.carrier][p] = h.seen[p]
    BY <1>1, <2>2, <2>4 DEF CallOK, StagesKept
  <2>7. CallOK(call[t])' BY <1>1, <2>2, <2>3, <2>5, <2>6 DEF CallOK
  <2> QED BY <2>1, <2>2, <2>7
<1>3. CASE ~(status = "recipient-intake" /\ call[t].phase = "evidence")
  <2>1. call' = [call EXCEPT ![t] = Idle] BY <1>3 DEF Advance
  <2>2. CallOK(call[t])' BY <2>1, SentFacts DEF CallOK, Idle
  <2> QED BY <2>1, <2>2, IdleIsCall
<1> QED BY <1>2, <1>3

\* The outbox moves and no stage does.
LEMMA StagesStay ==
    ASSUME PeerInv, RowsKept, UNCHANGED <<stages, answers>>,
           \A c, d \in DOMAIN carriers' : c[1] = d[1] /\ c[2] < d[2] => ~Recorded(c)
    PROVE  StagesOK' /\ StagesKept /\ AnswersKept
<1>1. StagesKept /\ AnswersKept BY DEF StagesKept, AnswersKept
<1>2. \A c : Recorded(c)' <=> Recorded(c) BY DEF Recorded
<1>3. DOMAIN stages' \subseteq {c \in DOMAIN carriers' : carriers'[c].message # None}
  BY DEF PeerInv, StagesOK, RowsKept
<1> QED BY <1>1, <1>2, <1>3 DEF PeerInv, StagesOK

\* One stage gets a status, an outcome only from the recipient's answer and
\* while its carrier has no successor.
LEMMA StageMoves ==
    ASSUME PeerInv, RowsKept, UNCHANGED answers,
           \A c, d \in DOMAIN carriers' : c[1] = d[1] /\ c[2] < d[2] => ~Recorded(c),
           NEW c \in DOMAIN stages, NEW p \in Phases, NEW w \in Kinds,
           stages' = [stages EXCEPT ![c][p] = Status(c, p, w)],
           w \in Outcomes => /\ <<c, p>> \in DOMAIN answers /\ answers[<<c, p>>] = w
                             /\ \A d \in DOMAIN carriers' : d[1] = c[1] => ~(c[2] < d[2])
    PROVE  /\ StagesOK' /\ StagesKept /\ AnswersKept
           /\ stages'[c][p] = Status(c, p, w)
<1>1. stages \in [DOMAIN stages -> [Phases -> Kinds]] BY DEF PeerInv, StagesOK
<1> DEFINE v == Status(c, p, w)
<1>2. v \in Kinds /\ (stages[c][p] \in Outcomes => v = stages[c][p]) /\ v \in {w, stages[c][p]}
  BY <1>1 DEF Status, Kinds, Open, Outcomes
<1> HIDE DEF v
<1>3. DOMAIN stages' = DOMAIN stages /\ stages'[c] = [stages[c] EXCEPT ![p] = v]
      /\ \A d \in DOMAIN stages : d # c => stages'[d] = stages[d]
  BY <1>1 DEF v
<1>4. stages'[c] \in [Phases -> Kinds] /\ stages'[c][p] = v
      /\ \A q \in Phases : q # p => stages'[c][q] = stages[c][q]
  BY <1>1, <1>2, <1>3
<1>5. stages' \in [DOMAIN stages' -> [Phases -> Kinds]] BY <1>1, <1>2 DEF v
<1>6. ASSUME NEW d \in DOMAIN stages, NEW q \in Phases
      PROVE  /\ stages[d][q] \in Outcomes => stages'[d][q] = stages[d][q]
             /\ stages'[d][q] \in Outcomes =>
                   <<d, q>> \in DOMAIN answers /\ answers[<<d, q>>] = stages'[d][q]
  <2>1. CASE d = c /\ q = p BY <1>2, <1>4, <2>1 DEF PeerInv, StagesOK
  <2>2. CASE ~(d = c /\ q = p)
    <3>1. stages'[d][q] = stages[d][q] BY <1>3, <1>4, <2>2
    <3> QED BY <3>1 DEF PeerInv, StagesOK
  <2> QED BY <2>1, <2>2
<1>7. StagesKept /\ AnswersKept BY <1>3, <1>6 DEF StagesKept, AnswersKept
<1>8. ASSUME NEW d, Recorded(d)', ~Recorded(d)
      PROVE  d = c /\ w \in Outcomes
  <2>1. d \in DOMAIN stages /\ \A q \in Phases : stages'[d][q] = "recipient-intake"
    BY <1>3, <1>8 DEF Recorded
  <2>2. d = c BY <1>3, <1>8, <2>1 DEF Recorded
  <2>3. PICK q \in Phases : stages[c][q] # "recipient-intake" BY <1>8, <2>2 DEF Recorded
  <2>4. q = p /\ v = "recipient-intake" BY <1>4, <2>1, <2>2, <2>3
  <2> QED BY <1>2, <2>2, <2>3, <2>4 DEF Outcomes
<1>9. \A d, e \in DOMAIN carriers' : d[1] = e[1] /\ d[2] < e[2] => ~Recorded(d)'
  BY <1>8
<1>10. DOMAIN stages' \subseteq {d \in DOMAIN carriers' : carriers'[d].message # None}
  BY <1>3 DEF PeerInv, StagesOK, RowsKept
<1> QED BY <1>3, <1>4, <1>5, <1>6, <1>7, <1>9, <1>10 DEF StagesOK, v

LEMMA RecordKeeps == ASSUME PeerInv, NEW t \in Threads, Record(t) PROVE PeerInv'
<1> DEFINE c == call[t].carrier
           p == call[t].phase
           r == call[t].result
<1>1. UNCHANGED <<now, view, carriers, authored, observed, sent, recipient, counters>>
      /\ call[t].pc = "record"
  BY DEF Record, At
<1>2. call[t] \in Calls /\ CallOK(call[t]) BY SentFacts DEF PeerInv, CallsOK
<1>3. calls' \in 0..MaxCalls /\ faults' \in 0..MaxFaults BY <1>1, SentFacts DEF counters
<1>4. CASE Leave(t) /\ UNCHANGED stages BY <1>1, <1>3, <1>4, LeaveKeeps DEF sender
<1>5. CASE /\ Alive(c) /\ r # None
           /\ stages' = [stages EXCEPT ![c][p] = Status(c, p, r)]
           /\ Advance(t, Status(c, p, r))
  <2>1. /\ c \in DOMAIN stages /\ p \in Phases /\ r \in Kinds /\ r \in Outcomes
        /\ <<c, p>> \in DOMAIN answers /\ answers[<<c, p>>] = r
    BY <1>1, <1>2, <1>5 DEF CallOK, Calls, Kinds
  <2>2. RowsKept BY <1>1 DEF RowsKept
  <2>3. \A d, e \in DOMAIN carriers' : d[1] = e[1] /\ d[2] < e[2] => ~Recorded(d)
    BY <1>1 DEF PeerInv, StagesOK
  <2>4. ASSUME NEW d \in DOMAIN carriers', d[1] = c[1], c[2] < d[2] PROVE FALSE
    <3>1. c \in DOMAIN carriers /\ d \in DOMAIN carriers BY <1>1, <2>1 DEF PeerInv, StagesOK
    <3>2. carriers[c].expires <= carriers[d].issued /\ carriers[d].issued <= now
      BY <2>4, <3>1 DEF PeerInv, OutboxOK
    <3>3. carriers[c].expires \in Nat /\ carriers[d].issued \in Nat /\ now \in Nat
      <4>1. carriers[c] \in Rows /\ carriers[d] \in Rows /\ now \in 0..MaxTime
        BY <3>1 DEF PeerInv, OutboxOK, Shapes
      <4> QED BY <4>1, PeerAssumption DEF Rows
    <3> QED BY <1>5, <3>2, <3>3 DEF Alive
  <2>5. UNCHANGED answers BY <1>1 DEF recipient
  <2>6. stages' = [stages EXCEPT ![c][p] = Status(c, p, r)] BY <1>5
  <2> HIDE DEF c, p, r
  <2>7. StagesOK' /\ StagesKept /\ AnswersKept /\ stages'[c][p] = Status(c, p, r)
    BY <2>1, <2>2, <2>3, <2>4, <2>5, <2>6, StageMoves
  <2>8. PICK h \in Calls : call' = [call EXCEPT ![t] = h] /\ CallOK(call[t])'
    BY <1>1, <1>5, <2>2, <2>7, AdvanceOK DEF c, p
  <2>9. /\ OutboxOK(carriers', now')
        /\ authored' \subseteq DOMAIN carriers' /\ observed' \in (0..MaxTime) \cup {None}
        /\ \A d \in DOMAIN carriers' : carriers'[d].message \in authored' \cup {None}
    BY <1>1 DEF PeerInv, Shapes
  <2>10. DOMAIN stages' = DOMAIN stages BY <2>6
  <2>11. sent' = sent /\ sent' \subseteq (DOMAIN stages') \X Phases BY <1>1, <2>10, SentFacts
  <2>12. \A d \in DOMAIN stages' :
             <<d, "message">> \in sent' => stages'[d]["evidence"] = "recipient-intake"
    BY <2>7, <2>10, <2>11, SentFacts DEF StagesKept, Phases, Outcomes
  <2>13. UNCHANGED <<now, view, recipient>> BY <1>1
  <2> QED BY <1>3, <2>2, <2>7, <2>8, <2>9, <2>11, <2>12, <2>13, SenderMoves
<1> QED BY <1>4, <1>5 DEF Record

LEMMA StagesKeeps == ASSUME PeerInv, NEW t \in Threads, Stages(t) PROVE PeerInv'
<1> DEFINE c == call[t].carrier
           fresh == [p \in Phases |-> "prepared"]
           now1 == IF c \in DOMAIN stages THEN stages ELSE Put(stages, c, fresh)
           h == [call[t] EXCEPT !.pc = "phase", !.transmit = ~Recorded(c), !.seen = now1[c]]
<1>1. UNCHANGED <<now, view, carriers, authored, observed, sent, recipient, counters>>
      /\ call[t].pc = "stages" /\ stages' = now1
  BY DEF Stages, At
<1>2. call' = [call EXCEPT ![t] = h] \/ call' = [call EXCEPT ![t] = Idle]
  BY SentFacts DEF Stages, Leave
<1>3. call[t] \in Calls /\ CallOK(call[t]) BY SentFacts DEF PeerInv, CallsOK
<1>4. calls' \in 0..MaxCalls /\ faults' \in 0..MaxFaults BY <1>1, SentFacts DEF counters
<1>5. c \in DOMAIN carriers /\ carriers[c].message # None /\ c[1] = call[t].send
      /\ call[t].send \in Sends /\ call[t].phase = "evidence"
  BY <1>1, <1>3 DEF CallOK
<1>6. stages \in [DOMAIN stages -> [Phases -> Kinds]] BY DEF PeerInv, StagesOK
<1>7. fresh \in [Phases -> Kinds] /\ \A p \in Phases : fresh[p] \notin Outcomes
  BY DEF Kinds, Open, Outcomes
<1> HIDE DEF fresh
<1>8. /\ DOMAIN now1 = DOMAIN stages \cup {c}
      /\ \A d \in DOMAIN stages : now1[d] = stages[d]
      /\ c \notin DOMAIN stages => now1[c] = fresh
      /\ now1 = [d \in DOMAIN now1 |-> now1[d]]
  BY <1>6 DEF Put
<1> HIDE DEF now1, c
<1>9. now1 \in [DOMAIN now1 -> [Phases -> Kinds]] BY <1>6, <1>7, <1>8
<1>10. RowsKept /\ StagesKept /\ AnswersKept
  BY <1>1, <1>8 DEF RowsKept, StagesKept, AnswersKept, recipient
<1>11. \A d : Recorded(d)' => Recorded(d)
  BY <1>1, <1>7, <1>8 DEF Recorded, Phases, Outcomes
<1>12. ASSUME NEW d \in DOMAIN stages', NEW p \in Phases, stages'[d][p] \in Outcomes
       PROVE  d \in DOMAIN stages /\ stages'[d] = stages[d]
  BY <1>1, <1>7, <1>8, <1>12
<1>13. StagesOK'
  <2>1. DOMAIN stages' \subseteq {d \in DOMAIN carriers' : carriers'[d].message # None}
    BY <1>1, <1>5, <1>8 DEF PeerInv, StagesOK
  <2>2. \A d, e \in DOMAIN carriers' : d[1] = e[1] /\ d[2] < e[2] => ~Recorded(d)'
    BY <1>1, <1>11 DEF PeerInv, StagesOK
  <2>3. \A d \in DOMAIN stages' : \A p \in Phases :
          stages'[d][p] \in Outcomes =>
              <<d, p>> \in DOMAIN answers' /\ answers'[<<d, p>>] = stages'[d][p]
    BY <1>1, <1>12 DEF PeerInv, StagesOK, recipient
  <2> QED BY <1>1, <1>9, <2>1, <2>2, <2>3 DEF StagesOK
<1>14. now1[c] \in [Phases -> Kinds] BY <1>8, <1>9
<1>15. \E k \in Calls : call' = [call EXCEPT ![t] = k] /\ CallOK(call[t])'
  <2>1. CASE call' = [call EXCEPT ![t] = h]
    <3>1. /\ h \in Calls /\ h.pc = "phase" /\ h.send = call[t].send /\ h.carrier = c
          /\ h.phase = "evidence" /\ h.seen = now1[c] /\ h.transmit = ~Recorded(c)
      BY <1>3, <1>5, <1>14 DEF Calls, Places, Phases, c
    <3> HIDE DEF h
    <3>2. call'[t] = h BY <2>1, SentFacts
    <3>3. Recorded(c) => \A p \in Phases : now1[c][p] = "recipient-intake"
      BY <1>8 DEF Recorded
    <3>4. c \in DOMAIN carriers' /\ carriers'[c].message # None /\ c \in DOMAIN stages'
          /\ stages'[c] = now1[c]
      BY <1>1, <1>5, <1>8
    <3>5. CallOK(call[t])' BY <1>5, <1>14, <3>1, <3>2, <3>3, <3>4 DEF CallOK
    <3> QED BY <2>1, <3>1, <3>5
  <2>2. CASE call' = [call EXCEPT ![t] = Idle]
    <3>2. CallOK(call[t])' BY <2>2, SentFacts DEF CallOK, Idle
    <3> QED BY <2>2, <3>2, IdleIsCall
  <2> QED BY <1>2, <2>1, <2>2
<1>16. /\ OutboxOK(carriers', now')
       /\ authored' \subseteq DOMAIN carriers' /\ observed' \in (0..MaxTime) \cup {None}
       /\ \A d \in DOMAIN carriers' : carriers'[d].message \in authored' \cup {None}
  BY <1>1 DEF PeerInv, Shapes
<1>17. sent' = sent /\ sent' \subseteq (DOMAIN stages') \X Phases BY <1>1, <1>8, SentFacts
<1>18. \A d \in DOMAIN stages' :
           <<d, "message">> \in sent' => stages'[d]["evidence"] = "recipient-intake"
  BY <1>1, <1>8, <1>17, SentFacts
<1>19. UNCHANGED <<now, view, recipient>> BY <1>1
<1> HIDE DEF h
<1> QED BY <1>4, <1>10, <1>13, <1>15, <1>16, <1>17, <1>18, <1>19, SenderMoves

\* prepare in a call, to its end or until it is cut off.
LEMMA PrepareKeeps == ASSUME PeerInv, NEW t \in Threads, Prepare(t) PROVE PeerInv'
<1> DEFINE s == call[t].send
           c == Latest(Renewed(Reserved(s), s), s)
           h == [call[t] EXCEPT !.pc = "stages", !.carrier = c]
<1>1. UNCHANGED <<now, view, stages, sent, recipient, calls>> /\ call[t].pc = "prepare"
  BY DEF Prepare, At
<1>2. call[t] \in Calls /\ CallOK(call[t]) /\ s \in Sends
  BY <1>1, SentFacts DEF PeerInv, CallsOK, CallOK
<1>3. calls' \in 0..MaxCalls BY <1>1, SentFacts
<1>4. CASE ~Permitted(s) /\ Leave(t) /\ Fine /\ UNCHANGED <<carriers, authored, observed>>
  BY <1>1, <1>3, <1>4, LeaveKeeps, SentFacts DEF sender, Fine
<1>5. ASSUME NEW stop \in {"reserved", "authored", "sealed"}, Prepares(s, stop),
             NEW k \in Calls, call' = [call EXCEPT ![t] = k], faults' \in 0..MaxFaults,
             k = Idle \/ (stop = "sealed" /\ k = h)
      PROVE  PeerInv'
  <2>1. /\ OutboxOK(carriers', now') /\ RowsKept
        /\ authored' \subseteq DOMAIN carriers' /\ observed' \in (0..MaxTime) \cup {None}
        /\ \A d \in DOMAIN carriers' : carriers'[d].message \in authored' \cup {None}
        /\ \A d, e \in DOMAIN carriers' : d[1] = e[1] /\ d[2] < e[2] => ~Recorded(d)
        /\ stop = "sealed" =>
              c \in DOMAIN carriers' /\ c[1] = s /\ carriers'[c].message # None
    BY <1>1, <1>2, <1>5, PreparesGives
  <2>2. StagesOK' /\ StagesKept /\ AnswersKept BY <1>1, <2>1, StagesStay DEF recipient
  <2> HIDE DEF c
  <2>3. CallOK(call[t])'
    <3>1. call'[t] = k BY <1>5, SentFacts
    <3>2. CASE k = Idle BY <3>1, <3>2 DEF CallOK, Idle
    <3>3. CASE stop = "sealed" /\ k = h
      <4>1. k.pc = "stages" /\ k.carrier = c /\ k.send = s /\ k.phase = call[t].phase
        BY <1>2, <3>3 DEF Calls
      <4>2. call[t].phase = "evidence" BY <1>1, <1>2 DEF CallOK
      <4> QED BY <1>2, <2>1, <3>1, <3>3, <4>1, <4>2 DEF CallOK
    <3> QED BY <1>5, <3>2, <3>3
  <2>4. sent' = sent /\ sent' \subseteq (DOMAIN stages') \X Phases BY <1>1, SentFacts
  <2>5. \A d \in DOMAIN stages' :
           <<d, "message">> \in sent' => stages'[d]["evidence"] = "recipient-intake"
    BY <1>1, SentFacts
  <2>6. UNCHANGED <<now, view, recipient>> BY <1>1
  <2> QED BY <1>3, <1>5, <2>1, <2>2, <2>3, <2>4, <2>5, <2>6, SenderMoves
<1>6. CASE Permitted(s) /\ Prepares(s, "sealed") /\ Fine /\ call' = [call EXCEPT ![t] = h]
  <2>1. c \in DOMAIN carriers' /\ DOMAIN carriers' \subseteq Carriers
    BY <1>1, <1>2, <1>6, PreparesGives DEF OutboxOK
  <2> HIDE DEF c
  <2>2. h \in Calls BY <1>2, <2>1 DEF Calls, Places
  <2>3. faults' \in 0..MaxFaults BY <1>6, SentFacts DEF Fine
  <2> QED BY <1>5, <1>6, <2>2, <2>3 DEF c
<1>7. CASE Permitted(s) /\ Interrupted(s) /\ Leave(t)
  <2>1. PICK stop \in {"reserved", "authored"} : Prepares(s, stop) BY <1>7 DEF Interrupted
  <2>2. faults' \in 0..MaxFaults BY <1>7, FaultCounts DEF Interrupted
  <2>3. call' = [call EXCEPT ![t] = Idle] BY <1>7 DEF Leave
  <2>4. stop \in {"reserved", "authored", "sealed"} /\ Idle \in Calls BY IdleIsCall
  <2> HIDE DEF h
  <2> QED BY <1>5, <2>1, <2>2, <2>3, <2>4
<1> HIDE DEF PeerInv
<1>8. \/ Permitted(s) /\ Prepares(s, "sealed") /\ Fine /\ call' = [call EXCEPT ![t] = h]
      \/ Permitted(s) /\ Interrupted(s) /\ Leave(t)
      \/ ~Permitted(s) /\ Leave(t) /\ Fine /\ UNCHANGED <<carriers, authored, observed>>
  BY SentFacts DEF Prepare
<1> QED BY <1>4, <1>6, <1>7, <1>8

\* The outbox after prepare, whatever the stages become: the call goes on.
LEMMA PhaseMoves ==
    ASSUME PeerInv, NEW t \in Threads, call[t].pc = "phase",
           UNCHANGED <<now, view, sent, recipient, calls>>, faults' \in 0..MaxFaults,
           NEW stop \in {"reserved", "authored", "sealed"}, Prepares(call[t].send, stop),
           StagesOK', StagesKept, DOMAIN stages' = DOMAIN stages,
           NEW h \in Calls, call' = [call EXCEPT ![t] = h], CallOK(call[t])'
    PROVE  PeerInv'
<1>1. call[t].send \in Sends BY SentFacts DEF PeerInv, CallsOK, CallOK
<1>2. /\ OutboxOK(carriers', now') /\ RowsKept
      /\ authored' \subseteq DOMAIN carriers' /\ observed' \in (0..MaxTime) \cup {None}
      /\ \A d \in DOMAIN carriers' : carriers'[d].message \in authored' \cup {None}
  BY <1>1, PreparesGives
<1>3. calls' \in 0..MaxCalls BY SentFacts
<1>4. sent' = sent /\ sent' \subseteq (DOMAIN stages') \X Phases BY SentFacts
<1>5. \A d \in DOMAIN stages' :
           <<d, "message">> \in sent' => stages'[d]["evidence"] = "recipient-intake"
  BY SentFacts DEF StagesKept, Phases, Outcomes
<1>6. UNCHANGED <<now, view, recipient>> OBVIOUS
<1> QED BY <1>2, <1>3, <1>4, <1>5, <1>6, SenderMoves

LEMMA PhaseKeeps == ASSUME PeerInv, NEW t \in Threads, Phase(t) PROVE PeerInv'
<1> DEFINE s == call[t].send
           c == call[t].carrier
           p == call[t].phase
           h == [call[t] EXCEPT !.pc = "write", !.result = None]
           nexts == [stages EXCEPT ![c][p] = Status(c, p, "pending")]
<1>1. UNCHANGED <<now, view, sent, recipient, calls>> /\ call[t].pc = "phase"
  BY DEF Phase, At
<1>2. call[t] \in Calls /\ CallOK(call[t]) /\ s \in Sends /\ p \in Phases
  BY <1>1, SentFacts DEF PeerInv, CallsOK, CallOK, Calls
<1>3. /\ c \in DOMAIN carriers /\ c[1] = s /\ c \in DOMAIN stages /\ carriers[c].message # None
      /\ p = "message" => stages[c]["evidence"] = "recipient-intake"
      /\ call[t].seen \in [Phases -> Kinds]
      /\ \A q \in Phases : /\ call[t].seen[q] \in Outcomes => stages[c][q] = call[t].seen[q]
                           /\ ~call[t].transmit => call[t].seen[q] = "recipient-intake"
  BY <1>1, <1>2 DEF CallOK
<1>4. UNCHANGED answers BY <1>1 DEF recipient
<1>5. CASE ~Permitted(s) /\ Leave(t) /\ Fine /\ UNCHANGED <<carriers, authored, observed, stages>>
  BY <1>1, <1>5, LeaveKeeps, SentFacts DEF sender, Fine
<1>6. ASSUME NEW stop \in {"reserved", "authored", "sealed"}, Prepares(s, stop), UNCHANGED stages
      PROVE  RowsKept /\ StagesOK' /\ StagesKept /\ AnswersKept
  BY <1>1, <1>2, <1>4, <1>6, PreparesGives, StagesStay
<1>7. ASSUME NEW stop \in {"reserved", "authored", "sealed"}, Prepares(s, stop), UNCHANGED stages,
             Leave(t), faults' \in 0..MaxFaults
      PROVE  PeerInv'
  <2>1. call' = [call EXCEPT ![t] = Idle] /\ CallOK(call[t])'
    BY <1>7, SentFacts DEF Leave, CallOK, Idle
  <2> QED BY <1>1, <1>6, <1>7, <2>1, IdleIsCall, PhaseMoves
<1>8. CASE Permitted(s) /\ Interrupted(s) /\ Leave(t) /\ UNCHANGED stages
  <2>1. PICK stop \in {"reserved", "authored"} : Prepares(s, stop) BY <1>8 DEF Interrupted
  <2>2. faults' \in 0..MaxFaults BY <1>8, FaultCounts DEF Interrupted
  <2> QED BY <1>7, <1>8, <2>1, <2>2
<1>9. CASE /\ Prepares(s, "sealed") /\ Fine
           /\ ~call[t].transmit \/ call[t].seen[p] \notin Open
           /\ Advance(t, call[t].seen[p]) /\ UNCHANGED stages
  <2>1. RowsKept /\ StagesOK' /\ StagesKept /\ AnswersKept BY <1>6, <1>9
  <2>2. call[t].seen[p] \in Outcomes
    BY <1>2, <1>3, <1>9 DEF Kinds, Outcomes
  <2>3. stages'[c][p] = call[t].seen[p] BY <1>2, <1>3, <1>9, <2>2
  <2>4. PICK k \in Calls : call' = [call EXCEPT ![t] = k] /\ CallOK(call[t])'
    BY <1>1, <1>9, <2>1, <2>3, AdvanceOK
  <2> QED BY <1>1, <1>9, <2>1, <2>4, PhaseMoves, SentFacts DEF Fine
<1>10. CASE Prepares(s, "sealed") /\ Fine /\ Leave(t) /\ UNCHANGED stages
  BY <1>7, <1>10, SentFacts DEF Fine
<1>11. CASE /\ Prepares(s, "sealed") /\ Fine /\ stages' = nexts
            /\ \/ stages[c][p] \in Open /\ call' = [call EXCEPT ![t] = h]
               \/ stages[c][p] \notin Open /\ Advance(t, stages[c][p])
  <2>1. /\ RowsKept
        /\ \A d, e \in DOMAIN carriers' : d[1] = e[1] /\ d[2] < e[2] => ~Recorded(d)
    BY <1>1, <1>2, <1>11, PreparesGives
  <2>2. "pending" \in Kinds /\ "pending" \notin Outcomes BY DEF Kinds, Open, Outcomes
  <2>3. StagesOK' /\ StagesKept /\ AnswersKept /\ stages'[c][p] = Status(c, p, "pending")
    BY <1>2, <1>3, <1>4, <1>11, <2>1, <2>2, StageMoves
  <2>4. DOMAIN stages' = DOMAIN stages BY <1>11
  <2>5. \E k \in Calls : call' = [call EXCEPT ![t] = k] /\ CallOK(call[t])'
    <3>1. CASE stages[c][p] \notin Open /\ Advance(t, stages[c][p])
      <4>1. stages'[c][p] = stages[c][p] BY <2>3, <3>1 DEF Status
      <4> QED BY <1>1, <2>1, <2>3, <3>1, <4>1, AdvanceOK
    <3>2. CASE call' = [call EXCEPT ![t] = h]
      <4>1. /\ h \in Calls /\ h.pc = "write" /\ h.send = s /\ h.carrier = c /\ h.phase = p
            /\ h.seen = call[t].seen /\ h.transmit = call[t].transmit
        BY <1>2 DEF Calls, Places
      <4> HIDE DEF h
      <4>2. call'[t] = h BY <3>2, SentFacts
      <4>3. c \in DOMAIN carriers' /\ c \in DOMAIN stages' /\ carriers'[c].message # None
        BY <1>3, <2>1, <2>4 DEF RowsKept
      <4>4. p = "message" => stages'[c]["evidence"] = "recipient-intake"
        BY <1>3, <2>3 DEF StagesKept, Phases, Outcomes
      <4>5. \A q \in Phases : call[t].seen[q] \in Outcomes => stages'[c][q] = call[t].seen[q]
        BY <1>3, <2>3 DEF StagesKept
      <4> HIDE DEF s, c, p
      <4>6. CallOK(call[t])' BY <1>2, <1>3, <4>1, <4>2, <4>3, <4>4, <4>5 DEF CallOK
      <4> QED BY <3>2, <4>1, <4>6
    <3> QED BY <1>11, <3>1, <3>2
  <2>6. PICK k \in Calls : call' = [call EXCEPT ![t] = k] /\ CallOK(call[t])' BY <2>5
  <2> QED BY <1>1, <1>11, <2>3, <2>4, <2>6, PhaseMoves, SentFacts DEF Fine
<1> HIDE DEF PeerInv
<1> QED BY <1>5, <1>8, <1>9, <1>10, <1>11, SentFacts DEF Phase

LEMMA CrashKeeps == ASSUME PeerInv, Crash PROVE PeerInv'
<1> USE DEF sender, recipient
<1>1. /\ call' = [t \in Threads |-> Idle] /\ UNCHANGED <<now, view, sender, sent, recipient, calls>>
      /\ faults' \in 0..MaxFaults
  BY FaultCounts DEF Crash
<1>2. call' \in [Threads -> Calls] BY <1>1, IdleIsCall
<1>3. CallsOK' BY <1>1 DEF CallsOK, CallOK, Idle
<1>4. Shapes' BY <1>1, <1>2 DEF PeerInv, Shapes, Messages
<1>5. OutboxOK(carriers', now') BY <1>1 DEF PeerInv
<1>6. StagesOK' BY <1>1 DEF PeerInv, StagesOK, Recorded
<1>7. WireOK' BY <1>1 DEF PeerInv, WireOK
<1> QED BY <1>3, <1>4, <1>5, <1>6, <1>7 DEF PeerInv

LEMMA TickKeeps == ASSUME PeerInv, Tick PROVE PeerInv'
<1> USE DEF sender, recipient, counters
<1>1. /\ now' = now + 1 /\ UNCHANGED <<view, sender, call, sent, recipient, counters>>
      /\ now' \in 0..MaxTime /\ now \in Nat
  BY PeerAssumption DEF Tick, PeerInv, Shapes
<1>3. CallsOK' BY <1>1 DEF PeerInv, CallsOK, CallOK
<1>4. Shapes' BY <1>1 DEF PeerInv, Shapes, Messages
<1>5. OutboxOK(carriers', now')
  <2>1. \A c \in DOMAIN carriers : carriers[c].issued \in Nat
    BY PeerAssumption DEF PeerInv, OutboxOK, Rows
  <2>2. \A c \in DOMAIN carriers : carriers[c].issued <= now' BY <1>1, <2>1 DEF PeerInv, OutboxOK
  <2> QED BY <1>1, <2>2 DEF PeerInv, OutboxOK
<1>6. StagesOK' BY <1>1 DEF PeerInv, StagesOK, Recorded
<1>7. WireOK' BY <1>1 DEF PeerInv, WireOK
<1> QED BY <1>3, <1>4, <1>5, <1>6, <1>7 DEF PeerInv

LEMMA LearnKeeps == ASSUME PeerInv, NEW side \in DOMAIN view, Learn(side) PROVE PeerInv'
<1> USE DEF sender, recipient, counters
<1>1. /\ UNCHANGED <<now, sender, call, sent, recipient, counters>>
      /\ view' \in [{"sender", "recipient"} -> 1..Versions]
  BY PeerAssumption DEF Learn, PeerInv, Shapes
<1>3. CallsOK' BY <1>1 DEF PeerInv, CallsOK, CallOK
<1>4. Shapes' BY <1>1 DEF PeerInv, Shapes, Messages
<1>5. OutboxOK(carriers', now') BY <1>1 DEF PeerInv
<1>6. StagesOK' BY <1>1 DEF PeerInv, StagesOK, Recorded
<1>7. WireOK' BY <1>1 DEF PeerInv, WireOK
<1> QED BY <1>3, <1>4, <1>5, <1>6, <1>7 DEF PeerInv

\* A step of the recipient: its tables grow.
LEMMA RecipientMoves ==
    ASSUME PeerInv, UNCHANGED <<now, view, sender, call, sent, calls>>,
           faults' \in 0..MaxFaults, AnswersKept, WireOK',
           inbox' \in Seq(Carriers), Range(inbox') \subseteq Messages \ {None},
           settled' \in BOOLEAN
    PROVE  PeerInv'
<1> USE DEF sender
<1>1. RowsKept /\ StagesKept BY DEF RowsKept, StagesKept
<1>2. CallsOK'
  <2> SUFFICES ASSUME NEW u \in Threads PROVE CallOK(call[u])' BY DEF CallsOK
  <2> QED BY <1>1, CallStays, SentFacts DEF PeerInv, CallsOK
<1>3. Shapes' BY DEF PeerInv, Shapes, Messages
<1>4. OutboxOK(carriers', now') BY DEF PeerInv
<1>5. StagesOK' BY DEF PeerInv, StagesOK, Recorded, AnswersKept
<1> QED BY <1>2, <1>3, <1>4, <1>5 DEF PeerInv

\* An answer is stored once, for a request that was written.
LEMMA AnswerOK ==
    ASSUME PeerInv, NEW c, NEW p \in Phases, Pending(c, p), NEW o \in Outcomes, Answer(c, p, o)
    PROVE  /\ AnswersKept /\ <<c, p>> \in sent
           /\ DOMAIN answers' = DOMAIN answers \cup {<<c, p>>}
           /\ answers' \in [DOMAIN answers' -> Outcomes]
           /\ answers'[<<c, p>>] = o
BY DEF Pending, Answer, Put, AnswersKept, PeerInv, WireOK

LEMMA ReceiveEvidenceKeeps ==
    ASSUME PeerInv, NEW c \in DOMAIN carriers, ReceiveEvidence(c) PROVE PeerInv'
<1>1. UNCHANGED <<now, view, sender, call, sent, inbox, settled, calls>> /\ Pending(c, "evidence")
  BY DEF ReceiveEvidence
<1>2. "evidence" \in Phases /\ "recipient-intake" \in Outcomes /\ "refused" \in Outcomes
  BY DEF Phases, Outcomes
<1>3. faults' \in 0..MaxFaults BY FaultCounts, SentFacts DEF ReceiveEvidence, Fine
<1>4. proofs \subseteq proofs' BY DEF ReceiveEvidence
<1>5. \/ UNCHANGED answers
      \/ /\ \E o \in Outcomes : Answer(c, "evidence", o)
         /\ answers'[<<c, "evidence">>] = "recipient-intake" => \E e \in proofs' : e.carrier = c
  <2>1. CASE Opens(c) /\ proofs' = proofs \cup {ProofOf(c)} /\ Answer(c, "evidence", "recipient-intake")
    <3>1. ProofOf(c).carrier = c BY DEF ProofOf
    <3> QED BY <1>2, <2>1, <3>1
  <2>2. CASE Answer(c, "evidence", "refused")
    <3>1. answers'[<<c, "evidence">>] = "refused" BY <1>1, <1>2, <2>2, AnswerOK
    <3> QED BY <1>2, <2>2, <3>1
  <2> QED BY <2>1, <2>2 DEF ReceiveEvidence
<1>6. AnswersKept /\ DOMAIN answers' \subseteq sent /\ answers' \in [DOMAIN answers' -> Outcomes]
      /\ DOMAIN answers' \subseteq DOMAIN answers \cup {<<c, "evidence">>}
  <2>1. CASE UNCHANGED answers BY <2>1 DEF AnswersKept, PeerInv, WireOK
  <2>2. CASE \E o \in Outcomes : Answer(c, "evidence", o)
    <3>1. PICK o \in Outcomes : Answer(c, "evidence", o) BY <2>2
    <3>2. DOMAIN answers \subseteq sent BY DEF PeerInv, WireOK
    <3> QED BY <1>1, <1>2, <3>1, <3>2, AnswerOK
  <2> QED BY <1>5, <2>1, <2>2
<1>7. WireOK'
  <2> USE DEF sender
  <2>1. ASSUME NEW d \in DOMAIN carriers, <<d, "evidence">> \in DOMAIN answers',
               answers'[<<d, "evidence">>] = "recipient-intake"
        PROVE  \E e \in proofs' : e.carrier = d
    <3>1. CASE <<d, "evidence">> \in DOMAIN answers
      <4>1. answers[<<d, "evidence">>] = "recipient-intake" BY <1>6, <2>1, <3>1 DEF AnswersKept
      <4> QED BY <1>4, <3>1, <4>1 DEF PeerInv, WireOK
    <3>2. CASE <<d, "evidence">> \notin DOMAIN answers
      <4>1. d = c /\ ~UNCHANGED answers BY <1>6, <2>1, <3>2
      <4> QED BY <1>5, <2>1, <4>1
    <3> QED BY <3>1, <3>2
  <2>2. ASSUME NEW d \in DOMAIN carriers, <<d, "message">> \in DOMAIN answers',
               answers'[<<d, "message">>] = "recipient-intake"
        PROVE  carriers[d].message \in Range(inbox) /\ (d[1] \in Replies => settled)
    <3>1. <<d, "message">> \in DOMAIN answers BY <1>6, <2>2
    <3>2. answers[<<d, "message">>] = "recipient-intake" BY <1>6, <2>2, <3>1 DEF AnswersKept
    <3> QED BY <3>1, <3>2 DEF PeerInv, WireOK
  <2>3. \A d \in DOMAIN carriers :
          <<d, "message">> \in sent => stages[d]["evidence"] = "recipient-intake"
    BY DEF PeerInv, WireOK
  <2>4. sent \subseteq (DOMAIN stages) \X Phases BY SentFacts
  <2> QED BY <1>1, <1>6, <2>1, <2>2, <2>3, <2>4 DEF WireOK
<1>8. /\ inbox' \in Seq(Carriers) /\ Range(inbox') \subseteq Messages \ {None}
      /\ settled' \in BOOLEAN
  BY <1>1 DEF PeerInv, Shapes
<1> QED BY <1>1, <1>3, <1>6, <1>7, <1>8, RecipientMoves

LEMMA AppendRange ==
    ASSUME NEW S, NEW q \in Seq(S), NEW x \in S
    PROVE  Append(q, x) \in Seq(S) /\ Range(Append(q, x)) = Range(q) \cup {x}
<1>1. Append(q, x) \in Seq(S) /\ Len(Append(q, x)) = Len(q) + 1 /\ Len(q) \in Nat
      /\ DOMAIN Append(q, x) = 1..(Len(q) + 1) /\ DOMAIN q = 1..Len(q)
  OBVIOUS
<1>2. \A i \in 1..Len(q) : Append(q, x)[i] = q[i] OBVIOUS
<1>3. Append(q, x)[Len(q) + 1] = x OBVIOUS
<1>4. \A i \in 1..(Len(q) + 1) : i \in 1..Len(q) \/ i = Len(q) + 1 BY <1>1
<1>5. Len(q) + 1 \in 1..(Len(q) + 1) /\ \A i \in 1..Len(q) : i \in 1..(Len(q) + 1) BY <1>1
<1> HIDE DEF Append
<1> QED BY <1>1, <1>2, <1>3, <1>4, <1>5, Zenon DEF Range

LEMMA ReceiveMessageKeeps ==
    ASSUME PeerInv, NEW c \in DOMAIN carriers, ReceiveMessage(c) PROVE PeerInv'
<1> DEFINE m == carriers[c].message
<1>1. UNCHANGED <<now, view, sender, call, sent, proofs, calls>> /\ Pending(c, "message")
  BY DEF ReceiveMessage
<1>2. "message" \in Phases /\ "recipient-intake" \in Outcomes /\ "refused" \in Outcomes
  BY DEF Phases, Outcomes
<1>3. faults' \in 0..MaxFaults BY FaultCounts, SentFacts DEF ReceiveMessage, Fine
<1>4. m # None /\ m \in Messages /\ m \in Carriers
  <2>1. <<c, "message">> \in sent BY <1>1 DEF Pending
  <2>2. c \in DOMAIN stages BY <2>1, SentFacts
  <2>3. m # None BY <2>2 DEF PeerInv, StagesOK
  <2>4. carriers[c] \in Rows BY DEF PeerInv, OutboxOK
  <2> QED BY <2>3, <2>4 DEF Messages, Rows
<1>5. inbox \in Seq(Carriers) /\ Range(inbox) \subseteq Messages \ {None} /\ settled \in BOOLEAN
  BY DEF PeerInv, Shapes
<1> HIDE DEF m
<1>6. \/ inbox' = Append(inbox, m)
      \/ UNCHANGED inbox
  BY DEF ReceiveMessage, m
<1>7. /\ inbox' \in Seq(Carriers) /\ Range(inbox') \subseteq Messages \ {None}
      /\ Range(inbox) \subseteq Range(inbox')
  <2>1. CASE inbox' = Append(inbox, m)
    <3>1. inbox' \in Seq(Carriers) /\ Range(inbox') = Range(inbox) \cup {m}
      BY <1>4, <1>5, <2>1, AppendRange
    <3> QED BY <1>4, <1>5, <3>1
  <2>2. CASE UNCHANGED inbox BY <1>5, <2>2
  <2> QED BY <1>6, <2>1, <2>2
<1>8. settled' \in BOOLEAN /\ (settled => settled') BY <1>5 DEF ReceiveMessage
<1>9. \/ UNCHANGED answers
      \/ /\ \E o \in Outcomes : Answer(c, "message", o)
         /\ answers'[<<c, "message">>] = "recipient-intake" =>
               m \in Range(inbox') /\ (c[1] \in Replies => settled')
  <2>1. CASE /\ inbox' = IF m \in Range(inbox) THEN inbox ELSE Append(inbox, m)
             /\ Answer(c, "message", "recipient-intake")
             /\ settled' = (settled \/ m[1] \in Replies)
    <3>1. m \in Range(inbox') BY <1>4, <1>5, <2>1, AppendRange
    <3>2. m[1] = c[1]
      <4>1. m = Message(carriers, c) BY <1>4 DEF PeerInv, OutboxOK, m
      <4>2. <<c[1], 1>>[1] = c[1] OBVIOUS
      <4> QED BY <4>1, <4>2 DEF Message
    <3> QED BY <1>2, <2>1, <3>1, <3>2
  <2>2. CASE Answer(c, "message", "refused")
    <3>1. answers'[<<c, "message">>] = "refused" BY <1>1, <1>2, <2>2, AnswerOK
    <3> QED BY <1>2, <2>2, <3>1
  <2> QED BY <2>1, <2>2 DEF ReceiveMessage, m
<1>10. AnswersKept /\ DOMAIN answers' \subseteq sent /\ answers' \in [DOMAIN answers' -> Outcomes]
      /\ DOMAIN answers' \subseteq DOMAIN answers \cup {<<c, "message">>}
  <2>1. CASE UNCHANGED answers BY <2>1 DEF AnswersKept, PeerInv, WireOK
  <2>2. CASE \E o \in Outcomes : Answer(c, "message", o)
    <3>1. PICK o \in Outcomes : Answer(c, "message", o) BY <2>2
    <3>2. DOMAIN answers \subseteq sent BY DEF PeerInv, WireOK
    <3> QED BY <1>1, <1>2, <3>1, <3>2, AnswerOK
  <2> QED BY <1>9, <2>1, <2>2
<1>11. WireOK'
  <2> USE DEF sender
  <2>1. ASSUME NEW d \in DOMAIN carriers, <<d, "message">> \in DOMAIN answers',
               answers'[<<d, "message">>] = "recipient-intake"
        PROVE  carriers[d].message \in Range(inbox') /\ (d[1] \in Replies => settled')
    <3>1. CASE <<d, "message">> \in DOMAIN answers
      <4>1. answers[<<d, "message">>] = "recipient-intake" BY <1>10, <2>1, <3>1 DEF AnswersKept
      <4> QED BY <1>7, <1>8, <3>1, <4>1 DEF PeerInv, WireOK
    <3>2. CASE <<d, "message">> \notin DOMAIN answers
      <4>1. d = c /\ ~UNCHANGED answers BY <1>10, <2>1, <3>2
      <4> QED BY <1>9, <2>1, <4>1 DEF m
    <3> QED BY <3>1, <3>2
  <2>2. ASSUME NEW d \in DOMAIN carriers, <<d, "evidence">> \in DOMAIN answers',
               answers'[<<d, "evidence">>] = "recipient-intake"
        PROVE  \E e \in proofs : e.carrier = d
    <3>1. <<d, "evidence">> \in DOMAIN answers BY <1>10, <2>2
    <3>2. answers[<<d, "evidence">>] = "recipient-intake" BY <1>10, <2>2, <3>1 DEF AnswersKept
    <3> QED BY <3>1, <3>2 DEF PeerInv, WireOK
  <2>3. \A d \in DOMAIN carriers :
          <<d, "message">> \in sent => stages[d]["evidence"] = "recipient-intake"
    BY DEF PeerInv, WireOK
  <2>4. sent \subseteq (DOMAIN stages) \X Phases BY SentFacts
  <2> QED BY <1>1, <1>10, <2>1, <2>2, <2>3, <2>4 DEF WireOK
<1> QED BY <1>1, <1>3, <1>7, <1>8, <1>10, <1>11, RecipientMoves

LEMMA ReconcileKeeps == ASSUME PeerInv, Reconcile PROVE PeerInv'
<1>1. /\ UNCHANGED <<now, view, sender, call, sent, answers, proofs, inbox, calls, faults>>
      /\ settled \in BOOLEAN /\ settled' \in BOOLEAN /\ (settled => settled')
  BY DEF Reconcile, counters, PeerInv, Shapes
<1>2. WireOK' BY <1>1 DEF PeerInv, WireOK, sender
<1>3. AnswersKept BY <1>1 DEF AnswersKept
<1>4. inbox' \in Seq(Carriers) /\ Range(inbox') \subseteq Messages \ {None} /\ faults' \in 0..MaxFaults
  BY <1>1 DEF PeerInv, Shapes
<1> QED BY <1>1, <1>2, <1>3, <1>4, RecipientMoves

-----------------------------------------------------------------------------
(***************************************************************************)
(* The theorems.                                                           *)
(***************************************************************************)

LEMMA PeerStarts == Init => PeerInv
<1> SUFFICES ASSUME Init PROVE PeerInv OBVIOUS
<1> USE DEF Init
<1>1. /\ DOMAIN carriers = {} /\ DOMAIN stages = {} /\ DOMAIN answers = {}
      /\ inbox \in Seq(Carriers) /\ Range(inbox) = {}
  BY DEF Range
<1>2. Shapes
  <2>1. 0 \in 0..MaxTime /\ 0 \in 0..MaxCalls /\ 0 \in 0..MaxFaults /\ 1 \in 1..Versions
    BY PeerAssumption
  <2>2. view \in [{"sender", "recipient"} -> 1..Versions] BY <2>1
  <2>3. call \in [Threads -> Calls] BY IdleIsCall
  <2> QED BY <1>1, <2>1, <2>2, <2>3 DEF Shapes
<1>3. carriers \in [DOMAIN carriers -> Rows] /\ stages \in [DOMAIN stages -> [Phases -> Kinds]]
      /\ answers \in [DOMAIN answers -> Outcomes]
  BY <1>1
<1>4. OutboxOK(carriers, now) BY <1>1, <1>3 DEF OutboxOK
<1>5. StagesOK BY <1>1, <1>3 DEF StagesOK
<1>6. CallsOK BY DEF CallsOK, CallOK, Idle
<1>7. WireOK BY <1>1, <1>3 DEF WireOK
<1> QED BY <1>2, <1>4, <1>5, <1>6, <1>7 DEF PeerInv

LEMMA PeerSteps == PeerInv /\ [Next]_vars => PeerInv'
<1> SUFFICES ASSUME PeerInv, [Next]_vars PROVE PeerInv' OBVIOUS
<1>1. CASE UNCHANGED vars
  <2> USE <1>1 DEF vars, sender, recipient, counters
  <2>1. CallsOK' BY DEF PeerInv, CallsOK, CallOK
  <2>2. Shapes' BY DEF PeerInv, Shapes, Messages
  <2>3. OutboxOK(carriers', now') BY DEF PeerInv
  <2>4. StagesOK' BY DEF PeerInv, StagesOK, Recorded
  <2>5. WireOK' BY DEF PeerInv, WireOK
  <2> QED BY <2>1, <2>2, <2>3, <2>4, <2>5 DEF PeerInv
<1>2. ASSUME NEW t \in Threads, ThreadNext(t) PROVE PeerInv'
  BY <1>2, SendKeeps, PrepareKeeps, StagesKeeps, PhaseKeeps, WriteKeeps, AnsweredKeeps,
     GiveUpKeeps, RecordKeeps DEF ThreadNext
<1>3. ASSUME NEW c \in DOMAIN carriers, ReceiveEvidence(c) \/ ReceiveMessage(c) PROVE PeerInv'
  BY <1>3, ReceiveEvidenceKeeps, ReceiveMessageKeeps
<1>4. ASSUME NEW side \in DOMAIN view, Learn(side) PROVE PeerInv' BY <1>4, LearnKeeps
<1> QED BY <1>1, <1>2, <1>3, <1>4, CrashKeeps, ReconcileKeeps, TickKeeps DEF Next

LEMMA PeerAlways == Spec => []PeerInv
<1> QED BY PeerStarts, PeerSteps, PTL DEF Spec

LEMMA PeerMeans == PeerInv => SendsHold
<1> SUFFICES ASSUME PeerInv PROVE SendsHold OBVIOUS
<1> USE DEF PeerInv
<1>0. /\ DOMAIN carriers \subseteq Carriers /\ carriers \in [DOMAIN carriers -> Rows]
      /\ \A c \in DOMAIN carriers : c \in Carriers /\ carriers[c] \in Rows
  BY DEF OutboxOK
<1>1. TypeOK
  <2>1. ASSUME NEW c \in DOMAIN carriers
        PROVE  /\ carriers[c] \in [policy: 1..Versions, issued: 0..MaxTime,
                                   expires: Nat, message: authored \cup {None}]
               /\ c[2] > 1 => <<c[1], c[2] - 1>> \in DOMAIN carriers
    <3>1. carriers[c] \in Rows /\ carriers[c].message \in authored \cup {None}
      BY <1>0 DEF Shapes
    <3>2. c[2] \in Nat /\ \A g \in 1..c[2] : <<c[1], g>> \in DOMAIN carriers
      BY <1>0, CarrierFacts DEF OutboxOK
    <3>3. c[2] > 1 => c[2] - 1 \in 1..c[2] BY <3>2
    <3> QED BY <3>1, <3>2, <3>3 DEF Rows
  <2>2. /\ DOMAIN stages \subseteq {c \in DOMAIN carriers : carriers[c].message # None}
        /\ \A c \in DOMAIN stages : stages[c] \in [Phases -> Open \cup Outcomes]
    BY DEF StagesOK, Kinds
  <2>3. \A t \in Threads : call[t].pc \in Places BY DEF Shapes, Calls
  <2>4. sent \subseteq (DOMAIN stages) \X Phases /\ DOMAIN answers \subseteq sent
        /\ Range(answers) \subseteq Outcomes
    BY DEF WireOK, Range
  <2>5. Range(inbox) \subseteq authored BY DEF Shapes, Messages
  <2> QED BY <1>0, <2>1, <2>2, <2>3, <2>4, <2>5 DEF TypeOK, Shapes, Places
<1>2. RecordedIsHeld
  <2> SUFFICES ASSUME NEW c \in DOMAIN stages
               PROVE  /\ stages[c]["evidence"] = "recipient-intake" => \E e \in proofs : e.carrier = c
                      /\ stages[c]["message"] = "recipient-intake" => carriers[c].message \in Range(inbox)
    BY DEF RecordedIsHeld
  <2>1. c \in DOMAIN carriers BY DEF StagesOK
  <2>2. \A p \in Phases : stages[c][p] = "recipient-intake" =>
            <<c, p>> \in DOMAIN answers /\ answers[<<c, p>>] = "recipient-intake"
    BY DEF StagesOK, Outcomes
  <2> QED BY <2>1, <2>2 DEF WireOK, Phases
<1>3. MessageFollowsEvidence BY DEF MessageFollowsEvidence, WireOK
<1>4. OneCompleteCarrier
  <2> SUFFICES ASSUME NEW c \in DOMAIN carriers, NEW d \in DOMAIN carriers,
                      c[1] = d[1], Recorded(c), Recorded(d)
               PROVE  c = d
    BY DEF OneCompleteCarrier
  <2>1. ~(c[2] < d[2]) /\ ~(d[2] < c[2]) BY DEF StagesOK
  <2> QED BY <1>0, <2>1, CarrierFacts
<1>5. RenewalKeepsMessage
  <2> SUFFICES ASSUME NEW s \in Sends, <<s, 1>> \in DOMAIN carriers,
                      carriers[<<s, 1>>].message # None
               PROVE  /\ \A c \in DOMAIN carriers :
                            c[1] = s => carriers[c].message \in {None, carriers[<<s, 1>>].message}
                      /\ \A m \in Range(inbox) : m[1] = s => m = carriers[<<s, 1>>].message
    BY DEF RenewalKeepsMessage
  <2>1. carriers[<<s, 1>>].message = <<s, 1>>
    <3>1. carriers[<<s, 1>>].message \in {None, Message(carriers, <<s, 1>>)} BY DEF OutboxOK
    <3> QED BY <3>1 DEF Message
  <2>2. ASSUME NEW c \in DOMAIN carriers, c[1] = s
        PROVE  carriers[c].message \in {None, <<s, 1>>}
    BY <2>1, <2>2 DEF OutboxOK, Message
  <2>3. ASSUME NEW m \in Range(inbox), m[1] = s PROVE m = <<s, 1>>
    <3>1. PICK c \in DOMAIN carriers : m = carriers[c].message /\ m # None
      BY DEF Shapes, Messages
    <3>2. m = c \/ m = <<c[1], 1>> BY <3>1 DEF OutboxOK, Message
    <3>3. c[1] = s BY <2>3, <3>2
    <3> QED BY <2>2, <3>1, <3>3
  <2> QED BY <2>1, <2>2, <2>3
<1>6. AnsweredReplySettles
  <2> SUFFICES ASSUME NEW r \in DOMAIN answers, r[2] = "message",
                      answers[r] = "recipient-intake", r[1][1] \in Replies
               PROVE  settled
    BY DEF AnsweredReplySettles
  <2>1. r[1] \in DOMAIN stages /\ r = <<r[1], "message">> BY SentFacts DEF WireOK
  <2>2. r[1] \in DOMAIN carriers BY <2>1 DEF StagesOK
  <2> QED BY <2>1, <2>2 DEF WireOK
<1> QED BY <1>1, <1>2, <1>3, <1>4, <1>5, <1>6 DEF SendsHold

\* What the sender recorded is true of the recipient, a message follows its
\* evidence, one carrier of a send completes, and renewal keeps the message
\* (messaging.py: MessagingSender, MessagingDelivery, MessagingChannel).
THEOREM SendsStaySound == Spec => []SendsHold
<1> QED BY PeerAlways, PeerMeans, PTL

\* The step that SendOutcomesStay is about.
OutcomesKept ==
    \A c \in DOMAIN stages : \A p \in Phases :
        stages[c][p] \in Outcomes => stages'[c][p] = stages[c][p]
LEMMA OutcomeSteps == PeerInv /\ [Next]_vars => [OutcomesKept]_vars
<1> SUFFICES ASSUME PeerInv, Next PROVE OutcomesKept BY DEF OutcomesKept
<1>1. ASSUME NEW t \in Threads, Phase(t) \/ Record(t) PROVE OutcomesKept
  <2>1. stages \in [DOMAIN stages -> [Phases -> Kinds]] BY DEF PeerInv, StagesOK
  <2>2. UNCHANGED stages \/ \E w \in {"pending", call[t].result} :
            stages' = [stages EXCEPT ![call[t].carrier][call[t].phase] =
                          Status(call[t].carrier, call[t].phase, w)]
    BY <1>1 DEF Phase, Record
  <2> QED BY <2>1, <2>2 DEF OutcomesKept, Status, Open, Outcomes
<1>2. ASSUME NEW t \in Threads, Stages(t) PROVE OutcomesKept
  BY <1>2 DEF OutcomesKept, Stages, Put
<1>3. CASE UNCHANGED stages BY <1>3 DEF OutcomesKept
<1>4. ASSUME NEW t \in Threads, ThreadNext(t) PROVE OutcomesKept
  <2>1. (\E s \in Sends : Send(t, s)) \/ Write(t) \/ Answered(t) \/ GiveUp(t) \/ Prepare(t)
            => UNCHANGED stages
    BY DEF Send, Prepare, Write, Answered, GiveUp, sender
  <2> QED BY <1>1, <1>2, <1>3, <1>4, <2>1 DEF ThreadNext
<1>5. ASSUME NEW c \in DOMAIN carriers, ReceiveEvidence(c) \/ ReceiveMessage(c)
      PROVE  UNCHANGED stages
  BY <1>5 DEF ReceiveEvidence, ReceiveMessage, sender
<1>6. Crash \/ Reconcile \/ Tick \/ (\E side \in DOMAIN view : Learn(side)) => UNCHANGED stages
  BY DEF Crash, Reconcile, Tick, Learn, sender
<1> QED BY <1>3, <1>4, <1>5, <1>6 DEF Next

\* An outcome the sender recorded for a stage is never replaced, whatever other
\* calls of the same send do (messaging_store.py: _transport_status).
THEOREM SendOutcomesStay == Spec => OutcomesStay
<1>1. [OutcomesKept]_vars => [\A c \in DOMAIN stages : \A p \in Phases :
          stages[c][p] \in Outcomes => stages'[c][p] = stages[c][p]]_vars
  BY DEF OutcomesKept
<1> QED BY <1>1, PeerAlways, OutcomeSteps, PTL DEF Spec, OutcomesStay
=============================================================================
