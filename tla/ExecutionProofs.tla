--------------------------- MODULE ExecutionProofs ---------------------------
(***************************************************************************)
(* What TLAPS proves about Execution, for any instructions, sessions,      *)
(* limits, accounts, clocks and plans.                                     *)
(*                                                                         *)
(* ExecInv is inductive.  Its parts say that the calls of a cycle are      *)
(* numbered and the cycles of a session exclude each other (JournalOK),    *)
(* that what is under submission has not left (DispatchOK), and that a     *)
(* turn is started once and known to be over before its cycle is           *)
(* (RunnerOK).                                                             *)
(*                                                                         *)
(* SpendInv is inductive relative to it.  The ceilings hold of everything  *)
(* reserved (CeilingsHold), and what left the host is part of that: every  *)
(* paid call of a session that requires funding is charged (BooksOK).      *)
(* Work is queued under a policy (QueueOK), keeps to one cycle (LinksOK)   *)
(* and within its policy (BacklogOK).                                      *)
(***************************************************************************)
EXTENDS Execution, FiniteSetTheorems, SequenceTheorems, TLAPS

\* A cycle of the journal.
Row == [draft: Drafts, slot: Nat, state: InFlight \cup Terminal, deadline: Nat, generation: Nat]

\* The calls of a cycle are numbered from one without repetition and stay within
\* its limits, and of the cycles of one session at most one is in flight.
JournalOK ==
    /\ cycles \in Seq(Row) /\ IsFiniteSet(ops)
    /\ \A op \in ops : op.n <= Cardinality(Issued(op.cycle, op.kind))
    /\ \A c \in Cycle, kind \in Kinds : Cardinality(Issued(c, kind)) <= Limit(c, kind)
    /\ \A c, e \in Cycle :
          Session(c) = Session(e) /\ cycles[c].state \in InFlight /\ cycles[e].state \in InFlight
              => c = e

\* What is under submission has not left, and its cycle is held.
DispatchOK ==
    /\ dispatching \cap sent = {}
    /\ \A op \in dispatching : op.cycle \in held

\* The inference of c was submitted, or its submission failed.
Begun(c) == \E op \in ops \ dispatching : op.cycle = c /\ op.kind = "inference"

\* A turn is started once; what ended it is known before its cycle is over.
RunnerOK ==
    /\ DOMAIN runtime \subseteq Cycle
    /\ \A c \in turns \cup settled \cup DOMAIN worker : Begun(c)
    /\ settled \cap turns = {}
    /\ \A c \in DOMAIN worker : worker[c] # "run" => c \notin turns
    /\ \A c \in turns : cycles[c].state \in InFlight
    /\ \A c \in DOMAIN enforcing : enforcing[c] = "finish" => c \in settled

\* What was answered as stopped is cancelled for good.
CancelledOK == \A d \in stopped : instr[d].state = "cancelled"

ExecInv == TypeOK /\ JournalOK /\ DispatchOK /\ RunnerOK /\ CancelledOK /\ StoppedMeansStopped

-----------------------------------------------------------------------------
(* Sums over finite sets. *)

\* Numbers have no infinite descent (stated without an operator parameter).
LEMMA LeastNumber ==
    ASSUME NEW T, T \subseteq Nat, T # {}
    PROVE  \E n \in T : \A m \in T : ~(m < n)
<1> DEFINE R == OpToRel(<, Nat)
<1>1. IsWellFoundedOn(R, Nat) BY NatLessThanWellFounded
<1> HIDE DEF R
<1>2. PICK n \in T : \A m \in T : <<m, n>> \notin R BY <1>1, WFMin
<1> USE DEF R
<1>3. \A m \in T : ~(m < n) BY <1>2 DEF OpToRel
<1> QED BY <1>3

\* What holds of the empty set and survives the addition of an element holds of
\* a finite set; F is the set of the subsets it holds of.
LEMMA FiniteGrowth ==
    ASSUME NEW S, IsFiniteSet(S), NEW F, {} \in F,
           \A T \in SUBSET S : T \in F => \A x \in S \ T : T \cup {x} \in F
    PROVE  S \in F
<1> DEFINE Left == {n \in Nat : \E T \in SUBSET S : T \in F /\ Cardinality(S \ T) = n}
<1>1. Left \subseteq Nat /\ Cardinality(S) \in Left
  <2>1. S \ {} = S /\ {} \in SUBSET S OBVIOUS
  <2> QED BY <2>1, FS_CardinalityType
<1>2. PICK n \in Left : \A m \in Left : ~(m < n) BY <1>1, LeastNumber
<1>3. PICK T \in SUBSET S : T \in F /\ Cardinality(S \ T) = n BY <1>2
<1>4. IsFiniteSet(S \ T) /\ n \in Nat
  <2>1. S \ T \subseteq S OBVIOUS
  <2> QED BY <1>3, <2>1, FS_Subset, FS_CardinalityType
<1>5. ASSUME NEW x \in S \ T PROVE FALSE
  <2>1. T \cup {x} \in F /\ T \cup {x} \in SUBSET S BY <1>3
  <2>2. S \ (T \cup {x}) = (S \ T) \ {x} OBVIOUS
  <2>3. Cardinality((S \ T) \ {x}) = Cardinality(S \ T) - 1 BY <1>4, FS_RemoveElement
  <2>4. n # 0 BY <1>3, <1>4, FS_EmptySet
  <2>5. n - 1 \in Nat /\ n - 1 < n BY <1>4, <2>4
  <2>6. n - 1 \in Left BY <1>3, <2>1, <2>2, <2>3, <2>5
  <2> QED BY <1>2, <2>5, <2>6
<1>6. S = T BY <1>5
<1> QED BY <1>3, <1>6

\* g gives the sum of f over every subset of S, whatever element is taken first.
Sums(g, f, S) ==
    /\ g \in [SUBSET S -> Nat] /\ g[{}] = 0
    /\ \A s \in SUBSET S : \A x \in s : g[s] = f[x] + g[s \ {x}]

\* The recursion of SumFunction.
First(s) == CHOOSE x \in s : TRUE
Adds(g, f, S) == g = [s \in SUBSET S |-> IF s = {} THEN 0 ELSE f[First(s)] + g[s \ {First(s)}]]

\* Sums exist.
LEMMA SumsExist ==
    ASSUME NEW S, IsFiniteSet(S), NEW f \in [S -> Nat]
    PROVE  \E g : Sums(g, f, S)
<1> DEFINE F == {T \in SUBSET S : \E g : Sums(g, f, T)}
<1>1. {} \in F
  <2>1. Sums([s \in SUBSET {} |-> 0], f, {}) BY DEF Sums
  <2> QED BY <2>1
<1>2. ASSUME NEW T \in SUBSET S, T \in F, NEW x \in S \ T PROVE T \cup {x} \in F
  <2>1. PICK g : Sums(g, f, T) BY <1>2
  <2> DEFINE h == [s \in SUBSET (T \cup {x}) |-> IF x \in s THEN f[x] + g[s \ {x}] ELSE g[s]]
  <2>2. \A s \in SUBSET (T \cup {x}) : s \ {x} \in SUBSET T /\ (x \notin s => s \in SUBSET T) OBVIOUS
  <2>3. \A s \in SUBSET T : g[s] \in Nat BY <2>1 DEF Sums
  <2>4. h \in [SUBSET (T \cup {x}) -> Nat] BY <2>2, <2>3
  <2>5. h[{}] = 0 BY <2>1 DEF Sums
  <2>6. ASSUME NEW s \in SUBSET (T \cup {x}), NEW y \in s PROVE h[s] = f[y] + h[s \ {y}]
    <3>1. s \ {y} \in SUBSET (T \cup {x}) /\ y \in S OBVIOUS
    <3>2. f[x] \in Nat /\ f[y] \in Nat BY <3>1
    <3>3. CASE y = x
      <4>1. h[s] = f[x] + g[s \ {x}] BY <3>3
      <4>2. h[s \ {x}] = g[s \ {x}] BY <3>1, <3>3
      <4> QED BY <3>3, <4>1, <4>2
    <3>4. CASE y # x /\ x \notin s
      <4>1. h[s] = g[s] /\ h[s \ {y}] = g[s \ {y}] BY <3>1, <3>4
      <4>2. g[s] = f[y] + g[s \ {y}] BY <2>1, <2>2, <3>4 DEF Sums
      <4> QED BY <4>1, <4>2
    <3>5. CASE y # x /\ x \in s
      <4>1. h[s] = f[x] + g[s \ {x}] BY <3>5
      <4>2. h[s \ {y}] = f[x] + g[(s \ {y}) \ {x}] BY <3>1, <3>5
      <4>3. (s \ {y}) \ {x} = (s \ {x}) \ {y} /\ y \in s \ {x} /\ s \ {x} \in SUBSET T BY <2>2, <3>5
      <4>4. g[s \ {x}] = f[y] + g[(s \ {x}) \ {y}] BY <2>1, <4>3 DEF Sums
      <4>5. g[(s \ {x}) \ {y}] \in Nat BY <2>3, <4>3
      <4>6. \A k, m, n \in Nat : k + (m + n) = m + (k + n) OBVIOUS
      <4>7. f[x] + (f[y] + g[(s \ {x}) \ {y}]) = f[y] + (f[x] + g[(s \ {x}) \ {y}])
        BY <3>2, <4>5, <4>6
      <4> HIDE DEF h
      <4> QED BY <4>1, <4>2, <4>3, <4>4, <4>7
    <3> QED BY <3>3, <3>4, <3>5
  <2> HIDE DEF h
  <2>7. Sums(h, f, T \cup {x}) BY <2>4, <2>5, <2>6 DEF Sums
  <2> QED BY <2>7
<1> HIDE DEF F
<1>3. S \in F BY <1>1, <1>2, FiniteGrowth
<1> QED BY <1>3 DEF F

\* They are a solution of the recursion.
LEMMA SumsAdd ==
    ASSUME NEW S, NEW f, NEW g, Sums(g, f, S)
    PROVE  Adds(g, f, S)
<1>1. \A s \in SUBSET S : s # {} => First(s) \in s BY DEF First
<1>2. \A s \in SUBSET S : g[s] = IF s = {} THEN 0 ELSE f[First(s)] + g[s \ {First(s)}]
  BY <1>1 DEF Sums
<1> QED BY <1>2 DEF Sums, Adds

\* The only one.
LEMMA AddsIsSums ==
    ASSUME NEW S, IsFiniteSet(S), NEW f \in [S -> Nat], NEW h, Adds(h, f, S)
    PROVE  Sums(h, f, S)
<1>1. PICK g : Sums(g, f, S) BY SumsExist
<1>2. \A s \in SUBSET S : g[s] = IF s = {} THEN 0 ELSE f[First(s)] + g[s \ {First(s)}]
  <2>1. Adds(g, f, S) BY <1>1, SumsAdd
  <2> QED BY <2>1 DEF Adds
<1>3. \A s \in SUBSET S : h[s] = IF s = {} THEN 0 ELSE f[First(s)] + h[s \ {First(s)}]
  BY DEF Adds
<1> DEFINE Bad == {n \in Nat : \E s \in SUBSET S : h[s] # g[s] /\ Cardinality(s) = n}
<1>4. Bad = {}
  <2>1. SUFFICES ASSUME Bad # {} PROVE FALSE OBVIOUS
  <2>2. PICK n \in Bad : \A m \in Bad : ~(m < n) BY <2>1, LeastNumber
  <2>3. PICK s \in SUBSET S : h[s] # g[s] /\ Cardinality(s) = n BY <2>2
  <2>4. s # {} /\ IsFiniteSet(s) BY <1>2, <1>3, <2>3, FS_Subset
  <2>5. First(s) \in s /\ s \ {First(s)} \in SUBSET S BY <2>4 DEF First
  <2>6. h[s \ {First(s)}] # g[s \ {First(s)}] BY <1>2, <1>3, <2>3, <2>4
  <2>7. Cardinality(s \ {First(s)}) = n - 1 /\ n \in Nat BY <2>2, <2>3, <2>4, <2>5, FS_RemoveElement
  <2>8. n # 0 BY <2>3, <2>4, FS_EmptySet
  <2>9. n - 1 \in Nat /\ n - 1 < n BY <2>7, <2>8
  <2>10. n - 1 \in Bad BY <2>5, <2>6, <2>7, <2>9
  <2> QED BY <2>2, <2>9, <2>10
<1>5. \A s \in SUBSET S : h[s] = g[s]
  <2>1. \A s \in SUBSET S : Cardinality(s) \in Nat BY FS_Subset, FS_CardinalityType
  <2> QED BY <1>4, <2>1
<1>6. h = g BY <1>1, <1>5 DEF Sums, Adds
<1> QED BY <1>1, <1>6

\* SumFunction computes them.
LEMMA SumIsSums ==
    ASSUME NEW S, IsFiniteSet(S), NEW f \in [S -> Nat]
    PROVE  \E g : Sums(g, f, S) /\ SumFunction(f) = g[S]
<1> DEFINE iter[s \in SUBSET S] == IF s = {} THEN 0 ELSE f[First(s)] + iter[s \ {First(s)}]
<1>1. SumFunction(f) = iter[S]
  <2>1. DOMAIN f = S OBVIOUS
  <2>2. SumFunctionOnSet(f, S) = iter[S]
    BY DEF SumFunctionOnSet, FoldFunctionOnSet, MapThenFoldSet, First
  <2> QED BY <2>1, <2>2 DEF SumFunction
<1>2. iter = CHOOSE g : g = [s \in SUBSET S |-> IF s = {} THEN 0 ELSE f[First(s)] + g[s \ {First(s)}]]
  BY DEF iter
<1> HIDE DEF iter
<1>3. \E g : Adds(g, f, S) BY SumsExist, SumsAdd
<1>4. Adds(iter, f, S) BY <1>2, <1>3 DEF Adds
<1> QED BY <1>1, <1>4, AddsIsSums

\* A smaller function has a smaller sum over a smaller set.
LEMMA SumsGrow ==
    ASSUME NEW S, IsFiniteSet(S), NEW T \in SUBSET S, NEW e \in [T -> Nat], NEW f \in [S -> Nat],
           \A x \in T : e[x] <= f[x], NEW g, NEW h, Sums(g, e, T), Sums(h, f, S)
    PROVE  g[T] <= h[S]
<1> DEFINE F == {s \in SUBSET S : g[s \cap T] <= h[s]}
<1>1. {} \in F
  <2>1. {} \cap T = {} /\ g[{}] = 0 /\ h[{}] = 0 BY DEF Sums
  <2> QED BY <2>1
<1>2. ASSUME NEW s \in SUBSET S, s \in F, NEW x \in S \ s PROVE s \cup {x} \in F
  <2>1. h[s \cup {x}] = f[x] + h[s]
    <3>1. s \cup {x} \in SUBSET S /\ x \in s \cup {x} /\ (s \cup {x}) \ {x} = s BY <1>2
    <3> QED BY <3>1 DEF Sums
  <2>2. h[s] \in Nat /\ f[x] \in Nat /\ g[s \cap T] \in Nat BY DEF Sums
  <2>3. g[s \cap T] <= h[s] BY <1>2
  <2>4. CASE x \in T
    <3>1. /\ (s \cup {x}) \cap T \in SUBSET T /\ x \in (s \cup {x}) \cap T
          /\ ((s \cup {x}) \cap T) \ {x} = s \cap T
      BY <1>2, <2>4
    <3>5. \A t \in SUBSET T : \A y \in t : g[t] = e[y] + g[t \ {y}] BY DEF Sums
    <3>2. g[(s \cup {x}) \cap T] = e[x] + g[s \cap T] BY <3>1, <3>5
    <3>3. e[x] \in Nat /\ e[x] <= f[x] BY <2>4
    <3>4. g[(s \cup {x}) \cap T] <= h[s \cup {x}] BY <2>1, <2>2, <2>3, <3>2, <3>3
    <3> QED BY <3>4
  <2>5. CASE x \notin T
    <3>1. (s \cup {x}) \cap T = s \cap T BY <2>5
    <3>2. g[s \cap T] <= f[x] + h[s] BY <2>2, <2>3
    <3> QED BY <2>1, <3>1, <3>2
  <2> QED BY <2>4, <2>5
<1> HIDE DEF F
<1>3. S \in F BY <1>1, <1>2, FiniteGrowth
<1>4. S \cap T = T OBVIOUS
<1> QED BY <1>3, <1>4 DEF F

\* So the sum of a smaller function over a smaller set is smaller.
LEMMA SumMonotone ==
    ASSUME NEW S, IsFiniteSet(S), NEW T \in SUBSET S, NEW e \in [T -> Nat], NEW f \in [S -> Nat],
           \A x \in T : e[x] <= f[x]
    PROVE  SumFunction(e) \in Nat /\ SumFunction(f) \in Nat /\ SumFunction(e) <= SumFunction(f)
<1>1. IsFiniteSet(T) BY FS_Subset
<1>2. PICK g : Sums(g, e, T) /\ SumFunction(e) = g[T] BY <1>1, SumIsSums
<1>3. PICK h : Sums(h, f, S) /\ SumFunction(f) = h[S] BY SumIsSums
<1>4. g[T] <= h[S] BY <1>2, <1>3, SumsGrow
<1>5. g[T] \in Nat /\ h[S] \in Nat BY <1>2, <1>3 DEF Sums
<1> QED BY <1>2, <1>3, <1>4, <1>5

\* One more element adds at most its value.
LEMMA SumOneMore ==
    ASSUME NEW S, IsFiniteSet(S), NEW x, NEW e \in [S -> Nat], NEW f \in [S \cup {x} -> Nat],
           \A y \in S \ {x} : f[y] = e[y]
    PROVE  SumFunction(f) \in Nat /\ SumFunction(e) \in Nat /\ SumFunction(f) <= f[x] + SumFunction(e)
<1> DEFINE R == S \ {x}
           r == [y \in R |-> e[y]]
<1>1. IsFiniteSet(S \cup {x}) /\ IsFiniteSet(R) /\ R \in SUBSET S BY FS_AddElement, FS_RemoveElement
<1>2. r \in [R -> Nat] OBVIOUS
<1>3. PICK h : Sums(h, f, S \cup {x}) /\ SumFunction(f) = h[S \cup {x}] BY <1>1, SumIsSums
<1>4. h[S \cup {x}] = f[x] + h[R]
  <2>1. S \cup {x} \in SUBSET (S \cup {x}) /\ x \in S \cup {x} /\ (S \cup {x}) \ {x} = R OBVIOUS
  <2> QED BY <1>3, <2>1 DEF Sums
<1>5. Sums([s \in SUBSET R |-> h[s]], r, R)
  <2> DEFINE k == [s \in SUBSET R |-> h[s]]
  <2>1. \A s \in SUBSET (S \cup {x}) : h[s] \in Nat /\ \A y \in s : h[s] = f[y] + h[s \ {y}]
    BY <1>3 DEF Sums
  <2>2. k \in [SUBSET R -> Nat] BY <2>1
  <2>3. k[{}] = 0 BY <1>3 DEF Sums
  <2>4. ASSUME NEW s \in SUBSET R, NEW y \in s PROVE k[s] = r[y] + k[s \ {y}]
    <3>1. s \in SUBSET (S \cup {x}) /\ s \ {y} \in SUBSET R OBVIOUS
    <3>2. r[y] = f[y] OBVIOUS
    <3>3. k[s] = h[s] /\ k[s \ {y}] = h[s \ {y}] BY <3>1
    <3> QED BY <2>1, <3>1, <3>2, <3>3
  <2> HIDE DEF k, r, R
  <2>5. Sums(k, r, R) BY <2>2, <2>3, <2>4 DEF Sums
  <2> QED BY <2>5 DEF k
<1>6. PICK g : Sums(g, e, S) /\ SumFunction(e) = g[S] BY SumIsSums
<1>7. h[R] <= g[S]
  <2>1. \A y \in R : r[y] <= e[y] OBVIOUS
  <2>2. [s \in SUBSET R |-> h[s]][R] <= g[S] BY <1>1, <1>2, <1>5, <1>6, <2>1, SumsGrow
  <2> QED BY <2>2
<1>8. h[R] \in Nat /\ g[S] \in Nat /\ f[x] \in Nat
  <2>1. R \in SUBSET (S \cup {x}) OBVIOUS
  <2> QED BY <1>3, <1>6, <2>1 DEF Sums
<1> QED BY <1>3, <1>4, <1>6, <1>7, <1>8

-----------------------------------------------------------------------------
(* What a step does to each table. *)

Authorizes ==
    /\ plan' = plan
    /\ UNCHANGED <<wall, rollbacks>> \/ Tick \/ RollBack
    /\ highWater' \in {highWater, wall} /\ clockFault' \in {clockFault, TRUE}
    /\ \/ instr' = instr
       \/ \E d \in plan.drafts : Propose(d) \/ Approve(d) \/ Cancel(d) \/ Expire(d)
       \/ \E c \in DOMAIN worker : WorkerFinish(c)
       \/ \E c \in DOMAIN enforcing : EnforceFinish(c)
    /\ account' = account \/ \E a \in plan.accounts : GrantBudget(a) \/ ControlFunding(a)
    /\ funded' = funded \/ \E d \in plan.drafts : FundInstruction(d)
    /\ policies' = policies \/ \E a \in plan.accounts : ConfigureEpisode(a) \/ EpisodeNotice(a)
    /\ \/ work' = work
       \/ \E w \in plan.work : EnqueueCoordination(w) \/ WithdrawCoordination(w)
       \/ \E d \in plan.drafts, w \in plan.work \cup {None} : Reserve(d, w)
    /\ stopped' = stopped \/ \E d \in plan.drafts : CancelActive(d)
    /\ crashes' = crashes \/ Crash

Journals ==
    /\ \/ cycles' = cycles
       \/ \E d \in plan.drafts, w \in plan.work \cup {None} : Reserve(d, w)
       \/ \E c \in failing : MarkAmbiguous(c)
       \/ \E c \in DOMAIN worker : WorkerFinish(c) \/ WorkerMark(c)
       \/ \E c \in DOMAIN enforcing : EnforceMark(c) \/ EnforceFinish(c)
    /\ ops' = ops \/ \E c \in DOMAIN context : \E kind \in plan.kinds : DispatchIntent(c, kind)
    /\ returned' = returned \/ \E op \in dispatching : DispatchSubmit(op)
    /\ \/ charges' = charges
       \/ \E c \in DOMAIN charges : \E actual \in {0, Funding[cycles[c].draft].charge} :
            SettleCharge(c, actual)
       \/ \E c \in DOMAIN context : \E kind \in plan.kinds : DispatchIntent(c, kind)
    /\ \/ dispatching' = dispatching
       \/ \E c \in DOMAIN context : \E kind \in plan.kinds : DispatchIntent(c, kind)
       \/ \E op \in dispatching : DispatchSubmit(op) \/ SubmitRaises(op) \/ DispatchRefused(op)
       \/ Crash
    /\ \/ sent' = sent
       \/ \E op \in dispatching : DispatchSubmit(op) \/ SubmitRaises(op)
       \/ Crash

Controls ==
    /\ \/ context' = context
       \/ \E d \in plan.drafts, w \in plan.work \cup {None} : Reserve(d, w)
       \/ \E c \in DOMAIN context :
            \/ \E kind \in plan.kinds : DispatchIntent(c, kind)
            \/ StartDenied(c) \/ ContextFenced(c) \/ Enforce(c) \/ EnforceUnread(c)
       \/ \E c \in DOMAIN worker : WorkerFinish(c)
       \/ \E c \in DOMAIN enforcing : EnforceFinish(c)
       \/ Crash
    /\ \/ failing' = failing
       \/ \E op \in dispatching : SubmitRaises(op) \/ DispatchRefused(op)
       \/ \E c \in failing : MarkAmbiguous(c)
       \/ Crash
    /\ \/ enforcing' = enforcing
       \/ \E c \in DOMAIN context : Enforce(c) \/ EnforceUnread(c)
       \/ \E c \in DOMAIN enforcing :
            EnforceMark(c) \/ EnforceInterrupt(c) \/ EnforceFinish(c) \/ EnforceGivesUp(c)
       \/ Crash
    /\ held' = held \/ (\E d \in plan.drafts, w \in plan.work \cup {None} : Reserve(d, w)) \/ Crash
    /\ \/ UNCHANGED <<worker, settled, runtime, turns>>
       \/ \E op \in dispatching : DispatchSubmit(op) \/ SubmitRaises(op)
       \/ \E c \in DOMAIN worker :
            WorkerStops(c) \/ WorkerFinish(c) \/ WorkerRecord(c) \/ WorkerFail(c) \/ WorkerMark(c)
       \/ \E c \in turns : TurnKilled(c)
       \/ Crash

Writes == Authorizes /\ Journals /\ Controls

\* Every table is written by the steps that name it.
LEMMA WhoWrites ==
    ASSUME Next
    PROVE  Writes
<1> USE DEF clock, observed, authority, attempts, controller, runner, process, world
<1>1. ASSUME Tick PROVE Writes
  BY <1>1 DEF Tick, Observed, Observes, Writes, Authorizes, Journals, Controls
<1>2. ASSUME RollBack PROVE Writes
  BY <1>2 DEF RollBack, Observed, Observes, Writes, Authorizes, Journals, Controls
<1>3. ASSUME ObserveClock PROVE Writes
  BY <1>3 DEF ObserveClock, Observed, Observes, Writes, Authorizes, Journals, Controls
<1>4. ASSUME Crash PROVE Writes
  BY <1>4 DEF Crash, Observed, Observes, Writes, Authorizes, Journals, Controls
<1>5. ASSUME NEW d \in plan.drafts, Propose(d) PROVE Writes
  BY <1>5 DEF Propose, Observed, Observes, Writes, Authorizes, Journals, Controls
<1>6. ASSUME NEW d \in plan.drafts, Approve(d) PROVE Writes
  BY <1>6 DEF Approve, Observed, Observes, Writes, Authorizes, Journals, Controls
<1>7. ASSUME NEW d \in plan.drafts, Cancel(d) PROVE Writes
  BY <1>7 DEF Cancel, Observed, Observes, Writes, Authorizes, Journals, Controls
<1>8. ASSUME NEW d \in plan.drafts, Expire(d) PROVE Writes
  BY <1>8 DEF Expire, Observed, Observes, Writes, Authorizes, Journals, Controls
<1>9. ASSUME NEW d \in plan.drafts, FundInstruction(d) PROVE Writes
  BY <1>9 DEF FundInstruction, Observed, Observes, Writes, Authorizes, Journals, Controls
<1>10. ASSUME NEW d \in plan.drafts, CancelActive(d) PROVE Writes
  BY <1>10 DEF CancelActive, Observed, Observes, Writes, Authorizes, Journals, Controls
<1>11. ASSUME NEW d \in plan.drafts, NEW w \in plan.work \cup {None}, Reserve(d, w) PROVE Writes
  BY <1>11 DEF Reserve, Observed, Observes, Writes, Authorizes, Journals, Controls
<1>12. ASSUME NEW a \in plan.accounts, GrantBudget(a) PROVE Writes
  BY <1>12 DEF GrantBudget, Observed, Observes, Writes, Authorizes, Journals, Controls
<1>13. ASSUME NEW a \in plan.accounts, ControlFunding(a) PROVE Writes
  BY <1>13 DEF ControlFunding, Observed, Observes, Writes, Authorizes, Journals, Controls
<1>14. ASSUME NEW a \in plan.accounts, ConfigureEpisode(a) PROVE Writes
  BY <1>14 DEF ConfigureEpisode, Observed, Observes, Writes, Authorizes, Journals, Controls
<1>15. ASSUME NEW a \in plan.accounts, EpisodeNotice(a) PROVE Writes
  BY <1>15 DEF EpisodeNotice, Observed, Observes, Writes, Authorizes, Journals, Controls
<1>16. ASSUME NEW w \in plan.work, EnqueueCoordination(w) PROVE Writes
  BY <1>16 DEF EnqueueCoordination, Observed, Observes, Writes, Authorizes, Journals, Controls
<1>17. ASSUME NEW w \in plan.work, WithdrawCoordination(w) PROVE Writes
  BY <1>17 DEF WithdrawCoordination, Observed, Observes, Writes, Authorizes, Journals, Controls
<1>18. ASSUME NEW c \in DOMAIN charges, NEW actual \in {0, Funding[cycles[c].draft].charge}, SettleCharge(c, actual) PROVE Writes
  BY <1>18 DEF SettleCharge, Observed, Observes, Writes, Authorizes, Journals, Controls
<1>19. ASSUME NEW c \in DOMAIN context, NEW kind \in plan.kinds, DispatchIntent(c, kind) PROVE Writes
  BY <1>19 DEF DispatchIntent, Observed, Observes, Writes, Authorizes, Journals, Controls
<1>20. ASSUME NEW c \in DOMAIN context, StartDenied(c) PROVE Writes
  BY <1>20 DEF StartDenied, Observed, Observes, Writes, Authorizes, Journals, Controls
<1>21. ASSUME NEW c \in DOMAIN context, ContextFenced(c) PROVE Writes
  BY <1>21 DEF ContextFenced, Observed, Observes, Writes, Authorizes, Journals, Controls
<1>22. ASSUME NEW c \in DOMAIN context, Enforce(c) \/ EnforceUnread(c) PROVE Writes
  BY <1>22 DEF Enforce, EnforceUnread, Observed, Observes, Writes, Authorizes, Journals, Controls
<1>23. ASSUME NEW op \in dispatching, DispatchSubmit(op) PROVE Writes
  BY <1>23 DEF DispatchSubmit, Observed, Observes, Writes, Authorizes, Journals, Controls
<1>24. ASSUME NEW op \in dispatching, SubmitRaises(op) PROVE Writes
  BY <1>24 DEF SubmitRaises, Observed, Observes, Writes, Authorizes, Journals, Controls
<1>25. ASSUME NEW op \in dispatching, DispatchRefused(op) PROVE Writes
  BY <1>25 DEF DispatchRefused, Observed, Observes, Writes, Authorizes, Journals, Controls
<1>26. ASSUME NEW c \in failing, MarkAmbiguous(c) PROVE Writes
  BY <1>26 DEF MarkAmbiguous, Observed, Observes, Writes, Authorizes, Journals, Controls
<1>27. ASSUME NEW c \in DOMAIN worker, WorkerStops(c) PROVE Writes
  BY <1>27 DEF WorkerStops, Observed, Observes, Writes, Authorizes, Journals, Controls
<1>28. ASSUME NEW c \in DOMAIN worker, WorkerFinish(c) PROVE Writes
  BY <1>28 DEF WorkerFinish, Observed, Observes, Writes, Authorizes, Journals, Controls
<1>29. ASSUME NEW c \in DOMAIN worker, WorkerRecord(c) PROVE Writes
  BY <1>29 DEF WorkerRecord, Observed, Observes, Writes, Authorizes, Journals, Controls
<1>30. ASSUME NEW c \in DOMAIN worker, WorkerFail(c) PROVE Writes
  BY <1>30 DEF WorkerFail, Observed, Observes, Writes, Authorizes, Journals, Controls
<1>31. ASSUME NEW c \in DOMAIN worker, WorkerMark(c) PROVE Writes
  BY <1>31 DEF WorkerMark, Observed, Observes, Writes, Authorizes, Journals, Controls
<1>32. ASSUME NEW c \in DOMAIN enforcing, EnforceMark(c) PROVE Writes
  BY <1>32 DEF EnforceMark, Observed, Observes, Writes, Authorizes, Journals, Controls
<1>33. ASSUME NEW c \in DOMAIN enforcing, EnforceInterrupt(c) PROVE Writes
  BY <1>33 DEF EnforceInterrupt, Observed, Observes, Writes, Authorizes, Journals, Controls
<1>34. ASSUME NEW c \in DOMAIN enforcing, EnforceFinish(c) PROVE Writes
  BY <1>34 DEF EnforceFinish, Observed, Observes, Writes, Authorizes, Journals, Controls
<1>35. ASSUME NEW c \in DOMAIN enforcing, EnforceGivesUp(c) PROVE Writes
  BY <1>35 DEF EnforceGivesUp, Observed, Observes, Writes, Authorizes, Journals, Controls
<1>36. ASSUME NEW c \in turns, TurnKilled(c) PROVE Writes
  BY <1>36 DEF TurnKilled, Observed, Observes, Writes, Authorizes, Journals, Controls
<1> QED
  BY <1>1, <1>2, <1>3, <1>4, <1>5, <1>6, <1>7, <1>8, <1>9, <1>10, <1>11, <1>12, <1>13, <1>14, <1>15, <1>16, <1>17, <1>18, <1>19, <1>20, <1>21, <1>22, <1>23, <1>24, <1>25, <1>26, <1>27, <1>28, <1>29, <1>30, <1>31, <1>32, <1>33, <1>34, <1>35, <1>36
  DEF Next

-----------------------------------------------------------------------------
(* The cycles. *)

\* Cycles are numbered, held by contexts and runtimes, and have rows.
LEMMA CycleFacts ==
    ASSUME ExecInv
    PROVE  /\ Len(cycles) \in Nat /\ DOMAIN cycles = Cycle
           /\ \A c \in Cycle : cycles[c] \in Row
           /\ DOMAIN context \subseteq Cycle /\ failing \subseteq Cycle /\ DOMAIN enforcing \subseteq Cycle
           /\ DOMAIN runtime \subseteq Cycle /\ DOMAIN worker \subseteq Cycle /\ turns \subseteq Cycle
           /\ held \subseteq Cycle
           /\ \A op \in dispatching : op \in Op /\ op \in ops /\ op.cycle \in Cycle
           /\ plan \in Plan /\ plan.drafts \subseteq Drafts /\ wall \in Nat /\ plan.time \in Nat
<1> USE DEF ExecInv
<1>1. Len(cycles) \in Nat /\ DOMAIN cycles = Cycle /\ \A c \in Cycle : cycles[c] \in Row
  BY DEF JournalOK, Cycle
<1>2. /\ DOMAIN context \subseteq Cycle /\ failing \subseteq Cycle /\ DOMAIN enforcing \subseteq Cycle
      /\ DOMAIN runtime \subseteq Cycle /\ DOMAIN worker \subseteq Cycle /\ turns \subseteq Cycle
      /\ held \subseteq Cycle
  BY DEF TypeOK, RunnerOK
<1>3. \A op \in dispatching : op \in Op /\ op \in ops /\ op.cycle \in Cycle
  <2>1. ops \subseteq Op /\ dispatching \subseteq ops BY DEF TypeOK
  <2> QED BY <2>1 DEF Op
<1>4. plan \in Plan /\ plan.drafts \subseteq Drafts /\ wall \in Nat /\ plan.time \in Nat
  <2>1. plan \in Plan BY PlansAssumption DEF TypeOK
  <2>2. plan.drafts \subseteq Drafts /\ plan.time \in Nat BY <2>1 DEF Plan
  <2>3. wall \in 0..plan.time BY DEF TypeOK
  <2>4. wall \in Nat BY <2>2, <2>3
  <2> QED BY <2>1, <2>2, <2>4
<1> QED BY <1>1, <1>2, <1>3, <1>4

\* The time slots of a periodic instruction are numbers.
LEMMA SlotFacts ==
    ASSUME NEW d \in Drafts, wall \in Nat, Terms[d].start <= wall
    PROVE  Slot(d) \in Nat
<1>1. Terms[d].interval \in Nat /\ Terms[d].start \in Nat BY TermsAssumption
<1>2. CASE Terms[d].interval = 0 BY <1>2 DEF Slot
<1>3. CASE Terms[d].interval # 0
  <2>1. wall - Terms[d].start \in Nat BY <1>1
  <2>2. \A n \in Nat, k \in Nat \ {0} : n \div k \in Nat OBVIOUS
  <2> QED BY <1>1, <1>3, <2>1, <2>2 DEF Slot
<1> QED BY <1>2, <1>3

\* A row of the journal that stays keeps what it was reserved for; its state
\* moves on, and ends only when its turn is over.
RowKept(c) ==
    /\ cycles'[c].draft = cycles[c].draft /\ cycles'[c].slot = cycles[c].slot
    /\ cycles'[c].deadline = cycles[c].deadline /\ cycles'[c].generation = cycles[c].generation
    /\ \/ cycles'[c].state = cycles[c].state
       \/ cycles[c].state = "intent" /\ cycles'[c].state = "ambiguous"
       \/ cycles'[c].state \in Terminal /\ c \notin turns'

\* A row that is new finds its session free and, where its session must be, its
\* draft funded.
RowNew(c) ==
    /\ c = Len(cycles) + 1 /\ cycles'[c].state = "intent"
    /\ \A e \in Cycle : Session(e) = Terms[cycles'[c].draft].session => cycles[e].state \notin InFlight
    /\ Terms[cycles'[c].draft].session \in Strict \cup Selected => cycles'[c].draft \in funded

CyclesMove ==
    /\ cycles' \in Seq(Row)
    /\ Cycle \subseteq Cycle'
    /\ \A c \in Cycle : RowKept(c)
    /\ \A c \in Cycle' \ Cycle : RowNew(c)

\* How the journal of cycles moves.
LEMMA EveryCycleMoves ==
    ASSUME ExecInv, Next
    PROVE  CyclesMove
<1>1. Journals BY WhoWrites DEF Writes
<1>2. /\ Len(cycles) \in Nat /\ cycles \in Seq(Row)
      /\ failing \subseteq Cycle /\ DOMAIN enforcing \subseteq Cycle /\ DOMAIN worker \subseteq Cycle
  BY CycleFacts DEF ExecInv, JournalOK
<1>3. CASE cycles' = cycles BY <1>2, <1>3 DEF CyclesMove, RowKept, Cycle
<1>4. ASSUME NEW c \in Cycle, NEW s \in InFlight \cup Terminal, cycles' = [cycles EXCEPT ![c].state = s],
             \/ cycles[c].state = "intent" /\ s = "ambiguous"
             \/ s \in Terminal /\ c \notin turns'
      PROVE  CyclesMove
  <2>1. /\ cycles' \in Seq(Row) /\ Len(cycles') = Len(cycles) /\ cycles'[c].state = s
        /\ cycles'[c].draft = cycles[c].draft /\ cycles'[c].slot = cycles[c].slot
        /\ cycles'[c].deadline = cycles[c].deadline /\ cycles'[c].generation = cycles[c].generation
        /\ \A e \in Cycle \ {c} : cycles'[e] = cycles[e]
    <3>1. Len(cycles) \in Nat /\ cycles \in [Cycle -> Row] BY <1>2 DEF Cycle
    <3>2. cycles[c] \in Row BY <3>1
    <3>3. [cycles[c] EXCEPT !.state = s] \in Row BY <1>4, <3>2 DEF Row
    <3>4. cycles' = [cycles EXCEPT ![c] = [cycles[c] EXCEPT !.state = s]] BY <1>4
    <3>5. cycles' \in [Cycle -> Row] BY <3>1, <3>3, <3>4
    <3>6. cycles' \in Seq(Row) BY <3>1, <3>5, SeqDef DEF Cycle
    <3>7. Len(cycles') = Len(cycles) BY <3>1, <3>5, <3>6, LenProperties DEF Cycle
    <3>8. cycles'[c] = [cycles[c] EXCEPT !.state = s] /\ \A e \in Cycle \ {c} : cycles'[e] = cycles[e]
      BY <3>1, <3>4
    <3>9. /\ cycles'[c].state = s /\ cycles'[c].draft = cycles[c].draft
          /\ cycles'[c].slot = cycles[c].slot /\ cycles'[c].deadline = cycles[c].deadline
          /\ cycles'[c].generation = cycles[c].generation
      BY <3>2, <3>8 DEF Row
    <3> QED BY <3>6, <3>7, <3>8, <3>9
  <2>2. Cycle' = Cycle BY <2>1 DEF Cycle
  <2>3. \A e \in Cycle : RowKept(e) BY <1>4, <2>1 DEF RowKept
  <2> QED BY <2>1, <2>2, <2>3 DEF CyclesMove
<1>5. ASSUME NEW c \in Cycle, Ambiguous(c) PROVE CyclesMove
  <2>1. CASE cycles[c].state = "intent"
    <3>1. cycles' = [cycles EXCEPT ![c].state = "ambiguous"] BY <1>5, <2>1 DEF Ambiguous
    <3>2. "ambiguous" \in InFlight \cup Terminal BY DEF InFlight
    <3> QED BY <1>4, <2>1, <3>1, <3>2
  <2>2. CASE cycles[c].state # "intent" BY <1>3, <1>5, <2>2 DEF Ambiguous
  <2> QED BY <2>1, <2>2
<1>6. ASSUME NEW d \in plan.drafts, NEW w \in plan.work \cup {None}, Reserve(d, w) PROVE CyclesMove
  <2> DEFINE r == [draft |-> d, slot |-> Slot(d), state |-> "intent",
                   deadline |-> Lower(Terms[d].end, wall + Terms[d].secs),
                   generation |-> instr[d].generation]
  <2>1. cycles' = Append(cycles, r) BY <1>6 DEF Reserve
  <2>2. d \in Drafts /\ wall \in Nat BY CycleFacts
  <2>3. Slot(d) \in Nat BY <1>6, <2>2, SlotFacts DEF Reserve
  <2>4. Lower(Terms[d].end, wall + Terms[d].secs) \in Nat BY <2>2, TermsAssumption DEF Lower
  <2>5. instr[d].generation \in Nat BY <2>2 DEF ExecInv, TypeOK
  <2>6. r \in Row BY <2>2, <2>3, <2>4, <2>5 DEF Row, InFlight
  <2>7. r.draft = d /\ r.state = "intent" OBVIOUS
  <2> HIDE DEF r
  <2>8. /\ cycles' \in Seq(Row) /\ Len(cycles') = Len(cycles) + 1
        /\ \A e \in Cycle : cycles'[e] = cycles[e]
        /\ cycles'[Len(cycles) + 1] = r
    BY <1>2, <2>1, <2>6, AppendProperties DEF Cycle
  <2>9. Cycle' = Cycle \cup {Len(cycles) + 1} BY <1>2, <2>8 DEF Cycle
  <2>10. \A e \in Cycle : Session(e) = Terms[d].session => cycles[e].state \notin InFlight
    BY <1>6 DEF Reserve
  <2>11. \A e \in Cycle : RowKept(e) BY <2>8 DEF RowKept
  <2>12. Terms[d].session \in Strict \cup Selected => d \in funded BY <1>6 DEF Reserve
  <2>13. \A e \in Cycle' \ Cycle : RowNew(e) BY <2>7, <2>8, <2>9, <2>10, <2>12 DEF RowNew
  <2> QED BY <2>8, <2>9, <2>11, <2>13 DEF CyclesMove
<1>7. ASSUME NEW c \in failing, MarkAmbiguous(c) PROVE CyclesMove
  BY <1>2, <1>5, <1>7 DEF MarkAmbiguous
<1>8. ASSUME NEW c \in DOMAIN worker, WorkerMark(c) PROVE CyclesMove
  BY <1>2, <1>5, <1>8 DEF WorkerMark
<1>9. ASSUME NEW c \in DOMAIN enforcing, EnforceMark(c) PROVE CyclesMove
  BY <1>2, <1>3, <1>5, <1>9 DEF EnforceMark
<1>10. ASSUME NEW c \in DOMAIN worker, WorkerFinish(c) PROVE CyclesMove
  <2>1. c \in Cycle /\ c \notin turns /\ turns' = turns
    BY <1>2, <1>10 DEF WorkerFinish, ExecInv, RunnerOK
  <2>2. cycles' = cycles \/ cycles' = [cycles EXCEPT ![c].state = "completed"]
    BY <1>10 DEF WorkerFinish, Close
  <2> QED BY <1>3, <1>4, <2>1, <2>2 DEF Terminal
<1>11. ASSUME NEW c \in DOMAIN enforcing, EnforceFinish(c) PROVE CyclesMove
  <2>1. c \in Cycle /\ c \notin turns /\ turns' = turns
    BY <1>2, <1>11 DEF EnforceFinish, ExecInv, RunnerOK, runner
  <2>2. cycles' = [cycles EXCEPT ![c].state = "stopped"]
    BY <1>11 DEF EnforceFinish, Close
  <2> QED BY <1>4, <2>1, <2>2 DEF Terminal
<1> QED
  BY <1>1, <1>3, <1>6, <1>7, <1>8, <1>9, <1>10, <1>11 DEF Journals

-----------------------------------------------------------------------------
(* The calls. *)

\* A new call has the next number, is within its cycle's limit, and is under submission.
Issues(op) ==
    /\ op \in Op /\ op \notin ops /\ op.cycle \in held
    /\ op.n = Cardinality(Issued(op.cycle, op.kind)) + 1
    /\ Cardinality(Issued(op.cycle, op.kind)) < Limit(op.cycle, op.kind)
    /\ ops' = ops \cup {op} /\ dispatching' = dispatching \cup {op}
    /\ UNCHANGED <<returned, sent, cycles, held>>

\* The submission of a call ends; its bytes may have left.
EndsSubmission(op) ==
    /\ dispatching' = dispatching \ {op} /\ sent' \in {sent, sent \cup {op}}
    /\ returned' \in {returned, returned \cup {op}}
    /\ UNCHANGED <<ops, cycles, held>>

\* A crash ends all of them.
LosesSubmissions ==
    /\ dispatching' = {} /\ held' = {}
    /\ sent' = sent \/ \E op \in dispatching : sent' = sent \cup {op}
    /\ UNCHANGED <<ops, returned, cycles>>

CallsMove ==
    \/ UNCHANGED <<ops, returned, dispatching, sent>> /\ held \subseteq held'
    \/ \E op \in Op : Issues(op)
    \/ \E op \in dispatching : EndsSubmission(op)
    \/ LosesSubmissions

\* How calls move.
LEMMA EveryCallMoves ==
    ASSUME ExecInv, Next
    PROVE  CallsMove
<1>1. Journals /\ Controls BY WhoWrites DEF Writes
<1>2. ASSUME NEW c \in DOMAIN context, NEW kind \in plan.kinds, DispatchIntent(c, kind)
      PROVE  \E op \in Op : Issues(op)
  <2> DEFINE k == Cardinality(Issued(c, kind))
             op == [cycle |-> c, kind |-> kind, n |-> k + 1]
  <2>1. c \in Cycle /\ c \in held /\ kind \in Kinds
    <3>1. plan \in Plan /\ c \in Cycle BY CycleFacts
    <3>2. c \in held BY DEF ExecInv, TypeOK
    <3> QED BY <3>1, <3>2 DEF Plan
  <2>2. IsFiniteSet(Issued(c, kind))
    <3>1. Issued(c, kind) \subseteq ops BY DEF Issued
    <3> QED BY <3>1, FS_Subset DEF ExecInv, JournalOK
  <2>3. k \in Nat BY <2>2, FS_CardinalityType
  <2>4. op \in Op /\ op.cycle = c /\ op.kind = kind /\ op.n = k + 1 BY <2>1, <2>3 DEF Op
  <2>5. op = [cycle |-> c, kind |-> kind,
              n |-> Cardinality({o \in ops : o.cycle = c /\ o.kind = kind}) + 1]
    BY DEF Issued
  <2>6. /\ ops' = ops \cup {op} /\ dispatching' = dispatching \cup {op} /\ k < Limit(c, kind)
        /\ UNCHANGED <<returned, sent, cycles, held>>
    BY <1>2, <2>5 DEF DispatchIntent, world
  <2>7. op \notin ops
    <3>1. \A o \in ops : o.n <= Cardinality(Issued(o.cycle, o.kind)) BY DEF ExecInv, JournalOK
    <3>2. op \in ops => k + 1 <= k BY <2>4, <3>1
    <3> QED BY <2>3, <3>2
  <2> HIDE DEF op
  <2> QED BY <2>1, <2>4, <2>6, <2>7 DEF Issues
<1>3. ASSUME NEW op \in dispatching, DispatchSubmit(op) \/ SubmitRaises(op) \/ DispatchRefused(op)
      PROVE  EndsSubmission(op)
  BY <1>3 DEF DispatchSubmit, SubmitRaises, DispatchRefused, Submits, EndsSubmission, attempts, world
<1>4. ASSUME Crash PROVE LosesSubmissions
  BY <1>4 DEF Crash, LosesSubmissions, attempts
<1>5. ASSUME NEW d \in plan.drafts, NEW w \in plan.work \cup {None}, Reserve(d, w)
      PROVE  held \subseteq held'
  BY <1>5 DEF Reserve
<1> QED BY <1>1, <1>2, <1>3, <1>4, <1>5 DEF Journals, Controls, CallsMove

\* Only what is under submission leaves, and it is checked at that moment.
LEMMA SubmissionsChecked ==
    ASSUME ExecInv, Next, NEW op \in sent' \ sent
    PROVE  op \in dispatching /\ Submittable(op) /\ Now
BY WhoWrites DEF Writes, Journals, DispatchSubmit, SubmitRaises, Crash, Submits, Observed, world

\* What was begun stays so.
LEMMA BegunStays ==
    ASSUME ExecInv, Next, NEW c, Begun(c)
    PROVE  Begun(c)'
<1>1. CallsMove BY EveryCallMoves
<1>2. ops \ dispatching \subseteq ops' \ dispatching'
  <2>1. ASSUME NEW op \in Op, Issues(op) PROVE ops \ dispatching \subseteq ops' \ dispatching'
    BY <2>1 DEF Issues
  <2>2. ASSUME NEW op \in dispatching, EndsSubmission(op) PROVE ops \ dispatching \subseteq ops' \ dispatching'
    BY <2>2 DEF EndsSubmission
  <2>3. CASE LosesSubmissions BY <2>3 DEF LosesSubmissions
  <2> QED BY <1>1, <2>1, <2>2, <2>3 DEF CallsMove
<1> QED BY <1>2 DEF Begun

\* The limit of a cycle stays.
LEMMA LimitStays ==
    ASSUME ExecInv, Next, NEW c \in Cycle, NEW kind
    PROVE  Limit(c, kind)' = Limit(c, kind) /\ Session(c)' = Session(c) /\ Limit(c, kind) \in Nat \ {0}
<1>1. cycles'[c].draft = cycles[c].draft BY EveryCycleMoves DEF CyclesMove, RowKept
<1>2. cycles[c].draft \in Drafts BY CycleFacts DEF Row
<1>3. Limit(c, kind) \in Nat \ {0} BY <1>2, TermsAssumption DEF Limit
<1> QED BY <1>1, <1>3 DEF Limit, Session

\* Calls stay numbered and within their cycle, cycles exclude each other (reserve).
LEMMA JournalStays ==
    ASSUME ExecInv, Next
    PROVE  JournalOK'
<1>1. CallsMove /\ CyclesMove BY EveryCallMoves, EveryCycleMoves
<1>2. cycles' \in Seq(Row) BY <1>1 DEF CyclesMove
<1>3. /\ IsFiniteSet(ops) /\ ops \subseteq Op
      /\ \A op \in ops : op.n <= Cardinality(Issued(op.cycle, op.kind))
      /\ \A c \in Cycle, kind \in Kinds : Cardinality(Issued(c, kind)) <= Limit(c, kind)
  BY DEF ExecInv, JournalOK, TypeOK
<1>4. /\ IsFiniteSet(ops')
      /\ \A op \in ops' : op.n <= Cardinality(Issued(op.cycle, op.kind)')
      /\ \A c \in Cycle, kind \in Kinds : Cardinality(Issued(c, kind)') <= Limit(c, kind)
  <2>1. CASE ops' = ops BY <1>3, <2>1 DEF Issued
  <2>2. ASSUME NEW op \in Op, Issues(op)
        PROVE  /\ IsFiniteSet(ops')
               /\ \A o \in ops' : o.n <= Cardinality(Issued(o.cycle, o.kind)')
               /\ \A c \in Cycle, kind \in Kinds : Cardinality(Issued(c, kind)') <= Limit(c, kind)
    <3> DEFINE k == Cardinality(Issued(op.cycle, op.kind))
    <3>1. /\ ops' = ops \cup {op} /\ op \notin ops
          /\ op.n = k + 1 /\ k < Limit(op.cycle, op.kind) /\ op.cycle \in Cycle /\ op.kind \in Kinds
      BY <2>2 DEF Issues, Op
    <3>2. IsFiniteSet(ops') BY <1>3, <3>1, FS_AddElement
    <3>3. IsFiniteSet(Issued(op.cycle, op.kind)) /\ k \in Nat
      <4>1. Issued(op.cycle, op.kind) \subseteq ops BY DEF Issued
      <4> QED BY <1>3, <4>1, FS_Subset, FS_CardinalityType
    <3>4. Issued(op.cycle, op.kind)' = Issued(op.cycle, op.kind) \cup {op}
      BY <3>1 DEF Issued
    <3>5. op \notin Issued(op.cycle, op.kind) BY <3>1 DEF Issued
    <3>6. Cardinality(Issued(op.cycle, op.kind)') = k + 1
      BY <3>3, <3>4, <3>5, FS_AddElement
    <3>7. \A c, kind : c # op.cycle \/ kind # op.kind => Issued(c, kind)' = Issued(c, kind)
      BY <3>1 DEF Issued
    <3>8. Limit(op.cycle, op.kind) \in Nat BY <3>1, LimitStays
    <3>9. k + 1 <= Limit(op.cycle, op.kind) BY <3>1, <3>3, <3>8
    <3>10. \A o \in ops' : o.n <= Cardinality(Issued(o.cycle, o.kind)')
      <4>1. SUFFICES ASSUME NEW o \in ops' PROVE o.n <= Cardinality(Issued(o.cycle, o.kind)') OBVIOUS
      <4>2. CASE o = op BY <3>1, <3>3, <3>6, <4>2
      <4>3. CASE o # op /\ o.cycle = op.cycle /\ o.kind = op.kind
        <5>1. o.n <= k /\ o.n \in Nat BY <1>3, <3>1, <4>1, <4>3 DEF Op
        <5> QED BY <3>3, <3>6, <4>3, <5>1
      <4>4. CASE o # op /\ (o.cycle # op.cycle \/ o.kind # op.kind)
        BY <1>3, <3>1, <3>7, <4>1, <4>4
      <4> QED BY <4>2, <4>3, <4>4
    <3>11. ASSUME NEW c \in Cycle, NEW kind \in Kinds PROVE Cardinality(Issued(c, kind)') <= Limit(c, kind)
      <4>1. CASE c = op.cycle /\ kind = op.kind BY <3>6, <3>9, <4>1
      <4>2. CASE c # op.cycle \/ kind # op.kind BY <1>3, <3>7, <4>2
      <4> QED BY <4>1, <4>2
    <3> QED BY <3>2, <3>10, <3>11
  <2> QED BY <1>1, <2>1, <2>2 DEF CallsMove, EndsSubmission, LosesSubmissions
<1>5. \A c \in Cycle', kind \in Kinds : Cardinality(Issued(c, kind)') <= Limit(c, kind)'
  <2>1. SUFFICES ASSUME NEW c \in Cycle', NEW kind \in Kinds
                 PROVE  Cardinality(Issued(c, kind)') <= Limit(c, kind)'
    OBVIOUS
  <2>2. CASE c \in Cycle BY <1>4, <2>2, LimitStays
  <2>3. CASE c \notin Cycle
    <3>1. ops' = ops
      <4>1. cycles' # cycles BY <2>1, <2>3 DEF Cycle
      <4> QED BY <1>1, <4>1 DEF CallsMove, Issues, EndsSubmission, LosesSubmissions
    <3>2. Issued(c, kind)' = {} BY <1>3, <2>3, <3>1 DEF Issued, Op
    <3>3. Cardinality(Issued(c, kind)') = 0 BY <3>2, FS_EmptySet
    <3>4. cycles'[c] \in Row BY <1>2, <2>1 DEF Cycle
    <3>5. Limit(c, kind)' \in Nat BY <3>4, TermsAssumption DEF Limit, Row
    <3> QED BY <3>3, <3>5
  <2> QED BY <2>2, <2>3
<1>6. ASSUME NEW c \in Cycle', NEW e \in Cycle', Session(c)' = Session(e)',
             cycles'[c].state \in InFlight, cycles'[e].state \in InFlight
      PROVE  c = e
  <2>1. \A x \in Cycle : cycles'[x].state \in InFlight => cycles[x].state \in InFlight
    BY <1>1 DEF CyclesMove, RowKept, InFlight, Terminal
  <2>2. \A x \in Cycle : Session(x)' = Session(x) BY LimitStays
  <2>3. CASE c \in Cycle /\ e \in Cycle
    BY <1>6, <2>1, <2>2, <2>3 DEF ExecInv, JournalOK
  <2>4. CASE c \notin Cycle /\ e \notin Cycle
    BY <1>1, <1>6, <2>4 DEF CyclesMove, RowNew
  <2>5. ASSUME NEW x \in Cycle' \ Cycle, NEW y \in Cycle, Session(x)' = Session(y)',
               cycles'[y].state \in InFlight
        PROVE  FALSE
    <3>1. RowNew(x) BY <1>1, <2>5 DEF CyclesMove
    <3>2. Session(y) = Terms[cycles'[x].draft].session BY <2>2, <2>5 DEF Session
    <3> QED BY <2>1, <2>5, <3>1, <3>2 DEF RowNew
  <2> QED BY <1>6, <2>3, <2>4, <2>5
<1> QED BY <1>2, <1>4, <1>5, <1>6 DEF JournalOK

\* What is under submission has not left (dispatch).
LEMMA DispatchStays ==
    ASSUME ExecInv, Next
    PROVE  DispatchOK'
<1>1. CallsMove BY EveryCallMoves
<1>2. dispatching \cap sent = {} /\ (\A op \in dispatching : op.cycle \in held) /\ sent \subseteq ops
  BY DEF ExecInv, DispatchOK, TypeOK
<1>3. CASE UNCHANGED <<ops, returned, dispatching, sent>> /\ held \subseteq held'
  BY <1>2, <1>3 DEF DispatchOK
<1>4. ASSUME NEW op \in Op, Issues(op) PROVE DispatchOK'
  BY <1>2, <1>4 DEF Issues, DispatchOK
<1>5. ASSUME NEW op \in dispatching, EndsSubmission(op) PROVE DispatchOK'
  BY <1>2, <1>5 DEF EndsSubmission, DispatchOK
<1>6. CASE LosesSubmissions BY <1>6 DEF LosesSubmissions, DispatchOK
<1> QED BY <1>1, <1>3, <1>4, <1>5, <1>6 DEF CallsMove

-----------------------------------------------------------------------------
(* The runner. *)

\* An inference is submitted once (max one per cycle, its number is 1).
LEMMA InferenceOnce ==
    ASSUME ExecInv, NEW op \in dispatching, op.kind = "inference"
    PROVE  ~Begun(op.cycle)
<1>1. SUFFICES ASSUME NEW o \in ops \ dispatching, o.cycle = op.cycle, o.kind = "inference" PROVE FALSE
  BY DEF Begun
<1>2. o \in Op /\ op \in Op /\ op \in ops BY CycleFacts DEF ExecInv, TypeOK
<1>3. Cardinality(Issued(op.cycle, "inference")) <= 1
  BY <1>2 DEF ExecInv, JournalOK, Limit, Op, Kinds
<1>4. o.n <= Cardinality(Issued(op.cycle, "inference")) /\ op.n <= Cardinality(Issued(op.cycle, "inference"))
  BY <1>1, <1>2 DEF ExecInv, JournalOK
<1>5. Cardinality(Issued(op.cycle, "inference")) \in Nat
  <2>1. Issued(op.cycle, "inference") \subseteq ops BY DEF Issued
  <2> QED BY <2>1, FS_Subset, FS_CardinalityType DEF ExecInv, JournalOK
<1>6. o.n = 1 /\ op.n = 1 BY <1>2, <1>3, <1>4, <1>5 DEF Op
<1>7. o = op BY <1>1, <1>2, <1>6 DEF Op
<1> QED BY <1>1, <1>7

\* A turn starts where none was begun.
Starts(op) ==
    /\ op.kind = "inference" /\ RunnerFree(op.cycle) /\ cycles[op.cycle].state = "intent"
    /\ instr[cycles[op.cycle].draft].state = "active"
    /\ runtime' = With(runtime, op.cycle, "intent") /\ worker' = With(worker, op.cycle, "run")
    /\ turns' = turns \cup {op.cycle} /\ settled' = settled
    /\ Begun(op.cycle)' /\ cycles' = cycles

\* It is journalled although it did not start.
Journalled(op) ==
    /\ runtime' = With(runtime, op.cycle, "intent") /\ turns' = turns
    /\ \/ worker' = worker /\ settled' = settled
       \/ worker' = << >> /\ settled' = {}

\* Its worker takes the next step, the process being gone after the first.
WorkerMoves(c) ==
    /\ \/ worker[c] = "run" /\ turns' = turns \ {c} /\ settled' \in {settled, settled \cup {c}}
       \/ worker[c] # "run" /\ turns' = turns /\ settled' = settled
    /\ \/ worker' = Without(worker, c)
       \/ \E s \in {"finish", "record", "fail", "mark"} : worker' = [worker EXCEPT ![c] = s]
    /\ \/ runtime' = runtime
       \/ \E s \in {"completed", "ambiguous"} : runtime' = [runtime EXCEPT ![c] = s]

\* Its process ends, or the host's.
Ends ==
    /\ runtime' = runtime /\ turns' \subseteq turns
    /\ \/ worker' = worker /\ settled' = settled
       \/ worker' = << >> /\ settled' = {}

RunnerMoves ==
    \/ UNCHANGED runner
    \/ \E op \in dispatching : Starts(op) \/ Journalled(op)
    \/ \E c \in DOMAIN worker : WorkerMoves(c)
    \/ Ends

\* How the runner moves.
LEMMA EveryRunnerMoves ==
    ASSUME ExecInv, Next
    PROVE  RunnerMoves
<1>1. Controls BY WhoWrites DEF Writes
<1>2. ASSUME NEW op \in dispatching, DispatchSubmit(op) \/ SubmitRaises(op) PROVE RunnerMoves
  <2>1. CASE Submits(op) /\ op.kind = "inference"
    <3>1. /\ RunnerFree(op.cycle) /\ turns' = turns \cup {op.cycle} /\ settled' = settled
          /\ runtime' = With(runtime, op.cycle, "intent") /\ worker' = With(worker, op.cycle, "run")
      BY <2>1 DEF Submits
    <3>2. Submittable(op) /\ cycles' = cycles /\ ops' = ops /\ dispatching' = dispatching \ {op}
      BY <1>2 DEF DispatchSubmit, SubmitRaises, attempts
    <3>3. cycles[op.cycle].state = "intent" /\ instr[cycles[op.cycle].draft].state = "active" BY <3>2 DEF Submittable, Guard
    <3>4. op \in ops BY DEF ExecInv, TypeOK
    <3>5. Begun(op.cycle)' BY <2>1, <3>2, <3>4 DEF Begun
    <3>6. Starts(op) BY <2>1, <3>1, <3>2, <3>3, <3>5 DEF Starts
    <3> QED BY <3>6 DEF RunnerMoves
  <2>2. CASE Submits(op) /\ op.kind # "inference"
    BY <2>2 DEF Submits, RunnerMoves
  <2>3. CASE UNCHANGED runner BY <2>3 DEF RunnerMoves
  <2>4. CASE runtime' = With(runtime, op.cycle, "intent") /\ UNCHANGED <<worker, settled, turns>>
    BY <2>4 DEF Journalled, RunnerMoves
  <2>5. \/ Submits(op)
        \/ UNCHANGED runner
        \/ runtime' = With(runtime, op.cycle, "intent") /\ UNCHANGED <<worker, settled, turns>>
    BY <1>2 DEF DispatchSubmit, SubmitRaises
  <2> QED BY <2>1, <2>2, <2>3, <2>4, <2>5
<1>3. ASSUME NEW c \in DOMAIN worker,
             WorkerStops(c) \/ WorkerFinish(c) \/ WorkerRecord(c) \/ WorkerFail(c) \/ WorkerMark(c)
      PROVE  RunnerMoves
  <2>1. CASE WorkerStops(c) BY <2>1 DEF WorkerStops, WorkerMoves, RunnerMoves
  <2>2. CASE WorkerFinish(c) BY <2>2 DEF WorkerFinish, WorkerMoves, RunnerMoves
  <2>3. CASE WorkerRecord(c) BY <2>3 DEF WorkerRecord, WorkerMoves, RunnerMoves
  <2>4. CASE WorkerFail(c) BY <2>4 DEF WorkerFail, WorkerMoves, RunnerMoves
  <2>5. CASE WorkerMark(c) BY <2>5 DEF WorkerMark, WorkerMoves, RunnerMoves
  <2> QED BY <1>3, <2>1, <2>2, <2>3, <2>4, <2>5
<1>4. ASSUME NEW c \in turns, TurnKilled(c) PROVE RunnerMoves
  BY <1>4 DEF TurnKilled, Ends, RunnerMoves
<1>5. ASSUME Crash PROVE RunnerMoves
  <2>1. worker' = << >> /\ settled' = {} BY <1>5 DEF Crash
  <2>2. CASE UNCHANGED <<sent, runtime, turns>> BY <2>1, <2>2 DEF Ends, RunnerMoves
  <2>3. ASSUME NEW op \in dispatching,
               \/ runtime' = With(runtime, op.cycle, "intent") /\ UNCHANGED turns
               \/ UNCHANGED <<runtime, turns>>
        PROVE  RunnerMoves
    BY <2>1, <2>3 DEF Ends, Journalled, RunnerMoves
  <2> QED BY <1>5, <2>2, <2>3 DEF Crash
<1> QED BY <1>1, <1>2, <1>3, <1>4, <1>5 DEF Controls, RunnerMoves, runner

\* A turn is started once and known to be over before its cycle is.
LEMMA RunnerStays ==
    ASSUME ExecInv, Next
    PROVE  RunnerOK'
<1>1. RunnerMoves /\ CyclesMove /\ Controls BY EveryRunnerMoves, EveryCycleMoves, WhoWrites DEF Writes
<1>2. /\ DOMAIN runtime \subseteq Cycle /\ DOMAIN worker \subseteq DOMAIN runtime
      /\ \A c \in turns \cup settled \cup DOMAIN worker : Begun(c)'
      /\ settled \cap turns = {}
      /\ \A c \in DOMAIN worker : worker[c] # "run" => c \notin turns
      /\ \A c \in turns : cycles[c].state \in InFlight
      /\ turns \subseteq Cycle
  <2>1. \A c \in turns \cup settled \cup DOMAIN worker : Begun(c)' BY BegunStays DEF ExecInv, RunnerOK
  <2> QED BY <2>1, CycleFacts DEF ExecInv, RunnerOK, TypeOK
<1>3. \A op \in dispatching : op.cycle \in Cycle BY CycleFacts
<1>4. Cycle \subseteq Cycle' /\ \A c \in Cycle : RowKept(c) BY <1>1 DEF CyclesMove
<1>5. DOMAIN runtime' \subseteq Cycle'
  <2>1. CASE runtime' = runtime BY <1>2, <1>4, <2>1
  <2>2. ASSUME NEW op \in dispatching, runtime' = With(runtime, op.cycle, "intent")
        PROVE  DOMAIN runtime' \subseteq Cycle'
    <3>1. DOMAIN runtime' = DOMAIN runtime \cup {op.cycle} BY <2>2 DEF With
    <3> QED BY <1>2, <1>3, <1>4, <3>1
  <2>3. ASSUME NEW c, NEW s, runtime' = [runtime EXCEPT ![c] = s] PROVE DOMAIN runtime' \subseteq Cycle'
    BY <1>2, <1>4, <2>3
  <2> QED BY <1>1, <2>1, <2>2, <2>3 DEF RunnerMoves, Starts, Journalled, WorkerMoves, Ends, runner
<1>6. /\ \A c \in turns' \cup settled' \cup DOMAIN worker' : Begun(c)'
      /\ settled' \cap turns' = {}
      /\ \A c \in DOMAIN worker' : worker'[c] # "run" => c \notin turns'
  <2>1. CASE UNCHANGED runner BY <1>2, <2>1 DEF runner
  <2>2. ASSUME NEW op \in dispatching, Starts(op)
        PROVE  /\ \A c \in turns' \cup settled' \cup DOMAIN worker' : Begun(c)'
               /\ settled' \cap turns' = {}
               /\ \A c \in DOMAIN worker' : worker'[c] # "run" => c \notin turns'
    <3>1. op.cycle \notin settled
      BY <2>2, InferenceOnce DEF Starts, ExecInv, RunnerOK
    <3> QED BY <1>2, <2>2, <3>1 DEF Starts, With
  <2>3. ASSUME NEW op \in dispatching, Journalled(op)
        PROVE  /\ \A c \in turns' \cup settled' \cup DOMAIN worker' : Begun(c)'
               /\ settled' \cap turns' = {}
               /\ \A c \in DOMAIN worker' : worker'[c] # "run" => c \notin turns'
    BY <1>2, <2>3 DEF Journalled
  <2>4. ASSUME NEW c \in DOMAIN worker, WorkerMoves(c)
        PROVE  /\ \A x \in turns' \cup settled' \cup DOMAIN worker' : Begun(x)'
               /\ settled' \cap turns' = {}
               /\ \A x \in DOMAIN worker' : worker'[x] # "run" => x \notin turns'
    <3>1. /\ DOMAIN worker' \subseteq DOMAIN worker
          /\ \A x \in DOMAIN worker' : x # c => worker'[x] = worker[x]
      BY <2>4 DEF WorkerMoves, Without
    <3>2. c \notin turns' /\ turns' \subseteq turns BY <1>2, <2>4 DEF WorkerMoves
    <3>3. settled' \subseteq settled \cup {c} BY <2>4 DEF WorkerMoves
    <3> QED BY <1>2, <3>1, <3>2, <3>3
  <2>5. CASE Ends BY <1>2, <2>5 DEF Ends
  <2> QED BY <1>1, <2>1, <2>2, <2>3, <2>4, <2>5 DEF RunnerMoves
<1>7. \A c \in turns' : cycles'[c].state \in InFlight
  <2>1. \A c \in turns' : c \in turns \/ (cycles' = cycles /\ cycles[c].state = "intent")
    BY <1>1 DEF RunnerMoves, Starts, Journalled, WorkerMoves, Ends, runner
  <2>2. \A c \in turns' : c \in turns => cycles'[c].state \in InFlight
    BY <1>2, <1>4 DEF RowKept, InFlight
  <2> QED BY <2>1, <2>2 DEF InFlight
<1>8. \A c \in DOMAIN enforcing' : enforcing'[c] = "finish" => c \in settled'
  <2>1. \A c \in DOMAIN enforcing : enforcing[c] = "finish" => c \in settled
    BY DEF ExecInv, RunnerOK
  <2>2. CASE enforcing' = enforcing
    <3>1. CASE settled \subseteq settled' BY <2>1, <2>2, <3>1
    <3>2. CASE ~(settled \subseteq settled')
      <4>1. Crash
        BY <1>1, <3>2 DEF Controls, DispatchSubmit, SubmitRaises, Submits, WorkerStops, WorkerFinish,
           WorkerRecord, WorkerFail, WorkerMark, TurnKilled, runner
      <4> QED BY <4>1 DEF Crash
    <3> QED BY <3>1, <3>2
  <2>3. ASSUME NEW c \in DOMAIN context, Enforce(c) \/ EnforceUnread(c)
        PROVE  \A x \in DOMAIN enforcing' : enforcing'[x] = "finish" => x \in settled'
    BY <2>1, <2>3 DEF Enforce, EnforceUnread, With, runner
  <2>4. ASSUME NEW c \in DOMAIN enforcing, EnforceMark(c)
        PROVE  \A x \in DOMAIN enforcing' : enforcing'[x] = "finish" => x \in settled'
    BY <2>1, <2>4 DEF EnforceMark, runner
  <2>5. ASSUME NEW c \in DOMAIN enforcing, EnforceInterrupt(c)
        PROVE  \A x \in DOMAIN enforcing' : enforcing'[x] = "finish" => x \in settled'
    BY <2>1, <2>5 DEF EnforceInterrupt, Without, runner
  <2>6. ASSUME NEW c \in DOMAIN enforcing, EnforceFinish(c) \/ EnforceGivesUp(c)
        PROVE  \A x \in DOMAIN enforcing' : enforcing'[x] = "finish" => x \in settled'
    BY <2>1, <2>6 DEF EnforceFinish, EnforceGivesUp, Without, runner
  <2>7. ASSUME Crash
        PROVE  \A x \in DOMAIN enforcing' : enforcing'[x] = "finish" => x \in settled'
    BY <2>7 DEF Crash
  <2> QED BY <1>1, <2>2, <2>3, <2>4, <2>5, <2>6, <2>7 DEF Controls
<1> QED BY <1>5, <1>6, <1>7, <1>8 DEF RunnerOK

\* What was answered as stopped is cancelled for good (cancel_active).
LEMMA CancelledStays ==
    ASSUME ExecInv, Next
    PROVE  CancelledOK'
<1>1. Authorizes BY WhoWrites DEF Writes
<1>2. instr \in [Drafts -> [state: DraftStates, generation: Nat]] /\ stopped \subseteq Drafts
  BY DEF ExecInv, TypeOK
<1>3. \A d \in Drafts : instr[d].state = "cancelled" => instr'[d].state = "cancelled"
  <2>1. SUFFICES ASSUME NEW d \in Drafts, instr[d].state = "cancelled" PROVE instr'[d].state = "cancelled"
    OBVIOUS
  <2>2. \A e \in plan.drafts : e \in Drafts BY CycleFacts
  <2>3. ASSUME NEW e \in plan.drafts, Propose(e) PROVE instr'[d].state = "cancelled"
    BY <1>2, <2>1, <2>2, <2>3 DEF Propose, SameKey
  <2>4. ASSUME NEW e \in plan.drafts, Approve(e) PROVE instr'[d].state = "cancelled"
    <3>1. e # d BY <2>1, <2>4 DEF Approve
    <3>2. instr'[d] = Superseded(e)[d] BY <2>4, <3>1 DEF Approve, Superseded
    <3> QED BY <2>1, <3>2 DEF Superseded
  <2>5. ASSUME NEW e \in plan.drafts, Cancel(e) \/ Expire(e) PROVE instr'[d].state = "cancelled"
    BY <1>2, <2>1, <2>2, <2>5 DEF Cancel, Expire, SetState
  <2>6. ASSUME NEW c \in Cycle, NEW o, Close(c, o) PROVE instr'[d].state = "cancelled"
    BY <1>2, <2>1, <2>6 DEF Close
  <2>7. ASSUME NEW c \in DOMAIN worker, WorkerFinish(c) PROVE instr'[d].state = "cancelled"
    BY <2>1, <2>6, <2>7, CycleFacts DEF WorkerFinish
  <2>8. ASSUME NEW c \in DOMAIN enforcing, EnforceFinish(c) PROVE instr'[d].state = "cancelled"
    BY <2>6, <2>8, CycleFacts DEF EnforceFinish
  <2> QED BY <1>1, <2>1, <2>3, <2>4, <2>5, <2>7, <2>8 DEF Authorizes
<1>4. CASE stopped' = stopped BY <1>2, <1>3, <1>4 DEF ExecInv, CancelledOK
<1>5. ASSUME NEW d \in plan.drafts, CancelActive(d) PROVE CancelledOK'
  <2>1. d \in Drafts /\ instr[d].state = "cancelled" /\ stopped' = stopped \cup {d}
    BY <1>5, CycleFacts DEF CancelActive
  <2> QED BY <1>2, <1>3, <2>1 DEF ExecInv, CancelledOK
<1> QED BY <1>1, <1>4, <1>5 DEF Authorizes

\* No turn of a draft that was answered as stopped lives or starts (cancel_active).
LEMMA StoppedStays ==
    ASSUME ExecInv, Next
    PROVE  StoppedMeansStopped'
<1>1. RunnerMoves /\ CyclesMove /\ Authorizes BY EveryRunnerMoves, EveryCycleMoves, WhoWrites DEF Writes
<1>2. /\ \A d \in stopped : instr[d].state = "cancelled"
      /\ \A d \in stopped : \A c \in turns : cycles[c].draft # d
      /\ turns \subseteq Cycle /\ \A c \in turns : cycles[c].state \in InFlight
  <2>1. turns \subseteq Cycle BY CycleFacts
  <2>2. CancelledOK /\ StoppedMeansStopped /\ RunnerOK BY DEF ExecInv
  <2> QED BY <2>1, <2>2 DEF CancelledOK, StoppedMeansStopped, RunnerOK
<1>3. \A c \in turns : cycles'[c].draft = cycles[c].draft
  BY <1>1, <1>2 DEF CyclesMove, RowKept
<1>4. CASE stopped' = stopped
  <2>1. \A c \in turns' : \/ c \in turns
                          \/ cycles' = cycles /\ instr[cycles[c].draft].state = "active"
    BY <1>1 DEF RunnerMoves, Starts, Journalled, WorkerMoves, Ends, runner
  <2> QED BY <1>2, <1>3, <1>4, <2>1 DEF StoppedMeansStopped
<1>5. ASSUME NEW d \in plan.drafts, CancelActive(d) PROVE StoppedMeansStopped'
  <2>1. /\ stopped' = stopped \cup {d} /\ turns' = turns
        /\ \A c \in CyclesOf(d) : cycles[c].state \notin InFlight
    BY <1>5 DEF CancelActive, process, runner
  <2>2. \A c \in turns : cycles[c].draft # d BY <1>2, <2>1 DEF CyclesOf
  <2> QED BY <1>2, <1>3, <2>1, <2>2 DEF StoppedMeansStopped
<1> QED BY <1>1, <1>4, <1>5 DEF Authorizes

-----------------------------------------------------------------------------
(* The types of the tables. *)

ClockTypes ==
    /\ plan \in Plans /\ wall \in 0..plan.time /\ rollbacks \in 0..plan.rollbacks
    /\ highWater \in 0..plan.time /\ clockFault \in BOOLEAN /\ crashes \in 0..plan.crashes

AuthorityTypes ==
    /\ instr \in [Drafts -> [state: DraftStates, generation: Nat]]
    /\ account \in [Accounts -> [granted: BOOLEAN, paused: BOOLEAN, revision: 0..plan.controls]]
    /\ funded \subseteq Drafts /\ stopped \subseteq Drafts
    /\ DOMAIN policies \subseteq Accounts /\ \A a \in DOMAIN policies : policies[a] \in [notice: BOOLEAN]

WorkTypes ==
    work \in [Work -> [state: {"none", "queued", "intent", "withdrawn"}, cycle: Cycle \cup {None}]]

CallTypes ==
    /\ ops \subseteq Op /\ returned \subseteq ops /\ dispatching \subseteq ops /\ sent \subseteq ops
    /\ DOMAIN charges \subseteq Cycle /\ \A c \in DOMAIN charges : charges[c] \in Nat \cup {None}

ControllerTypes ==
    /\ DOMAIN context \subseteq held /\ held \subseteq Cycle
    /\ \A c \in DOMAIN context : context[c] \in {"starting", "open", "fenced"}
    /\ failing \subseteq held /\ DOMAIN enforcing \subseteq held
    /\ \A c \in DOMAIN enforcing :
        enforcing[c] \in {"mark", "mark only", "interrupt", "interrupt only", "finish"}

RunnerTypes ==
    /\ \A c \in DOMAIN worker : worker[c] \in {"run", "finish", "record", "fail", "mark"}
    /\ settled \subseteq Cycle /\ DOMAIN worker \subseteq DOMAIN runtime
    /\ turns \subseteq DOMAIN runtime
    /\ \A c \in DOMAIN runtime : runtime[c] \in {"intent", "completed", "ambiguous"}

\* The clock and the bounds keep their types.
LEMMA ClockTypesStay ==
    ASSUME ExecInv, Next
    PROVE  ClockTypes'
<1>1. Authorizes BY WhoWrites DEF Writes
<1>2. ClockTypes BY DEF ExecInv, TypeOK, ClockTypes
<1>3. plan \in Plan BY <1>2, PlansAssumption DEF ClockTypes
<1>4. plan.time \in Nat /\ plan.rollbacks \in Nat /\ plan.crashes \in Nat BY <1>3 DEF Plan
<1>5. wall' \in 0..plan.time /\ rollbacks' \in 0..plan.rollbacks
  BY <1>1, <1>2, <1>4 DEF Authorizes, ClockTypes, Tick, RollBack
<1>6. highWater' \in 0..plan.time /\ clockFault' \in BOOLEAN
  BY <1>1, <1>2 DEF Authorizes, ClockTypes
<1>7. crashes' \in 0..plan.crashes
  BY <1>1, <1>2, <1>4 DEF Authorizes, ClockTypes, Crash
<1>8. plan' = plan BY <1>1 DEF Authorizes
<1> QED BY <1>2, <1>5, <1>6, <1>7, <1>8 DEF ClockTypes

\* The instructions keep theirs.
LEMMA InstructionTypesStay ==
    ASSUME ExecInv, Next
    PROVE  instr' \in [Drafts -> [state: DraftStates, generation: Nat]]
<1>1. Authorizes BY WhoWrites DEF Writes
<1>2. instr \in [Drafts -> [state: DraftStates, generation: Nat]] BY DEF ExecInv, TypeOK
<1>3. plan.drafts \subseteq Drafts BY CycleFacts
<1>4. ASSUME NEW d \in Drafts, NEW s \in DraftStates, SetState(d, s)
      PROVE  instr' \in [Drafts -> [state: DraftStates, generation: Nat]]
  BY <1>2, <1>4 DEF SetState
<1>5. ASSUME NEW d \in plan.drafts, Propose(d) \/ Cancel(d) \/ Expire(d)
      PROVE  instr' \in [Drafts -> [state: DraftStates, generation: Nat]]
  BY <1>2, <1>3, <1>4, <1>5 DEF Propose, Cancel, Expire, DraftStates
<1>6. ASSUME NEW d \in plan.drafts, Approve(d)
      PROVE  instr' \in [Drafts -> [state: DraftStates, generation: Nat]]
  <2>1. Superseded(d) \in [Drafts -> [state: DraftStates, generation: Nat]]
    BY <1>2 DEF Superseded, DraftStates
  <2> QED BY <1>3, <1>6, <2>1 DEF Approve, DraftStates
<1>7. ASSUME NEW c \in Cycle, NEW o, Close(c, o)
      PROVE  instr' \in [Drafts -> [state: DraftStates, generation: Nat]]
  BY <1>2, <1>7 DEF Close, DraftStates
<1>8. ASSUME NEW c \in DOMAIN worker, WorkerFinish(c)
      PROVE  instr' \in [Drafts -> [state: DraftStates, generation: Nat]]
  BY <1>2, <1>7, <1>8, CycleFacts DEF WorkerFinish
<1>9. ASSUME NEW c \in DOMAIN enforcing, EnforceFinish(c)
      PROVE  instr' \in [Drafts -> [state: DraftStates, generation: Nat]]
  BY <1>7, <1>9, CycleFacts DEF EnforceFinish
<1> QED BY <1>1, <1>2, <1>5, <1>6, <1>8, <1>9 DEF Authorizes

\* The accounts and the policies keep theirs.
LEMMA AuthorityTypesStay ==
    ASSUME ExecInv, Next
    PROVE  AuthorityTypes'
<1>1. Authorizes BY WhoWrites DEF Writes
<1>2. AuthorityTypes BY DEF ExecInv, TypeOK, AuthorityTypes
<1>3. plan.drafts \subseteq Drafts /\ plan.accounts \subseteq Accounts /\ plan.controls \in Nat /\ plan' = plan
  BY <1>1, CycleFacts DEF Plan, Authorizes
<1>4. instr' \in [Drafts -> [state: DraftStates, generation: Nat]] BY InstructionTypesStay
<1>5. account' \in [Accounts -> [granted: BOOLEAN, paused: BOOLEAN, revision: 0..plan.controls]]
  <2>1. ASSUME NEW a \in plan.accounts, GrantBudget(a)
        PROVE  account' \in [Accounts -> [granted: BOOLEAN, paused: BOOLEAN, revision: 0..plan.controls]]
    BY <1>2, <1>3, <2>1 DEF GrantBudget, AuthorityTypes
  <2>2. ASSUME NEW a \in plan.accounts, ControlFunding(a)
        PROVE  account' \in [Accounts -> [granted: BOOLEAN, paused: BOOLEAN, revision: 0..plan.controls]]
    <3>1. account[a] \in [granted: BOOLEAN, paused: BOOLEAN, revision: 0..plan.controls]
      BY <1>2, <1>3 DEF AuthorityTypes
    <3>2. account[a].revision \in 0..plan.controls /\ account[a].revision < plan.controls
      BY <2>2, <3>1 DEF ControlFunding
    <3>5. account[a].revision + 1 \in 0..plan.controls BY <1>3, <3>2
    <3>3. account' = [account EXCEPT ![a] = [account[a] EXCEPT !.paused = ~account[a].paused,
                                                              !.revision = account[a].revision + 1]]
      BY <2>2 DEF ControlFunding
    <3>4. [account[a] EXCEPT !.paused = ~account[a].paused, !.revision = account[a].revision + 1]
            \in [granted: BOOLEAN, paused: BOOLEAN, revision: 0..plan.controls]
      BY <3>1, <3>5
    <3> QED BY <1>2, <3>3, <3>4 DEF AuthorityTypes
  <2> QED BY <1>1, <1>2, <2>1, <2>2 DEF Authorizes, AuthorityTypes
<1>6. funded' \subseteq Drafts
  BY <1>1, <1>2, <1>3 DEF Authorizes, AuthorityTypes, FundInstruction
<1>7. stopped' \subseteq Drafts
  BY <1>1, <1>2, <1>3 DEF Authorizes, AuthorityTypes, CancelActive
<1>8. DOMAIN policies' \subseteq Accounts /\ \A a \in DOMAIN policies' : policies'[a] \in [notice: BOOLEAN]
  <2>1. ASSUME NEW a \in plan.accounts, ConfigureEpisode(a)
        PROVE  DOMAIN policies' \subseteq Accounts /\ \A b \in DOMAIN policies' : policies'[b] \in [notice: BOOLEAN]
    BY <1>2, <1>3, <2>1 DEF ConfigureEpisode, AuthorityTypes
  <2>2. ASSUME NEW a \in plan.accounts, EpisodeNotice(a)
        PROVE  DOMAIN policies' \subseteq Accounts /\ \A b \in DOMAIN policies' : policies'[b] \in [notice: BOOLEAN]
    <3>1. DOMAIN policies' = DOMAIN policies /\ \A b \in DOMAIN policies \ {a} : policies'[b] = policies[b]
      BY <2>2 DEF EpisodeNotice
    <3>2. policies'[a] = [policies[a] EXCEPT !.notice = TRUE] BY <2>2 DEF EpisodeNotice
    <3>3. policies'[a] \in [notice: BOOLEAN]
      BY <1>2, <2>2, <3>2 DEF EpisodeNotice, AuthorityTypes
    <3> QED BY <1>2, <3>1, <3>3 DEF AuthorityTypes
  <2> QED BY <1>1, <1>2, <2>1, <2>2 DEF Authorizes, AuthorityTypes
<1> QED BY <1>3, <1>4, <1>5, <1>6, <1>7, <1>8 DEF AuthorityTypes

\* The queued work keeps its type, and the cycle it names exists (reserve).
LEMMA WorkTypesStay ==
    ASSUME ExecInv, Next
    PROVE  WorkTypes'
<1> DEFINE State == {"none", "queued", "intent", "withdrawn"}
<1>1. Authorizes /\ CyclesMove BY WhoWrites, EveryCycleMoves DEF Writes
<1>2. work \in [Work -> [state: State, cycle: Cycle \cup {None}]] BY DEF ExecInv, TypeOK
<1>3. Cycle \subseteq Cycle' BY <1>1 DEF CyclesMove
<1>4. work \in [Work -> [state: State, cycle: Cycle' \cup {None}]] BY <1>2, <1>3
<1>5. plan.work \subseteq Work BY CycleFacts DEF Plan
<1>6. CASE work' = work BY <1>4, <1>6 DEF WorkTypes
<1>7. ASSUME NEW w \in plan.work, EnqueueCoordination(w) \/ WithdrawCoordination(w) PROVE WorkTypes'
  <2>1. PICK s \in State : work' = [work EXCEPT ![w].state = s]
    BY <1>7 DEF EnqueueCoordination, WithdrawCoordination
  <2> QED BY <1>4, <1>5, <2>1 DEF WorkTypes
<1>8. ASSUME NEW d \in plan.drafts, NEW w \in plan.work \cup {None}, Reserve(d, w) PROVE WorkTypes'
  <2>1. CASE w = None BY <1>6, <1>8, <2>1 DEF Reserve
  <2>2. CASE w # None
    <3>1. work' = [work EXCEPT ![w] = [state |-> "intent", cycle |-> Len(cycles) + 1]]
      BY <1>8, <2>2 DEF Reserve
    <3>2. Len(cycles) + 1 \in Cycle'
      <4>1. cycles \in Seq(Row) BY DEF ExecInv, JournalOK
      <4>2. \E r : cycles' = Append(cycles, r) BY <1>8 DEF Reserve
      <4>3. Len(cycles') = Len(cycles) + 1
        <5>1. PICK r : cycles' = Append(cycles, r) BY <4>2
        <5> QED BY <4>1, <5>1
      <4>4. Len(cycles) \in Nat BY <4>1
      <4> QED BY <4>3, <4>4 DEF Cycle
    <3> QED BY <1>4, <3>1, <3>2 DEF WorkTypes
  <2> QED BY <2>1, <2>2
<1> QED BY <1>1, <1>6, <1>7, <1>8 DEF Authorizes

\* So do calls and charges (settle_charge, dispatch).
LEMMA CallTypesStay ==
    ASSUME ExecInv, Next
    PROVE  CallTypes'
<1>1. Journals /\ CallsMove /\ CyclesMove BY WhoWrites, EveryCallMoves, EveryCycleMoves DEF Writes
<1>2. ops \subseteq Op /\ returned \subseteq ops /\ dispatching \subseteq ops /\ sent \subseteq ops
  BY DEF ExecInv, TypeOK
<1>3. DOMAIN charges \subseteq Cycle /\ \A c \in DOMAIN charges : charges[c] \in Nat \cup {None}
  BY DEF ExecInv, TypeOK
<1>4. Cycle \subseteq Cycle' /\ Op \subseteq Op' BY <1>1 DEF CyclesMove, Op
<1>5. ops' \subseteq Op' /\ returned' \subseteq ops' /\ dispatching' \subseteq ops' /\ sent' \subseteq ops'
  <2>1. CASE UNCHANGED <<ops, returned, dispatching, sent>> BY <1>2, <1>4, <2>1
  <2>2. ASSUME NEW op \in Op, Issues(op)
        PROVE  ops' \subseteq Op' /\ returned' \subseteq ops' /\ dispatching' \subseteq ops' /\ sent' \subseteq ops'
    BY <1>2, <1>4, <2>2 DEF Issues
  <2>3. ASSUME NEW op \in dispatching, EndsSubmission(op)
        PROVE  ops' \subseteq Op' /\ returned' \subseteq ops' /\ dispatching' \subseteq ops' /\ sent' \subseteq ops'
    BY <1>2, <1>4, <2>3 DEF EndsSubmission
  <2>4. CASE LosesSubmissions BY <1>2, <1>4, <2>4 DEF LosesSubmissions
  <2> QED BY <1>1, <2>1, <2>2, <2>3, <2>4 DEF CallsMove
<1>6. DOMAIN charges' \subseteq Cycle' /\ \A c \in DOMAIN charges' : charges'[c] \in Nat \cup {None}
  <2>1. CASE charges' = charges BY <1>3, <1>4, <2>1
  <2>2. ASSUME NEW c \in DOMAIN charges, NEW actual \in {0, Funding[cycles[c].draft].charge},
               SettleCharge(c, actual)
        PROVE  DOMAIN charges' \subseteq Cycle' /\ \A e \in DOMAIN charges' : charges'[e] \in Nat \cup {None}
    <3>1. cycles[c].draft \in Drafts BY <1>3, CycleFacts DEF Row
    <3>2. actual \in Nat BY <3>1, FundingAssumption
    <3>3. charges' = [charges EXCEPT ![c] = actual] BY <2>2 DEF SettleCharge
    <3> QED BY <1>3, <1>4, <3>2, <3>3
  <2>3. ASSUME NEW c \in DOMAIN context, NEW kind \in plan.kinds, DispatchIntent(c, kind)
        PROVE  DOMAIN charges' \subseteq Cycle' /\ \A e \in DOMAIN charges' : charges'[e] \in Nat \cup {None}
    <3>1. c \in Cycle BY CycleFacts
    <3>2. charges' = charges \/ charges' = With(charges, c, None) BY <2>3 DEF DispatchIntent
    <3> QED BY <1>3, <1>4, <2>1, <3>1, <3>2 DEF With
  <2> QED BY <1>1, <2>1, <2>2, <2>3 DEF Journals
<1> QED BY <1>5, <1>6 DEF CallTypes

\* So does what the controller holds in its process (_contexts, enforce).
LEMMA ControllerTypesStay ==
    ASSUME ExecInv, Next
    PROVE  ControllerTypes'
<1>1. Controls /\ CallsMove /\ Cycle \subseteq Cycle'
  BY WhoWrites, EveryCallMoves, EveryCycleMoves DEF Writes, CyclesMove
<1>2. ControllerTypes BY DEF ExecInv, TypeOK, ControllerTypes
<1>3. CASE Crash BY <1>3 DEF Crash, ControllerTypes
<1>4. ASSUME ~Crash PROVE ControllerTypes'
  <2>1. held \subseteq held' /\ held' \subseteq Cycle'
    <3>1. CASE held' = held BY <1>1, <1>2, <3>1 DEF ControllerTypes
    <3>2. ASSUME NEW d \in plan.drafts, NEW w \in plan.work \cup {None}, Reserve(d, w)
          PROVE  held \subseteq held' /\ held' \subseteq Cycle'
      <4>1. held' = held \cup {Len(cycles) + 1} BY <3>2 DEF Reserve
      <4>2. Len(cycles) + 1 \in Cycle'
        <5>1. cycles \in Seq(Row) BY DEF ExecInv, JournalOK
        <5>2. PICK r : cycles' = Append(cycles, r) BY <3>2 DEF Reserve
        <5>3. Len(cycles') = Len(cycles) + 1 BY <5>1, <5>2
        <5>4. Len(cycles) \in Nat BY <5>1
        <5> QED BY <5>3, <5>4 DEF Cycle
      <4> QED BY <1>1, <1>2, <4>1, <4>2 DEF ControllerTypes
    <3> QED BY <1>1, <1>4, <3>1, <3>2 DEF Controls
  <2>2. DOMAIN context' \subseteq held' /\ \A c \in DOMAIN context' : context'[c] \in {"starting", "open", "fenced"}
    <3>1. CASE context' = context BY <1>2, <2>1, <3>1 DEF ControllerTypes
    <3>2. ASSUME NEW d \in plan.drafts, NEW w \in plan.work \cup {None}, Reserve(d, w)
          PROVE  /\ DOMAIN context' \subseteq held'
                 /\ \A c \in DOMAIN context' : context'[c] \in {"starting", "open", "fenced"}
      <4>1. context' = With(context, Len(cycles) + 1, "starting") /\ held' = held \cup {Len(cycles) + 1}
        BY <3>2 DEF Reserve
      <4> QED BY <1>2, <4>1 DEF ControllerTypes, With
    <3>3. ASSUME NEW c \in DOMAIN context, NEW s \in {"starting", "open", "fenced"},
                 context' = [context EXCEPT ![c] = s]
          PROVE  /\ DOMAIN context' \subseteq held'
                 /\ \A e \in DOMAIN context' : context'[e] \in {"starting", "open", "fenced"}
      BY <1>2, <2>1, <3>3 DEF ControllerTypes
    <3>4. ASSUME NEW c, context' = Without(context, c)
          PROVE  /\ DOMAIN context' \subseteq held'
                 /\ \A e \in DOMAIN context' : context'[e] \in {"starting", "open", "fenced"}
      BY <1>2, <2>1, <3>4 DEF ControllerTypes, Without
    <3>5. ASSUME NEW c \in DOMAIN context,
                 \/ \E kind \in plan.kinds : DispatchIntent(c, kind)
                 \/ StartDenied(c) \/ ContextFenced(c) \/ Enforce(c) \/ EnforceUnread(c)
          PROVE  \/ context' = Without(context, c)
                 \/ \E s \in {"starting", "open", "fenced"} : context' = [context EXCEPT ![c] = s]
      BY <3>5 DEF DispatchIntent, StartDenied, ContextFenced, Enforce, EnforceUnread
    <3>6. ASSUME NEW c \in DOMAIN worker, WorkerFinish(c)
          PROVE  context' = context \/ context' = Without(context, c)
      BY <3>6 DEF WorkerFinish
    <3>7. ASSUME NEW c \in DOMAIN enforcing, EnforceFinish(c)
          PROVE  context' = Without(context, c)
      BY <3>7 DEF EnforceFinish
    <3> QED BY <1>1, <1>4, <3>1, <3>2, <3>3, <3>4, <3>5, <3>6, <3>7 DEF Controls
  <2>3. failing' \subseteq held'
    <3>1. \A op \in dispatching : op.cycle \in held BY DEF ExecInv, DispatchOK
    <3>2. failing \subseteq held' BY <1>2, <2>1 DEF ControllerTypes
    <3>3. ASSUME NEW op \in dispatching, SubmitRaises(op) \/ DispatchRefused(op) PROVE failing' \subseteq held'
      <4>1. failing' = failing \cup {op.cycle} BY <3>3 DEF SubmitRaises, DispatchRefused
      <4> QED BY <2>1, <3>1, <3>2, <4>1
    <3>4. ASSUME NEW c \in failing, MarkAmbiguous(c) PROVE failing' \subseteq held'
      BY <3>2, <3>4 DEF MarkAmbiguous
    <3> QED BY <1>1, <1>4, <3>2, <3>3, <3>4 DEF Controls
  <2>4. /\ DOMAIN enforcing' \subseteq held'
        /\ \A c \in DOMAIN enforcing' : enforcing'[c] \in {"mark", "mark only", "interrupt", "interrupt only", "finish"}
    <3> DEFINE Step == {"mark", "mark only", "interrupt", "interrupt only", "finish"}
               Good == DOMAIN enforcing' \subseteq held' /\ \A c \in DOMAIN enforcing' : enforcing'[c] \in Step
    <3>1. CASE enforcing' = enforcing BY <1>2, <2>1, <3>1 DEF ControllerTypes
    <3>2. ASSUME NEW c \in DOMAIN enforcing, NEW s \in Step, enforcing' = [enforcing EXCEPT ![c] = s]
          PROVE  Good
      BY <1>2, <2>1, <3>2 DEF ControllerTypes
    <3>3. ASSUME NEW c, enforcing' = Without(enforcing, c) PROVE Good
      BY <1>2, <2>1, <3>3 DEF ControllerTypes, Without
    <3>4. ASSUME NEW c \in DOMAIN context, Enforce(c) \/ EnforceUnread(c) PROVE Good
      <4>1. enforcing' = enforcing \/ \E s \in {"mark", "mark only"} : enforcing' = With(enforcing, c, s)
        BY <3>4 DEF Enforce, EnforceUnread
      <4>2. c \in held BY <1>2 DEF ControllerTypes
      <4> QED BY <1>2, <2>1, <3>1, <4>1, <4>2 DEF ControllerTypes, With
    <3>5. ASSUME NEW c \in DOMAIN enforcing,
                 EnforceMark(c) \/ EnforceInterrupt(c) \/ EnforceFinish(c) \/ EnforceGivesUp(c)
          PROVE  \/ enforcing' = Without(enforcing, c)
                 \/ \E s \in Step : enforcing' = [enforcing EXCEPT ![c] = s]
      BY <3>5 DEF EnforceMark, EnforceInterrupt, EnforceFinish, EnforceGivesUp
    <3> QED BY <1>1, <1>4, <3>1, <3>2, <3>3, <3>4, <3>5 DEF Controls
  <2> QED BY <2>1, <2>2, <2>3, <2>4 DEF ControllerTypes
<1> QED BY <1>3, <1>4

\* So do the worker threads and the runner's journal (_worker, start).
LEMMA RunnerTypesStay ==
    ASSUME ExecInv, Next
    PROVE  RunnerTypes'
<1> DEFINE Step == {"run", "finish", "record", "fail", "mark"}
           Mark == {"intent", "completed", "ambiguous"}
<1>1. RunnerMoves /\ Cycle \subseteq Cycle' BY EveryRunnerMoves, EveryCycleMoves DEF CyclesMove
<1>2. RunnerTypes BY DEF ExecInv, TypeOK, RunnerTypes
<1>3. DOMAIN worker \subseteq Cycle BY CycleFacts
<1>4. CASE UNCHANGED runner BY <1>1, <1>2, <1>4 DEF runner, RunnerTypes
<1>5. ASSUME NEW op \in dispatching, Starts(op) PROVE RunnerTypes'
  <2>1. /\ settled' = settled /\ turns' = turns \cup {op.cycle}
        /\ runtime' = With(runtime, op.cycle, "intent") /\ worker' = With(worker, op.cycle, "run")
    BY <1>5 DEF Starts
  <2> QED BY <1>1, <1>2, <2>1 DEF RunnerTypes, With
<1>6. ASSUME NEW op \in dispatching, Journalled(op) PROVE RunnerTypes'
  <2>1. /\ turns' = turns /\ runtime' = With(runtime, op.cycle, "intent")
        /\ \/ worker' = worker /\ settled' = settled
           \/ worker' = << >> /\ settled' = {}
    BY <1>6 DEF Journalled
  <2>2. DOMAIN runtime' = DOMAIN runtime \cup {op.cycle} /\ \A c \in DOMAIN runtime' : runtime'[c] \in Mark
    BY <1>2, <2>1 DEF RunnerTypes, With
  <2> QED BY <1>1, <1>2, <2>1, <2>2 DEF RunnerTypes
<1>7. ASSUME NEW c \in DOMAIN worker, WorkerMoves(c) PROVE RunnerTypes'
  <2>1. DOMAIN runtime' = DOMAIN runtime /\ \A e \in DOMAIN runtime' : runtime'[e] \in Mark
    BY <1>2, <1>7 DEF RunnerTypes, WorkerMoves
  <2>2. DOMAIN worker' \subseteq DOMAIN worker /\ \A e \in DOMAIN worker' : worker'[e] \in Step
    BY <1>2, <1>7 DEF RunnerTypes, WorkerMoves, Without
  <2>3. settled' \subseteq Cycle' /\ turns' \subseteq turns
    BY <1>1, <1>2, <1>3, <1>7 DEF RunnerTypes, WorkerMoves
  <2> QED BY <1>2, <2>1, <2>2, <2>3 DEF RunnerTypes
<1>8. CASE Ends BY <1>1, <1>2, <1>8 DEF Ends, RunnerTypes
<1> QED BY <1>1, <1>4, <1>5, <1>6, <1>7, <1>8 DEF RunnerMoves

\* Every step keeps the types.
LEMMA TypesStay ==
    ASSUME ExecInv, Next
    PROVE  TypeOK'
<1>1. ClockTypes' BY ClockTypesStay
<1>2. AuthorityTypes' BY AuthorityTypesStay
<1>3. WorkTypes' BY WorkTypesStay
<1>4. CallTypes' BY CallTypesStay
<1>5. ControllerTypes' BY ControllerTypesStay
<1>6. RunnerTypes' BY RunnerTypesStay
<1>7. \A c \in Cycle' : cycles'[c] \in Row
  <2>1. cycles' \in Seq(Row) BY EveryCycleMoves DEF CyclesMove
  <2> QED BY <2>1 DEF Cycle
<1> QED BY <1>1, <1>2, <1>3, <1>4, <1>5, <1>6, <1>7
        DEF TypeOK, ClockTypes, AuthorityTypes, WorkTypes, CallTypes, ControllerTypes, RunnerTypes, Row

-----------------------------------------------------------------------------
(* The theorems. *)

\* The empty store and an idle host satisfy the invariant.
LEMMA ExecInit ==
    ASSUME Init
    PROVE  ExecInv
<1> USE DEF Init
<1>1. cycles = << >> /\ Cycle = {} /\ cycles \in Seq(Row) BY DEF Cycle
<1>2. ClockTypes
  <2>1. plan \in Plan BY PlansAssumption
  <2>2. plan.time \in Nat /\ plan.rollbacks \in Nat /\ plan.crashes \in Nat BY <2>1 DEF Plan
  <2>3. 0 \in 0..plan.time /\ 0 \in 0..plan.rollbacks /\ 0 \in 0..plan.crashes BY <2>2
  <2>4. clockFault \in BOOLEAN OBVIOUS
  <2> QED BY <2>3, <2>4 DEF ClockTypes
<1>3. AuthorityTypes
  <2>1. plan \in Plan BY PlansAssumption
  <2>2. plan.controls \in Nat BY <2>1 DEF Plan
  <2>3. 0 \in 0..plan.controls BY <2>2
  <2>4. instr \in [Drafts -> [state: DraftStates, generation: Nat]] BY DEF DraftStates
  <2>5. account \in [Accounts -> [granted: BOOLEAN, paused: BOOLEAN, revision: 0..plan.controls]]
    <3>1. [granted |-> FALSE, paused |-> FALSE, revision |-> 0]
            \in [granted: BOOLEAN, paused: BOOLEAN, revision: 0..plan.controls]
      BY <2>3
    <3>2. account = [a \in Accounts |-> [granted |-> FALSE, paused |-> FALSE, revision |-> 0]] OBVIOUS
    <3> QED BY <3>1, <3>2
  <2> QED BY <2>4, <2>5 DEF AuthorityTypes
<1>4. WorkTypes
  <2>1. work = [w \in Work |-> [state |-> "none", cycle |-> None]] OBVIOUS
  <2> QED BY <2>1 DEF WorkTypes
<1>5. CallTypes /\ ControllerTypes /\ RunnerTypes
  BY DEF CallTypes, ControllerTypes, RunnerTypes
<1>6. TypeOK
  BY <1>1, <1>2, <1>3, <1>4, <1>5
  DEF TypeOK, ClockTypes, AuthorityTypes, WorkTypes, CallTypes, ControllerTypes, RunnerTypes
<1>7. JournalOK
  <2>1. ops = {} /\ IsFiniteSet(ops) BY FS_EmptySet
  <2> QED BY <1>1, <2>1 DEF JournalOK
<1>8. DispatchOK /\ RunnerOK /\ CancelledOK /\ StoppedMeansStopped
  BY DEF DispatchOK, RunnerOK, CancelledOK, StoppedMeansStopped
<1> QED BY <1>6, <1>7, <1>8 DEF ExecInv

\* Every step preserves it.
LEMMA ExecStep ==
    ASSUME ExecInv, [Next]_vars
    PROVE  ExecInv'
<1>1. CASE Next
  BY <1>1, TypesStay, JournalStays, DispatchStays, RunnerStays, CancelledStays, StoppedStays DEF ExecInv
<1>2. CASE UNCHANGED vars
  <2> USE <1>2 DEF vars, clock, observed, authority, attempts, controller, runner, process, world
  <2>1. TypeOK'
    BY DEF ExecInv, TypeOK, Cycle, Op
  <2>2. JournalOK'
    BY DEF ExecInv, JournalOK, Cycle, Issued, Limit, Session
  <2>3. (DispatchOK /\ CancelledOK /\ StoppedMeansStopped)'
    BY DEF ExecInv, DispatchOK, CancelledOK, StoppedMeansStopped
  <2>4. RunnerOK'
    BY DEF ExecInv, RunnerOK, Cycle, Begun
  <2> QED BY <2>1, <2>2, <2>3, <2>4 DEF ExecInv
<1> QED BY <1>1, <1>2

\* A live turn holds its session alone, the calls of a cycle stay within it, and
\* no turn of a draft that was answered as stopped lives (execution_store.py, review_runner.py).
THEOREM TurnsStayBounded == Spec => []TurnsAreBounded
<1>1. ASSUME ExecInv PROVE TurnsAreBounded
  <2>1. LiveTurnHoldsSession
    <3>1. SUFFICES ASSUME NEW c \in turns
                   PROVE  /\ cycles[c].state \in {"intent", "ambiguous"}
                          /\ \A e \in Cycle : Session(e) = Session(c) /\ e # c =>
                                cycles[e].state \in {"completed", "stopped"}
      BY DEF LiveTurnHoldsSession
    <3>2. c \in Cycle /\ \A e \in Cycle : cycles[e].state \in InFlight \cup Terminal
      BY <1>1, CycleFacts DEF Row
    <3>3. cycles[c].state \in InFlight BY <1>1 DEF ExecInv, RunnerOK
    <3>4. \A e \in Cycle : Session(e) = Session(c) /\ e # c => cycles[e].state \notin InFlight
      BY <1>1, <3>2, <3>3 DEF ExecInv, JournalOK
    <3> QED BY <3>2, <3>3, <3>4 DEF InFlight, Terminal
  <2>2. SubmissionsWithinCycle
    <3>1. SUFFICES ASSUME NEW c \in Cycle, NEW kind \in Kinds
                   PROVE  Cardinality({op \in sent : op.cycle = c /\ op.kind = kind}) <= Limit(c, kind)
      BY DEF SubmissionsWithinCycle
    <3> DEFINE left == {op \in sent : op.cycle = c /\ op.kind = kind}
    <3>2. left \subseteq Issued(c, kind) BY <1>1 DEF Issued, ExecInv, TypeOK
    <3>3. IsFiniteSet(Issued(c, kind))
      <4>1. Issued(c, kind) \subseteq ops BY DEF Issued
      <4> QED BY <1>1, <4>1, FS_Subset DEF ExecInv, JournalOK
    <3>4. IsFiniteSet(left) /\ Cardinality(left) <= Cardinality(Issued(c, kind)) BY <3>2, <3>3, FS_Subset
    <3>5. Cardinality(left) \in Nat /\ Cardinality(Issued(c, kind)) \in Nat
      BY <3>3, <3>4, FS_CardinalityType
    <3>6. Cardinality(Issued(c, kind)) <= Limit(c, kind) BY <1>1 DEF ExecInv, JournalOK
    <3>7. Limit(c, kind) \in Nat
      BY <1>1, CycleFacts, TermsAssumption DEF Limit, Row
    <3> QED BY <3>4, <3>5, <3>6, <3>7
  <2> QED BY <1>1, <2>1, <2>2 DEF TurnsAreBounded, ExecInv
<1> QED BY <1>1, ExecInit, ExecStep, PTL DEF Spec

\* A call leaves under the authority of this very moment.
Authorized ==
    \A op \in sent' \ sent :
        LET d == cycles[op.cycle].draft IN
        /\ instr[d].state = "active" /\ cycles[op.cycle].state = "intent"
        /\ Now /\ wall < cycles[op.cycle].deadline
        /\ d \in funded => \A a \in Funding[d].accounts :
            ~account[a].paused /\ (op.kind = "provider" => ~Uncertain(a))

\* Bytes leave only under authority that holds at that moment (dispatch, its
\* second transaction).
THEOREM SubmissionsAreAuthorized == Spec => SubmittedUnderAuthority
<1>1. ASSUME ExecInv, [Next]_vars PROVE [Authorized]_vars
  <2>1. CASE UNCHANGED vars BY <2>1
  <2>2. CASE Next
    <3>1. SUFFICES ASSUME NEW op \in sent' \ sent
                   PROVE  LET d == cycles[op.cycle].draft IN
                          /\ instr[d].state = "active" /\ cycles[op.cycle].state = "intent"
                          /\ Now /\ wall < cycles[op.cycle].deadline
                          /\ d \in funded => \A a \in Funding[d].accounts :
                              ~account[a].paused /\ (op.kind = "provider" => ~Uncertain(a))
      BY DEF Authorized
    <3> DEFINE d == cycles[op.cycle].draft
    <3>2. op \in dispatching /\ Submittable(op) /\ Now BY <1>1, <2>2, SubmissionsChecked
    <3>3. Guard(op.cycle) /\ (op.kind = "provider" /\ d \in funded => \A a \in Funding[d].accounts : ~Uncertain(a))
      BY <3>2 DEF Submittable
    <3>4. wall < cycles[op.cycle].deadline
      <4>1. wall < Lower(Terms[d].end, cycles[op.cycle].deadline) BY <3>3 DEF Guard
      <4>2. op.cycle \in Cycle /\ cycles[op.cycle] \in Row /\ wall \in Nat BY <1>1, <3>2, CycleFacts
      <4>3. d \in Drafts /\ cycles[op.cycle].deadline \in Nat BY <4>2 DEF Row
      <4>4. Terms[d].end \in Nat BY <4>3, TermsAssumption
      <4> QED BY <4>1, <4>2, <4>3, <4>4 DEF Lower
    <3>5. d \in funded => \A a \in Funding[d].accounts : ~account[a].paused
      BY <3>3 DEF Guard, FundingOpen
    <3> QED BY <3>2, <3>3, <3>4, <3>5 DEF Guard
  <2> QED BY <1>1, <2>1, <2>2
<1>2. Spec => [][Authorized]_vars BY <1>1, ExecInit, ExecStep, PTL DEF Spec
<1> QED BY <1>2 DEF SubmittedUnderAuthority, Authorized

-----------------------------------------------------------------------------
(* The books. *)

\* What is charged belongs to a funded draft and stays within what was signed
\* for it; where funding is required, every cycle is of a funded draft and every
\* provider call is charged.
BooksOK ==
    /\ \A c \in DOMAIN charges :
        /\ cycles[c].draft \in funded
        /\ charges[c] # None => charges[c] <= Funding[cycles[c].draft].charge
    /\ \A c \in Cycle : Session(c) \in Strict \cup Selected => cycles[c].draft \in funded
    /\ \A op \in ops :
        op.kind = "provider" /\ Session(op.cycle) \in Strict \cup Selected => op.cycle \in DOMAIN charges

\* The ceilings hold of all that is reserved or spent, whether it left or not.
CeilingsHold ==
    \A a \in Accounts :
        /\ Cardinality(Charged(a)) <= Ceiling[a].calls
        /\ Cardinality(Active(a)) <= Ceiling[a].active
        /\ Spend(a) <= Ceiling[a].charge

\* A reserved charge is settled once, for no more than was reserved.
Settles(c) ==
    /\ charges[c] = None
    /\ \E n \in Nat : n <= Funding[cycles[c].draft].charge /\ charges' = [charges EXCEPT ![c] = n]
    /\ UNCHANGED <<cycles, funded>>

\* A charge is reserved when every account of the draft admits it.
Reserves(c) ==
    /\ cycles[c].draft \in funded /\ ChargeAdmissible(cycles[c].draft)
    /\ charges' = With(charges, c, None)
    /\ UNCHANGED <<cycles, funded>>

ChargesMove ==
    \/ charges' = charges
    \/ \E c \in DOMAIN charges : Settles(c)
    \/ \E c \in Cycle : Reserves(c)

\* How charges move.
LEMMA EveryChargeMoves ==
    ASSUME ExecInv, Next
    PROVE  ChargesMove
<1>1. Journals BY WhoWrites DEF Writes
<1>2. ASSUME NEW c \in DOMAIN charges, NEW actual \in {0, Funding[cycles[c].draft].charge},
             SettleCharge(c, actual)
      PROVE  Settles(c)
  <2>1. c \in Cycle BY DEF ExecInv, TypeOK
  <2>2. cycles[c].draft \in Drafts BY <2>1, CycleFacts DEF Row
  <2>3. actual \in Nat BY <2>2, FundingAssumption
  <2> QED BY <1>2, <2>3 DEF SettleCharge, Settles, authority
<1>3. ASSUME NEW c \in DOMAIN context, NEW kind \in plan.kinds, DispatchIntent(c, kind)
      PROVE  ChargesMove
  <2>1. c \in Cycle BY CycleFacts
  <2>2. CASE kind = "provider" /\ cycles[c].draft \in funded
    <3>1. Reserves(c) BY <1>3, <2>2 DEF DispatchIntent, Reserves, authority
    <3> QED BY <2>1, <3>1 DEF ChargesMove
  <2>3. CASE ~(kind = "provider" /\ cycles[c].draft \in funded)
    BY <1>3, <2>3 DEF DispatchIntent, ChargesMove
  <2> QED BY <2>2, <2>3
<1> QED BY <1>1, <1>2, <1>3 DEF Journals, ChargesMove

\* A funded draft stays funded.
LEMMA FundedGrows ==
    ASSUME Next
    PROVE  funded \subseteq funded'
BY WhoWrites DEF Writes, Authorizes, FundInstruction

\* What is charged stays charged, and with it its draft.
LEMMA ChargesGrow ==
    ASSUME ExecInv, Next
    PROVE  /\ DOMAIN charges \subseteq DOMAIN charges' /\ DOMAIN charges \subseteq Cycle
           /\ \A c \in DOMAIN charges : cycles'[c].draft = cycles[c].draft
<1>1. DOMAIN charges \subseteq DOMAIN charges'
  BY EveryChargeMoves DEF ChargesMove, Settles, Reserves, With
<1>2. DOMAIN charges \subseteq Cycle BY DEF ExecInv, TypeOK
<1>3. \A c \in Cycle : cycles'[c].draft = cycles[c].draft
  BY EveryCycleMoves DEF CyclesMove, RowKept
<1> QED BY <1>1, <1>2, <1>3

\* Every step keeps the books (reserve, dispatch, settle_charge).
LEMMA BooksStay ==
    ASSUME ExecInv, BooksOK, Next
    PROVE  BooksOK'
<1>1. ChargesMove /\ CyclesMove BY EveryChargeMoves, EveryCycleMoves
<1>2. funded \subseteq funded' BY FundedGrows
<1>3. /\ DOMAIN charges \subseteq DOMAIN charges' /\ DOMAIN charges \subseteq Cycle
      /\ \A c \in DOMAIN charges : cycles'[c].draft = cycles[c].draft
  BY ChargesGrow
<1>4. ASSUME NEW c \in DOMAIN charges'
      PROVE  /\ cycles'[c].draft \in funded'
             /\ charges'[c] # None => charges'[c] <= Funding[cycles'[c].draft].charge
  <2> DEFINE Booked(n) == /\ cycles'[c].draft \in funded'
                          /\ n # None => n <= Funding[cycles'[c].draft].charge
  <2>1. \A e \in DOMAIN charges :
            /\ cycles'[e].draft \in funded'
            /\ charges[e] # None => charges[e] <= Funding[cycles'[e].draft].charge
    BY <1>2, <1>3 DEF BooksOK
  <2>2. CASE charges' = charges BY <2>1, <2>2
  <2>3. ASSUME NEW e \in DOMAIN charges, Settles(e) PROVE Booked(charges'[c])
    BY <2>1, <2>3 DEF Settles
  <2>4. ASSUME NEW e \in Cycle, Reserves(e) PROVE Booked(charges'[c])
    BY <2>1, <2>4 DEF Reserves, With
  <2> QED BY <1>1, <2>2, <2>3, <2>4 DEF ChargesMove
<1>5. ASSUME NEW c \in Cycle', Session(c)' \in Strict \cup Selected
      PROVE  cycles'[c].draft \in funded'
  <2>1. CASE c \in Cycle
    <3>1. cycles'[c].draft = cycles[c].draft BY <1>1, <2>1 DEF CyclesMove, RowKept
    <3>2. Session(c) \in Strict \cup Selected BY <1>5, <3>1 DEF Session
    <3> QED BY <1>2, <2>1, <3>1, <3>2 DEF BooksOK
  <2>2. CASE c \notin Cycle
    <3>1. RowNew(c) BY <1>1, <2>2 DEF CyclesMove
    <3> QED BY <1>2, <1>5, <3>1 DEF RowNew, Session
  <2> QED BY <2>1, <2>2
<1>6. ASSUME NEW op \in ops', op.kind = "provider", Session(op.cycle)' \in Strict \cup Selected
      PROVE  op.cycle \in DOMAIN charges'
  <2>1. CASE op \in ops
    <3>1. op.cycle \in Cycle BY <2>1 DEF ExecInv, TypeOK, Op
    <3>2. Session(op.cycle) \in Strict \cup Selected
      BY <1>1, <1>6, <3>1 DEF CyclesMove, RowKept, Session
    <3> QED BY <1>3, <1>6, <2>1, <3>2 DEF BooksOK
  <2>2. CASE op \notin ops
    <3>1. PICK c \in DOMAIN context, kind \in plan.kinds : DispatchIntent(c, kind)
      BY <2>2, WhoWrites DEF Writes, Journals
    <3>2. op = [cycle |-> c, kind |-> kind,
                n |-> Cardinality({o \in ops : o.cycle = c /\ o.kind = kind}) + 1]
      BY <2>2, <3>1 DEF DispatchIntent
    <3>3. op.cycle = c /\ kind = "provider" BY <1>6, <3>2
    <3>4. c \in Cycle /\ cycles' = cycles BY <3>1, CycleFacts DEF DispatchIntent
    <3>5. cycles[c].draft \in funded BY <1>6, <3>3, <3>4 DEF BooksOK, Session
    <3>6. charges' = With(charges, c, None) BY <3>1, <3>3, <3>5 DEF DispatchIntent
    <3> QED BY <3>3, <3>6 DEF With
  <2> QED BY <2>1, <2>2
<1> QED BY <1>4, <1>5, <1>6 DEF BooksOK

\* What is charged to an account.
LEMMA ChargedFacts ==
    ASSUME ExecInv, BooksOK, NEW a
    PROVE  /\ IsFiniteSet(Charged(a)) /\ Active(a) \subseteq Charged(a)
           /\ Charged(a) \subseteq DOMAIN charges /\ Charged(a) \subseteq Cycle
           /\ \A c \in Charged(a) :
                /\ cycles[c].draft \in Drafts /\ Funding[cycles[c].draft].charge \in Nat
                /\ Exposure(c) \in Nat /\ Exposure(c) <= Funding[cycles[c].draft].charge
           /\ [c \in Charged(a) |-> Exposure(c)] \in [Charged(a) -> Nat]
<1>1. Charged(a) \subseteq DOMAIN charges /\ Active(a) \subseteq Charged(a) BY DEF Charged, Active
<1>2. DOMAIN charges \subseteq Cycle /\ \A c \in DOMAIN charges : charges[c] \in Nat \cup {None}
  BY DEF ExecInv, TypeOK
<1>3. IsFiniteSet(Charged(a))
  <2>1. IsFiniteSet(Cycle) BY CycleFacts, FS_Interval DEF Cycle
  <2> QED BY <1>1, <1>2, <2>1, FS_Subset
<1>4. ASSUME NEW c \in Charged(a)
      PROVE  /\ cycles[c].draft \in Drafts /\ Funding[cycles[c].draft].charge \in Nat
             /\ Exposure(c) \in Nat /\ Exposure(c) <= Funding[cycles[c].draft].charge
  <2>1. c \in DOMAIN charges /\ c \in Cycle BY <1>1, <1>2
  <2>2. cycles[c].draft \in Drafts BY <2>1, CycleFacts DEF Row
  <2>3. Funding[cycles[c].draft].charge \in Nat BY <2>2, FundingAssumption
  <2>4. charges[c] # None => charges[c] <= Funding[cycles[c].draft].charge BY <2>1 DEF BooksOK
  <2> QED BY <1>2, <2>1, <2>2, <2>3, <2>4 DEF Exposure
<1> QED BY <1>1, <1>2, <1>3, <1>4

\* A smaller set of charges, each of them no greater, stays under the ceilings.
LEMMA FewerCharges ==
    ASSUME ExecInv, BooksOK, CeilingsHold, NEW a \in Accounts,
           Charged(a)' \subseteq Charged(a), Active(a)' \subseteq Active(a),
           \A c \in Charged(a)' : Exposure(c)' \in Nat /\ Exposure(c)' <= Exposure(c)
    PROVE  /\ Cardinality(Charged(a)') <= Ceiling[a].calls
           /\ Cardinality(Active(a)') <= Ceiling[a].active
           /\ Spend(a)' <= Ceiling[a].charge
<1> DEFINE S == Charged(a)
           T == Charged(a)'
           f == [c \in S |-> Exposure(c)]
           e == [c \in T |-> Exposure(c)']
<1>1. /\ Cardinality(S) <= Ceiling[a].calls /\ Cardinality(Active(a)) <= Ceiling[a].active
      /\ Spend(a) <= Ceiling[a].charge
  BY DEF CeilingsHold
<1>2. IsFiniteSet(S) /\ Active(a) \subseteq S /\ f \in [S -> Nat] BY ChargedFacts
<1>3. IsFiniteSet(Active(a)) /\ T \in SUBSET S BY <1>2, FS_Subset
<1>4. Cardinality(T) <= Cardinality(S) /\ Cardinality(Active(a)') <= Cardinality(Active(a))
  BY <1>2, <1>3, FS_Subset
<1>5. /\ Cardinality(S) \in Nat /\ Cardinality(Active(a)) \in Nat
      /\ Cardinality(T) \in Nat /\ Cardinality(Active(a)') \in Nat
  BY <1>2, <1>3, FS_Subset, FS_CardinalityType
<1>6. Ceiling[a].calls \in Nat /\ Ceiling[a].active \in Nat /\ Ceiling[a].charge \in Nat
  BY FundingAssumption
<1>7. Spend(a)' = SumFunction(e) /\ Spend(a) = SumFunction(f) BY DEF Spend
<1>8. e \in [T -> Nat] /\ \A c \in T : e[c] <= f[c] BY <1>3
<1> HIDE DEF S, T, f, e
<1>9. SumFunction(e) \in Nat /\ SumFunction(f) \in Nat /\ SumFunction(e) <= SumFunction(f)
  BY <1>2, <1>3, <1>8, SumMonotone
<1>10. Cardinality(T) <= Ceiling[a].calls BY <1>1, <1>4, <1>5, <1>6
<1>11. Cardinality(Active(a)') <= Ceiling[a].active BY <1>1, <1>4, <1>5, <1>6
<1>12. Spend(a)' <= Ceiling[a].charge BY <1>1, <1>6, <1>7, <1>9
<1> QED BY <1>10, <1>11, <1>12 DEF T

\* One more charge that the account admits stays under its ceilings too.
LEMMA OneMoreCharge ==
    ASSUME ExecInv, BooksOK, NEW a \in Accounts, NEW c, NEW charge \in Nat,
           Cardinality(Charged(a)) < Ceiling[a].calls,
           Cardinality(Active(a)) < Ceiling[a].active,
           Spend(a) + charge <= Ceiling[a].charge,
           Charged(a)' = Charged(a) \cup {c}, Active(a)' \subseteq Active(a) \cup {c},
           \A x \in Charged(a) \ {c} : Exposure(x)' = Exposure(x), Exposure(c)' = charge
    PROVE  /\ Cardinality(Charged(a)') <= Ceiling[a].calls
           /\ Cardinality(Active(a)') <= Ceiling[a].active
           /\ Spend(a)' <= Ceiling[a].charge
<1> DEFINE S == Charged(a)
           A == Active(a)
           e == [x \in S |-> Exposure(x)]
           f == [x \in S \cup {c} |-> Exposure(x)']
<1>1. IsFiniteSet(S) /\ A \subseteq S /\ e \in [S -> Nat] BY ChargedFacts
<1>2. IsFiniteSet(A) BY <1>1, FS_Subset
<1>3. /\ IsFiniteSet(S \cup {c}) /\ Cardinality(S \cup {c}) <= Cardinality(S) + 1
      /\ IsFiniteSet(A \cup {c}) /\ Cardinality(A \cup {c}) <= Cardinality(A) + 1
      /\ Cardinality(S) \in Nat /\ Cardinality(A) \in Nat
  <2>1. ASSUME NEW X, IsFiniteSet(X)
        PROVE  /\ IsFiniteSet(X \cup {c}) /\ Cardinality(X \cup {c}) <= Cardinality(X) + 1
               /\ Cardinality(X) \in Nat
    <3>1. Cardinality(X) \in Nat BY <2>1, FS_CardinalityType
    <3>2. /\ IsFiniteSet(X \cup {c})
          /\ Cardinality(X \cup {c}) = IF c \in X THEN Cardinality(X) ELSE Cardinality(X) + 1
      BY <2>1, FS_AddElement
    <3> QED BY <3>1, <3>2
  <2> QED BY <1>1, <1>2, <2>1
<1>4. /\ Cardinality(Active(a)') <= Cardinality(A \cup {c})
      /\ Cardinality(Active(a)') \in Nat /\ Cardinality(A \cup {c}) \in Nat
      /\ Cardinality(S \cup {c}) \in Nat
  <2>1. Active(a)' \subseteq A \cup {c} OBVIOUS
  <2> QED BY <1>3, <2>1, FS_Subset, FS_CardinalityType
<1>5. Ceiling[a].calls \in Nat /\ Ceiling[a].active \in Nat /\ Ceiling[a].charge \in Nat
  BY FundingAssumption
<1>6. Spend(a)' = SumFunction(f) /\ Spend(a) = SumFunction(e) BY DEF Spend
<1>7. f \in [S \cup {c} -> Nat] /\ f[c] = charge /\ \A y \in S \ {c} : f[y] = e[y]
  <2>1. \A x \in S : Exposure(x) \in Nat BY ChargedFacts
  <2> QED BY <2>1
<1>8. Charged(a)' = S \cup {c} /\ Cardinality(S) < Ceiling[a].calls /\ Cardinality(A) < Ceiling[a].active
      /\ Spend(a) + charge <= Ceiling[a].charge
  OBVIOUS
<1> HIDE DEF S, A, e, f
<1>9. SumFunction(f) \in Nat /\ SumFunction(e) \in Nat /\ SumFunction(f) <= f[c] + SumFunction(e)
  BY <1>1, <1>7, SumOneMore
<1>10. Cardinality(S \cup {c}) <= Ceiling[a].calls BY <1>3, <1>4, <1>5, <1>8
<1>11. Cardinality(Active(a)') <= Ceiling[a].active BY <1>3, <1>4, <1>5, <1>8
<1>12. Spend(a)' <= Ceiling[a].charge BY <1>5, <1>6, <1>7, <1>8, <1>9
<1> QED BY <1>8, <1>10, <1>11, <1>12

\* Every step keeps every account under its ceilings (_reserve_charge, _balance).
LEMMA CeilingsStay ==
    ASSUME ExecInv, BooksOK, CeilingsHold, Next
    PROVE  CeilingsHold'
<1>1. ChargesMove /\ CyclesMove BY EveryChargeMoves, EveryCycleMoves
<1>2. funded \subseteq funded' BY FundedGrows
<1>3. DOMAIN charges \subseteq Cycle /\ \A c \in DOMAIN charges : cycles'[c].draft = cycles[c].draft
  BY ChargesGrow
<1>4. SUFFICES ASSUME NEW a \in Accounts
               PROVE  /\ Cardinality(Charged(a)') <= Ceiling[a].calls
                      /\ Cardinality(Active(a)') <= Ceiling[a].active
                      /\ Spend(a)' <= Ceiling[a].charge
  BY DEF CeilingsHold
<1> DEFINE Under == /\ Cardinality(Charged(a)') <= Ceiling[a].calls
                    /\ Cardinality(Active(a)') <= Ceiling[a].active
                    /\ Spend(a)' <= Ceiling[a].charge
<1>5. \A c \in Charged(a) :
        /\ c \in DOMAIN charges /\ Funding[cycles[c].draft].charge \in Nat
        /\ Exposure(c) \in Nat /\ Exposure(c) <= Funding[cycles[c].draft].charge
  BY ChargedFacts
<1>6. CASE charges' = charges
  <2>1. Charged(a)' = Charged(a)
    <3>1. \A c \in DOMAIN charges : cycles[c].draft \in funded BY DEF BooksOK
    <3> QED BY <1>2, <1>3, <1>6, <3>1 DEF Charged
  <2>2. Active(a)' \subseteq Active(a)
    <3>1. ASSUME NEW c \in Cycle, cycles'[c].state \in InFlight PROVE cycles[c].state \in InFlight
      BY <1>1, <3>1 DEF CyclesMove, RowKept, InFlight, Terminal
    <3> QED BY <1>3, <1>5, <1>6, <2>1, <3>1 DEF Active
  <2>3. \A c \in Charged(a)' : Exposure(c)' \in Nat /\ Exposure(c)' <= Exposure(c)
    <3>1. \A c \in Charged(a) : Exposure(c)' = Exposure(c) BY <1>3, <1>5, <1>6 DEF Exposure
    <3> QED BY <1>5, <2>1, <3>1
  <2> QED BY <2>1, <2>2, <2>3, FewerCharges
<1>7. ASSUME NEW c \in DOMAIN charges, Settles(c) PROVE Under
  <2>1. PICK n \in Nat : n <= Funding[cycles[c].draft].charge /\ charges' = [charges EXCEPT ![c] = n]
    BY <1>7 DEF Settles
  <2>2. cycles' = cycles /\ funded' = funded /\ charges[c] = None /\ n # None
    BY <1>7, NoneAssumption DEF Settles
  <2>3. DOMAIN charges' = DOMAIN charges /\ charges'[c] = n
        /\ \A x \in DOMAIN charges \ {c} : charges'[x] = charges[x]
    BY <2>1
  <2>4. Charged(a)' = Charged(a) BY <2>2, <2>3 DEF Charged
  <2>5. Active(a)' \subseteq Active(a) BY <1>5, <2>2, <2>3, <2>4 DEF Active
  <2>6. ASSUME NEW x \in Charged(a) PROVE Exposure(x)' \in Nat /\ Exposure(x)' <= Exposure(x)
    <3>1. CASE x = c
      <4>1. Exposure(x)' = n /\ Exposure(x) = Funding[cycles[c].draft].charge
        BY <2>2, <2>3, <3>1 DEF Exposure
      <4> QED BY <2>1, <4>1
    <3>2. CASE x # c
      <4>1. Exposure(x)' = Exposure(x) BY <1>5, <2>2, <2>3, <3>2 DEF Exposure
      <4> QED BY <1>5, <4>1
    <3> QED BY <3>1, <3>2
  <2> QED BY <2>4, <2>5, <2>6, FewerCharges
<1>8. ASSUME NEW c \in Cycle, Reserves(c) PROVE Under
  <2> DEFINE d == cycles[c].draft
  <2>1. cycles' = cycles /\ funded' = funded /\ d \in funded /\ ChargeAdmissible(d)
    BY <1>8 DEF Reserves
  <2>2. /\ DOMAIN charges' = DOMAIN charges \cup {c} /\ charges'[c] = None
        /\ \A x \in DOMAIN charges \ {c} : charges'[x] = charges[x]
    BY <1>8 DEF Reserves, With
  <2>3. d \in Drafts /\ Funding[d].charge \in Nat BY CycleFacts, FundingAssumption DEF Row
  <2>4. \A x \in Charged(a) \ {c} : Exposure(x)' = Exposure(x) BY <1>5, <2>1, <2>2 DEF Exposure
  <2>5. CASE a \in Funding[d].accounts
    <3>1. Charged(a)' = Charged(a) \cup {c} BY <2>1, <2>2, <2>5 DEF Charged
    <3>2. Active(a)' \subseteq Active(a) \cup {c} BY <1>5, <2>1, <2>2, <3>1 DEF Active
    <3>3. Exposure(c)' = Funding[d].charge BY <2>1, <2>2 DEF Exposure
    <3>4. /\ Cardinality(Charged(a)) < Ceiling[a].calls /\ Cardinality(Active(a)) < Ceiling[a].active
          /\ Spend(a) + Funding[d].charge <= Ceiling[a].charge
      BY <2>1, <2>5 DEF ChargeAdmissible
    <3> QED BY <2>3, <2>4, <3>1, <3>2, <3>3, <3>4, OneMoreCharge
  <2>6. CASE a \notin Funding[d].accounts
    <3>1. Charged(a)' = Charged(a) /\ c \notin Charged(a) BY <2>1, <2>2, <2>6 DEF Charged
    <3>2. Active(a)' \subseteq Active(a) BY <1>5, <2>1, <2>2, <3>1 DEF Active
    <3>3. \A x \in Charged(a)' : Exposure(x)' \in Nat /\ Exposure(x)' <= Exposure(x)
      BY <1>5, <2>4, <3>1
    <3> QED BY <3>1, <3>2, <3>3, FewerCharges
  <2> QED BY <2>5, <2>6
<1> QED BY <1>1, <1>6, <1>7, <1>8 DEF ChargesMove

-----------------------------------------------------------------------------
(* Queued work. *)

\* The messages an account has taken, and those it still has before it.
Queued == {w \in Work : work[w].state # "none"}

Backlog(a) ==
    {w \in OfEpisode(a) :
        \/ work[w].state = "queued"
        \/ work[w].cycle # None /\ cycles[work[w].cycle].state \notin Terminal}

QueueOK ==
    /\ IsFiniteSet(Queued)
    /\ \A w \in Queued : Request[w].account \in DOMAIN policies

LinksOK ==
    /\ \A w \in Work : work[w].state = "intent" <=> work[w].cycle # None
    /\ \A w, x \in Work : work[w].cycle # None /\ work[w].cycle = work[x].cycle => w = x
    /\ \A w \in Work : work[w].cycle # None => cycles[work[w].cycle].draft = Request[w].draft

BacklogOK ==
    \A a \in DOMAIN policies :
        /\ Cardinality(OfEpisode(a)) <= Policy[a].requests
        /\ Cardinality(Backlog(a)) <= Policy[a].pending

\* A message is queued where its account has room for it.
Queues(w) ==
    /\ work[w].state = "none" /\ Request[w].account \in DOMAIN policies
    /\ Cardinality(OfEpisode(Request[w].account)) < Policy[Request[w].account].requests
    /\ Cardinality(Pending(Request[w].account)) < Policy[Request[w].account].pending
    /\ work' = [work EXCEPT ![w].state = "queued"]
    /\ UNCHANGED cycles

Withdraws(w) ==
    /\ work[w].state = "queued"
    /\ work' = [work EXCEPT ![w].state = "withdrawn"]
    /\ UNCHANGED cycles

\* A queued message is taken by a new cycle of its draft.
Takes(w) ==
    /\ work[w].state = "queued"
    /\ work' = [work EXCEPT ![w] = [state |-> "intent", cycle |-> Len(cycles) + 1]]
    /\ cycles'[Len(cycles) + 1].draft = Request[w].draft

WorkMoves ==
    \/ work' = work
    \/ policies' = policies /\ \E w \in Work : Queues(w) \/ Withdraws(w) \/ Takes(w)

\* How work moves.
LEMMA EveryWorkMoves ==
    ASSUME ExecInv, Next
    PROVE  WorkMoves
<1>1. Authorizes BY WhoWrites DEF Writes
<1>2. plan.work \subseteq Work BY CycleFacts DEF Plan
<1>3. ASSUME NEW w \in plan.work, EnqueueCoordination(w) PROVE WorkMoves
  <2>1. w \in Work /\ Queues(w) /\ policies' = policies
    BY <1>2, <1>3 DEF EnqueueCoordination, Queues, authority, attempts
  <2> QED BY <2>1 DEF WorkMoves
<1>4. ASSUME NEW w \in plan.work, WithdrawCoordination(w) PROVE WorkMoves
  <2>1. w \in Work /\ Withdraws(w) /\ policies' = policies
    BY <1>2, <1>4 DEF WithdrawCoordination, Withdraws, authority, attempts
  <2> QED BY <2>1 DEF WorkMoves
<1>5. ASSUME NEW d \in plan.drafts, NEW w \in plan.work \cup {None}, Reserve(d, w) PROVE WorkMoves
  <2>1. CASE w = None BY <1>5, <2>1 DEF Reserve, WorkMoves
  <2>2. CASE w # None
    <3>1. w \in Work BY <1>2, <2>2
    <3>2. /\ work[w].state = "queued" /\ Request[w].draft = d /\ policies' = policies
          /\ work' = [work EXCEPT ![w] = [state |-> "intent", cycle |-> Len(cycles) + 1]]
      BY <1>5, <2>2 DEF Reserve, authority
    <3> DEFINE r == [draft |-> d, slot |-> Slot(d), state |-> "intent",
                     deadline |-> Lower(Terms[d].end, wall + Terms[d].secs),
                     generation |-> instr[d].generation]
    <3>3. cycles' = Append(cycles, r) BY <1>5 DEF Reserve
    <3>4. cycles \in Seq(Row) /\ r.draft = d BY DEF ExecInv, JournalOK
    <3> HIDE DEF r
    <3>5. cycles'[Len(cycles) + 1] = r
      <4>1. Len(cycles) \in Nat /\ cycles \in Seq(Row \cup {r}) BY <3>4, CycleFacts
      <4> QED BY <3>3, <4>1, AppendProperties
    <3> QED BY <3>1, <3>2, <3>4, <3>5 DEF Takes, WorkMoves
  <2> QED BY <2>1, <2>2
<1> QED BY <1>1, <1>3, <1>4, <1>5 DEF Authorizes, WorkMoves

\* The types of work, and its tables.
LEMMA WorkFacts ==
    ASSUME ExecInv, NEW w \in Work
    PROVE  /\ DOMAIN work = Work /\ work[w].cycle \in Cycle \cup {None}
           /\ work[w] = [state |-> work[w].state, cycle |-> work[w].cycle]
BY DEF ExecInv, TypeOK

\* A policy stays, and covers what was queued.
LEMMA QueueStays ==
    ASSUME ExecInv, QueueOK, Next
    PROVE  QueueOK' /\ DOMAIN policies \subseteq DOMAIN policies'
<1>1. WorkMoves BY EveryWorkMoves
<1>2. DOMAIN policies \subseteq DOMAIN policies'
  BY WhoWrites DEF Writes, Authorizes, ConfigureEpisode, EpisodeNotice
<1>3. \A w \in Work : work[w] = [state |-> work[w].state, cycle |-> work[w].cycle] /\ DOMAIN work = Work
  BY WorkFacts
<1>4. ASSUME NEW w \in Work, work[w].state # "none" \/ Request[w].account \in DOMAIN policies,
             Queued' \subseteq Queued \cup {w}
      PROVE  QueueOK'
  <2>1. IsFiniteSet(Queued') BY <1>4, FS_AddElement, FS_Subset DEF QueueOK
  <2>2. \A x \in Queued' : Request[x].account \in DOMAIN policies BY <1>4 DEF QueueOK, Queued
  <2> QED BY <1>2, <2>1, <2>2 DEF QueueOK
<1>5. CASE work' = work
  <2>1. Queued' = Queued BY <1>5 DEF Queued
  <2> QED BY <1>2, <2>1 DEF QueueOK
<1>6. ASSUME NEW w \in Work, Queues(w) \/ Withdraws(w) \/ Takes(w) PROVE QueueOK'
  <2>1. \A x \in Work \ {w} : work'[x] = work[x] BY <1>3, <1>6 DEF Queues, Withdraws, Takes
  <2>2. Queued' \subseteq Queued \cup {w} BY <2>1 DEF Queued
  <2>3. work[w].state # "none" \/ Request[w].account \in DOMAIN policies
    BY <1>6 DEF Queues, Withdraws, Takes
  <2> QED BY <1>4, <2>2, <2>3
<1> QED BY <1>1, <1>2, <1>5, <1>6 DEF WorkMoves

\* A message keeps to one cycle, and that cycle to it.
LEMMA LinksStay ==
    ASSUME ExecInv, LinksOK, Next
    PROVE  LinksOK'
<1>1. WorkMoves /\ CyclesMove BY EveryWorkMoves, EveryCycleMoves
<1>2. \A w \in Work : /\ DOMAIN work = Work /\ work[w].cycle \in Cycle \cup {None}
                      /\ work[w] = [state |-> work[w].state, cycle |-> work[w].cycle]
  BY WorkFacts
<1>3. \A c \in Cycle : cycles'[c].draft = cycles[c].draft BY <1>1 DEF CyclesMove, RowKept
<1>4. Len(cycles) \in Nat /\ Len(cycles) + 1 \notin Cycle /\ Len(cycles) + 1 # None
  <2>1. Len(cycles) \in Nat BY CycleFacts
  <2>2. Len(cycles) + 1 \in Nat BY <2>1
  <2> QED BY <2>1, <2>2, NoneAssumption DEF Cycle
<1>5. CASE work' = work BY <1>2, <1>3, <1>5 DEF LinksOK
<1>6. ASSUME NEW w \in Work, Queues(w) \/ Withdraws(w) PROVE LinksOK'
  <2>1. /\ \A x \in Work \ {w} : work'[x] = work[x]
        /\ work'[w].cycle = work[w].cycle /\ work'[w].state # "intent" /\ work[w].state # "intent"
    BY <1>2, <1>6 DEF Queues, Withdraws
  <2>2. \A x \in Work : work'[x].cycle = work[x].cycle /\ (work'[x].state = "intent" <=> work[x].state = "intent")
    BY <2>1
  <2>3. \A x \in Work : work'[x].state = "intent" <=> work'[x].cycle # None BY <2>2 DEF LinksOK
  <2>4. \A x, y \in Work : work'[x].cycle # None /\ work'[x].cycle = work'[y].cycle => x = y
    BY <2>2 DEF LinksOK
  <2>5. ASSUME NEW x \in Work, work'[x].cycle # None
        PROVE  cycles'[work'[x].cycle].draft = Request[x].draft
    <3>1. work'[x].cycle = work[x].cycle /\ work[x].cycle \in Cycle BY <1>2, <2>2, <2>5
    <3> QED BY <1>3, <2>5, <3>1 DEF LinksOK
  <2> QED BY <2>3, <2>4, <2>5 DEF LinksOK
<1>7. ASSUME NEW w \in Work, Takes(w) PROVE LinksOK'
  <2>1. /\ \A x \in Work \ {w} : work'[x] = work[x]
        /\ work'[w].cycle = Len(cycles) + 1 /\ work'[w].state = "intent"
        /\ cycles'[Len(cycles) + 1].draft = Request[w].draft
    BY <1>2, <1>7 DEF Takes
  <2>2. \A x \in Work : work'[x].state = "intent" <=> work'[x].cycle # None
    BY <1>4, <2>1 DEF LinksOK
  <2>3. ASSUME NEW x \in Work, NEW y \in Work, work'[x].cycle # None, work'[x].cycle = work'[y].cycle
        PROVE  x = y
    <3>1. \A z \in Work : work[z].cycle # Len(cycles) + 1 BY <1>2, <1>4
    <3>2. CASE x = w BY <2>1, <2>3, <3>1, <3>2
    <3>3. CASE y = w BY <2>1, <2>3, <3>1, <3>3
    <3>4. CASE x # w /\ y # w BY <2>1, <2>3, <3>4 DEF LinksOK
    <3> QED BY <3>2, <3>3, <3>4
  <2>4. ASSUME NEW x \in Work, work'[x].cycle # None
        PROVE  cycles'[work'[x].cycle].draft = Request[x].draft
    <3>1. CASE x = w BY <2>1, <3>1
    <3>2. CASE x # w
      <4>1. work'[x].cycle = work[x].cycle /\ work[x].cycle \in Cycle BY <1>2, <2>1, <2>4, <3>2
      <4> QED BY <1>3, <2>4, <4>1 DEF LinksOK
    <3> QED BY <3>1, <3>2
  <2> QED BY <2>2, <2>3, <2>4 DEF LinksOK
<1> QED BY <1>1, <1>5, <1>6, <1>7 DEF WorkMoves

\* What an account has taken and still has before it stays within its policy.
LEMMA BacklogStays ==
    ASSUME ExecInv, QueueOK, LinksOK, BacklogOK, Next
    PROVE  BacklogOK'
<1>1. WorkMoves /\ CyclesMove BY EveryWorkMoves, EveryCycleMoves
<1>2. \A w \in Work : /\ DOMAIN work = Work /\ work[w].cycle \in Cycle \cup {None}
                      /\ work[w] = [state |-> work[w].state, cycle |-> work[w].cycle]
  BY WorkFacts
<1>3. ASSUME NEW c \in Cycle, cycles'[c].state \notin Terminal PROVE cycles[c].state \notin Terminal
  BY <1>1, <1>3 DEF CyclesMove, RowKept, InFlight, Terminal
<1>4. SUFFICES ASSUME NEW a \in DOMAIN policies'
               PROVE  /\ Cardinality(OfEpisode(a)') <= Policy[a].requests
                      /\ Cardinality(Backlog(a)') <= Policy[a].pending
  BY DEF BacklogOK
<1> DEFINE Within == /\ Cardinality(OfEpisode(a)') <= Policy[a].requests
                     /\ Cardinality(Backlog(a)') <= Policy[a].pending
<1>5. Policy[a].requests \in Nat /\ Policy[a].pending \in Nat
  <2>1. DOMAIN policies' \subseteq Accounts BY TypesStay DEF TypeOK
  <2> QED BY <2>1, WorkAssumption
<1>6. IsFiniteSet(OfEpisode(a)) /\ IsFiniteSet(Backlog(a)) /\ Backlog(a) \subseteq OfEpisode(a)
  <2>1. OfEpisode(a) \subseteq Queued /\ Backlog(a) \subseteq OfEpisode(a) BY DEF OfEpisode, Queued, Backlog
  <2> QED BY <2>1, FS_Subset DEF QueueOK
<1>7. a \in DOMAIN policies \/ OfEpisode(a) = {} BY DEF QueueOK, OfEpisode, Queued
<1>8. Cardinality(OfEpisode(a)) <= Policy[a].requests /\ Cardinality(Backlog(a)) <= Policy[a].pending
  <2>1. CASE a \in DOMAIN policies BY <2>1 DEF BacklogOK
  <2>2. CASE OfEpisode(a) = {}
    <3>1. Cardinality(OfEpisode(a)) = 0 /\ Cardinality(Backlog(a)) = 0
      BY <1>6, <2>2, FS_EmptySet
    <3> QED BY <1>5, <3>1
  <2> QED BY <1>7, <2>1, <2>2
<1>9. ASSUME OfEpisode(a)' \subseteq OfEpisode(a), Backlog(a)' \subseteq Backlog(a) PROVE Within
  <2>1. Cardinality(OfEpisode(a)') <= Cardinality(OfEpisode(a)) /\ Cardinality(OfEpisode(a)') \in Nat
    BY <1>6, <1>9, FS_Subset, FS_CardinalityType
  <2>2. Cardinality(Backlog(a)') <= Cardinality(Backlog(a)) /\ Cardinality(Backlog(a)') \in Nat
    BY <1>6, <1>9, FS_Subset, FS_CardinalityType
  <2>3. Cardinality(OfEpisode(a)) \in Nat /\ Cardinality(Backlog(a)) \in Nat
    BY <1>6, FS_CardinalityType
  <2> QED BY <1>5, <1>8, <2>1, <2>2, <2>3
<1>10. CASE work' = work
  <2>1. OfEpisode(a)' = OfEpisode(a) BY <1>10 DEF OfEpisode
  <2>2. Backlog(a)' \subseteq Backlog(a) BY <1>2, <1>3, <1>10, <2>1 DEF Backlog, OfEpisode
  <2> QED BY <1>9, <2>1, <2>2
<1>11. ASSUME NEW w \in Work, Withdraws(w) \/ Takes(w) PROVE Within
  <2>1. /\ \A x \in Work \ {w} : work'[x] = work[x]
        /\ work[w].state = "queued"
    BY <1>2, <1>11 DEF Withdraws, Takes
  <2>2. OfEpisode(a)' \subseteq OfEpisode(a) BY <2>1 DEF OfEpisode
  <2>3. Backlog(a)' \subseteq Backlog(a)
    BY <1>2, <1>3, <2>1, <2>2 DEF Backlog, OfEpisode
  <2> QED BY <1>9, <2>2, <2>3
<1>12. ASSUME NEW w \in Work, Queues(w), policies' = policies PROVE Within
  <2>1. /\ \A x \in Work \ {w} : work'[x] = work[x]
        /\ cycles' = cycles
    BY <1>12 DEF Queues
  <2>2. CASE Request[w].account # a
    <3>1. OfEpisode(a)' \subseteq OfEpisode(a) BY <2>1, <2>2 DEF OfEpisode
    <3>2. Backlog(a)' \subseteq Backlog(a) BY <2>1, <2>2 DEF Backlog, OfEpisode
    <3> QED BY <1>9, <3>1, <3>2
  <2>3. CASE Request[w].account = a
    <3>1. /\ OfEpisode(a)' \subseteq OfEpisode(a) \cup {w}
          /\ Backlog(a)' \subseteq Backlog(a) \cup {w}
      BY <2>1 DEF Backlog, OfEpisode
    <3>2. Backlog(a) = Pending(a)
      <4>1. \A c \in Cycle : cycles[c].state \in InFlight <=> cycles[c].state \notin Terminal
        BY CycleFacts DEF Row, InFlight, Terminal
      <4> QED BY <1>2, <4>1 DEF Backlog, Pending, OfEpisode, LinksOK
    <3>3. Cardinality(OfEpisode(a)) < Policy[a].requests /\ Cardinality(Backlog(a)) < Policy[a].pending
      BY <1>12, <2>3, <3>2 DEF Queues
    <3>4. ASSUME NEW X, IsFiniteSet(X), NEW Y, Y \subseteq X \cup {w}, NEW n \in Nat, Cardinality(X) < n
          PROVE  Cardinality(Y) <= n
      <4>1. Cardinality(X) \in Nat BY <3>4, FS_CardinalityType
      <4>2. /\ IsFiniteSet(X \cup {w})
            /\ Cardinality(X \cup {w}) = IF w \in X THEN Cardinality(X) ELSE Cardinality(X) + 1
        BY <3>4, FS_AddElement
      <4>3. Cardinality(Y) <= Cardinality(X \cup {w}) /\ Cardinality(Y) \in Nat
        BY <3>4, <4>2, FS_Subset, FS_CardinalityType
      <4> QED BY <3>4, <4>1, <4>2, <4>3
    <3> QED BY <1>5, <1>6, <3>1, <3>3, <3>4
  <2> QED BY <2>2, <2>3
<1> QED BY <1>1, <1>10, <1>11, <1>12 DEF WorkMoves

-----------------------------------------------------------------------------
(* Renewal. *)

\* A draft is approved when it renews what was decided before it.
Approves(d) ==
    /\ Renews(d) /\ instr[d].state \in {"none", "pending"}
    /\ instr' = [Superseded(d) EXCEPT ![d] = [state |-> "active", generation |-> 0]]

\* A draft is proposed, cancelled or, if it is active, ends.
Changes(d) ==
    /\ \A e \in Drafts \ {d} : instr'[e] = instr[e]
    /\ \/ instr[d].state = "none" /\ instr'[d].state = "pending"
       \/ instr'[d].state = "cancelled"
       \/ instr[d].state = "active" /\ instr'[d].state \in {"expired", "completed"}

InstructionsMove ==
    \/ instr' = instr
    \/ \E d \in Drafts : Approves(d) \/ Changes(d)

\* How instructions move.
LEMMA EveryInstructionMoves ==
    ASSUME ExecInv, Next
    PROVE  InstructionsMove
<1>1. Authorizes BY WhoWrites DEF Writes
<1>2. plan.drafts \subseteq Drafts /\ DOMAIN context \subseteq Cycle /\ DOMAIN worker \subseteq Cycle
      /\ DOMAIN enforcing \subseteq Cycle /\ \A c \in Cycle : cycles[c].draft \in Drafts
  BY CycleFacts DEF Row
<1>3. instr \in [Drafts -> [state: DraftStates, generation: Nat]] BY DEF ExecInv, TypeOK
<1>4. ASSUME NEW d \in Drafts, NEW r, instr' = [instr EXCEPT ![d] = r],
             \/ instr[d].state = "none" /\ r.state = "pending"
             \/ r.state = "cancelled"
             \/ instr[d].state = "active" /\ r.state \in {"expired", "completed"}
      PROVE  InstructionsMove
  <2>1. Changes(d) BY <1>3, <1>4 DEF Changes
  <2> QED BY <2>1 DEF InstructionsMove
<1>5. ASSUME NEW d \in plan.drafts, Propose(d) PROVE InstructionsMove
  <2>1. instr[d].state = "none" BY <1>2, <1>5 DEF Propose, SameKey
  <2>2. instr' = [instr EXCEPT ![d] = [instr[d] EXCEPT !.state = "pending"]] BY <1>5 DEF Propose
  <2>3. [instr[d] EXCEPT !.state = "pending"].state = "pending" BY <1>2, <1>3
  <2> QED BY <1>2, <1>4, <2>1, <2>2, <2>3
<1>6. ASSUME NEW d \in plan.drafts, Approve(d) PROVE InstructionsMove
  <2>1. Approves(d) BY <1>6 DEF Approve, Approves
  <2> QED BY <1>2, <2>1 DEF InstructionsMove
<1>7. ASSUME NEW d \in plan.drafts, Cancel(d) PROVE InstructionsMove
  <2>1. instr' = [instr EXCEPT ![d] = [state |-> "cancelled", generation |-> instr[d].generation + 1]]
    BY <1>7 DEF Cancel, SetState
  <2> QED BY <1>2, <1>4, <2>1
<1>8. ASSUME NEW d \in plan.drafts, Expire(d) PROVE InstructionsMove
  <2>1. instr[d].state = "active"
        /\ instr' = [instr EXCEPT ![d] = [state |-> "expired", generation |-> instr[d].generation + 1]]
    BY <1>8 DEF Expire, SetState
  <2> QED BY <1>2, <1>4, <2>1
<1>9. ASSUME NEW c \in Cycle, NEW outcome, Close(c, outcome) PROVE InstructionsMove
  <2> DEFINE d == cycles[c].draft
  <2>1. \/ instr' = instr
        \/ instr[d].state = "active" /\ instr' = [instr EXCEPT ![d] = [instr[d] EXCEPT !.state = "completed"]]
    BY <1>9 DEF Close
  <2>2. d \in Drafts /\ [instr[d] EXCEPT !.state = "completed"].state = "completed" BY <1>2, <1>3
  <2>3. CASE instr' = instr BY <2>3 DEF InstructionsMove
  <2> QED BY <1>4, <2>1, <2>2, <2>3
<1>10. ASSUME NEW c \in DOMAIN worker, WorkerFinish(c) PROVE InstructionsMove
  <2>1. CASE instr' = instr BY <2>1 DEF InstructionsMove
  <2>2. CASE Close(c, "completed") BY <1>2, <1>9, <2>2
  <2> QED BY <1>10, <2>1, <2>2 DEF WorkerFinish
<1>11. ASSUME NEW c \in DOMAIN enforcing, EnforceFinish(c) PROVE InstructionsMove
  BY <1>2, <1>9, <1>11 DEF EnforceFinish
<1>12. CASE instr' = instr BY <1>12 DEF InstructionsMove
<1> QED BY <1>1, <1>5, <1>6, <1>7, <1>8, <1>10, <1>11, <1>12 DEF Authorizes

\* The active revision stays the latest that was in force (approve, cancel, finish).
LEMMA LatestStays ==
    ASSUME ExecInv, LatestRevisionRules, Next
    PROVE  LatestRevisionRules'
<1>1. InstructionsMove BY EveryInstructionMoves
<1>2. CASE instr' = instr BY <1>2 DEF LatestRevisionRules, Decided
<1>3. SUFFICES ASSUME NEW d \in Drafts, Approves(d) \/ Changes(d),
                      NEW x \in Drafts, instr'[x].state = "active",
                      NEW e \in Drafts \ {x}, Terms[e].id = Terms[x].id,
                      instr'[e].state \notin {"none", "pending", "cancelled"}
               PROVE  Terms[e].rev < Terms[x].rev /\ instr'[e].state # "active"
  <2>1. ASSUME ~(instr' = instr),
               NEW x \in Drafts, instr'[x].state = "active", NEW e \in Drafts \ {x},
               e \in Decided(x)', instr'[e].state # "cancelled"
        PROVE  Terms[e].rev < Terms[x].rev /\ instr'[e].state # "active"
    <3>1. Terms[e].id = Terms[x].id /\ instr'[e].state \notin {"none", "pending", "cancelled"}
      BY <2>1 DEF Decided
    <3> QED BY <1>1, <1>3, <2>1, <3>1 DEF InstructionsMove
  <2>2. CASE ~(instr' = instr)
    <3>1. \A x \in Drafts : Decided(x)' \subseteq Drafts BY DEF Decided
    <3> QED BY <2>1, <2>2, <3>1 DEF LatestRevisionRules
  <2> QED BY <1>2, <2>2
<1>4. \A y \in Drafts : \A f \in Drafts \ {y} :
        instr[y].state = "active" /\ Terms[f].id = Terms[y].id
          /\ instr[f].state \notin {"none", "pending", "cancelled"}
        => Terms[f].rev < Terms[y].rev /\ instr[f].state # "active"
  BY DEF LatestRevisionRules, Decided
<1>5. CASE Changes(d)
  <2>1. x # d /\ instr'[x] = instr[x] BY <1>3, <1>5 DEF Changes
  <2>2. CASE e # d
    <3>1. instr'[e] = instr[e] BY <1>5, <2>2 DEF Changes
    <3> QED BY <1>3, <1>4, <2>1, <3>1
  <2>3. CASE e = d
    <3>1. instr[e].state = "active" /\ instr'[e].state # "active" BY <1>3, <1>5, <2>3 DEF Changes
    <3> QED BY <1>3, <1>4, <2>1, <3>1
  <2> QED BY <2>2, <2>3
<1>6. CASE Approves(d)
  <2>1. /\ instr'[d].state = "active" /\ Renews(d)
        /\ \A f \in Drafts \ {d} : instr'[f] = Superseded(d)[f]
    BY <1>6 DEF Approves, Superseded
  <2>2. ASSUME NEW f \in Drafts \ {d}
        PROVE  IF Terms[f].id = Terms[d].id /\ instr[f].state = "active"
               THEN instr'[f].state = "superseded" ELSE instr'[f] = instr[f]
    <3>1. Superseded(d)[f] =
            IF Terms[f].id = Terms[d].id /\ instr[f].state = "active"
            THEN [state |-> "superseded", generation |-> instr[f].generation + 1] ELSE instr[f]
      BY DEF Superseded
    <3>2. instr'[f] = Superseded(d)[f] BY <2>1
    <3> QED BY <3>1, <3>2
  <2>3. CASE x = d
    <3>1. e # d /\ instr'[e].state # "active" /\ e \in Decided(d)
      BY <1>3, <2>2, <2>3 DEF Decided
    <3>2. PICK m \in Decided(d) :
            (\A f \in Decided(d) : Terms[f].rev <= Terms[m].rev) /\ Terms[d].rev = Terms[m].rev + 1
      BY <2>1, <3>1 DEF Renews
    <3>3. Terms[e].rev <= Terms[m].rev BY <3>1, <3>2
    <3>4. Terms[e].rev \in Nat /\ Terms[m].rev \in Nat BY <3>2, TermsAssumption DEF Decided
    <3> QED BY <2>3, <3>1, <3>2, <3>3, <3>4
  <2>4. CASE x # d
    <3>1. instr'[x] = instr[x] /\ Terms[x].id # Terms[d].id BY <1>3, <2>2, <2>4
    <3>2. e # d /\ instr'[e] = instr[e] BY <1>3, <2>2, <3>1
    <3> QED BY <1>3, <1>4, <3>1, <3>2
  <2> QED BY <2>3, <2>4
<1> QED BY <1>3, <1>5, <1>6

-----------------------------------------------------------------------------
(* Spending. *)

SpendInv == BooksOK /\ CeilingsHold /\ QueueOK /\ LinksOK /\ BacklogOK /\ LatestRevisionRules

\* The sum of nothing.
LEMMA SumOfNothing ==
    ASSUME NEW f \in [{} -> Nat]
    PROVE  SumFunction(f) = 0
<1>1. PICK g : Sums(g, f, {}) /\ SumFunction(f) = g[{}] BY FS_EmptySet, SumIsSums
<1> QED BY <1>1 DEF Sums

\* Nothing is charged, queued or approved at first.
LEMMA SpendInit ==
    ASSUME Init
    PROVE  SpendInv
<1> USE DEF Init
<1>1. charges = << >> /\ DOMAIN charges = {} /\ ops = {} /\ Cycle = {} BY DEF Cycle
<1>2. BooksOK BY <1>1 DEF BooksOK
<1>3. CeilingsHold
  <2>1. SUFFICES ASSUME NEW a \in Accounts
                 PROVE  /\ Cardinality(Charged(a)) <= Ceiling[a].calls
                        /\ Cardinality(Active(a)) <= Ceiling[a].active
                        /\ Spend(a) <= Ceiling[a].charge
    BY DEF CeilingsHold
  <2>2. Charged(a) = {} /\ Active(a) = {} BY <1>1 DEF Charged, Active
  <2>3. Cardinality(Charged(a)) = 0 /\ Cardinality(Active(a)) = 0 BY <2>2, FS_EmptySet
  <2>4. Spend(a) = 0
    <3>1. [c \in Charged(a) |-> Exposure(c)] \in [{} -> Nat] BY <2>2
    <3> QED BY <3>1, SumOfNothing DEF Spend
  <2> QED BY <2>3, <2>4, FundingAssumption
<1>4. \A w \in Work : work[w].state = "none" /\ work[w].cycle = None OBVIOUS
<1>5. QueueOK
  <2>1. Queued = {} BY <1>4 DEF Queued
  <2> QED BY <2>1, FS_EmptySet DEF QueueOK
<1>6. LinksOK BY <1>4 DEF LinksOK
<1>7. BacklogOK
  <2>1. DOMAIN policies = {} OBVIOUS
  <2> QED BY <2>1 DEF BacklogOK
<1>8. LatestRevisionRules
  <2>1. \A d \in Drafts : instr[d].state # "active" OBVIOUS
  <2> QED BY <2>1 DEF LatestRevisionRules
<1> QED BY <1>2, <1>3, <1>5, <1>6, <1>7, <1>8 DEF SpendInv

\* Every step preserves what is accounted.
LEMMA SpendStep ==
    ASSUME ExecInv, SpendInv, [Next]_vars
    PROVE  SpendInv'
<1>1. CASE Next
  BY <1>1, BooksStay, CeilingsStay, QueueStays, LinksStay, BacklogStays, LatestStays DEF SpendInv
<1>2. CASE UNCHANGED vars
  <2> USE <1>2 DEF vars, clock, observed, authority, attempts, controller, runner, process, world
  <2>1. BooksOK' BY DEF SpendInv, BooksOK, Cycle, Session
  <2>2. CeilingsHold'
    <3>1. \A a : /\ Charged(a)' = Charged(a) /\ Active(a)' = Active(a)
                 /\ \A c \in Charged(a) : Exposure(c)' = Exposure(c)
      BY DEF Charged, Active, Exposure
    <3>2. \A a : Spend(a)' = Spend(a) BY <3>1 DEF Spend
    <3> QED BY <3>1, <3>2 DEF SpendInv, CeilingsHold
  <2>3. QueueOK' BY DEF SpendInv, QueueOK, Queued
  <2>4. LinksOK' BY DEF SpendInv, LinksOK
  <2>5. BacklogOK' BY DEF SpendInv, BacklogOK, Backlog, OfEpisode
  <2>6. LatestRevisionRules' BY DEF SpendInv, LatestRevisionRules, Decided
  <2> QED BY <2>1, <2>2, <2>3, <2>4, <2>5, <2>6 DEF SpendInv
<1> QED BY <1>1, <1>2

\* What left is within what is charged.
LEMMA SpendingConserved ==
    ASSUME ExecInv, BooksOK, CeilingsHold
    PROVE  BudgetConserved
<1>1. SUFFICES ASSUME NEW a \in Accounts
               PROVE  /\ Called(a) \subseteq DOMAIN charges
                      /\ Cardinality(Called(a)) <= Ceiling[a].calls
                      /\ Cardinality(Called(a) \cap turns) <= Ceiling[a].active
                      /\ SumFunction([c \in Called(a) |-> Owed(c)]) <= Ceiling[a].charge
  <2>1. plan.accounts \subseteq Accounts BY CycleFacts DEF Plan
  <2> QED BY <2>1 DEF BudgetConserved
<1> DEFINE S == Charged(a)
           T == Called(a)
           f == [c \in S |-> Exposure(c)]
           e == [c \in T |-> Owed(c)]
<1>2. IsFiniteSet(S) /\ Active(a) \subseteq S /\ S \subseteq DOMAIN charges /\ f \in [S -> Nat]
  BY ChargedFacts
<1>3. T \in SUBSET S
  <2>1. ASSUME NEW c \in T PROVE c \in S
    <3>1. PICK op \in sent : op.cycle = c /\ op.kind = "provider" BY DEF Called
    <3>2. op \in ops BY <3>1 DEF ExecInv, TypeOK
    <3>3. c \in DOMAIN charges BY <3>1, <3>2 DEF Called, BooksOK
    <3>4. cycles[c].draft \in funded BY <3>3 DEF BooksOK
    <3> QED BY <3>3, <3>4 DEF Called, Charged
  <2> QED BY <2>1
<1>4. T \cap turns \subseteq Active(a)
  <2>1. \A c \in turns : cycles[c].state \in InFlight BY DEF ExecInv, RunnerOK
  <2> QED BY <1>3, <2>1 DEF Active
<1>5. /\ Cardinality(S) <= Ceiling[a].calls /\ Cardinality(Active(a)) <= Ceiling[a].active
      /\ Spend(a) <= Ceiling[a].charge /\ Spend(a) = SumFunction(f)
      /\ Ceiling[a].calls \in Nat /\ Ceiling[a].active \in Nat /\ Ceiling[a].charge \in Nat
  BY FundingAssumption DEF CeilingsHold, Spend
<1>6. IsFiniteSet(Active(a)) BY <1>2, FS_Subset
<1>7. /\ Cardinality(T) <= Cardinality(S) /\ Cardinality(T) \in Nat
      /\ Cardinality(S) \in Nat
  BY <1>2, <1>3, FS_Subset, FS_CardinalityType
<1>8. /\ Cardinality(T \cap turns) <= Cardinality(Active(a)) /\ Cardinality(T \cap turns) \in Nat
      /\ Cardinality(Active(a)) \in Nat
  BY <1>4, <1>6, FS_Subset, FS_CardinalityType
<1>9. e \in [T -> Nat] /\ \A c \in T : e[c] <= f[c]
  <2>1. \A c \in T : Owed(c) = Exposure(c) /\ Exposure(c) \in Nat
    BY <1>2, <1>3, ChargedFacts DEF Owed, Exposure
  <2> QED BY <1>3, <2>1
<1> HIDE DEF S, T, f, e
<1>10. SumFunction(e) \in Nat /\ SumFunction(f) \in Nat /\ SumFunction(e) <= SumFunction(f)
  BY <1>2, <1>3, <1>9, SumMonotone
<1>11. T \subseteq DOMAIN charges BY <1>2, <1>3
<1>12. Cardinality(T) <= Ceiling[a].calls BY <1>5, <1>7
<1>13. Cardinality(T \cap turns) <= Ceiling[a].active BY <1>5, <1>8
<1>14. SumFunction(e) <= Ceiling[a].charge BY <1>5, <1>10
<1> QED BY <1>11, <1>12, <1>13, <1>14 DEF T, e

\* No shared account is ever overdrawn, the latest revision rules, and a queued
\* message is worked on once (execution_store.py: dispatch, approve, reserve).
THEOREM SpendingStaysAccounted == Spec => []SpendingIsAccounted
<1> DEFINE Inv == ExecInv /\ SpendInv
<1>1. Init => Inv BY ExecInit, SpendInit
<1>2. Inv /\ [Next]_vars => Inv' BY ExecStep, SpendStep
<1>3. Inv => SpendingIsAccounted
  <2>1. SUFFICES ASSUME Inv PROVE SpendingIsAccounted OBVIOUS
  <2>2. BudgetConserved BY <2>1, SpendingConserved DEF SpendInv
  <2>3. WorkIsDoneOnce BY <2>1 DEF SpendInv, LinksOK, BacklogOK, Backlog, WorkIsDoneOnce
  <2> QED BY <2>1, <2>2, <2>3 DEF SpendInv, SpendingIsAccounted
<1> HIDE DEF Inv
<1> QED BY <1>1, <1>2, <1>3, PTL DEF Spec
=============================================================================
