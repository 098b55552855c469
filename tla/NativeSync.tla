----------------------------- MODULE NativeSync -----------------------------
(***************************************************************************)
(* The owner's reconciliation of native memory pools                       *)
(* (owner_sync/native_reconcile.py, owner_memory_sync.py).                 *)
(*                                                                         *)
(* A pool holds chapters.  A plan, prepared from two pools and the owner's *)
(* provenance state and saved as a packet, says for every unsigned chapter *)
(* of the source whether the target already has it or must import it.      *)
(* Applying it only adds: an import carries the address of its origin, so  *)
(* a second application, after a crash, finds it.  A chapter that came     *)
(* from another pool is exported again as the original it came from, not   *)
(* as the generated chapter.  Meanwhile the consumers of a pool edit it.   *)
(***************************************************************************)
EXTENDS Naturals, Sequences, FiniteSets

CONSTANTS
    Pools,      \* the lineages
    Initial,    \* the chapters each pool starts with: [name, signed]
    MaxPlans, MaxEdits, MaxCrashes

None == <<>>
Idle == [kind |-> "idle"]

VARIABLES
    pool,       \* the chapters of each pool
    bindings,   \* the provenance state: which chapter stands for an origin
    receipts,   \* per saved plan, the chapters its entries ended in
    packets,    \* the plans prepared, in order
    run,        \* the application under way
    edits, crashes

vars == <<pool, bindings, receipts, packets, run, edits, crashes>>

NextId(p) == Cardinality(pool[p]) + 1

\* A chapter: text is its revision, uri the origin it was imported from.
Chapter(id, name, text, uri, signed) ==
    [id |-> id, name |-> name, text |-> text, uri |-> uri, signed |-> signed]

Init ==
    /\ pool = [p \in Pools |->
         {Chapter(i, Initial[p][i].name, 1, None, Initial[p][i].signed) :
            i \in DOMAIN Initial[p]}]
    /\ bindings = {}
    /\ receipts = <<>>
    /\ packets = <<>>
    /\ run = Idle
    /\ edits = 0
    /\ crashes = 0

-----------------------------------------------------------------------------
(* Preparing a plan *)

\* origin_key: the pool and the exact revision a chapter comes from.
OriginKey(label, row) == [label |-> label, row |-> row]

\* locator: an import's title carries the key of its origin.
Locator(row) == <<row.uri, row.name>>

Matching(p, row) == {b \in bindings : b.pool = p /\ b.row.id = row.id}
Verified(p, row) == {b \in Matching(p, row) : b.row = row}

\* A generated chapter whose provenance is unknown stops the preparation.
Exportable(p, row) == row.uri # None => Matching(p, row) # {}

\* What a chapter is exported as: an import that is still what it was made as
\* goes out as its origin, an edited one is a variant of this pool.
Origin(p, row) ==
    IF row.uri # None /\ Verified(p, row) # {}
      THEN (CHOOSE b \in Verified(p, row) : TRUE).key
      ELSE OriginKey(p, row)

\* The chapters of the target that already are this origin.
Bound(p, key) == {r \in pool[p] : \E b \in bindings :
                    b.pool = p /\ b.key = key /\ b.row = r}
Exact(p, key) == {r \in pool[p] : /\ ~r.signed
                                  /\ Locator(r) = Locator(key.row)
                                  /\ r.text = key.row.text}

Entry(source, target, row) ==
    LET key == Origin(source, row)
        at == IF Bound(target, key) # {} THEN Bound(target, key) ELSE Exact(target, key)
    IN  [key |-> key, reuse |-> {r.id : r \in at}]

Prepare(source, target) ==
    LET rows == {r \in pool[source] : ~r.signed}
    IN  /\ source # target
        /\ Len(packets) < MaxPlans
        /\ \A r \in rows : Exportable(source, r)
        /\ \A r \in rows : Cardinality(Entry(source, target, r).reuse) <= 1
        /\ packets' = Append(packets,
             [target |-> target, baseline |-> pool[target],
              entries |-> {Entry(source, target, r) : r \in rows}])
        /\ receipts' = Append(receipts, {})
        /\ UNCHANGED <<pool, bindings, run, edits, crashes>>

-----------------------------------------------------------------------------
(* Applying a plan *)

\* Nothing the plan saw has changed: imports are added, nothing is repaired.
BaselineStands(plan) ==
    LET now == pool[plan.target]
    IN  /\ plan.baseline \subseteq now
        /\ {r.id : r \in {x \in now : x.signed}}
             = {r.id : r \in {x \in plan.baseline : x.signed}}

\* apply: every check before any effect; the plan is saved, under the owner's lock.
Apply(i) ==
    /\ run = Idle
    /\ i \in DOMAIN packets
    /\ BaselineStands(packets[i])
    /\ run' = [kind |-> "apply", plan |-> i, todo |-> packets[i].entries, added |-> {}]
    /\ UNCHANGED <<pool, bindings, receipts, packets, edits, crashes>>

Target == packets[run.plan].target

\* The chapters that already carry this origin's address.
Candidates(p, key) == {r \in pool[p] : r.uri = <<key>>}

\* add_text, unless the chapter is there; at most one may be.
AddText(e) ==
    /\ run.kind = "apply"
    /\ e \in run.todo /\ e.reuse = {} /\ run.added = {}
    /\ Candidates(Target, e.key) = {}
    /\ LET new == Chapter(NextId(Target), e.key.row.name, e.key.row.text,
                          <<e.key>>, FALSE)
       IN  pool' = [pool EXCEPT ![Target] = @ \cup {new}]
    /\ run' = [run EXCEPT !.added = {e}]
    /\ UNCHANGED <<bindings, receipts, packets, edits, crashes>>

\* The chapter an entry ended in, found by its identifier or its address.
Effect(e) ==
    {r \in pool[Target] :
        \/ e.reuse = {r.id}
        \/ e.reuse = {} /\ r \in Candidates(Target, e.key)}

\* An import must still say what its origin says.
EffectHolds(e, r) ==
    e.reuse = {} => r.uri = <<e.key>> /\ r.text = e.key.row.text /\ ~r.signed

Receipt(e, r) == [pool |-> Target, key |-> e.key, row |-> r]

\* The binding and the receipt are saved together.
Settle(e) ==
    /\ run.kind = "apply"
    /\ e \in run.todo /\ run.added \subseteq {e}
    /\ Cardinality(Effect(e)) = 1
    /\ \E r \in Effect(e) :
         /\ EffectHolds(e, r)
         /\ \A old \in receipts[run.plan] : old.key = e.key => old = Receipt(e, r)
         /\ bindings' = {b \in bindings : b.pool # Target \/ b.key # e.key}
                          \cup {Receipt(e, r)}
         /\ receipts' = [receipts EXCEPT ![run.plan] = @ \cup {Receipt(e, r)}]
    /\ run' = [run EXCEPT !.todo = @ \ {e}, !.added = {}]
    /\ UNCHANGED <<pool, packets, edits, crashes>>

Done ==
    /\ run.kind = "apply" /\ run.todo = {}
    /\ run' = Idle
    /\ UNCHANGED <<pool, bindings, receipts, packets, edits, crashes>>

\* A killed or failed application; what it saved stays.
Cut ==
    /\ run.kind = "apply"
    /\ crashes < MaxCrashes /\ crashes' = crashes + 1
    /\ run' = Idle
    /\ UNCHANGED <<pool, bindings, receipts, packets, edits>>

\* A consumer of the pool changes a chapter; no revision ever comes back.
Edit(p, r) ==
    /\ edits < MaxEdits /\ edits' = edits + 1
    /\ pool' = [pool EXCEPT ![p] = (@ \ {r}) \cup {[r EXCEPT !.text = edits + 2]}]
    /\ UNCHANGED <<bindings, receipts, packets, run, crashes>>

Next ==
    \/ \E p, q \in Pools : Prepare(p, q)
    \/ \E i \in 1..MaxPlans : Apply(i)
    \/ run # Idle /\ \E e \in run.todo : AddText(e) \/ Settle(e)
    \/ Done \/ Cut
    \/ \E p \in Pools : \E r \in pool[p] : Edit(p, r)

Spec == Init /\ [][Next]_vars

-----------------------------------------------------------------------------
\* However often plans are prepared, applied late, cut and applied again, and
\* whichever way round the pools are reconciled, a pool holds at most one import
\* of an origin and never one of a chapter it still holds itself or of a signed
\* one, and an import is exported again as a new origin only after it was edited
\* (native_reconcile.py: prepare, apply).
ImportedOnce ==
    \A p \in Pools : \A r \in pool[p] : r.uri # None =>
        /\ \A s \in pool[p] : s.uri = r.uri => s = r
        /\ LET origin == r.uri[1]
           IN  /\ ~(origin.label = p /\ origin.row \in pool[p])
               /\ ~origin.row.signed
               /\ origin.row.uri # None => origin.row.text # origin.row.uri[1].row.text
=============================================================================
