--------------------------- MODULE RuntimeUpgrade ---------------------------
(***************************************************************************)
(* Offline upgrades of a runtime directory (operator_runtime_upgrade.py).  *)
(* A transaction stages a successor beside the source, is published by one *)
(* exchange of the two directories, and a conversion may be rolled back by *)
(* a further successor.  Each operation may be killed between any two      *)
(* writes, several transactions may be staged from one source, and the     *)
(* daemon may run whenever no operation holds its lock.                    *)
(*                                                                         *)
(* A tree is what its digest tells apart: its form, the counter of its     *)
(* custody, the issue its keys and descriptors come from, what the daemon  *)
(* wrote, and until when its roles and the optional controller are valid   *)
(* (0: no controller).                                                     *)
(***************************************************************************)
EXTENDS Integers, Sequences, FiniteSets

CONSTANTS Transactions, Roles, TTL, MaxNow, MaxEffects, MaxCrashes

VARIABLES
    source,   \* the tree the daemon uses
    tx,       \* per transaction, what its directory holds
    busy,     \* the operation under way
    issues,   \* the number of issues so far
    now, crashes,
    effects, seen    \* history: what the daemon did, the trees that were used or acknowledged

vars == <<source, tx, busy, issues, now, crashes, effects, seen>>

NoTree == [form |-> "none", counter |-> 0, issue |-> 0, history |-> 0,
           until |-> [r \in Roles |-> 0], controller |-> 0]
NoReceipt == [kind |-> "none", source |-> NoTree, successor |-> NoTree, expires |-> 0]
Fresh == [made |-> FALSE, checkpoint |-> NoTree, successor |-> NoTree, ready |-> NoReceipt,
          published |-> FALSE, rollback |-> NoTree, reverse |-> NoReceipt, rolled |-> FALSE]
Idle == [op |-> "idle", t |-> "none", phase |-> 0]

Smallest(S) == CHOOSE x \in S : \A y \in S : x <= y

---------------------------------------------------------------------------
(* Grants *)

Expired(tree) == {r \in Roles : now >= tree.until[r]}
ControllerExpired(tree) == tree.controller # 0 /\ now >= tree.controller

\* _forward_authorization: every grant is valid, but for those the request
\* is there to renew.
Authorized(tree, kind, expires) ==
    /\ kind # "profiles" => Expired(tree) = {}
    /\ kind \notin {"profiles", "controller"} => ~ControllerExpired(tree)
    /\ now < expires

\* _controller_grant_expiry: no longer than any role.
ControllerExpiry(tree) == Smallest({now + TTL} \cup {tree.until[r] : r \in Roles})

\* _renewed_profile_expiry: nor than the roles that are not renewed.
RenewedControllerExpiry(tree, e) == Smallest({e} \cup {tree.until[r] : r \in Roles \ Expired(tree)})

\* What each kind of request may ask of a tree.
Wants(tree, kind) ==
    \/ kind = "legacy" /\ tree.form = "legacy"
    \/ kind = "methods" /\ tree.form = "current"
    \/ kind = "provision" /\ tree.form = "current" /\ tree.controller = 0
    \/ kind = "controller" /\ tree.form = "current" /\ ControllerExpired(tree)
    \/ kind = "profiles" /\ tree.form = "current" /\ (Expired(tree) # {} \/ ControllerExpired(tree))

\* stage and stage_capabilities: the successor, with one step of custody and
\* nothing changed but what the request names.
Successor(tree, kind, expires) ==
    LET next == [tree EXCEPT !.counter = @ + 1, !.issue = issues + 1] IN
    CASE kind = "legacy" -> [next EXCEPT !.form = "current", !.until = [r \in Roles |-> expires]]
      [] kind = "methods" -> next
      [] kind \in {"provision", "controller"} -> [next EXCEPT !.controller = ControllerExpiry(tree)]
      [] OTHER -> [next EXCEPT
            !.until = [r \in Roles |-> IF r \in Expired(tree) THEN expires ELSE tree.until[r]],
            !.controller = IF ControllerExpired(tree) THEN RenewedControllerExpiry(tree, expires) ELSE @]

\* _profile_renewal_successor: roles that had not expired are as they were.
RenewsOnlyExpired(before, after) ==
    /\ after.history = before.history /\ after.form = before.form
    /\ \E r \in Roles : after.until[r] # before.until[r] \/ after.controller # before.controller
    /\ \A r \in Roles : after.until[r] # before.until[r] => before.until[r] < after.until[r]

\* _capability_successor: the successor has what was requested and no more.
ChangesOnlyRequested(before, after, kind) ==
    /\ after.counter = before.counter + 1
    /\ IF kind = "profiles" THEN RenewsOnlyExpired(before, after)
       ELSE [after EXCEPT !.counter = before.counter, !.issue = before.issue,
                          !.controller = before.controller] = before
    /\ kind = "methods" => after.controller = before.controller

---------------------------------------------------------------------------
(* Staging *)

Hold(op, t) == busy' = [op |-> op, t |-> t, phase |-> 1]
Release == busy' = Idle
At(op, t, phase) == busy = [op |-> op, t |-> t, phase |-> phase]

\* The directory is made and the source copied, under the daemon's lock.
Stage(t, kind) ==
    /\ busy = Idle /\ ~tx[t].made
    /\ Wants(source, kind) /\ Authorized(source, kind, now + TTL)
    /\ Hold("stage", t)
    /\ tx' = [tx EXCEPT ![t] = [Fresh EXCEPT
          !.made = TRUE, !.checkpoint = source, !.successor = Successor(source, kind, now + TTL),
          !.ready = [NoReceipt EXCEPT !.kind = kind]]]
    /\ issues' = issues + 1
    /\ UNCHANGED <<source, now, crashes, effects, seen>>

\* The receipt makes the transaction ready; a stage that was cut stays unusable.
StageReady(t) ==
    /\ At("stage", t, 1) /\ Release
    /\ tx' = [tx EXCEPT ![t].ready = [kind |-> @.kind, source |-> tx[t].checkpoint,
                                      successor |-> tx[t].successor, expires |-> now + TTL]]
    /\ UNCHANGED <<source, issues, now, crashes, effects, seen>>

IsReady(t) == tx[t].ready.source # NoTree

---------------------------------------------------------------------------
(* Publication *)

PairIsStaged(t) == source = tx[t].ready.source /\ tx[t].successor = tx[t].ready.successor

PairIsExchanged(t) == source = tx[t].ready.successor /\ tx[t].successor = tx[t].ready.source

\* A fresh publication needs grants that are valid now, and has not been
\* acknowledged before.
PublishExchanges(t) ==
    /\ busy = Idle /\ IsReady(t) /\ PairIsStaged(t) /\ ~tx[t].published
    /\ Authorized(tx[t].checkpoint, tx[t].ready.kind, tx[t].ready.expires)
    /\ tx[t].ready.kind # "legacy" =>
          /\ ChangesOnlyRequested(source, tx[t].successor, tx[t].ready.kind)
          /\ Authorized(tx[t].successor, "methods", tx[t].ready.expires)
    /\ source' = tx[t].successor
    /\ tx' = [tx EXCEPT ![t].successor = source]
    /\ Hold("publish", t)
    /\ UNCHANGED <<issues, now, crashes, effects, seen>>

\* A retry finds the directories exchanged.
PublishAgain(t) ==
    /\ busy = Idle /\ IsReady(t) /\ PairIsExchanged(t)
    /\ Hold("publish", t)
    /\ UNCHANGED <<source, tx, issues, now, crashes, effects, seen>>

\* The exchange is made durable before it is acknowledged.
Sync(op, t) ==
    /\ At(op, t, 1) /\ busy' = [busy EXCEPT !.phase = 2]
    /\ UNCHANGED <<source, tx, issues, now, crashes, effects, seen>>

PublishAcknowledges(t) ==
    /\ At("publish", t, 2) /\ Release
    /\ tx' = [tx EXCEPT ![t].published = TRUE] /\ seen' = seen \cup {source}
    /\ UNCHANGED <<source, issues, now, crashes, effects>>

---------------------------------------------------------------------------
(* Rollback of a conversion *)

\* _rollback_context: what was exchanged is still where the exchange left it.
MayReverse(t) ==
    /\ IsReady(t) /\ tx[t].ready.kind = "legacy"
    /\ tx[t].checkpoint = tx[t].ready.source /\ tx[t].successor = tx[t].ready.source

\* The old grants come back under a further counter; what the daemon wrote
\* is that of the source.
Reversed(t) ==
    [tx[t].checkpoint EXCEPT !.counter = source.counter + 1, !.issue = issues + 1,
                             !.history = source.history]

StageRollback(t) ==
    /\ busy = Idle /\ MayReverse(t) /\ tx[t].rollback = NoTree
    /\ source = tx[t].ready.successor
    /\ Expired(tx[t].checkpoint) = {}
    /\ Hold("reverse", t)
    /\ tx' = [tx EXCEPT ![t].rollback = Reversed(t)]
    /\ issues' = issues + 1
    /\ UNCHANGED <<source, now, crashes, effects, seen>>

RollbackReady(t) ==
    /\ At("reverse", t, 1) /\ Release
    /\ tx' = [tx EXCEPT ![t].reverse = [kind |-> "rollback", source |-> source,
                                        successor |-> tx[t].rollback, expires |-> 0]]
    /\ UNCHANGED <<source, issues, now, crashes, effects, seen>>

RollbackExchanges(t) ==
    /\ busy = Idle /\ MayReverse(t) /\ tx[t].reverse # NoReceipt /\ ~tx[t].rolled
    /\ source = tx[t].reverse.source /\ tx[t].rollback = tx[t].reverse.successor
    /\ Expired(tx[t].rollback) = {}
    /\ source' = tx[t].rollback
    /\ tx' = [tx EXCEPT ![t].rollback = source]
    /\ Hold("rollback", t)
    /\ UNCHANGED <<issues, now, crashes, effects, seen>>

RollbackAgain(t) ==
    /\ busy = Idle /\ MayReverse(t) /\ tx[t].reverse # NoReceipt
    /\ source = tx[t].reverse.successor /\ tx[t].rollback = tx[t].reverse.source
    /\ Hold("rollback", t)
    /\ UNCHANGED <<source, tx, issues, now, crashes, effects, seen>>

RollbackAcknowledges(t) ==
    /\ At("rollback", t, 2) /\ Release
    /\ tx' = [tx EXCEPT ![t].rolled = TRUE] /\ seen' = seen \cup {source}
    /\ UNCHANGED <<source, issues, now, crashes, effects>>

---------------------------------------------------------------------------
(* Faults and the daemon *)

Killed ==
    /\ busy # Idle /\ crashes < MaxCrashes /\ crashes' = crashes + 1 /\ Release
    /\ UNCHANGED <<source, tx, issues, now, effects, seen>>

\* Power lost before the exchange was made durable may undo it.
PowerLost(t) ==
    /\ crashes < MaxCrashes /\ crashes' = crashes + 1 /\ Release
    /\ \/ /\ At("publish", t, 1) /\ ~tx[t].published
          /\ source' = tx[t].successor /\ tx' = [tx EXCEPT ![t].successor = source]
       \/ /\ At("rollback", t, 1) /\ ~tx[t].rolled
          /\ source' = tx[t].rollback /\ tx' = [tx EXCEPT ![t].rollback = source]
    /\ UNCHANGED <<issues, now, effects, seen>>

Serve ==
    /\ busy = Idle /\ effects < MaxEffects
    /\ source' = [source EXCEPT !.history = @ + 1] /\ effects' = effects + 1
    /\ seen' = seen \cup {source'}
    /\ UNCHANGED <<tx, busy, issues, now, crashes>>

Tick == now < MaxNow /\ now' = now + 1
    /\ UNCHANGED <<source, tx, busy, issues, crashes, effects, seen>>

Init ==
    /\ \E form \in {"legacy", "current"}, until \in [Roles -> {1, TTL}], c \in {0, 1} :
          /\ form = "legacy" => c = 0
          /\ source = [form |-> form, counter |-> 1, issue |-> 0, history |-> 0,
                       until |-> until, controller |-> c]
    /\ tx = [t \in Transactions |-> Fresh] /\ busy = Idle
    /\ issues = 0 /\ now = 0 /\ crashes = 0 /\ effects = 0 /\ seen = {source}

Next ==
    \/ \E t \in Transactions :
          \/ \E kind \in {"legacy", "methods", "provision", "controller", "profiles"} : Stage(t, kind)
          \/ StageReady(t) \/ PublishExchanges(t) \/ PublishAgain(t) \/ PublishAcknowledges(t)
          \/ StageRollback(t) \/ RollbackReady(t)
          \/ RollbackExchanges(t) \/ RollbackAgain(t) \/ RollbackAcknowledges(t)
          \/ Sync("publish", t) \/ Sync("rollback", t) \/ PowerLost(t)
    \/ Killed \/ Serve \/ Tick

Spec == Init /\ [][Next]_vars

---------------------------------------------------------------------------
(* Properties *)

\* However many transactions were staged, cut, retried or rolled back:
\* nothing the daemon wrote is ever lost from the source, a custody counter
\* never stands for two different custodies, what was acknowledged as
\* published or rolled back is not undone, and the controller never outlives
\* a role.
SourceNeverForks ==
    /\ source.history = effects
    /\ \A a, b \in seen : a.counter = b.counter => a.issue = b.issue
    /\ \A t \in Transactions :
          /\ tx[t].published => source.counter >= tx[t].ready.successor.counter
          /\ tx[t].rolled => source.counter >= tx[t].reverse.successor.counter
    /\ \A r \in Roles : source.controller <= source.until[r]
=============================================================================
