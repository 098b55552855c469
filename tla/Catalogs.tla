------------------------------ MODULE Catalogs ------------------------------
(***************************************************************************)
(* The catalogs of mandatory visibility (native_egress.py,                 *)
(* mandatory_echo.py, daemon.py): every store that holds operations for    *)
(* peers also holds one echo obligation per operation, authenticated with  *)
(* the key of the visibility installation.                                 *)
(*                                                                         *)
(* Offline commands install the tables in stores that lack them and move   *)
(* a body that ran closed (receive-only, with a null key) to its owner's   *)
(* signed installation.  They check every catalog before they change any,  *)
(* and then change them one transaction at a time, so a kill leaves some   *)
(* changed and some not.  The daemon refuses to serve unless all of them   *)
(* agree.                                                                  *)
(***************************************************************************)
EXTENDS Naturals, FiniteSets

CONSTANTS
    Stores,     \* the stores whose paths are registered
    Legacy,     \* stores that held operations before visibility existed
    MaxOperations, MaxKills

Keys == {"closed", "owner"}
Policies == Keys     \* an installation's policy goes with its key
Idle == [kind |-> "idle"]

VARIABLES
    native,     \* the operations each store holds
    tables,     \* whether the visibility tables exist
    tag,        \* the key the catalog row is authenticated with
    rows,       \* mandatory_egress_operations
    echo,       \* echo_v2_obligations: key and policy of each obligation
    installed,  \* whether the owner's signed installation is in place
    command,    \* the running offline command, under the runtime lock
    serving,    \* the key the daemon serves with, or "none"
    kills

vars == <<native, tables, tag, rows, echo, installed, command, serving, kills>>
catalogs == <<native, tables, tag, rows, echo>>

Init ==
    /\ native = [s \in Stores |-> IF s \in Legacy THEN {1} ELSE {}]
    /\ tables = [s \in Stores |-> FALSE]
    /\ tag = [s \in Stores |-> "none"]
    /\ rows = [s \in Stores |-> {}]
    /\ echo = [s \in Stores |-> {}]
    /\ installed = FALSE
    /\ command = Idle
    /\ serving = "none"
    /\ kills = 0

\* load_owner_visibility: the owner's key comes only from an installation whose
\* files, signature and binding verify; a closed body has the null key.
KeyLoads(key) == key = "closed" \/ installed

LockFree == command = Idle /\ serving = "none"

-----------------------------------------------------------------------------
(* What validation asks of a catalog *)

\* _validate_visibility_schema: the tables, and the catalog row under the key.
SchemaHolds(s, key) == tables[s] /\ tag[s] = key

\* An obligation loads only under the key it was written with.
Loads(s, op, key) ==
    Cardinality({e \in echo[s] : e.op = op}) = 1
      /\ \A e \in echo[s] : e.op = op => e.key = key

\* _native_history: the operations the store's own tables show.
NativeHistory(s) == native[s]

\* _reconcile_catalog: operations, rows and obligations are the same ones.
Reconciled(s, key) ==
    /\ rows[s] = NativeHistory(s)
    /\ {e.op : e \in echo[s]} = NativeHistory(s)
    /\ \A op \in NativeHistory(s) : Loads(s, op, key)

Valid(s, key) == SchemaHolds(s, key) /\ Reconciled(s, key)

-----------------------------------------------------------------------------
(* Provisioning *)

\* _preflight_migration: a store without tables must not hold operations yet.
MayProvision(s, key) == IF tables[s] THEN Valid(s, key) ELSE NativeHistory(s) = {}

\* _provision: the tables and the authenticated catalog row in one transaction.
Provisioned(s, key) ==
    /\ tables' = [tables EXCEPT ![s] = TRUE]
    /\ tag' = [tag EXCEPT ![s] = IF tables[s] THEN @ ELSE key]
    /\ UNCHANGED <<native, rows, echo>>

-----------------------------------------------------------------------------
(* Adoption of the owner's installation *)

\* Only the closed key, or this very installation, is accepted; obligations of
\* the closed body carry its policy.
MayAdopt(s) ==
    \/ Valid(s, "owner")
    \/ Valid(s, "closed") /\ \A e \in echo[s] : e.policy = "closed"

\* reauthenticate: the row and every record, whose bindings stay as they are.
Reauthenticated(s) ==
    /\ tag' = [tag EXCEPT ![s] = "owner"]
    /\ echo' = [echo EXCEPT ![s] = {[e EXCEPT !.key = "owner"] : e \in @}]
    /\ UNCHANGED <<native, tables, rows>>

Adopted(s) ==
    IF Valid(s, "owner") THEN UNCHANGED catalogs ELSE Reauthenticated(s)

-----------------------------------------------------------------------------
(* The offline commands *)

May(kind, key, s) == IF kind = "adopt" THEN MayAdopt(s) ELSE MayProvision(s, key)

\* Every selected catalog is checked before any is changed.
Begin(kind, key) ==
    /\ LockFree /\ KeyLoads(key)
    /\ kind = "adopt" => key = "owner"
    /\ \A s \in Stores : May(kind, key, s)
    /\ \E s \in Stores : IF kind = "adopt" THEN tag[s] # "owner" ELSE ~tables[s]
    /\ command' = [kind |-> kind, key |-> key, todo |-> Stores]
    /\ UNCHANGED <<catalogs, installed, serving, kills>>

ChangeOne(s) ==
    /\ command # Idle
    /\ s \in command.todo
    /\ May(command.kind, command.key, s)
    /\ IF command.kind = "adopt" THEN Adopted(s) ELSE Provisioned(s, command.key)
    /\ command' = [command EXCEPT !.todo = @ \ {s}]
    /\ UNCHANGED <<installed, serving, kills>>

End ==
    /\ command # Idle /\ command.todo = {}
    /\ command' = Idle
    /\ UNCHANGED <<catalogs, installed, serving, kills>>

-----------------------------------------------------------------------------
(* The daemon *)

\* serve_forever: validate_registry comes before anything else.
Boot(key) ==
    /\ LockFree /\ KeyLoads(key)
    /\ \A s \in Stores : Valid(s, key)
    /\ serving' = key
    /\ UNCHANGED <<catalogs, installed, command, kills>>

\* admit_in_transaction joins the obligation to the native operation.
Record(s) ==
    LET op == Cardinality(native[s]) + 1
    IN  /\ serving # "none"
        /\ Cardinality(native[s]) < MaxOperations
        /\ SchemaHolds(s, serving)
        /\ native' = [native EXCEPT ![s] = @ \cup {op}]
        /\ rows' = [rows EXCEPT ![s] = @ \cup {op}]
        /\ echo' = [echo EXCEPT ![s] =
             @ \cup {[op |-> op, key |-> serving, policy |-> serving]}]
        /\ UNCHANGED <<tables, tag, installed, command, serving, kills>>

Stop ==
    /\ serving # "none"
    /\ serving' = "none"
    /\ UNCHANGED <<catalogs, installed, command, kills>>

Kill ==
    /\ command # Idle
    /\ kills < MaxKills /\ kills' = kills + 1
    /\ command' = Idle
    /\ UNCHANGED <<catalogs, installed, serving>>

\* The owner puts its signed installation in place; it is not taken away.
Install ==
    /\ ~installed
    /\ installed' = TRUE
    /\ UNCHANGED <<catalogs, command, serving, kills>>

Next ==
    \/ \E kind \in {"provision", "adopt"}, key \in Keys : Begin(kind, key)
    \/ \E s \in Stores : ChangeOne(s) \/ Record(s)
    \/ End \/ Stop \/ Kill \/ Install
    \/ \E key \in Keys : Boot(key)

Spec == Init /\ [][Next]_vars

-----------------------------------------------------------------------------
Covered(s, key) ==
    /\ tables[s] /\ tag[s] = key
    /\ \A op \in native[s] : \E e \in echo[s] : e.op = op /\ e.key = key
    /\ \A e, f \in echo[s] : e.op = f.op => e = f

Mixed == \E s, t \in Stores : tables[s] # tables[t] \/ tag[s] # tag[t]

\* Every operation of every store is under one obligation, all under one key.
Even == \E key \in Keys : \A s \in Stores : Covered(s, key)
=============================================================================
