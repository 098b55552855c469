----------------------------- MODULE MCExecution -----------------------------
(***************************************************************************)
(* A small instance of Execution: an unfunded review and its renewal, two  *)
(* funded instructions that share their accounts, and a periodic one that  *)
(* works on queued messages.                                               *)
(***************************************************************************)
EXTENDS Execution, TLC

CONSTANTS a1, a1x, a2, b, c, e, f, q, tribe, being, lone, episode, w1, w2

Draft(id, rev, pred, end, interval, cycleLimit, secs, effects) ==
    [id |-> id, rev |-> rev, pred |-> pred, session |-> id, start |-> 0, end |-> end,
     interval |-> interval, cycles |-> cycleLimit, secs |-> secs, effects |-> effects]

MCTerms ==
    a1  :> Draft(1, 1, None, 2, 0, 1, 1, 1) @@
    a1x :> Draft(1, 1, None, 2, 0, 1, 1, 2) @@
    a2  :> Draft(1, 2, a1, 2, 0, 1, 1, 1) @@
    b   :> Draft(2, 1, None, 1, 0, 1, 1, 1) @@
    c   :> Draft(3, 1, None, 1, 0, 1, 1, 1) @@
    e   :> Draft(5, 1, None, 1, 0, 1, 1, 1) @@
    f   :> Draft(6, 1, None, 1, 0, 1, 1, 1) @@
    q   :> Draft(4, 1, None, 2, 1, 2, 1, 1)

Limits(kind, calls, charge, active, bindings) ==
    [kind |-> kind, start |-> 0, end |-> 3, calls |-> calls, charge |-> charge,
     active |-> active, bindings |-> bindings]

MCCeiling ==
    tribe   :> Limits("tribe", 2, 3, 2, 2) @@
    being   :> Limits("being", 2, 4, 2, 2) @@
    lone    :> Limits("being", 2, 4, 1, 2) @@
    episode :> Limits("episode", 2, 4, 2, 2)

Paid == {tribe, being, episode}
Single == {tribe, lone, episode}
MCFunding ==
    [d \in Drafts |-> [accounts |-> IF d \in {e, f} THEN Single ELSE Paid,
                        charge |-> IF d \in {e, f} THEN 1 ELSE 2]]
MCRequest == [w \in Work |-> [draft |-> q, account |-> episode]]
MCPolicy == [x \in Accounts |-> [drafts |-> {q}, requests |-> 2, pending |-> 1]]

Bounds(drafts, accounts, messages, time, cycleLimit) ==
    [drafts |-> drafts, accounts |-> accounts, work |-> messages,
     kinds |-> {"inference", "provider"}, time |-> time,
     cycles |-> cycleLimit, rollbacks |-> 0, cancels |-> 0, controls |-> 0,
     raises |-> 1, crashes |-> 0]

Renewal == [Bounds({a1, a2}, {}, {}, 0, 2) EXCEPT !.cancels = 1, !.crashes = 1, !.raises = 0]
Effects == [Bounds({a1, a1x}, {}, {}, 0, 1) EXCEPT !.kinds = Kinds, !.crashes = 1, !.cancels = 1]
Rollback == [Bounds({a1}, {}, {}, 2, 1) EXCEPT !.rollbacks = 1, !.raises = 0]
Shared == [Bounds({b, c}, Paid, {}, 0, 2) EXCEPT !.raises = 0]
Race == [Bounds({e, f}, Single, {}, 0, 2) EXCEPT !.raises = 0]
Paused == [Bounds({b}, Paid, {}, 0, 1) EXCEPT !.controls = 1, !.crashes = 1]
Queue == [Bounds({q}, Paid, Work, 1, 2) EXCEPT !.raises = 0]
MCPlans == {Renewal, Effects, Rollback, Shared, Race, Paused, Queue}
=============================================================================
