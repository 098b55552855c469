------------------------------- MODULE MCRoutes -------------------------------
(***************************************************************************)
(* Small instances of Routes, one scenario per plan.                       *)
(***************************************************************************)
EXTENDS Routes, TLC

CONSTANTS m1, m2, r1, r2, b1, b2, c1, c2, q1, q2, q3, k1, k2, t1, t2

\* m1 goes to two recipients, m2 to two bodies of r1; m2 answers m1.
MCTargets == (m1 :> <<<<r1, b1>>, <<r2, b2>>>>) @@ (m2 :> <<<<r1, b1>>, <<r1, b2>>>>)
MCParent == (m1 :> None) @@ (m2 :> m1)

Local(i, m, r, b, o) ==
    [id |-> i, foreign |-> FALSE, msg |-> m, rcpt |-> r, origin |-> b, outcome |-> o, pos |-> 0]
Foreign(i, m, r, b, p) ==
    [id |-> i, foreign |-> TRUE, msg |-> m, rcpt |-> r, origin |-> b, outcome |-> "delivered",
     pos |-> p]

Delivered == Local(1, m1, r1, b1, "delivered")
GivenUp == Local(2, m1, r1, b1, "failed:transport")
ByOther == Local(3, m1, r1, b2, "expired")
Sibling == Local(4, m2, r1, b2, "delivered")
Abroad == Foreign(5, m1, r1, b1, 1)
AbroadAgain == Foreign(6, m1, r2, b2, 1)

MCReceipts == {Delivered, GivenUp, ByOther, Sibling, Abroad, AbroadAgain}

Small ==
    [schema |-> 2, upto |-> 2, messages |-> {m1}, receipts |-> {}, consumers |-> {c1},
     pages |-> {}, claims |-> {}, limits |-> {}, time |-> 0, crashes |-> 0, ops |-> 12]

\* Competing receipts, with and without a consumer that has gone on.
Dispute == [Small EXCEPT !.receipts = {Delivered, GivenUp, Abroad, AbroadAgain}]
\* The process dies in the middle of a mutation.
Dying == [Small EXCEPT !.receipts = {Delivered, AbroadAgain}, !.crashes = 3]
\* A store of schema 1 is upgraded twice, bodies of one recipient get own legs.
Upgrade == [Small EXCEPT !.schema = 1, !.upto = 3, !.messages = {m1, m2},
                         !.receipts = {Delivered, ByOther, Sibling}, !.crashes = 1, !.ops = 7]
\* Two readers page, go on and compact while messages arrive.
Reading == [Small EXCEPT !.schema = 3, !.upto = 3, !.messages = {m1, m2}, !.receipts = {Delivered},
                         !.consumers = {c1}, !.pages = {q1, q2, q3}, !.limits = {1, 2}, !.ops = 8]
\* Two consumers lease rows.
Leasing == [Small EXCEPT !.schema = 3, !.upto = 3, !.receipts = {Delivered},
                         !.consumers = {c1, c2}, !.claims = {k1, k2}, !.limits = {1},
                         !.time = 2, !.ops = 5]
\* Two dispatches over two routes, a retry, and the recipient's consumers.
Carry == [Small EXCEPT !.limits = {1}, !.consumers = {c1}, !.time = 2]
Twice == [Small EXCEPT !.limits = {2}, !.consumers = {c1}, !.time = 2, !.ops = 9]
Fallback == [Small EXCEPT !.crashes = 1, !.receipts = {Delivered}, !.time = 2, !.ops = 9,
                          !.consumers = {}]
\* A hub takes bytes the recipient would refuse, and its consumer carries them on.
ByHub == [Small EXCEPT !.limits = {2}, !.consumers = {c2}, !.time = 1, !.ops = 8]
MCPlans == {Dispute, Dying, Upgrade, Reading, Leasing, Carry, Twice, Fallback, ByHub}

Letter == [id |-> 1, bytes |-> 1, msg |-> m1]
Altered == [id |-> 1, bytes |-> 2, msg |-> m1]
Other == [id |-> 2, bytes |-> 3, msg |-> m1]
Unwanted == [id |-> 3, bytes |-> 4, msg |-> m1]
MCEnvelopes == {Letter, Altered, Other, Unwanted}
MCRefused == {Unwanted}

None0 == [calls |-> 0, claims |-> 0, forwards |-> 0, threads |-> {}, routes |-> << >>, envelopes |-> {},
          deadlines |-> {}]
MCCarrying ==
    [p \in MCPlans |->
        CASE p = Carry -> [calls |-> 2, claims |-> 0, forwards |-> 0, threads |-> {t1, t2}, routes |-> <<"direct">>,
                           envelopes |-> {Letter, Altered, Unwanted}, deadlines |-> {2}]
          [] p = Twice -> [calls |-> 2, claims |-> 2, forwards |-> 0, threads |-> {t1}, routes |-> <<"direct">>,
                           envelopes |-> {Letter, Other}, deadlines |-> {1, 2}]
          [] p = Fallback -> [calls |-> 2, claims |-> 0, forwards |-> 0, threads |-> {t1},
                              routes |-> <<"lan", "direct", "hub">>,
                              envelopes |-> {Letter}, deadlines |-> {2}]
          [] p = ByHub -> [calls |-> 1, claims |-> 1, forwards |-> 2, threads |-> {t1},
                           routes |-> <<"hub", "direct">>, envelopes |-> {Letter, Unwanted},
                           deadlines |-> {1}]
          [] OTHER -> None0]
=============================================================================
