--------------------------- MODULE MCHostedWeave ---------------------------
(***************************************************************************)
(* Small instances of HostedWeave: a handful of signed requests.           *)
(***************************************************************************)
EXTENDS HostedWeave

CONSTANTS w1, w2, k1, k2, k3, k4, e1, good

Blank == [key |-> k1, method |-> "we.observe", parents |-> {}, target |-> None,
          decision |-> None, supersedes |-> None, basis |-> None,
          effect |-> None, evidence |-> None]

Propose(k) == [Blank EXCEPT !.key = k, !.method = "we.propose"]

Decide(k, d, sup) ==
    [Blank EXCEPT !.key = k, !.method = "we.decide", !.target = 1,
                  !.decision = d, !.supersedes = sup]

Effect(k, evidence) ==
    [Blank EXCEPT !.key = k, !.method = "we.projection.receipt", !.target = 1,
                  !.basis = 2, !.effect = e1, !.evidence = evidence]

\* A proposal, its adoption and its revert against a receipt of its effect; the
\* key of the proposal is used for another request too.
Adopt == Decide(k2, "adopt", None)
Revert == Decide(k3, "revert", 2)
RpcRequests == {Propose(k1), Blank, Adopt, Revert, Effect(k4, good)}

OldRequests == {Adopt}
CalmRequests == {Blank, Revert}

WorkerSymmetry == Permutations(Workers)
=============================================================================
