------------------------------ MODULE MCCurator ------------------------------
(***************************************************************************)
(* Small instances of Curator.                                             *)
(***************************************************************************)
EXTENDS Curator, TLC

CONSTANTS t1, t2, c1, c2, k1, k2, k3, k4, k5, k6, x1, out1, out2

Guarded == [id |-> 1, resource |-> x1, fenced |-> TRUE, human |-> FALSE]
Later == [id |-> 2, resource |-> x1, fenced |-> FALSE, human |-> TRUE]

QueueItems == {Guarded, Later}

Put(k, i) == [key |-> k, op |-> "enqueue", item |-> i, output |-> out1]

Take(k, c, i, gen, until, epoch) ==
    [key |-> k, op |-> "claim", item |-> i, claim |-> c, gen |-> gen, until |-> until,
     epoch |-> epoch, ends |-> 3, output |-> out1]

Done(k, c, gen, outcome, output, epoch) ==
    [key |-> k, op |-> "complete", claim |-> c, gen |-> gen, outcome |-> outcome,
     output |-> output, epoch |-> epoch]

\* Two items on one resource.  A second worker takes the fenced one over when
\* the first's lease is over, and both try to complete; two pairs of requests
\* share an id, and one result is asked for twice.
QueueRequests ==
    {Put(k1, Guarded), Put(k2, Later), Put(k2, Guarded),
     Take(k3, c1, Guarded, 0, 2, 1), Take(k3, c2, Later, 0, 2, None),
     Take(k6, c2, Guarded, 1, 3, 2),
     Done(k4, c1, 1, "completed", out1, 1), Done(k5, c1, 1, "completed", out1, 1),
     Done(k4, c2, 2, "proposed", out2, None)}

ThreadSymmetry == Permutations(Threads)
=============================================================================
