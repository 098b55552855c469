------------------------------ MODULE Species ------------------------------
(***************************************************************************)
(* The species registry of one host (species.py) and the part of the       *)
(* service that calls it: which releases of a species are accepted, what   *)
(* a fork of the release chain does, and how the host's runtime pointer is *)
(* switched, rolled back and recovered around one ledger event.            *)
(*                                                                         *)
(* An artifact is a name; Book gives its body.  A body is authorised by a  *)
(* quorum of keys and the signatures may arrive in several copies.  The    *)
(* verdict that rerunning a body's suites gives is a field of the body.    *)
(***************************************************************************)
EXTENDS Integers, Sequences, FiniteSets

CONSTANTS Book, Keys, Quorum, Plans, Enrolled, Calls, Errors, None

Artifacts == DOMAIN Book
Geneses   == {a \in Artifacts : Book[a].kind = "genesis"}
Releases  == Artifacts \ Geneses
SpeciesIds == {Book[a].species : a \in Artifacts}

VARIABLES
    plan,      \* the copies of artifacts that reach this host
    seen,      \* artifact -> the keys whose signatures are stored
    status,    \* species_state.state, "none" before any genesis
    founder,   \* species_state.genesis_id
    head,      \* species_state.accepted_id
    closed,    \* species_state.closed_epoch, -1 for NULL
    release,   \* releases.state, "absent" before the first copy
    branch,    \* branch_relations.state of a child species
    snapshot,  \* the incoming snapshot the client holds
    journal,   \* application_journal
    events,    \* the application events of the ledger, by operation
    applied,   \* applications: operation -> payload and state
    pointer,   \* the code/config pointer file
    run        \* the operation under way, "down" while the host is down

registryVars == <<seen, status, founder, head, closed, release, branch>>
applicationVars == <<journal, events, applied, pointer>>
vars == <<plan, registryVars, snapshot, applicationVars, run>>

Idle == [step |-> "idle", op |-> None]
Put(f, k, v) == [x \in DOMAIN f \cup {k} |-> IF x = k THEN v ELSE f[x]]

---------------------------------------------------------------------------
(* Releases *)

Of(s) == {r \in Releases : Book[r].species = s}
Position(r) == <<Book[r].epoch, Book[r].sequence>>
Complete(keys) == Cardinality(keys) >= Quorum

\* UPDATE releases SET state=value WHERE artifact_id IN rows: rows that exist.
Marked(f, rows, value) ==
    [r \in Releases |-> IF r \in rows /\ f[r] # "absent" THEN value ELSE f[r]]

\* A release and its predecessors, nearest first.
Ancestry ==
    LET up[r \in Releases] == IF Book[r].previous = None THEN <<r>>
                              ELSE <<r>> \o up[Book[r].previous]
    IN  [r \in Releases \cup {None} |-> IF r = None THEN <<>> ELSE up[r]]

\* The walk of _path: it stops at the anchor and refuses what is quarantined.
PathExists(anchor, candidate) ==
    \E n \in 1 .. Len(Ancestry[candidate]) :
        /\ Ancestry[candidate][n] = anchor
        /\ \A m \in 1 .. n - 1 :
              release[Ancestry[candidate][m]] \in {"accepted", "superseded"}

\* A fork resolution names every branch above the common predecessor.
ClosureHolds(r) ==
    LET entries == Book[r].entries
        common == Book[r].previous
        referenced == {Book[e].previous : e \in entries} \ {common}
    IN  /\ \A e \in entries :
              /\ release[e] # "absent" /\ Book[e].epoch = Book[r].epoch - 1
              /\ Book[e].previous \in entries \cup {common}
        /\ \E e, f \in entries : e # f /\ Position(e) = Position(f)
        /\ Cardinality(entries \ referenced) >= 2

\* verify_report builds the report again and demands the verdict of the kind.
Compatible(r) == Book[r].verdict = (IF Book[r].kind = "zero" THEN "genesis" ELSE "compatible")

\* A branch declaration must break with its parent: otherwise it is a release.
FoundationHolds(r) == Book[r].kind = "branch" => Book[r].breaking

RelationHolds(r) ==
    LET b == Book[r]
    IN  /\ b.genesis = founder[b.species]
        /\ Compatible(r) /\ FoundationHolds(r)
        /\ b.kind # "zero" => /\ release[b.previous] # "absent"
                              /\ Book[b.previous].species = b.species
        /\ b.kind = "resolution" => /\ release[b.previous] = "accepted"
                                    /\ ClosureHolds(r)

\* A child whose declaration is no longer accepted is quarantined with it.
Orphans(rel) ==
    {c \in SpeciesIds : /\ branch[c] = "accepted"
                        /\ \E g \in Geneses : /\ g = founder[c]
                                              /\ rel[Book[g].origin] # "accepted"}

Refreshed(rel, st) ==
    /\ branch' = [c \in SpeciesIds |-> IF c \in Orphans(rel) THEN "quarantined" ELSE branch[c]]
    /\ status' = [s \in SpeciesIds |-> IF s \in Orphans(rel) THEN "quarantined" ELSE st[s]]
    /\ release' = Marked(rel, UNION {Of(c) : c \in Orphans(rel)}, "quarantined")

Siblings(r) ==
    {x \in Of(Book[r].species) \ {r} :
        Position(x) = Position(r) /\ release[x] \notin {"absent", "pending"}}

\* What a complete release that was pending or unknown becomes.
Verdict(r) ==
    LET b == Book[r]
        s == b.species
        normal == b.kind # "resolution"
        parent == IF b.previous = None THEN "accepted" ELSE release[b.previous]
    IN  CASE normal /\ b.epoch <= closed[s] -> "superseded"
          [] normal /\ (status[s] = "quarantined" \/ parent \in {"quarantined", "superseded"}) -> "quarantined"
          [] Siblings(r) # {} -> "fork"
          [] OTHER -> "accepted"

IngestRelease(r, keys) ==
    LET s == Book[r].species
        b == Book[r]
        known == release[r]
        merged == seen[r] \cup keys
        stored == [release EXCEPT ![r] = IF @ = "absent" THEN "pending" ELSE @]
        decide == Complete(merged) /\ known \in {"absent", "pending"}
        verdict == IF decide THEN Verdict(r) ELSE "kept"
        later == {x \in Of(s) : Book[x].epoch = b.epoch /\ Book[x].sequence >= b.sequence}
        answered == IF ~Complete(merged) THEN "pending"
                    ELSE CASE verdict = "kept" -> known [] verdict = "fork" -> "quarantined" [] OTHER -> verdict
    IN  /\ run = Idle
        /\ <<r, keys>> \in plan
        /\ status[s] # "none" /\ founder[s] # None /\ Complete(seen[founder[s]])
        /\ Cardinality({g \in Geneses : Book[g].species = s /\ Complete(seen[g])}) = 1
        /\ RelationHolds(r)
        /\ seen' = [seen EXCEPT ![r] = merged]
        /\ CASE verdict = "kept" ->
                  Refreshed(stored, status) /\ UNCHANGED <<head, closed>>
             [] verdict \in {"superseded", "quarantined"} ->
                  Refreshed(Marked(stored, {r}, verdict), status) /\ UNCHANGED <<head, closed>>
             [] verdict = "fork" ->
                  /\ Refreshed(Marked(stored, later, "quarantined"), [status EXCEPT ![s] = "quarantined"])
                  /\ head' = [head EXCEPT ![s] = b.previous]
                  /\ UNCHANGED closed
             [] OTHER ->
                  /\ head' = [head EXCEPT ![s] = r]
                  /\ closed' = [closed EXCEPT ![s] = IF b.kind = "resolution" THEN b.epoch - 1 ELSE @]
                  /\ Refreshed(Marked(Marked(stored, {r}, "accepted"),
                                      {x \in Of(s) : b.kind = "resolution" /\ Book[x].epoch = b.epoch - 1},
                                      "superseded"),
                               [status EXCEPT ![s] = "active"])
        /\ run' = IF answered = "quarantined" /\ s = Book[Enrolled].species /\ pointer # None
                  THEN [step |-> "forked", op |-> r] ELSE Idle
        /\ UNCHANGED <<plan, founder, snapshot, applicationVars>>

\* A complete genesis activates the species; two of them end it.
IngestGenesis(g, keys) ==
    LET s == Book[g].species
        merged == seen[g] \cup keys
        all == {x \in Geneses : Book[x].species = s
                    /\ Complete(IF x = g THEN merged ELSE seen[x])}
        result == IF Cardinality(all) > 1 THEN "quarantined"
                  ELSE IF Complete(merged) THEN "active" ELSE "pending"
    IN  /\ run # [step |-> "down", op |-> None]
        /\ <<g, keys>> \in plan
        /\ Book[g].origin # None => release[Book[g].origin] = "accepted"
        /\ seen' = [seen EXCEPT ![g] = merged]
        /\ founder' = [founder EXCEPT ![s] = IF @ = None THEN g ELSE @]
        /\ status' = [status EXCEPT ![s] = result]
        /\ branch' = [branch EXCEPT ![s] = IF Book[g].origin # None /\ @ = "none" THEN "accepted" ELSE @]
        /\ release' = IF result = "quarantined" THEN Marked(release, Of(s), "quarantined") ELSE release
        /\ UNCHANGED <<plan, head, closed, snapshot, applicationVars, run>>

---------------------------------------------------------------------------
(* The runtime of the host *)

Home == Book[Enrolled].species

\* The accepted application with the greatest sequence.
AppHead ==
    LET rows == {op \in DOMAIN applied : applied[op].state = "accepted"}
    IN  IF rows = {} THEN None
        ELSE CHOOSE op \in rows : \A o \in rows : applied[o].n <= applied[op].n

\* Every stored event is "applied" or "rolled-back": both install their target.
Effective(op) == IF op = None THEN None ELSE applied[op].to

ReleaseConflicts ==
    {Position(r) : r \in {x \in Of(Home) : /\ release[x] \in {"quarantined", "superseded"}
        /\ \E y \in Of(Home) \ {x} : Position(y) = Position(x) /\ release[y] \in {"quarantined", "superseded"}}}

AppConflicts ==
    {applied[op].n : op \in {x \in DOMAIN applied : /\ applied[x].state = "quarantined"
        /\ \E y \in DOMAIN applied \ {x} : applied[y].n = applied[x].n /\ applied[y].state = "quarantined"}}

\* incoming: the preview an application or a rollback is bound to.
Preview(candidate) ==
    LET effective == Effective(AppHead)
        anchor == IF effective = None THEN Enrolled ELSE effective
        forked == \/ status[Home] = "quarantined"
                  \/ candidate # None /\ release[candidate] = "quarantined"
        path == candidate # None /\ PathExists(anchor, candidate)
        conflicts == ReleaseConflicts # {} \/ AppConflicts # {}
        state == IF conflicts \/ forked THEN "quarantined"
                 ELSE IF candidate = None \/ release[candidate] = "absent" THEN "incomplete"
                 ELSE IF ~path THEN IF \E n \in 1 .. Len(Ancestry[candidate]) : Ancestry[candidate][n] = anchor
                                    THEN "quarantined" ELSE "diverged"
                 ELSE IF effective = None THEN "incomplete"
                 ELSE IF effective = candidate THEN "current" ELSE "compatible-behind"
    IN  [target |-> candidate, effective |-> effective, state |-> state, conflicts |-> conflicts,
         eligible |-> \/ state = "compatible-behind"
                      \/ effective = None /\ candidate = Enrolled /\ path /\ ~conflicts /\ ~forked]

Incoming ==
    /\ run = Idle
    /\ \E r \in {x \in Of(Home) : release[x] # "absent"} : snapshot' = Preview(r)
    /\ UNCHANGED <<plan, registryVars, applicationVars, run>>

\* The id the next caller draws; Calls bounds the operations.
FreshId == Calls[Cardinality(DOMAIN journal) + 1]

Begin(op, payload) ==
    /\ Cardinality(DOMAIN journal) < Len(Calls)
    /\ op \notin DOMAIN journal
    /\ journal' = Put(journal, op, [state |-> "prepared", prior |-> pointer, payload |-> payload])
    /\ run' = [step |-> "prepared", op |-> op]

\* The body of the next application event: the successor of the current head.
Payload(result, target) ==
    [n |-> IF AppHead = None THEN 0 ELSE applied[AppHead].n + 1, previous |-> AppHead,
     from |-> Effective(AppHead), to |-> target, result |-> result]

\* apply, up to the prepared journal row.
Apply ==
    LET current == AppHead
        target == snapshot.target
    IN  /\ run = Idle
        /\ snapshot # None /\ snapshot.eligible
        /\ release[target] = "accepted"
        /\ IF current = None THEN target = Enrolled /\ pointer = None
           ELSE /\ Effective(current) = snapshot.effective
                /\ pointer = Effective(current)
        /\ Begin(FreshId, Payload("applied", target))
        /\ UNCHANGED <<plan, registryVars, snapshot, events, applied, pointer>>

\* The newest earlier application that may be restored.
Eligible(reason, current) ==
    {op \in DOMAIN applied :
        /\ applied[op].state = "accepted" /\ applied[op].result = "applied"
        /\ applied[op].n < applied[current].n
        /\ IF reason = "release-fork" THEN PathExists(applied[op].to, head[Home])
           ELSE applied[op].to = applied[current].from}

\* What the snapshot has to prove and the registry has to hold.
MayRollBack(reason, snap) ==
    /\ IF reason = "release-fork" THEN snap.state = "quarantined" /\ snap.conflicts
       ELSE snap.state # "quarantined" /\ ~snap.conflicts
    /\ AppHead # None /\ head[Home] # None /\ Eligible(reason, AppHead) # {}
    /\ reason = "runtime-failure" => applied[AppHead].from # None

RollBack(op, reason, snap) ==
    LET choices == Eligible(reason, AppHead)
        chosen == CHOOSE o \in choices : \A x \in choices : applied[x].n <= applied[o].n
    IN  /\ MayRollBack(reason, snap)
        /\ pointer = Effective(AppHead)
        /\ Begin(op, Payload("rolled-back", applied[chosen].to))

\* species.rollback, asked for by the operator's client.
RollBackAsked ==
    /\ run = Idle /\ snapshot # None
    /\ \E reason \in {"release-fork", "runtime-failure"} : RollBack(FreshId, reason, snapshot)
    /\ UNCHANGED <<plan, registryVars, snapshot, events, applied, pointer>>

\* The service, after it has ingested a quarantined release of its species:
\* it rolls back, or has nothing applied, or the rollback is refused.
ForkRollback ==
    LET op == IF AppHead = None THEN None ELSE <<run.op>> \o AppHead
        snap == Preview(head[Home])
        rolls == RollBack(op, "release-fork", snap)
    IN  /\ run.step = "forked"
        /\ \/ /\ AppHead # None /\ ReleaseConflicts # {}
              /\ rolls
           \/ /\ \/ AppHead = None \/ ReleaseConflicts = {} \/ op \in DOMAIN journal
                 \/ head[Home] = None \/ pointer # Effective(AppHead)
                 \/ Eligible("release-fork", AppHead) = {}
              /\ run' = Idle /\ UNCHANGED journal
        /\ UNCHANGED <<plan, registryVars, snapshot, events, applied, pointer>>

Switch ==
    /\ run.step = "prepared"
    /\ pointer' = journal[run.op].payload.to
    /\ journal' = [journal EXCEPT ![run.op].state = "switched"]
    /\ run' = [run EXCEPT !.step = "switched"]
    /\ UNCHANGED <<plan, registryVars, snapshot, events, applied>>

AppendEvent ==
    /\ run.step = "switched"
    /\ events' = events \cup {run.op}
    /\ run' = [run EXCEPT !.step = "appended"]
    /\ UNCHANGED <<plan, registryVars, snapshot, journal, applied, pointer>>

\* record_application_event: a second event at a sequence quarantines both.
Recorded(op) ==
    LET p == journal[op].payload
        twins == {o \in DOMAIN applied : applied[o].n = p.n}
        row == [n |-> p.n, previous |-> p.previous, from |-> p.from, to |-> p.to, result |-> p.result,
                state |-> IF twins = {} THEN "accepted" ELSE "quarantined"]
        all == Put(applied, op, row)
    IN  IF op \in DOMAIN applied THEN applied
        ELSE [o \in DOMAIN all |-> IF twins # {} /\ all[o].n >= p.n
                                   THEN [all[o] EXCEPT !.state = "quarantined"] ELSE all[o]]

Record ==
    /\ run.step = "appended"
    /\ applied' = Recorded(run.op)
    /\ run' = [run EXCEPT !.step = "recorded"]
    /\ UNCHANGED <<plan, registryVars, snapshot, journal, events, pointer>>

Commit ==
    /\ run.step = "recorded"
    /\ journal' = [journal EXCEPT ![run.op].state = "committed"]
    /\ run' = Idle
    /\ UNCHANGED <<plan, registryVars, snapshot, events, applied, pointer>>

\* A write fails and the request ends with an error; the host keeps serving.
Fail ==
    /\ \/ "pointer" \in Errors /\ run.step = "prepared"
       \/ "event" \in Errors /\ run.step = "switched"
       \/ "record" \in Errors /\ run.step \in {"appended", "recorded"}
    /\ run' = Idle
    /\ UNCHANGED <<plan, registryVars, snapshot, applicationVars>>

---------------------------------------------------------------------------
(* The process dies; the next one recovers every open operation first *)

Pending == {op \in DOMAIN journal : journal[op].state \in {"prepared", "switched"}}

Crash ==
    /\ run.step \notin {"down"} /\ (run # Idle \/ Pending # {})
    /\ run' = [step |-> "down", op |-> None]
    /\ UNCHANGED <<plan, registryVars, snapshot, applicationVars>>

RecoverApplicationBlind(op) ==
    /\ pointer' = journal[op].prior
    /\ journal' = [journal EXCEPT ![op].state = "rolled-back"]
    /\ UNCHANGED applied

\* An event in the ledger is completed; without one the prior pointer returns.
RecoverApplication(op) ==
    /\ IF op \in events
       THEN /\ applied' = Recorded(op)
            /\ pointer' = journal[op].payload.to
            /\ journal' = [journal EXCEPT ![op].state = "committed"]
       ELSE /\ pointer' = journal[op].prior
            /\ journal' = [journal EXCEPT ![op].state = "rolled-back"]
            /\ UNCHANGED applied

Recover ==
    /\ run.step = "down"
    /\ \E op \in Pending : RecoverApplication(op)
    /\ UNCHANGED <<plan, registryVars, snapshot, events, run>>

Start ==
    /\ run.step = "down" /\ Pending = {}
    /\ run' = Idle
    /\ UNCHANGED <<plan, registryVars, snapshot, applicationVars>>

Init ==
    /\ plan \in Plans
    /\ seen = [a \in Artifacts |-> {}]
    /\ status = [s \in SpeciesIds |-> "none"]
    /\ founder = [s \in SpeciesIds |-> None]
    /\ head = [s \in SpeciesIds |-> None]
    /\ closed = [s \in SpeciesIds |-> -1]
    /\ release = [r \in Releases |-> "absent"]
    /\ branch = [s \in SpeciesIds |-> "none"]
    /\ snapshot = None
    /\ journal = <<>> /\ events = {} /\ applied = <<>>
    /\ pointer = None /\ run = Idle

Ingest ==
    \E copy \in plan : \/ copy[1] \in Releases /\ IngestRelease(copy[1], copy[2])
                       \/ copy[1] \in Geneses /\ IngestGenesis(copy[1], copy[2])

Next ==
    \/ Ingest
    \/ Incoming
    \/ Apply \/ RollBackAsked
    \/ ForkRollback
    \/ Switch \/ AppendEvent \/ Record \/ Commit \/ Fail
    \/ Crash \/ Recover \/ Start

Spec == Init /\ [][Next]_vars

---------------------------------------------------------------------------
(* Properties *)

\* Wherever crashes cut a switch, and whenever its event cannot be written, a
\* serving host without an open operation runs exactly what its application events
\* say: recovery neither loses a recorded switch nor keeps an unrecorded one. Errors
\* decides which other writes fail as well. With a failed write of the pointer it
\* does not hold: the operation stays open, and recovery may restore an older
\* pointer from it after a later switch.
PointerIsRecorded == run = Idle /\ Pending = {} => pointer = Effective(AppHead)

\* The accepted head of an active species rests on accepted releases down to
\* its release zero, and a child species stands only while its declaration is
\* accepted, however forks, resolutions and late copies are interleaved.  (A
\* second genesis of the parent quarantines its releases and not the child.)
ChainsHold ==
    /\ \A s \in SpeciesIds : status[s] = "active" /\ head[s] # None =>
          \A n \in 1 .. Len(Ancestry[head[s]]) : release[Ancestry[head[s]][n]] \in {"accepted", "superseded"}
    /\ \A g \in Geneses : Book[g].origin # None /\ branch[Book[g].species] = "accepted" =>
          \/ release[Book[g].origin] = "accepted"
          \/ Cardinality({x \in Geneses : Book[x].species = Book[Book[g].origin].species /\ Complete(seen[x])}) > 1
=============================================================================
