------------------------------- MODULE Readers -------------------------------
(***************************************************************************)
(* Selection of the receiving readers of a group channel (native_egress.py)*)
(* and its journal (messaging_store.py).  The owner's controller revokes   *)
(* and then selects readers by commands that name the process and the head *)
(* they were made from; each accepted command is journalled before it      *)
(* takes effect, and the journal's append may fail before or after it      *)
(* committed.  A restarted process begins unselected and takes up again    *)
(* only the last intent, if the installation, the roster and the readers'  *)
(* validity still are what they were.                                      *)
(*                                                                         *)
(* One channel.  The reader vector is the time until which it is valid, or *)
(* 0 for none; the roster and the installed binding are their versions; a  *)
(* head is the sequence of what was accepted since the process started.    *)
(***************************************************************************)
EXTENDS Integers, Sequences

CONSTANTS Operations, MaxRequests, MaxBoots, MaxNow, MaxRosters, MaxBindings, MaxTroubles

VARIABLES
    journal,    \* the reader-control records, oldest first
    requests,   \* the commands the controller has sent, any of which may be retried
    acked,      \* the requests it was answered as done
    live,       \* the selection in the process's memory
    latest,     \* the number of records the process believes the journal has
    boots,      \* the number of processes so far
    now, roster, binding, troubles

vars == <<journal, requests, acked, live, latest, boots, now, roster, binding, troubles>>
world == <<now, roster, binding>>

NoOne == "none"
Down == [phase |-> "down", operation |-> NoOne, request |-> 0, readers |-> 0, head |-> <<>>]

\* register_reader_channel: a new process starts unselected.
Unselected(boot) == [Down EXCEPT !.phase = "unselected", !.head = <<boot>>]

Up == live.phase # "down"
LastRecord == journal[Len(journal)]
Valid(until) == until = 0 \/ now < until

---------------------------------------------------------------------------
(* The journal *)

Record(action, i, c, b) == [action |-> action, request |-> i, command |-> c, binding |-> b]

\* append_reader_control: the record is kept if the journal is where the
\* process left it, unless the store fails first.
AppendMay(r) == {journal} \cup IF latest = Len(journal) THEN {Append(journal, r)} ELSE {}

\* The append reports success only for a record that is kept; if it reports
\* failure the process reads the journal again, which may fail too.
Retained(r) == Len(journal') > 0 /\ journal'[Len(journal')] = r

---------------------------------------------------------------------------
(* Commands of the controller *)

\* select_readers: a revocation names neither readers nor a roster.
WellFormed(phase, readers, expected) == phase = "revoke" => readers = 0 /\ expected = 0

\* The controller works from the snapshot it has just read.
Send(operation, phase, readers, expected) ==
    /\ Up /\ Len(requests) < MaxRequests
    /\ WellFormed(phase, readers, expected)
    /\ requests' = Append(requests,
          [process |-> boots, head |-> live.head, operation |-> operation, phase |-> phase,
           readers |-> readers, roster |-> expected])
    /\ UNCHANGED <<journal, acked, live, latest, boots, world, troubles>>

\* selection_authorization: a select that names a roster names the current one.
RosterHolds(c) == c.roster = 0 \/ c.roster = roster

\* A revocation reserves the channel for its operation until it selects.
OperationMay(c) ==
    /\ live.phase = "revoke" => c.operation = live.operation
    /\ c.phase = "select" => live.phase = "revoke"

MayApply(c) ==
    /\ c.process = boots /\ c.head = live.head
    /\ OperationMay(c) /\ Valid(c.readers)
    /\ c.phase = "select" => RosterHolds(c)

Candidate(i) ==
    [phase |-> requests[i].phase, operation |-> requests[i].operation, request |-> i,
     readers |-> requests[i].readers, head |-> Append(live.head, i)]

\* What is left when it is not known whether the command was journalled: the
\* channel is revoked and reserved for the command's operation, its head kept.
Reserved(c) ==
    [live EXCEPT !.phase = "revoke", !.readers = 0, !.operation = c.operation, !.request = 0]

Control(i) ==
    /\ Up /\ live.request # i /\ MayApply(requests[i])
    /\ LET r == Record("control", i, requests[i], binding) IN
       /\ journal' \in AppendMay(r)
       /\ \/ /\ Retained(r)
             /\ live' = Candidate(i) /\ latest' = Len(journal') /\ acked' = acked \cup {i}
             /\ UNCHANGED troubles
          \/ /\ live' = Reserved(requests[i]) /\ UNCHANGED <<latest, acked>>
             /\ troubles < MaxTroubles /\ troubles' = troubles + 1
    /\ UNCHANGED <<requests, boots, world>>

\* The request in force is answered again by what is in force.
Repeat(i) ==
    /\ Up /\ live.request = i /\ requests[i].process = boots
    /\ acked' = acked \cup {i}
    /\ UNCHANGED <<journal, requests, live, latest, boots, world, troubles>>

---------------------------------------------------------------------------
(* initialize_reader_recovery *)

\* Only the last record counts, and only if it is a selection.
Positive(r) == r.action # "invalidate" /\ r.command.phase = "select" /\ r.command.readers # 0

Compatible(r) ==
    /\ r.binding = binding
    /\ r.command.roster # 0 /\ r.command.roster = roster
    /\ Valid(r.command.readers)

Boots == ~Up /\ boots < MaxBoots /\ boots' = boots + 1

BootUnselected ==
    /\ Boots
    /\ journal # <<>> => ~Positive(LastRecord)
    /\ live' = Unselected(boots') /\ latest' = Len(journal)
    /\ UNCHANGED <<journal, requests, acked, world, troubles>>

\* The intent is taken up under the new process.
BootRebound ==
    /\ Boots /\ journal # <<>> /\ Positive(LastRecord) /\ Compatible(LastRecord)
    /\ journal' = Append(journal, [LastRecord EXCEPT !.action = "rebound"])
    /\ latest' = Len(journal')
    /\ live' = [phase |-> "select", operation |-> LastRecord.command.operation, request |-> 0,
                readers |-> LastRecord.command.readers, head |-> <<boots', "rebound">>]
    /\ UNCHANGED <<requests, acked, world, troubles>>

\* An intent that no longer fits is consumed.
BootInvalidates ==
    /\ Boots /\ journal # <<>> /\ Positive(LastRecord) /\ ~Compatible(LastRecord)
    /\ journal' = Append(journal, [LastRecord EXCEPT !.action = "invalidate"])
    /\ latest' = Len(journal')
    /\ live' = Unselected(boots')
    /\ UNCHANGED <<requests, acked, world, troubles>>

\* A store that does not answer, before or after its commit, stops the start.
BootFails ==
    /\ Boots /\ journal # <<>> /\ Positive(LastRecord)
    /\ troubles < MaxTroubles /\ troubles' = troubles + 1
    /\ journal' = Append(journal, [LastRecord EXCEPT !.action =
          IF Compatible(LastRecord) THEN "rebound" ELSE "invalidate"])
    /\ UNCHANGED <<requests, acked, live, latest, world>>

Stop ==
    /\ Up /\ boots < MaxBoots
    /\ live' = Down /\ latest' = 0
    /\ UNCHANGED <<journal, requests, acked, boots, world, troubles>>

---------------------------------------------------------------------------
(* The world *)

Tick == now < MaxNow /\ now' = now + 1
    /\ UNCHANGED <<journal, requests, acked, live, latest, boots, roster, binding, troubles>>

\* A membership event changes the roster; it may come back to what it was.
RosterMoves == \E r \in 1..MaxRosters : r # roster /\ roster' = r
    /\ troubles < MaxTroubles /\ troubles' = troubles + 1
    /\ UNCHANGED <<journal, requests, acked, live, latest, boots, now, binding>>

\* Another generation is installed, or the one before it again.
Reinstall == \E b \in 1..MaxBindings : b # binding /\ binding' = b
    /\ ~Up /\ troubles < MaxTroubles /\ troubles' = troubles + 1
    /\ UNCHANGED <<journal, requests, acked, live, latest, boots, now, roster>>

Init ==
    /\ journal = <<>> /\ requests = <<>> /\ acked = {}
    /\ live = Down /\ latest = 0 /\ boots = 0
    /\ now = 0 /\ roster = 1 /\ binding = 1 /\ troubles = 0

Next ==
    \/ \E o \in Operations, p \in {"revoke", "select"}, t \in {0, MaxNow}, e \in {0, roster} :
          Send(o, p, t, e)
    \/ \E i \in 1..Len(requests) : Control(i) \/ Repeat(i)
    \/ BootUnselected \/ BootRebound \/ BootInvalidates \/ BootFails \/ Stop
    \/ Tick \/ RosterMoves \/ Reinstall

Spec == Init /\ [][Next]_vars

---------------------------------------------------------------------------
(* Properties *)

\* Whatever was lost, retried or restarted, readers are selected only by the
\* last intent the journal holds: a revocation the controller was told of,
\* or one that may have been kept, is never followed by readers it did not
\* select afterwards; every control answered as done is kept; and an intent
\* that was invalidated never comes back with the roster or installation it
\* was made for.
ReadinessIsIntended ==
    /\ live.phase = "select" /\ live.readers # 0 =>
          /\ journal # <<>> /\ LastRecord.action # "invalidate"
          /\ LastRecord.command.operation = live.operation /\ LastRecord.command.readers = live.readers
          /\ LastRecord.command.phase = "select"
    /\ \A i \in acked :
          \E k \in 1..Len(journal) : journal[k].action = "control" /\ journal[k].request = i
    /\ \A j, k \in 1..Len(journal) :
          j < k /\ journal[j].action = "invalidate" => journal[k].request # journal[j].request
=============================================================================
