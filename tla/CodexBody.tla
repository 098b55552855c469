------------------------------ MODULE CodexBody ------------------------------
(***************************************************************************)
(* The Codex body (codex_body.py, codex_matrix_binding.py): one profile    *)
(* directory with its manifest, the append-only journal of runtime handles, *)
(* the reserved turn requests and the retained results; the native Codex   *)
(* child that holds the thread; and the owner's commands, each of which    *)
(* opens a session on the profile, drives the child and closes it.         *)
(*                                                                         *)
(* The App Server is external: it keeps the thread's turns, runs one turn  *)
(* at a time, and may lose an accepted turn that was cut short.            *)
(***************************************************************************)
EXTENDS Integers, FiniteSets, Sequences

CONSTANTS Requests,      \* turn requests
          Foreign,       \* inputs typed into the thread by other means
          InputOf(_),    \* the text of a request or of a foreign input
          MaxSessions,   \* commands the owner runs
          MaxLapses      \* times the runtime's authority or the body lapses

VARIABLES
    profile,   \* "absent" | "partial" | "ready"
    handles,   \* journal of [state, turn]; the thread is always the same
    torn,      \* a line of the journal was cut short by a crash
    intents,   \* request -> the generation of the active handle it is bound to
    results,   \* retained results: [request, kind, turn]
    session,   \* the owner's command under way
    child,     \* "down" | "up": the native process, which holds the profile's lock
    loaded,    \* the child has the thread open
    thread,    \* the native turns in order: [id, by, status]
    minted,    \* turn ids the App Server has given out
    lapsed,    \* of "authority" and "body", what is not current
    sessions, lapses

durable == <<profile, handles, torn, intents, results>>
native == <<child, loaded, thread, minted>>
vars == <<durable, session, native, lapsed, sessions, lapses>>

NoTurn == 0
NoCommand == [step |-> "none", command |-> "none", request |-> "none", turn |-> NoTurn]

Handle(state, turn) == [state |-> state, turn |-> turn]
Tip == handles[Len(handles)]
TipIs(states) == handles # <<>> /\ Tip.state \in states

\* A handle is appended whole under the journal's lock.
Recorded(state, turn) == handles' = Append(handles, Handle(state, turn))

\* A journal that ends inside a line is refused by every later load, a
\* profile without its manifest by everything.
ProfileHolds == profile = "ready"
Readable == ProfileHolds /\ ~torn

\* _verify_presence, asked anew before every record: the daemon serves the
\* same authority and the host observes the body running.
AuthorityCurrent == "authority" \notin lapsed
BodyRunning == "body" \notin lapsed
Presence == AuthorityCurrent /\ BodyRunning

At(step) == session.step = step
Goto(step) == session' = [session EXCEPT !.step = step]

---------------------------------------------------------------------------
(* Opening and closing a session *)

Commands == {"start-turn", "turn", "recover-resume-turn", "recover-turn",
             "start-park", "resume-park", "recover-resume-park", "recover-park"}
Turns(command) == command \in {"start-turn", "turn", "recover-resume-turn"}
First(command) ==
    CASE command \in {"start-turn", "start-park"} -> "start"
      [] command \in {"turn", "resume-park"} -> "resume"
      [] command \in {"recover-resume-turn", "recover-resume-park"} -> "recover-resume"
      [] OTHER -> command

\* The native child takes the lock of the profile and keeps it.
ProfileFree == child = "down"

\* open_owner_native_session: presence, then the profile, its lock, the child.
Open(command, r) ==
    /\ At("none") /\ sessions < MaxSessions
    /\ Presence
    /\ ProfileFree
    /\ \/ /\ profile = "absent" /\ command \in {"start-turn", "start-park"}
          /\ profile' = "ready"
       \/ Readable /\ UNCHANGED profile
    /\ command = "recover-turn" => r \in DOMAIN intents
    /\ child' = "up" /\ loaded' = FALSE
    /\ session' = [step |-> First(command), command |-> command, request |-> r, turn |-> NoTurn]
    /\ sessions' = sessions + 1
    /\ UNCHANGED <<handles, torn, intents, results, thread, minted, lapsed, lapses>>

\* create_profile cut short: an existing directory is never completed.
OpenCutShort ==
    /\ At("none") /\ sessions < MaxSessions /\ Presence
    /\ profile = "absent"
    /\ profile' = "partial"
    /\ sessions' = sessions + 1
    /\ UNCHANGED <<handles, torn, intents, results, session, native, lapsed, lapses>>

\* What becomes of the running turn when its process goes.
Running == thread # <<>> /\ thread[Len(thread)].status = "running"
Ended ==
    IF ~Running THEN {thread}
    ELSE {[thread EXCEPT ![Len(thread)].status = s] : s \in {"completed", "interrupted"}}
         \cup {SubSeq(thread, 1, Len(thread) - 1)}

ChildGone == child' = "down" /\ loaded' = FALSE /\ thread' \in Ended /\ UNCHANGED minted

\* Any refusal, timeout or error: the session closes its child and reports it.
\* Nothing is sent again.
Fail ==
    /\ ~At("none")
    /\ session' = NoCommand
    /\ IF child = "up" THEN ChildGone ELSE UNCHANGED native
    /\ UNCHANGED <<durable, lapsed, sessions, lapses>>

\* The command is killed; the child keeps the profile's lock until it ends.
Crash(tears) ==
    /\ ~At("none")
    /\ session' = NoCommand
    /\ torn' = (torn \/ (tears /\ child = "up"))
    /\ UNCHANGED <<profile, handles, intents, results, native, lapsed, sessions, lapses>>

ChildEnds ==
    /\ At("none") /\ child = "up"
    /\ ChildGone
    /\ UNCHANGED <<durable, session, lapsed, sessions, lapses>>

Lapse(what) ==
    /\ what \notin lapsed /\ lapses < MaxLapses
    /\ lapsed' = lapsed \cup {what} /\ lapses' = lapses + 1
    /\ UNCHANGED <<durable, session, native, sessions>>

Restore ==
    /\ lapsed # {} /\ lapsed' = {}
    /\ UNCHANGED <<durable, session, native, sessions, lapses>>

---------------------------------------------------------------------------
(* start, resume, recover_resume *)

After(command) == IF Turns(command) THEN "intend" ELSE "park"

StartRecord ==
    /\ At("start") /\ handles = <<>> /\ Presence
    /\ Recorded("starting", NoTurn)
    /\ Goto("started")
    /\ UNCHANGED <<profile, torn, intents, results, native, lapsed, sessions, lapses>>

ThreadStart ==
    /\ At("started")
    /\ loaded' = TRUE
    /\ Goto("activate")
    /\ UNCHANGED <<durable, child, thread, minted, lapsed, sessions, lapses>>

ResumeRecord ==
    /\ \/ At("resume") /\ TipIs({"active"})
       \/ At("recover-resume") /\ TipIs({"resuming"})
    /\ Presence
    /\ Recorded("resuming", Tip.turn)
    /\ Goto("resumed")
    /\ UNCHANGED <<profile, torn, intents, results, native, lapsed, sessions, lapses>>

ThreadResume ==
    /\ At("resumed")
    /\ loaded' = TRUE
    /\ Goto("activate")
    /\ UNCHANGED <<durable, child, thread, minted, lapsed, sessions, lapses>>

Activate ==
    /\ At("activate") /\ Presence
    /\ Recorded("active", Tip.turn)
    /\ Goto(After(session.command))
    /\ UNCHANGED <<profile, torn, intents, results, native, lapsed, sessions, lapses>>

---------------------------------------------------------------------------
(* run_turn *)

HasResult(r, kind) == \E x \in results : x.request = r /\ x.kind = kind

\* prepare_turn_intent: one file for one request, never replaced.
Reserved(r) == r \in DOMAIN intents

Intend ==
    /\ At("intend") /\ TipIs({"active"}) /\ Presence
    /\ ~HasResult(session.request, "observed")
    /\ ~Reserved(session.request)
    /\ intents' = [r \in DOMAIN intents \cup {session.request} |->
                      IF r = session.request THEN Len(handles) ELSE intents[r]]
    /\ Goto("pend")
    /\ UNCHANGED <<profile, handles, torn, results, native, lapsed, sessions, lapses>>

RecordPending ==
    /\ At("pend")
    /\ Recorded("turning", NoTurn)
    /\ Goto("send")
    /\ UNCHANGED <<profile, torn, intents, results, native, lapsed, sessions, lapses>>

\* The App Server opens a turn for an input.
Started(input, status) ==
    /\ minted' = minted + 1
    /\ thread' = Append(thread, [id |-> minted + 1, by |-> input, status |-> status])

\* turn/start: the model has the input whether or not the reply arrives.
Send ==
    /\ At("send") /\ Presence /\ loaded /\ ~Running
    /\ Started(session.request, "running")
    /\ session' = [session EXCEPT !.step = "known", !.turn = minted']
    /\ UNCHANGED <<durable, child, loaded, lapsed, sessions, lapses>>

RecordTurn ==
    /\ At("known") /\ Presence
    /\ Recorded("turning", session.turn)
    /\ Goto("await")
    /\ UNCHANGED <<profile, torn, intents, results, native, lapsed, sessions, lapses>>

TurnEnds(status) ==
    /\ child = "up" /\ Running
    /\ thread' = [thread EXCEPT ![Len(thread)].status = status]
    /\ UNCHANGED <<durable, session, child, loaded, minted, lapsed, sessions, lapses>>

Retain(kind, turn) ==
    results' = results \cup {[request |-> session.request, kind |-> kind, turn |-> turn]}

\* save_native_turn_result, before the pending handle is cleared.
SaveResult ==
    /\ At("await") /\ Presence
    /\ \E i \in DOMAIN thread : thread[i].id = session.turn /\ thread[i].status # "running"
    /\ ~HasResult(session.request, "observed")
    /\ TipIs({"turning"}) /\ Tip.turn = session.turn
    /\ Retain("observed", session.turn)
    /\ Goto("settle")
    /\ UNCHANGED <<profile, handles, torn, intents, native, lapsed, sessions, lapses>>

Settle ==
    /\ At("settle") /\ Presence
    /\ Recorded("active", session.turn)
    /\ session' = NoCommand
    /\ ChildGone
    /\ UNCHANGED <<profile, torn, intents, results, lapsed, sessions, lapses>>

---------------------------------------------------------------------------
(* recover_turn: read the thread, send nothing *)

Anchor(r) == intents[r]

\* Every handle after the one the request was reserved on is pending.
OnlyPendingSince(r) ==
    /\ Anchor(r) < Len(handles)
    /\ \A i \in Anchor(r) + 1 .. Len(handles) : handles[i].state = "turning"

\* The thread's newest turn follows the turn the request was reserved after.
Before == IF Len(thread) = 1 THEN NoTurn ELSE thread[Len(thread) - 1].id
FollowsAnchor(r, latest) ==
    /\ latest.id # handles[Anchor(r)].turn
    /\ IF Tip.turn = NoTurn THEN Before = handles[Anchor(r)].turn ELSE latest.id = Tip.turn

SameInput(r, latest) == InputOf(latest.by) = InputOf(r)

RecoverRead ==
    LET r == session.request
        latest == thread[Len(thread)]
    IN  /\ At("recover-turn") /\ OnlyPendingSince(r) /\ Presence
        /\ thread # <<>> /\ latest.status # "running"
        /\ FollowsAnchor(r, latest)
        /\ SameInput(r, latest)
        /\ IF Tip.turn = NoTurn THEN Recorded("turning", latest.id) ELSE UNCHANGED handles
        /\ session' = [session EXCEPT !.step = "recovered", !.turn = latest.id]
        /\ UNCHANGED <<profile, torn, intents, results, native, lapsed, sessions, lapses>>

\* A recovered result already retained must be this same one.
RecoverSave ==
    /\ At("recovered")
    /\ \A x \in results : x.request = session.request /\ x.kind = "recovered"
                          => x.turn = session.turn
    /\ Retain("recovered", session.turn)
    /\ Goto("settle")
    /\ UNCHANGED <<profile, handles, torn, intents, native, lapsed, sessions, lapses>>

---------------------------------------------------------------------------
(* park, recover_park *)

ParkRecord ==
    /\ \/ At("park") /\ TipIs({"active"})
       \/ At("recover-park") /\ TipIs({"parking"})
    /\ Presence
    /\ Recorded("parking", Tip.turn)
    /\ Goto("stop")
    /\ UNCHANGED <<profile, torn, intents, results, native, lapsed, sessions, lapses>>

\* unsubscribe, close, and an exit status of zero.
Stop ==
    /\ At("stop") /\ child = "up"
    /\ ChildGone
    /\ Goto("parked")
    /\ UNCHANGED <<durable, lapsed, sessions, lapses>>

RecordParked ==
    /\ At("parked") /\ Presence
    /\ Recorded("parked", Tip.turn)
    /\ session' = NoCommand
    /\ UNCHANGED <<profile, torn, intents, results, native, lapsed, sessions, lapses>>

\* Someone resumes the thread outside Matrix while nothing runs in it.
ForeignTurn(f) ==
    /\ ~Running /\ handles # <<>>
    /\ \A i \in DOMAIN thread : thread[i].by # f
    /\ Started(f, "completed")
    /\ UNCHANGED <<durable, session, child, loaded, lapsed, sessions, lapses>>

---------------------------------------------------------------------------
Init ==
    /\ profile = "absent" /\ handles = <<>> /\ torn = FALSE
    /\ intents = <<>> /\ results = {}
    /\ session = NoCommand
    /\ child = "down" /\ loaded = FALSE /\ thread = <<>> /\ minted = NoTurn
    /\ lapsed = {} /\ sessions = 0 /\ lapses = 0

Next ==
    \/ \E command \in Commands, r \in Requests : Open(command, r)
    \/ OpenCutShort \/ Fail \/ \E tears \in BOOLEAN : Crash(tears)
    \/ ChildEnds \/ Restore
    \/ \E what \in {"authority", "body"} : Lapse(what)
    \/ StartRecord \/ ThreadStart \/ ResumeRecord \/ ThreadResume \/ Activate
    \/ Intend \/ RecordPending \/ Send \/ RecordTurn \/ SaveResult \/ Settle
    \/ \E status \in {"completed", "interrupted"} : TurnEnds(status)
    \/ RecoverRead \/ RecoverSave
    \/ ParkRecord \/ Stop \/ RecordParked
    \/ \E f \in Foreign : ForeignTurn(f)

Spec == Init /\ [][Next]_vars

---------------------------------------------------------------------------
(* Properties *)

Pended(r) ==
    /\ r \in DOMAIN intents /\ Len(handles) > Anchor(r)
    /\ handles[Anchor(r) + 1].state = "turning"

Cleared(r) == \E i \in Anchor(r) + 1 .. Len(handles) : handles[i].state # "turning"

By(i) == thread[i].by
ResultAt(x) == {i \in DOMAIN thread : thread[i].id = x.turn}

\* Whatever is killed, times out, is typed into the thread by hand or is recovered:
\* an input reaches the model at most once, and the journal leaves the pending
\* state of a request only with its result. A result is a turn of the thread with
\* the text of its request, all results of one request are one turn, and no turn is
\* the result of two requests. An observed one is the turn the request started; a
\* recovered one is that turn wherever the thread has it. Only where the model never
\* got the input, or lost it, may it be a turn that somebody else started with the
\* same text, which recovery cannot tell from it.
InputsAccountedFor ==
    /\ \A r \in Requests :
          /\ Cardinality({i \in DOMAIN thread : By(i) = r}) <= 1
          /\ Pended(r) /\ Cleared(r) => \E x \in results : x.request = r
    /\ \A x \in results :
          \E i \in ResultAt(x) :
             /\ SameInput(x.request, thread[i])
             /\ By(i) # x.request => /\ x.kind = "recovered" /\ By(i) \in Foreign
                                    /\ \A j \in DOMAIN thread : By(j) # x.request
    /\ \A x, y \in results : x.request = y.request <=> x.turn = y.turn
=============================================================================
