----------------------------- MODULE HumanTribu -----------------------------
(***************************************************************************)
(* The passive consumer of human mentions in a Telegram group and the      *)
(* replies published from it (human_tribu.py, human_tribu_process.py), for *)
(* one being and its paired human.                                         *)
(*                                                                         *)
(* The consumer takes the updates of the platform in order and retains, in *)
(* one transaction with the polling offset, every revision of a message    *)
(* that addresses the being.  A reply to a post the store does not know    *)
(* waits until the post is registered and is then taken in again, possibly *)
(* after younger edits.  Threads of the owner's API publish an answer page *)
(* by page: each page is claimed in a transaction, sent without a lock,    *)
(* and recorded; timeouts, crashes and concurrent retries happen between.  *)
(***************************************************************************)
EXTENDS Naturals, FiniteSets, Sequences

CONSTANTS
    Updates,      \* the updates the platform will deliver, in order
    Posts,        \* posts of the being that can be registered
    Operations,   \* reply operations
    Threads,      \* threads of the owner's API
    Pages,        \* pages of an answer
    Attention,    \* whether the host selects this being for attention
    Capacity,     \* candidates that may wait at a time
    MaxChanges, MaxTroubles    \* bounds

None == [kind |-> "none"]
Ids == 1 .. Len(Updates)
Messages == {Updates[i].message : i \in Ids}

VARIABLES
    origin,      \* the enrolled origin of the being
    default,     \* routing_state: revision and the selected default route
    offset,      \* meta.offset, the last update taken
    pending,     \* replies to unknown posts: update to resolved flag
    latest,      \* messages: the revision that counts, or None
    revisions,   \* retained revisions, in the order they were taken in
    posts,       \* post_routes: the route of each registered post
    replaying,   \* updates register_post has still to take in again
    candidates,  \* attention_candidates
    replies,     \* the publication journal
    thread,      \* API threads inside reply
    dispatched,  \* for each time a page went to the platform, whether the mention it
                 \* answers was still unedited
    transport,   \* the admission thread: "runs" or "dead"
    changes, troubles

vars == <<origin, default, offset, pending, latest, revisions, posts, replaying,
          candidates, replies, thread, dispatched, transport, changes, troubles>>

Idle == [stage |-> "idle"]

Init ==
    /\ origin = 1
    /\ default = [revision |-> 0, route |-> None]
    /\ offset = 0
    /\ pending = [i \in {} |-> FALSE]
    /\ latest = [m \in Messages |-> None]
    /\ revisions = [m \in Messages |-> {}]
    /\ posts = [p \in Posts |-> None]
    /\ replaying = <<>>
    /\ candidates = [m \in Messages |-> "none"]
    /\ replies = [o \in Operations |-> None]
    /\ thread = [t \in Threads |-> Idle]
    /\ dispatched = [o \in Operations |-> [k \in 1 .. Pages |-> <<>>]]
    /\ transport = "runs"
    /\ changes = 0 /\ troubles = 0

Trouble == troubles < MaxTroubles /\ troubles' = troubles + 1

-----------------------------------------------------------------------------
(* Addresses and routes *)

Route(selector) == [kind |-> "route", selector |-> selector, origin |-> origin]

Current(route) == route.origin = origin

\* What a message selects: the full label names this body, the bare name only
\* through a chosen default, and a reply the body that wrote the post.
Selected(u) ==
    LET full == {Route(s) : s \in u.selectors \cap {"@full", "full"}}
        bare == IF "@bare" \in u.selectors /\ default.route # None
                THEN {[default.route EXCEPT !.selector = "@bare"]} ELSE {}
        reply == IF u.parent \in Posts /\ posts[u.parent] # None
                 THEN {[posts[u.parent] EXCEPT !.selector = "reply"]} ELSE {}
    IN  full \cup bare \cup reply

\* An edit that keeps a selector keeps the route the message was taken in with.
Pinned(u, old) ==
    LET kept == {r \in old.routes : r.selector \in u.selectors}
    IN  kept \cup {r \in Selected(u) : \A k \in kept : k.selector # r.selector}

Explicit(r) == r.selector \in {"@full", "@bare"}

\* The attention test asks every current route for its literal address, and the
\* route of a reply has none.  Routes written in the text come before it when
\* the message is new, and kept ones after it when the message was edited.
LiteralMissing(routes, kept) ==
    /\ \E r \in routes : Current(r) /\ r.selector = "reply"
    /\ \A r \in routes : Current(r) /\ Explicit(r) => kept

Eligible(record) ==
    IF record.routes # {} THEN \E r \in record.routes : Current(r)
    ELSE record.parent \in Posts /\ posts[record.parent] # None
           /\ Current(posts[record.parent])

-----------------------------------------------------------------------------
(* ingest *)

Waiting == Cardinality({m \in Messages : candidates[m] = "pending"})

\* (stamp, update) orders the revisions of a message.
Newer(u, i, old) ==
    u.stamp > old.stamp \/ (u.stamp = old.stamp /\ i > old.update)

\* The retained record of update i.
Record(i) ==
    LET u == Updates[i]
        old == latest[u.message]
    IN  [kind |-> "record", update |-> i, stamp |-> u.stamp, parent |-> u.parent,
         routes |-> IF old = None THEN Selected(u) ELSE Pinned(u, old),
         edited |-> old # None]

\* Whether the message is retained at all, and whether it is a candidate.
Retains(i) ==
    \/ latest[Updates[i].message] # None
    \/ \E r \in Record(i).routes : Current(r)

AsksAttention(i) ==
    /\ Attention
    /\ latest[Updates[i].message] = None
    /\ ~Updates[i].edit
    /\ \E r \in Record(i).routes : Current(r)

\* None.startswith: the transaction is rolled back and nothing is taken.
Raises(i) == AsksAttention(i) /\ LiteralMissing(Record(i).routes, FALSE)

Taken(i) ==
    LET u == Updates[i]
        record == Record(i)
        old == latest[u.message]
    IN  IF ~Retains(i) THEN UNCHANGED <<latest, revisions, candidates>>
        ELSE /\ revisions' = [revisions EXCEPT ![u.message] =
                  IF \E r \in @ : r.update = i THEN @ ELSE @ \cup {record}]
             /\ latest' = [latest EXCEPT ![u.message] =
                  IF old = None \/ Newer(u, i, old) THEN record ELSE @]
             /\ candidates' =
                  IF AsksAttention(i) /\ \E r \in record.routes :
                                            Current(r) /\ Explicit(r)
                  THEN [candidates EXCEPT ![u.message] =
                         IF Waiting < Capacity THEN "pending" ELSE "overflow"]
                  ELSE candidates

UnknownParent(u) == u.parent \in Posts /\ posts[u.parent] = None

\* The consumer polls from the offset.
NextUpdate == offset + 1

\* A reply to an unknown post is retained beside whatever else the message
\* addresses; the offset moves in the same transaction.
Ingest ==
    LET i == NextUpdate
        u == Updates[i]
    IN  /\ i \in Ids
        /\ ~Raises(i)
        /\ Taken(i)
        /\ pending' = IF UnknownParent(u)
                      THEN [j \in DOMAIN pending \cup {i} |->
                             IF j = i THEN FALSE ELSE pending[j]]
                      ELSE pending
        /\ offset' = i
        /\ UNCHANGED <<origin, default, posts, replaying, replies, thread,
                       dispatched, transport, changes, troubles>>

\* register_post commits the post, reads what waits for it, and takes those
\* updates in again one by one.
RegisterPost(p) ==
    /\ replaying = <<>>
    /\ posts[p] = None \/ \E i \in DOMAIN pending :
                              ~pending[i] /\ Updates[i].parent = p
    /\ posts' = [posts EXCEPT ![p] =
                   IF @ = None THEN Route("reply") ELSE @]
    /\ LET waiting == {i \in DOMAIN pending : ~pending[i] /\ Updates[i].parent = p}
       IN  replaying' = [k \in 1 .. Cardinality(waiting) |->
             CHOOSE i \in waiting : Cardinality({j \in waiting : j <= i}) = k]
    /\ UNCHANGED <<origin, default, offset, pending, latest, revisions,
                   candidates, replies, thread, dispatched, transport, changes,
                   troubles>>

IngestAgain ==
    /\ replaying # <<>>
    /\ LET i == Head(replaying)
       IN  IF Raises(i)
           THEN replaying' = <<>> /\ UNCHANGED <<pending, latest, revisions, candidates>>
           ELSE /\ Taken(i)
                /\ pending' = [pending EXCEPT ![i] = TRUE]
                /\ replaying' = Tail(replaying)
    /\ UNCHANGED <<origin, default, offset, posts, replies, thread, dispatched,
                   transport, changes, troubles>>

-----------------------------------------------------------------------------
(* Defaults, attention *)

\* select_default: one revision at a time.
SelectDefault(clear) ==
    /\ changes < MaxChanges /\ changes' = changes + 1
    /\ default' = [revision |-> default.revision + 1,
                   route |-> IF clear THEN None ELSE Route("@bare")]
    /\ UNCHANGED <<origin, offset, pending, latest, revisions, posts, replaying,
                   candidates, replies, thread, dispatched, transport, troubles>>

Actionable(record) ==
    Eligible(record) /\ \E r \in record.routes : Current(r) /\ Explicit(r)

\* The admission thread: a candidate whose newest revision is not actionable is
\* withdrawn; an admitted one is acknowledged, or tried again.
Admit(m) ==
    LET record == latest[m]
    IN  /\ transport = "runs" /\ candidates[m] = "pending"
        /\ IF LiteralMissing(record.routes, record.edited)
           THEN transport' = "dead" /\ UNCHANGED candidates
           ELSE /\ candidates' = [candidates EXCEPT ![m] =
                     IF Actionable(record) THEN "acknowledged" ELSE "withdrawn"]
                /\ UNCHANGED transport
        /\ UNCHANGED <<origin, default, offset, pending, latest, revisions, posts,
                       replaying, replies, thread, dispatched, changes, troubles>>

-----------------------------------------------------------------------------
(* reply *)

\* The source must be the newest revision of its message, and still addressed
\* to this body.
SourceHolds(m, update) ==
    /\ latest[m] # None
    /\ latest[m].update = update
    /\ Eligible(latest[m])

Prepare(t, o, m) ==
    /\ thread[t] = Idle
    /\ latest[m] # None
    /\ LET update == IF replies[o] = None THEN latest[m].update ELSE replies[o].update
       IN  /\ replies[o] # None => replies[o].message = m
           /\ SourceHolds(m, update)
           /\ replies' = IF replies[o] # None THEN replies ELSE
                [replies EXCEPT ![o] =
                   [kind |-> "reply", message |-> m, update |-> update,
                    state |-> "prepared", confirmed |-> 0]]
    /\ thread' = [thread EXCEPT ![t] = [stage |-> "claim", reply |-> o]]
    /\ UNCHANGED <<origin, default, offset, pending, latest, revisions, posts,
                   replaying, candidates, dispatched, transport, changes, troubles>>

MayClaim(reply) == reply.state = "prepared"

\* One atomic claim per page; a page that is being sent, or may have been sent,
\* is never claimed again.
ClaimPage(t) ==
    LET o == thread[t].reply
        reply == replies[o]
    IN  /\ thread[t].stage = "claim"
        /\ IF MayClaim(reply) /\ SourceHolds(reply.message, reply.update)
           THEN /\ replies' = [replies EXCEPT ![o].state = "sending"]
                /\ thread' = [thread EXCEPT ![t] =
                     [stage |-> "send", reply |-> o, page |-> reply.confirmed + 1]]
           ELSE thread' = [thread EXCEPT ![t] = Idle] /\ UNCHANGED replies
        /\ UNCHANGED <<origin, default, offset, pending, latest, revisions, posts,
                       replaying, candidates, dispatched, transport, changes, troubles>>

\* The exchange with the platform, outside every lock: an edit taken in since the
\* claim does not stop it.
Dispatch(t, outcome) ==
    LET o == thread[t].reply
        unedited == latest[replies[o].message].update = replies[o].update
    IN  /\ thread[t].stage = "send"
        /\ dispatched' = [dispatched EXCEPT ![o][thread[t].page] = Append(@, unedited)]
        /\ IF outcome = "confirmed" THEN UNCHANGED troubles ELSE Trouble
        /\ thread' = [thread EXCEPT ![t] = [stage |-> "record", reply |-> o,
                        page |-> thread[t].page, outcome |-> outcome]]
        /\ UNCHANGED <<origin, default, offset, pending, latest, revisions, posts,
                       replaying, candidates, replies, transport, changes>>

RecordPage(t) ==
    LET o == thread[t].reply
        done == thread[t].outcome = "confirmed"
        last == thread[t].page = Pages
    IN  /\ thread[t].stage = "record"
        /\ replies' = [replies EXCEPT
             ![o].state = IF ~done THEN "uncertain"
                          ELSE IF last THEN "confirmed" ELSE "prepared",
             ![o].confirmed = IF done THEN thread[t].page ELSE @]
        /\ thread' = [thread EXCEPT ![t] =
             IF done /\ ~last THEN [stage |-> "claim", reply |-> o] ELSE Idle]
        /\ UNCHANGED <<origin, default, offset, pending, latest, revisions, posts,
                       replaying, candidates, dispatched, transport, changes, troubles>>

-----------------------------------------------------------------------------
\* The enrolled origin moves (rebirth, revocation).
Reenroll ==
    /\ changes < MaxChanges /\ changes' = changes + 1
    /\ origin' = origin + 1
    /\ UNCHANGED <<default, offset, pending, latest, revisions, posts, replaying,
                   candidates, replies, thread, dispatched, transport, troubles>>

Restart ==
    /\ Trouble
    /\ replaying' = <<>>
    /\ thread' = [t \in Threads |-> Idle]
    /\ transport' = "runs"
    /\ UNCHANGED <<origin, default, offset, pending, latest, revisions, posts,
                   candidates, replies, dispatched, changes>>

Next ==
    \/ Ingest \/ IngestAgain \/ Reenroll \/ Restart
    \/ \E p \in Posts : RegisterPost(p)
    \/ \E clear \in BOOLEAN : SelectDefault(clear)
    \/ \E m \in Messages : Admit(m)
    \/ \E t \in Threads, o \in Operations, m \in Messages : Prepare(t, o, m)
    \/ \E t \in Threads : ClaimPage(t) \/ RecordPage(t)
    \/ \E t \in Threads, outcome \in {"confirmed", "uncertain"} : Dispatch(t, outcome)

Spec == Init /\ [][Next]_vars

-----------------------------------------------------------------------------
\* Whatever is retried, cut or run at the same time: every page of a reply request
\* goes to the platform at most once and after the page before it was confirmed; a
\* request answers a revision that was retained; and once its mention is edited,
\* only the page that was claimed before still goes out for the old text, and no
\* page after it. Another request may answer the same mention again. The revision
\* that counts is the newest one retained, although replies to unknown posts are
\* taken in after younger edits (human_tribu.py: reply's claim, ingest's (stamp,
\* update) order).
RepliesGoOnceAndStopAtEdits ==
    /\ \A o \in Operations, k \in 1 .. Pages :
          /\ Len(dispatched[o][k]) <= 1
          /\ dispatched[o][k] # <<>> =>
                /\ k <= replies[o].confirmed + 1
                /\ \E r \in revisions[replies[o].message] : r.update = replies[o].update
          /\ dispatched[o][k] = <<FALSE>> =>
                \A j \in k + 1 .. Pages : dispatched[o][j] = <<>>
    /\ \A m \in Messages : \A r \in revisions[m] :
          /\ latest[m] # None
          /\ \/ r.stamp < latest[m].stamp
             \/ r.stamp = latest[m].stamp /\ r.update <= latest[m].update
=============================================================================
