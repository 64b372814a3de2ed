------------------------------- MODULE Broker -------------------------------
(***************************************************************************)
(* The durable broker of peer-provider/src/main.rs: one log per topic, one *)
(* cursor per consumer, and the file broker.json that both are saved to    *)
(* after every change.                                                     *)
(*                                                                         *)
(* The process handles one request at a time from stdin (task Main) and    *)
(* runs one receiver task per joined topic, on two threads.  The lock of   *)
(* the broker makes a change, and the taking of a snapshot, one step; the  *)
(* file is written after the lock was given back.  Writing first empties   *)
(* the file: who loads it then, or after two writers at once left a mixed  *)
(* text, finds nothing it can parse and starts with an empty broker.       *)
(***************************************************************************)
EXTENDS Integers, FiniteSets, SequencesExt

CONSTANTS Topics, Consumers, Senders,
          SkipOf,          \* SkipOf[c]: the sender c asks not to hear, or Nobody
          Tickets,         \* bootstrap tickets a join may carry
          Limit,           \* entries one gossip_recv takes
          KilledAnywhere,  \* may the process die at any point, or only between requests?
          MaxAppends,      \* bound: messages sent and received
          MaxRestarts,     \* bound: restarts of the provider
          Main, Nobody, None

\* A request Main handles, with the messages its answer is about.
Requests ==
    [op : {"send", "join", "recv"}, t : Topics, ids : SUBSET Nat, c : Consumers \cup {None}]

ASSUME BrokerConstants ==
    /\ Limit \in Nat \ {0}
    /\ MaxAppends \in Nat /\ MaxRestarts \in Nat
    /\ SkipOf \in [Consumers -> Senders \cup {Nobody}]
    /\ Main \notin Topics /\ Nobody \notin Senders
    /\ \A tickets \in SUBSET Tickets : None # tickets
    /\ None \notin Requests

Tasks == Topics \cup {Main}

VARIABLES broker,    \* what the lock guards: logs, cursors, next_seq, subscriptions
          file,      \* broker.json: a broker, or Absent, Emptied or Mixed
          joined,    \* topics with a gossip sender (net.senders)
          listening, \* topics whose receiver task runs
          online,    \* did start_net succeed?
          boot,      \* subscriptions still to be re-joined by main
          request,   \* the request Main handles, or None
          save,      \* save[x]: where task x is in save_broker
          restarts,
          \* Bookkeeping:
          appends,   \* messages appended so far; names them
          seen,      \* seen[t][c]: messages c was handed
          acked,     \* messages whose gossip_send was answered
          done,      \* <<t, c, m>>: answered deliveries
          members,   \* topics whose gossip_join was answered
          cutOff,    \* deliveries in an answer the process died with
          clean      \* no two saves overlapped, and no save was cut off

vars == <<broker, file, joined, listening, online, boot, request, save, restarts,
          appends, seen, acked, done, members, cutOff, clean>>
books == <<appends, seen, acked, done, members, cutOff>>

Default ==
    [log |-> [t \in Topics |-> <<>>], cursors |-> [t \in Topics |-> [c \in Consumers |-> 0]],
     next_seq |-> 0, subs |-> [t \in Topics |-> None]]

Absent == <<"absent">>
Emptied == <<"emptied">>
Mixed == <<"mixed">>

Idle == [at |-> "idle", snap |-> None]
MainIdle == save[Main] = Idle /\ request = None /\ boot = {}

Init ==
    /\ broker = Default /\ file = Absent
    /\ joined = {} /\ listening = {} /\ boot = {}
    /\ online \in BOOLEAN
    /\ request = None
    /\ save = [x \in Tasks |-> Idle]
    /\ restarts = 0 /\ appends = 0
    /\ seen = [t \in Topics |-> [c \in Consumers |-> {}]]
    /\ acked = {} /\ done = {} /\ members = {} /\ cutOff = {}
    /\ clean = TRUE

-----------------------------------------------------------------------------
(* Broker: append and drain.                                               *)

\* Broker::append: the entry gets the next number of all topics ...
Logged(b, t, from, id) ==
    [b EXCEPT !.log[t] = Append(@, [seq |-> b.next_seq, from |-> from, id |-> id])]

\* Mutant of Appended: next_seq is not advanced.
AppendedSameSeq(b, t, from, id) == Logged(b, t, from, id)

\* ... and the number is used up.
Appended(b, t, from, id) == [Logged(b, t, from, id) EXCEPT !.next_seq = @ + 1]

\* The positions from c's cursor up to j whose entries c is handed.
Taken(b, t, c, j) ==
    {k \in b.cursors[t][c] + 1 .. j : b.log[t][k].from # SkipOf[c]}

\* Where drain's loop stops: at the end of the log, or right after the entry
\* that fills the answer.
StopsAt(b, t, c) ==
    LET fits == {j \in b.cursors[t][c] .. Len(b.log[t]) :
                    \A k \in b.cursors[t][c] .. j - 1 : Cardinality(Taken(b, t, c, k)) < Limit}
    IN  CHOOSE j \in fits : \A k \in fits : k <= j

\* Mutant of Drained: the loop takes one step more before it sees it is full.
DrainedPast(b, t, c) ==
    LET j == StopsAt(b, t, c)
    IN  [idx |-> IF j < Len(b.log[t]) THEN j + 1 ELSE j,
         ids |-> {b.log[t][k].id : k \in Taken(b, t, c, j)}]

\* The new cursor, and what the consumer is handed.
Drained(b, t, c) ==
    LET j == StopsAt(b, t, c)
    IN  [idx |-> j, ids |-> {b.log[t][k].id : k \in Taken(b, t, c, j)}]

-----------------------------------------------------------------------------
(* save_broker, by any task.                                               *)

Saves(x) == save' = [save EXCEPT ![x] = [at |-> "lock", snap |-> None]]

\* Mutant of TakeSnapshot: next_seq is left out of the snapshot.
TakeSnapshotWithoutSeq(x) ==
    /\ save[x].at = "lock"
    /\ save' = [save EXCEPT ![x] = [at |-> "open", snap |-> [broker EXCEPT !.next_seq = 0]]]
    /\ clean' = (clean /\ \A y \in Tasks \ {x} : save[y] = Idle)
    /\ UNCHANGED <<broker, file, joined, listening, online, boot, request, restarts, books>>

\* The broker is serialised under the lock ...
TakeSnapshot(x) ==
    /\ save[x].at = "lock"
    /\ save' = [save EXCEPT ![x] = [at |-> "open", snap |-> broker]]
    /\ clean' = (clean /\ \A y \in Tasks \ {x} : save[y] = Idle)
    /\ UNCHANGED <<broker, file, joined, listening, online, boot, request, restarts, books>>

\* ... and written without it: fs::write empties the file, then fills it.
OpenFile(x) ==
    /\ save[x].at = "open"
    /\ save' = [save EXCEPT ![x].at = "write"]
    /\ file' = Emptied
    /\ UNCHANGED <<broker, joined, listening, online, boot, request, restarts, books, clean>>

\* A text over a longer one that another writer put there leaves its tail.
\* After the save of ensure_topic the receiver task is spawned.
WriteFile(x) ==
    /\ save[x].at = "write"
    /\ save' = [save EXCEPT ![x] = Idle]
    /\ \/ file' = save[x].snap
       \/ file \notin {Emptied, Absent} /\ file' = Mixed
    /\ listening' = IF x = Main THEN joined ELSE listening
    /\ UNCHANGED <<broker, joined, online, boot, request, restarts, books, clean>>

-----------------------------------------------------------------------------
(* Requests, on Main.                                                      *)

\* ensure_topic for a topic not joined yet: subscribe, note the subscription
\* with this call's tickets, save.
Subscribe(t, tickets) ==
    /\ joined' = joined \cup {t}
    /\ broker' = [broker EXCEPT !.subs[t] = tickets]
    /\ Saves(Main)

\* gossip_join.  On a topic joined already it only adds peers.
GossipJoin(t, tickets) ==
    /\ MainIdle /\ online /\ t \notin joined
    /\ Subscribe(t, tickets)
    /\ request' = [op |-> "join", t |-> t, ids |-> {}, c |-> None]
    /\ UNCHANGED <<file, listening, online, boot, restarts, books, clean>>

\* gossip_send: append, save, then ensure_topic and broadcast.
GossipSend(t, from) ==
    /\ MainIdle /\ appends < MaxAppends
    /\ appends' = appends + 1
    /\ broker' = Appended(broker, t, from, appends + 1)
    /\ Saves(Main)
    /\ request' = [op |-> "send", t |-> t, ids |-> {appends + 1}, c |-> None]
    /\ UNCHANGED <<file, joined, listening, online, boot, restarts, seen, acked, done,
                   members, cutOff, clean>>

\* A send joins its topic, without tickets, if nobody did.
SendJoins ==
    /\ request # None /\ request.op = "send" /\ save[Main] = Idle
    /\ online /\ request.t \notin joined
    /\ Subscribe(request.t, {})
    /\ UNCHANGED <<file, listening, online, boot, request, restarts, books, clean>>

\* Mutant of SavesCursor: only what is sent is saved.
SavesCursorLater(ids) == UNCHANGED save

\* A gossip_recv that found something saves the cursor it moved.
SavesCursor(ids) == IF ids = {} THEN UNCHANGED save ELSE Saves(Main)

\* gossip_recv.
GossipRecv(t, c) ==
    /\ MainIdle
    /\ broker.cursors[t][c] < Len(broker.log[t])
    /\ LET r == Drained(broker, t, c)
       IN  /\ broker' = [broker EXCEPT !.cursors[t][c] = r.idx]
           /\ SavesCursor(r.ids)
           /\ request' = IF r.ids = {} THEN None
                         ELSE [op |-> "recv", t |-> t, ids |-> r.ids, c |-> c]
    /\ UNCHANGED <<file, joined, listening, online, boot, restarts, books, clean>>

\* The answer goes out once the save is through; a send whose ensure_topic
\* could not subscribe is answered all the same.
Answer ==
    /\ request # None /\ save[Main] = Idle
    /\ request' = None
    /\ CASE request.op = "send" ->
              acked' = acked \cup {<<request.t, m>> : m \in request.ids} /\ UNCHANGED <<seen, done>>
         [] request.op = "recv" ->
              /\ seen' = [seen EXCEPT ![request.t][request.c] = @ \cup request.ids]
              /\ done' = done \cup {<<request.t, request.c, m>> : m \in request.ids}
              /\ UNCHANGED acked
         [] request.op = "join" -> UNCHANGED <<acked, seen, done>>
    /\ members' = members \cup (joined \cap {request.t})
    /\ UNCHANGED <<broker, file, joined, listening, online, boot, save, restarts, appends, cutOff, clean>>

-----------------------------------------------------------------------------
(* Receiver tasks and restarts.                                            *)

\* A gossip message reaches the receiver task of its topic.
Received(t, from) ==
    /\ t \in listening /\ save[t] = Idle /\ appends < MaxAppends
    /\ appends' = appends + 1
    /\ broker' = Appended(broker, t, from, appends + 1)
    /\ Saves(t)
    /\ UNCHANGED <<file, joined, listening, online, boot, request, restarts, seen, acked,
                   done, members, cutOff, clean>>

\* load_broker: what does not parse is an empty broker.
Loaded == IF file \in {Absent, Emptied, Mixed} THEN Default ELSE file

\* The process ends and a new one loads the file.  Closing stdin ends it only
\* between two requests, and a file being written is written to its end.
Restart ==
    /\ restarts < MaxRestarts
    /\ KilledAnywhere \/ (MainIdle /\ \A x \in Tasks : save[x].at # "write")
    /\ restarts' = restarts + 1
    /\ broker' = Loaded
    /\ joined' = {} /\ listening' = {}
    /\ online' \in BOOLEAN
    /\ boot' = IF online' THEN {t \in Topics : Loaded.subs[t] # None} ELSE {}
    /\ request' = None
    /\ save' = [x \in Tasks |-> Idle]
    /\ cutOff' = IF request # None /\ request.op = "recv"
                 THEN cutOff \cup {<<request.t, request.c, m>> : m \in request.ids} ELSE cutOff
    /\ clean' = (clean /\ \A x \in Tasks : save[x].at # "write")
    /\ UNCHANGED <<file, appends, seen, acked, done, members>>

\* main re-joins the persisted subscriptions before it reads any request.
Rejoin(t) ==
    /\ t \in boot /\ boot \cap joined = {} /\ save[Main] = Idle
    /\ Subscribe(t, broker.subs[t])
    /\ UNCHANGED <<file, listening, online, boot, request, restarts, books, clean>>

\* main goes on to the next one, also when the subscription failed.
Rejoined(t) ==
    /\ t \in boot /\ boot \cap joined \subseteq {t} /\ save[Main] = Idle
    /\ boot' = boot \ {t}
    /\ UNCHANGED <<broker, file, joined, listening, online, request, save, restarts, books, clean>>

Next ==
    \/ \E x \in Tasks : TakeSnapshot(x) \/ OpenFile(x) \/ WriteFile(x)
    \/ \E t \in Topics, tickets \in SUBSET Tickets : GossipJoin(t, tickets)
    \/ \E t \in Topics, from \in Senders : GossipSend(t, from) \/ Received(t, from)
    \/ \E t \in Topics, c \in Consumers : GossipRecv(t, c)
    \/ SendJoins \/ Answer \/ Restart
    \/ \E t \in Topics : Rejoin(t) \/ Rejoined(t)

Spec == Init /\ [][Next]_vars

-----------------------------------------------------------------------------
(* Properties.                                                             *)

WellFormed(b) ==
    /\ b.next_seq \in 0..MaxAppends
    /\ \A t \in Topics :
         /\ \A k \in 1..Len(b.log[t]) :
              /\ b.log[t][k].seq \in 0..b.next_seq - 1
              /\ b.log[t][k].from \in Senders /\ b.log[t][k].id \in 1..MaxAppends
         /\ \A c \in Consumers : b.cursors[t][c] \in 0..Len(b.log[t])
         /\ b.subs[t] \in (SUBSET Tickets) \cup {None}

\* The broker, every snapshot on its way to the file and the file itself, when
\* it parses, are well formed: no cursor points past its log, no entry carries
\* a number that is still to be given.
TypeOK ==
    /\ WellFormed(broker)
    /\ file \in {Absent, Emptied, Mixed} \/ WellFormed(file)
    /\ \A x \in Tasks : save[x].at \in {"open", "write"} => WellFormed(save[x].snap)
    /\ listening \subseteq joined /\ joined \subseteq Topics /\ boot \subseteq Topics
    /\ restarts \in 0..MaxRestarts /\ appends \in 0..MaxAppends

\* No two entries of the broker have one sequence number, also when the file
\* a new process loaded was an old one.
SeqsDiffer ==
    \A t, u \in Topics : \A j \in 1..Len(broker.log[t]), k \in 1..Len(broker.log[u]) :
        broker.log[t][j].seq = broker.log[u][k].seq => t = u /\ j = k

\* A consumer's cursor never passes an entry it was not handed, in this process
\* or an earlier one, except one in an answer a process died with.
NoGap ==
    \A t \in Topics, c \in Consumers : \A k \in 1..broker.cursors[t][c] :
        LET e == broker.log[t][k]
        IN  \/ e.from = SkipOf[c]
            \/ e.id \in seen[t][c]
            \/ <<t, c, e.id>> \in cutOff
            \/ request # None /\ request.op = "recv" /\ request.t = t /\ request.c = c
                 /\ e.id \in request.ids

Kept == \A a \in acked : \E k \in 1..Len(broker.log[a[1]]) : broker.log[a[1]][k].id = a[2]

\* As long as no two saves overlapped and none was cut off, what was answered
\* survives any restart: a message sent stays in the log, one handed over is
\* not handed over again, a topic joined is joined again.
Durable ==
    clean =>
        /\ Kept
        /\ \A d \in done : \E k \in 1..broker.cursors[d[1]][d[2]] : broker.log[d[1]][k].id = d[3]
        /\ \A t \in members : broker.subs[t] # None

\* The header's promise without that condition: a restart between requests
\* drops no message whose gossip_send was answered.
AckedSurvives == Kept
=============================================================================
