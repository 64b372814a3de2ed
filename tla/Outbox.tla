------------------------------- MODULE Outbox -------------------------------
(***************************************************************************)
(* The retry queue of hey-core/src/api/outbox.rs and the tasks that use    *)
(* it.  The queue is one file, Hey/dm/outbox.json, read and rewritten as a *)
(* whole; every read and every write is an await, where another task of    *)
(* the same app may run.  The poll loop runs flush(); the other tasks run  *)
(* publish_or_enqueue() (a message, a handshake, a welcome), purge_topic() *)
(* (a queue was rotated or a conversation deleted) or clear() (wipe).      *)
(*                                                                         *)
(* The Vec is modelled as a set of items with their order of insertion; of *)
(* next_attempt_ms only whether it has passed is kept.                     *)
(***************************************************************************)
EXTENDS Integers, FiniteSets

CONSTANTS Msgs,          \* the wires, each handed to publish_or_enqueue once
          Topics,
          TopicOf,       \* TopicOf[m]: the topic m is published on
          Remote,        \* topics whose boot list names a peer ticket
          Workers,       \* tasks other than the poll loop
          Poller,        \* the poll loop's task
          MAX_ITEMS, ATTEMPTS_MAX,
          Overlap,       \* may tasks interleave between a read and a write?
          MaxPurges,     \* bound: calls of purge_topic and clear
          MaxMishaps,    \* bound: reloads of the app and failing storage calls
          NoMsg, NoTopic

Tasks == Workers \cup {Poller}

VARIABLES outbox,    \* the file: a set of items
          pc,        \* pc[t]: where task t stands
          msg,       \* msg[t]: the wire it publishes
          topic,     \* topic[t]: the topic it purges
          snap,      \* snap[t]: what it read, less what flush has walked
          keep,      \* the items flush keeps (its `next`)
          changed,   \* flush's `changed`
          peerUp,    \* peerUp[c]: topic c has a gossip neighbour
          purges, crashes, faults,
          \* Bookkeeping:
          started,   \* wires handed to publish_or_enqueue
          queued,    \* wires that were written to the file
          confirmed, \* wires the code took for delivered
          heard,     \* heard[t]: t's last broadcast had a neighbour to go to
          walked,    \* wires the running flush gave up on
          dropped    \* wires dropped on purpose: expired, displaced or purged

tasks == <<pc, msg, topic, snap, keep, changed>>
books == <<started, queued, confirmed, heard, walked, dropped>>
vars  == <<outbox, tasks, peerUp, purges, crashes, faults, books>>

Items == [m : Msgs, retries : 0..ATTEMPTS_MAX - 1, due : BOOLEAN, ord : Nat]
MsgsIn(items) == {i.m : i \in items}

ASSUME OutboxConstants ==
    /\ MAX_ITEMS \in Nat \ {0} /\ ATTEMPTS_MAX \in Nat \ {0}
    /\ TopicOf \in [Msgs -> Topics] /\ Remote \subseteq Topics
    /\ Poller \notin Workers /\ NoMsg \notin Msgs /\ NoTopic \notin Topics
    /\ Overlap \in BOOLEAN /\ IsFiniteSet(Msgs)
    /\ MaxPurges \in Nat /\ MaxMishaps \in Nat

-----------------------------------------------------------------------------
Init ==
    /\ outbox = {}
    /\ pc = [t \in Tasks |-> "idle"]
    /\ msg = [t \in Tasks |-> NoMsg]
    /\ topic = [t \in Tasks |-> NoTopic]
    /\ snap = [t \in Tasks |-> {}]
    /\ keep = {} /\ changed = FALSE
    /\ peerUp \in {up \in [Topics -> BOOLEAN] : \A c \in Topics \ Remote : ~up[c]}
    /\ purges = 0 /\ crashes = 0 /\ faults = 0
    /\ started = {} /\ queued = {} /\ confirmed = {}
    /\ heard = [t \in Tasks |-> FALSE]
    /\ walked = {} /\ dropped = {}

Busy(t) == pc[t] # "idle"

\* The command-line client runs one operation at a time; the app does not.
MayStart(t) == Overlap \/ \A u \in Tasks : ~Busy(u)

Goto(t, where) == pc' = [pc EXCEPT ![t] = where]

\* read_items: a failing read, or a file that does not parse, reads as empty.
ReadItems(t) ==
    \/ snap' = [snap EXCEPT ![t] = outbox] /\ UNCHANGED faults
    \/ /\ crashes + faults < MaxMishaps
       /\ faults' = faults + 1
       /\ snap' = [snap EXCEPT ![t] = {}]

\* write_items: an error of the storage call is ignored.  gone is what the
\* rewrite leaves out on purpose.
WriteItems(items, gone) ==
    \/ /\ outbox' = items
       /\ dropped' = dropped \cup gone
       /\ UNCHANGED faults
    \/ /\ crashes + faults < MaxMishaps
       /\ faults' = faults + 1
       /\ UNCHANGED <<outbox, dropped>>

\* publish_wire errs, is local_only or answers ok; the bare ok of a remote
\* topic also stands for a broadcast that found no neighbour.
Broadcast(t, m, ok) == heard' = [heard EXCEPT ![t] = ok /\ peerUp[TopicOf[m]]]
Answered(t) == heard' = [heard EXCEPT ![t] = FALSE]

-----------------------------------------------------------------------------
(* publish_or_enqueue.                                                     *)

PublishFirst(t, m) ==
    /\ ~Busy(t) /\ MayStart(t)
    /\ m \notin started
    /\ started' = started \cup {m}
    /\ \E ok \in BOOLEAN :
         /\ IF ok /\ TopicOf[m] \notin Remote
            THEN confirmed' = confirmed \cup {m} /\ UNCHANGED <<pc, msg, heard>>
            ELSE /\ Goto(t, IF ok THEN "confirm" ELSE "enqueue")
                 /\ msg' = [msg EXCEPT ![t] = m]
                 /\ Broadcast(t, m, ok)
                 /\ UNCHANGED confirmed
    /\ UNCHANGED <<outbox, topic, snap, keep, changed, peerUp, purges, crashes,
                   faults, queued, walked, dropped>>

\* has_topic_peer decides whether the bare ok counts.
ConfirmFirst(t) ==
    /\ pc[t] = "confirm" /\ t # Poller
    /\ Answered(t)
    /\ IF peerUp[TopicOf[msg[t]]]
       THEN /\ Goto(t, "idle")
            /\ confirmed' = confirmed \cup {msg[t]}
            /\ msg' = [msg EXCEPT ![t] = NoMsg]
       ELSE Goto(t, "enqueue") /\ UNCHANGED <<confirmed, msg>>
    /\ UNCHANGED <<outbox, topic, snap, keep, changed, peerUp, purges, crashes,
                   faults, started, queued, walked, dropped>>

EnqueueReads(t) ==
    /\ pc[t] = "enqueue"
    /\ ReadItems(t)
    /\ Goto(t, "enqueue_write")
    /\ UNCHANGED <<outbox, msg, topic, keep, changed, peerUp, purges, crashes, books>>

IsOldest(i, items) == \A j \in items : i.ord <= j.ord

\* Mutant of MadeRoom: room is made one item too late.
MadeRoomLate(items) ==
    IF Cardinality(items) > MAX_ITEMS
    THEN {i \in items : ~IsOldest(i, items)} ELSE items

\* items.remove(0) when the queue is full.
MadeRoom(items) ==
    IF Cardinality(items) >= MAX_ITEMS
    THEN {i \in items : ~IsOldest(i, items)} ELSE items

\* items.push(..), behind everything that is there: every write of enqueue
\* adds one wire to queued, so its size orders the items.
NewItem(m) == [m |-> m, retries |-> 0, due |-> TRUE, ord |-> Cardinality(queued)]

EnqueueWrites(t) ==
    /\ pc[t] = "enqueue_write"
    /\ LET room == MadeRoom(snap[t])
       IN  WriteItems(room \cup {NewItem(msg[t])}, MsgsIn(snap[t]) \ MsgsIn(room))
    /\ queued' = queued \cup {msg[t]}
    /\ snap' = [snap EXCEPT ![t] = {}]
    /\ msg' = [msg EXCEPT ![t] = NoMsg]
    /\ Goto(t, "idle")
    /\ UNCHANGED <<topic, keep, changed, peerUp, purges, crashes, started,
                   confirmed, heard, walked>>

-----------------------------------------------------------------------------
(* purge_topic and clear.                                                  *)

PurgeReads(t, c) ==
    /\ ~Busy(t) /\ MayStart(t) /\ purges < MaxPurges
    /\ purges' = purges + 1
    /\ topic' = [topic EXCEPT ![t] = c]
    /\ ReadItems(t)
    /\ Goto(t, "purge_write")
    /\ UNCHANGED <<outbox, msg, keep, changed, peerUp, crashes, books>>

\* Mutant of KeptByPurge: items still in backoff survive the purge.
KeptByLazyPurge(items, c) == {i \in items : TopicOf[i.m] # c \/ ~i.due}

KeptByPurge(items, c) == {i \in items : TopicOf[i.m] # c}

PurgeWrites(t) ==
    /\ pc[t] = "purge_write"
    /\ WriteItems(KeptByPurge(snap[t], topic[t]),
                  {m \in MsgsIn(snap[t]) : TopicOf[m] = topic[t]})
    /\ snap' = [snap EXCEPT ![t] = {}]
    /\ topic' = [topic EXCEPT ![t] = NoTopic]
    /\ Goto(t, "idle")
    /\ UNCHANGED <<msg, keep, changed, peerUp, purges, crashes, started,
                   queued, confirmed, heard, walked>>

Clear(t) ==
    /\ ~Busy(t) /\ MayStart(t) /\ purges < MaxPurges
    /\ purges' = purges + 1
    /\ WriteItems({}, MsgsIn(outbox))
    /\ UNCHANGED <<tasks, peerUp, crashes, started, queued, confirmed, heard,
                   walked>>

-----------------------------------------------------------------------------
(* flush, on the poll loop's task.                                         *)

FlushReads ==
    /\ ~Busy(Poller) /\ MayStart(Poller)
    /\ outbox # {}
    /\ ReadItems(Poller)
    /\ keep' = {} /\ changed' = FALSE /\ walked' = {}
    /\ Goto(Poller, "walk")
    /\ UNCHANGED <<outbox, msg, topic, peerUp, purges, crashes, started, queued,
                   confirmed, heard, dropped>>

\* Mutant of FlushSkips: the item is not pushed to the rewritten queue.
FlushSkipsDropping ==
    /\ pc[Poller] = "walk"
    /\ \E i \in snap[Poller] :
         /\ IsOldest(i, snap[Poller]) /\ ~i.due
         /\ snap' = [snap EXCEPT ![Poller] = @ \ {i}]
    /\ UNCHANGED <<outbox, pc, msg, topic, keep, changed, peerUp, purges, crashes,
                   faults, books>>

\* An item whose next_attempt_ms has not passed is kept as it is.
FlushSkips ==
    /\ pc[Poller] = "walk"
    /\ \E i \in snap[Poller] :
         /\ IsOldest(i, snap[Poller]) /\ ~i.due
         /\ keep' = keep \cup {i}
         /\ snap' = [snap EXCEPT ![Poller] = @ \ {i}]
    /\ UNCHANGED <<outbox, pc, msg, topic, changed, peerUp, purges, crashes, faults, books>>

\* Mutants of Rescheduled: one attempt too many; attempts not counted.
RescheduledOnceMore(i) ==
    IF i.retries + 1 > ATTEMPTS_MAX THEN {}
    ELSE {[m |-> i.m, retries |-> i.retries + 1, due |-> FALSE, ord |-> i.ord]}

RescheduledForever(i) == {[i EXCEPT !.due = FALSE]}

\* What a failed retry leaves of an item: one attempt fewer, or nothing.
Rescheduled(i) ==
    IF i.retries + 1 >= ATTEMPTS_MAX THEN {}
    ELSE {[m |-> i.m, retries |-> i.retries + 1, due |-> FALSE, ord |-> i.ord]}

RetryLater(i) ==
    /\ snap' = [snap EXCEPT ![Poller] = @ \ {i}]
    /\ keep' = keep \cup Rescheduled(i)
    /\ walked' = IF Rescheduled(i) = {} THEN walked \cup {i.m} ELSE walked

\* A due item is published again (join_topic_with goes before and may bring
\* a neighbour up).  On a remote topic has_topic_peer has the last word.
FlushPublishes ==
    /\ pc[Poller] = "walk"
    /\ \E i \in snap[Poller], ok \in BOOLEAN :
         /\ IsOldest(i, snap[Poller]) /\ i.due
         /\ changed' = TRUE
         /\ \/ /\ ok /\ TopicOf[i.m] \in Remote
               /\ Goto(Poller, "confirm")
               /\ msg' = [msg EXCEPT ![Poller] = i.m]
               /\ Broadcast(Poller, i.m, ok)
               /\ UNCHANGED <<snap, keep, confirmed, walked>>
            \/ /\ ok /\ TopicOf[i.m] \notin Remote
               /\ confirmed' = confirmed \cup {i.m}
               /\ snap' = [snap EXCEPT ![Poller] = @ \ {i}]
               /\ UNCHANGED <<pc, msg, keep, heard, walked>>
            \/ /\ ~ok
               /\ RetryLater(i)
               /\ UNCHANGED <<pc, msg, heard, confirmed>>
    /\ UNCHANGED <<outbox, topic, peerUp, purges, crashes, faults, started, queued, dropped>>

FlushConfirms ==
    /\ pc[Poller] = "confirm"
    /\ Answered(Poller)
    /\ \E i \in snap[Poller] :
         /\ i.m = msg[Poller]
         /\ \/ /\ peerUp[TopicOf[i.m]]
               /\ confirmed' = confirmed \cup {i.m}
               /\ snap' = [snap EXCEPT ![Poller] = @ \ {i}]
               /\ UNCHANGED <<keep, walked>>
            \/ /\ ~peerUp[TopicOf[i.m]]
               /\ RetryLater(i)
               /\ UNCHANGED confirmed
    /\ msg' = [msg EXCEPT ![Poller] = NoMsg]
    /\ Goto(Poller, "walk")
    /\ UNCHANGED <<outbox, topic, changed, peerUp, purges, crashes, faults,
                   started, queued, dropped>>

\* The queue is rewritten once every item has been walked, if one changed.
FlushWrites ==
    /\ pc[Poller] = "walk" /\ snap[Poller] = {}
    /\ IF changed THEN WriteItems(keep, walked)
                  ELSE UNCHANGED <<outbox, dropped, faults>>
    /\ keep' = {} /\ walked' = {} /\ changed' = FALSE
    /\ Goto(Poller, "idle")
    /\ UNCHANGED <<msg, topic, snap, peerUp, purges, crashes, started, queued,
                   confirmed, heard>>

-----------------------------------------------------------------------------
(* The environment.                                                        *)

\* Backoff elapses, for an item in the file or in flush's hands.
Ripen(items, m) == {[i EXCEPT !.due = i.due \/ i.m = m] : i \in items}

BackoffElapses(m) ==
    /\ \E i \in outbox \cup keep : i.m = m /\ ~i.due
    /\ outbox' = Ripen(outbox, m)
    /\ keep' = Ripen(keep, m)
    /\ snap' = [t \in Tasks |-> IF t = Poller THEN snap[t] ELSE Ripen(snap[t], m)]
    /\ UNCHANGED <<pc, msg, topic, changed, peerUp, purges, crashes, faults, books>>

\* NeighborUp and NeighborDown of the gossip overlay.
NeighborChanges(c) ==
    /\ c \in Remote
    /\ peerUp' = [peerUp EXCEPT ![c] = ~@]
    /\ UNCHANGED <<outbox, tasks, purges, crashes, faults, books>>

\* The app is closed or reloaded: every task is gone, the file is not.
Crash ==
    /\ crashes + faults < MaxMishaps
    /\ crashes' = crashes + 1
    /\ pc' = [t \in Tasks |-> "idle"]
    /\ msg' = [t \in Tasks |-> NoMsg] /\ topic' = [t \in Tasks |-> NoTopic]
    /\ snap' = [t \in Tasks |-> {}]
    /\ keep' = {} /\ changed' = FALSE /\ walked' = {}
    /\ heard' = [t \in Tasks |-> FALSE]
    /\ UNCHANGED <<outbox, peerUp, purges, faults, started, queued, confirmed,
                   dropped>>

WorkerSteps(t) ==
    \/ ConfirmFirst(t) \/ EnqueueReads(t) \/ EnqueueWrites(t) \/ PurgeWrites(t)

FlushSteps ==
    \/ FlushReads \/ FlushSkips \/ FlushPublishes \/ FlushConfirms \/ FlushWrites

Next ==
    \/ \E t \in Workers, m \in Msgs : PublishFirst(t, m)
    \/ \E t \in Workers, c \in Topics : PurgeReads(t, c)
    \/ \E t \in Workers : Clear(t) \/ WorkerSteps(t)
    \/ FlushSteps
    \/ \E m \in Msgs : BackoffElapses(m)
    \/ \E c \in Topics : NeighborChanges(c)
    \/ Crash

Spec == Init /\ [][Next]_vars

\* A single-threaded executor runs every task that can run; sleeps end.
FairSpec ==
    /\ Spec
    /\ WF_vars(FlushSteps)
    /\ \A t \in Workers : WF_vars(WorkerSteps(t))
    /\ \A m \in Msgs : WF_vars(BackoffElapses(m))

-----------------------------------------------------------------------------
(* Properties.                                                             *)

\* The file and the tasks' copies of it hold items, none retried ATTEMPTS_MAX
\* times; tasks stand at their awaits.
TypeOK ==
    /\ outbox \subseteq Items /\ keep \subseteq Items
    /\ pc \in [Tasks -> {"idle", "confirm", "enqueue", "enqueue_write",
                         "purge_write", "walk"}]
    /\ msg \in [Tasks -> Msgs \cup {NoMsg}]
    /\ topic \in [Tasks -> Topics \cup {NoTopic}]
    /\ snap \in [Tasks -> SUBSET Items]
    /\ changed \in BOOLEAN
    /\ peerUp \in [Topics -> BOOLEAN]
    /\ purges \in 0..MaxPurges
    /\ crashes \in Nat /\ faults \in Nat /\ crashes + faults <= MaxMishaps
    /\ started \subseteq Msgs /\ queued \subseteq Msgs /\ confirmed \subseteq Msgs
    /\ heard \in [Tasks -> BOOLEAN] /\ walked \subseteq Msgs /\ dropped \subseteq Msgs

\* As long as storage works, a wire reported as "queued for retry" leaves the
\* file only by being delivered, by running out of attempts, by making room
\* in a full queue, or by a purge: no whole-file rewrite and no crash loses it.
NoSilentLoss ==
    faults = 0 => queued \subseteq MsgsIn(outbox) \cup confirmed \cup dropped

\* Conversely nothing comes back: a wire dropped on purpose (its topic was
\* purged, its attempts used up) is never in the file again.
DroppedStaysDropped == MsgsIn(outbox) \cap dropped = {}

\* The file never exceeds MAX_ITEMS and holds no wire twice.
BoundedNoTwins ==
    /\ Cardinality(outbox) <= MAX_ITEMS
    /\ \A i, j \in outbox : i.m = j.m => i = j

\* publish_or_enqueue and flush take a broadcast to a remote peer for delivered
\* only if that broadcast had a neighbour to go to.
ConfirmedReached ==
    [][\A t \in Tasks :
         (pc[t] = "confirm" /\ msg[t] \notin confirmed /\ msg[t] \in confirmed') => heard[t]]_vars

\* Every queued wire eventually leaves the queue, delivered or given up.
Drains == \A m \in Msgs : m \in MsgsIn(outbox) ~> m \notin MsgsIn(outbox)
=============================================================================
