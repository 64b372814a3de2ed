---------------------------- MODULE ClientProofs ----------------------------
(* Proofs about two parts of hey-core that many tasks use at once.         *)
(*                                                                         *)
(* Outbox, for every set of wires, topics and tasks and every bound: type  *)
(* correctness and the bound of the queue hold however tasks interleave;   *)
(* that nothing is lost or comes back is proved for tasks that do not      *)
(* overlap, and MCOutboxOverlap.cfg shows that it fails when they do.      *)
(*                                                                         *)
(* Bridge, for any number of launches, tasks, page loads and failures.     *)
EXTENDS Outbox, Bridge, ListsProofs, SequenceTheorems, FiniteSetTheorems, TLAPS

-----------------------------------------------------------------------------
(* The inductive invariant of the outbox.                                  *)

NoTwins(items) == \A i, j \in items : i.m = j.m => i = j

\* One task at a time holds anything.
Sequential == \A t, u \in Tasks : Busy(t) /\ Busy(u) => t = u

\* The tasks stand only where their own code takes them.
Places ==
    /\ pc[Poller] \in {"idle", "walk", "confirm"}
    /\ \A t \in Workers : pc[t] # "walk"
    /\ pc[Poller] = "confirm" => msg[Poller] \in Msgs
    /\ \A t \in Workers : pc[t] = "purge_write" => topic[t] \in Topics

\* A wire is queued once, after it was started; a worker's is not queued yet.
OnceQueued ==
    /\ MsgsIn(outbox) \subseteq queued
    /\ dropped \subseteq queued
    /\ queued \subseteq started
    /\ \A t \in Workers : pc[t] \in {"confirm", "enqueue", "enqueue_write"}
          => msg[t] \in started \ queued

\* What a worker is about to rewrite is the file, unless a read failed.
WorkerSnap ==
    \A t \in Workers : pc[t] \in {"enqueue_write", "purge_write"} =>
        /\ NoTwins(snap[t])
        /\ MsgsIn(snap[t]) \subseteq MsgsIn(outbox)
        /\ faults = 0 => MsgsIn(outbox) \subseteq MsgsIn(snap[t])

\* The file is split between ahead, what flush has yet to walk, kept, what it
\* keeps, gone, what it gave up on, and done, what it delivered.
Split(ahead, kept, gone, done) ==
    /\ NoTwins(ahead) /\ NoTwins(kept)
    /\ MsgsIn(ahead) \cap MsgsIn(kept) = {}
    /\ gone \cap (MsgsIn(ahead) \cup MsgsIn(kept)) = {}
    /\ MsgsIn(ahead) \cup MsgsIn(kept) \cup gone \subseteq MsgsIn(outbox)
    /\ faults = 0 =>
          MsgsIn(outbox) \subseteq MsgsIn(ahead) \cup MsgsIn(kept) \cup gone \cup done

FlushSplit == pc[Poller] # "idle" => Split(snap[Poller], keep, walked, confirmed)

SafeInv ==
    /\ Sequential
    /\ Places
    /\ OnceQueued
    /\ NoTwins(outbox)
    /\ WorkerSnap
    /\ FlushSplit
    /\ NoSilentLoss
    /\ DroppedStaysDropped

-----------------------------------------------------------------------------
(* Type correctness, for every interleaving.                               *)

\* A task that is publishing holds a wire.
Held == \A t \in Tasks : pc[t] \in {"confirm", "enqueue", "enqueue_write"} => msg[t] \in Msgs

TypeInv == TypeOK /\ Held

\* The poll loop and the workers are the tasks.
LEMMA PollerTask == Poller \in Tasks /\ Workers \subseteq Tasks
    BY DEF Tasks

\* An absent outbox file and idle tasks are of the right types.
LEMMA InitType == Init => TypeInv
<1> SUFFICES ASSUME Init PROVE TypeInv
    OBVIOUS
<1>1. /\ outbox \subseteq Items /\ keep \subseteq Items /\ changed \in BOOLEAN
      /\ snap \in [Tasks -> SUBSET Items]
    BY DEF Init
<1>2. /\ pc \in [Tasks -> {"idle", "confirm", "enqueue", "enqueue_write",
                           "purge_write", "walk"}]
      /\ msg \in [Tasks -> Msgs \cup {NoMsg}]
      /\ topic \in [Tasks -> Topics \cup {NoTopic}]
      /\ heard \in [Tasks -> BOOLEAN]
    BY DEF Init
<1>3. peerUp \in [Topics -> BOOLEAN]
    BY DEF Init
<1>4. /\ purges \in 0..MaxPurges
      /\ crashes \in Nat /\ faults \in Nat /\ crashes + faults <= MaxMishaps
    BY OutboxConstants DEF Init
<1>5. Held
    BY DEF Init, Held
<1> QED
    BY <1>1, <1>2, <1>3, <1>4, <1>5 DEF TypeInv, TypeOK, Init

\* read_items gives a task a set of items, also when the read fails.
LEMMA ReadItemsType ==
    ASSUME TypeOK, NEW t \in Tasks, ReadItems(t)
    PROVE  /\ snap' \in [Tasks -> SUBSET Items]
           /\ faults' \in Nat /\ crashes + faults' <= MaxMishaps
    BY OutboxConstants DEF TypeOK, ReadItems

\* write_items leaves a set of items in the file, also when the write fails.
LEMMA WriteItemsType ==
    ASSUME TypeOK, NEW items \in SUBSET Items, NEW gone \in SUBSET Msgs,
           WriteItems(items, gone)
    PROVE  /\ outbox' \subseteq Items /\ dropped' \subseteq Msgs
           /\ faults' \in Nat /\ crashes + faults' <= MaxMishaps
    BY OutboxConstants DEF TypeOK, WriteItems

\* The wires of a set of items are wires.
LEMMA MsgsInType ==
    ASSUME NEW items \in SUBSET Items
    PROVE  MsgsIn(items) \subseteq Msgs
    BY DEF MsgsIn, Items

\* The item enqueue pushes is an item.
LEMMA NewItemType ==
    ASSUME TypeOK, NEW m \in Msgs
    PROVE  NewItem(m) \in Items
<1>1. IsFiniteSet(queued)
    BY OutboxConstants, FS_Subset DEF TypeOK
<1>2. Cardinality(queued) \in Nat
    BY <1>1, FS_CardinalityType
<1>3. 0 \in 0..ATTEMPTS_MAX - 1
    BY OutboxConstants
<1> QED
    BY <1>2, <1>3 DEF NewItem, Items

\* What a failed retry of flush leaves is an item with retries below ATTEMPTS_MAX.
LEMMA RescheduledType ==
    ASSUME NEW i \in Items
    PROVE  /\ Rescheduled(i) \subseteq Items
           /\ MsgsIn(Rescheduled(i)) \subseteq {i.m}
           /\ Rescheduled(i) = {} \/ MsgsIn(Rescheduled(i)) = {i.m}
           /\ NoTwins(Rescheduled(i))
<1>1. i.m \in Msgs /\ i.ord \in Nat /\ i.retries \in 0..ATTEMPTS_MAX - 1
    BY DEF Items
<1>2. CASE i.retries + 1 >= ATTEMPTS_MAX
    BY <1>2 DEF Rescheduled, MsgsIn, NoTwins
<1>3. CASE ~(i.retries + 1 >= ATTEMPTS_MAX)
  <2>1. i.retries + 1 \in 0..ATTEMPTS_MAX - 1
      BY <1>1, <1>3, OutboxConstants
  <2>2. Rescheduled(i) =
          {[m |-> i.m, retries |-> i.retries + 1, due |-> FALSE, ord |-> i.ord]}
      BY <1>3 DEF Rescheduled
  <2> QED
      BY <1>1, <2>1, <2>2 DEF Items, MsgsIn, NoTwins
<1> QED
    BY <1>2, <1>3

\* An elapsed backoff changes neither the wires of a set of items nor its being
\* free of twins.
LEMMA RipenFacts ==
    ASSUME NEW items \in SUBSET Items, NEW m
    PROVE  /\ Ripen(items, m) \subseteq Items
           /\ MsgsIn(Ripen(items, m)) = MsgsIn(items)
           /\ NoTwins(items) => NoTwins(Ripen(items, m))
<1>1. \A i \in items : /\ [i EXCEPT !.due = i.due \/ i.m = m] \in Items
                       /\ [i EXCEPT !.due = i.due \/ i.m = m].m = i.m
    BY DEF Items
<1>2. Ripen(items, m) \subseteq Items
    BY <1>1 DEF Ripen
<1>3. MsgsIn(Ripen(items, m)) = MsgsIn(items)
  <2> DEFINE f(i) == [i EXCEPT !.due = i.due \/ i.m = m]
  <2>1. Ripen(items, m) = {f(i) : i \in items}
      BY DEF Ripen
  <2>2. \A i \in items : f(i).m = i.m
      BY <1>1
  <2> HIDE DEF f
  <2> QED
      BY <2>1, <2>2 DEF MsgsIn
<1>4. NoTwins(items) => NoTwins(Ripen(items, m))
  <2> SUFFICES ASSUME NoTwins(items), NEW x \in Ripen(items, m), NEW y \in Ripen(items, m),
                      x.m = y.m
               PROVE  x = y
      BY DEF NoTwins
  <2>1. PICK i \in items : x = [i EXCEPT !.due = i.due \/ i.m = m]
      BY DEF Ripen
  <2>2. PICK j \in items : y = [j EXCEPT !.due = j.due \/ j.m = m]
      BY DEF Ripen
  <2>3. i = j
      BY <1>1, <2>1, <2>2 DEF NoTwins
  <2> QED
      BY <2>1, <2>2, <2>3
<1> QED
    BY <1>2, <1>3, <1>4

\* Every step of every task keeps the types, however the tasks interleave.
LEMMA NextType == TypeInv /\ [Next]_vars => TypeInv'
<1> SUFFICES ASSUME TypeInv, [Next]_vars PROVE TypeInv'
    OBVIOUS
<1> USE PollerTask
<1>1. CASE \E t \in Workers, m \in Msgs : PublishFirst(t, m)
  <2> PICK t \in Workers, m \in Msgs : PublishFirst(t, m)
      BY <1>1
  <2>1. /\ started' \subseteq Msgs /\ confirmed' \subseteq Msgs
        /\ pc' \in [Tasks -> {"idle", "confirm", "enqueue", "enqueue_write",
                              "purge_write", "walk"}]
        /\ msg' \in [Tasks -> Msgs \cup {NoMsg}]
      BY DEF PublishFirst, Goto, TypeInv, TypeOK
  <2>2. heard' \in [Tasks -> BOOLEAN]
      BY DEF PublishFirst, Broadcast, TypeInv, TypeOK
  <2>3. Held'
      BY DEF PublishFirst, Goto, TypeInv, TypeOK, Held
  <2> QED
      BY <2>1, <2>2, <2>3 DEF PublishFirst, TypeInv, TypeOK
<1>2. CASE \E t \in Workers, c \in Topics : PurgeReads(t, c)
  <2> PICK t \in Workers, c \in Topics : PurgeReads(t, c)
      BY <1>2
  <2>1. /\ snap' \in [Tasks -> SUBSET Items]
        /\ faults' \in Nat /\ crashes + faults' <= MaxMishaps
      BY ReadItemsType DEF PurgeReads, TypeInv
  <2>2. purges' \in 0..MaxPurges
      BY OutboxConstants DEF PurgeReads, TypeInv, TypeOK
  <2>3. Held'
      BY DEF PurgeReads, Goto, TypeInv, TypeOK, Held
  <2> QED
      BY <2>1, <2>2, <2>3 DEF PurgeReads, Goto, TypeInv, TypeOK, books
<1>3. CASE \E t \in Workers : Clear(t)
  <2> PICK t \in Workers : Clear(t)
      BY <1>3
  <2>1. MsgsIn(outbox) \subseteq Msgs
      BY MsgsInType DEF TypeInv, TypeOK
  <2>2. /\ outbox' \subseteq Items /\ dropped' \subseteq Msgs
        /\ faults' \in Nat /\ crashes + faults' <= MaxMishaps
      BY <2>1, WriteItemsType DEF Clear, TypeInv
  <2>3. purges' \in 0..MaxPurges
      BY OutboxConstants DEF Clear, TypeInv, TypeOK
  <2> QED
      BY <2>2, <2>3 DEF Clear, TypeInv, TypeOK, Held, tasks
<1>4. CASE \E t \in Workers : ConfirmFirst(t)
  <2> PICK t \in Workers : ConfirmFirst(t)
      BY <1>4
  <2>1. msg[t] \in Msgs
      BY DEF ConfirmFirst, TypeInv, Held
  <2>2. Held'
      BY DEF ConfirmFirst, Goto, TypeInv, TypeOK, Held
  <2>3. heard' \in [Tasks -> BOOLEAN]
      BY DEF ConfirmFirst, Answered, TypeInv, TypeOK
  <2> QED
      BY <2>1, <2>2, <2>3 DEF ConfirmFirst, Goto, TypeInv, TypeOK
<1>5. CASE \E t \in Workers : EnqueueReads(t)
  <2> PICK t \in Workers : EnqueueReads(t)
      BY <1>5
  <2>1. /\ snap' \in [Tasks -> SUBSET Items]
        /\ faults' \in Nat /\ crashes + faults' <= MaxMishaps
      BY ReadItemsType DEF EnqueueReads, TypeInv
  <2>2. Held'
      BY DEF EnqueueReads, Goto, TypeInv, TypeOK, Held
  <2> QED
      BY <2>1, <2>2 DEF EnqueueReads, Goto, TypeInv, TypeOK, books
<1>6. CASE \E t \in Workers : EnqueueWrites(t)
  <2> PICK t \in Workers : EnqueueWrites(t)
      BY <1>6
  <2> DEFINE room == MadeRoom(snap[t])
             new  == room \cup {NewItem(msg[t])}
             gone == MsgsIn(snap[t]) \ MsgsIn(room)
  <2>1. msg[t] \in Msgs
      BY DEF EnqueueWrites, TypeInv, Held
  <2>2. new \subseteq Items /\ gone \subseteq Msgs
      BY <2>1, NewItemType, MsgsInType DEF MadeRoom, TypeInv, TypeOK
  <2>3. WriteItems(new, gone)
      BY DEF EnqueueWrites
  <2> HIDE DEF new, gone
  <2>4. /\ outbox' \subseteq Items /\ dropped' \subseteq Msgs
        /\ faults' \in Nat /\ crashes + faults' <= MaxMishaps
      BY <2>2, <2>3, WriteItemsType DEF TypeInv
  <2>5. Held'
      BY DEF EnqueueWrites, Goto, TypeInv, TypeOK, Held
  <2>6. snap' \in [Tasks -> SUBSET Items] /\ msg' \in [Tasks -> Msgs \cup {NoMsg}]
      BY DEF EnqueueWrites, TypeInv, TypeOK
  <2> QED
      BY <2>1, <2>4, <2>5, <2>6 DEF EnqueueWrites, Goto, TypeInv, TypeOK
<1>7. CASE \E t \in Workers : PurgeWrites(t)
  <2> PICK t \in Workers : PurgeWrites(t)
      BY <1>7
  <2> DEFINE new  == KeptByPurge(snap[t], topic[t])
             gone == {m \in MsgsIn(snap[t]) : TopicOf[m] = topic[t]}
  <2>1. new \subseteq Items /\ gone \subseteq Msgs
      BY MsgsInType DEF KeptByPurge, TypeInv, TypeOK
  <2>2. WriteItems(new, gone)
      BY DEF PurgeWrites
  <2> HIDE DEF new, gone
  <2>3. /\ outbox' \subseteq Items /\ dropped' \subseteq Msgs
        /\ faults' \in Nat /\ crashes + faults' <= MaxMishaps
      BY <2>1, <2>2, WriteItemsType DEF TypeInv
  <2>4. Held'
      BY DEF PurgeWrites, Goto, TypeInv, TypeOK, Held
  <2> QED
      BY <2>3, <2>4 DEF PurgeWrites, Goto, TypeInv, TypeOK
<1>8. CASE FlushReads
  <2>1. /\ snap' \in [Tasks -> SUBSET Items]
        /\ faults' \in Nat /\ crashes + faults' <= MaxMishaps
      BY <1>8, ReadItemsType DEF FlushReads, TypeInv
  <2>2. Held'
      BY <1>8 DEF FlushReads, Goto, TypeInv, TypeOK, Held
  <2> QED
      BY <1>8, <2>1, <2>2 DEF FlushReads, Goto, TypeInv, TypeOK
<1>9. CASE FlushSkips
  <2>1. keep' \subseteq Items /\ snap' \in [Tasks -> SUBSET Items]
      BY <1>9 DEF FlushSkips, TypeInv, TypeOK
  <2> QED
      BY <1>9, <2>1 DEF FlushSkips, TypeInv, TypeOK, Held, books
<1>10. CASE FlushPublishes
  <2> PICK i \in snap[Poller] :
        /\ \/ /\ Goto(Poller, "confirm")
              /\ msg' = [msg EXCEPT ![Poller] = i.m]
              /\ \E ok \in BOOLEAN : Broadcast(Poller, i.m, ok)
              /\ UNCHANGED <<snap, keep, confirmed, walked>>
           \/ /\ confirmed' = confirmed \cup {i.m}
              /\ snap' = [snap EXCEPT ![Poller] = @ \ {i}]
              /\ UNCHANGED <<pc, msg, keep, heard, walked>>
           \/ /\ RetryLater(i)
              /\ UNCHANGED <<pc, msg, heard, confirmed>>
      BY <1>10 DEF FlushPublishes
  <2>1. i \in Items /\ i.m \in Msgs
      BY DEF TypeInv, TypeOK, Items
  <2>2. Rescheduled(i) \subseteq Items
      BY <2>1, RescheduledType
  <2>3. /\ keep' \subseteq Items /\ snap' \in [Tasks -> SUBSET Items]
        /\ walked' \subseteq Msgs /\ confirmed' \subseteq Msgs
      BY <2>1, <2>2 DEF RetryLater, TypeInv, TypeOK
  <2>4. /\ pc' \in [Tasks -> {"idle", "confirm", "enqueue", "enqueue_write",
                              "purge_write", "walk"}]
        /\ msg' \in [Tasks -> Msgs \cup {NoMsg}]
      BY <2>1 DEF Goto, TypeInv, TypeOK
  <2>5. heard' \in [Tasks -> BOOLEAN]
      BY DEF Broadcast, TypeInv, TypeOK
  <2>6. Held'
      BY <2>1 DEF Goto, TypeInv, TypeOK, Held
  <2> QED
      BY <1>10, <2>3, <2>4, <2>5, <2>6 DEF FlushPublishes, TypeInv, TypeOK
<1>11. CASE FlushConfirms
  <2> PICK i \in snap[Poller] :
        \/ /\ confirmed' = confirmed \cup {i.m}
           /\ snap' = [snap EXCEPT ![Poller] = @ \ {i}]
           /\ UNCHANGED <<keep, walked>>
        \/ /\ RetryLater(i)
           /\ UNCHANGED confirmed
      BY <1>11 DEF FlushConfirms
  <2>1. i \in Items /\ i.m \in Msgs
      BY DEF TypeInv, TypeOK, Items
  <2>2. Rescheduled(i) \subseteq Items
      BY <2>1, RescheduledType
  <2>3. /\ keep' \subseteq Items /\ snap' \in [Tasks -> SUBSET Items]
        /\ walked' \subseteq Msgs /\ confirmed' \subseteq Msgs
      BY <2>1, <2>2 DEF RetryLater, TypeInv, TypeOK
  <2>4. heard' \in [Tasks -> BOOLEAN]
      BY <1>11 DEF FlushConfirms, Answered, TypeInv, TypeOK
  <2>5. Held'
      BY <1>11 DEF FlushConfirms, Goto, TypeInv, TypeOK, Held
  <2> QED
      BY <1>11, <2>3, <2>4, <2>5 DEF FlushConfirms, Goto, TypeInv, TypeOK
<1>12. CASE FlushWrites
  <2>1. /\ outbox' \subseteq Items /\ dropped' \subseteq Msgs
        /\ faults' \in Nat /\ crashes + faults' <= MaxMishaps
      BY <1>12, WriteItemsType DEF FlushWrites, TypeInv, TypeOK
  <2>2. Held'
      BY <1>12 DEF FlushWrites, Goto, TypeInv, TypeOK, Held
  <2> QED
      BY <1>12, <2>1, <2>2 DEF FlushWrites, Goto, TypeInv, TypeOK
<1>13. CASE \E m \in Msgs : BackoffElapses(m)
  <2> PICK m \in Msgs : BackoffElapses(m)
      BY <1>13
  <2>1. outbox' \subseteq Items /\ keep' \subseteq Items
      BY RipenFacts DEF BackoffElapses, TypeInv, TypeOK
  <2>2. snap' \in [Tasks -> SUBSET Items]
      BY RipenFacts DEF BackoffElapses, TypeInv, TypeOK
  <2> QED
      BY <2>1, <2>2 DEF BackoffElapses, TypeInv, TypeOK, Held, books
<1>14. CASE \E c \in Topics : NeighborChanges(c)
    BY <1>14 DEF NeighborChanges, TypeInv, TypeOK, Held, tasks, books
<1>15. CASE Crash
  <2>1. /\ pc' \in [Tasks -> {"idle", "confirm", "enqueue", "enqueue_write",
                              "purge_write", "walk"}]
        /\ msg' \in [Tasks -> Msgs \cup {NoMsg}]
        /\ topic' \in [Tasks -> Topics \cup {NoTopic}]
        /\ snap' \in [Tasks -> SUBSET Items]
        /\ heard' \in [Tasks -> BOOLEAN]
      BY <1>15 DEF Crash
  <2>2. crashes' \in Nat /\ crashes' + faults' <= MaxMishaps /\ faults' = faults
      BY <1>15, OutboxConstants DEF Crash, TypeInv, TypeOK
  <2>3. Held'
      BY <1>15 DEF Crash, Held
  <2> QED
      BY <1>15, <2>1, <2>2, <2>3 DEF Crash, TypeInv, TypeOK
<1>16. CASE UNCHANGED vars
    BY <1>16 DEF vars, TypeInv, TypeOK, Held, tasks, books
<1> QED
    BY <1>1, <1>2, <1>3, <1>4, <1>5, <1>6, <1>7, <1>8, <1>9, <1>10, <1>11, <1>12,
       <1>13, <1>14, <1>15, <1>16 DEF Next, WorkerSteps, FlushSteps

\* The retry queue and the tasks on it keep their types, however they overlap.
THEOREM OutboxTypeOK == Spec => []TypeOK
<1>1. TypeInv => TypeOK
    BY DEF TypeInv
<1> QED
    BY <1>1, InitType, NextType, PTL DEF Spec

-----------------------------------------------------------------------------
(* Facts about the wires of a set of items.                                *)

\* The wires of two sets of items together.
LEMMA MsgsInUnion ==
    ASSUME NEW A, NEW B
    PROVE  MsgsIn(A \cup B) = MsgsIn(A) \cup MsgsIn(B)
    BY DEF MsgsIn

\* The wire of one item.
LEMMA MsgsInOne == ASSUME NEW i PROVE MsgsIn({i}) = {i.m}
    BY DEF MsgsIn

\* An empty queue holds no wire.
LEMMA MsgsInNone == MsgsIn({}) = {}
    BY DEF MsgsIn

\* Fewer items hold fewer wires.
LEMMA MsgsInSubset == ASSUME NEW A, NEW B, A \subseteq B PROVE MsgsIn(A) \subseteq MsgsIn(B)
    BY DEF MsgsIn

\* Taking an item out of a queue without twins takes exactly its wire out.
LEMMA WithoutItem ==
    ASSUME NEW S, NEW i \in S, NoTwins(S)
    PROVE  /\ i.m \in MsgsIn(S)
           /\ MsgsIn(S \ {i}) = MsgsIn(S) \ {i.m}
           /\ NoTwins(S \ {i})
    BY DEF MsgsIn, NoTwins

\* Queues without twins and without a wire in common make one without twins.
LEMMA TwinFreeUnion ==
    ASSUME NEW A, NEW B, NoTwins(A), NoTwins(B), MsgsIn(A) \cap MsgsIn(B) = {}
    PROVE  NoTwins(A \cup B)
    BY DEF MsgsIn, NoTwins

\* purge_topic's retain splits the queue by topic.
LEMMA PurgeFacts ==
    ASSUME NEW S, NEW c, NoTwins(S)
    PROVE  /\ NoTwins(KeptByPurge(S, c))
           /\ MsgsIn(KeptByPurge(S, c)) = {m \in MsgsIn(S) : TopicOf[m] # c}
    BY DEF MsgsIn, NoTwins, KeptByPurge

\* flush keeps an item that is not due.
LEMMA SplitSkip ==
    ASSUME NEW S, NEW K, NEW W, NEW C, Split(S, K, W, C), NEW i \in S
    PROVE  Split(S \ {i}, K \cup {i}, W, C)
<1>1. /\ i.m \in MsgsIn(S)
      /\ MsgsIn(S \ {i}) = MsgsIn(S) \ {i.m}
      /\ NoTwins(S \ {i})
    BY WithoutItem DEF Split
<1>2. MsgsIn(K \cup {i}) = MsgsIn(K) \cup {i.m}
  <2>1. MsgsIn({i}) = {i.m}
      BY MsgsInOne
  <2> QED
      BY <2>1, MsgsInUnion
<1>3. NoTwins(K \cup {i})
  <2>1. NoTwins({i}) /\ MsgsIn({i}) = {i.m}
      BY MsgsInOne DEF NoTwins
  <2>2. MsgsIn(K) \cap {i.m} = {}
      BY <1>1 DEF Split
  <2> QED
      BY <2>1, <2>2, TwinFreeUnion DEF Split
<1> QED
    BY <1>1, <1>2, <1>3 DEF Split

\* flush delivers an item.
LEMMA SplitDeliver ==
    ASSUME NEW S, NEW K, NEW W, NEW C, Split(S, K, W, C), NEW i \in S
    PROVE  Split(S \ {i}, K, W, C \cup {i.m})
<1>1. /\ i.m \in MsgsIn(S)
      /\ MsgsIn(S \ {i}) = MsgsIn(S) \ {i.m}
      /\ NoTwins(S \ {i})
    BY WithoutItem DEF Split
<1> QED
    BY <1>1 DEF Split

\* flush reschedules an item or gives it up.
LEMMA SplitRetry ==
    ASSUME NEW S \in SUBSET Items, NEW K, NEW W, NEW C, Split(S, K, W, C), NEW i \in S
    PROVE  Split(S \ {i}, K \cup Rescheduled(i),
                 IF Rescheduled(i) = {} THEN W \cup {i.m} ELSE W, C)
<1>1. /\ i.m \in MsgsIn(S)
      /\ MsgsIn(S \ {i}) = MsgsIn(S) \ {i.m}
      /\ NoTwins(S \ {i})
    BY WithoutItem DEF Split
<1>2. CASE Rescheduled(i) = {}
  <2>1. K \cup Rescheduled(i) = K
      BY <1>2
  <2> QED
      BY <1>1, <1>2, <2>1 DEF Split
<1>3. CASE Rescheduled(i) # {}
  <2>1. MsgsIn(Rescheduled(i)) = {i.m} /\ NoTwins(Rescheduled(i))
      BY <1>3, RescheduledType
  <2>2. MsgsIn(K \cup Rescheduled(i)) = MsgsIn(K) \cup {i.m}
      BY <2>1, MsgsInUnion
  <2>3. MsgsIn(K) \cap {i.m} = {}
      BY <1>1 DEF Split
  <2>4. NoTwins(K \cup Rescheduled(i))
      BY <2>1, <2>3, TwinFreeUnion DEF Split
  <2> QED
      BY <1>1, <1>3, <2>2, <2>4 DEF Split
<1> QED
    BY <1>2, <1>3

-----------------------------------------------------------------------------
(* Nothing is lost and nothing comes back, when tasks do not overlap.      *)

\* The invariant holds of an absent outbox file.
LEMMA InitSafe == Init => SafeInv
<1> SUFFICES ASSUME Init PROVE SafeInv
    OBVIOUS
<1> USE PollerTask
<1>1. \A t \in Tasks : pc[t] = "idle"
    BY DEF Init
<1>2. Sequential /\ Places /\ WorkerSnap /\ FlushSplit
    BY <1>1 DEF Sequential, Busy, Places, WorkerSnap, FlushSplit
<1>3. MsgsIn(outbox) = {} /\ outbox = {} /\ queued = {} /\ dropped = {} /\ started = {}
    BY MsgsInNone DEF Init
<1>4. OnceQueued /\ NoTwins(outbox) /\ NoSilentLoss /\ DroppedStaysDropped
    BY <1>1, <1>3 DEF OnceQueued, NoTwins, NoSilentLoss, DroppedStaysDropped
<1> QED
    BY <1>2, <1>4 DEF SafeInv

\* A step that leaves the file, the queue's books and the faults alone.
LEMMA QuietStep ==
    ASSUME SafeInv, UNCHANGED <<outbox, faults, queued, dropped>>,
           confirmed \subseteq confirmed'
    PROVE  NoTwins(outbox)' /\ NoSilentLoss' /\ DroppedStaysDropped'
    BY DEF SafeInv, NoTwins, NoSilentLoss, DroppedStaysDropped

\* A step of worker t, alone on the executor, that ends in where.
LEMMA WorkerAlone ==
    ASSUME TypeInv, SafeInv, NEW t \in Workers, NEW where,
           \A u \in Tasks \ {t} : pc[u] = "idle",
           pc' = [pc EXCEPT ![t] = where], where # "walk",
           where = "purge_write" => topic'[t] \in Topics
    PROVE  /\ Sequential' /\ Places' /\ FlushSplit'
           /\ \A u \in Workers \ {t} : pc'[u] = "idle"
           /\ pc'[t] = where
<1>1. t \in Tasks /\ Poller \in Tasks /\ t # Poller
    BY PollerTask, OutboxConstants
<1>2. /\ pc'[t] = where /\ pc'[Poller] = "idle"
      /\ \A u \in Tasks \ {t} : pc'[u] = "idle"
    BY <1>1 DEF TypeInv, TypeOK
<1>3. Sequential'
    BY <1>1, <1>2 DEF Sequential, Busy
<1>4. Places'
    BY <1>1, <1>2, PollerTask DEF Places
<1>5. FlushSplit'
    BY <1>2 DEF FlushSplit
<1> QED
    BY <1>2, <1>3, <1>4, <1>5, PollerTask

\* A step of the poll loop, alone on the executor, that ends in where.
LEMMA PollerAlone ==
    ASSUME TypeInv, SafeInv, NEW where \in {"idle", "walk", "confirm"},
           \A u \in Workers : pc[u] = "idle",
           pc' = [pc EXCEPT ![Poller] = where],
           where = "confirm" => msg'[Poller] \in Msgs
    PROVE  /\ Sequential' /\ Places' /\ WorkerSnap'
           /\ \A u \in Workers : pc'[u] = "idle"
           /\ pc'[Poller] = where
<1>1. Poller \in Tasks /\ Poller \notin Workers /\ Workers \subseteq Tasks
    BY PollerTask, OutboxConstants
<1>2. pc'[Poller] = where /\ \A u \in Workers : pc'[u] = "idle"
    BY <1>1 DEF TypeInv, TypeOK
<1>3. \A t, u \in Tasks : pc'[t] # "idle" /\ pc'[u] # "idle" => t = u
    BY <1>2 DEF Tasks
<1>4. Sequential'
    BY <1>3 DEF Sequential, Busy
<1>5. Places' /\ WorkerSnap'
    BY <1>2 DEF Places, WorkerSnap
<1> QED
    BY <1>2, <1>4, <1>5

\* While a worker is busy nobody else is: no one touches the file under it.
LEMMA WorkerBusy ==
    ASSUME SafeInv, NEW t \in Workers, pc[t] # "idle"
    PROVE  \A u \in Tasks \ {t} : pc[u] = "idle"
    BY PollerTask DEF SafeInv, Sequential, Busy

\* While flush runs no worker is busy.
LEMMA PollerBusy ==
    ASSUME SafeInv, pc[Poller] # "idle"
    PROVE  \A u \in Workers : pc[u] = "idle"
    BY PollerTask, OutboxConstants DEF SafeInv, Sequential, Busy

\* read_items yields the file, or nothing when it fails.
LEMMA ReadFacts ==
    ASSUME TypeInv, SafeInv, NEW t \in Tasks, ReadItems(t), UNCHANGED outbox
    PROVE  /\ NoTwins(snap'[t])
           /\ MsgsIn(snap'[t]) \subseteq MsgsIn(outbox)
           /\ faults' = 0 => faults = 0 /\ MsgsIn(outbox) \subseteq MsgsIn(snap'[t])
<1>1. CASE snap' = [snap EXCEPT ![t] = outbox] /\ faults' = faults
  <2>1. snap'[t] = outbox
      BY <1>1 DEF TypeInv, TypeOK
  <2> QED
      BY <1>1, <2>1 DEF SafeInv
<1>2. CASE snap' = [snap EXCEPT ![t] = {}] /\ faults' = faults + 1
  <2>1. snap'[t] = {} /\ faults' # 0
      BY <1>2 DEF TypeInv, TypeOK
  <2> QED
      BY <2>1, MsgsInNone DEF NoTwins
<1> QED
    BY <1>1, <1>2 DEF ReadItems

\* A rewrite keeps the queue's promises if the items and what is gone on
\* purpose are, together, what the file held and the wire that comes new.
LEMMA WriteFacts ==
    ASSUME TypeInv, SafeInv, NEW items \in SUBSET Items, NEW gone \in SUBSET Msgs,
           NEW new \in SUBSET Msgs,
           WriteItems(items, gone), queued' = queued \cup new,
           confirmed \subseteq confirmed', new \cap queued = {},
           NoTwins(items),
           MsgsIn(items) \subseteq MsgsIn(outbox) \cup new,
           gone \subseteq MsgsIn(outbox), MsgsIn(items) \cap gone = {},
           faults = 0 => MsgsIn(outbox) \cup new
                            \subseteq MsgsIn(items) \cup gone \cup confirmed'
    PROVE  /\ NoTwins(outbox)' /\ NoSilentLoss' /\ DroppedStaysDropped'
           /\ MsgsIn(outbox)' \subseteq queued'
           /\ dropped' \subseteq queued'
<1>0. /\ MsgsIn(outbox) \subseteq queued /\ dropped \subseteq queued
      /\ MsgsIn(outbox) \cap dropped = {}
      /\ faults = 0 => queued \subseteq MsgsIn(outbox) \cup confirmed \cup dropped
      /\ NoTwins(outbox)
    BY DEF SafeInv, OnceQueued, DroppedStaysDropped, NoSilentLoss
<1>1. CASE outbox' = items /\ dropped' = dropped \cup gone /\ faults' = faults
  <2>1. MsgsIn(outbox)' = MsgsIn(items) /\ NoTwins(outbox)'
      BY <1>1 DEF MsgsIn, NoTwins
  <2>2. MsgsIn(items) \cap (dropped \cup gone) = {}
      BY <1>0
  <2>3. faults = 0 => queued \cup new \subseteq MsgsIn(items) \cup confirmed' \cup dropped \cup gone
      BY <1>0
  <2>4. NoSilentLoss'
      BY <1>1, <2>1, <2>3 DEF NoSilentLoss
  <2>5. DroppedStaysDropped'
      BY <1>1, <2>1, <2>2 DEF DroppedStaysDropped
  <2> QED
      BY <1>0, <1>1, <2>1, <2>4, <2>5
<1>2. CASE faults' = faults + 1 /\ UNCHANGED <<outbox, dropped>>
  <2>1. faults' # 0
      BY <1>2 DEF TypeInv, TypeOK
  <2>2. MsgsIn(outbox)' = MsgsIn(outbox) /\ NoTwins(outbox)'
      BY <1>0, <1>2 DEF MsgsIn, NoTwins
  <2> QED
      BY <1>0, <1>2, <2>1, <2>2 DEF NoSilentLoss, DroppedStaysDropped
<1> QED
    BY <1>1, <1>2 DEF WriteItems

\* publish_or_enqueue's first broadcast leaves the queue alone.
LEMMA PublishFirstSafe ==
    ASSUME ~Overlap, TypeInv, SafeInv, NEW t \in Workers, NEW m \in Msgs, PublishFirst(t, m)
    PROVE  SafeInv'
<1>0. t \in Tasks /\ \A u \in Tasks : pc[u] = "idle"
    BY PollerTask DEF PublishFirst, MayStart, Busy
<1>1. PICK where \in {"idle", "confirm", "enqueue"} :
        /\ pc' = [pc EXCEPT ![t] = where]
        /\ where # "idle" => msg'[t] = m
  <2>1. CASE UNCHANGED pc
    <3>1. pc' = [pc EXCEPT ![t] = "idle"]
        BY <2>1, <1>0 DEF TypeInv, TypeOK
    <3> QED
        BY <3>1
  <2>2. CASE \E ok \in BOOLEAN : /\ Goto(t, IF ok THEN "confirm" ELSE "enqueue")
                                 /\ msg' = [msg EXCEPT ![t] = m]
      BY <2>2, <1>0 DEF Goto, TypeInv, TypeOK
  <2> QED
      BY <2>1, <2>2 DEF PublishFirst
<1>2. /\ Sequential' /\ Places' /\ FlushSplit' /\ pc'[t] = where
      /\ \A u \in Workers \ {t} : pc'[u] = "idle"
    BY <1>0, <1>1, WorkerAlone
<1>3. WorkerSnap'
    BY <1>2 DEF WorkerSnap
<1>4. NoTwins(outbox)' /\ NoSilentLoss' /\ DroppedStaysDropped'
    BY QuietStep DEF PublishFirst
<1>5. m \notin queued
    BY DEF PublishFirst, SafeInv, OnceQueued
<1>6. OnceQueued'
    BY <1>1, <1>2, <1>5 DEF PublishFirst, SafeInv, OnceQueued
<1> QED
    BY <1>2, <1>3, <1>4, <1>6 DEF SafeInv

\* publish_or_enqueue's neighbour check leaves the queue alone.
LEMMA ConfirmFirstSafe ==
    ASSUME TypeInv, SafeInv, NEW t \in Workers, ConfirmFirst(t)
    PROVE  SafeInv'
<1>0. t \in Tasks /\ \A u \in Tasks \ {t} : pc[u] = "idle"
    BY PollerTask, WorkerBusy DEF ConfirmFirst
<1>1. PICK where \in {"idle", "enqueue"} :
        /\ pc' = [pc EXCEPT ![t] = where]
        /\ where # "idle" => msg' = msg
    BY DEF ConfirmFirst, Goto
<1>2. /\ Sequential' /\ Places' /\ FlushSplit' /\ pc'[t] = where
      /\ \A u \in Workers \ {t} : pc'[u] = "idle"
    BY <1>0, <1>1, WorkerAlone
<1>3. WorkerSnap'
    BY <1>2 DEF WorkerSnap
<1>4. NoTwins(outbox)' /\ NoSilentLoss' /\ DroppedStaysDropped'
    BY QuietStep DEF ConfirmFirst
<1>5. OnceQueued'
    BY <1>1, <1>2 DEF ConfirmFirst, SafeInv, OnceQueued
<1> QED
    BY <1>2, <1>3, <1>4, <1>5 DEF SafeInv

\* enqueue's read gives it the file, or nothing if storage fails.
LEMMA EnqueueReadsSafe ==
    ASSUME TypeInv, SafeInv, NEW t \in Workers, EnqueueReads(t)
    PROVE  SafeInv'
<1>0. t \in Tasks /\ \A u \in Tasks \ {t} : pc[u] = "idle"
    BY PollerTask, WorkerBusy DEF EnqueueReads
<1>1. pc' = [pc EXCEPT ![t] = "enqueue_write"]
    BY DEF EnqueueReads, Goto
<1>2. /\ Sequential' /\ Places' /\ FlushSplit' /\ pc'[t] = "enqueue_write"
      /\ \A u \in Workers \ {t} : pc'[u] = "idle"
    BY <1>0, <1>1, WorkerAlone
<1>3. /\ NoTwins(snap'[t])
      /\ MsgsIn(snap'[t]) \subseteq MsgsIn(outbox)
      /\ faults' = 0 => faults = 0 /\ MsgsIn(outbox) \subseteq MsgsIn(snap'[t])
    BY <1>0, ReadFacts DEF EnqueueReads
<1>4. WorkerSnap'
    BY <1>2, <1>3 DEF WorkerSnap, EnqueueReads, MsgsIn
<1>5. NoTwins(outbox)' /\ NoSilentLoss' /\ DroppedStaysDropped'
    BY <1>3 DEF EnqueueReads, books, SafeInv, NoTwins, NoSilentLoss,
                DroppedStaysDropped, MsgsIn
<1>6. OnceQueued'
    BY <1>2 DEF EnqueueReads, books, SafeInv, OnceQueued, MsgsIn
<1> QED
    BY <1>2, <1>4, <1>5, <1>6 DEF SafeInv

\* purge_topic's read gives it the file, or nothing if storage fails.
LEMMA PurgeReadsSafe ==
    ASSUME ~Overlap, TypeInv, SafeInv, NEW t \in Workers, NEW c \in Topics, PurgeReads(t, c)
    PROVE  SafeInv'
<1>0. t \in Tasks /\ \A u \in Tasks : pc[u] = "idle"
    BY PollerTask DEF PurgeReads, MayStart, Busy
<1>1. pc' = [pc EXCEPT ![t] = "purge_write"] /\ topic'[t] \in Topics
    BY <1>0 DEF PurgeReads, Goto, TypeInv, TypeOK
<1>2. /\ Sequential' /\ Places' /\ FlushSplit' /\ pc'[t] = "purge_write"
      /\ \A u \in Workers \ {t} : pc'[u] = "idle"
    BY <1>0, <1>1, WorkerAlone
<1>3. /\ NoTwins(snap'[t])
      /\ MsgsIn(snap'[t]) \subseteq MsgsIn(outbox)
      /\ faults' = 0 => faults = 0 /\ MsgsIn(outbox) \subseteq MsgsIn(snap'[t])
    BY <1>0, ReadFacts DEF PurgeReads
<1>4. WorkerSnap'
    BY <1>2, <1>3 DEF WorkerSnap, PurgeReads, MsgsIn
<1>5. NoTwins(outbox)' /\ NoSilentLoss' /\ DroppedStaysDropped'
    BY <1>3 DEF PurgeReads, books, SafeInv, NoTwins, NoSilentLoss,
                DroppedStaysDropped, MsgsIn
<1>6. OnceQueued'
    BY <1>2 DEF PurgeReads, books, SafeInv, OnceQueued, MsgsIn
<1> QED
    BY <1>2, <1>4, <1>5, <1>6 DEF SafeInv

\* enqueue's rewrite adds its wire and loses only the one it made room for.
LEMMA EnqueueWritesSafe ==
    ASSUME TypeInv, SafeInv, NEW t \in Workers, EnqueueWrites(t)
    PROVE  SafeInv'
<1> DEFINE room == MadeRoom(snap[t])
           items == room \cup {NewItem(msg[t])}
           gone == MsgsIn(snap[t]) \ MsgsIn(room)
<1>0. t \in Tasks /\ \A u \in Tasks \ {t} : pc[u] = "idle"
    BY PollerTask, WorkerBusy DEF EnqueueWrites
<1>1. pc' = [pc EXCEPT ![t] = "idle"]
    BY DEF EnqueueWrites, Goto
<1>2. /\ Sequential' /\ Places' /\ FlushSplit' /\ pc'[t] = "idle"
      /\ \A u \in Workers \ {t} : pc'[u] = "idle"
    BY <1>0, <1>1, WorkerAlone
<1>3. WorkerSnap'
    BY <1>2 DEF WorkerSnap
<1>4. /\ NoTwins(snap[t]) /\ snap[t] \subseteq Items
      /\ MsgsIn(snap[t]) \subseteq MsgsIn(outbox)
      /\ faults = 0 => MsgsIn(outbox) \subseteq MsgsIn(snap[t])
    BY <1>0 DEF EnqueueWrites, SafeInv, WorkerSnap, TypeInv, TypeOK
<1>5. msg[t] \in started \ queued /\ msg[t] \in Msgs
    BY <1>0 DEF EnqueueWrites, SafeInv, OnceQueued, TypeInv, Held
<1>6. room \subseteq snap[t]
    BY DEF MadeRoom
<1>7. NoTwins(room) /\ MsgsIn(room) \subseteq MsgsIn(snap[t])
    BY <1>4, <1>6, MsgsInSubset DEF NoTwins
<1>8. NewItem(msg[t]) \in Items /\ NewItem(msg[t]).m = msg[t]
    BY <1>5, NewItemType DEF NewItem, TypeInv
<1>9. MsgsIn({NewItem(msg[t])}) = {msg[t]} /\ NoTwins({NewItem(msg[t])})
    BY <1>8, MsgsInOne DEF NoTwins
<1>10. MsgsIn(items) = MsgsIn(room) \cup {msg[t]}
    BY <1>9, MsgsInUnion
<1>11. msg[t] \notin MsgsIn(room) /\ msg[t] \notin MsgsIn(snap[t])
    BY <1>4, <1>5, <1>7 DEF SafeInv, OnceQueued
<1>12. NoTwins(items)
    BY <1>7, <1>9, <1>11, TwinFreeUnion
<1>13. items \subseteq Items /\ gone \subseteq Msgs
    BY <1>4, <1>6, <1>8, MsgsInType
<1>14. /\ WriteItems(items, gone) /\ queued' = queued \cup {msg[t]}
       /\ confirmed' = confirmed /\ started' = started
    BY DEF EnqueueWrites
<1>15. /\ MsgsIn(items) \subseteq MsgsIn(outbox) \cup {msg[t]}
       /\ gone \subseteq MsgsIn(outbox) /\ MsgsIn(items) \cap gone = {}
       /\ faults = 0 => MsgsIn(outbox) \cup {msg[t]}
                            \subseteq MsgsIn(items) \cup gone \cup confirmed'
    BY <1>4, <1>7, <1>10, <1>11
<1> HIDE DEF items, gone
<1>16. /\ NoTwins(outbox)' /\ NoSilentLoss' /\ DroppedStaysDropped'
       /\ MsgsIn(outbox)' \subseteq queued' /\ dropped' \subseteq queued'
  <2> DEFINE new == {msg[t]}
  <2>1. /\ new \in SUBSET Msgs /\ new \cap queued = {} /\ confirmed \subseteq confirmed'
        /\ queued' = queued \cup new
      BY <1>5, <1>14
  <2>2. /\ MsgsIn(items) \subseteq MsgsIn(outbox) \cup new
        /\ faults = 0 => MsgsIn(outbox) \cup new
                             \subseteq MsgsIn(items) \cup gone \cup confirmed'
      BY <1>15
  <2> HIDE DEF new
  <2> QED
      BY <2>1, <2>2, <1>12, <1>13, <1>14, <1>15, WriteFacts
<1>17. OnceQueued'
    BY <1>2, <1>5, <1>14, <1>16 DEF SafeInv, OnceQueued
<1> QED
    BY <1>2, <1>3, <1>16, <1>17 DEF SafeInv

\* purge_topic's rewrite loses only the wires of the purged topic.
LEMMA PurgeWritesSafe ==
    ASSUME TypeInv, SafeInv, NEW t \in Workers, PurgeWrites(t)
    PROVE  SafeInv'
<1> DEFINE items == KeptByPurge(snap[t], topic[t])
           gone == {m \in MsgsIn(snap[t]) : TopicOf[m] = topic[t]}
<1>0. t \in Tasks /\ \A u \in Tasks \ {t} : pc[u] = "idle"
    BY PollerTask, WorkerBusy DEF PurgeWrites
<1>1. pc' = [pc EXCEPT ![t] = "idle"]
    BY DEF PurgeWrites, Goto
<1>2. /\ Sequential' /\ Places' /\ FlushSplit' /\ pc'[t] = "idle"
      /\ \A u \in Workers \ {t} : pc'[u] = "idle"
    BY <1>0, <1>1, WorkerAlone
<1>3. WorkerSnap'
    BY <1>2 DEF WorkerSnap
<1>4. /\ NoTwins(snap[t]) /\ snap[t] \subseteq Items
      /\ MsgsIn(snap[t]) \subseteq MsgsIn(outbox)
      /\ faults = 0 => MsgsIn(outbox) \subseteq MsgsIn(snap[t])
    BY <1>0 DEF PurgeWrites, SafeInv, WorkerSnap, TypeInv, TypeOK
<1>5. NoTwins(items) /\ MsgsIn(items) = {m \in MsgsIn(snap[t]) : TopicOf[m] # topic[t]}
    BY <1>4, PurgeFacts
<1>6. items \subseteq Items /\ gone \subseteq Msgs
    BY <1>4, MsgsInType DEF KeptByPurge
<1>7. /\ WriteItems(items, gone) /\ queued' = queued \cup {}
      /\ confirmed' = confirmed /\ started' = started /\ queued' = queued
    BY DEF PurgeWrites
<1>8. /\ MsgsIn(items) \subseteq MsgsIn(outbox) \cup {}
      /\ gone \subseteq MsgsIn(outbox) /\ MsgsIn(items) \cap gone = {}
      /\ faults = 0 => MsgsIn(outbox) \cup {}
                           \subseteq MsgsIn(items) \cup gone \cup confirmed'
    BY <1>4, <1>5
<1> HIDE DEF items, gone
<1>9. /\ NoTwins(outbox)' /\ NoSilentLoss' /\ DroppedStaysDropped'
      /\ MsgsIn(outbox)' \subseteq queued' /\ dropped' \subseteq queued'
    BY <1>5, <1>6, <1>7, <1>8, WriteFacts
<1>10. OnceQueued'
    BY <1>2, <1>7, <1>9 DEF SafeInv, OnceQueued
<1> QED
    BY <1>2, <1>3, <1>9, <1>10 DEF SafeInv

\* clear drops everything, on purpose.
LEMMA ClearSafe ==
    ASSUME ~Overlap, TypeInv, SafeInv, NEW t \in Workers, Clear(t)
    PROVE  SafeInv'
<1>0. t \in Tasks /\ \A u \in Tasks : pc[u] = "idle"
    BY PollerTask DEF Clear, MayStart, Busy
<1>1. \A u \in Tasks : pc'[u] = "idle"
    BY <1>0 DEF Clear, tasks
<1>2. Sequential' /\ Places' /\ WorkerSnap' /\ FlushSplit'
    BY <1>1, PollerTask DEF Sequential, Busy, Places, WorkerSnap, FlushSplit
<1>3. MsgsIn({}) = {} /\ NoTwins({}) /\ MsgsIn(outbox) \subseteq Msgs
    BY MsgsInNone, MsgsInType DEF NoTwins, TypeInv, TypeOK
<1>4. /\ WriteItems({}, MsgsIn(outbox)) /\ queued' = queued \cup {}
      /\ confirmed' = confirmed /\ started' = started /\ queued' = queued
    BY DEF Clear
<1>5. /\ NoTwins(outbox)' /\ NoSilentLoss' /\ DroppedStaysDropped'
      /\ MsgsIn(outbox)' \subseteq queued' /\ dropped' \subseteq queued'
    BY <1>3, <1>4, WriteFacts
<1>6. OnceQueued'
    BY <1>1, <1>4, <1>5, PollerTask DEF SafeInv, OnceQueued
<1> QED
    BY <1>2, <1>5, <1>6 DEF SafeInv

\* flush starts with the whole file still to walk.
LEMMA FlushReadsSafe ==
    ASSUME ~Overlap, TypeInv, SafeInv, FlushReads
    PROVE  SafeInv'
<1>0. Poller \in Tasks /\ \A u \in Tasks : pc[u] = "idle"
    BY PollerTask DEF FlushReads, MayStart, Busy
<1>1. pc' = [pc EXCEPT ![Poller] = "walk"]
    BY DEF FlushReads, Goto
<1>2. /\ Sequential' /\ Places' /\ WorkerSnap' /\ pc'[Poller] = "walk"
      /\ \A u \in Workers : pc'[u] = "idle"
    BY <1>0, <1>1, PollerTask, PollerAlone
<1>3. /\ NoTwins(snap'[Poller])
      /\ MsgsIn(snap'[Poller]) \subseteq MsgsIn(outbox)
      /\ faults' = 0 => faults = 0 /\ MsgsIn(outbox) \subseteq MsgsIn(snap'[Poller])
    BY <1>0, ReadFacts DEF FlushReads
<1>4. keep' = {} /\ walked' = {} /\ MsgsIn({}) = {} /\ NoTwins({})
      /\ UNCHANGED <<outbox, started, queued, confirmed, dropped>>
    BY MsgsInNone DEF FlushReads, NoTwins
<1>5. Split(snap[Poller], keep, walked, confirmed)'
    BY <1>3, <1>4 DEF Split, MsgsIn, NoTwins
<1>6. FlushSplit'
    BY <1>5 DEF FlushSplit
<1>7. NoTwins(outbox)' /\ NoSilentLoss' /\ DroppedStaysDropped'
    BY <1>3, <1>4 DEF SafeInv, NoTwins, NoSilentLoss, DroppedStaysDropped, MsgsIn
<1>8. OnceQueued'
    BY <1>2, <1>4 DEF SafeInv, OnceQueued, MsgsIn
<1> QED
    BY <1>2, <1>6, <1>7, <1>8 DEF SafeInv

\* Every step of flush between its read and its write moves one item.
LEMMA WalkSafe ==
    ASSUME TypeInv, SafeInv, pc[Poller] # "idle",
           NEW where \in {"walk", "confirm"}, pc' = [pc EXCEPT ![Poller] = where],
           where = "confirm" => msg'[Poller] \in Msgs,
           UNCHANGED <<outbox, faults, started, queued, dropped>>,
           confirmed \subseteq confirmed',
           Split(snap'[Poller], keep', walked', confirmed')
    PROVE  SafeInv'
<1>1. /\ Sequential' /\ Places' /\ WorkerSnap' /\ pc'[Poller] = where
      /\ \A u \in Workers : pc'[u] = "idle"
    BY PollerBusy, PollerAlone
<1>2. FlushSplit'
    BY DEF FlushSplit, Split, MsgsIn
<1>3. NoTwins(outbox)' /\ NoSilentLoss' /\ DroppedStaysDropped'
    BY QuietStep
<1>4. OnceQueued'
    BY <1>1 DEF SafeInv, OnceQueued, MsgsIn
<1> QED
    BY <1>1, <1>2, <1>3, <1>4 DEF SafeInv

\* flush moves an item in backoff from what it has to walk to what it keeps.
LEMMA FlushSkipsSafe ==
    ASSUME TypeInv, SafeInv, FlushSkips
    PROVE  SafeInv'
<1>0. Poller \in Tasks
    BY PollerTask
<1>1. PICK i \in snap[Poller] : /\ keep' = keep \cup {i}
                               /\ snap' = [snap EXCEPT ![Poller] = @ \ {i}]
    BY DEF FlushSkips
<1>2. snap'[Poller] = snap[Poller] \ {i} /\ pc' = [pc EXCEPT ![Poller] = "walk"]
    BY <1>0, <1>1 DEF FlushSkips, TypeInv, TypeOK
<1>3. Split(snap[Poller], keep, walked, confirmed)
    BY DEF FlushSkips, SafeInv, FlushSplit
<1>4. Split(snap[Poller] \ {i}, keep \cup {i}, walked, confirmed)
    BY <1>3, SplitSkip
<1>5. Split(snap'[Poller], keep', walked', confirmed')
    BY <1>1, <1>2, <1>4 DEF FlushSkips, books
<1> QED
    BY <1>2, <1>5, WalkSafe DEF FlushSkips, books

\* A retry of flush delivers its wire, keeps it, gives it up, or waits for the
\* neighbour check.
LEMMA FlushPublishesSafe ==
    ASSUME TypeInv, SafeInv, FlushPublishes
    PROVE  SafeInv'
<1>0. /\ Poller \in Tasks /\ pc[Poller] = "walk"
      /\ UNCHANGED <<outbox, faults, started, queued, dropped>>
      /\ Split(snap[Poller], keep, walked, confirmed)
      /\ snap[Poller] \in SUBSET Items
      /\ pc = [pc EXCEPT ![Poller] = "walk"]
    BY PollerTask DEF FlushPublishes, SafeInv, FlushSplit, TypeInv, TypeOK
<1>1. PICK i \in snap[Poller] :
        \/ /\ Goto(Poller, "confirm")
           /\ msg' = [msg EXCEPT ![Poller] = i.m]
           /\ UNCHANGED <<snap, keep, confirmed, walked>>
        \/ /\ confirmed' = confirmed \cup {i.m}
           /\ snap' = [snap EXCEPT ![Poller] = @ \ {i}]
           /\ UNCHANGED <<pc, msg, keep, heard, walked>>
        \/ /\ RetryLater(i)
           /\ UNCHANGED <<pc, msg, heard, confirmed>>
    BY DEF FlushPublishes
<1>2. CASE /\ Goto(Poller, "confirm")
           /\ msg' = [msg EXCEPT ![Poller] = i.m]
           /\ UNCHANGED <<snap, keep, confirmed, walked>>
  <2>1. msg'[Poller] \in Msgs
      BY <1>0, <1>2 DEF TypeInv, TypeOK, Items
  <2> QED
      BY <1>0, <1>2, <2>1, WalkSafe DEF Goto
<1>3. CASE /\ confirmed' = confirmed \cup {i.m}
           /\ snap' = [snap EXCEPT ![Poller] = @ \ {i}]
           /\ UNCHANGED <<pc, msg, keep, heard, walked>>
  <2>1. snap'[Poller] = snap[Poller] \ {i}
      BY <1>0, <1>3 DEF TypeInv, TypeOK
  <2>2. Split(snap[Poller] \ {i}, keep, walked, confirmed \cup {i.m})
      BY <1>0, SplitDeliver
  <2> QED
      BY <1>0, <1>3, <2>1, <2>2, WalkSafe
<1>4. CASE RetryLater(i) /\ UNCHANGED <<pc, msg, heard, confirmed>>
  <2>1. snap'[Poller] = snap[Poller] \ {i}
      BY <1>0, <1>4 DEF TypeInv, TypeOK, RetryLater
  <2>2. Split(snap[Poller] \ {i}, keep \cup Rescheduled(i),
              IF Rescheduled(i) = {} THEN walked \cup {i.m} ELSE walked, confirmed)
      BY <1>0, SplitRetry
  <2>3. Split(snap'[Poller], keep', walked', confirmed')
      BY <1>4, <2>1, <2>2 DEF RetryLater
  <2> QED
      BY <1>0, <1>4, <2>3, WalkSafe
<1> QED
    BY <1>1, <1>2, <1>3, <1>4

\* flush's neighbour check delivers the wire, keeps it or gives it up.
LEMMA FlushConfirmsSafe ==
    ASSUME TypeInv, SafeInv, FlushConfirms
    PROVE  SafeInv'
<1>0. /\ Poller \in Tasks /\ pc[Poller] = "confirm"
      /\ UNCHANGED <<outbox, faults, started, queued, dropped>>
      /\ Split(snap[Poller], keep, walked, confirmed)
      /\ snap[Poller] \in SUBSET Items
      /\ pc' = [pc EXCEPT ![Poller] = "walk"]
    BY PollerTask DEF FlushConfirms, Goto, SafeInv, FlushSplit, TypeInv, TypeOK
<1>1. PICK i \in snap[Poller] :
        \/ /\ confirmed' = confirmed \cup {i.m}
           /\ snap' = [snap EXCEPT ![Poller] = @ \ {i}]
           /\ UNCHANGED <<keep, walked>>
        \/ /\ RetryLater(i)
           /\ UNCHANGED confirmed
    BY DEF FlushConfirms
<1>2. snap'[Poller] = snap[Poller] \ {i}
    BY <1>0, <1>1 DEF TypeInv, TypeOK, RetryLater
<1>3. CASE confirmed' = confirmed \cup {i.m} /\ UNCHANGED <<keep, walked>>
  <2>1. Split(snap[Poller] \ {i}, keep, walked, confirmed \cup {i.m})
      BY <1>0, SplitDeliver
  <2> QED
      BY <1>0, <1>2, <1>3, <2>1, WalkSafe
<1>4. CASE RetryLater(i) /\ UNCHANGED confirmed
  <2>1. Split(snap[Poller] \ {i}, keep \cup Rescheduled(i),
              IF Rescheduled(i) = {} THEN walked \cup {i.m} ELSE walked, confirmed)
      BY <1>0, SplitRetry
  <2>2. Split(snap'[Poller], keep', walked', confirmed')
      BY <1>2, <1>4, <2>1 DEF RetryLater
  <2> QED
      BY <1>0, <1>4, <2>2, WalkSafe
<1> QED
    BY <1>1, <1>3, <1>4

\* flush's rewrite loses only what it delivered or gave up.
LEMMA FlushWritesSafe ==
    ASSUME TypeInv, SafeInv, FlushWrites
    PROVE  SafeInv'
<1>0. /\ Poller \in Tasks /\ pc[Poller] # "idle" /\ snap[Poller] = {}
      /\ Split(snap[Poller], keep, walked, confirmed)
      /\ UNCHANGED <<started, queued, confirmed>>
      /\ pc' = [pc EXCEPT ![Poller] = "idle"]
    BY PollerTask DEF FlushWrites, Goto, SafeInv, FlushSplit
<1>1. /\ Sequential' /\ Places' /\ WorkerSnap' /\ pc'[Poller] = "idle"
      /\ \A u \in Workers : pc'[u] = "idle"
    BY <1>0, PollerBusy, PollerAlone
<1>2. FlushSplit'
    BY <1>1 DEF FlushSplit
<1>3. /\ NoTwins(outbox)' /\ NoSilentLoss' /\ DroppedStaysDropped'
      /\ MsgsIn(outbox)' \subseteq queued' /\ dropped' \subseteq queued'
  <2>1. CASE changed
    <3>1. WriteItems(keep, walked)
        BY <2>1 DEF FlushWrites
    <3>2. keep \in SUBSET Items /\ walked \in SUBSET Msgs
        BY DEF TypeInv, TypeOK
    <3>3. /\ MsgsIn(keep) \subseteq MsgsIn(outbox) \cup {}
          /\ walked \subseteq MsgsIn(outbox) /\ MsgsIn(keep) \cap walked = {}
          /\ faults = 0 => MsgsIn(outbox) \cup {}
                               \subseteq MsgsIn(keep) \cup walked \cup confirmed'
          /\ NoTwins(keep)
        BY <1>0, MsgsInNone DEF Split
    <3>4. queued' = queued \cup {} /\ confirmed \subseteq confirmed'
        BY <1>0
    <3> QED
        BY <3>1, <3>2, <3>3, <3>4, WriteFacts
  <2>2. CASE ~changed
    <3>1. UNCHANGED <<outbox, dropped, faults>>
        BY <2>2 DEF FlushWrites
    <3> QED
        BY <1>0, <3>1, QuietStep DEF SafeInv, OnceQueued, MsgsIn
  <2> QED
      BY <2>1, <2>2
<1>4. OnceQueued'
    BY <1>0, <1>1, <1>3 DEF SafeInv, OnceQueued
<1> QED
    BY <1>1, <1>2, <1>3, <1>4 DEF SafeInv

\* An elapsed backoff moves no wire.
LEMMA BackoffElapsesSafe ==
    ASSUME TypeInv, SafeInv, NEW m \in Msgs, BackoffElapses(m)
    PROVE  SafeInv'
<1> USE PollerTask
<1>0. /\ outbox \in SUBSET Items /\ keep \in SUBSET Items
      /\ \A t \in Tasks : snap[t] \in SUBSET Items
    BY DEF TypeInv, TypeOK
<1>1. /\ MsgsIn(outbox') = MsgsIn(outbox) /\ NoTwins(outbox')
      /\ MsgsIn(keep') = MsgsIn(keep)
      /\ NoTwins(keep) => NoTwins(keep')
    BY <1>0, RipenFacts DEF BackoffElapses, SafeInv
<1>2. \A t \in Tasks : /\ MsgsIn(snap'[t]) = MsgsIn(snap[t])
                       /\ NoTwins(snap[t]) => NoTwins(snap'[t])
    BY <1>0, RipenFacts DEF BackoffElapses
<1>3. UNCHANGED <<pc, msg, topic, faults, started, queued, confirmed, walked, dropped>>
    BY DEF BackoffElapses, books
<1>4. /\ MsgsIn(outbox)' = MsgsIn(outbox) /\ NoTwins(outbox)'
    BY <1>1 DEF MsgsIn, NoTwins
<1>5. Sequential' /\ Places'
    BY <1>3 DEF SafeInv, Sequential, Busy, Places
<1>6. OnceQueued' /\ NoSilentLoss' /\ DroppedStaysDropped'
    BY <1>3, <1>4 DEF SafeInv, OnceQueued, NoSilentLoss, DroppedStaysDropped
<1>7. WorkerSnap'
  <2> SUFFICES ASSUME NEW t \in Workers, pc[t] \in {"enqueue_write", "purge_write"}
               PROVE  /\ NoTwins(snap'[t])
                      /\ MsgsIn(snap'[t]) \subseteq MsgsIn(outbox')
                      /\ faults = 0 => MsgsIn(outbox') \subseteq MsgsIn(snap'[t])
      BY <1>3 DEF WorkerSnap, NoTwins, MsgsIn
  <2> QED
      BY <1>1, <1>2 DEF SafeInv, WorkerSnap
<1>8. FlushSplit'
  <2> SUFFICES ASSUME pc[Poller] # "idle"
               PROVE  Split(snap[Poller], keep, walked, confirmed)'
      BY <1>3 DEF FlushSplit
  <2>1. Split(snap[Poller], keep, walked, confirmed)
      BY DEF SafeInv, FlushSplit
  <2>2. NoTwins(snap[Poller]) /\ NoTwins(keep)
      BY <2>1 DEF Split
  <2>3. MsgsIn(snap'[Poller]) = MsgsIn(snap[Poller]) /\ NoTwins(snap'[Poller])
      BY <2>2, <1>2
  <2>4. MsgsIn(keep') = MsgsIn(keep) /\ NoTwins(keep')
      BY <2>2, <1>1
  <2>5. MsgsIn(snap[Poller])' = MsgsIn(snap[Poller]) /\ MsgsIn(keep)' = MsgsIn(keep)
      BY <2>3, <2>4 DEF MsgsIn
  <2>6. NoTwins(snap[Poller])' /\ NoTwins(keep)'
      BY <2>3, <2>4 DEF NoTwins
  <2> QED
      BY <2>1, <2>5, <2>6, <1>3, <1>4 DEF Split
<1> QED
    BY <1>4, <1>5, <1>6, <1>7, <1>8 DEF SafeInv

\* A crash forgets what tasks hold and leaves the file as it was.
LEMMA CrashSafe == ASSUME TypeInv, SafeInv, Crash PROVE SafeInv'
<1>1. \A u \in Tasks : pc'[u] = "idle"
    BY DEF Crash
<1>2. Sequential' /\ Places' /\ WorkerSnap' /\ FlushSplit'
    BY <1>1, PollerTask DEF Sequential, Busy, Places, WorkerSnap, FlushSplit
<1>3. NoTwins(outbox)' /\ NoSilentLoss' /\ DroppedStaysDropped'
    BY QuietStep DEF Crash
<1>4. OnceQueued'
    BY <1>1, PollerTask DEF Crash, SafeInv, OnceQueued, MsgsIn
<1> QED
    BY <1>2, <1>3, <1>4 DEF SafeInv

\* Gossip neighbours coming and going, and stuttering, touch nothing of the queue.
LEMMA IdleSafe ==
    ASSUME SafeInv, UNCHANGED <<outbox, pc, msg, topic, snap, keep, faults, books>>
    PROVE  SafeInv'
<1>1. Sequential' /\ Places' /\ OnceQueued'
    BY DEF SafeInv, Sequential, Busy, Places, OnceQueued, MsgsIn, books
<1>2. WorkerSnap' /\ FlushSplit'
    BY DEF SafeInv, WorkerSnap, FlushSplit, Split, MsgsIn, NoTwins, books
<1>3. NoTwins(outbox)' /\ NoSilentLoss' /\ DroppedStaysDropped'
    BY QuietStep DEF books
<1> QED
    BY <1>1, <1>2, <1>3 DEF SafeInv

\* With one task at a time every step keeps the invariant.
LEMMA NextSafe == ~Overlap /\ TypeInv /\ SafeInv /\ [Next]_vars => SafeInv'
<1> SUFFICES ASSUME ~Overlap, TypeInv, SafeInv, [Next]_vars PROVE SafeInv'
    OBVIOUS
<1>1. CASE \E t \in Workers, m \in Msgs : PublishFirst(t, m)
    BY <1>1, PublishFirstSafe
<1>2. CASE \E t \in Workers, c \in Topics : PurgeReads(t, c)
    BY <1>2, PurgeReadsSafe
<1>3. CASE \E t \in Workers : Clear(t)
    BY <1>3, ClearSafe
<1>4. CASE \E t \in Workers : WorkerSteps(t)
    BY <1>4, ConfirmFirstSafe, EnqueueReadsSafe, EnqueueWritesSafe, PurgeWritesSafe
       DEF WorkerSteps
<1>5. CASE FlushSteps
    BY <1>5, FlushReadsSafe, FlushSkipsSafe, FlushPublishesSafe, FlushConfirmsSafe,
       FlushWritesSafe DEF FlushSteps
<1>6. CASE \E m \in Msgs : BackoffElapses(m)
    BY <1>6, BackoffElapsesSafe
<1>7. CASE \E c \in Topics : NeighborChanges(c)
    BY <1>7, IdleSafe DEF NeighborChanges, tasks
<1>8. CASE Crash
    BY <1>8, CrashSafe
<1>9. CASE UNCHANGED vars
    BY <1>9, IdleSafe DEF vars, tasks
<1> QED
    BY <1>1, <1>2, <1>3, <1>4, <1>5, <1>6, <1>7, <1>8, <1>9 DEF Next

\* With one task at a time the invariant holds in every reachable state.
LEMMA AlwaysSafe == ~Overlap /\ Spec => []SafeInv
<1>1. ~Overlap /\ Init => TypeInv /\ SafeInv /\ ~Overlap
    BY InitType, InitSafe
<1>2. (TypeInv /\ SafeInv /\ ~Overlap) /\ [Next]_vars => (TypeInv /\ SafeInv /\ ~Overlap)'
    BY NextType, NextSafe
<1> QED
    BY <1>1, <1>2, PTL DEF Spec

\* A wire publish_or_enqueue reported as queued is in the file, delivered or
\* dropped on purpose, through every crash, as long as tasks do not overlap
\* and storage works.
THEOREM OutboxNoSilentLoss == ~Overlap /\ Spec => []NoSilentLoss
<1>1. SafeInv => NoSilentLoss
    BY DEF SafeInv
<1> QED
    BY <1>1, AlwaysSafe, PTL

\* What flush gave up on, what made room and what purge_topic or clear removed
\* never returns to the file, even when storage calls fail.
THEOREM OutboxDroppedStaysDropped == ~Overlap /\ Spec => []DroppedStaysDropped
<1>1. SafeInv => DroppedStaysDropped
    BY DEF SafeInv
<1> QED
    BY <1>1, AlwaysSafe, PTL

-----------------------------------------------------------------------------
(* The queue stays within MAX_ITEMS and free of twins, tasks overlapping or *)
(* not: every rewrite is made from one snapshot of a queue that was within *)
(* them, and the one wire it may add is no task's but its own.             *)

Small(items) == IsFiniteSet(items) /\ Cardinality(items) <= MAX_ITEMS /\ NoTwins(items)

\* A wire that publish_or_enqueue has in hand.
InHand(t) == pc[t] \in {"confirm", "enqueue", "enqueue_write"}

\* What flush has yet to walk, and what it keeps, share the snapshot's room.
Halves(ahead, kept) ==
    /\ IsFiniteSet(ahead) /\ IsFiniteSet(kept)
    /\ Cardinality(ahead) + Cardinality(kept) <= MAX_ITEMS
    /\ NoTwins(ahead) /\ NoTwins(kept)
    /\ MsgsIn(ahead) \cap MsgsIn(kept) = {}

OwnWire ==
    /\ queued \subseteq started
    /\ \A t \in Workers : InHand(t) =>
         /\ msg[t] \in started \ queued
         /\ \A u \in Workers : InHand(u) /\ msg[u] = msg[t] => u = t

Snaps == \A t \in Workers : Small(snap[t]) /\ MsgsIn(snap[t]) \subseteq queued

File == Small(outbox) /\ MsgsIn(outbox) \subseteq queued

Flushed == Halves(snap[Poller], keep) /\ MsgsIn(snap[Poller]) \cup MsgsIn(keep) \subseteq queued

BoundInv == OwnWire /\ Snaps /\ File /\ Flushed

\* An empty queue is within the bound.
LEMMA SmallNone == Small({}) /\ MsgsIn({}) = {}
    BY OutboxConstants, FS_EmptySet DEF Small, NoTwins, MsgsIn

\* Dropping items does no harm.
LEMMA SmallSubset ==
    ASSUME NEW S, Small(S), NEW T \in SUBSET S
    PROVE  Small(T) /\ MsgsIn(T) \subseteq MsgsIn(S)
<1>1. IsFiniteSet(T) /\ Cardinality(T) <= Cardinality(S)
    BY FS_Subset DEF Small
<1>2. Cardinality(T) \in Nat /\ Cardinality(S) \in Nat
    BY <1>1, FS_CardinalityType DEF Small
<1> QED
    BY <1>1, <1>2, OutboxConstants DEF Small, NoTwins, MsgsIn

\* An elapsed backoff makes no item of none.
LEMMA RipenCount ==
    ASSUME NEW S, IsFiniteSet(S), NEW m
    PROVE  IsFiniteSet(Ripen(S, m)) /\ Cardinality(Ripen(S, m)) <= Cardinality(S)
<1> DEFINE f == [i \in S |-> [i EXCEPT !.due = i.due \/ i.m = m]]
           T == {[i EXCEPT !.due = i.due \/ i.m = m] : i \in S}
<1>1. f \in Surjection(S, T)
    BY DEF Surjection
<1>2. Ripen(S, m) = T
    BY DEF Ripen
<1> HIDE DEF f, T
<1> QED
    BY <1>1, <1>2, FS_Surjection

LEMMA SmallRipen ==
    ASSUME NEW S \in SUBSET Items, Small(S), NEW m
    PROVE  Small(Ripen(S, m)) /\ MsgsIn(Ripen(S, m)) = MsgsIn(S)
<1>1. /\ IsFiniteSet(Ripen(S, m)) /\ Cardinality(Ripen(S, m)) <= Cardinality(S)
      /\ MsgsIn(Ripen(S, m)) = MsgsIn(S) /\ NoTwins(Ripen(S, m))
    BY RipenCount, RipenFacts DEF Small
<1>2. Cardinality(Ripen(S, m)) \in Nat /\ Cardinality(S) \in Nat
    BY <1>1, FS_CardinalityType DEF Small
<1> QED
    BY <1>1, <1>2, OutboxConstants DEF Small

\* A queue that is not empty has an oldest item.
LEMMA OldestExists ==
    ASSUME NEW S \in SUBSET Items, S # {}
    PROVE  \E i \in S : IsOldest(i, S)
<1>1. {i.ord : i \in S} \in SUBSET Nat /\ {i.ord : i \in S} # {}
    BY DEF Items
<1>2. PICK n \in {i.ord : i \in S} : \A x \in {i.ord : i \in S} : n <= x
    BY <1>1, LeastNat
<1> QED
    BY <1>2 DEF IsOldest

\* enqueue's push fits: a full queue loses its oldest item first.
LEMMA RoomSmall ==
    ASSUME NEW S \in SUBSET Items, Small(S), NEW i, i.m \notin MsgsIn(S)
    PROVE  /\ Small(MadeRoom(S) \cup {i})
           /\ MsgsIn(MadeRoom(S) \cup {i}) \subseteq MsgsIn(S) \cup {i.m}
<1> DEFINE R == MadeRoom(S)
<1>1. Cardinality(S) \in Nat /\ IsFiniteSet(S) /\ MAX_ITEMS \in Nat /\ MAX_ITEMS > 0
    BY FS_CardinalityType, OutboxConstants DEF Small
<1>2. R \in SUBSET S /\ Cardinality(R) + 1 <= MAX_ITEMS
  <2>1. CASE Cardinality(S) >= MAX_ITEMS
    <3>1. S # {}
        BY <1>1, <2>1, FS_EmptySet
    <3>2. PICK j \in S : IsOldest(j, S)
        BY <3>1, OldestExists
    <3>3. R \in SUBSET (S \ {j})
        BY <2>1, <3>2 DEF MadeRoom
    <3>4. IsFiniteSet(S \ {j}) /\ Cardinality(S \ {j}) = Cardinality(S) - 1
        BY <1>1, FS_RemoveElement
    <3>5. IsFiniteSet(R) /\ Cardinality(R) <= Cardinality(S) - 1
        BY <3>3, <3>4, FS_Subset
    <3>6. Cardinality(R) \in Nat
        BY <3>5, FS_CardinalityType
    <3> QED
        BY <1>1, <3>3, <3>5, <3>6 DEF Small
  <2>2. CASE ~(Cardinality(S) >= MAX_ITEMS)
    <3>1. R = S
        BY <2>2 DEF MadeRoom
    <3> QED
        BY <1>1, <2>2, <3>1
  <2> QED
      BY <2>1, <2>2
<1> HIDE DEF R
<1>3. Small(R) /\ MsgsIn(R) \subseteq MsgsIn(S)
    BY <1>2, SmallSubset
<1>4. IsFiniteSet(R \cup {i}) /\ Cardinality(R \cup {i}) <= MAX_ITEMS
  <2>1. Cardinality(R) \in Nat /\ IsFiniteSet(R)
      BY <1>3, FS_CardinalityType DEF Small
  <2>2. IsFiniteSet(R \cup {i})
        /\ Cardinality(R \cup {i}) = IF i \in R THEN Cardinality(R) ELSE Cardinality(R) + 1
      BY <2>1, FS_AddElement
  <2> QED
      BY <1>1, <1>2, <2>1, <2>2
<1>5. MsgsIn({i}) = {i.m} /\ NoTwins({i})
    BY DEF MsgsIn, NoTwins
<1>6. NoTwins(R \cup {i})
    BY <1>3, <1>5, TwinFreeUnion DEF Small
<1>7. MsgsIn(R \cup {i}) = MsgsIn(R) \cup {i.m}
    BY <1>5, MsgsInUnion
<1>8. Small(R \cup {i}) /\ MsgsIn(R \cup {i}) \subseteq MsgsIn(S) \cup {i.m}
    BY <1>3, <1>4, <1>6, <1>7 DEF Small
<1> QED
    BY <1>8 DEF R

\* flush drops an item, keeps it, or keeps what a failed retry leaves of it.
LEMMA HalvesMove ==
    ASSUME NEW S, NEW K, Halves(S, K), NEW i \in S, NEW L, L = {} \/ \E j : L = {j} /\ j.m = i.m
    PROVE  /\ Halves(S \ {i}, K \cup L)
           /\ MsgsIn(S \ {i}) \cup MsgsIn(K \cup L) \subseteq MsgsIn(S) \cup MsgsIn(K)
<1>1. /\ IsFiniteSet(S) /\ IsFiniteSet(K) /\ Cardinality(S) \in Nat /\ Cardinality(K) \in Nat
      /\ Cardinality(S) + Cardinality(K) <= MAX_ITEMS /\ MAX_ITEMS \in Nat
    BY FS_CardinalityType, OutboxConstants DEF Halves
<1>2. IsFiniteSet(S \ {i}) /\ Cardinality(S \ {i}) = Cardinality(S) - 1
    BY <1>1, FS_RemoveElement
<1>3. /\ NoTwins(S \ {i}) /\ MsgsIn(S \ {i}) = MsgsIn(S) \ {i.m} /\ i.m \in MsgsIn(S)
      /\ NoTwins(K) /\ MsgsIn(S) \cap MsgsIn(K) = {}
    BY WithoutItem DEF Halves
<1>4. CASE L = {}
  <2>1. K \cup L = K
      BY <1>4
  <2>2. Cardinality(S) - 1 + Cardinality(K) <= MAX_ITEMS
      BY <1>1
  <2> QED
      BY <1>1, <1>2, <1>3, <2>1, <2>2 DEF Halves
<1>5. ASSUME NEW j, L = {j}, j.m = i.m
      PROVE  /\ Halves(S \ {i}, K \cup L)
             /\ MsgsIn(S \ {i}) \cup MsgsIn(K \cup L) \subseteq MsgsIn(S) \cup MsgsIn(K)
  <2>1. IsFiniteSet(K \cup {j})
        /\ Cardinality(K \cup {j}) = IF j \in K THEN Cardinality(K) ELSE Cardinality(K) + 1
      BY <1>1, FS_AddElement
  <2>2. Cardinality(S) - 1 + Cardinality(K \cup {j}) <= MAX_ITEMS
      BY <1>1, <2>1
  <2>3. MsgsIn({j}) = {i.m} /\ NoTwins({j})
      BY <1>5 DEF MsgsIn, NoTwins
  <2>4. MsgsIn(K \cup {j}) = MsgsIn(K) \cup {i.m}
      BY <2>3, MsgsInUnion
  <2>5. NoTwins(K \cup {j})
    <3>1. MsgsIn(K) \cap MsgsIn({j}) = {}
        BY <1>3, <2>3
    <3> QED
        BY <1>3, <2>3, <3>1, TwinFreeUnion
  <2> QED
      BY <1>2, <1>3, <1>5, <2>1, <2>2, <2>4, <2>5 DEF Halves
<1> QED
    BY <1>4, <1>5

\* What flush leaves of an item after a failed retry is the item again, or nothing.
LEMMA RescheduledOne ==
    ASSUME NEW i
    PROVE  Rescheduled(i) = {} \/ \E j : Rescheduled(i) = {j} /\ j.m = i.m
<1> DEFINE j == [m |-> i.m, retries |-> i.retries + 1, due |-> FALSE, ord |-> i.ord]
<1>1. j.m = i.m /\ (Rescheduled(i) = {} \/ Rescheduled(i) = {j})
    BY DEF Rescheduled
<1> HIDE DEF j
<1> QED
    BY <1>1

\* What flush keeps may be written.
LEMMA KeptSmall ==
    ASSUME NEW S, NEW K, Halves(S, K)
    PROVE  Small(K)
<1>1. Cardinality(S) \in Nat /\ Cardinality(K) \in Nat
    BY FS_CardinalityType DEF Halves
<1> QED
    BY <1>1, OutboxConstants DEF Halves, Small

\* What flush reads it has yet to walk.
LEMMA ReadHalves ==
    ASSUME NEW S, Small(S)
    PROVE  Halves(S, {})
<1>1. Cardinality(S) \in Nat /\ Cardinality({}) = 0 /\ IsFiniteSet({})
    BY FS_CardinalityType, FS_EmptySet DEF Small
<1>2. Cardinality(S) + Cardinality({}) <= MAX_ITEMS
    BY <1>1, OutboxConstants DEF Small
<1> QED
    BY <1>1, <1>2, SmallNone DEF Halves, Small

\* read_items and write_items, on the files the bound is about.
LEMMA ReadBound ==
    ASSUME TypeInv, BoundInv, NEW t \in Tasks, ReadItems(t)
    PROVE  /\ Small(snap'[t]) /\ MsgsIn(snap'[t]) \subseteq queued
           /\ \A u \in Tasks : u # t => snap'[u] = snap[u]
<1>1. PICK S \in {outbox, {}} : snap' = [snap EXCEPT ![t] = S]
    BY DEF ReadItems
<1>2. snap'[t] = S /\ \A u \in Tasks : u # t => snap'[u] = snap[u]
    BY <1>1 DEF TypeInv, TypeOK
<1>3. Small(S) /\ MsgsIn(S) \subseteq queued
    BY SmallNone DEF BoundInv, File
<1> QED
    BY <1>2, <1>3

LEMMA WriteBound ==
    ASSUME BoundInv, NEW items, NEW gone, WriteItems(items, gone), Small(items),
           queued \subseteq queued', MsgsIn(items) \subseteq queued'
    PROVE  File'
<1>1. Small(outbox') /\ MsgsIn(outbox') \subseteq queued'
    BY DEF WriteItems, BoundInv, File
<1> QED
    BY <1>1 DEF File

\* The workers' hands and snapshots, while flush or nobody works.
LEMMA OthersRest ==
    ASSUME BoundInv, UNCHANGED queued, started \subseteq started',
           \A t \in Workers : pc'[t] = pc[t] /\ msg'[t] = msg[t] /\ snap'[t] = snap[t]
    PROVE  OwnWire' /\ Snaps'
<1>1. OwnWire'
    BY DEF BoundInv, OwnWire, InHand
<1>2. Snaps'
    BY DEF BoundInv, Snaps
<1> QED
    BY <1>1, <1>2

LEMMA PublishFirstBound ==
    ASSUME TypeInv, BoundInv, NEW t \in Workers, NEW m \in Msgs, PublishFirst(t, m)
    PROVE  BoundInv'
<1> USE PollerTask
<1>1. UNCHANGED <<outbox, snap, keep, queued>> /\ started' = started \cup {m} /\ m \notin started
    BY DEF PublishFirst
<1>2. /\ \A u \in Workers : u # t => pc'[u] = pc[u] /\ msg'[u] = msg[u]
      /\ \/ pc'[t] = "idle"
         \/ msg'[t] = m
    BY DEF PublishFirst, Goto, Busy, TypeInv, TypeOK
<1>3. OwnWire'
    BY <1>1, <1>2 DEF BoundInv, OwnWire, InHand
<1>4. Snaps' /\ File' /\ Flushed'
    BY <1>1 DEF BoundInv, Snaps, File, Flushed
<1> QED
    BY <1>3, <1>4 DEF BoundInv

LEMMA ConfirmFirstBound ==
    ASSUME TypeInv, BoundInv, NEW t \in Workers, ConfirmFirst(t)
    PROVE  BoundInv'
<1> USE PollerTask
<1>1. UNCHANGED <<outbox, snap, keep, queued, started>>
    BY DEF ConfirmFirst
<1>2. /\ \A u \in Workers : u # t => pc'[u] = pc[u] /\ msg'[u] = msg[u]
      /\ pc[t] = "confirm"
      /\ \/ pc'[t] = "idle"
         \/ msg'[t] = msg[t]
    BY DEF ConfirmFirst, Goto, TypeInv, TypeOK
<1>3. OwnWire'
    BY <1>1, <1>2 DEF BoundInv, OwnWire, InHand
<1>4. Snaps' /\ File' /\ Flushed'
    BY <1>1 DEF BoundInv, Snaps, File, Flushed
<1> QED
    BY <1>3, <1>4 DEF BoundInv

\* enqueue and purge_topic read the file.
LEMMA ReadsBound ==
    ASSUME TypeInv, BoundInv, NEW t \in Workers,
           EnqueueReads(t) \/ \E c \in Topics : PurgeReads(t, c)
    PROVE  BoundInv'
<1> USE PollerTask
<1>1. UNCHANGED <<outbox, keep, queued, started, msg>> /\ ReadItems(t)
    BY DEF EnqueueReads, PurgeReads, books
<1>2. /\ \A u \in Workers : u # t => pc'[u] = pc[u]
      /\ pc[t] = "enqueue" \/ pc'[t] = "purge_write"
    BY DEF EnqueueReads, PurgeReads, Goto, TypeInv, TypeOK
<1>3. OwnWire'
    BY <1>1, <1>2 DEF BoundInv, OwnWire, InHand
<1>4. Small(snap'[t]) /\ MsgsIn(snap'[t]) \subseteq queued
      /\ \A u \in Tasks : u # t => snap'[u] = snap[u]
    BY <1>1, ReadBound
<1>5. Snaps'
    BY <1>1, <1>4 DEF BoundInv, Snaps
<1>6. snap'[Poller] = snap[Poller]
    BY <1>4, OutboxConstants
<1>7. File' /\ Flushed'
    BY <1>1, <1>6 DEF BoundInv, File, Flushed
<1> QED
    BY <1>3, <1>5, <1>7 DEF BoundInv

LEMMA EnqueueWritesBound ==
    ASSUME TypeInv, BoundInv, NEW t \in Workers, EnqueueWrites(t)
    PROVE  BoundInv'
<1> USE PollerTask
<1> DEFINE room == MadeRoom(snap[t])
           item == NewItem(msg[t])
<1>1. /\ pc[t] = "enqueue_write" /\ UNCHANGED <<keep, started>>
      /\ WriteItems(room \cup {item}, MsgsIn(snap[t]) \ MsgsIn(room))
      /\ queued' = queued \cup {msg[t]}
    BY DEF EnqueueWrites
<1>2. /\ pc'[t] = "idle" /\ snap'[t] = {}
      /\ \A u \in Tasks : u # t => pc'[u] = pc[u] /\ msg'[u] = msg[u] /\ snap'[u] = snap[u]
    BY DEF EnqueueWrites, Goto, TypeInv, TypeOK
<1>3. /\ msg[t] \in started /\ msg[t] \notin queued
      /\ \A u \in Workers : InHand(u) /\ msg[u] = msg[t] => u = t
    BY <1>1 DEF BoundInv, OwnWire, InHand
<1>4. OwnWire'
    BY <1>1, <1>2, <1>3 DEF BoundInv, OwnWire, InHand
<1>5. Snaps'
    BY <1>1, <1>2, SmallNone DEF BoundInv, Snaps
<1>6. File'
  <2>1. item.m = msg[t]
      BY DEF NewItem
  <2>2. Small(snap[t]) /\ MsgsIn(snap[t]) \subseteq queued /\ snap[t] \in SUBSET Items
      BY DEF BoundInv, Snaps, TypeInv, TypeOK
  <2>3. item.m \notin MsgsIn(snap[t])
      BY <1>3, <2>1, <2>2
  <2> HIDE DEF item
  <2>4. /\ Small(room \cup {item})
        /\ MsgsIn(room \cup {item}) \subseteq MsgsIn(snap[t]) \cup {item.m}
      BY <2>2, <2>3, RoomSmall
  <2>5. MsgsIn(room \cup {item}) \subseteq queued' /\ queued \subseteq queued'
      BY <1>1, <2>1, <2>2, <2>4
  <2> HIDE DEF room
  <2> QED
      BY <1>1, <2>4, <2>5, WriteBound
<1>7. Flushed'
  <2>1. snap'[Poller] = snap[Poller]
      BY <1>2, OutboxConstants
  <2> QED
      BY <1>1, <2>1 DEF BoundInv, Flushed
<1> QED
    BY <1>4, <1>5, <1>6, <1>7 DEF BoundInv

LEMMA PurgeWritesBound ==
    ASSUME TypeInv, BoundInv, NEW t \in Workers, PurgeWrites(t)
    PROVE  BoundInv'
<1> USE PollerTask
<1> DEFINE kept == KeptByPurge(snap[t], topic[t])
           gone == {m \in MsgsIn(snap[t]) : TopicOf[m] = topic[t]}
<1>1. UNCHANGED <<keep, started, queued, msg>> /\ WriteItems(kept, gone)
    BY DEF PurgeWrites
<1>2. /\ pc'[t] = "idle" /\ snap'[t] = {}
      /\ \A u \in Tasks : u # t => pc'[u] = pc[u] /\ snap'[u] = snap[u]
    BY DEF PurgeWrites, Goto, TypeInv, TypeOK
<1>3. OwnWire'
    BY <1>1, <1>2 DEF BoundInv, OwnWire, InHand
<1>4. Snaps'
    BY <1>1, <1>2, SmallNone DEF BoundInv, Snaps
<1>5. File'
  <2>1. Small(snap[t]) /\ MsgsIn(snap[t]) \subseteq queued /\ kept \in SUBSET snap[t]
      BY DEF BoundInv, Snaps, KeptByPurge
  <2> HIDE DEF kept, gone
  <2>2. Small(kept) /\ MsgsIn(kept) \subseteq queued
      BY <2>1, SmallSubset
  <2> QED
      BY <1>1, <2>2, WriteBound
<1>6. Flushed'
  <2>1. snap'[Poller] = snap[Poller]
      BY <1>2, OutboxConstants
  <2> QED
      BY <1>1, <2>1 DEF BoundInv, Flushed
<1> QED
    BY <1>3, <1>4, <1>5, <1>6 DEF BoundInv

LEMMA ClearBound ==
    ASSUME TypeInv, BoundInv, NEW t \in Workers, Clear(t)
    PROVE  BoundInv'
<1>1. UNCHANGED <<pc, msg, snap, keep, started, queued>> /\ WriteItems({}, MsgsIn(outbox))
    BY DEF Clear, tasks
<1>2. OwnWire' /\ Snaps' /\ Flushed'
    BY <1>1 DEF BoundInv, OwnWire, InHand, Snaps, Flushed
<1>3. File'
    BY <1>1, SmallNone, WriteBound
<1> QED
    BY <1>2, <1>3 DEF BoundInv

LEMMA FlushReadsBound ==
    ASSUME TypeInv, BoundInv, FlushReads
    PROVE  BoundInv'
<1> USE PollerTask
<1>1. UNCHANGED <<outbox, msg, started, queued>> /\ keep' = {} /\ ReadItems(Poller)
    BY DEF FlushReads
<1>2. /\ Small(snap'[Poller]) /\ MsgsIn(snap'[Poller]) \subseteq queued
      /\ \A u \in Tasks : u # Poller => snap'[u] = snap[u]
    BY <1>1, ReadBound
<1>3. \A u \in Workers : pc'[u] = pc[u] /\ msg'[u] = msg[u] /\ snap'[u] = snap[u]
    BY <1>1, <1>2, OutboxConstants DEF FlushReads, Goto, TypeInv, TypeOK
<1>4. OwnWire' /\ Snaps'
    BY <1>1, <1>3, OthersRest
<1>5. Halves(snap'[Poller], {})
    BY <1>2, ReadHalves
<1>6. File' /\ Flushed'
    BY <1>1, <1>2, <1>5, SmallNone DEF BoundInv, File, Flushed
<1> QED
    BY <1>4, <1>6 DEF BoundInv

\* flush is done with item i and keeps L for it.
LEMMA WalkBound ==
    ASSUME TypeInv, BoundInv, NEW i \in snap[Poller], NEW L, L = {} \/ \E j : L = {j} /\ j.m = i.m,
           snap' = [snap EXCEPT ![Poller] = @ \ {i}], keep' = keep \cup L,
           UNCHANGED <<outbox, started, queued>>,
           \A u \in Workers : pc'[u] = pc[u] /\ msg'[u] = msg[u]
    PROVE  BoundInv'
<1> USE PollerTask
<1>1. /\ snap'[Poller] = snap[Poller] \ {i}
      /\ \A u \in Workers : snap'[u] = snap[u]
    BY OutboxConstants DEF TypeInv, TypeOK
<1>2. OwnWire' /\ Snaps'
    BY <1>1, OthersRest
<1>3. /\ Halves(snap[Poller] \ {i}, keep \cup L)
      /\ MsgsIn(snap[Poller] \ {i}) \cup MsgsIn(keep \cup L) \subseteq MsgsIn(snap[Poller]) \cup MsgsIn(keep)
    BY HalvesMove DEF BoundInv, Flushed
<1>4. Flushed'
    BY <1>1, <1>3 DEF BoundInv, Flushed
<1>5. File'
    BY DEF BoundInv, File
<1> QED
    BY <1>2, <1>4, <1>5 DEF BoundInv

\* While flush waits for an answer nothing but its place changes.
LEMMA FlushWaits ==
    ASSUME TypeInv, BoundInv, UNCHANGED <<outbox, snap, keep, started, queued>>,
           \A u \in Workers : pc'[u] = pc[u] /\ msg'[u] = msg[u]
    PROVE  BoundInv'
<1>1. OwnWire' /\ Snaps'
    BY OthersRest
<1>2. File' /\ Flushed'
    BY DEF BoundInv, File, Flushed
<1> QED
    BY <1>1, <1>2 DEF BoundInv

LEMMA FlushBound ==
    ASSUME TypeInv, BoundInv, FlushSkips \/ FlushPublishes \/ FlushConfirms
    PROVE  BoundInv'
<1> USE PollerTask
<1>1. UNCHANGED <<outbox, started, queued>>
    BY DEF FlushSkips, FlushPublishes, FlushConfirms, books
<1>2. \A u \in Workers : pc'[u] = pc[u] /\ msg'[u] = msg[u]
    BY OutboxConstants DEF FlushSkips, FlushPublishes, FlushConfirms, Goto, TypeInv, TypeOK
<1>3. CASE FlushSkips
  <2>1. PICK i \in snap[Poller] : /\ keep' = keep \cup {i}
                                  /\ snap' = [snap EXCEPT ![Poller] = @ \ {i}]
      BY <1>3 DEF FlushSkips
  <2> QED
      BY <1>1, <1>2, <2>1, WalkBound
<1>4. ASSUME NEW i \in snap[Poller],
             /\ snap' = [snap EXCEPT ![Poller] = @ \ {i}]
             /\ keep' = keep \/ keep' = keep \cup Rescheduled(i)
      PROVE  BoundInv'
  <2>1. CASE keep' = keep
    <3>1. keep' = keep \cup {}
        BY <2>1
    <3> QED
        BY <1>1, <1>2, <1>4, <3>1, WalkBound
  <2>2. CASE keep' = keep \cup Rescheduled(i)
      BY <1>1, <1>2, <1>4, <2>2, RescheduledOne, WalkBound
  <2> QED
      BY <1>4, <2>1, <2>2
<1>5. CASE FlushPublishes
  <2>1. \/ UNCHANGED <<snap, keep>>
        \/ \E i \in snap[Poller] : /\ snap' = [snap EXCEPT ![Poller] = @ \ {i}]
                                   /\ keep' = keep \/ keep' = keep \cup Rescheduled(i)
      BY <1>5 DEF FlushPublishes, RetryLater
  <2> QED
      BY <1>1, <1>2, <1>4, <2>1, FlushWaits
<1>6. CASE FlushConfirms
  <2>1. \E i \in snap[Poller] : /\ snap' = [snap EXCEPT ![Poller] = @ \ {i}]
                                /\ keep' = keep \/ keep' = keep \cup Rescheduled(i)
      BY <1>6 DEF FlushConfirms, RetryLater
  <2> QED
      BY <1>4, <2>1
<1> QED
    BY <1>3, <1>5, <1>6

LEMMA FlushWritesBound ==
    ASSUME TypeInv, BoundInv, FlushWrites
    PROVE  BoundInv'
<1> USE PollerTask
<1>1. /\ UNCHANGED <<msg, snap, started, queued>> /\ keep' = {} /\ snap[Poller] = {}
      /\ WriteItems(keep, walked) \/ UNCHANGED outbox
    BY DEF FlushWrites
<1>2. \A u \in Workers : pc'[u] = pc[u] /\ msg'[u] = msg[u] /\ snap'[u] = snap[u]
    BY <1>1, OutboxConstants DEF FlushWrites, Goto, TypeInv, TypeOK
<1>3. OwnWire' /\ Snaps'
    BY <1>1, <1>2, OthersRest
<1>4. Small(keep) /\ MsgsIn(keep) \subseteq queued
    BY KeptSmall DEF BoundInv, Flushed
<1>5. File'
  <2>1. CASE WriteItems(keep, walked)
      BY <1>1, <1>4, <2>1, WriteBound
  <2>2. CASE UNCHANGED outbox
      BY <1>1, <2>2 DEF BoundInv, File
  <2> QED
      BY <1>1, <2>1, <2>2
<1>6. Halves({}, {})
    BY SmallNone, ReadHalves
<1>7. Flushed'
    BY <1>1, <1>6, SmallNone DEF Flushed
<1> QED
    BY <1>3, <1>5, <1>7 DEF BoundInv

LEMMA BackoffElapsesBound ==
    ASSUME TypeInv, BoundInv, NEW m \in Msgs, BackoffElapses(m)
    PROVE  BoundInv'
<1> USE PollerTask
<1>1. /\ outbox' = Ripen(outbox, m) /\ keep' = Ripen(keep, m)
      /\ snap'[Poller] = snap[Poller]
      /\ \A t \in Workers : snap'[t] = Ripen(snap[t], m)
      /\ UNCHANGED <<pc, msg, started, queued>>
    BY OutboxConstants DEF BackoffElapses, books
<1>2. /\ outbox \in SUBSET Items /\ keep \in SUBSET Items
      /\ \A t \in Workers : snap[t] \in SUBSET Items
    BY DEF TypeInv, TypeOK
<1>3. OwnWire'
    BY <1>1 DEF BoundInv, OwnWire, InHand
<1>4. Small(outbox') /\ MsgsIn(outbox') = MsgsIn(outbox)
    BY <1>1, <1>2, SmallRipen DEF BoundInv, File
<1>5. \A t \in Workers : Small(snap'[t]) /\ MsgsIn(snap'[t]) = MsgsIn(snap[t])
    BY <1>1, <1>2, SmallRipen DEF BoundInv, Snaps
<1>6. Halves(snap[Poller], keep') /\ MsgsIn(keep') = MsgsIn(keep)
  <2> DEFINE S == snap[Poller]
             K == keep'
  <2>1. /\ IsFiniteSet(K) /\ Cardinality(K) <= Cardinality(keep)
        /\ MsgsIn(K) = MsgsIn(keep) /\ NoTwins(K)
      BY <1>1, <1>2, RipenCount, RipenFacts DEF BoundInv, Flushed, Halves
  <2>2. /\ Cardinality(K) \in Nat /\ Cardinality(keep) \in Nat /\ Cardinality(S) \in Nat
        /\ Cardinality(S) + Cardinality(keep) <= MAX_ITEMS /\ MAX_ITEMS \in Nat
      BY <2>1, FS_CardinalityType, OutboxConstants DEF BoundInv, Flushed, Halves
  <2>3. Cardinality(S) + Cardinality(K) <= MAX_ITEMS
      BY <2>1, <2>2
  <2> QED
      BY <2>1, <2>3 DEF BoundInv, Flushed, Halves
<1>7. Snaps' /\ File' /\ Flushed'
    BY <1>1, <1>4, <1>5, <1>6 DEF BoundInv, Snaps, File, Flushed
<1> QED
    BY <1>3, <1>7 DEF BoundInv

LEMMA CrashBound ==
    ASSUME TypeInv, BoundInv, Crash
    PROVE  BoundInv'
<1>1. /\ \A t \in Tasks : pc'[t] = "idle" /\ snap'[t] = {}
      /\ keep' = {} /\ UNCHANGED <<outbox, started, queued>>
    BY DEF Crash
<1>2. Halves({}, {})
    BY SmallNone, ReadHalves
<1>3. OwnWire' /\ Snaps' /\ File' /\ Flushed'
    BY <1>1, <1>2, SmallNone, PollerTask DEF BoundInv, OwnWire, InHand, Snaps, File, Flushed
<1> QED
    BY <1>3 DEF BoundInv

LEMMA InitBound == Init => BoundInv
<1> SUFFICES ASSUME Init PROVE BoundInv
    OBVIOUS
<1>1. /\ \A t \in Tasks : pc[t] = "idle" /\ snap[t] = {}
      /\ keep = {} /\ outbox = {} /\ started = {} /\ queued = {}
    BY DEF Init
<1>2. Halves({}, {})
    BY SmallNone, ReadHalves
<1> QED
    BY <1>1, <1>2, SmallNone, PollerTask DEF BoundInv, OwnWire, InHand, Snaps, File, Flushed

\* Every step of every task keeps the queue within its bound.
LEMMA NextBound == TypeInv /\ BoundInv /\ [Next]_vars => BoundInv'
<1> SUFFICES ASSUME TypeInv, BoundInv, [Next]_vars PROVE BoundInv'
    OBVIOUS
<1>1. CASE \E t \in Workers, m \in Msgs : PublishFirst(t, m)
    BY <1>1, PublishFirstBound
<1>2. CASE \E t \in Workers, c \in Topics : PurgeReads(t, c)
    BY <1>2, ReadsBound
<1>3. CASE \E t \in Workers : Clear(t)
    BY <1>3, ClearBound
<1>4. CASE \E t \in Workers : WorkerSteps(t)
    BY <1>4, ConfirmFirstBound, ReadsBound, EnqueueWritesBound, PurgeWritesBound DEF WorkerSteps
<1>5. CASE FlushSteps
    BY <1>5, FlushReadsBound, FlushBound, FlushWritesBound DEF FlushSteps
<1>6. CASE \E m \in Msgs : BackoffElapses(m)
    BY <1>6, BackoffElapsesBound
<1>7. CASE \E c \in Topics : NeighborChanges(c)
    BY <1>7, FlushWaits DEF NeighborChanges, tasks, books
<1>8. CASE Crash
    BY <1>8, CrashBound
<1>9. CASE UNCHANGED vars
    BY <1>9, FlushWaits DEF vars, tasks, books
<1> QED
    BY <1>1, <1>2, <1>3, <1>4, <1>5, <1>6, <1>7, <1>8, <1>9 DEF Next

\* The file never exceeds MAX_ITEMS and holds no wire twice, tasks overlapping
\* or not: enqueue makes room before it pushes, and whoever rewrites the file
\* writes no more than it read and a wire nobody else has.
THEOREM OutboxBoundedNoTwins == Spec => []BoundedNoTwins
<1>1. Init => TypeInv /\ BoundInv
    BY InitType, InitBound
<1>2. (TypeInv /\ BoundInv) /\ [Next]_vars => (TypeInv /\ BoundInv)'
    BY NextType, NextBound
<1>3. BoundInv => BoundedNoTwins
    BY DEF BoundInv, File, Small, NoTwins, BoundedNoTwins
<1> QED
    BY <1>1, <1>2, <1>3, PTL DEF Spec

-----------------------------------------------------------------------------
(* What the bridge of a tab keeps: the calls its tasks have left, one probe *)
(* at a time, and the route a write goes by.                               *)

\* The calls a probe, and any other task, may have left.
ProbeCalls ==
    {<<"cap", "whoami", "redeem", "session">>,
     <<"redeem", "request", "whoami", "redeem", "session">>,
     <<"request", "whoami", "redeem", "session">>,
     <<"whoami", "redeem", "session">>, <<"redeem", "session">>, <<"session">>}
BootCalls ==
    {<<"redeem", "scrub", "cap">>, <<"scrub", "cap">>, <<"cap">>,
     <<"redeem", "request">>, <<"request">>}
StoreCalls == {<<"redeem", "get">>, <<"get">>, <<"redeem", "put">>, <<"put">>}
OtherCalls(t) == BootCalls \cup (IF t \in Users THEN StoreCalls ELSE {})

\* What a task may await at each call.
Awaited(call) ==
    CASE call = "redeem"  -> {"start", "runtime_token"}
      [] call = "request" -> {"request"}
      [] call = "whoami"  -> {"whoami"}
      [] call = "session" -> {"session"}
      [] call \in {"get", "put"} -> {"patch-0002", "legacy", "detect", "fallback"}
      [] OTHER -> {}

\* A running task is at the first of the calls it has left.
CallsInv ==
    /\ DOMAIN todo = TabTasks /\ DOMAIN req = TabTasks /\ DOMAIN good = Users
    /\ \A t \in TabTasks :
          /\ todo[t] \in ProbeCalls \cup OtherCalls(t) \cup {<<>>}
          /\ req[t] # None => todo[t] # <<>> /\ req[t].what \in Awaited(Head(todo[t]))

Probing(t) == todo[t] \in ProbeCalls

\* One probe runs at a time, and none once the gate has been judged.
ProbeInv ==
    /\ \A t \in TabTasks : Probing(t) => t \in Probes /\ gate = "Checking"
    /\ \A t, s \in TabTasks : Probing(t) /\ Probing(s) => t = s

LEMMA CallsApart ==
    ASSUME NEW t
    PROVE  /\ <<>> \notin ProbeCalls \cup OtherCalls(t)
           /\ ProbeCalls \cap OtherCalls(t) = {}
<1>1. <<>> \notin ProbeCalls \cup BootCalls \cup StoreCalls
    BY DEF ProbeCalls, BootCalls, StoreCalls
<1>2. ProbeCalls \cap (BootCalls \cup StoreCalls) = {}
    BY DEF ProbeCalls, BootCalls, StoreCalls
<1> QED
    BY <1>1, <1>2 DEF OtherCalls

\* What a task is left with when a capability token has to be asked for.
LEMMA Prepended ==
    ASSUME NEW a, NEW b
    PROVE  /\ <<a, b>> \o <<>> = <<a, b>>
           /\ \A c, d, e : <<a, b>> \o <<c, d, e>> = <<a, b, c, d, e>>
<1>1. <<a, b>> \o <<>> = <<a, b>>
    <2>1. <<a, b>> \in Seq({a, b})
        OBVIOUS
    <2> QED
        BY <2>1
<1>2. ASSUME NEW c, NEW d, NEW e
      PROVE  <<a, b>> \o <<c, d, e>> = <<a, b, c, d, e>>
    <2> DEFINE U == {a, b, c, d, e}
               s == <<a, b>> \o <<c, d, e>>
               t == <<a, b, c, d, e>>
    <2>1. <<a, b>> \in Seq(U) /\ <<c, d, e>> \in Seq(U) /\ t \in Seq(U)
        OBVIOUS
    <2>2. s \in Seq(U) /\ Len(s) = 5 /\ Len(t) = 5
        BY <2>1
    <2>3. \A i \in 1..5 : s[i] = t[i]
        BY <2>1
    <2> HIDE DEF s, t, U
    <2>4. s = t
        BY <2>1, <2>2, <2>3, SeqEqual
    <2> QED
        BY <2>4 DEF s, t
<1> QED
    BY <1>1, <1>2

LEMMA ProbeCallsLeft ==
    ASSUME NEW c \in ProbeCalls
    PROVE  /\ c # <<>>
           /\ Tail(c) \in ProbeCalls \cup {<<>>}
           /\ Head(c) # "session" => Tail(c) \in ProbeCalls
           /\ Head(c) = "session" => Tail(c) = <<>>
           /\ Head(c) = "cap" => <<"redeem", "request">> \o Tail(c) \in ProbeCalls
           /\ Head(c) \notin {"get", "put", "scrub"}
<1>1. CASE c = <<"cap", "whoami", "redeem", "session">>
    <2>1. Tail(c) = <<"whoami", "redeem", "session">> /\ Head(c) = "cap"
        BY <1>1
    <2>2. <<"redeem", "request">> \o Tail(c) \in ProbeCalls
        BY <2>1, Prepended DEF ProbeCalls
    <2>3. Tail(c) \in ProbeCalls /\ c # <<>>
        BY <1>1, <2>1 DEF ProbeCalls
    <2> QED
        BY <2>1, <2>2, <2>3
<1>2. CASE c = <<"redeem", "request", "whoami", "redeem", "session">>
    <2>1. Tail(c) = <<"request", "whoami", "redeem", "session">> /\ Head(c) = "redeem"
        BY <1>2
    <2> QED
        BY <1>2, <2>1 DEF ProbeCalls
<1>3. CASE c = <<"request", "whoami", "redeem", "session">>
    <2>1. Tail(c) = <<"whoami", "redeem", "session">> /\ Head(c) = "request"
        BY <1>3
    <2> QED
        BY <1>3, <2>1 DEF ProbeCalls
<1>4. CASE c = <<"whoami", "redeem", "session">>
    <2>1. Tail(c) = <<"redeem", "session">> /\ Head(c) = "whoami"
        BY <1>4
    <2> QED
        BY <1>4, <2>1 DEF ProbeCalls
<1>5. CASE c = <<"redeem", "session">>
    <2>1. Tail(c) = <<"session">> /\ Head(c) = "redeem"
        BY <1>5
    <2> QED
        BY <1>5, <2>1 DEF ProbeCalls
<1>6. CASE c = <<"session">>
    <2>1. Tail(c) = <<>> /\ Head(c) = "session"
        BY <1>6
    <2> QED
        BY <1>6, <2>1
<1> QED
    BY <1>1, <1>2, <1>3, <1>4, <1>5, <1>6 DEF ProbeCalls

LEMMA OtherCallsLeft ==
    ASSUME NEW t, NEW c \in OtherCalls(t)
    PROVE  /\ c # <<>>
           /\ Tail(c) \in OtherCalls(t) \cup {<<>>}
           /\ Head(c) = "cap" => <<"redeem", "request">> \o Tail(c) \in OtherCalls(t)
           /\ Head(c) \notin {"whoami", "session"}
<1>1. CASE c \in BootCalls
    <2>1. c # <<>> /\ Head(c) \notin {"whoami", "session"}
        BY <1>1 DEF BootCalls
    <2>2. /\ Tail(c) \in {<<"scrub", "cap">>, <<"cap">>, <<>>, <<"request">>}
          /\ Head(c) = "cap" => Tail(c) = <<>>
        <3>1. CASE c = <<"redeem", "scrub", "cap">>
            BY <3>1
        <3>2. CASE c = <<"scrub", "cap">>
            BY <3>2
        <3>3. CASE c = <<"cap">>
            BY <3>3
        <3>4. CASE c = <<"redeem", "request">>
            BY <3>4
        <3>5. CASE c = <<"request">>
            BY <3>5
        <3> QED
            BY <1>1, <3>1, <3>2, <3>3, <3>4, <3>5 DEF BootCalls
    <2>4. Head(c) = "cap" => <<"redeem", "request">> \o Tail(c) \in OtherCalls(t)
        BY <2>2, Prepended DEF OtherCalls, BootCalls
    <2> QED
        BY <2>1, <2>2, <2>4 DEF OtherCalls, BootCalls
<1>2. CASE c \in StoreCalls /\ t \in Users
    <2>1. c # <<>> /\ Head(c) \notin {"whoami", "session", "cap"}
        BY <1>2 DEF StoreCalls
    <2>2. Tail(c) \in {<<"get">>, <<"put">>, <<>>}
        <3>1. CASE c = <<"redeem", "get">>
            BY <3>1
        <3>2. CASE c = <<"redeem", "put">>
            BY <3>2
        <3>3. CASE c = <<"get">>
            BY <3>3
        <3>4. CASE c = <<"put">>
            BY <3>4
        <3> QED
            BY <1>2, <3>1, <3>2, <3>3, <3>4 DEF StoreCalls
    <2> QED
        BY <1>2, <2>1, <2>2 DEF OtherCalls, StoreCalls
<1> QED
    BY <1>1, <1>2 DEF OtherCalls

LEMMA PutCalls ==
    /\ Tail(<<"redeem", "put">>) = <<"put">> /\ Tail(<<"put">>) = <<>>
    /\ Head(<<"redeem", "put">>) = "redeem" /\ Head(<<"put">>) = "put"
    /\ <<"redeem", "put">> # <<"put">> /\ <<"put">> # <<>> /\ <<"redeem", "put">> # <<>>
    OBVIOUS

\* A write whose token is taken is on its way to the app's own route with that
\* token, or to a route that sends it there.
Settled(u) ==
    good[u] =>
        /\ Takes(Resolved)
        /\ todo[u] \in {<<"redeem", "put">>, <<"put">>}
        /\ req[u] # None => /\ req[u].what # "fallback"
                            /\ req[u].what \in {"patch-0002", "detect"} =>
                                 req[u].launch = Resolved /\ home = Raw

RouteInv ==
    /\ refused = {}
    /\ mode \in {None, "patch-0002", "legacy"}
    /\ None \notin live
    /\ \A u \in Users : Settled(u)

BridgeInv == CallsInv /\ ProbeInv /\ RouteInv

\* A task that goes on with calls of its kind.
LEMMA GoesOn ==
    ASSUME CallsInv, ProbeInv, NEW t \in TabTasks, NEW calls, GoOn(t, calls),
           calls \in OtherCalls(t) \cup {<<>>} \/ (calls \in ProbeCalls /\ Probing(t)),
           gate' = gate, DOMAIN good' = Users
    PROVE  CallsInv' /\ ProbeInv'
<1>1. /\ DOMAIN todo' = TabTasks /\ todo'[t] = calls
      /\ \A s \in TabTasks : s # t => todo'[s] = todo[s]
    BY DEF GoOn, CallsInv
<1>2. /\ DOMAIN req' = TabTasks /\ req'[t] = None
      /\ \A s \in TabTasks : s # t => req'[s] = req[s]
    BY DEF GoOn, CallsInv
<1>3. CallsInv'
    <2>1. ASSUME NEW s \in TabTasks
          PROVE  /\ todo'[s] \in ProbeCalls \cup OtherCalls(s) \cup {<<>>}
                 /\ req'[s] # None => todo'[s] # <<>> /\ req'[s].what \in Awaited(Head(todo'[s]))
        <3>1. CASE s = t
            BY <1>1, <1>2, <3>1
        <3>2. CASE s # t
            BY <1>1, <1>2, <3>2 DEF CallsInv
        <3> QED
            BY <3>1, <3>2
    <2> QED
        BY <1>1, <1>2, <2>1 DEF CallsInv
<1>4. \A s \in TabTasks : Probing(s)' => Probing(s)
    BY <1>1, CallsApart DEF Probing
<1> QED
    BY <1>3, <1>4 DEF ProbeInv

\* A task that awaits what its call awaits.
LEMMA GoesToAwait ==
    ASSUME CallsInv, ProbeInv, NEW t \in TabTasks, NEW r, Await(t, r), todo' = todo,
           todo[t] # <<>>, r.what \in Awaited(Head(todo[t])),
           gate' = gate, DOMAIN good' = Users
    PROVE  CallsInv' /\ ProbeInv'
<1>1. /\ DOMAIN req' = TabTasks /\ req'[t] = r
      /\ \A s \in TabTasks : s # t => req'[s] = req[s]
    BY DEF Await, CallsInv
<1>2. CallsInv'
    <2>1. ASSUME NEW s \in TabTasks
          PROVE  /\ todo'[s] \in ProbeCalls \cup OtherCalls(s) \cup {<<>>}
                 /\ req'[s] # None => todo'[s] # <<>> /\ req'[s].what \in Awaited(Head(todo'[s]))
        <3>1. CASE s = t
            BY <1>1, <3>1 DEF CallsInv
        <3>2. CASE s # t
            BY <1>1, <3>2 DEF CallsInv
        <3> QED
            BY <3>1, <3>2
    <2> QED
        BY <1>1, <2>1 DEF CallsInv
<1>3. \A s \in TabTasks : Probing(s)' <=> Probing(s)
    BY DEF Probing
<1> QED
    BY <1>2, <1>3 DEF ProbeInv

\* Reading the launch token stores the one that is used, and changes it for
\* nobody.
LEMMA TokenStays ==
    ASSUME url' = url, lapsed' = lapsed, home' \in {home, Raw}
    PROVE  /\ Raw' = Raw /\ Resolved' = Resolved
           /\ home = Raw => home' = Raw'
           /\ home' = Raw => home' = Raw'
<1>1. Raw' = Raw
    BY DEF Raw
<1> QED
    BY <1>1 DEF Resolved

\* What other tasks do leaves a write where it is.
LEMMA OtherSettled ==
    ASSUME NEW u \in Users, Settled(u), todo'[u] = todo[u], req'[u] = req[u],
           good'[u] = good[u], url' = url, lapsed' = lapsed, home' \in {home, Raw},
           kind' = kind, live' = live
    PROVE  Settled(u)'
<1>1. /\ Raw' = Raw /\ Resolved' = Resolved
      /\ home = Raw => home' = Raw'
    BY TokenStays
<1>2. Takes(Resolved)' <=> Takes(Resolved)
    BY <1>1 DEF Takes
<1> QED
    BY <1>1, <1>2 DEF Settled

\* The call a task is at when it awaits an answer.
LEMMA AwaitedAt ==
    ASSUME NEW call
    PROVE  /\ Awaited(call) \cap {"start", "runtime_token"} # {} => call = "redeem"
           /\ "request" \in Awaited(call) => call = "request"
           /\ "whoami" \in Awaited(call) => call = "whoami"
           /\ "session" \in Awaited(call) => call = "session"
           /\ Awaited(call) \cap {"patch-0002", "legacy", "detect", "fallback"} # {} =>
                call \in {"get", "put"}
    BY DEF Awaited

\* A call without a launch token, and the one that asks who the user is.
LEMMA Awaiting ==
    ASSUME NEW l
    PROVE  /\ [what |-> "request", launch |-> l].what \in Awaited("request")
           /\ [what |-> "whoami", launch |-> l].what \in Awaited("whoami")
           /\ [what |-> "session", launch |-> l].what \in Awaited("session")
    BY DEF Awaited

\* What of the runtime a write rests on is as it was.
SameToken ==
    /\ url' = url /\ lapsed' = lapsed /\ home' \in {home, Raw}
    /\ kind' = kind /\ live' = live

\* Only a write can be one whose token is taken.
LEMMA GoodWrites ==
    ASSUME NEW u \in Users, Settled(u), good[u]
    PROVE  /\ todo[u] \in {<<"redeem", "put">>, <<"put">>}
           /\ Head(todo[u]) \in {"redeem", "put"}
           /\ Head(todo[u]) = "redeem" => Rest(u) = <<"put">>
           /\ Head(todo[u]) = "put" => todo[u] = <<"put">> /\ Rest(u) = <<>>
    BY PutCalls DEF Settled, Rest

\* A write that is over with its redemption.
LEMMA SettledGoesOn ==
    ASSUME NEW u \in Users, Settled(u), SameToken, good'[u] => good[u],
           Head(todo[u]) = "redeem", todo'[u] = Rest(u), req'[u] = None
    PROVE  Settled(u)'
<1>1. Resolved' = Resolved
    BY TokenStays DEF SameToken
<1>2. Takes(Resolved)' <=> Takes(Resolved)
    BY <1>1 DEF Takes, SameToken
<1>3. good[u] => todo'[u] = <<"put">>
    BY GoodWrites
<1> QED
    BY <1>2, <1>3 DEF Settled

\* A write that awaits what may serve it.
LEMMA SettledAwaits ==
    ASSUME NEW u \in Users, Settled(u), SameToken, good'[u] => good[u],
           todo'[u] = todo[u], req'[u].what # "fallback",
           req'[u].what \in {"patch-0002", "detect"} => req'[u].launch = Resolved /\ home' = Raw
    PROVE  Settled(u)'
<1>1. Raw' = Raw /\ Resolved' = Resolved
    BY TokenStays DEF SameToken
<1>2. Takes(Resolved)' <=> Takes(Resolved)
    BY <1>1 DEF Takes, SameToken
<1> QED
    BY <1>1, <1>2 DEF Settled

\* A task whose call no write makes is no write.
LEMMA SettledOtherwise ==
    ASSUME NEW u \in Users, Settled(u), good'[u] => good[u],
           Head(todo[u]) \notin {"redeem", "put"}
    PROVE  Settled(u)'
    BY GoodWrites DEF Settled

LEMMA OthersSettled ==
    ASSUME CallsInv, RouteInv, SameToken, NEW t \in TabTasks,
           GoOn(t, Rest(t)) \/ (\E r : Await(t, r) /\ todo' = todo),
           \A u \in Users \ {t} : good'[u] = good[u]
    PROVE  \A u \in Users \ {t} : Settled(u)'
<1>1. \A u \in Users \ {t} : todo'[u] = todo[u] /\ req'[u] = req[u]
    BY DEF GoOn, Await, CallsInv, Users, TabTasks
<1> QED
    BY <1>1, OtherSettled DEF RouteInv, SameToken

\* What is left of a task's calls is of its kind.
LEMMA RestLeft ==
    ASSUME CallsInv, NEW t \in TabTasks, todo[t] # <<>>
    PROVE  \/ Rest(t) \in OtherCalls(t) \cup {<<>>}
           \/ (Rest(t) \in ProbeCalls /\ Probing(t))
    BY ProbeCallsLeft, OtherCallsLeft DEF CallsInv, Rest, Probing

-----------------------------------------------------------------------------
(* The calls.                                                              *)

LEMMA RedeemKeeps ==
    ASSUME BridgeInv, NEW t \in TabTasks, redeem_launch_token(t)
    PROVE  BridgeInv'
<1>1. /\ todo[t] # <<>> /\ Head(todo[t]) = "redeem"
      /\ gate' = gate /\ good' = good /\ refused' = refused /\ mode' = mode
      /\ url' = url /\ lapsed' = lapsed /\ kind' = kind /\ live' = live
    BY DEF redeem_launch_token, AtCall, app, runtime, history
<1>2. SameToken
    BY <1>1 DEF SameToken, redeem_launch_token, home_launch_token
<1>3. CASE GoOn(t, Rest(t))
    <2>0. /\ CallsInv /\ ProbeInv /\ DOMAIN good' = Users
          /\ \/ Rest(t) \in OtherCalls(t) \cup {<<>>}
             \/ (Rest(t) \in ProbeCalls /\ Probing(t))
        BY <1>1, RestLeft DEF BridgeInv, CallsInv
    <2> DEFINE calls == Rest(t)
    <2>a. GoOn(t, calls) /\ (calls \in OtherCalls(t) \cup {<<>>} \/ (calls \in ProbeCalls /\ Probing(t)))
        BY <1>3, <2>0
    <2> HIDE DEF calls
    <2>1. CallsInv' /\ ProbeInv'
        BY <1>1, <2>0, <2>a, GoesOn
    <2> USE DEF calls
    <2>2. todo'[t] = Rest(t) /\ req'[t] = None
        BY <1>3 DEF GoOn, BridgeInv, CallsInv
    <2>3. t \in Users => Settled(t)'
        BY <1>1, <1>2, <2>2, SettledGoesOn DEF BridgeInv, RouteInv
    <2>4. \A u \in Users \ {t} : Settled(u)'
        BY <1>1, <1>2, <1>3, OthersSettled DEF BridgeInv
    <2> QED
        BY <1>1, <2>1, <2>3, <2>4 DEF BridgeInv, RouteInv
<1>4. CASE Await(t, [what |-> "start", launch |-> Resolved]) /\ todo' = todo
    <2> DEFINE r == [what |-> "start", launch |-> Resolved]
    <2>1. r.what \in Awaited(Head(todo[t])) /\ r.what = "start"
        BY <1>1 DEF Awaited
    <2>2. Await(t, r) /\ todo' = todo
        BY <1>4
    <2> HIDE DEF r
    <2>3. CallsInv' /\ ProbeInv'
        BY <1>1, <2>1, <2>2, GoesToAwait DEF BridgeInv, CallsInv
    <2>4. req'[t] = r
        BY <2>2 DEF Await, BridgeInv, CallsInv
    <2>5. t \in Users => Settled(t)'
        BY <1>1, <1>2, <2>1, <2>2, <2>4, SettledAwaits DEF BridgeInv, RouteInv
    <2>6. \A u \in Users \ {t} : Settled(u)'
        BY <1>1, <1>2, <2>2, OthersSettled DEF BridgeInv
    <2> QED
        BY <1>1, <2>3, <2>5, <2>6 DEF BridgeInv, RouteInv
<1> QED
    BY <1>3, <1>4 DEF redeem_launch_token

\* A step that answers a redemption.
LEMMA RedemptionKeeps ==
    ASSUME BridgeInv, NEW t \in TabTasks, req[t] # None, req[t].what \in {"start", "runtime_token"},
           \/ GoOn(t, Rest(t))
           \/ Await(t, [what |-> "runtime_token", launch |-> req[t].launch]) /\ todo' = todo,
           gate' = gate, good' = good, refused' = refused, mode' = mode, url' = url,
           home' = home, lapsed' = lapsed, kind' = kind, live' = live
    PROVE  BridgeInv'
<1>1. todo[t] # <<>> /\ Head(todo[t]) = "redeem"
    BY AwaitedAt DEF BridgeInv, CallsInv
<1>2. SameToken
    BY DEF SameToken
<1>3. CASE GoOn(t, Rest(t))
    <2>0. /\ CallsInv /\ ProbeInv /\ DOMAIN good' = Users
          /\ \/ Rest(t) \in OtherCalls(t) \cup {<<>>}
             \/ (Rest(t) \in ProbeCalls /\ Probing(t))
        BY <1>1, RestLeft DEF BridgeInv, CallsInv
    <2> DEFINE calls == Rest(t)
    <2>a. GoOn(t, calls) /\ (calls \in OtherCalls(t) \cup {<<>>} \/ (calls \in ProbeCalls /\ Probing(t)))
        BY <1>3, <2>0
    <2> HIDE DEF calls
    <2>1. CallsInv' /\ ProbeInv'
        BY <1>1, <2>0, <2>a, GoesOn
    <2> USE DEF calls
    <2>2. todo'[t] = Rest(t) /\ req'[t] = None
        BY <1>3 DEF GoOn, BridgeInv, CallsInv
    <2>3. t \in Users => Settled(t)'
        BY <1>1, <1>2, <2>2, SettledGoesOn DEF BridgeInv, RouteInv
    <2>4. \A u \in Users \ {t} : Settled(u)'
        BY <1>2, <1>3, OthersSettled DEF BridgeInv
    <2> QED
        BY <2>1, <2>3, <2>4 DEF BridgeInv, RouteInv
<1>4. CASE Await(t, [what |-> "runtime_token", launch |-> req[t].launch]) /\ todo' = todo
    <2> DEFINE r == [what |-> "runtime_token", launch |-> req[t].launch]
    <2>1. r.what \in Awaited(Head(todo[t])) /\ r.what = "runtime_token"
        BY <1>1 DEF Awaited
    <2>2. Await(t, r) /\ todo' = todo
        BY <1>4
    <2> HIDE DEF r
    <2>3. CallsInv' /\ ProbeInv'
        BY <1>1, <2>1, <2>2, GoesToAwait DEF BridgeInv, CallsInv
    <2>4. req'[t] = r
        BY <2>2 DEF Await, BridgeInv, CallsInv
    <2>5. t \in Users => Settled(t)'
        BY <1>2, <2>1, <2>2, <2>4, SettledAwaits DEF BridgeInv, RouteInv
    <2>6. \A u \in Users \ {t} : Settled(u)'
        BY <1>2, <2>2, OthersSettled DEF BridgeInv
    <2> QED
        BY <2>3, <2>5, <2>6 DEF BridgeInv, RouteInv
<1> QED
    BY <1>3, <1>4

LEMMA SessionStartKeeps ==
    ASSUME BridgeInv, NEW t \in TabTasks, SessionStart(t)
    PROVE  BridgeInv'
<1>1. req[t] # None /\ req[t].what = "start"
    BY DEF SessionStart, Answers
<1>2. \/ GoOn(t, Rest(t))
      \/ Await(t, [what |-> "runtime_token", launch |-> req[t].launch]) /\ todo' = todo
    BY DEF SessionStart
<1>3. /\ gate' = gate /\ good' = good /\ refused' = refused /\ mode' = mode
      /\ url' = url /\ home' = home /\ lapsed' = lapsed /\ kind' = kind /\ live' = live
    BY DEF SessionStart, app, history
<1> QED
    BY <1>1, <1>2, <1>3, RedemptionKeeps

LEMMA RuntimeTokenKeeps ==
    ASSUME BridgeInv, NEW t \in TabTasks, RuntimeToken(t)
    PROVE  BridgeInv'
<1>1. req[t] # None /\ req[t].what = "runtime_token" /\ GoOn(t, Rest(t))
    BY DEF RuntimeToken, Answers
<1>2. /\ gate' = gate /\ good' = good /\ refused' = refused /\ mode' = mode
      /\ url' = url /\ home' = home /\ lapsed' = lapsed /\ kind' = kind /\ live' = live
    BY DEF RuntimeToken, app, history
<1> QED
    BY <1>1, <1>2, RedemptionKeeps

\* A call of a task that is no write: it goes on or awaits an answer.
LEMMA OtherCallKeeps ==
    ASSUME BridgeInv, NEW t \in TabTasks, todo[t] # <<>>, Head(todo[t]) \notin {"redeem", "put"},
           SameToken, gate' = gate, good' = good, refused' = refused,
           mode' \in {None, "patch-0002", "legacy"},
           \/ \E calls : GoOn(t, calls)
                         /\ (calls \in OtherCalls(t) \cup {<<>>} \/ (calls \in ProbeCalls /\ Probing(t)))
           \/ \E r : Await(t, r) /\ todo' = todo /\ r.what \in Awaited(Head(todo[t]))
    PROVE  BridgeInv'
<1>1. CallsInv' /\ ProbeInv'
    BY GoesOn, GoesToAwait DEF BridgeInv, CallsInv
<1>2. t \in Users => Settled(t)'
    BY SettledOtherwise DEF BridgeInv, RouteInv
<1>3. \A u \in Users \ {t} : todo'[u] = todo[u] /\ req'[u] = req[u]
    BY DEF GoOn, Await, CallsInv, BridgeInv, Users, TabTasks
<1>4. \A u \in Users \ {t} : Settled(u)'
    BY <1>3, OtherSettled DEF BridgeInv, RouteInv, SameToken
<1> QED
    BY <1>1, <1>2, <1>4 DEF BridgeInv, RouteInv, SameToken

LEMMA CapabilityKeeps ==
    ASSUME BridgeInv, NEW t \in TabTasks, ensure_capability_token(t)
    PROVE  BridgeInv'
<1>1. /\ todo[t] # <<>> /\ Head(todo[t]) = "cap"
      /\ gate' = gate /\ good' = good /\ refused' = refused /\ mode' = mode /\ SameToken
    BY DEF ensure_capability_token, AtCall, app, runtime, history, SameToken
<1>2. PICK calls \in {Rest(t), <<"redeem", "request">> \o Rest(t)} : GoOn(t, calls)
    BY DEF ensure_capability_token
<1>3. calls \in OtherCalls(t) \cup {<<>>} \/ (calls \in ProbeCalls /\ Probing(t))
    <2>1. todo[t] \in ProbeCalls \cup OtherCalls(t)
        BY <1>1 DEF BridgeInv, CallsInv
    <2>2. CASE todo[t] \in ProbeCalls
        BY <1>1, <1>2, <2>2, ProbeCallsLeft DEF Rest, Probing
    <2>3. CASE todo[t] \in OtherCalls(t)
        BY <1>1, <1>2, <2>3, OtherCallsLeft DEF Rest
    <2> QED
        BY <2>1, <2>2, <2>3
<1>4. mode' \in {None, "patch-0002", "legacy"}
    BY <1>1 DEF BridgeInv, RouteInv
<1> QED
    BY <1>1, <1>2, <1>3, <1>4, OtherCallKeeps

\* A call that only awaits its answer.
LEMMA AskingKeeps ==
    ASSUME BridgeInv, NEW t \in TabTasks,
           request_capability_token(t) \/ provider_call(t) \/ session_current(t)
    PROVE  BridgeInv'
<1>1. /\ todo[t] # <<>> /\ Head(todo[t]) \in {"request", "whoami", "session"}
      /\ gate' = gate /\ good' = good /\ refused' = refused /\ mode' = mode /\ SameToken
    BY DEF request_capability_token, provider_call, session_current, AtCall, app, runtime,
           history, tab, SameToken, home_launch_token
<1>2. \E r : Await(t, r) /\ todo' = todo /\ r.what \in Awaited(Head(todo[t]))
    BY Awaiting DEF request_capability_token, provider_call, session_current, AtCall
<1>3. mode' \in {None, "patch-0002", "legacy"}
    BY <1>1 DEF BridgeInv, RouteInv
<1> QED
    BY <1>1, <1>2, <1>3, OtherCallKeeps

LEMMA CapabilityAnswerKeeps ==
    ASSUME BridgeInv, NEW t \in TabTasks, CapabilityAnswer(t)
    PROVE  BridgeInv'
<1>1. /\ todo[t] # <<>> /\ Head(todo[t]) = "request"
      /\ gate' = gate /\ good' = good /\ refused' = refused /\ mode' = mode /\ SameToken
      /\ GoOn(t, Rest(t))
    BY AwaitedAt DEF CapabilityAnswer, Answers, app, runtime, history, SameToken, BridgeInv, CallsInv
<1>2. Rest(t) \in OtherCalls(t) \cup {<<>>} \/ (Rest(t) \in ProbeCalls /\ Probing(t))
    BY <1>1, RestLeft DEF BridgeInv
<1>3. mode' \in {None, "patch-0002", "legacy"}
    BY <1>1 DEF BridgeInv, RouteInv
<1> QED
    BY <1>1, <1>2, <1>3, OtherCallKeeps

-----------------------------------------------------------------------------
(* The gate and its probe.                                                 *)

\* A probe that is over is the only one there was.
LEMMA ProbeEnds ==
    ASSUME BridgeInv, NEW t \in TabTasks, Probing(t), GoOn(t, <<>>),
           UNCHANGED <<tab, runtime>>, refused' = refused,
           DOMAIN good' = Users, \A u \in Users : good'[u] => good[u]
    PROVE  BridgeInv'
<1>1. /\ DOMAIN todo' = TabTasks /\ todo'[t] = <<>>
      /\ \A s \in TabTasks : s # t => todo'[s] = todo[s]
    BY DEF GoOn, CallsInv, BridgeInv
<1>2. /\ DOMAIN req' = TabTasks /\ req'[t] = None
      /\ \A s \in TabTasks : s # t => req'[s] = req[s]
    BY DEF GoOn, CallsInv, BridgeInv
<1>3. CallsInv'
    <2>1. ASSUME NEW s \in TabTasks
          PROVE  /\ todo'[s] \in ProbeCalls \cup OtherCalls(s) \cup {<<>>}
                 /\ req'[s] # None => todo'[s] # <<>> /\ req'[s].what \in Awaited(Head(todo'[s]))
        <3>1. CASE s = t
            BY <1>1, <1>2, <3>1
        <3>2. CASE s # t
            BY <1>1, <1>2, <3>2 DEF CallsInv, BridgeInv
        <3> QED
            BY <3>1, <3>2
    <2> QED
        BY <1>1, <1>2, <2>1 DEF CallsInv
<1>4. \A s \in TabTasks : ~Probing(s)'
    <2>1. ~Probing(t)'
        BY <1>1, CallsApart DEF Probing
    <2>2. \A s \in TabTasks \ {t} : ~Probing(s)
        BY DEF BridgeInv, ProbeInv
    <2> QED
        BY <1>1, <2>1, <2>2 DEF Probing
<1>5. SameToken /\ mode' = mode
    BY DEF SameToken, tab, runtime
<1>6. ASSUME NEW u \in Users
      PROVE  Settled(u)'
    <2>1. CASE u = t
        <3>1. Head(todo[t]) \notin {"redeem", "put"} \/ todo[t] \in ProbeCalls
            BY DEF Probing
        <3>2. ~good[u]
            BY <2>1, CallsApart, GoodWrites DEF Probing, BridgeInv, RouteInv, OtherCalls, StoreCalls
        <3> QED
            BY <3>2 DEF Settled
    <2>2. CASE u # t
        <3>1. todo'[u] = todo[u] /\ req'[u] = req[u]
            BY <1>1, <1>2, <2>2 DEF Users, TabTasks
        <3>2. CASE good'[u]
            <4>1. Settled(u) /\ good[u]
                BY <3>2 DEF BridgeInv, RouteInv
            <4>2. Resolved' = Resolved /\ Raw' = Raw /\ home' = home
                BY DEF tab, runtime, Resolved, Raw
            <4>3. Takes(Resolved)' <=> Takes(Resolved)
                BY <4>2 DEF Takes, runtime
            <4> QED
                BY <3>1, <4>1, <4>2, <4>3 DEF Settled
        <3> QED
            BY <3>2 DEF Settled
    <2> QED
        BY <2>1, <2>2
<1>7. live' = live
    BY DEF runtime
<1> QED
    BY <1>3, <1>4, <1>5, <1>6, <1>7 DEF BridgeInv, ProbeInv, RouteInv

LEMMA WhoamiKeeps ==
    ASSUME BridgeInv, NEW t \in TabTasks, WhoamiAnswer(t)
    PROVE  BridgeInv'
<1>1. todo[t] # <<>> /\ Head(todo[t]) = "whoami"
    BY AwaitedAt DEF WhoamiAnswer, Answers, BridgeInv, CallsInv
<1>2. Probing(t)
    BY <1>1, OtherCallsLeft DEF BridgeInv, CallsInv, Probing
<1>3. DOMAIN good' = Users /\ good' = good /\ refused' = refused
    BY DEF WhoamiAnswer, history, BridgeInv, CallsInv
<1>4. CASE Judged(TRUE) /\ GoOn(t, <<>>)
    BY <1>2, <1>3, <1>4, ProbeEnds DEF WhoamiAnswer
<1>5. CASE GoOn(t, Rest(t)) /\ UNCHANGED app
    <2>1. SameToken /\ gate' = gate /\ mode' = mode
        BY <1>5 DEF WhoamiAnswer, SameToken, app, tab, runtime
    <2>2. mode' \in {None, "patch-0002", "legacy"}
        BY <2>1 DEF BridgeInv, RouteInv
    <2>3. Rest(t) \in OtherCalls(t) \cup {<<>>} \/ (Rest(t) \in ProbeCalls /\ Probing(t))
        BY <1>1, RestLeft DEF BridgeInv
    <2> QED
        BY <1>1, <1>3, <1>5, <2>1, <2>2, <2>3, OtherCallKeeps
<1> QED
    BY <1>4, <1>5 DEF WhoamiAnswer

LEMMA SessionKeeps ==
    ASSUME BridgeInv, NEW t \in TabTasks, inherit_session(t)
    PROVE  BridgeInv'
<1>1. todo[t] # <<>> /\ Head(todo[t]) = "session"
    BY AwaitedAt DEF inherit_session, Answers, BridgeInv, CallsInv
<1>2. Probing(t)
    BY <1>1, OtherCallsLeft DEF BridgeInv, CallsInv, Probing
<1>3. DOMAIN good' = Users /\ good' = good /\ refused' = refused
    BY DEF inherit_session, history, BridgeInv, CallsInv
<1> QED
    BY <1>2, <1>3, ProbeEnds DEF inherit_session

\* An idle task that begins.
LEMMA Begins ==
    ASSUME BridgeInv, NEW t \in TabTasks, NEW calls, todo[t] = <<>>, GoOn(t, calls),
           calls \in OtherCalls(t) \/ (calls \in ProbeCalls /\ t \in Probes /\ gate' = "Checking"
                                    /\ \A s \in TabTasks : ~Probing(s)),
           (\E s \in TabTasks : Probing(s)) => gate' = "Checking",
           DOMAIN good' = Users
    PROVE  CallsInv' /\ ProbeInv'
<1>1. /\ DOMAIN todo' = TabTasks /\ todo'[t] = calls
      /\ \A s \in TabTasks : s # t => todo'[s] = todo[s]
    BY DEF GoOn, CallsInv, BridgeInv
<1>2. /\ DOMAIN req' = TabTasks /\ req'[t] = None
      /\ \A s \in TabTasks : s # t => req'[s] = req[s]
    BY DEF GoOn, CallsInv, BridgeInv
<1>3. CallsInv'
    <2>1. ASSUME NEW s \in TabTasks
          PROVE  /\ todo'[s] \in ProbeCalls \cup OtherCalls(s) \cup {<<>>}
                 /\ req'[s] # None => todo'[s] # <<>> /\ req'[s].what \in Awaited(Head(todo'[s]))
        <3>1. CASE s = t
            BY <1>1, <1>2, <3>1
        <3>2. CASE s # t
            BY <1>1, <1>2, <3>2 DEF CallsInv, BridgeInv
        <3> QED
            BY <3>1, <3>2
    <2> QED
        BY <1>1, <1>2, <2>1 DEF CallsInv
<1>4. CASE calls \in OtherCalls(t)
    <2>1. \A s \in TabTasks : Probing(s)' => Probing(s)
        BY <1>1, <1>4, CallsApart DEF Probing
    <2> QED
        BY <1>3, <2>1 DEF ProbeInv, BridgeInv
<1>5. CASE calls \in ProbeCalls /\ t \in Probes /\ gate' = "Checking" /\ \A s \in TabTasks : ~Probing(s)
    <2>1. \A s \in TabTasks : Probing(s)' => s = t
        BY <1>1, <1>5 DEF Probing
    <2> QED
        BY <1>3, <1>5, <2>1 DEF ProbeInv
<1> QED
    BY <1>4, <1>5

\* A probe begins when none is running.
LEMMA ProbeBegins ==
    ASSUME BridgeInv, Free # {}, GoOn(Slot, probe_runtime), gate' = "Checking",
           \A s \in TabTasks : ~Probing(s), UNCHANGED <<tab, runtime, history>>
    PROVE  BridgeInv'
<1>1. PICK p : p = Slot
    OBVIOUS
<1>2. p \in Probes /\ todo[p] = <<>> /\ p \in TabTasks
    BY <1>1 DEF Slot, Free, TabTasks
<1>3. PICK calls : calls = probe_runtime
    OBVIOUS
<1>4. calls \in ProbeCalls
    BY <1>3 DEF probe_runtime, ProbeCalls
<1>5. GoOn(p, calls) /\ DOMAIN good' = Users
    BY <1>1, <1>3 DEF history, BridgeInv, CallsInv
<1>6. CallsInv' /\ ProbeInv'
    BY <1>2, <1>4, <1>5, Begins
<1>7. ASSUME NEW u \in Users
      PROVE  Settled(u)'
    <2>1. good'[u] = good[u] /\ SameToken
        BY DEF history, tab, runtime, SameToken
    <2>2. CASE u = p
        <3>1. ~good[u]
            BY <1>2, <2>2, PutCalls DEF BridgeInv, RouteInv, Settled
        <3> QED
            BY <2>1, <3>1 DEF Settled
    <2>3. CASE u # p
        <3>1. todo'[u] = todo[u] /\ req'[u] = req[u]
            BY <1>5, <2>3 DEF GoOn, BridgeInv, CallsInv, Users, TabTasks
        <3> QED
            BY <2>1, <3>1, OtherSettled DEF BridgeInv, RouteInv, SameToken
    <2> QED
        BY <2>2, <2>3
<1> QED
    BY <1>6, <1>7 DEF BridgeInv, RouteInv, history, tab, runtime

LEMMA MountKeeps ==
    ASSUME BridgeInv, MountProbe
    PROVE  BridgeInv'
<1>1. Free # {} /\ gate' = "Checking" /\ GoOn(Slot, probe_runtime)
    BY BridgeConstants DEF MountProbe, app
<1>2. \A s \in TabTasks : ~Probing(s)
    BY CallsApart DEF MountProbe, Free, Probing, BridgeInv, ProbeInv
<1> QED
    BY <1>1, <1>2, ProbeBegins DEF MountProbe

LEMMA RetryKeeps ==
    ASSUME BridgeInv, Retry
    PROVE  BridgeInv'
<1>1. Free # {} /\ gate' = "Checking" /\ GoOn(Slot, probe_runtime)
    BY DEF Retry
<1>2. \A s \in TabTasks : ~Probing(s)
    BY DEF Retry, MayRetry, BridgeInv, ProbeInv
<1> QED
    BY <1>1, <1>2, ProbeBegins DEF Retry

-----------------------------------------------------------------------------
(* Storage.                                                                *)

LEMMA UseKeeps ==
    ASSUME BridgeInv, NEW u \in Users, NEW op \in {"get", "put"}, Use(u, op)
    PROVE  BridgeInv'
<1>1. PICK calls : calls = <<"redeem", op>>
    OBVIOUS
<1>2. calls \in OtherCalls(u)
    BY <1>1 DEF OtherCalls, StoreCalls
<1>3. /\ u \in TabTasks /\ todo[u] = <<>> /\ GoOn(u, calls) /\ gate' = gate
      /\ DOMAIN good' = Users
    BY <1>1 DEF Use, Users, TabTasks, app, BridgeInv, CallsInv
<1>4. CallsInv' /\ ProbeInv'
    <2>1. (\E s \in TabTasks : Probing(s)) => gate' = "Checking"
        BY <1>3 DEF BridgeInv, ProbeInv
    <2> QED
        BY <1>2, <1>3, <2>1, Begins
<1>5. /\ good'[u] = (op = "put" /\ Takes(Resolved))
      /\ \A v \in Users : v # u => good'[v] = good[v]
    BY DEF Use, BridgeInv, CallsInv
<1>6. SameToken /\ refused' = refused /\ mode' = mode
    BY DEF Use, SameToken, tab, runtime
<1>7. ASSUME NEW v \in Users
      PROVE  Settled(v)'
    <2>1. CASE v = u
        <3>1. Resolved' = Resolved
            BY <1>6, TokenStays DEF SameToken
        <3>2. Takes(Resolved)' <=> Takes(Resolved)
            BY <1>6, <3>1 DEF Takes, SameToken
        <3>3. todo'[u] = <<"redeem", op>> /\ req'[u] = None
            BY <1>1, <1>3 DEF GoOn, BridgeInv, CallsInv
        <3>4. CASE op = "put"
            BY <1>5, <2>1, <3>2, <3>3, <3>4 DEF Settled
        <3>5. CASE op # "put"
            BY <1>5, <2>1, <3>5 DEF Settled
        <3> QED
            BY <3>4, <3>5
    <2>2. CASE v # u
        <3>1. todo'[v] = todo[v] /\ req'[v] = req[v]
            BY <1>3, <2>2 DEF GoOn, BridgeInv, CallsInv, Users, TabTasks
        <3> QED
            BY <1>5, <1>6, <2>2, <3>1, OtherSettled DEF BridgeInv, RouteInv, SameToken
    <2> QED
        BY <2>1, <2>2
<1> QED
    BY <1>4, <1>6, <1>7 DEF BridgeInv, RouteInv, SameToken

\* A storage call that asks a route.
LEMMA AttemptKeeps ==
    ASSUME BridgeInv, NEW t \in TabTasks, todo[t] # <<>>, Head(todo[t]) \in {"get", "put"},
           NEW what, NEW via, Attempt(t, what, via),
           \/ what \in {"patch-0002", "detect"} /\ via = "patch-0002"
           \/ what = "legacy" /\ via = "legacy"
           \/ what = "fallback" /\ via = "legacy" /\ (t \in Users => ~good[t]),
           todo' = todo, url' = url, lapsed' = lapsed, kind' = kind, live' = live,
           gate' = gate, good' = good, refused' = refused,
           mode' \in {None, "patch-0002", "legacy"}
    PROVE  BridgeInv'
<1> DEFINE r == [what |-> what, launch |-> IF via = "patch-0002" THEN Resolved ELSE None]
<1>1. Await(t, r) /\ r.what = what /\ (via = "patch-0002" => r.launch = Resolved)
    BY DEF Attempt
<1>2. SameToken /\ (via = "patch-0002" => home' = Raw)
    BY DEF Attempt, SameToken, home_launch_token
<1> HIDE DEF r
<1>3. what \in Awaited(Head(todo[t]))
    BY DEF Awaited
<1>4. CallsInv' /\ ProbeInv'
    BY <1>1, <1>3, GoesToAwait DEF BridgeInv, CallsInv
<1>5. req'[t] = r
    BY <1>1 DEF Await, BridgeInv, CallsInv
<1>6. t \in Users => Settled(t)'
    <2>1. CASE what = "fallback"
        BY <2>1 DEF Settled
    <2>2. CASE what # "fallback"
        BY <1>1, <1>2, <1>5, <2>2, SettledAwaits DEF BridgeInv, RouteInv
    <2> QED
        BY <2>1, <2>2
<1>7. \A u \in Users \ {t} : Settled(u)'
    BY <1>1, <1>2, OthersSettled DEF BridgeInv
<1> QED
    BY <1>4, <1>6, <1>7 DEF BridgeInv, RouteInv

LEMMA DispatchKeeps ==
    ASSUME BridgeInv, NEW t \in TabTasks, dispatch_storage(t)
    PROVE  BridgeInv'
<1>1. todo[t] # <<>> /\ Head(todo[t]) \in {"get", "put"}
    BY DEF dispatch_storage, AtCall
<1>2. PICK what, via : /\ Attempt(t, what, via)
                       /\ \/ what \in {"patch-0002", "detect"} /\ via = "patch-0002"
                          \/ what = "legacy" /\ via = "legacy"
    BY DEF dispatch_storage, BridgeInv, RouteInv
<1>3. /\ todo' = todo /\ url' = url /\ lapsed' = lapsed /\ kind' = kind /\ live' = live
      /\ gate' = gate /\ good' = good /\ refused' = refused
      /\ mode' \in {None, "patch-0002", "legacy"}
    BY DEF dispatch_storage, app, runtime, history, BridgeInv, RouteInv
<1> QED
    BY <1>1, <1>2, <1>3, AttemptKeeps

\* A storage call that returns; a write whose token is taken with a 200.
LEMMA ReturnedKeeps ==
    ASSUME BridgeInv, NEW t \in Users, todo[t] # <<>>, Head(todo[t]) \in {"get", "put"},
           NEW status, Returned(t, status), good[t] => status = 200, SameToken, gate' = gate,
           mode' \in {None, "patch-0002", "legacy"}
    PROVE  BridgeInv'
<1>1. t \in TabTasks /\ refused' = refused
    BY DEF Returned, Users, TabTasks
<1>2. /\ DOMAIN good' = Users /\ good'[t] = FALSE
      /\ \A u \in Users : u # t => good'[u] = good[u]
    BY DEF Returned, BridgeInv, CallsInv
<1> DEFINE calls == Rest(t)
<1>3. /\ GoOn(t, calls)
      /\ calls \in OtherCalls(t) \cup {<<>>} \/ (calls \in ProbeCalls /\ Probing(t))
    BY <1>1, RestLeft DEF Returned, BridgeInv
<1> HIDE DEF calls
<1>4. CallsInv' /\ ProbeInv'
    BY <1>1, <1>2, <1>3, GoesOn DEF BridgeInv
<1>5. Settled(t)'
    BY <1>2 DEF Settled
<1>6. \A u \in Users \ {t} : Settled(u)'
    <2>1. GoOn(t, Rest(t))
        BY DEF Returned
    <2> QED
        BY <1>1, <1>2, <2>1, OthersSettled DEF BridgeInv
<1> QED
    BY <1>1, <1>4, <1>5, <1>6 DEF BridgeInv, RouteInv, SameToken

\* Only a signed-in app's task reads or writes.
LEMMA StorageUser ==
    ASSUME BridgeInv, NEW t \in TabTasks, req[t] # None,
           req[t].what \in {"patch-0002", "legacy", "detect", "fallback"}
    PROVE  /\ t \in Users /\ todo[t] # <<>> /\ Head(todo[t]) \in {"get", "put"}
           /\ good[t] => Head(todo[t]) = "put" /\ req[t].what # "fallback" /\ Takes(Resolved)
           /\ good[t] /\ req[t].what # "legacy" => PatchStatus(t) = {200}
<1>1. todo[t] # <<>> /\ Head(todo[t]) \in {"get", "put"}
    BY AwaitedAt DEF BridgeInv, CallsInv
<1>2. t \in Users
    <2>1. todo[t] \in OtherCalls(t)
        BY <1>1, ProbeCallsLeft DEF BridgeInv, CallsInv
    <2>2. todo[t] \notin BootCalls
        BY <1>1 DEF BootCalls
    <2> QED
        BY <2>1, <2>2 DEF OtherCalls
<1>3. good[t] => /\ Head(todo[t]) = "put" /\ req[t].what # "fallback" /\ Takes(Resolved)
                 /\ req[t].what # "legacy" => req[t].launch = Resolved
    BY <1>1, <1>2, PutCalls DEF BridgeInv, RouteInv, Settled
<1> QED
    BY <1>1, <1>2, <1>3 DEF PatchStatus

LEMMA CachedKeeps ==
    ASSUME BridgeInv, NEW t \in TabTasks, CachedAnswer(t)
    PROVE  BridgeInv'
<1>1. PICK route \in {"patch-0002", "legacy"} :
        /\ Answers(t, route)
        /\ \E status \in IF route = "legacy" THEN LegacyStatus(t) ELSE PatchStatus(t) :
              IF Heals(status)
              THEN /\ mode' = None
                   /\ Attempt(t, "detect", "patch-0002")
                   /\ UNCHANGED <<todo, refused, good>>
              ELSE Returned(t, status) /\ UNCHANGED <<mode, home, redeemed, store>>
        /\ UNCHANGED <<url, bearer, cache, app, runtime, launched, loads, failures>>
    BY DEF CachedAnswer
<1>2. /\ t \in Users /\ todo[t] # <<>> /\ Head(todo[t]) \in {"get", "put"}
      /\ good[t] => Head(todo[t]) = "put"
      /\ good[t] /\ route # "legacy" => PatchStatus(t) = {200}
    BY <1>1, StorageUser DEF Answers
<1>3. url' = url /\ gate' = gate /\ lapsed' = lapsed /\ kind' = kind /\ live' = live
    BY <1>1 DEF app, runtime
<1>4. PICK status \in IF route = "legacy" THEN LegacyStatus(t) ELSE PatchStatus(t) :
              IF Heals(status)
              THEN /\ mode' = None
                   /\ Attempt(t, "detect", "patch-0002")
                   /\ UNCHANGED <<todo, refused, good>>
              ELSE Returned(t, status) /\ UNCHANGED <<mode, home, redeemed, store>>
    BY <1>1
<1>5. CASE Heals(status)
    BY <1>2, <1>3, <1>4, <1>5, AttemptKeeps
<1>6. CASE ~Heals(status)
    <2>1. Returned(t, status) /\ mode' = mode /\ home' = home
        BY <1>4, <1>6
    <2>2. good[t] => status = 200
        BY <1>2, <1>4, <1>6 DEF LegacyStatus, Heals
    <2>3. SameToken /\ mode' \in {None, "patch-0002", "legacy"}
        BY <1>3, <2>1 DEF SameToken, BridgeInv, RouteInv
    <2> QED
        BY <1>2, <1>3, <2>1, <2>2, <2>3, ReturnedKeeps
<1> QED
    BY <1>5, <1>6

LEMMA DetectKeeps ==
    ASSUME BridgeInv, NEW t \in TabTasks, DetectAnswer(t)
    PROVE  BridgeInv'
<1>1. /\ t \in Users /\ todo[t] # <<>> /\ Head(todo[t]) \in {"get", "put"}
      /\ good[t] => PatchStatus(t) = {200}
    BY StorageUser DEF DetectAnswer, Answers
<1>2. url' = url /\ gate' = gate /\ lapsed' = lapsed /\ kind' = kind /\ live' = live
    BY DEF DetectAnswer, app, runtime
<1>3. PICK status \in PatchStatus(t) :
          IF status = 401
          THEN /\ Attempt(t, "fallback", "legacy")
               /\ UNCHANGED <<todo, mode, refused, good>>
          ELSE /\ mode' = "patch-0002"
               /\ Returned(t, status)
               /\ UNCHANGED <<home, redeemed, store>>
    BY DEF DetectAnswer
<1>4. CASE status = 401
    <2>1. ~good[t] /\ mode' \in {None, "patch-0002", "legacy"}
        BY <1>1, <1>3, <1>4 DEF BridgeInv, RouteInv
    <2> QED
        BY <1>1, <1>2, <1>3, <1>4, <2>1, AttemptKeeps
<1>5. CASE status # 401
    <2>1. SameToken /\ Returned(t, status) /\ mode' = "patch-0002"
        BY <1>2, <1>3, <1>5 DEF SameToken
    <2> QED
        BY <1>1, <1>2, <1>3, <2>1, ReturnedKeeps
<1> QED
    BY <1>4, <1>5

LEMMA FallbackKeeps ==
    ASSUME BridgeInv, NEW t \in TabTasks, FallbackAnswer(t)
    PROVE  BridgeInv'
<1>1. /\ t \in Users /\ todo[t] # <<>> /\ Head(todo[t]) \in {"get", "put"} /\ ~good[t]
    BY StorageUser DEF FallbackAnswer, Answers
<1>2. SameToken /\ gate' = gate
    BY DEF FallbackAnswer, app, runtime, SameToken
<1>3. PICK status : /\ mode' = IF status < 400 THEN "legacy" ELSE "patch-0002"
                    /\ Returned(t, IF status < 400 THEN status ELSE 401)
    BY DEF FallbackAnswer
<1>4. PICK result : result = IF status < 400 THEN status ELSE 401
    OBVIOUS
<1> QED
    BY <1>1, <1>2, <1>3, <1>4, ReturnedKeeps

-----------------------------------------------------------------------------
(* The page, the user and the runtime's side.                              *)

LEMMA ScrubKeeps ==
    ASSUME BridgeInv, NEW t \in TabTasks, scrub_launch_token_from_url(t)
    PROVE  BridgeInv'
<1>1. /\ todo[t] # <<>> /\ Head(todo[t]) = "scrub" /\ gate' = gate /\ mode' = mode
      /\ refused' = refused /\ url' = None /\ home' = home /\ lapsed' = lapsed
      /\ kind' = kind /\ live' = live /\ GoOn(t, Rest(t)) /\ StillGood
    BY DEF scrub_launch_token_from_url, AtCall, app, runtime
<1>2. /\ DOMAIN good' = Users
      /\ \A u \in Users : good'[u] = (good[u] /\ Takes(Resolved)')
    BY <1>1 DEF StillGood
<1> DEFINE calls == Rest(t)
<1>3. /\ GoOn(t, calls)
      /\ calls \in OtherCalls(t) \cup {<<>>} \/ (calls \in ProbeCalls /\ Probing(t))
    BY <1>1, RestLeft DEF BridgeInv
<1> HIDE DEF calls
<1>4. CallsInv' /\ ProbeInv'
    BY <1>1, <1>2, <1>3, GoesOn DEF BridgeInv
<1>5. t \in Users => Settled(t)'
    BY <1>1, <1>2, SettledOtherwise DEF BridgeInv, RouteInv
<1>6. ASSUME NEW u \in Users \ {t}
      PROVE  Settled(u)'
    <2>1. SUFFICES ASSUME good[u], Takes(Resolved)'
                   PROVE  Settled(u)'
        BY <1>2 DEF Settled
    <2>2. todo'[u] = todo[u] /\ req'[u] = req[u]
        BY <1>1 DEF GoOn, BridgeInv, CallsInv, Users, TabTasks
    <2>3. Settled(u)
        BY DEF BridgeInv, RouteInv
    <2>4. Resolved = Raw /\ Raw # None
        BY <2>1, <2>3 DEF Settled, Takes, Resolved, BridgeInv, RouteInv
    <2>5. Raw' = home
        BY <1>1 DEF Raw
    <2>6. home = Raw => Raw' = Raw /\ Resolved' = Resolved /\ home' = Raw'
        BY <1>1, <2>5 DEF Resolved
    <2> QED
        BY <2>1, <2>2, <2>3, <2>6 DEF Settled
<1> QED
    BY <1>1, <1>4, <1>5, <1>6 DEF BridgeInv, RouteInv

LEMMA LoadKeeps ==
    ASSUME BridgeInv, NEW token \in Launches \cup {None}, Load(token)
    PROVE  BridgeInv'
<1>1. /\ todo' = [t \in TabTasks |-> IF t = "boot" THEN <<"redeem", "scrub", "cap">> ELSE <<>>]
      /\ req' = [t \in TabTasks |-> None]
      /\ good' = [u \in Users |-> FALSE]
      /\ mode' = mode /\ refused' = refused
    BY DEF Load
<1>2. None \notin live'
    BY BridgeConstants DEF Load, BridgeInv, RouteInv
<1>3. \A t \in TabTasks : todo'[t] \in OtherCalls(t) \cup {<<>>}
    BY <1>1 DEF OtherCalls, BootCalls
<1>4. CallsInv'
    BY <1>1, <1>3 DEF CallsInv
<1>5. ProbeInv'
    BY <1>3, CallsApart DEF ProbeInv, Probing
<1>6. \A u \in Users : Settled(u)'
    BY <1>1 DEF Settled
<1> QED
    BY <1>1, <1>2, <1>4, <1>5, <1>6 DEF BridgeInv, RouteInv

LEMMA FetchFailsKeeps ==
    ASSUME BridgeInv, NEW t \in TabTasks, FetchFails(t)
    PROVE  BridgeInv'
<1>1. /\ req[t] # None /\ UNCHANGED <<tab, runtime>> /\ refused' = refused
      /\ DOMAIN good' = Users
      /\ \A u \in Users : good'[u] = (good[u] /\ (u = t => Rest(t) # <<>>))
    BY DEF FetchFails
<1>2. todo[t] # <<>>
    BY <1>1 DEF BridgeInv, CallsInv
<1>3. CASE req[t].what = "session"
    <2>1. Head(todo[t]) = "session"
        BY <1>1, <1>3, AwaitedAt DEF BridgeInv, CallsInv
    <2>2. Probing(t)
        BY <1>2, <2>1, OtherCallsLeft DEF BridgeInv, CallsInv, Probing
    <2>3. GoOn(t, <<>>)
        BY <1>3 DEF FetchFails
    <2> QED
        BY <1>1, <2>2, <2>3, ProbeEnds
<1>4. CASE req[t].what # "session"
    <2>1. GoOn(t, Rest(t)) /\ gate' = gate
        BY <1>4 DEF FetchFails, app
    <2> DEFINE calls == Rest(t)
    <2>2. /\ GoOn(t, calls)
          /\ calls \in OtherCalls(t) \cup {<<>>} \/ (calls \in ProbeCalls /\ Probing(t))
        BY <1>2, <2>1, RestLeft DEF BridgeInv
    <2> HIDE DEF calls
    <2>3. CallsInv' /\ ProbeInv'
        BY <1>1, <2>1, <2>2, GoesOn DEF BridgeInv
    <2>4. SameToken /\ mode' = mode
        BY <1>1 DEF SameToken, tab, runtime
    <2>5. t \in Users => Settled(t)'
        <3>1. SUFFICES ASSUME t \in Users, good[t], Rest(t) # <<>>
                       PROVE  Settled(t)'
            BY <1>1 DEF Settled
        <3>2. Settled(t) /\ Head(todo[t]) = "redeem"
            BY <3>1, GoodWrites DEF BridgeInv, RouteInv
        <3>3. todo'[t] = Rest(t) /\ req'[t] = None
            BY <2>1 DEF GoOn, BridgeInv, CallsInv
        <3> QED
            BY <1>1, <2>4, <3>1, <3>2, <3>3, SettledGoesOn
    <2>6. \A u \in Users \ {t} : Settled(u)'
        <3>1. \A u \in Users \ {t} : good'[u] = good[u] \/ ~good'[u]
            BY <1>1
        <3>2. \A u \in Users \ {t} : todo'[u] = todo[u] /\ req'[u] = req[u]
            BY <2>1 DEF GoOn, BridgeInv, CallsInv, Users, TabTasks
        <3>3. ASSUME NEW u \in Users \ {t}
              PROVE  Settled(u)'
            <4>1. CASE good'[u] = good[u]
                BY <2>4, <3>2, <4>1, OtherSettled DEF BridgeInv, RouteInv, SameToken
            <4>2. CASE ~good'[u]
                BY <4>2 DEF Settled
            <4> QED
                BY <3>1, <4>1, <4>2
        <3> QED
            BY <3>3
    <2> QED
        BY <1>1, <2>3, <2>4, <2>5, <2>6 DEF BridgeInv, RouteInv, SameToken
<1> QED
    BY <1>3, <1>4

LEMMA EndsKeeps ==
    ASSUME BridgeInv, Ends
    PROVE  BridgeInv'
<1>1. /\ UNCHANGED <<tab, app, tabTasks>> /\ kind' = kind /\ refused' = refused /\ StillGood
      /\ live' \subseteq live
    BY DEF Ends
<1>2. /\ DOMAIN good' = Users
      /\ \A u \in Users : good'[u] = (good[u] /\ Takes(Resolved)')
    BY <1>1 DEF StillGood
<1>3. CallsInv' /\ ProbeInv'
    BY <1>1, <1>2 DEF BridgeInv, CallsInv, ProbeInv, Probing, tabTasks, app
<1>4. None \notin live'
    BY <1>1 DEF BridgeInv, RouteInv
<1>5. ASSUME NEW u \in Users
      PROVE  Settled(u)'
    <2>1. SUFFICES ASSUME good[u], Takes(Resolved)'
                   PROVE  Settled(u)'
        BY <1>2 DEF Settled
    <2>2. Settled(u)
        BY DEF BridgeInv, RouteInv
    <2>3. Raw' = Raw
        BY <1>1 DEF Raw, tab
    <2>4. Resolved = Raw
        BY <2>1, <2>2 DEF Settled, Takes, Resolved, BridgeInv, RouteInv
    <2>5. Resolved' = Raw'
        BY <1>4, <2>1 DEF Takes, Resolved
    <2> QED
        BY <1>1, <2>1, <2>2, <2>3, <2>4, <2>5 DEF Settled, tab, tabTasks
<1> QED
    BY <1>1, <1>3, <1>4, <1>5 DEF BridgeInv, RouteInv, tab

LEMMA UpgradeKeeps ==
    ASSUME BridgeInv, Upgrade
    PROVE  BridgeInv'
<1>1. /\ UNCHANGED <<tab, app, tabTasks>> /\ refused' = refused /\ good' = good
      /\ live' = live /\ kind = "older"
    BY DEF Upgrade
<1>2. CallsInv' /\ ProbeInv'
    BY <1>1 DEF BridgeInv, CallsInv, ProbeInv, Probing, tabTasks, app
<1>3. ASSUME NEW u \in Users
      PROVE  Settled(u)'
    BY <1>1 DEF Settled, Takes, BridgeInv, RouteInv
<1> QED
    BY <1>1, <1>2, <1>3 DEF BridgeInv, RouteInv, tab

LEMMA BridgeStep ==
    ASSUME BridgeInv, [BridgeNext]_bridgeVars
    PROVE  BridgeInv'
<1>1. ASSUME NEW t \in TabTasks, Run(t)
      PROVE  BridgeInv'
    BY <1>1, RedeemKeeps, ScrubKeeps, CapabilityKeeps, AskingKeeps, DispatchKeeps DEF Run
<1>2. ASSUME NEW t \in TabTasks, Answer(t)
      PROVE  BridgeInv'
    BY <1>2, SessionStartKeeps, RuntimeTokenKeeps, CapabilityAnswerKeeps, WhoamiKeeps,
       SessionKeeps, CachedKeeps, DetectKeeps, FallbackKeeps DEF Answer
<1>3. ASSUME NEW u \in Users, NEW op \in {"get", "put"}, Use(u, op)
      PROVE  BridgeInv'
    BY <1>3, UseKeeps
<1>4. CASE UNCHANGED bridgeVars
    <2>1. UNCHANGED <<tab, app, tabTasks>> /\ refused' = refused /\ good' = good
          /\ live' = live /\ kind' = kind /\ lapsed' = lapsed
        BY <1>4 DEF bridgeVars, history, runtime
    <2>2. CallsInv' /\ ProbeInv'
        BY <2>1 DEF BridgeInv, CallsInv, ProbeInv, Probing, tabTasks, app
    <2>3. \A u \in Users : Settled(u)'
        BY <2>1, OtherSettled DEF BridgeInv, RouteInv, tab, tabTasks
    <2> QED
        BY <2>1, <2>2, <2>3 DEF BridgeInv, RouteInv, tab
<1> QED
    BY <1>1, <1>2, <1>3, <1>4, FetchFailsKeeps, MountKeeps, RetryKeeps, LoadKeeps, EndsKeeps,
       UpgradeKeeps DEF BridgeNext, Users

\* A gate that is open stays open through every answer to an earlier probe:
\* none is running.
LEMMA OpenGateStays ==
    ASSUME BridgeInv, BridgeNext, gate = "Ready", session' = "runtime"
    PROVE  gate' = "Ready"
<1>1. \A t \in TabTasks : ~Probing(t)
    BY DEF BridgeInv, ProbeInv
<1>2. ASSUME NEW t \in TabTasks
      PROVE  ~(req[t] # None /\ req[t].what = "session")
    <2>1. SUFFICES ASSUME req[t] # None, req[t].what = "session" PROVE FALSE
        OBVIOUS
    <2>2. todo[t] # <<>> /\ Head(todo[t]) = "session"
        BY <2>1, AwaitedAt DEF BridgeInv, CallsInv
    <2> QED
        BY <1>1, <2>2, OtherCallsLeft DEF BridgeInv, CallsInv, Probing
<1>3. ASSUME NEW t \in TabTasks, Run(t) PROVE gate' = gate
    BY <1>3 DEF Run, redeem_launch_token, scrub_launch_token_from_url, ensure_capability_token,
       request_capability_token, provider_call, session_current, dispatch_storage, app
<1>4. ASSUME NEW t \in TabTasks, Answer(t) PROVE gate' \in {gate, "Ready"}
    BY <1>2, <1>4 DEF Answer, SessionStart, RuntimeToken, CapabilityAnswer, WhoamiAnswer,
       inherit_session, CachedAnswer, DetectAnswer, FallbackAnswer, app, Answers, Judged
<1>5. ASSUME NEW t \in TabTasks, FetchFails(t) PROVE gate' = gate
    BY <1>2, <1>5 DEF FetchFails, app
<1>6. ASSUME NEW token, Load(token) PROVE gate' = "Ready"
    BY <1>6, BridgeConstants DEF Load
<1>7. ~MountProbe /\ ~Retry
    BY DEF MountProbe, Retry, MayRetry
<1>8. ASSUME Ends \/ Upgrade \/ \E u, op : Use(u, op) PROVE gate' = gate
    BY <1>8 DEF Ends, Upgrade, Use, app
<1> QED
    BY <1>3, <1>4, <1>5, <1>6, <1>7, <1>8 DEF BridgeNext

\* Whatever a load, an answer, a fault or another task does in between, every
\* call of provider_call and dispatch_storage goes by the launch token, the
\* route and the probe that it set out with, as far as the bridge relies on it.
THEOREM BridgeInvariant == BridgeSpec => []BridgeInv
<1>1. BridgeInit => BridgeInv
    <2> SUFFICES ASSUME BridgeInit PROVE BridgeInv
        OBVIOUS
    <2>1. CallsInv
        BY DEF BridgeInit, CallsInv
    <2>2. ProbeInv
        BY CallsApart DEF BridgeInit, ProbeInv, Probing
    <2> QED
        BY <2>1, <2>2 DEF BridgeInit, BridgeInv, RouteInv, Settled
<1>2. BridgeInv /\ [BridgeNext]_bridgeVars => BridgeInv'
    BY BridgeStep
<1> QED
    BY <1>1, <1>2, PTL DEF BridgeSpec

\* dispatch_storage never gives the legacy route's refusal back for a write
\* whose launch token the runtime took from its first step to its last.
THEOREM BridgeWritesGoThrough == BridgeSpec => []WritesGoThrough
<1>1. BridgeInv => WritesGoThrough
    BY DEF BridgeInv, RouteInv, WritesGoThrough
<1> QED
    BY <1>1, BridgeInvariant, PTL

\* No late answer to an earlier probe_runtime or retry closes the gate again
\* behind a user who is in.
THEOREM BridgeReadyStays == BridgeSpec => ReadyStays
<1>1. BridgeInv /\ [BridgeNext]_bridgeVars => [gate = "Ready" /\ session' = "runtime" => gate' = "Ready"]_bridgeVars
    BY OpenGateStays
<1> QED
    BY <1>1, BridgeInvariant, PTL DEF BridgeSpec, ReadyStays
=============================================================================
