---------------------------- MODULE BrokerProofs ----------------------------
(* Proofs about Broker, for every set of topics, consumers and senders and *)
(* every bound, with requests, receiver tasks, saves and restarts in any   *)
(* order and the process dying at any point.                               *)
(*                                                                         *)
(* A broker lives in three places: the memory of the process, snapshots    *)
(* that tasks are about to write, and the file.  What is to hold of the    *)
(* one in memory after a restart has to hold of all of them before, so the *)
(* invariants are predicates of a broker, claimed of each copy.            *)
EXTENDS Broker, ListsProofs

Entries == [seq : Nat, from : Senders, id : Nat]

Brokers ==
    [log : [Topics -> Seq(Entries)], cursors : [Topics -> [Consumers -> Nat]],
     next_seq : Nat, subs : [Topics -> (SUBSET Tickets) \cup {None}]]

Saving == [at : {"idle", "lock", "open", "write"}, snap : Brokers \cup {None}]

\* A task that holds a snapshot.
Holds(x) == save[x].at \in {"open", "write"}

Unreadable == {Absent, Emptied, Mixed}

-----------------------------------------------------------------------------
(* What holds of every copy of the broker.                                 *)

\* Numbers and ids were given out, and cursors stay inside their logs.
Given(b, n) ==
    /\ b.next_seq <= n
    /\ \A t \in Topics :
         /\ \A k \in 1..Len(b.log[t]) :
              b.log[t][k].seq < b.next_seq /\ b.log[t][k].id \in 1..n
         /\ \A c \in Consumers : b.cursors[t][c] <= Len(b.log[t])

\* No number was given twice.
Distinct(b) ==
    \A t, u \in Topics : \A j \in 1..Len(b.log[t]), k \in 1..Len(b.log[u]) :
        b.log[t][j].seq = b.log[u][k].seq => t = u /\ j = k

\* What lies behind a cursor is in H, or was not asked for.
Gapless(b, H) ==
    \A t \in Topics, c \in Consumers : \A k \in 1..b.cursors[t][c] :
        b.log[t][k].from = SkipOf[c] \/ <<t, c, b.log[t][k].id>> \in H

Sound(b, n, H) == b \in Brokers /\ Given(b, n) /\ Distinct(b) /\ Gapless(b, H)

\* What consumers were handed, will be by the answer under way, or would have
\* been by one a process died with.
Handed ==
    {d \in Topics \X Consumers \X Nat :
        \/ d[3] \in seen[d[1]][d[2]]
        \/ d \in cutOff
        \/ /\ request # None /\ request.op = "recv"
           /\ request.t = d[1] /\ request.c = d[2] /\ d[3] \in request.ids}

TypeInv ==
    /\ save \in [Tasks -> Saving]
    /\ \A x \in Tasks : save[x].at \in {"idle", "lock"} => save[x].snap = None
    /\ request # None => request \in Requests /\ (request.op = "recv" => request.c \in Consumers)
    /\ seen \in [Topics -> [Consumers -> SUBSET Nat]]
    /\ listening \subseteq joined /\ joined \subseteq Topics /\ boot \subseteq Topics
    /\ restarts \in 0..MaxRestarts /\ appends \in 0..MaxAppends

SoundInv ==
    /\ Sound(broker, appends, Handed)
    /\ file \in Unreadable \/ Sound(file, appends, Handed)
    /\ \A x \in Tasks : Holds(x) => Sound(save[x].snap, appends, Handed)

-----------------------------------------------------------------------------
(* Lemmas about append and drain.                                          *)

\* The bounds are naturals.
LEMMA Bounds == MaxAppends \in Nat /\ MaxRestarts \in Nat
    BY BrokerConstants

\* drain's loop stops at the cursor or behind it, inside the log.
LEMMA StopsAtRange ==
    ASSUME NEW b \in Brokers, NEW t \in Topics, NEW c \in Consumers,
           b.cursors[t][c] <= Len(b.log[t])
    PROVE  StopsAt(b, t, c) \in b.cursors[t][c] .. Len(b.log[t])
<1> DEFINE fits == {j \in b.cursors[t][c] .. Len(b.log[t]) :
                      \A k \in b.cursors[t][c] .. j - 1 : Cardinality(Taken(b, t, c, k)) < Limit}
<1>1. b.cursors[t][c] \in Nat /\ Len(b.log[t]) \in Nat
    BY DEF Brokers
<1>2. b.cursors[t][c] \in fits
    BY <1>1
<1>3. fits \in SUBSET (0..Len(b.log[t]))
    BY <1>1
<1>4. \E j \in fits : \A k \in fits : k <= j
    BY <1>1, <1>2, <1>3, GreatestNat
<1>5. StopsAt(b, t, c) \in fits
    BY <1>4 DEF StopsAt
<1> QED
    BY <1>5

\* A copy stays sound while ids are given out and messages handed over.
LEMMA SoundGrows ==
    ASSUME NEW b, NEW n \in Nat, NEW m \in Nat, n <= m, NEW H, NEW G, H \subseteq G,
           Sound(b, n, H)
    PROVE  Sound(b, m, G)
<1>1. b \in Brokers /\ Given(b, n) /\ Distinct(b) /\ Gapless(b, H)
    BY DEF Sound
<1>2. Given(b, m)
    BY <1>1 DEF Given, Brokers
<1>3. Gapless(b, G)
    BY <1>1 DEF Gapless
<1> QED
    BY <1>1, <1>2, <1>3 DEF Sound

\* Broker::append adds one entry at the end of one log.
LEMMA AppendedLog ==
    ASSUME NEW b \in Brokers, NEW n \in Nat, NEW t \in Topics, NEW from \in Senders,
           NEW a, a = Appended(b, t, from, n + 1),
           NEW e, e = [seq |-> b.next_seq, from |-> from, id |-> n + 1]
    PROVE  /\ a \in Brokers
           /\ a.cursors = b.cursors /\ a.subs = b.subs /\ a.next_seq = b.next_seq + 1
           /\ \A u \in Topics \ {t} : a.log[u] = b.log[u]
           /\ \A u \in Topics : Len(b.log[u]) \in Nat /\ b.log[u] \in Seq(Entries)
           /\ Len(a.log[t]) = Len(b.log[t]) + 1
           /\ a.log[t][Len(b.log[t]) + 1] = e
           /\ \A k \in 1..Len(b.log[t]) : a.log[t][k] = b.log[t][k]
           /\ \A k \in 1..Len(a.log[t]) : k \in 1..Len(b.log[t]) \/ k = Len(b.log[t]) + 1
<1> DEFINE g == Logged(b, t, from, n + 1)
<1>1. /\ b.log \in [Topics -> Seq(Entries)] /\ b.next_seq \in Nat
      /\ b.cursors \in [Topics -> [Consumers -> Nat]]
      /\ b.subs \in [Topics -> (SUBSET Tickets) \cup {None}]
    BY DEF Brokers
<1>2. e \in Entries
    BY <1>1 DEF Entries
<1>3. b = [log |-> b.log, cursors |-> b.cursors, next_seq |-> b.next_seq, subs |-> b.subs]
    BY DEF Brokers
<1>4. g = [b EXCEPT !.log[t] = Append(@, e)] /\ a = [g EXCEPT !.next_seq = @ + 1]
    BY DEF Logged, Appended
<1> HIDE DEF g
<1>5. g = [log |-> [b.log EXCEPT ![t] = Append(@, e)], cursors |-> b.cursors,
           next_seq |-> b.next_seq, subs |-> b.subs]
    BY <1>3, <1>4
<1>6. a = [log |-> [b.log EXCEPT ![t] = Append(@, e)], cursors |-> b.cursors,
           next_seq |-> b.next_seq + 1, subs |-> b.subs]
    BY <1>1, <1>4, <1>5, ZenonT(60)
<1>7. a.log = [b.log EXCEPT ![t] = Append(@, e)] /\ a.log \in [Topics -> Seq(Entries)]
    <2>1. a.log = [b.log EXCEPT ![t] = Append(@, e)]
        BY <1>6
    <2>2. b.log[t] \in Seq(Entries)
        BY <1>1
    <2>3. Append(b.log[t], e) \in Seq(Entries)
        BY <1>2, <2>2
    <2> QED
        BY <1>1, <2>1, <2>3, Zenon
<1>8. a \in Brokers /\ a.cursors = b.cursors /\ a.subs = b.subs /\ a.next_seq = b.next_seq + 1
    BY <1>1, <1>6, <1>7 DEF Brokers
<1>9. /\ \A u \in Topics \ {t} : a.log[u] = b.log[u]
      /\ a.log[t] = Append(b.log[t], e)
      /\ \A u \in Topics : Len(b.log[u]) \in Nat /\ b.log[u] \in Seq(Entries)
    BY <1>1, <1>7
<1>10. /\ Len(a.log[t]) = Len(b.log[t]) + 1
       /\ a.log[t][Len(b.log[t]) + 1] = e
       /\ \A k \in 1..Len(b.log[t]) : a.log[t][k] = b.log[t][k]
    <2>1. b.log[t] \in Seq(Entries)
        BY <1>9
    <2> QED
        BY <1>2, <1>9, <2>1
<1>11. \A k \in 1..Len(a.log[t]) : k \in 1..Len(b.log[t]) \/ k = Len(b.log[t]) + 1
    BY <1>9, <1>10
<1> QED
    BY <1>8, <1>9, <1>10, <1>11

\* Broker::append keeps a broker sound.
LEMMA AppendedSound ==
    ASSUME NEW b, NEW n \in Nat, NEW H, Sound(b, n, H),
           NEW t \in Topics, NEW from \in Senders
    PROVE  Sound(Appended(b, t, from, n + 1), n + 1, H)
<1> DEFINE e == [seq |-> b.next_seq, from |-> from, id |-> n + 1]
           a == Appended(b, t, from, n + 1)
<1>1. b \in Brokers /\ Given(b, n) /\ Distinct(b) /\ Gapless(b, H)
    BY DEF Sound
<1>2. /\ b.log \in [Topics -> Seq(Entries)] /\ b.next_seq \in Nat
      /\ b.cursors \in [Topics -> [Consumers -> Nat]]
    BY <1>1 DEF Brokers
<1>3. e.seq = b.next_seq /\ e.from = from /\ e.id = n + 1
    OBVIOUS
<1>4. /\ a \in Brokers
      /\ a.cursors = b.cursors /\ a.subs = b.subs /\ a.next_seq = b.next_seq + 1
      /\ \A u \in Topics \ {t} : a.log[u] = b.log[u]
      /\ \A u \in Topics : Len(b.log[u]) \in Nat /\ b.log[u] \in Seq(Entries)
      /\ Len(a.log[t]) = Len(b.log[t]) + 1
      /\ a.log[t][Len(b.log[t]) + 1] = e
      /\ \A k \in 1..Len(b.log[t]) : a.log[t][k] = b.log[t][k]
      /\ \A k \in 1..Len(a.log[t]) : k \in 1..Len(b.log[t]) \/ k = Len(b.log[t]) + 1
    BY <1>1, AppendedLog
<1> HIDE DEF a, e
<1>5. Given(a, n + 1)
    <2>1. ASSUME NEW u \in Topics, NEW k \in 1..Len(b.log[u])
          PROVE  b.log[u][k].seq < b.next_seq + 1 /\ b.log[u][k].id \in 1..n + 1
        <3>1. b.log[u][k] \in Entries
            BY <1>4
        <3>2. b.log[u][k].seq < b.next_seq /\ b.log[u][k].id \in 1..n
            BY <1>1 DEF Given
        <3> QED
            BY <1>2, <3>1, <3>2, SMTT(60) DEF Entries
    <2>2. \A u \in Topics : \A k \in 1..Len(a.log[u]) :
              a.log[u][k].seq < b.next_seq + 1 /\ a.log[u][k].id \in 1..n + 1
        <3>1. \A k \in 1..Len(a.log[t]) :
                  a.log[t][k].seq < b.next_seq + 1 /\ a.log[t][k].id \in 1..n + 1
            <4>1. e.seq < b.next_seq + 1 /\ e.id \in 1..n + 1
                BY <1>2, <1>3
            <4> QED
                BY <1>4, <2>1, <4>1
        <3> QED
            BY <1>4, <2>1, <3>1
    <2>3. \A u \in Topics, c \in Consumers : b.cursors[u][c] <= Len(a.log[u])
        BY <1>1, <1>2, <1>4, SMTT(60) DEF Given
    <2>4. b.next_seq + 1 <= n + 1
        BY <1>1, <1>2 DEF Given
    <2> QED
        BY <1>4, <2>2, <2>3, <2>4 DEF Given
<1>6. Distinct(a)
    <2>1. ASSUME NEW u \in Topics, NEW j \in 1..Len(b.log[u])
          PROVE  b.log[u][j].seq # e.seq
        <3>1. b.log[u][j].seq < b.next_seq
            BY <1>1 DEF Given
        <3>2. b.log[u][j] \in Entries
            BY <1>4
        <3> QED
            BY <1>2, <1>3, <3>1, <3>2 DEF Entries
    <2> SUFFICES ASSUME NEW u \in Topics, NEW v \in Topics,
                        NEW j \in 1..Len(a.log[u]), NEW k \in 1..Len(a.log[v]),
                        a.log[u][j].seq = a.log[v][k].seq
                 PROVE  u = v /\ j = k
        BY DEF Distinct
    <2>2. \/ j \in 1..Len(b.log[u]) /\ a.log[u][j] = b.log[u][j]
          \/ u = t /\ j = Len(b.log[t]) + 1 /\ a.log[u][j] = e
        <3>1. CASE u = t
            BY <1>4, <3>1
        <3>2. CASE u # t
            BY <1>4, <3>2
        <3> QED
            BY <3>1, <3>2
    <2>3. \/ k \in 1..Len(b.log[v]) /\ a.log[v][k] = b.log[v][k]
          \/ v = t /\ k = Len(b.log[t]) + 1 /\ a.log[v][k] = e
        <3>1. CASE v = t
            BY <1>4, <3>1
        <3>2. CASE v # t
            BY <1>4, <3>2
        <3> QED
            BY <3>1, <3>2
    <2>4. CASE j \in 1..Len(b.log[u]) /\ a.log[u][j] = b.log[u][j]
        <3>1. CASE k \in 1..Len(b.log[v]) /\ a.log[v][k] = b.log[v][k]
            BY <1>1, <2>4, <3>1 DEF Distinct
        <3>2. CASE v = t /\ k = Len(b.log[t]) + 1 /\ a.log[v][k] = e
            BY <2>1, <2>4, <3>2
        <3> QED
            BY <2>3, <3>1, <3>2
    <2>5. CASE u = t /\ j = Len(b.log[t]) + 1 /\ a.log[u][j] = e
        BY <2>1, <2>3, <2>5
    <2> QED
        BY <2>2, <2>4, <2>5
<1>7. Gapless(a, H)
    <2> SUFFICES ASSUME NEW u \in Topics, NEW c \in Consumers, NEW k \in 1..b.cursors[u][c]
                 PROVE  a.log[u][k].from = SkipOf[c] \/ <<u, c, a.log[u][k].id>> \in H
        BY <1>4 DEF Gapless
    <2>1. k \in 1..Len(b.log[u])
        BY <1>1, <1>2, <1>4 DEF Given
    <2>2. a.log[u][k] = b.log[u][k]
        BY <1>4, <2>1
    <2> QED
        BY <1>1, <2>2 DEF Gapless
<1> QED
    BY <1>4, <1>5, <1>6, <1>7 DEF Sound, a

\* An empty broker is sound.
LEMMA DefaultSound ==
    ASSUME NEW n \in Nat, NEW H
    PROVE  Sound(Default, n, H)
<1>1. /\ Default.next_seq = 0
      /\ \A t \in Topics : Default.log[t] = <<>> /\ Len(Default.log[t]) = 0
      /\ \A t \in Topics, c \in Consumers : Default.cursors[t][c] = 0
    BY DEF Default
<1>2. Default \in Brokers
    <2>1. <<>> \in Seq(Entries) /\ 0 \in Nat /\ None \in (SUBSET Tickets) \cup {None}
        OBVIOUS
    <2>2. /\ [t \in Topics |-> <<>>] \in [Topics -> Seq(Entries)]
          /\ [t \in Topics |-> [c \in Consumers |-> 0]] \in [Topics -> [Consumers -> Nat]]
          /\ [t \in Topics |-> None] \in [Topics -> (SUBSET Tickets) \cup {None}]
        BY <2>1
    <2> QED
        BY <2>1, <2>2, Zenon DEF Default, Brokers
<1>3. Given(Default, n) /\ Distinct(Default) /\ Gapless(Default, H)
    BY <1>1 DEF Given, Distinct, Gapless
<1> QED
    BY <1>2, <1>3 DEF Sound

\* ensure_topic only writes a subscription.
LEMMA SubscribedSound ==
    ASSUME NEW b, NEW n \in Nat, NEW H, Sound(b, n, H),
           NEW t \in Topics, NEW tickets \in (SUBSET Tickets) \cup {None}
    PROVE  Sound([b EXCEPT !.subs[t] = tickets], n, H)
<1> DEFINE a == [b EXCEPT !.subs[t] = tickets]
<1>1. b \in Brokers /\ Given(b, n) /\ Distinct(b) /\ Gapless(b, H)
    BY DEF Sound
<1>2. b = [log |-> b.log, cursors |-> b.cursors, next_seq |-> b.next_seq, subs |-> b.subs]
    BY <1>1 DEF Brokers
<1>3. a = [log |-> b.log, cursors |-> b.cursors, next_seq |-> b.next_seq,
           subs |-> [b.subs EXCEPT ![t] = tickets]]
    BY <1>2
<1> HIDE DEF a
<1>4. a \in Brokers
    BY <1>1, <1>3 DEF Brokers
<1>5. Given(a, n) /\ Distinct(a) /\ Gapless(a, H)
    BY <1>1, <1>3 DEF Given, Distinct, Gapless
<1> QED
    BY <1>4, <1>5 DEF Sound, a

\* What drain hands over was appended, and is all that the cursor passes.
LEMMA DrainedSound ==
    ASSUME NEW b, NEW n \in Nat, NEW H, Sound(b, n, H),
           NEW t \in Topics, NEW c \in Consumers,
           NEW G, H \subseteq G, \A m \in Drained(b, t, c).ids : <<t, c, m>> \in G
    PROVE  /\ Sound([b EXCEPT !.cursors[t][c] = Drained(b, t, c).idx], n, G)
           /\ Drained(b, t, c).ids \subseteq Nat
           /\ \A m \in Drained(b, t, c).ids :
                \E k \in 1..Drained(b, t, c).idx : b.log[t][k].id = m
           /\ b.cursors[t][c] <= Drained(b, t, c).idx
<1> DEFINE j == StopsAt(b, t, c)
           a == [b EXCEPT !.cursors[t][c] = j]
<1>1. b \in Brokers /\ Given(b, n) /\ Distinct(b) /\ Gapless(b, H)
    BY DEF Sound
<1>2. b = [log |-> b.log, cursors |-> b.cursors, next_seq |-> b.next_seq, subs |-> b.subs]
    BY <1>1 DEF Brokers
<1>3. /\ b.cursors \in [Topics -> [Consumers -> Nat]]
      /\ b.log \in [Topics -> Seq(Entries)]
      /\ b.log[t] \in Seq(Entries) /\ Len(b.log[t]) \in Nat /\ b.cursors[t][c] \in Nat
    BY <1>1 DEF Brokers
<1>4. j \in b.cursors[t][c] .. Len(b.log[t])
    BY <1>1, StopsAtRange DEF Given
<1>5. /\ Drained(b, t, c).idx = j
      /\ Drained(b, t, c).ids = {b.log[t][k].id : k \in Taken(b, t, c, j)}
    BY DEF Drained
<1> HIDE DEF j
<1>6. j \in Nat /\ b.cursors[t][c] <= j /\ j <= Len(b.log[t])
    BY <1>3, <1>4
<1>7. a = [log |-> b.log, cursors |-> [b.cursors EXCEPT ![t][c] = j],
           next_seq |-> b.next_seq, subs |-> b.subs]
    BY <1>2
<1> HIDE DEF a
<1>8. a.cursors \in [Topics -> [Consumers -> Nat]]
    BY <1>3, <1>6, <1>7
<1>9. a \in Brokers
    BY <1>1, <1>7, <1>8 DEF Brokers
<1>10. /\ \A u \in Topics, d \in Consumers :
             a.cursors[u][d] = IF u = t /\ d = c THEN j ELSE b.cursors[u][d]
       /\ a.log = b.log /\ a.next_seq = b.next_seq
    BY <1>3, <1>7
<1>11. Given(a, n) /\ Distinct(a)
    BY <1>1, <1>6, <1>10 DEF Given, Distinct
<1>12. \A k \in Taken(b, t, c, j) : k \in 1..j /\ k \in 1..Len(b.log[t])
    BY <1>3, <1>6 DEF Taken
<1>13. Gapless(a, G)
    <2> SUFFICES ASSUME NEW u \in Topics, NEW d \in Consumers, NEW k \in 1..a.cursors[u][d]
                 PROVE  b.log[u][k].from = SkipOf[d] \/ <<u, d, b.log[u][k].id>> \in G
        BY <1>10 DEF Gapless
    <2>1. CASE k \in 1..b.cursors[u][d]
        BY <1>1, <2>1 DEF Gapless
    <2>2. CASE k \notin 1..b.cursors[u][d]
        <3>1. u = t /\ d = c /\ k \in 1..j
            BY <1>10, <2>2
        <3>2. k \in b.cursors[t][c] + 1 .. j
            BY <1>3, <1>6, <2>2, <3>1
        <3>3. CASE b.log[t][k].from # SkipOf[c]
            BY <1>5, <3>1, <3>2, <3>3 DEF Taken
        <3> QED
            BY <3>1, <3>3
    <2> QED
        BY <2>1, <2>2
<1>14. \A k \in Taken(b, t, c, j) : b.log[t][k].id \in Nat
    BY <1>1, <1>12 DEF Given
<1> QED
    BY <1>5, <1>6, <1>9, <1>11, <1>12, <1>13, <1>14 DEF Sound, a

-----------------------------------------------------------------------------
(* The copies stay sound.                                                  *)

\* Nothing that was handed over is forgotten by a step that leaves requests,
\* answers and deaths alone.
LEMMA HandedSame == UNCHANGED <<request, seen, cutOff>> => Handed' = Handed
    BY DEF Handed

\* A step that gives out ids and hands over messages keeps every copy it does
\* not touch.
LEMMA CopyKept ==
    ASSUME TypeInv, appends' \in 0..MaxAppends, appends <= appends',
           Handed \subseteq Handed', NEW b, Sound(b, appends, Handed)
    PROVE  Sound(b, appends', Handed')
    BY BrokerConstants, SoundGrows DEF TypeInv

\* A task that begins to save holds no snapshot yet.
LEMMA SavesKept ==
    ASSUME TypeInv, NEW x \in Tasks, Saves(x)
    PROVE  /\ save' \in [Tasks -> Saving]
           /\ \A y \in Tasks : save'[y].at \in {"idle", "lock"} => save'[y].snap = None
           /\ \A y \in Tasks : Holds(y)' => Holds(y) /\ save'[y] = save[y]
           /\ save'[x] # Idle
<1>1. [at |-> "lock", snap |-> None] \in Saving
    BY DEF Saving
<1> QED
    BY <1>1 DEF TypeInv, Saves, Holds, Idle

\* A step of a request or a receiver that changes the broker in memory and
\* starts at most a save leaves everything sound if it leaves that broker so.
LEMMA MemoryStep ==
    ASSUME TypeInv, SoundInv, NEW x \in Tasks, Saves(x) \/ UNCHANGED save,
           UNCHANGED file, appends' \in 0..MaxAppends, appends <= appends',
           Handed \subseteq Handed', Sound(broker', appends', Handed')
    PROVE  SoundInv'
<1>1. \A b : Sound(b, appends, Handed) => Sound(b, appends', Handed')
    BY CopyKept
<1>2. \A y \in Tasks : Holds(y)' => Holds(y) /\ save'[y] = save[y]
    BY SavesKept DEF Holds
<1>3. file' \in Unreadable \/ Sound(file', appends', Handed')
    BY <1>1 DEF SoundInv, Unreadable, Absent, Emptied, Mixed
<1>4. \A y \in Tasks : Holds(y)' => Sound(save'[y].snap, appends', Handed')
    BY <1>1, <1>2 DEF SoundInv
<1> QED
    BY <1>3, <1>4 DEF SoundInv, Unreadable, Absent, Emptied, Mixed

\* An empty broker, no file and idle tasks.
LEMMA InitSound == Init => TypeInv /\ SoundInv
<1> SUFFICES ASSUME Init PROVE TypeInv /\ SoundInv
    OBVIOUS
<1>1. Idle \in Saving
    BY DEF Idle, Saving
<1>2. TypeInv
    BY <1>1, BrokerConstants DEF Init, TypeInv, Idle
<1>3. \A x \in Tasks : ~Holds(x)
    BY DEF Init, Holds, Idle
<1>4. Sound(broker, appends, Handed)
    BY DefaultSound DEF Init
<1> QED
    BY <1>2, <1>3, <1>4 DEF SoundInv, Unreadable, Init

\* save_broker copies the broker, empties the file and fills it with the copy.
LEMMA SaveSound ==
    ASSUME TypeInv, SoundInv, NEW x \in Tasks,
           TakeSnapshot(x) \/ OpenFile(x) \/ WriteFile(x)
    PROVE  TypeInv' /\ SoundInv'
<1>1. UNCHANGED <<broker, request, seen, cutOff, appends, restarts, joined, boot>>
    BY DEF TakeSnapshot, OpenFile, WriteFile, books
<1>2. Handed' = Handed
    BY <1>1, HandedSame
<1>3. broker \in Brokers /\ Sound(broker', appends', Handed')
    BY <1>1, <1>2 DEF SoundInv, Sound
<1>4. listening' \subseteq joined'
    BY <1>1 DEF TypeInv, TakeSnapshot, OpenFile, WriteFile
<1>5. save \in [Tasks -> Saving] /\ save[x] \in Saving
    BY DEF TypeInv
<1>6. CASE TakeSnapshot(x)
    <2>1. save' = [save EXCEPT ![x] = [at |-> "open", snap |-> broker]] /\ file' = file
        BY <1>6 DEF TakeSnapshot
    <2>2. [at |-> "open", snap |-> broker] \in Saving
        BY <1>3 DEF Saving
    <2>3. TypeInv'
        BY <1>1, <1>4, <2>1, <2>2 DEF TypeInv
    <2>4. \A y \in Tasks : Holds(y)' => Sound(save'[y].snap, appends', Handed')
        BY <1>1, <1>2, <1>5, <2>1 DEF SoundInv, Holds
    <2> QED
        BY <1>1, <1>2, <1>3, <2>1, <2>3, <2>4 DEF SoundInv, Unreadable, Absent, Emptied, Mixed
<1>7. CASE OpenFile(x)
    <2>1. /\ save' = [save EXCEPT ![x].at = "write"] /\ file' = Emptied
          /\ save[x].at = "open"
        BY <1>7 DEF OpenFile
    <2>2. save' = [save EXCEPT ![x] = [at |-> "write", snap |-> save[x].snap]]
        <3>1. save[x] = [at |-> save[x].at, snap |-> save[x].snap]
            BY <1>5 DEF Saving
        <3>2. [save[x] EXCEPT !.at = "write"] = [at |-> "write", snap |-> save[x].snap]
            BY <3>1
        <3> QED
            BY <2>1, <3>2
    <2>3. [at |-> "write", snap |-> save[x].snap] \in Saving
        BY <1>5 DEF Saving
    <2>4. TypeInv'
        BY <1>1, <1>4, <2>2, <2>3 DEF TypeInv
    <2>5. \A y \in Tasks : Holds(y)' => Sound(save'[y].snap, appends', Handed')
        BY <1>1, <1>2, <1>5, <2>1, <2>2 DEF SoundInv, Holds
    <2> QED
        BY <1>3, <2>1, <2>4, <2>5 DEF SoundInv, Unreadable, Absent, Emptied, Mixed
<1>8. CASE WriteFile(x)
    <2>1. /\ save' = [save EXCEPT ![x] = Idle] /\ save[x].at = "write"
          /\ file' = save[x].snap \/ file' = Mixed
        BY <1>8 DEF WriteFile
    <2>2. Idle \in Saving /\ Idle.at = "idle" /\ Idle.snap = None
        BY DEF Saving, Idle
    <2> HIDE DEF Idle
    <2>3. TypeInv'
        BY <1>1, <1>4, <2>1, <2>2 DEF TypeInv
    <2>4. \A y \in Tasks : Holds(y)' => Sound(save'[y].snap, appends', Handed')
        BY <1>1, <1>2, <1>5, <2>1, <2>2 DEF SoundInv, Holds
    <2>5. Sound(save[x].snap, appends', Handed')
        BY <1>1, <1>2, <2>1 DEF SoundInv, Holds
    <2> QED
        BY <1>3, <2>1, <2>3, <2>4, <2>5 DEF SoundInv, Unreadable, Absent, Emptied, Mixed
<1> QED
    BY <1>6, <1>7, <1>8

\* Subscribing, on a join, a send or a restart.
LEMMA SubscribeSound ==
    ASSUME TypeInv, SoundInv, NEW t \in Topics, NEW tickets \in (SUBSET Tickets) \cup {None},
           Subscribe(t, tickets), Handed' = Handed,
           UNCHANGED <<file, listening, boot, restarts, appends, seen>>,
           request' # None => /\ request' \in Requests
                              /\ request'.op = "recv" => request'.c \in Consumers
    PROVE  TypeInv' /\ SoundInv'
<1>1. Main \in Tasks /\ Saves(Main)
    BY DEF Tasks, Subscribe
<1>2. TypeInv'
    BY <1>1, SavesKept DEF TypeInv, Subscribe
<1>3. Sound(broker', appends', Handed')
    <2>1. Sound(broker, appends, Handed) /\ appends \in Nat
        BY DEF SoundInv, TypeInv
    <2>2. Sound([broker EXCEPT !.subs[t] = tickets], appends, Handed)
        BY <2>1, SubscribedSound
    <2> QED
        BY <2>2 DEF Subscribe
<1> QED
    BY <1>1, <1>2, <1>3, MemoryStep DEF TypeInv

\* gossip_join.
LEMMA GossipJoinSound ==
    ASSUME TypeInv, SoundInv, NEW t \in Topics, NEW tickets \in SUBSET Tickets,
           GossipJoin(t, tickets)
    PROVE  TypeInv' /\ SoundInv'
<1>1. request = None /\ request' = [op |-> "join", t |-> t, ids |-> {}, c |-> None]
    BY DEF GossipJoin, MainIdle
<1>2. request' \in Requests /\ request'.op = "join"
    BY <1>1 DEF Requests
<1>3. UNCHANGED <<seen, cutOff, file, listening, boot, restarts, appends>>
    BY DEF GossipJoin, books
<1>4. Handed' = Handed
    BY <1>1, <1>2, <1>3 DEF Handed
<1>5. Subscribe(t, tickets)
    BY DEF GossipJoin
<1> QED
    BY <1>2, <1>3, <1>4, <1>5, SubscribeSound

\* The join a send makes.
LEMMA SendJoinsSound ==
    ASSUME TypeInv, SoundInv, SendJoins
    PROVE  TypeInv' /\ SoundInv'
<1>1. request # None /\ request \in Requests /\ request.t \in Topics
    BY DEF SendJoins, TypeInv, Requests
<1>2. UNCHANGED <<request, seen, cutOff, file, listening, boot, restarts, appends>>
    BY DEF SendJoins, books
<1>3. Handed' = Handed
    BY <1>2, HandedSame
<1>4. Subscribe(request.t, {}) /\ {} \in (SUBSET Tickets) \cup {None}
    BY DEF SendJoins
<1> QED
    BY <1>1, <1>2, <1>3, <1>4, SubscribeSound DEF TypeInv

\* The join main makes after a restart.
LEMMA RejoinSound ==
    ASSUME TypeInv, SoundInv, NEW t \in Topics, Rejoin(t)
    PROVE  TypeInv' /\ SoundInv'
<1>1. UNCHANGED <<request, seen, cutOff, file, listening, boot, restarts, appends>>
    BY DEF Rejoin, books
<1>2. Handed' = Handed
    BY <1>1, HandedSame
<1>3. Subscribe(t, broker.subs[t])
    BY DEF Rejoin
<1>4. broker.subs[t] \in (SUBSET Tickets) \cup {None}
    BY DEF SoundInv, Sound, Brokers
<1> QED
    BY <1>1, <1>2, <1>3, <1>4, SubscribeSound DEF TypeInv

\* main goes on to the next subscription.
LEMMA RejoinedSound ==
    ASSUME TypeInv, SoundInv, NEW t \in Topics, Rejoined(t)
    PROVE  TypeInv' /\ SoundInv'
<1>1. UNCHANGED <<request, seen, cutOff, file, listening, joined, restarts, appends, save, broker>>
    BY DEF Rejoined, books
<1>2. Handed' = Handed
    BY <1>1, HandedSame
<1>3. boot' \subseteq boot
    BY DEF Rejoined
<1>4. TypeInv'
    BY <1>1, <1>3 DEF TypeInv
<1> QED
    BY <1>1, <1>2, <1>4 DEF SoundInv, Holds, Unreadable, Absent, Emptied, Mixed

\* gossip_send, and a message that reaches a receiver task.
LEMMA AppendStepSound ==
    ASSUME TypeInv, SoundInv, NEW t \in Topics, NEW from \in Senders,
           GossipSend(t, from) \/ Received(t, from)
    PROVE  TypeInv' /\ SoundInv'
<1>1. /\ appends' = appends + 1 /\ appends < MaxAppends
      /\ broker' = Appended(broker, t, from, appends + 1)
      /\ UNCHANGED <<seen, cutOff, file, listening, joined, boot, restarts>>
    BY DEF GossipSend, Received
<1>2. appends' \in 0..MaxAppends /\ appends \in Nat /\ appends <= appends'
    BY <1>1, BrokerConstants DEF TypeInv
<1>3. PICK x \in Tasks : Saves(x)
    BY DEF GossipSend, Received, Tasks
<1>4. /\ Handed' = Handed
      /\ request' # None => /\ request' \in Requests
                            /\ request'.op = "recv" => request'.c \in Consumers
    <2>1. CASE GossipSend(t, from)
        <3>1. request = None
              /\ request' = [op |-> "send", t |-> t, ids |-> {appends + 1}, c |-> None]
            BY <2>1 DEF GossipSend, MainIdle
        <3>2. request' \in Requests /\ request'.op = "send"
            BY <1>2, <3>1 DEF Requests
        <3> QED
            BY <1>1, <3>1, <3>2 DEF Handed
    <2>2. CASE Received(t, from)
        BY <1>1, <2>2, HandedSame DEF Received, TypeInv
    <2> QED
        BY <2>1, <2>2
<1>5. TypeInv'
    BY <1>1, <1>2, <1>3, <1>4, SavesKept DEF TypeInv
<1>6. Sound(broker', appends', Handed')
    BY <1>1, <1>2, <1>4, AppendedSound DEF SoundInv
<1> QED
    BY <1>1, <1>2, <1>3, <1>4, <1>5, <1>6, MemoryStep

\* gossip_recv: the answer holds what the cursor passed.
LEMMA GossipRecvSound ==
    ASSUME TypeInv, SoundInv, NEW t \in Topics, NEW c \in Consumers, GossipRecv(t, c)
    PROVE  TypeInv' /\ SoundInv'
<1> DEFINE r == Drained(broker, t, c)
<1>1. /\ request = None /\ UNCHANGED <<seen, cutOff, file, listening, joined, boot, restarts, appends>>
      /\ broker' = [broker EXCEPT !.cursors[t][c] = r.idx]
      /\ request' = IF r.ids = {} THEN None ELSE [op |-> "recv", t |-> t, ids |-> r.ids, c |-> c]
    BY DEF GossipRecv, MainIdle, books
<1>2. Saves(Main) \/ UNCHANGED save
    BY DEF GossipRecv, SavesCursor
<1>3. Sound(broker, appends, Handed) /\ appends \in Nat /\ appends \in 0..MaxAppends
    BY BrokerConstants DEF SoundInv, TypeInv
<1>4. r.ids \subseteq Nat
    <2> DEFINE G == Handed \cup {<<t, c, m>> : m \in r.ids}
    <2>1. Handed \subseteq G /\ \A m \in r.ids : <<t, c, m>> \in G
        OBVIOUS
    <2> HIDE DEF G
    <2> QED
        BY <1>3, <2>1, DrainedSound
<1> HIDE DEF r
<1>5. request' # None => request' \in Requests /\ request'.c = c /\ request'.op = "recv"
                         /\ request'.t = t /\ request'.ids = r.ids
    BY <1>1, <1>4 DEF Requests
<1>6. Handed \subseteq Handed'
    BY <1>1 DEF Handed
<1>7. \A m \in r.ids : <<t, c, m>> \in Handed'
    <2> SUFFICES ASSUME NEW m \in r.ids PROVE <<t, c, m>> \in Handed'
        OBVIOUS
    <2>1. request' = [op |-> "recv", t |-> t, ids |-> r.ids, c |-> c]
        BY <1>1
    <2>2. request' # None
        BY <1>4, <2>1, BrokerConstants DEF Requests
    <2> QED
        BY <1>4, <2>1, <2>2 DEF Handed
<1>8. Sound(broker', appends', Handed')
    BY <1>1, <1>3, <1>6, <1>7, DrainedSound DEF r
<1>9. Main \in Tasks
    BY DEF Tasks
<1>10. TypeInv'
    BY <1>1, <1>2, <1>5, <1>9, SavesKept DEF TypeInv
<1> QED
    BY <1>1, <1>2, <1>3, <1>6, <1>8, <1>9, <1>10, MemoryStep

\* An answer moves what was in it to what was handed over.
LEMMA AnswerSound ==
    ASSUME TypeInv, SoundInv, Answer
    PROVE  TypeInv' /\ SoundInv'
<1>1. /\ request # None /\ request' = None
      /\ UNCHANGED <<broker, file, joined, listening, boot, save, restarts, appends, cutOff>>
    BY DEF Answer
<1>2. /\ request \in Requests /\ request.t \in Topics /\ request.ids \subseteq Nat
      /\ request.op \in {"send", "join", "recv"}
      /\ request.op = "recv" => request.c \in Consumers
    BY <1>1 DEF TypeInv, Requests
<1>3. /\ request.op = "recv" =>
             seen' = [seen EXCEPT ![request.t][request.c] = @ \cup request.ids]
      /\ request.op # "recv" => seen' = seen
    BY <1>2 DEF Answer
<1>4. seen' \in [Topics -> [Consumers -> SUBSET Nat]]
    BY <1>2, <1>3 DEF TypeInv
<1>5. TypeInv'
    BY <1>1, <1>4 DEF TypeInv
<1>6. Handed \subseteq Handed'
    <2> SUFFICES ASSUME NEW t \in Topics, NEW c \in Consumers, NEW m \in Nat,
                        <<t, c, m>> \in Handed
                 PROVE  <<t, c, m>> \in Handed'
        BY DEF Handed
    <2>1. seen[t][c] \subseteq seen'[t][c]
        BY <1>2, <1>3 DEF TypeInv
    <2>2. request.op = "recv" /\ request.t = t /\ request.c = c /\ m \in request.ids
          => m \in seen'[t][c]
        BY <1>2, <1>3 DEF TypeInv
    <2> QED
        BY <1>1, <2>1, <2>2 DEF Handed
<1>7. \A b : Sound(b, appends, Handed) => Sound(b, appends', Handed')
    BY <1>1, <1>5, <1>6, CopyKept DEF TypeInv
<1> QED
    BY <1>1, <1>5, <1>7 DEF SoundInv, Holds, Unreadable, Absent, Emptied, Mixed

\* load_broker gives a sound broker.
LEMMA LoadedSound ==
    ASSUME TypeInv, SoundInv
    PROVE  Sound(Loaded, appends, Handed)
<1>1. CASE file \in Unreadable
    BY <1>1, DefaultSound DEF Loaded, Unreadable, TypeInv
<1>2. CASE file \notin Unreadable
    BY <1>2 DEF SoundInv, Loaded, Unreadable
<1> QED
    BY <1>1, <1>2

\* The answer a process dies with goes to cutOff; the next one loads the file.
LEMMA RestartSound ==
    ASSUME TypeInv, SoundInv, Restart
    PROVE  TypeInv' /\ SoundInv'
<1>1. /\ restarts < MaxRestarts /\ restarts' = restarts + 1
      /\ broker' = Loaded /\ joined' = {} /\ listening' = {} /\ request' = None
      /\ save' = [x \in Tasks |-> Idle]
      /\ boot' \subseteq Topics
      /\ UNCHANGED <<file, appends, seen>>
    BY DEF Restart
<1>2. Idle \in Saving /\ Idle.at = "idle" /\ Idle.snap = None
    BY DEF Saving, Idle
<1>3. TypeInv'
    BY <1>1, <1>2, BrokerConstants DEF TypeInv
<1>4. Handed \subseteq Handed'
    <2>1. cutOff \subseteq cutOff'
        BY DEF Restart
    <2>2. ASSUME NEW t \in Topics, NEW c \in Consumers, NEW m \in Nat,
                 request # None, request.op = "recv", request.t = t, request.c = c,
                 m \in request.ids
          PROVE  <<t, c, m>> \in cutOff'
        BY <2>2 DEF Restart
    <2> QED
        BY <1>1, <2>1, <2>2 DEF Handed
<1>5. \A b : Sound(b, appends, Handed) => Sound(b, appends', Handed')
    BY <1>1, <1>3, <1>4, CopyKept DEF TypeInv
<1>6. Sound(broker', appends', Handed')
    BY <1>1, <1>5, LoadedSound
<1>7. \A x \in Tasks : ~Holds(x)'
    BY <1>1, <1>2 DEF Holds
<1> QED
    BY <1>1, <1>3, <1>5, <1>6, <1>7 DEF SoundInv, Unreadable, Absent, Emptied, Mixed

\* Every step keeps the types and every copy sound.
LEMMA NextSound == TypeInv /\ SoundInv /\ [Next]_vars => TypeInv' /\ SoundInv'
<1> SUFFICES ASSUME TypeInv, SoundInv, [Next]_vars PROVE TypeInv' /\ SoundInv'
    OBVIOUS
<1>1. CASE \E x \in Tasks : TakeSnapshot(x) \/ OpenFile(x) \/ WriteFile(x)
    BY <1>1, SaveSound
<1>2. CASE \E t \in Topics, tickets \in SUBSET Tickets : GossipJoin(t, tickets)
    BY <1>2, GossipJoinSound
<1>3. CASE \E t \in Topics, from \in Senders : GossipSend(t, from) \/ Received(t, from)
    BY <1>3, AppendStepSound
<1>4. CASE \E t \in Topics, c \in Consumers : GossipRecv(t, c)
    BY <1>4, GossipRecvSound
<1>5. CASE SendJoins
    BY <1>5, SendJoinsSound
<1>6. CASE Answer
    BY <1>6, AnswerSound
<1>7. CASE Restart
    BY <1>7, RestartSound
<1>8. CASE \E t \in Topics : Rejoin(t) \/ Rejoined(t)
    BY <1>8, RejoinSound, RejoinedSound
<1>9. CASE UNCHANGED vars
    BY <1>9, HandedSame DEF vars, TypeInv, SoundInv, Holds, Unreadable, Absent, Emptied, Mixed
<1> QED
    BY <1>1, <1>2, <1>3, <1>4, <1>5, <1>6, <1>7, <1>8, <1>9 DEF Next

\* The types and the soundness of every copy, in every reachable state.
LEMMA AlwaysSound == Spec => [](TypeInv /\ SoundInv)
    BY InitSound, NextSound, PTL DEF Spec

\* A sound copy is well formed.
LEMMA SoundWellFormed ==
    ASSUME TypeInv, NEW b, Sound(b, appends, Handed)
    PROVE  WellFormed(b)
<1>1. b \in Brokers /\ Given(b, appends)
    BY DEF Sound
<1>2. b.next_seq \in 0..MaxAppends
    BY <1>1, BrokerConstants DEF TypeInv, Given, Brokers
<1>3. ASSUME NEW t \in Topics, NEW k \in 1..Len(b.log[t])
      PROVE  /\ b.log[t][k].seq \in 0..b.next_seq - 1
             /\ b.log[t][k].from \in Senders /\ b.log[t][k].id \in 1..MaxAppends
    <2>1. b.log[t][k] \in Entries /\ b.next_seq \in Nat
        BY <1>1 DEF Brokers
    <2>2. b.log[t][k].seq < b.next_seq /\ b.log[t][k].id \in 1..appends
        BY <1>1 DEF Given
    <2> QED
        BY <2>1, <2>2, Bounds, SMTT(60) DEF Entries, TypeInv
<1>4. ASSUME NEW t \in Topics
      PROVE  /\ \A c \in Consumers : b.cursors[t][c] \in 0..Len(b.log[t])
             /\ b.subs[t] \in (SUBSET Tickets) \cup {None}
    BY <1>1 DEF Given, Brokers
<1> QED
    BY <1>2, <1>3, <1>4 DEF WellFormed

\* The broker in memory, every snapshot and the file, when it parses, are well
\* formed in every reachable state, for any interleaving of requests, receiver
\* tasks and saves and for a process that dies anywhere.
THEOREM BrokerTypeOK == Spec => []TypeOK
<1>1. TypeInv /\ SoundInv => TypeOK
    <2> SUFFICES ASSUME TypeInv, SoundInv PROVE TypeOK
        OBVIOUS
    <2>1. WellFormed(broker)
        BY SoundWellFormed DEF SoundInv
    <2>2. file \in {Absent, Emptied, Mixed} \/ WellFormed(file)
        BY SoundWellFormed DEF SoundInv, Unreadable
    <2>3. \A x \in Tasks : save[x].at \in {"open", "write"} => WellFormed(save[x].snap)
        BY SoundWellFormed DEF SoundInv, Holds
    <2> QED
        BY <2>1, <2>2, <2>3 DEF TypeOK, TypeInv
<1> QED
    BY <1>1, AlwaysSound, PTL

\* No two entries ever carry one sequence number: not after a restart that
\* loaded an old file, an emptied one or one two writers mixed.
THEOREM BrokerSeqsDiffer == Spec => []SeqsDiffer
<1>1. SoundInv => SeqsDiffer
    BY DEF SoundInv, Sound, Distinct, SeqsDiffer
<1> QED
    BY <1>1, AlwaysSound, PTL

\* A cursor never passes an entry its consumer was not handed, except in an
\* answer the process died with.
THEOREM BrokerNoGap == Spec => []NoGap
<1>1. SoundInv => NoGap
    <2> SUFFICES ASSUME SoundInv, NEW t \in Topics, NEW c \in Consumers,
                        NEW k \in 1..broker.cursors[t][c],
                        broker.log[t][k].from # SkipOf[c]
                 PROVE  \/ broker.log[t][k].id \in seen[t][c]
                        \/ <<t, c, broker.log[t][k].id>> \in cutOff
                        \/ /\ request # None /\ request.op = "recv" /\ request.t = t
                           /\ request.c = c /\ broker.log[t][k].id \in request.ids
        BY DEF NoGap
    <2>1. <<t, c, broker.log[t][k].id>> \in Handed
        BY DEF SoundInv, Sound, Gapless
    <2> QED
        BY <2>1 DEF Handed
<1> QED
    BY <1>1, AlwaysSound, PTL

-----------------------------------------------------------------------------
(* What was answered survives.  A, D and M are messages sent, deliveries   *)
(* and topics joined that a copy has to hold.                              *)

Covers(b, A, D, M) ==
    /\ \A a \in A : \E k \in 1..Len(b.log[a[1]]) : b.log[a[1]][k].id = a[2]
    /\ \A d \in D : \E k \in 1..b.cursors[d[1]][d[2]] : b.log[d[1]][k].id = d[3]
    /\ \A t \in M : b.subs[t] # None

\* What was answered, and what the request under way is about to answer.
OwedSends ==
    acked \cup IF request # None /\ request.op = "send"
               THEN {<<request.t, m>> : m \in request.ids} ELSE {}
OwedDone ==
    done \cup IF request # None /\ request.op = "recv"
              THEN {<<request.t, request.c, m>> : m \in request.ids} ELSE {}
OwedTopics == members \cup joined

Answered(b) == Covers(b, acked, done, members)
Owed(b) == Covers(b, OwedSends, OwedDone, OwedTopics)

BookTypes ==
    /\ acked \subseteq Topics \X Nat /\ done \subseteq Topics \X Consumers \X Nat
    /\ members \subseteq Topics

Writing == \E x \in Tasks : save[x].at = "write"

\* The broker in memory holds what is owed; so does every copy once Main has
\* saved, and before that it holds what was answered.  One task at a time has
\* a snapshot, and while it writes there is nothing in the file.
DurableInv ==
    /\ BookTypes
    /\ boot \subseteq {t \in Topics : broker.subs[t] # None}
    /\ clean =>
        /\ Owed(broker)
        /\ \A x, y \in Tasks : Holds(x) /\ Holds(y) => x = y
        /\ \A x \in Tasks : Holds(x) =>
             /\ Answered(save[x].snap)
             /\ x = Main \/ save[Main] = Idle => Owed(save[x].snap)
        /\ Writing => file = Emptied
        /\ ~Writing => /\ Answered(Loaded)
                       /\ save[Main] = Idle => Owed(Loaded)

\* A copy covers less of less.
LEMMA CoversLess ==
    ASSUME NEW b, NEW A, NEW D, NEW M, NEW B \in SUBSET A, NEW E \in SUBSET D, NEW N \in SUBSET M,
           Covers(b, A, D, M)
    PROVE  Covers(b, B, E, N)
    BY DEF Covers

\* What is owed includes what was answered.
LEMMA OwedAnswered ==
    ASSUME NEW b, Owed(b)
    PROVE  Answered(b)
    BY CoversLess DEF Owed, Answered, OwedSends, OwedDone, OwedTopics

\* One broker goes on from another: logs and cursors grow, subscriptions stay.
Extends(b, c) ==
    /\ \A t \in Topics :
         /\ Len(b.log[t]) <= Len(c.log[t])
         /\ \A k \in 1..Len(b.log[t]) : c.log[t][k] = b.log[t][k]
         /\ b.subs[t] # None => c.subs[t] # None
    /\ \A t \in Topics, d \in Consumers : b.cursors[t][d] <= c.cursors[t][d]

\* A broker covers what the one it goes on from covers.
LEMMA ExtendsCovers ==
    ASSUME NEW b \in Brokers, NEW c \in Brokers, NEW n, Given(b, n), Extends(b, c),
           NEW A \in SUBSET (Topics \X Nat), NEW D \in SUBSET (Topics \X Consumers \X Nat),
           NEW M \in SUBSET Topics, Covers(b, A, D, M)
    PROVE  Covers(c, A, D, M)
<1>1. \A t \in Topics : Len(b.log[t]) \in Nat /\ Len(c.log[t]) \in Nat
    BY DEF Brokers
<1>2. \A t \in Topics, d \in Consumers : b.cursors[t][d] \in Nat /\ c.cursors[t][d] \in Nat
    BY DEF Brokers
<1>3. ASSUME NEW a \in A PROVE \E k \in 1..Len(c.log[a[1]]) : c.log[a[1]][k].id = a[2]
    <2>1. PICK k \in 1..Len(b.log[a[1]]) : b.log[a[1]][k].id = a[2]
        BY DEF Covers
    <2>2. a[1] \in Topics
        OBVIOUS
    <2>3. k \in 1..Len(c.log[a[1]]) /\ c.log[a[1]][k] = b.log[a[1]][k]
        BY <1>1, <2>2 DEF Extends
    <2> QED
        BY <2>1, <2>3
<1>4. ASSUME NEW d \in D
      PROVE  \E k \in 1..c.cursors[d[1]][d[2]] : c.log[d[1]][k].id = d[3]
    <2>1. PICK k \in 1..b.cursors[d[1]][d[2]] : b.log[d[1]][k].id = d[3]
        BY DEF Covers
    <2>2. d[1] \in Topics /\ d[2] \in Consumers
        OBVIOUS
    <2>3. k \in 1..Len(b.log[d[1]])
        BY <1>1, <1>2, <2>2 DEF Given
    <2>4. c.log[d[1]][k] = b.log[d[1]][k]
        BY <2>2, <2>3 DEF Extends
    <2>5. b.cursors[d[1]][d[2]] <= c.cursors[d[1]][d[2]]
        BY <2>2 DEF Extends
    <2>6. k \in 1..c.cursors[d[1]][d[2]]
        BY <1>2, <2>2, <2>5
    <2> QED
        BY <2>1, <2>4, <2>6
<1>5. \A t \in M : c.subs[t] # None
    BY DEF Covers, Extends
<1> QED
    BY <1>3, <1>4, <1>5 DEF Covers

\* append goes on from the broker it appends to.
LEMMA AppendedExtends ==
    ASSUME NEW b \in Brokers, NEW n \in Nat, NEW t \in Topics, NEW from \in Senders
    PROVE  /\ Appended(b, t, from, n + 1) \in Brokers
           /\ Extends(b, Appended(b, t, from, n + 1))
           /\ \E k \in 1..Len(Appended(b, t, from, n + 1).log[t]) :
                 Appended(b, t, from, n + 1).log[t][k].id = n + 1
<1> DEFINE e == [seq |-> b.next_seq, from |-> from, id |-> n + 1]
           a == Appended(b, t, from, n + 1)
<1>1. e.id = n + 1
    OBVIOUS
<1>2. /\ a \in Brokers
      /\ a.cursors = b.cursors /\ a.subs = b.subs
      /\ \A u \in Topics \ {t} : a.log[u] = b.log[u]
      /\ \A u \in Topics : Len(b.log[u]) \in Nat
      /\ Len(a.log[t]) = Len(b.log[t]) + 1
      /\ a.log[t][Len(b.log[t]) + 1] = e
      /\ \A k \in 1..Len(b.log[t]) : a.log[t][k] = b.log[t][k]
    BY AppendedLog
<1> HIDE DEF a, e
<1>3. \A u \in Topics, d \in Consumers : b.cursors[u][d] <= a.cursors[u][d]
    BY <1>2 DEF Brokers
<1>4. Extends(b, a)
    BY <1>2, <1>3 DEF Extends
<1>5. \E k \in 1..Len(a.log[t]) : a.log[t][k].id = n + 1
    <2>1. Len(b.log[t]) + 1 \in 1..Len(a.log[t])
        BY <1>2
    <2> QED
        BY <1>1, <1>2, <2>1
<1> QED
    BY <1>2, <1>4, <1>5 DEF a

\* So does a subscription ...
LEMMA SubscribedExtends ==
    ASSUME NEW b \in Brokers, NEW t \in Topics, NEW tickets, tickets # None,
           NEW a, a = [b EXCEPT !.subs[t] = tickets]
    PROVE  Extends(b, a) /\ a.subs[t] # None
<1>1. b = [log |-> b.log, cursors |-> b.cursors, next_seq |-> b.next_seq, subs |-> b.subs]
      /\ b.subs \in [Topics -> (SUBSET Tickets) \cup {None}]
    BY DEF Brokers
<1>2. a = [log |-> b.log, cursors |-> b.cursors, next_seq |-> b.next_seq,
           subs |-> [b.subs EXCEPT ![t] = tickets]]
    BY <1>1
<1>3. a.log = b.log /\ a.cursors = b.cursors /\ a.subs = [b.subs EXCEPT ![t] = tickets]
    BY <1>2
<1>4. \A u \in Topics : Len(b.log[u]) \in Nat /\ \A d \in Consumers : b.cursors[u][d] \in Nat
    BY DEF Brokers
<1> QED
    BY <1>1, <1>3, <1>4 DEF Extends

\* ... and a drain.
LEMMA DrainedExtends ==
    ASSUME NEW b \in Brokers, NEW t \in Topics, NEW c \in Consumers, NEW j \in Nat,
           b.cursors[t][c] <= j, NEW a, a = [b EXCEPT !.cursors[t][c] = j]
    PROVE  Extends(b, a) /\ a.log = b.log /\ a.cursors[t][c] = j
<1>1. b = [log |-> b.log, cursors |-> b.cursors, next_seq |-> b.next_seq, subs |-> b.subs]
      /\ b.cursors \in [Topics -> [Consumers -> Nat]]
    BY DEF Brokers
<1>2. a = [log |-> b.log, cursors |-> [b.cursors EXCEPT ![t][c] = j],
           next_seq |-> b.next_seq, subs |-> b.subs]
    BY <1>1
<1>3. a.log = b.log /\ a.subs = b.subs /\ a.cursors = [b.cursors EXCEPT ![t][c] = j]
    BY <1>2
<1>4. \A u \in Topics : Len(b.log[u]) \in Nat /\ \A d \in Consumers : b.cursors[u][d] \in Nat
    BY DEF Brokers
<1>5. \A u \in Topics, d \in Consumers : b.cursors[u][d] <= a.cursors[u][d]
    BY <1>1, <1>3, <1>4
<1> QED
    BY <1>1, <1>3, <1>4, <1>5 DEF Extends

\* What parses is told from what does not.
LEMMA Readable == ASSUME NEW b \in Brokers PROVE b \notin Unreadable
<1>1. DOMAIN b = {"log", "cursors", "next_seq", "subs"}
    BY DEF Brokers
<1>2. \A x : DOMAIN <<x>> = {1}
    OBVIOUS
<1> QED
    BY <1>1, <1>2 DEF Unreadable, Absent, Emptied, Mixed

-----------------------------------------------------------------------------
(* DurableInv is inductive.                                                *)

\* What is owed is of the right types.
LEMMA OwedTypes ==
    ASSUME TypeInv, BookTypes
    PROVE  /\ OwedSends \in SUBSET (Topics \X Nat)
           /\ OwedDone \in SUBSET (Topics \X Consumers \X Nat)
           /\ OwedTopics \in SUBSET Topics
    BY DEF TypeInv, BookTypes, Requests, OwedSends, OwedDone, OwedTopics

\* The broker in memory covers what it covered, after a step it grows in.
LEMMA MemoryCovers ==
    ASSUME TypeInv, SoundInv, DurableInv, clean, NEW b \in Brokers, Extends(broker, b)
    PROVE  Covers(b, OwedSends, OwedDone, OwedTopics)
    BY OwedTypes, ExtendsCovers DEF SoundInv, Sound, DurableInv, Owed

\* A step of a request or a receiver that starts at most a save of its task.
LEMMA MemoryDurable ==
    ASSUME TypeInv, DurableInv, NEW x \in Tasks,
           (Saves(x) /\ save[x] = Idle) \/ UNCHANGED save,
           UNCHANGED <<file, clean, acked, done, members>>,
           boot' \subseteq {t \in Topics : broker'.subs[t] # None},
           clean => Covers(broker', OwedSends', OwedDone', OwedTopics'),
           save'[Main] = save[Main] =>
               OwedSends' = OwedSends /\ OwedDone' = OwedDone /\ OwedTopics' = OwedTopics
    PROVE  DurableInv'
<1>1. \A y \in Tasks : Holds(y)' => Holds(y) /\ save'[y] = save[y]
    BY SavesKept DEF Holds
<1>2. Writing' <=> Writing
    BY DEF Saves, Idle, Writing, TypeInv
<1>3. save'[Main] = save[Main] \/ (save'[Main] # Idle /\ ~Holds(Main)')
    <2>1. Main \in Tasks
        BY DEF Tasks
    <2>2. CASE Saves(x) /\ x = Main
        <3>1. save'[Main] = [at |-> "lock", snap |-> None]
            BY <2>1, <2>2 DEF Saves, TypeInv
        <3> QED
            BY <3>1 DEF Idle, Holds
    <2>3. CASE Saves(x) /\ x # Main
        <3>1. save \in [Tasks -> Saving]
            BY DEF TypeInv
        <3>2. save'[Main] = save[Main]
            BY <2>1, <2>3, <3>1 DEF Saves
        <3> QED
            BY <3>2
    <2>4. CASE UNCHANGED save
        <3>1. save'[Main] = save[Main]
            BY <2>4
        <3> QED
            BY <3>1
    <2> QED
        BY <2>2, <2>3, <2>4
<1>4. BookTypes' /\ Loaded' = Loaded
    BY DEF DurableInv, BookTypes, Loaded, Absent, Emptied, Mixed, Default
<1>5. ASSUME clean, NEW y \in Tasks, Holds(y)'
      PROVE  /\ Covers(save'[y].snap, acked', done', members')
             /\ y = Main \/ save'[Main] = Idle
                => Covers(save'[y].snap, OwedSends', OwedDone', OwedTopics')
    BY <1>1, <1>3, <1>5 DEF DurableInv, Answered, Owed
<1>6. ASSUME clean, ~Writing
      PROVE  /\ Covers(Loaded, acked', done', members')
             /\ save'[Main] = Idle => Covers(Loaded, OwedSends', OwedDone', OwedTopics')
    BY <1>3, <1>6 DEF DurableInv, Answered, Owed
<1>7. clean /\ Writing => file' = Emptied'
    BY DEF DurableInv, Emptied
<1>8. clean => \A y, z \in Tasks : Holds(y)' /\ Holds(z)' => y = z
    BY <1>1 DEF DurableInv
<1> QED
    BY <1>2, <1>4, <1>5, <1>6, <1>7, <1>8 DEF DurableInv, Answered, Owed, Idle

\* Nothing is owed, and the file is missing.
LEMMA InitDurable == Init => DurableInv
<1> SUFFICES ASSUME Init PROVE DurableInv
    OBVIOUS
<1>1. \A x \in Tasks : save[x].at = "idle"
    BY DEF Init, Idle
<1>2. ~Writing /\ \A x \in Tasks : ~Holds(x)
    BY <1>1 DEF Writing, Holds
<1>3. OwedSends = {} /\ OwedDone = {} /\ OwedTopics = {}
    BY DEF Init, OwedSends, OwedDone, OwedTopics
<1>4. \A b : Owed(b) /\ Answered(b)
    BY <1>3 DEF Owed, Answered, Covers, Init
<1> QED
    BY <1>2, <1>4 DEF DurableInv, BookTypes, Init

\* save_broker, as long as no other save is under way.
LEMMA SaveDurable ==
    ASSUME TypeInv, SoundInv, DurableInv, NEW x \in Tasks,
           TakeSnapshot(x) \/ OpenFile(x) \/ WriteFile(x)
    PROVE  DurableInv'
<1>1. UNCHANGED <<broker, request, boot, acked, done, members, joined>>
    BY DEF TakeSnapshot, OpenFile, WriteFile, books
<1>2. OwedSends' = OwedSends /\ OwedDone' = OwedDone /\ OwedTopics' = OwedTopics
    BY <1>1 DEF OwedSends, OwedDone, OwedTopics
<1>3. /\ \A b : Covers(b, acked', done', members') <=> Answered(b)
      /\ \A b : Covers(b, OwedSends', OwedDone', OwedTopics') <=> Owed(b)
    BY <1>1, <1>2 DEF Answered, Owed
<1>4. BookTypes' /\ boot' \subseteq {t \in Topics : broker'.subs[t] # None}
    BY <1>1 DEF DurableInv, BookTypes
<1>5. save \in [Tasks -> Saving] /\ save[x] \in Saving /\ Main \in Tasks
    BY DEF TypeInv, Tasks
<1>6. CASE clean'
    <2>1. clean
        BY <1>6 DEF TakeSnapshot, OpenFile, WriteFile
    <2>2. /\ Covers(broker', OwedSends', OwedDone', OwedTopics')
          /\ \A y, z \in Tasks : Holds(y) /\ Holds(z) => y = z
          /\ \A y \in Tasks : Holds(y) =>
               /\ Answered(save[y].snap)
               /\ y = Main \/ save[Main] = Idle => Owed(save[y].snap)
          /\ Writing => file = Emptied
          /\ ~Writing => Answered(Loaded) /\ (save[Main] = Idle => Owed(Loaded))
        BY <1>1, <1>3, <2>1 DEF DurableInv
    <2>3. CASE TakeSnapshot(x)
        <3>1. /\ save' = [save EXCEPT ![x] = [at |-> "open", snap |-> broker]] /\ file' = file
              /\ save[x].at = "lock" /\ \A y \in Tasks \ {x} : save[y] = Idle
            BY <1>6, <2>3 DEF TakeSnapshot
        <3>2. \A y \in Tasks : Holds(y)' <=> y = x
            BY <1>5, <3>1 DEF Holds, Idle
        <3>3. ~Writing' /\ ~Writing
            BY <1>5, <3>1 DEF Writing, Idle
        <3>4. save'[x].snap = broker /\ (save'[Main] = Idle => save[Main] = Idle)
            BY <1>5, <3>1 DEF Idle
        <3>5. Owed(broker) /\ Answered(broker)
            BY <2>1, OwedAnswered DEF DurableInv
        <3>6. Loaded' = Loaded
            BY <3>1 DEF Loaded, Absent, Emptied, Mixed, Default
        <3> QED
            BY <1>3, <1>4, <2>2, <3>2, <3>3, <3>4, <3>5, <3>6 DEF DurableInv, Answered, Owed, Idle
    <2>4. CASE OpenFile(x)
        <3>1. /\ save' = [save EXCEPT ![x].at = "write"] /\ file' = Emptied
              /\ save[x].at = "open"
            BY <2>4 DEF OpenFile
        <3>2. \A y \in Tasks : (Holds(y)' <=> Holds(y)) /\ save'[y].snap = save[y].snap
            BY <1>5, <3>1 DEF Holds, Saving
        <3>3. Writing' /\ save'[x].at = "write" /\ file' = Emptied'
            BY <1>5, <3>1 DEF Writing, Saving, Emptied
        <3>4. save'[Main] = Idle => save[Main] = Idle
            BY <1>5, <3>1, <3>3 DEF Idle
        <3> QED
            BY <1>3, <1>4, <2>2, <3>2, <3>3, <3>4 DEF DurableInv, Answered, Owed, Idle
    <2>5. CASE WriteFile(x)
        <3>1. /\ save' = [save EXCEPT ![x] = Idle] /\ save[x].at = "write" /\ Holds(x)
              /\ file' = save[x].snap \/ (file # Emptied /\ file' = Mixed)
            BY <2>5 DEF WriteFile, Holds
        <3>2. file' = save[x].snap
            BY <2>2, <3>1 DEF Writing
        <3>3. \A y \in Tasks : ~Holds(y)'
            BY <1>5, <2>2, <3>1 DEF Holds, Idle
        <3>4. ~Writing'
            BY <3>3 DEF Writing, Holds
        <3>5. save[x].snap \in Brokers
            BY <3>1 DEF SoundInv, Sound
        <3>6. Loaded' = save[x].snap
            BY <3>2, <3>5, Readable DEF Loaded, Unreadable, Absent, Emptied, Mixed
        <3>7. save'[Main] = Idle => x = Main \/ save[Main] = Idle
            BY <1>5, <3>1
        <3> QED
            BY <1>3, <1>4, <2>2, <3>1, <3>3, <3>4, <3>6, <3>7 DEF DurableInv, Answered, Owed, Idle
    <2> QED
        BY <2>3, <2>4, <2>5
<1> QED
    BY <1>4, <1>6 DEF DurableInv

\* Subscribing, on a join, a send or a restart.
LEMMA SubscribeDurable ==
    ASSUME TypeInv, SoundInv, DurableInv, NEW t \in Topics,
           NEW tickets \in SUBSET Tickets, Subscribe(t, tickets), save[Main] = Idle,
           UNCHANGED <<file, clean, acked, done, members, boot>>,
           OwedSends' = OwedSends, OwedDone' = OwedDone
    PROVE  DurableInv'
<1>1. /\ Main \in Tasks /\ Saves(Main) /\ joined' = joined \cup {t}
      /\ broker' = [broker EXCEPT !.subs[t] = tickets]
    BY DEF Tasks, Subscribe
<1>2. Sound([broker EXCEPT !.subs[t] = tickets], appends, Handed) /\ broker \in Brokers
    <2>1. Sound(broker, appends, Handed) /\ appends \in Nat
        BY DEF SoundInv, TypeInv
    <2>2. Sound([broker EXCEPT !.subs[t] = tickets], appends, Handed)
        BY <2>1, SubscribedSound
    <2> QED
        BY <2>1, <2>2 DEF Sound
<1>3. broker' \in Brokers
    BY <1>1, <1>2 DEF Sound
<1>4. Extends(broker, broker') /\ broker'.subs[t] # None
    BY <1>1, <1>2, SubscribedExtends, BrokerConstants
<1>5. boot' \subseteq {u \in Topics : broker'.subs[u] # None}
    BY <1>4 DEF DurableInv, Extends
<1>6. OwedTopics' = OwedTopics \cup {t}
    BY <1>1 DEF OwedTopics
<1>7. clean => Covers(broker', OwedSends', OwedDone', OwedTopics')
    BY <1>3, <1>4, <1>6, MemoryCovers DEF Covers
<1>8. save'[Main] # save[Main]
    BY <1>1, SavesKept
<1> QED
    BY <1>1, <1>5, <1>7, <1>8, MemoryDurable

\* gossip_join.
LEMMA GossipJoinDurable ==
    ASSUME TypeInv, SoundInv, DurableInv, NEW t \in Topics, NEW tickets \in SUBSET Tickets,
           GossipJoin(t, tickets)
    PROVE  DurableInv'
<1>1. /\ save[Main] = Idle /\ request = None /\ Subscribe(t, tickets)
      /\ request' = [op |-> "join", t |-> t, ids |-> {}, c |-> None]
      /\ UNCHANGED <<file, clean, acked, done, members, boot>>
    BY DEF GossipJoin, MainIdle, books
<1>2. OwedSends' = OwedSends /\ OwedDone' = OwedDone
    BY <1>1 DEF OwedSends, OwedDone
<1> QED
    BY <1>1, <1>2, SubscribeDurable

\* The join a send makes.
LEMMA SendJoinsDurable ==
    ASSUME TypeInv, SoundInv, DurableInv, SendJoins
    PROVE  DurableInv'
<1>1. /\ save[Main] = Idle /\ Subscribe(request.t, {}) /\ request # None
      /\ UNCHANGED <<request, file, clean, acked, done, members, boot>>
    BY DEF SendJoins, books
<1>2. OwedSends' = OwedSends /\ OwedDone' = OwedDone
    BY <1>1 DEF OwedSends, OwedDone
<1>3. request.t \in Topics
    BY <1>1 DEF TypeInv, Requests
<1> QED
    BY <1>1, <1>2, <1>3, SubscribeDurable

\* The join main makes after a restart, with the tickets it has loaded.
LEMMA RejoinDurable ==
    ASSUME TypeInv, SoundInv, DurableInv, NEW t \in Topics, Rejoin(t)
    PROVE  DurableInv'
<1>1. /\ save[Main] = Idle /\ Subscribe(t, broker.subs[t]) /\ t \in boot
      /\ UNCHANGED <<request, file, clean, acked, done, members, boot>>
    BY DEF Rejoin, books
<1>2. OwedSends' = OwedSends /\ OwedDone' = OwedDone
    BY <1>1 DEF OwedSends, OwedDone
<1>3. broker.subs[t] \in SUBSET Tickets
    BY <1>1 DEF DurableInv, SoundInv, Sound, Brokers
<1> QED
    BY <1>1, <1>2, <1>3, SubscribeDurable

\* main goes on to the next subscription.
LEMMA RejoinedDurable ==
    ASSUME TypeInv, SoundInv, DurableInv, NEW t \in Topics, Rejoined(t)
    PROVE  DurableInv'
<1>1. /\ boot' \subseteq boot
      /\ UNCHANGED <<broker, save, request, joined, file, clean, acked, done, members>>
    BY DEF Rejoined, books
<1>2. OwedSends' = OwedSends /\ OwedDone' = OwedDone /\ OwedTopics' = OwedTopics
    BY <1>1 DEF OwedSends, OwedDone, OwedTopics
<1>3. clean => Covers(broker', OwedSends', OwedDone', OwedTopics')
    BY <1>1, <1>2 DEF DurableInv, Owed
<1>4. boot' \subseteq {u \in Topics : broker'.subs[u] # None}
    BY <1>1 DEF DurableInv
<1> QED
    BY <1>1, <1>2, <1>3, <1>4, MemoryDurable DEF Tasks

\* gossip_send, and a message that reaches a receiver task.
LEMMA AppendDurable ==
    ASSUME TypeInv, SoundInv, DurableInv, NEW t \in Topics, NEW from \in Senders,
           GossipSend(t, from) \/ Received(t, from)
    PROVE  DurableInv'
<1>1. /\ broker' = Appended(broker, t, from, appends + 1)
      /\ UNCHANGED <<joined, boot, file, clean, acked, done, members>>
    BY DEF GossipSend, Received
<1>2. /\ broker' \in Brokers /\ Extends(broker, broker')
      /\ \E k \in 1..Len(broker'.log[t]) : broker'.log[t][k].id = appends + 1
    BY <1>1, AppendedExtends DEF SoundInv, Sound, TypeInv
<1>3. clean => Covers(broker', OwedSends, OwedDone, OwedTopics)
    BY <1>2, MemoryCovers
<1>4. boot' \subseteq {u \in Topics : broker'.subs[u] # None}
    BY <1>1, <1>2 DEF DurableInv, Extends
<1>5. CASE GossipSend(t, from)
    <2>1. /\ Main \in Tasks /\ Saves(Main) /\ save[Main] = Idle /\ request = None
          /\ request' = [op |-> "send", t |-> t, ids |-> {appends + 1}, c |-> None]
        BY <1>5 DEF GossipSend, MainIdle, Tasks
    <2>2. OwedSends' \subseteq OwedSends \cup {<<t, appends + 1>>}
        BY <1>1, <2>1 DEF OwedSends
    <2>3. OwedDone' = OwedDone /\ OwedTopics' = OwedTopics
        BY <1>1, <2>1 DEF OwedDone, OwedTopics
    <2>4. clean => Covers(broker', OwedSends', OwedDone', OwedTopics')
        BY <1>2, <1>3, <2>2, <2>3 DEF Covers
    <2>5. save'[Main] # save[Main]
        BY <2>1, SavesKept
    <2> QED
        BY <1>1, <1>4, <2>1, <2>4, <2>5, MemoryDurable
<1>6. CASE Received(t, from)
    <2>1. t \in Tasks /\ Saves(t) /\ save[t] = Idle /\ UNCHANGED request
        BY <1>6 DEF Received, Tasks
    <2>2. OwedSends' = OwedSends /\ OwedDone' = OwedDone /\ OwedTopics' = OwedTopics
        BY <1>1, <2>1 DEF OwedSends, OwedDone, OwedTopics
    <2> QED
        BY <1>1, <1>3, <1>4, <2>1, <2>2, MemoryDurable
<1> QED
    BY <1>5, <1>6

\* gossip_recv.
LEMMA GossipRecvDurable ==
    ASSUME TypeInv, SoundInv, DurableInv, NEW t \in Topics, NEW c \in Consumers, GossipRecv(t, c)
    PROVE  DurableInv'
<1> DEFINE r == Drained(broker, t, c)
<1>1. /\ request = None /\ save[Main] = Idle /\ Main \in Tasks
      /\ UNCHANGED <<joined, boot, file, clean, acked, done, members>>
      /\ broker' = [broker EXCEPT !.cursors[t][c] = r.idx]
      /\ request' = IF r.ids = {} THEN None ELSE [op |-> "recv", t |-> t, ids |-> r.ids, c |-> c]
      /\ IF r.ids = {} THEN UNCHANGED save ELSE Saves(Main)
    BY DEF GossipRecv, MainIdle, SavesCursor, books, Tasks
<1>2. broker \in Brokers /\ Given(broker, appends) /\ broker.cursors[t][c] \in Nat
    BY DEF SoundInv, Sound, Brokers
<1>3. /\ r.idx \in Nat /\ broker.cursors[t][c] <= r.idx
      /\ \A m \in r.ids : \E k \in 1..r.idx : broker.log[t][k].id = m
    <2>1. Sound(broker, appends, Handed) /\ appends \in Nat
        BY DEF SoundInv, TypeInv
    <2> DEFINE G == Handed \cup {<<t, c, m>> : m \in r.ids}
    <2>2. Handed \subseteq G /\ \A m \in r.ids : <<t, c, m>> \in G
        OBVIOUS
    <2> HIDE DEF G
    <2>3. broker.cursors[t][c] <= r.idx
        BY <2>1, <2>2, DrainedSound
    <2>4. broker.cursors[t][c] <= Len(broker.log[t]) /\ Len(broker.log[t]) \in Nat
        BY <1>2 DEF Given, Brokers
    <2> DEFINE j == StopsAt(broker, t, c)
    <2>5. j \in Nat
        BY <1>2, <2>4, StopsAtRange
    <2>6. r.idx = j /\ r.ids = {broker.log[t][k].id : k \in Taken(broker, t, c, j)}
        BY DEF Drained
    <2> HIDE DEF j
    <2>7. \A k \in Taken(broker, t, c, j) : k \in 1..j
        BY <1>2, <2>5 DEF Taken
    <2>8. \A m \in r.ids : \E k \in 1..j : broker.log[t][k].id = m
        BY <2>6, <2>7, Zenon
    <2> QED
        BY <2>3, <2>5, <2>6, <2>8
<1> HIDE DEF r
<1>4. Extends(broker, broker') /\ broker'.log = broker.log /\ broker'.cursors[t][c] = r.idx
    BY <1>1, <1>2, <1>3, DrainedExtends
<1>5. broker' \in Brokers
    <2>1. TypeInv' /\ SoundInv'
        BY GossipRecvSound
    <2> QED
        BY <2>1 DEF SoundInv, Sound
<1>6. clean => Covers(broker', OwedSends, OwedDone, OwedTopics)
    BY <1>4, <1>5, MemoryCovers
<1>7. boot' \subseteq {u \in Topics : broker'.subs[u] # None}
    BY <1>1, <1>4 DEF DurableInv, Extends
<1>8. /\ OwedSends' = OwedSends /\ OwedTopics' = OwedTopics
      /\ OwedDone' \subseteq OwedDone \cup {<<t, c, m>> : m \in r.ids}
      /\ r.ids = {} => OwedDone' = OwedDone
    BY <1>1 DEF OwedSends, OwedTopics, OwedDone
<1>9. clean => Covers(broker', OwedSends', OwedDone', OwedTopics')
    <2>1. \A m \in r.ids : \E k \in 1..broker'.cursors[t][c] : broker'.log[t][k].id = m
        BY <1>3, <1>4
    <2> QED
        BY <1>6, <1>8, <2>1 DEF Covers
<1>10. save'[Main] = save[Main] => r.ids = {}
    BY <1>1, SavesKept
<1> QED
    BY <1>1, <1>7, <1>8, <1>9, <1>10, MemoryDurable

\* What is answered was owed, and Main has saved it.
LEMMA AnswerDurable ==
    ASSUME TypeInv, SoundInv, DurableInv, Answer
    PROVE  DurableInv'
<1>1. /\ request # None /\ save[Main] = Idle /\ request' = None
      /\ UNCHANGED <<broker, save, file, joined, boot, clean>>
      /\ members' = members \cup (joined \cap {request.t})
    BY DEF Answer
<1>2. request \in Requests /\ request.op \in {"send", "join", "recv"}
    BY <1>1 DEF TypeInv, Requests
<1>3. acked' \subseteq OwedSends /\ done' \subseteq OwedDone /\ members' \subseteq OwedTopics
    BY <1>1, <1>2 DEF Answer, OwedSends, OwedDone, OwedTopics
<1>4. OwedSends' = acked' /\ OwedDone' = done' /\ OwedTopics' \subseteq OwedTopics
    BY <1>1, <1>3 DEF OwedSends, OwedDone, OwedTopics
<1>5. ASSUME NEW b, Owed(b)
      PROVE  Covers(b, acked', done', members') /\ Covers(b, OwedSends', OwedDone', OwedTopics')
    BY <1>3, <1>4, <1>5, CoversLess DEF Owed
<1>6. BookTypes'
    BY <1>3, OwedTypes DEF DurableInv, BookTypes
<1>7. /\ Loaded' = Loaded /\ (Writing' <=> Writing) /\ \A x \in Tasks : Holds(x)' <=> Holds(x)
      /\ file' = file /\ Emptied' = Emptied
    BY <1>1 DEF Loaded, Absent, Emptied, Mixed, Default, Writing, Holds
<1> QED
    BY <1>1, <1>5, <1>6, <1>7 DEF DurableInv, Answered, Owed, Idle

\* A process that loads a file nobody was writing finds all that was answered.
LEMMA RestartDurable ==
    ASSUME TypeInv, SoundInv, DurableInv, Restart
    PROVE  DurableInv'
<1>1. /\ broker' = Loaded /\ joined' = {} /\ request' = None
      /\ save' = [x \in Tasks |-> Idle]
      /\ boot' \subseteq {t \in Topics : Loaded.subs[t] # None}
      /\ clean' => clean /\ ~Writing
      /\ UNCHANGED <<file, acked, done, members>>
    BY DEF Restart, Writing
<1>2. OwedSends' = acked /\ OwedDone' = done /\ OwedTopics' = members
    BY <1>1 DEF OwedSends, OwedDone, OwedTopics
<1>3. clean' => Covers(Loaded, acked, done, members)
    BY <1>1 DEF DurableInv, Answered
<1>4. BookTypes' /\ Loaded' = Loaded
    BY <1>1 DEF DurableInv, BookTypes, Loaded, Absent, Emptied, Mixed, Default
<1>5. ~Writing' /\ \A x \in Tasks : ~Holds(x)'
    BY <1>1 DEF Writing, Holds, Idle
<1> QED
    BY <1>1, <1>2, <1>3, <1>4, <1>5 DEF DurableInv, Answered, Owed

\* Every step keeps what is owed.
LEMMA NextDurable == TypeInv /\ SoundInv /\ DurableInv /\ [Next]_vars => DurableInv'
<1> SUFFICES ASSUME TypeInv, SoundInv, DurableInv, [Next]_vars PROVE DurableInv'
    OBVIOUS
<1>1. CASE \E x \in Tasks : TakeSnapshot(x) \/ OpenFile(x) \/ WriteFile(x)
    BY <1>1, SaveDurable
<1>2. CASE \E t \in Topics, tickets \in SUBSET Tickets : GossipJoin(t, tickets)
    BY <1>2, GossipJoinDurable
<1>3. CASE \E t \in Topics, from \in Senders : GossipSend(t, from) \/ Received(t, from)
    BY <1>3, AppendDurable
<1>4. CASE \E t \in Topics, c \in Consumers : GossipRecv(t, c)
    BY <1>4, GossipRecvDurable
<1>5. CASE SendJoins
    BY <1>5, SendJoinsDurable
<1>6. CASE Answer
    BY <1>6, AnswerDurable
<1>7. CASE Restart
    BY <1>7, RestartDurable
<1>8. CASE \E t \in Topics : Rejoin(t) \/ Rejoined(t)
    BY <1>8, RejoinDurable, RejoinedDurable
<1>9. CASE UNCHANGED vars
    BY <1>9 DEF vars, DurableInv, BookTypes, Answered, Owed, OwedSends, OwedDone, OwedTopics,
                Holds, Writing, Loaded, Idle, Absent, Emptied, Mixed, Default
<1> QED
    BY <1>1, <1>2, <1>3, <1>4, <1>5, <1>6, <1>7, <1>8, <1>9 DEF Next

\* As long as no two saves overlapped and none was cut off, what was answered
\* (a message sent, one handed over, a topic joined) survives every restart.
THEOREM BrokerDurable == Spec => []Durable
<1>1. Init => TypeInv /\ SoundInv /\ DurableInv
    BY InitSound, InitDurable
<1>2. (TypeInv /\ SoundInv /\ DurableInv) /\ [Next]_vars => (TypeInv /\ SoundInv /\ DurableInv)'
    BY NextSound, NextDurable
<1>3. DurableInv => Durable
    <2> SUFFICES ASSUME DurableInv, clean PROVE Durable
        BY DEF Durable
    <2>1. Covers(broker, acked, done, members)
        BY OwedAnswered DEF DurableInv, Answered
    <2> QED
        BY <2>1 DEF Covers, Durable, Kept
<1> QED
    BY <1>1, <1>2, <1>3, PTL DEF Spec
=============================================================================
